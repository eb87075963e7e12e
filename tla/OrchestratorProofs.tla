-------------------------- MODULE OrchestratorProofs --------------------------
(***************************************************************************)
(* Proofs about Orchestrator for every set of rooms, every table of        *)
(* profiles, every number of turns and every cap on children.              *)
(*                                                                         *)
(* The argument: the variables have their types (TypeCorrect); a permit is *)
(* held by exactly the walks that run a child (PermitsConserved); and an   *)
(* inductive invariant IInv ties together the worker of a room, its queue, *)
(* its agentic slot and the phases of its jobs, from which the slot and    *)
(* the room are shown to be held by the right job (SlotSafety). On it rest *)
(* an invariant of the registry (ListInv) and one of the logs              *)
(* (TranscriptInv). Last comes the refinement of Dispatch: each action is  *)
(* one of its actions or changes nothing that it sees (StepSeen).          *)
(***************************************************************************)
EXTENDS Orchestrator, FiniteSetTheorems, TLAPS

-----------------------------------------------------------------------------
(* Frame facts: what whole groups of steps leave alone.                    *)

(* A producer changes neither the rooms nor the jobs.                      *)
LEMMA ProducerFrame ==
  ASSUME NEW t \in Turns, ProducerStep(t)
  PROVE  UNCHANGED <<roomVars, jobVars>>
  BY DEF ProducerStep, HttpStep, ChildEnds, HttpAnswer, HttpFail,
         ProducerPanic, ChildRefused, ChildStart, ChildText, ChildUnheard,
         ChildExit, ChildFail

(* Nor do the flush loop and most of what a job does touch the rooms.      *)
LEMMA QuietJobFrame ==
  ASSUME NEW t \in Turns,
         \/ SpawnProducer(t) \/ StreamEnd(t) \/ Retry(t) \/ Render(t)
         \/ Cancel(t) \/ \E b \in stream[t].said : Flush(t, b)
  PROVE  UNCHANGED roomVars
  BY DEF SpawnProducer, StreamEnd, Retry, Render, Cancel, Flush

(* The worker and the commands leave the calls alone.                      *)
LEMMA WorkerFrame ==
  ASSUME NEW r \in Rooms,
         \/ \E named \in BOOLEAN : Post(r, named)
         \/ \E p \in Profiles : SetProfile(r, p)
         \/ WorkerStep(r)
  PROVE  UNCHANGED callVars
  BY DEF Post, SetProfile, WorkerStep, Ignore, Takes, Take, Snapshot, AcquireSlot,
         InsertPending, Spawn, SetAbort, Joined, BudgetElapsed

-----------------------------------------------------------------------------
(* Type correctness.                                                       *)

(* Moving a worker on within its turn, or off it.                          *)
LEMMA StepFacts ==
  ASSUME RoomTypeOK, NEW r \in Rooms, NEW pc \in WorkerPCs, Step(r, pc)
  PROVE  /\ worker' \in [Rooms -> WorkerType]
         /\ worker'[r].pc = pc /\ worker'[r].turn = worker[r].turn
         /\ \A q \in Rooms \ {r} : worker'[q] = worker[q]
  BY DEF RoomTypeOK, WorkerType, Step

(* Taking a worker off its turn.                                           *)
LEMMA LeaveFacts ==
  ASSUME RoomTypeOK, NEW r \in Rooms, Leave(r)
  PROVE  /\ worker' \in [Rooms -> WorkerType]
         /\ worker'[r].pc = "idle" /\ worker'[r].turn = NoTurn
         /\ \A q \in Rooms \ {r} : worker'[q] = worker[q]
  BY DEF RoomTypeOK, WorkerType, Leave, Idle, WorkerPCs

(* The line of a question is one of that turn.                             *)
LEMMA QuestionLine ==
  ASSUME NEW t \in Turns, NEW e \in Asked(t)
  PROVE  e \in Lines /\ e[1] \in {"user", "lost"} /\ e[1] # "assistant" /\ e[2] = t
  BY DEF Asked, Question, Lines

(* Every line is one of a turn.                                            *)
LEMMA LineTurn == \A e \in Lines : e[2] \in Turns
  BY DEF Lines

(* What Take writes: the line of the turn at the head of the queue.        *)
LEMMA TakeWrites ==
  ASSUME NEW r \in Rooms, Takes(r)
  PROVE  \E e \in Asked(Head(queue[r])) :
           log' = [log EXCEPT ![r] = Append(@, e)]
  BY DEF Takes, Take, Asked

(* Every step keeps the types of the variables that are one per room.      *)
LEMMA RoomTypeStep ==
  ASSUME TypeOK, [Next]_vars
  PROVE  RoomTypeOK'
<1>1. ASSUME NEW r \in Rooms, NEW named \in BOOLEAN, Post(r, named)
      PROVE  RoomTypeOK'
  <2>1. Len(home) + 1 \in Turns
    BY <1>1, MaxTurnsAssumption DEF TypeOK, TurnTypeOK, Post, Turns
  <2> QED
    BY <1>1, <2>1 DEF TypeOK, RoomTypeOK, Post
<1>2. ASSUME NEW r \in Rooms, NEW p \in Profiles, SetProfile(r, p)
      PROVE  RoomTypeOK'
  BY <1>2 DEF TypeOK, RoomTypeOK, SetProfile
<1>3. ASSUME NEW r \in Rooms, WorkerStep(r)
      PROVE  RoomTypeOK'
  <2>1. CASE Ignore(r)
    BY <2>1 DEF TypeOK, RoomTypeOK, Ignore
  <2>2. CASE Takes(r)
    <3>1. Head(queue[r]) \in Turns /\ Tail(queue[r]) \in Seq(Turns)
      BY <2>2 DEF Takes, Take, TypeOK, RoomTypeOK
    <3>2. worker' \in [Rooms -> WorkerType]
      BY <2>2, <3>1 DEF TypeOK, RoomTypeOK, Takes, Take, WorkerType, WorkerPCs
    <3>3. log' \in [Rooms -> Seq(Lines)]
      <4>1. PICK e \in Asked(Head(queue[r])) :
                   log' = [log EXCEPT ![r] = Append(@, e)]
        BY <2>2, TakeWrites
      <4>2. e \in Lines /\ log \in [Rooms -> Seq(Lines)]
        BY <3>1, QuestionLine DEF TypeOK, RoomTypeOK
      <4> QED
        BY <4>1, <4>2
    <3> QED
      BY <2>2, <3>1, <3>2, <3>3 DEF TypeOK, RoomTypeOK, Takes, Take
  <2>3. CASE Snapshot(r)
    <3>1. worker' \in [Rooms -> WorkerType]
      <4>1. PICK pc \in WorkerPCs : Step(r, pc)
        BY <2>3 DEF Snapshot, WorkerPCs
      <4> QED
        BY <4>1, StepFacts DEF TypeOK
    <3> QED
      BY <2>3, <3>1 DEF TypeOK, RoomTypeOK, Snapshot
  <2>4. CASE AcquireSlot(r)
    <3>1. worker' \in [Rooms -> WorkerType]
      BY <2>4, StepFacts DEF TypeOK, AcquireSlot, WorkerPCs
    <3>2. worker[r].turn \in Turns \cup {NoTurn}
      BY DEF TypeOK, RoomTypeOK, WorkerType
    <3> QED
      BY <2>4, <3>1, <3>2 DEF TypeOK, RoomTypeOK, AcquireSlot
  <2>5. CASE InsertPending(r)
    BY <2>5, StepFacts DEF TypeOK, RoomTypeOK, InsertPending, WorkerPCs
  <2>6. CASE Spawn(r)
    BY <2>6, StepFacts DEF TypeOK, RoomTypeOK, Spawn, WorkerPCs
  <2>7. CASE SetAbort(r)
    BY <2>7, StepFacts, LeaveFacts DEF TypeOK, RoomTypeOK, SetAbort, WorkerPCs
  <2>8. CASE Joined(r)
    BY <2>8, LeaveFacts DEF TypeOK, RoomTypeOK, Joined
  <2>9. CASE BudgetElapsed(r)
    BY <2>9, LeaveFacts DEF TypeOK, RoomTypeOK, BudgetElapsed
  <2> QED
    BY <1>3, <2>1, <2>2, <2>3, <2>4, <2>5, <2>6, <2>7, <2>8, <2>9
    DEF WorkerStep
<1>4. ASSUME NEW t \in Turns, NEW phase, DropTask(t, phase),
             UNCHANGED <<queue, profile, worker, log>>
      PROVE  RoomTypeOK'
  BY <1>4 DEF TypeOK, RoomTypeOK, DropTask
<1>5. ASSUME NEW t \in Turns, Records(t)
      PROVE  RoomTypeOK'
  <2>1. log' \in [Rooms -> Seq(Lines)]
    <3>1. log \in [Rooms -> Seq(Lines)] /\ <<"assistant", t>> \in Lines
      BY DEF TypeOK, RoomTypeOK, Lines
    <3>2. CASE home[t] \in Rooms
      <4>1. Append(log[home[t]], <<"assistant", t>>) \in Seq(Lines)
        BY <3>1, <3>2
      <4> QED
        BY <1>5, <3>1, <4>1 DEF Records, Record
    <3>3. CASE home[t] \notin Rooms
      BY <1>5, <3>1, <3>3 DEF Records, Record
    <3> QED
      BY <3>2, <3>3
  <2> QED
    BY <1>5, <2>1 DEF TypeOK, RoomTypeOK, Records, Record
<1>6. ASSUME UNCHANGED roomVars
      PROVE  RoomTypeOK'
  BY <1>6 DEF TypeOK, RoomTypeOK, roomVars
<1>7. ASSUME NEW t \in Turns, JobStep(t) \/ Panic(t)
      PROVE  RoomTypeOK'
  <2>1. CASE Finish(t) \/ Die(t) \/ Panic(t)
    BY <2>1, <1>4 DEF Finish, Die, Panic
  <2> QED
    BY <1>5, <1>6, <1>7, <2>1, QuietJobFrame DEF JobStep
<1> QED
  BY <1>1, <1>2, <1>3, <1>6, <1>7, ProducerFrame, QuietJobFrame
  DEF Next, vars

(* Every step keeps the types of the variables that are one per turn.      *)
LEMMA TurnTypeStep ==
  ASSUME TypeOK, [Next]_vars
  PROVE  TurnTypeOK'
<1> USE DEF TypeOK, TurnTypeOK
<1>1. ASSUME NEW r \in Rooms, NEW named \in BOOLEAN, Post(r, named)
      PROVE  TurnTypeOK'
  <2>1. Len(home) + 1 \in Turns
    BY <1>1, MaxTurnsAssumption DEF Post, Turns
  <2> QED
    BY <1>1, <2>1, MaxTurnsAssumption DEF Post
<1>2. ASSUME NEW r \in Rooms, WorkerStep(r)
      PROVE  TurnTypeOK'
  <2>1. CASE Ignore(r) \/ Takes(r) \/ AcquireSlot(r) \/ Joined(r)
             \/ BudgetElapsed(r)
    BY <2>1 DEF jobVars, Ignore, Takes, Take, AcquireSlot, Joined, BudgetElapsed
  <2>2. CASE Snapshot(r)
    BY <2>2 DEF Snapshot, RoomTypeOK
  <2>3. CASE InsertPending(r)
    BY <2>3 DEF InsertPending
  <2>4. CASE Spawn(r)
    BY <2>4 DEF Spawn, Running
  <2>5. CASE SetAbort(r)
    BY <2>5 DEF SetAbort
  <2> QED
    BY <1>2, <2>1, <2>2, <2>3, <2>4, <2>5 DEF WorkerStep
<1>3. ASSUME NEW t \in Turns, JobStep(t) \/ Panic(t)
      PROVE  TurnTypeOK'
  <2>1. ASSUME NEW phase \in Running \cup Over, Enter(t, phase)
        PROVE  job' \in [Turns -> {"none"} \cup Running \cup Over]
    BY <2>1 DEF Enter
  <2>2. CASE SpawnProducer(t) \/ StreamEnd(t) \/ Retry(t) \/ Records(t)
             \/ Render(t)
    BY <2>1, <2>2 DEF SpawnProducer, StreamEnd, Retry, Records, Record, Render, Running
  <2>3. CASE Finish(t)
    BY <2>1, <2>3 DEF Finish, DropTask, Over
  <2>4. CASE Die(t) \/ Panic(t)
    BY <2>1, <2>4 DEF Die, Panic, DropTask, Over
  <2> QED
    BY <1>3, <2>2, <2>3, <2>4 DEF JobStep
<1>4. ASSUME NEW t \in Turns, Cancel(t)
      PROVE  TurnTypeOK'
  BY <1>4 DEF Cancel
<1>5. ASSUME UNCHANGED jobVars
      PROVE  TurnTypeOK'
  BY <1>5 DEF jobVars
<1>6. ASSUME NEW r \in Rooms, NEW p \in Profiles, SetProfile(r, p)
      PROVE  UNCHANGED jobVars
  BY <1>6 DEF SetProfile
<1>7. ASSUME NEW t \in Turns, NEW b \in stream[t].said, Flush(t, b)
      PROVE  UNCHANGED jobVars
  BY <1>7 DEF Flush
<1> QED
  BY <1>1, <1>2, <1>3, <1>4, <1>5, <1>6, <1>7, ProducerFrame DEF Next, vars

(* Where a walk goes next is a call again.                                 *)
LEMMA WalkType ==
  ASSUME TypeOK, NEW t \in Turns, NEW owner \in {"producer", "job"}
  PROVE  /\ Walk(t, owner) \in Calls
         /\ Failed(t) \in Calls
         /\ Walk(t, owner).st \in {"http", "queue"}
         /\ Failed(t).st \in {"http", "queue", "err"}
<1>1. \A kind : Waiting(kind) \in {"http", "queue"}
  BY DEF Waiting
<1>2. Walk(t, owner) \in Calls /\ Walk(t, owner).st \in {"http", "queue"}
  BY <1>1 DEF Walk, Calls
<1>3. /\ call[t] \in Calls /\ call[t].at \in Nat
      /\ call[t].by \in {"none", "producer", "job"}
  BY DEF TypeOK, CallTypeOK, Calls
<1>4. Failed(t) \in Calls /\ Failed(t).st \in {"http", "queue", "err"}
  <2> DEFINE next == call[t].at + 1
             kind == Waiting(Chain[plan[t]][next])
  <2>1. kind \in {"http", "queue"} /\ next \in Nat
    BY <1>1, <1>3
  <2>2. \/ Failed(t) = [call[t] EXCEPT !.at = next, !.st = kind]
        \/ Failed(t) = [call[t] EXCEPT !.st = "err"]
    BY DEF Failed
  <2> HIDE DEF kind, next
  <2> QED
    BY <1>3, <2>1, <2>2 DEF Calls, Outcomes
<1> QED
  BY <1>2, <1>4

(* A step on the calls changes one of them, and the permits only when that *)
(* call starts or stops running a child.                                   *)
CallChanges(t, c) ==
  /\ c \in Calls
  /\ call' = [call EXCEPT ![t] = c]
  /\ childPermits' =
       IF call[t].st = "child" /\ c.st # "child" THEN childPermits + 1
       ELSE IF call[t].st # "child" /\ c.st = "child" THEN childPermits - 1
       ELSE childPermits
  /\ c.st = "child" /\ call[t].st # "child" => childPermits > 0

(* Dropping a task changes its own call only, and hands back its permit.   *)
LEMMA DropTaskCalls ==
  ASSUME TypeOK, NEW t \in Turns, NEW phase, DropTask(t, phase)
  PROVE  \E c : CallChanges(t, c)
<1>1. NoCall \in Calls /\ NoCall.st # "child"
  BY DEF NoCall, Calls
<1>2. call[t] \in Calls /\ call = [call EXCEPT ![t] = call[t]]
  BY DEF TypeOK, CallTypeOK
<1>3. CASE call[t].by = "job"
  BY <1>1, <1>3 DEF DropTask, CallChanges
<1>4. CASE call[t].by # "job"
  BY <1>2, <1>4 DEF DropTask, CallChanges
<1> QED
  BY <1>3, <1>4

-----------------------------------------------------------------------------
(* The inductive invariant: workers, queues, jobs and calls fit together.  *)

(* Where a worker is tells what has happened to its turn.                  *)
WorkerInv ==
  \A r \in Rooms :
    /\ worker[r].pc = "idle" <=> worker[r].turn = NoTurn
    /\ worker[r].turn # NoTurn =>
         worker[r].turn \in Arrived /\ home[worker[r].turn] = r
    /\ worker[r].pc \in {"snapshot", "slot", "insert", "spawn"} =>
         job[worker[r].turn] = "none"
    /\ worker[r].pc \in {"arm", "hold"} => job[worker[r].turn] # "none"

(* A queue holds fresh turns of its room, in the order of arrival, all of  *)
(* them later than the turn being processed.                               *)
QueueInv ==
  \A r \in Rooms : \A i \in 1 .. Len(queue[r]) :
    /\ queue[r][i] \in Arrived /\ home[queue[r][i]] = r
    /\ job[queue[r][i]] = "none"
    /\ worker[r].turn < queue[r][i]
    /\ \A j \in 1 .. i - 1 : queue[r][j] < queue[r][i]

(* Only turns that have arrived have a job.                                *)
JobInv == \A t \in Turns : job[t] # "none" => t \in Arrived

(* The phase of a job tells who walks the chain for it, and whether the    *)
(* walk is over.                                                           *)
CallInv ==
  \A t \in Turns :
    /\ job[t] \in {"none", "starting", "rendering", "closing", "done"} =>
         call[t] = NoCall
    /\ job[t] = "streaming" => call[t].by = "producer"
    /\ job[t] = "settling"  => call[t].by = "producer" /\ call[t].st \in Outcomes
    /\ job[t] = "retrying"  => call[t].by = "job"
    /\ job[t] \in Over      => call[t].by # "job"

(* The slot is taken for a turn before its job is spawned.                 *)
GateInv ==
  \A r \in Rooms :
    /\ worker[r].pc = "slot" => Agentic(plan[worker[r].turn])
    /\ worker[r].pc \in {"insert", "spawn"} /\ Agentic(plan[worker[r].turn])
         => gate[r] = worker[r].turn

IInv ==
  /\ TypeOK
  /\ WorkerInv /\ QueueInv /\ JobInv
  /\ CallInv /\ ChildPermitsConserved
  /\ GateInv /\ SlotNeverLeaks /\ OneAgenticJobPerRoom
  /\ SyncHoldsRoom

(* What the other tasks do to the room side: nothing, but that a live job  *)
(* goes on or ends.                                                        *)
OthersStep(t) ==
  \/ Cancel(t) \/ JobStep(t) \/ Panic(t) \/ ProducerStep(t)
  \/ \E b \in stream[t].said : Flush(t, b)

(* A step of a turn leaves the rooms alone, and a job it changes was       *)
(* running.                                                                *)
LEMMA OthersFrame ==
  ASSUME TypeOK, NEW t \in Turns, OthersStep(t)
  PROVE  /\ UNCHANGED <<queue, profile, worker, home, plan>>
         /\ \A u \in Turns : \/ job'[u] = job[u]
                             \/ /\ u = t /\ job[u] \in Running
                                /\ job'[u] \in Running \cup Over
<1>1. ASSUME NEW phase, Enter(t, phase), phase \in Running \cup Over,
             job[t] \in Running
      PROVE  \A u \in Turns : \/ job'[u] = job[u]
                              \/ /\ u = t /\ job[u] \in Running
                                 /\ job'[u] \in Running \cup Over
  BY <1>1 DEF Enter, TypeOK, TurnTypeOK
<1>2. CASE SpawnProducer(t) \/ StreamEnd(t) \/ Retry(t) \/ Records(t) \/ Render(t)
  BY <1>1, <1>2 DEF SpawnProducer, StreamEnd, Retry, Records, Record, Render, Running,
                    roomVars, jobVars
<1>3. CASE Finish(t) \/ Die(t) \/ Panic(t)
  BY <1>1, <1>3 DEF Finish, Die, Panic, DropTask, Running, Over
<1>4. CASE Cancel(t) \/ ProducerStep(t) \/ \E b \in stream[t].said : Flush(t, b)
  BY <1>4, ProducerFrame DEF Cancel, Flush, roomVars, jobVars
<1> QED
  BY <1>2, <1>3, <1>4 DEF OthersStep, JobStep

(* The steps, in the two groups the proofs below treat apart: a room's and *)
(* a turn's.                                                               *)
LEMMA NextSplit ==
  ASSUME [Next]_vars
  PROVE  \/ \E r \in Rooms : \/ \E named \in BOOLEAN : Post(r, named)
                             \/ \E p \in Profiles : SetProfile(r, p)
                             \/ WorkerStep(r)
         \/ \E t \in Turns : OthersStep(t)
         \/ UNCHANGED vars
  BY DEF Next, OthersStep

(* Queueing a turn leaves the earlier turns where they are.                *)
LEMMA PostHome ==
  ASSUME TypeOK, NEW r \in Rooms, NEW named, Post(r, named)
  PROVE  /\ Len(home) + 1 \in Turns
         /\ Arrived' = Arrived \cup {Len(home) + 1}
         /\ Len(home) + 1 \notin Arrived
         /\ \A t \in Arrived : home'[t] = home[t] /\ t < Len(home) + 1
         /\ home'[Len(home) + 1] = r
  BY MaxTurnsAssumption DEF TypeOK, TurnTypeOK, Post, Arrived, Turns

(* Every step keeps the workers in line with their turns.                  *)
LEMMA WorkerInvStep ==
  ASSUME IInv, [Next]_vars
  PROVE  WorkerInv'
<1> USE DEF IInv, WorkerInv
<1>1. ASSUME NEW r \in Rooms, NEW named \in BOOLEAN, Post(r, named)
      PROVE  WorkerInv'
  BY <1>1, PostHome DEF Post
<1>2. ASSUME NEW r \in Rooms, NEW p \in Profiles, SetProfile(r, p)
      PROVE  WorkerInv'
  BY <1>2 DEF SetProfile, jobVars, Arrived
<1>3. ASSUME NEW r \in Rooms, WorkerStep(r)
      PROVE  WorkerInv'
  <2>1. CASE Ignore(r)
    BY <2>1 DEF Ignore, jobVars, Arrived
  <2>2. CASE Takes(r)
    <3> DEFINE t == Head(queue[r])
    <3>1. t \in Arrived /\ home[t] = r /\ job[t] = "none" /\ t # NoTurn
      <4>1. 1 \in 1 .. Len(queue[r]) /\ t = queue[r][1]
        BY <2>2 DEF Takes, Take, TypeOK, RoomTypeOK
      <4> QED
        BY <4>1 DEF QueueInv, Arrived, NoTurn
    <3>2. /\ worker'[r].pc = "snapshot" /\ worker'[r].turn = t
          /\ \A q \in Rooms \ {r} : worker'[q] = worker[q]
      BY <2>2 DEF Takes, Take, TypeOK, RoomTypeOK
    <3>3. UNCHANGED <<home, job>>
      BY <2>2 DEF Takes, Take, jobVars
    <3> HIDE DEF t
    <3> QED
      BY <3>1, <3>2, <3>3 DEF Arrived
  <2>3. ASSUME NEW pc \in {"slot", "insert", "spawn"}, Step(r, pc),
               worker[r].pc \in {"snapshot", "slot", "insert"},
               UNCHANGED <<home, job>>
        PROVE  WorkerInv'
    BY <2>3, StepFacts DEF Arrived, TypeOK, WorkerPCs
  <2>4. CASE Snapshot(r) \/ AcquireSlot(r) \/ InsertPending(r)
    BY <2>3, <2>4 DEF Snapshot, AcquireSlot, InsertPending, jobVars
  <2>5. CASE Spawn(r)
    <3>1. /\ worker'[r].pc = "arm" /\ worker'[r].turn = worker[r].turn
          /\ \A q \in Rooms \ {r} : worker'[q] = worker[q]
      BY <2>5, StepFacts DEF Spawn, TypeOK, WorkerPCs
    <3>2. worker[r].turn \in Turns
      BY <2>5 DEF Spawn, TypeOK, RoomTypeOK, WorkerType
    <3>3. /\ job'[worker[r].turn] = "starting" /\ home' = home
          /\ \A u \in Turns \ {worker[r].turn} : job'[u] = job[u]
      BY <2>5, <3>2 DEF Spawn, TypeOK, TurnTypeOK
    <3>4. \A q \in Rooms \ {r} :
            worker[q].turn # NoTurn => worker[q].turn # worker[r].turn
      BY <2>5 DEF Spawn
    <3>5. \A q \in Rooms : worker[q].turn \in Turns \cup {NoTurn}
      BY DEF TypeOK, RoomTypeOK, WorkerType
    <3> QED
      BY <2>5, <3>1, <3>2, <3>3, <3>4, <3>5 DEF Spawn, Arrived
  <2>6. CASE SetAbort(r) \/ Joined(r) \/ BudgetElapsed(r)
    <3>1. UNCHANGED <<home, job>>
      BY <2>6 DEF SetAbort, Joined, BudgetElapsed, jobVars
    <3>2. CASE Leave(r)
      BY <3>1, <3>2, LeaveFacts DEF Arrived, TypeOK
    <3>3. CASE Step(r, "hold") /\ worker[r].pc = "arm"
      BY <3>1, <3>3, StepFacts DEF Arrived, TypeOK, WorkerPCs
    <3> QED
      BY <2>6, <3>2, <3>3 DEF SetAbort, Joined, BudgetElapsed
  <2> QED
    BY <1>3, <2>1, <2>2, <2>4, <2>5, <2>6 DEF WorkerStep
<1>4. ASSUME NEW t \in Turns, OthersStep(t)
      PROVE  WorkerInv'
  <2>1. \A r \in Rooms : /\ worker'[r] = worker[r]
                         /\ worker[r].turn \in Turns \cup {NoTurn}
    BY <1>4, OthersFrame DEF TypeOK, RoomTypeOK, WorkerType
  <2>2. \A u \in Turns : job'[u] = "none" <=> job[u] = "none"
    BY <1>4, OthersFrame DEF Running, Over
  <2>3. home' = home
    BY <1>4, OthersFrame
  <2> QED
    BY <2>1, <2>2, <2>3 DEF Arrived
<1>5. CASE UNCHANGED vars
  BY <1>5 DEF vars, roomVars, jobVars, Arrived
<1> QED
  BY <1>1, <1>2, <1>3, <1>4, <1>5, NextSplit

(* Every step keeps the jobs to turns that have arrived.                   *)
LEMMA JobInvStep ==
  ASSUME IInv, [Next]_vars
  PROVE  JobInv'
<1> USE DEF IInv, JobInv
<1>1. ASSUME NEW r \in Rooms, NEW named \in BOOLEAN, Post(r, named)
      PROVE  JobInv'
  BY <1>1, PostHome DEF Post
<1>2. ASSUME NEW r \in Rooms, Spawn(r)
      PROVE  JobInv'
  <2>1. worker[r].turn \in Arrived
    BY <1>2 DEF Spawn, WorkerInv
  <2> QED
    BY <1>2, <2>1 DEF Spawn, Arrived, TypeOK, TurnTypeOK
<1>3. ASSUME UNCHANGED <<home, job>>
      PROVE  JobInv'
  BY <1>3 DEF Arrived
<1>4. ASSUME NEW r \in Rooms,
             \/ \E p \in Profiles : SetProfile(r, p)
             \/ WorkerStep(r) /\ ~Spawn(r)
      PROVE  UNCHANGED <<home, job>>
  BY <1>4 DEF SetProfile, WorkerStep, Ignore, Takes, Take, Snapshot, AcquireSlot,
              InsertPending, SetAbort, Joined, BudgetElapsed, jobVars
<1>5. ASSUME NEW t \in Turns, OthersStep(t)
      PROVE  JobInv'
  <2>1. \A u \in Turns : job'[u] = "none" <=> job[u] = "none"
    BY <1>5, OthersFrame DEF Running, Over
  <2>2. home' = home
    BY <1>5, OthersFrame
  <2> QED
    BY <2>1, <2>2 DEF Arrived
<1>6. CASE UNCHANGED vars
  BY <1>3, <1>6 DEF vars, jobVars
<1> QED
  BY <1>1, <1>2, <1>3, <1>4, <1>5, <1>6, NextSplit

(* Every step keeps the queues fresh, ordered and in their rooms.          *)
LEMMA QueueInvStep ==
  ASSUME IInv, [Next]_vars
  PROVE  QueueInv'
<1> USE DEF IInv, QueueInv
<1>0. /\ queue \in [Rooms -> Seq(Turns)]
      /\ \A r \in Rooms : worker[r].turn \in Turns \cup {NoTurn}
      /\ \A r \in Rooms : worker[r].turn # NoTurn => worker[r].turn \in Arrived
  BY DEF TypeOK, RoomTypeOK, WorkerType, WorkerInv
<1>1. ASSUME NEW r \in Rooms, NEW named \in BOOLEAN, Post(r, named)
      PROVE  QueueInv'
  <2> DEFINE n == Len(home) + 1
  <2>1. /\ n \in Turns /\ n \notin Arrived /\ Arrived' = Arrived \cup {n}
        /\ \A t \in Arrived : home'[t] = home[t] /\ t < n
        /\ home'[n] = r
    BY <1>1, PostHome
  <2>2. /\ UNCHANGED <<worker, job>>
        /\ queue' = [queue EXCEPT ![r] = Append(@, n)]
    BY <1>1 DEF Post
  <2>3. job[n] = "none" /\ \A q \in Rooms : worker[q].turn < n
    BY <1>0, <2>1 DEF JobInv, NoTurn, Turns, Arrived
  <2> HIDE DEF n
  <2>4. ASSUME NEW q \in Rooms, NEW i \in 1 .. Len(queue'[q])
        PROVE  /\ queue'[q][i] \in Arrived' /\ home'[queue'[q][i]] = q
               /\ job'[queue'[q][i]] = "none"
               /\ worker'[q].turn < queue'[q][i]
               /\ \A j \in 1 .. i - 1 : queue'[q][j] < queue'[q][i]
    <3>1. CASE q = r /\ i = Len(queue[r]) + 1
      <4>1. queue'[q][i] = n /\ \A j \in 1 .. i - 1 : queue'[q][j] = queue[r][j]
        BY <1>0, <2>1, <2>2, <3>1
      <4>2. \A j \in 1 .. i - 1 : queue[r][j] \in Arrived
        BY <1>0, <3>1
      <4> QED
        BY <2>1, <2>2, <2>3, <3>1, <4>1, <4>2
    <3>2. CASE ~(q = r /\ i = Len(queue[r]) + 1)
      <4>1. /\ i \in 1 .. Len(queue[q]) /\ queue'[q][i] = queue[q][i]
            /\ \A j \in 1 .. i - 1 : queue'[q][j] = queue[q][j]
        BY <1>0, <2>1, <2>2, <3>2
      <4> QED
        BY <2>1, <2>2, <4>1
    <3> QED
      BY <3>1, <3>2
  <2> QED
    BY <2>4
<1>2. ASSUME NEW r \in Rooms, queue[r] # <<>>,
             queue' = [queue EXCEPT ![r] = Tail(@)], UNCHANGED <<home, job>>,
             worker'[r].turn \in {NoTurn, Head(queue[r])},
             \A q \in Rooms \ {r} : worker'[q] = worker[q]
      PROVE  QueueInv'
  <2>1. ASSUME NEW q \in Rooms, NEW i \in 1 .. Len(queue'[q])
        PROVE  /\ queue'[q][i] \in Arrived /\ home[queue'[q][i]] = q
               /\ job[queue'[q][i]] = "none"
               /\ worker'[q].turn < queue'[q][i]
               /\ \A j \in 1 .. i - 1 : queue'[q][j] < queue'[q][i]
    <3>1. CASE q = r
      <4>1. /\ i + 1 \in 1 .. Len(queue[r]) /\ queue'[r][i] = queue[r][i + 1]
            /\ \A j \in 1 .. i - 1 : /\ j + 1 \in 1 .. i
                                     /\ queue'[r][j] = queue[r][j + 1]
            /\ Head(queue[r]) = queue[r][1] /\ 1 \in 1 .. i
        BY <1>0, <1>2, <3>1
      <4>2. worker'[r].turn < queue'[r][i]
        BY <1>2, <4>1 DEF NoTurn, Arrived
      <4>3. /\ queue[r][i + 1] \in Arrived /\ home[queue[r][i + 1]] = r
            /\ job[queue[r][i + 1]] = "none"
            /\ \A j \in 1 .. i : queue[r][j] < queue[r][i + 1]
        BY <1>0, <1>2, <4>1
      <4>4. \A j \in 1 .. i - 1 : queue'[r][j] < queue'[r][i]
        BY <4>1, <4>3
      <4>5. home' = home /\ job' = job
        BY <1>2
      <4> QED
        BY <3>1, <4>1, <4>2, <4>3, <4>4, <4>5
    <3>2. CASE q # r
      BY <1>0, <1>2, <3>2
    <3> QED
      BY <3>1, <3>2
  <2> QED
    BY <1>2, <2>1 DEF Arrived
<1>3. ASSUME UNCHANGED <<queue, home>>,
             \A r \in Rooms : worker'[r].turn \in {NoTurn, worker[r].turn},
             \A r \in Rooms : \A i \in 1 .. Len(queue[r]) :
               job'[queue[r][i]] = "none"
      PROVE  QueueInv'
  BY <1>3 DEF NoTurn, Arrived
<1>4. ASSUME NEW r \in Rooms, WorkerStep(r)
      PROVE  QueueInv'
  <2>1. CASE Ignore(r)
    <3>1. worker[r].turn = NoTurn /\ worker' = worker
      BY <2>1 DEF Ignore, WorkerInv
    <3> QED
      BY <1>2, <2>1, <3>1 DEF Ignore, jobVars
  <2>2. CASE Takes(r)
    <3>1. /\ worker'[r].turn = Head(queue[r])
          /\ \A q \in Rooms \ {r} : worker'[q] = worker[q]
      BY <2>2 DEF Takes, Take, TypeOK, RoomTypeOK
    <3> QED
      BY <1>2, <2>2, <3>1 DEF Takes, Take, jobVars
  <2>3. CASE Spawn(r)
    <3>1. \A q \in Rooms : worker'[q].turn = worker[q].turn
      BY <2>3, StepFacts DEF Spawn, TypeOK, WorkerPCs
    <3>2. \A q \in Rooms : \A i \in 1 .. Len(queue[q]) :
            queue[q][i] \in Arrived /\ queue[q][i] # worker[r].turn
      BY <1>0, <2>3 DEF Spawn, WorkerInv, Arrived
    <3>3. \A u \in Arrived : u # worker[r].turn => job'[u] = job[u]
      BY <2>3 DEF Spawn, TypeOK, TurnTypeOK, Arrived, Turns
    <3> QED
      BY <1>3, <2>3, <3>1, <3>2, <3>3 DEF Spawn
  <2>4. CASE Snapshot(r) \/ AcquireSlot(r) \/ InsertPending(r) \/ SetAbort(r)
             \/ Joined(r) \/ BudgetElapsed(r)
    <3>1. \A q \in Rooms : worker'[q].turn \in {NoTurn, worker[q].turn}
      <4>1. Leave(r) \/ \E pc \in WorkerPCs : Step(r, pc)
        BY <2>4 DEF Snapshot, AcquireSlot, InsertPending, SetAbort, Joined,
                    BudgetElapsed, WorkerPCs
      <4> QED
        BY <4>1, LeaveFacts, StepFacts DEF TypeOK
    <3>2. UNCHANGED <<queue, home, job>>
      BY <2>4 DEF Snapshot, AcquireSlot, InsertPending, SetAbort, Joined,
                  BudgetElapsed, jobVars
    <3> QED
      BY <1>3, <3>1, <3>2
  <2> QED
    BY <1>4, <2>1, <2>2, <2>3, <2>4 DEF WorkerStep
<1>5. ASSUME NEW t \in Turns, OthersStep(t)
      PROVE  QueueInv'
  <2>1. \A u \in Turns : job[u] = "none" => job'[u] = "none"
    BY <1>5, OthersFrame DEF Running, Over
  <2>2. UNCHANGED <<queue, home, worker>>
    BY <1>5, OthersFrame
  <2>3. \A r \in Rooms : \A i \in 1 .. Len(queue[r]) : queue[r][i] \in Turns
    BY <1>0
  <2> QED
    BY <1>3, <2>1, <2>2, <2>3
<1>6. ASSUME NEW r \in Rooms, NEW p \in Profiles, SetProfile(r, p)
      PROVE  QueueInv'
  BY <1>3, <1>6 DEF SetProfile, jobVars
<1>7. CASE UNCHANGED vars
  BY <1>3, <1>7 DEF vars, roomVars, jobVars
<1> QED
  BY <1>1, <1>4, <1>5, <1>6, <1>7, NextSplit

(* Every step on the calls is a change of one call; a permit moves only     *)
(* when that call starts or stops running a child.                         *)
LEMMA CallsStep ==
  ASSUME IInv, [Next]_vars
  PROVE  \/ UNCHANGED <<call, childPermits>>
         \/ \E t \in Turns : \E c : CallChanges(t, c)
<1> USE DEF IInv
<1>0. \A t \in Turns : call[t] \in Calls /\ NoCall.st # "child" /\ NoCall \in Calls
  BY DEF TypeOK, CallTypeOK, NoCall, Calls
<1>1. ASSUME NEW t \in Turns, JobStep(t) \/ Panic(t)
      PROVE  \/ UNCHANGED <<call, childPermits>>
             \/ \E c : CallChanges(t, c)
  <2>1. CASE StreamEnd(t) \/ Render(t)
    BY <2>1 DEF StreamEnd, Render, callVars
  <2>2. CASE Finish(t) \/ Die(t) \/ Panic(t)
    BY <2>2, DropTaskCalls DEF Finish, Die, Panic
  <2>3. CASE SpawnProducer(t)
    <3>1. call[t].st # "child" /\ Walk(t, "producer").st # "child"
      BY <2>3, WalkType, <1>0 DEF SpawnProducer, CallInv
    <3> QED
      BY <2>3, <3>1, WalkType DEF SpawnProducer, CallChanges
  <2>4. CASE Retry(t)
    <3>1. call[t].st # "child" /\ Walk(t, "job").st # "child"
      BY <2>4, WalkType, <1>0 DEF Retry, CallInv, Outcomes
    <3> QED
      BY <2>4, <3>1, WalkType DEF Retry, CallChanges
  <2>5. CASE Records(t)
    <3>1. call[t].st # "child"
      BY <2>5, <1>0 DEF Records, Record, CallInv, Outcomes
    <3> QED
      BY <1>0, <2>5, <3>1 DEF Records, Record, CallChanges
  <2> QED
    BY <1>1, <2>1, <2>2, <2>3, <2>4, <2>5 DEF JobStep
<1>2. ASSUME NEW t \in Turns, ProducerStep(t)
      PROVE  \/ UNCHANGED <<call, childPermits>>
             \/ \E c : CallChanges(t, c)
  <2>1. CASE HttpFail(t) \/ ChildRefused(t)
    BY <2>1, WalkType DEF HttpFail, ChildRefused, CallChanges
  <2>2. CASE ChildUnheard(t) \/ ChildFail(t)
    BY <2>2, WalkType DEF ChildUnheard, ChildFail, CallChanges
  <2>3. CASE ChildText(t)
    BY <2>3 DEF ChildText
  <2>4. ASSUME NEW st \in {"ok", "empty", "child", "panic"}
        PROVE  /\ [call[t] EXCEPT !.st = st] \in Calls
               /\ [call[t] EXCEPT !.st = st].st = st
    BY <1>0 DEF Calls, Outcomes
  <2>5. CASE ChildStart(t)
    BY <2>4, <2>5, <1>0 DEF ChildStart, CallChanges
  <2>7. CASE ProducerPanic(t)
    BY <2>4, <2>7, <1>0 DEF ProducerPanic, CallChanges
  <2>6. ASSUME NEW st \in Outcomes, HttpAnswer(t, st) \/ ChildExit(t, st)
        PROVE  \E c : CallChanges(t, c)
    BY <2>4, <2>6, <1>0 DEF HttpAnswer, ChildExit, CallChanges
  <2> QED
    BY <1>2, <2>1, <2>2, <2>3, <2>5, <2>6, <2>7
    DEF ProducerStep, HttpStep, ChildEnds
<1>3. ASSUME NEW t \in Turns, Cancel(t) \/ \E b \in stream[t].said : Flush(t, b)
      PROVE  UNCHANGED <<call, childPermits>>
  BY <1>3 DEF Cancel, Flush, callVars
<1> QED
  BY <1>1, <1>2, <1>3, WorkerFrame, NextSplit DEF OthersStep, callVars, vars

(* Every step keeps the types of the calls, the streams and the permits.   *)
LEMMA CallTypeStep ==
  ASSUME IInv, [Next]_vars
  PROVE  CallTypeOK'
<1>1. call' \in [Turns -> Calls] /\ childPermits' \in Nat
  BY CallsStep DEF CallChanges, IInv, TypeOK, CallTypeOK
<1>2. stream' \in [Turns -> [said : SUBSET Nat, shown : Nat]]
  <2> USE DEF IInv, TypeOK, CallTypeOK
  <2> DEFINE Streams == [said : SUBSET Nat, shown : Nat]
  <2>1. stream \in [Turns -> Streams] /\ NoText \in Streams
    BY DEF NoText
  <2>2. ASSUME NEW t \in Turns PROVE Received(t) \in [Turns -> Streams]
    <3>1. call[t].at \in Nat
      BY DEF Calls
    <3> QED
      BY <3>1 DEF Received
  <2>3. ASSUME NEW t \in Turns, OthersStep(t) PROVE stream' \in [Turns -> Streams]
    <3>1. CASE \/ UNCHANGED stream
               \/ stream' = [stream EXCEPT ![t] = NoText]
               \/ stream' = Received(t)
      BY <2>1, <2>2, <3>1
    <3>2. CASE \E b \in stream[t].said : Flush(t, b)
      <4>1. PICK b \in stream[t].said : Flush(t, b)
        BY <3>2
      <4>2. b \in Nat
        BY <2>1
      <4> QED
        BY <2>1, <4>1, <4>2 DEF Flush
    <3>3. CASE JobStep(t) \/ Panic(t) \/ Cancel(t)
      BY <3>1, <3>3 DEF JobStep, SpawnProducer, StreamEnd, Retry, Records, Record,
         Render, Finish, Die, Panic, Cancel, DropTask, callVars
    <3>4. CASE ProducerStep(t)
      BY <3>1, <3>4 DEF ProducerStep, HttpStep, ChildEnds, HttpAnswer, HttpFail,
         ProducerPanic, ChildRefused, ChildStart, ChildText, ChildUnheard,
         ChildExit, ChildFail
    <3> QED
      BY <2>3, <3>2, <3>3, <3>4 DEF OthersStep
  <2> QED
    BY <2>1, <2>3, WorkerFrame, NextSplit DEF callVars, vars
<1> QED
  BY <1>1, <1>2 DEF CallTypeOK

(* Every step that starts or ends a child moves one permit, the other way. *)
LEMMA PermitsStep ==
  ASSUME IInv, [Next]_vars
  PROVE  ChildPermitsConserved'
<1> DEFINE Busy == {t \in Turns : call[t].st = "child"}
<1> USE DEF IInv
<1>1. IsFiniteSet(Busy) /\ Cardinality(Busy) \in Nat
  <2>1. IsFiniteSet(Turns)
    BY FS_Interval, MaxTurnsAssumption DEF Turns
  <2>2. Busy \in SUBSET Turns
    OBVIOUS
  <2>3. IsFiniteSet(Busy)
    BY <2>1, <2>2, FS_Subset
  <2> QED
    BY <2>3, FS_CardinalityType
<1>2. childPermits \in Nat /\ MaxChildren \in Nat
      /\ childPermits + Cardinality(Busy) = MaxChildren
  BY MaxChildrenAssumption DEF ChildPermitsConserved, TypeOK, CallTypeOK
<1>3. CASE UNCHANGED <<call, childPermits>>
  BY <1>2, <1>3 DEF ChildPermitsConserved
<1>4. ASSUME NEW t \in Turns, NEW c, CallChanges(t, c)
      PROVE  ChildPermitsConserved'
  <2>1. \A u \in Turns : call'[u] = IF u = t THEN c ELSE call[u]
    BY <1>4 DEF CallChanges, TypeOK, CallTypeOK
  <2>2. CASE call[t].st = "child" /\ c.st # "child"
    <3>1. Busy' = Busy \ {t} /\ t \in Busy
      BY <2>1, <2>2
    <3>2. Cardinality(Busy') = Cardinality(Busy) - 1
      BY <1>1, <3>1, FS_RemoveElement
    <3> QED
      BY <1>1, <1>2, <1>4, <2>2, <3>2 DEF ChildPermitsConserved, CallChanges
  <2>3. CASE call[t].st # "child" /\ c.st = "child"
    <3>1. Busy' = Busy \cup {t} /\ t \notin Busy
      BY <2>1, <2>3
    <3>2. Cardinality(Busy') = Cardinality(Busy) + 1
      BY <1>1, <3>1, FS_AddElement
    <3> QED
      BY <1>1, <1>2, <1>4, <2>3, <3>2 DEF ChildPermitsConserved, CallChanges
  <2>4. CASE (call[t].st = "child") <=> (c.st = "child")
    <3>1. Busy' = Busy
      BY <2>1, <2>4
    <3> QED
      BY <1>2, <1>4, <2>4, <3>1 DEF ChildPermitsConserved, CallChanges
  <2> QED
    BY <2>2, <2>3, <2>4
<1> QED
  BY <1>3, <1>4, CallsStep

(* Every step keeps the walks in line with the phases of the jobs.         *)
LEMMA CallInvStep ==
  ASSUME IInv, [Next]_vars
  PROVE  CallInv'
<1> USE DEF IInv
<1>0. /\ \A t \in Turns : call[t] \in Calls
      /\ job \in [Turns -> {"none"} \cup Running \cup Over]
      /\ call \in [Turns -> Calls]
  BY DEF TypeOK, CallTypeOK, TurnTypeOK
<1>1. ASSUME UNCHANGED <<call, job>>
      PROVE  CallInv'
  BY <1>1 DEF CallInv
<1>2. ASSUME NEW r \in Rooms, Spawn(r)
      PROVE  CallInv'
  <2>1. job[worker[r].turn] = "none" /\ worker[r].turn \in Turns
    BY <1>2 DEF Spawn, WorkerInv, TypeOK, RoomTypeOK, WorkerType
  <2> QED
    BY <1>0, <1>2, <2>1 DEF Spawn, CallInv, callVars, Over
<1>3. ASSUME NEW r \in Rooms,
             \/ \E named \in BOOLEAN : Post(r, named)
             \/ \E p \in Profiles : SetProfile(r, p)
             \/ WorkerStep(r) /\ ~Spawn(r)
      PROVE  UNCHANGED <<call, job>>
  BY <1>3, WorkerFrame DEF Post, SetProfile, WorkerStep, Ignore, Takes, Take, Snapshot,
     AcquireSlot, InsertPending, SetAbort, Joined, BudgetElapsed, jobVars, callVars
<1>4. ASSUME NEW t \in Turns, NEW phase, NEW c \in Calls,
             job' = [job EXCEPT ![t] = phase], call' = [call EXCEPT ![t] = c],
             /\ phase \in {"none", "starting", "rendering", "closing", "done"}
                  => c = NoCall
             /\ phase = "streaming" => c.by = "producer"
             /\ phase = "settling"  => c.by = "producer" /\ c.st \in Outcomes
             /\ phase = "retrying"  => c.by = "job"
             /\ phase \in Over      => c.by # "job"
      PROVE  CallInv'
  BY <1>0, <1>4 DEF CallInv
<1>5. ASSUME NEW t \in Turns, JobStep(t) \/ Panic(t)
      PROVE  CallInv'
  <2>1. CASE SpawnProducer(t)
    <3>1. Walk(t, "producer").by = "producer"
      BY DEF Walk
    <3> QED
      BY <1>4, <2>1, <3>1, WalkType DEF SpawnProducer, Enter, Over
  <2>2. CASE StreamEnd(t)
    BY <1>0, <2>2 DEF StreamEnd, Enter, CallInv, Over, Outcomes
  <2>3. CASE Retry(t)
    <3>1. Walk(t, "job").by = "job"
      BY DEF Walk
    <3> QED
      BY <1>4, <2>3, <3>1, WalkType DEF Retry, Enter, Over
  <2>4. CASE Records(t)
    <3>1. NoCall \in Calls
      BY DEF NoCall, Calls
    <3> QED
      BY <1>4, <2>4, <3>1 DEF Records, Record, Enter, Over
  <2>5. CASE Render(t)
    BY <1>0, <2>5 DEF Render, Enter, CallInv, callVars, Over
  <2>6. CASE Finish(t)
    <3>1. call[t] = NoCall /\ NoCall.by # "job" /\ NoCall \in Calls
      BY <2>6 DEF Finish, CallInv, NoCall, Calls
    <3>2. call' = call
      BY <2>6, <3>1 DEF Finish, DropTask
    <3> QED
      BY <1>0, <2>6, <3>1, <3>2 DEF Finish, DropTask, Enter, CallInv, Over
  <2>7. CASE Die(t) \/ Panic(t)
    <3>1. NoCall \in Calls /\ NoCall.by # "job"
      BY DEF NoCall, Calls
    <3>2. PICK phase \in {"dead", "panicked"} : DropTask(t, phase)
      BY <2>7 DEF Die, Panic
    <3>3. PICK c \in Calls : c.by # "job" /\ call' = [call EXCEPT ![t] = c]
      BY <1>0, <3>1, <3>2 DEF DropTask
    <3> QED
      BY <1>4, <3>2, <3>3 DEF DropTask, Enter
  <2> QED
    BY <1>5, <2>1, <2>2, <2>3, <2>4, <2>5, <2>6, <2>7 DEF JobStep
<1>6. ASSUME NEW t \in Turns, ProducerStep(t)
      PROVE  CallInv'
  <2>1. call' = call \/
        \E c \in Calls : c.by = call[t].by /\ call' = [call EXCEPT ![t] = c]
    <3>1. Failed(t) \in Calls /\ Failed(t).by = call[t].by
      BY <1>0, WalkType DEF Failed, Calls
    <3>2. \A st \in {"ok", "empty", "child", "panic"} :
            /\ [call[t] EXCEPT !.st = st] \in Calls
            /\ [call[t] EXCEPT !.st = st].by = call[t].by
      BY <1>0 DEF Calls, Outcomes
    <3> QED
      BY <1>6, <3>1, <3>2 DEF ProducerStep, HttpStep, ChildEnds, HttpAnswer,
         HttpFail, ProducerPanic, ChildRefused, ChildStart, ChildText,
         ChildUnheard, ChildExit, ChildFail
  <2>2. job' = job
    BY <1>6, ProducerFrame DEF jobVars
  <2>3. call[t].st \in {"http", "queue", "child"}
    BY <1>6 DEF ProducerStep, HttpStep, ChildEnds, HttpAnswer, HttpFail,
       ProducerPanic, ChildRefused, ChildStart, ChildText, ChildUnheard,
       ChildExit, ChildFail
  <2>4. call[t] # NoCall /\ job[t] # "settling"
    BY <2>3 DEF CallInv, NoCall, Outcomes
  <2> QED
    BY <1>0, <2>1, <2>2, <2>4 DEF CallInv
<1>7. ASSUME NEW t \in Turns, Cancel(t) \/ \E b \in stream[t].said : Flush(t, b)
      PROVE  UNCHANGED <<call, job>>
  BY <1>7 DEF Cancel, Flush, callVars, jobVars
<1>8. CASE UNCHANGED vars
  BY <1>1, <1>8 DEF vars, callVars, jobVars
<1> QED
  BY <1>1, <1>2, <1>3, <1>5, <1>6, <1>7, <1>8, NextSplit DEF OthersStep

(* The four facts about who holds a room or its slot are preserved         *)
(* together: each of them needs the others.                                *)
HoldInv ==
  GateInv /\ SlotNeverLeaks /\ OneAgenticJobPerRoom /\ SyncHoldsRoom

(* Dropping a task gives back its own slot and no other.                   *)
LEMMA OthersGate ==
  ASSUME TypeOK, NEW t \in Turns, OthersStep(t)
  PROVE  \/ gate' = gate /\ (job'[t] \in Running <=> job[t] \in Running)
         \/ /\ gate' = [r \in Rooms |-> IF gate[r] = t THEN NoTurn ELSE gate[r]]
            /\ job[t] \in Running /\ job'[t] \notin Running
<1> USE DEF TypeOK, TurnTypeOK
<1>1. CASE SpawnProducer(t) \/ StreamEnd(t) \/ Retry(t) \/ Records(t) \/ Render(t)
  BY <1>1 DEF SpawnProducer, StreamEnd, Retry, Records, Record, Render, Enter, Running,
              roomVars
<1>2. CASE Finish(t) \/ Die(t) \/ Panic(t)
  BY <1>2 DEF Finish, Die, Panic, DropTask, Enter, Running
<1>3. CASE Cancel(t) \/ ProducerStep(t) \/ \E b \in stream[t].said : Flush(t, b)
  BY <1>3, ProducerFrame DEF Cancel, Flush, roomVars, jobVars
<1> QED
  BY <1>1, <1>2, <1>3 DEF OthersStep, JobStep

(* The slot and the room stay with the job that holds them.                *)
LEMMA HoldInvStep ==
  ASSUME IInv, [Next]_vars
  PROVE  HoldInv'
<1> USE DEF IInv, HoldInv, GateInv, SlotNeverLeaks, OneAgenticJobPerRoom,
            SyncHoldsRoom, Live, Current
<1>0. /\ \A r \in Rooms : worker[r].turn \in Turns \cup {NoTurn}
      /\ \A r \in Rooms : worker[r].pc # "idle" =>
           worker[r].turn \in Arrived /\ home[worker[r].turn] = r
      /\ \A t \in Arrived : t \in Turns /\ t # NoTurn /\ home[t] \in Rooms
      /\ job \in [Turns -> {"none"} \cup Running \cup Over]
      /\ "none" \notin Running /\ gate \in [Rooms -> Turns \cup {NoTurn}]
  BY MaxTurnsAssumption
  DEF WorkerInv, TypeOK, RoomTypeOK, TurnTypeOK, WorkerType, Arrived, Turns,
      NoTurn, Running
<1>1. ASSUME NEW r \in Rooms, NEW named \in BOOLEAN, Post(r, named)
      PROVE  HoldInv'
  <2>1. UNCHANGED <<worker, gate, job, plan>>
    BY <1>1 DEF Post
  <2>2. /\ \A t \in Arrived : t \in Arrived' /\ home'[t] = home[t]
        /\ \A t \in Arrived' \ Arrived : job[t] = "none"
    BY <1>1, PostHome DEF JobInv
  <2> QED
    BY <1>0, <2>1, <2>2
<1>2. ASSUME UNCHANGED <<worker, gate, job, plan, home>>
      PROVE  HoldInv'
  BY <1>2 DEF Arrived
<1>3. ASSUME NEW r \in Rooms, WorkerStep(r)
      PROVE  HoldInv'
  <2>1. CASE Ignore(r)
    BY <1>2, <2>1 DEF Ignore, jobVars
  <2>2. CASE Takes(r)
    <3>1. UNCHANGED <<gate, job, plan, home>> /\ worker[r].pc = "idle"
      BY <2>2 DEF Takes, Take, jobVars
    <3>2. /\ worker'[r].pc = "snapshot"
          /\ \A q \in Rooms \ {r} : worker'[q] = worker[q]
      BY <2>2 DEF Takes, Take, TypeOK, RoomTypeOK
    <3> QED
      BY <1>0, <3>1, <3>2 DEF Arrived
  <2>3. CASE Snapshot(r)
    <3> DEFINE t == worker[r].turn
    <3>1. /\ worker[r].pc = "snapshot" /\ job[t] = "none" /\ t \in Arrived
          /\ home[t] = r
      BY <1>0, <2>3 DEF Snapshot, WorkerInv
    <3>2. /\ worker'[r].pc = IF Agentic(profile[r]) THEN "slot" ELSE "insert"
          /\ worker'[r].turn = t
          /\ \A q \in Rooms \ {r} : worker'[q] = worker[q]
      BY <2>3, StepFacts DEF Snapshot, TypeOK, WorkerPCs
    <3>3. /\ UNCHANGED <<gate, job, home>>
          /\ plan'[t] = profile[r] /\ \A u \in Turns \ {t} : plan'[u] = plan[u]
      BY <1>0, <2>3, <3>1 DEF Snapshot, TypeOK, TurnTypeOK
    <3>4. \A q \in Rooms : gate[q] # t
      BY <1>0, <3>1
    <3> HIDE DEF t
    <3>5. GateInv'
      <4>1. \A q \in Rooms \ {r} : worker[q].pc # "idle" => worker[q].turn # t
        BY <1>0, <3>1
      <4> QED
        BY <1>0, <3>2, <3>3, <4>1
    <3>6. SlotNeverLeaks'
      BY <1>0, <3>1, <3>2, <3>3, <3>4 DEF Arrived
    <3>7. OneAgenticJobPerRoom' /\ SyncHoldsRoom'
      BY <1>0, <3>1, <3>2, <3>3 DEF Arrived
    <3> QED
      BY <3>5, <3>6, <3>7
  <2>4. CASE AcquireSlot(r)
    <3>1. /\ worker'[r].pc = "insert" /\ worker'[r].turn = worker[r].turn
          /\ \A q \in Rooms \ {r} : worker'[q] = worker[q]
      BY <2>4, StepFacts DEF AcquireSlot, TypeOK, WorkerPCs
    <3>2. /\ UNCHANGED <<job, plan, home>> /\ worker[r].pc = "slot"
          /\ gate[r] = NoTurn /\ gate'[r] = worker[r].turn
          /\ \A q \in Rooms \ {r} : gate'[q] = gate[q]
      BY <1>0, <2>4 DEF AcquireSlot, jobVars
    <3> QED
      BY <1>0, <3>1, <3>2 DEF Arrived
  <2>5. CASE InsertPending(r)
    <3>1. /\ worker'[r].pc = "spawn" /\ worker'[r].turn = worker[r].turn
          /\ \A q \in Rooms \ {r} : worker'[q] = worker[q]
      BY <2>5, StepFacts DEF InsertPending, TypeOK, WorkerPCs
    <3>2. UNCHANGED <<gate, job, plan, home>> /\ worker[r].pc = "insert"
      BY <2>5 DEF InsertPending
    <3> QED
      BY <1>0, <3>1, <3>2 DEF Arrived
  <2>6. CASE Spawn(r)
    <3> DEFINE t == worker[r].turn
    <3>1. /\ worker'[r].pc = "arm" /\ worker'[r].turn = t
          /\ \A q \in Rooms \ {r} : worker'[q] = worker[q]
      BY <2>6, StepFacts DEF Spawn, TypeOK, WorkerPCs
    <3>2. /\ UNCHANGED <<gate, plan, home>> /\ worker[r].pc = "spawn"
          /\ t \in Arrived /\ home[t] = r /\ job'[t] \in Running
          /\ \A u \in Turns \ {t} : job'[u] = job[u]
      BY <1>0, <2>6 DEF Spawn, Running
    <3> HIDE DEF t
    <3>3. GateInv'
      BY <1>0, <3>1, <3>2
    <3>4. SlotNeverLeaks'
      <4>1. \A u \in Arrived : job[u] \in Running => job'[u] \in Running
        BY <1>0, <3>2
      <4>2. \A q \in Rooms : worker'[q] = worker[q] \/ (q = r /\ worker[q].turn = t)
        BY <3>1 DEF t
      <4>3. UNCHANGED <<gate, plan, home>> /\ job'[t] \in Running
        BY <3>2
      <4> QED
        BY <4>1, <4>2, <4>3 DEF Arrived
    <3>5. OneAgenticJobPerRoom'
      <4>1. Agentic(plan[t]) => gate[r] = t
        BY <3>2 DEF t
      <4> QED
        BY <1>0, <3>2, <4>1 DEF Arrived
    <3>6. SyncHoldsRoom'
      BY <1>0, <3>1, <3>2 DEF Arrived
    <3> QED
      BY <3>3, <3>4, <3>5, <3>6
  <2>7. CASE SetAbort(r)
    <3>1. UNCHANGED <<gate, job, plan, home>> /\ worker[r].pc = "arm"
      BY <2>7 DEF SetAbort
    <3>2. CASE Mode[plan[worker[r].turn]] = "async"
      <4>1. /\ worker'[r].pc = "idle"
            /\ \A q \in Rooms \ {r} : worker'[q] = worker[q]
        BY <2>7, <3>2, LeaveFacts DEF SetAbort, TypeOK
      <4> QED
        BY <1>0, <3>1, <3>2, <4>1 DEF Arrived
    <3>3. CASE Mode[plan[worker[r].turn]] # "async"
      <4>1. /\ worker'[r].pc = "hold" /\ worker'[r].turn = worker[r].turn
            /\ \A q \in Rooms \ {r} : worker'[q] = worker[q]
        BY <2>7, <3>3, StepFacts DEF SetAbort, TypeOK, WorkerPCs
      <4> QED
        BY <1>0, <3>1, <4>1 DEF Arrived
    <3> QED
      BY <3>2, <3>3
  <2>8. CASE Joined(r) \/ BudgetElapsed(r)
    <3>1. /\ UNCHANGED <<gate, job, plan, home>> /\ worker[r].pc = "hold"
          /\ \/ job[worker[r].turn] \in Over
             \/ Mode[plan[worker[r].turn]] = "auto"
      BY <2>8 DEF Joined, BudgetElapsed, jobVars
    <3>2. /\ worker'[r].pc = "idle"
          /\ \A q \in Rooms \ {r} : worker'[q] = worker[q]
      BY <2>8, LeaveFacts DEF Joined, BudgetElapsed, TypeOK
    <3> QED
      BY <1>0, <3>1, <3>2 DEF Arrived, Running, Over
  <2> QED
    BY <1>3, <2>1, <2>2, <2>3, <2>4, <2>5, <2>6, <2>7, <2>8 DEF WorkerStep
<1>4. ASSUME NEW t \in Turns, OthersStep(t)
      PROVE  HoldInv'
  <2>1. /\ UNCHANGED <<worker, home, plan>>
        /\ \A u \in Turns \ {t} : job'[u] = job[u]
        /\ job'[t] \in Running => job[t] \in Running
        /\ job[t] = "none" => job'[t] = "none"
    BY <1>0, <1>4, OthersFrame
  <2>2. CASE gate' = gate /\ (job'[t] \in Running <=> job[t] \in Running)
    BY <1>0, <2>1, <2>2 DEF Arrived
  <2>3. CASE /\ gate' = [r \in Rooms |-> IF gate[r] = t THEN NoTurn ELSE gate[r]]
             /\ job[t] \in Running /\ job'[t] \notin Running
    <3>1. \A r \in Rooms :
            worker[r].pc \in {"snapshot", "slot", "insert", "spawn"} =>
              worker[r].turn # t
      BY <1>0, <2>3 DEF WorkerInv
    <3>2. \A r \in Rooms : gate'[r] = IF gate[r] = t THEN NoTurn ELSE gate[r]
      BY <2>3
    <3>3. GateInv'
      BY <1>0, <2>1, <3>1, <3>2
    <3>4. SlotNeverLeaks'
      BY <1>0, <2>1, <3>2 DEF Arrived
    <3>5. OneAgenticJobPerRoom' /\ SyncHoldsRoom'
      BY <1>0, <2>1, <2>3, <3>2 DEF Arrived
    <3> QED
      BY <3>3, <3>4, <3>5
  <2> QED
    BY <1>4, <2>2, <2>3, OthersGate DEF TypeOK
<1>5. ASSUME NEW r \in Rooms, NEW p \in Profiles, SetProfile(r, p)
      PROVE  HoldInv'
  BY <1>2, <1>5 DEF SetProfile, jobVars
<1>6. CASE UNCHANGED vars
  BY <1>2, <1>6 DEF vars, roomVars, jobVars
<1> QED
  BY <1>1, <1>3, <1>4, <1>5, <1>6, NextSplit

-----------------------------------------------------------------------------
(* The theorems.                                                           *)

(* The inductive invariant holds at the start ...                          *)
LEMMA InitIInv ==
  ASSUME Init
  PROVE  IInv
<1> USE DEF Init
<1>1. TypeOK
  <2>1. RoomTypeOK
    BY ProfileAssumption DEF RoomTypeOK, WorkerType, Idle, WorkerPCs
  <2>2. TurnTypeOK
    BY ProfileAssumption, MaxTurnsAssumption DEF TurnTypeOK
  <2>3. CallTypeOK
    BY MaxChildrenAssumption DEF CallTypeOK, Calls, NoCall, NoText
  <2> QED
    BY <2>1, <2>2, <2>3 DEF TypeOK
<1>2. WorkerInv /\ QueueInv /\ JobInv
  BY DEF WorkerInv, QueueInv, JobInv, Idle
<1>3. CallInv
  BY DEF CallInv, Over
<1>4. ChildPermitsConserved
  <2>1. {t \in Turns : call[t].st = "child"} = {}
    BY DEF NoCall
  <2>2. Cardinality({t \in Turns : call[t].st = "child"}) = 0
    BY <2>1, FS_EmptySet
  <2> QED
    BY <2>2, MaxChildrenAssumption DEF ChildPermitsConserved
<1>5. GateInv /\ SlotNeverLeaks /\ OneAgenticJobPerRoom /\ SyncHoldsRoom
  BY DEF GateInv, SlotNeverLeaks, OneAgenticJobPerRoom, SyncHoldsRoom, Live,
         Idle, Arrived
<1> QED
  BY <1>1, <1>2, <1>3, <1>4, <1>5 DEF IInv

(* ... and is kept by every step.                                          *)
LEMMA NextIInv ==
  ASSUME IInv, [Next]_vars
  PROVE  IInv'
<1>1. TypeOK'
  BY RoomTypeStep, TurnTypeStep, CallTypeStep DEF IInv, TypeOK
<1> QED
  BY <1>1, WorkerInvStep, QueueInvStep, JobInvStep, CallInvStep, PermitsStep,
     HoldInvStep DEF IInv, HoldInv

(* The inductive invariant holds throughout.                               *)
THEOREM Invariance == Spec => []IInv
<1>1. Init => IInv
  BY InitIInv
<1>2. IInv /\ [Next]_vars => IInv'
  BY NextIInv
<1> QED
  BY <1>1, <1>2, PTL DEF Spec

(* The variables keep their types.                                         *)
THEOREM TypeCorrect == Spec => []TypeOK
<1>1. IInv => TypeOK
  BY DEF IInv
<1> QED
  BY <1>1, Invariance, PTL

(* Child permits are conserved, however a child or its job ends.           *)
THEOREM PermitsConserved == Spec => []ChildPermitsConserved
<1>1. IInv => ChildPermitsConserved
  BY DEF IInv
<1> QED
  BY <1>1, Invariance, PTL

(* The agentic slot of a room is never leaked and never shared.            *)
THEOREM SlotSafety == Spec => []SlotHeldExactly
<1>1. IInv => SlotHeldExactly
  BY DEF IInv, SlotHeldExactly
<1> QED
  BY <1>1, Invariance, PTL

(* A live job of a sync turn keeps its room.                               *)
THEOREM SyncSafety == Spec => []SyncHoldsRoom
<1>1. IInv => SyncHoldsRoom
  BY DEF IInv
<1> QED
  BY <1>1, Invariance, PTL

-----------------------------------------------------------------------------
(* What the registry lists, and which agents run beside each other.        *)

(* Two children of agentic turns whose jobs are live would both hold the   *)
(* slot of their room.                                                     *)
THEOREM SecondAgentStrays == Spec => []SecondAgentIsStray
<1>1. IInv => SecondAgentIsStray
  <2>1. SUFFICES ASSUME IInv, NEW t \in Arrived, NEW u \in Arrived, t # u,
                        home[t] = home[u],
                        call[t].st = "child", call[u].st = "child",
                        \A v \in {t, u} : job[v] \notin Over /\ Agentic(plan[v])
                 PROVE  FALSE
    BY DEF SecondAgentIsStray
  <2>2. t \in Turns /\ u \in Turns
    BY <2>1, MaxTurnsAssumption DEF IInv, TypeOK, TurnTypeOK, Arrived, Turns
  <2>3. \A v \in {t, u} : job[v] \in Running
    BY <2>1, <2>2 DEF IInv, CallInv, NoCall, TypeOK, TurnTypeOK, Running, Over
  <2>4. gate[home[t]] = t /\ gate[home[u]] = u
    BY <2>1, <2>3 DEF IInv, OneAgenticJobPerRoom, Live
  <2> QED
    BY <2>1, <2>4
<1> QED
  BY <1>1, Invariance, PTL

(* Only a job that was spawned is told to abort, and then it is not listed *)
(* again.                                                                  *)
AbortInv ==
  \A t \in Turns :
    /\ t \in aborted => entry[t] = "none" /\ job[t] # "none"
    /\ entry[t] = "armed" => job[t] # "none"

ListInv == AbortInv /\ ListedUnlessPanicked

(* Every step of a worker or of the sync loop keeps the list.              *)
LEMMA ListWorkerStep ==
  ASSUME IInv, ListInv, NEW r \in Rooms, WorkerStep(r)
  PROVE  ListInv'
<1> USE DEF IInv, ListInv, AbortInv, ListedUnlessPanicked, Live, Current
<1>0. /\ \A q \in Rooms : worker[q].turn \in Turns \cup {NoTurn}
      /\ \A q \in Rooms : worker[q].pc # "idle" =>
           worker[q].turn \in Arrived /\ home[worker[q].turn] = q
      /\ \A t \in Arrived : t \in Turns /\ home[t] \in Rooms
      /\ job \in [Turns -> {"none"} \cup Running \cup Over]
      /\ entry \in [Turns -> {"none", "pending", "armed"}]
  BY MaxTurnsAssumption
  DEF WorkerInv, TypeOK, RoomTypeOK, TurnTypeOK, WorkerType, Arrived, Turns
<1>1. CASE /\ UNCHANGED <<home, job, aborted, entry>>
           /\ \A q \in Rooms \ {r} : worker'[q] = worker[q]
           /\ worker[r].pc # "spawn"
  BY <1>0, <1>1 DEF Arrived
<1>2. ASSUME NEW pc \in WorkerPCs, Step(r, pc) \/ Leave(r)
      PROVE  /\ \A q \in Rooms \ {r} : worker'[q] = worker[q]
             /\ Step(r, pc) => worker'[r].pc = pc /\ worker'[r].turn = worker[r].turn
  BY <1>2, StepFacts, LeaveFacts DEF TypeOK
<1>3. CASE Ignore(r) \/ Takes(r)
  BY <1>1, <1>3 DEF Ignore, Takes, Take, TypeOK, RoomTypeOK, jobVars
<1>4. CASE Snapshot(r) \/ AcquireSlot(r) \/ Joined(r) \/ BudgetElapsed(r)
  BY <1>1, <1>2, <1>4 DEF Snapshot, AcquireSlot, Joined, BudgetElapsed, jobVars,
                         WorkerPCs
<1>5. CASE InsertPending(r)
  <2> DEFINE t == worker[r].turn
  <2>1. /\ t \in Arrived /\ t \in Turns /\ home[t] = r /\ job[t] = "none"
        /\ UNCHANGED <<home, job, aborted>> /\ worker[r].pc = "insert"
    BY <1>0, <1>5 DEF InsertPending, WorkerInv
  <2>2. /\ entry'[t] = "pending" /\ \A u \in Turns \ {t} : entry'[u] = entry[u]
        /\ worker'[r].pc = "spawn" /\ worker'[r].turn = t
        /\ \A q \in Rooms \ {r} : worker'[q] = worker[q]
    BY <1>0, <1>2, <1>5, <2>1 DEF InsertPending, WorkerPCs
  <2> HIDE DEF t
  <2> QED
    BY <1>0, <2>1, <2>2 DEF Arrived
<1>6. CASE Spawn(r)
  <2> DEFINE t == worker[r].turn
  <2>1. /\ t \in Arrived /\ t \in Turns /\ home[t] = r
        /\ UNCHANGED <<home, entry, aborted>>
        /\ job'[t] \in Running /\ job'[t] # "none"
        /\ \A u \in Turns \ {t} : job'[u] = job[u]
    BY <1>0, <1>6 DEF Spawn, Running
  <2>2. \A q \in Rooms \ {r} : worker'[q] = worker[q]
    BY <1>2, <1>6 DEF Spawn, WorkerPCs
  <2>3. \A u \in Arrived : home[u] = r /\ Current(u) => u = t
    BY <2>1
  <2> HIDE DEF t
  <2> QED
    BY <1>0, <2>1, <2>2, <2>3 DEF Arrived
<1>7. CASE SetAbort(r)
  <2> DEFINE t == worker[r].turn
  <2>1. /\ t \in Turns /\ job[t] # "none" /\ worker[r].pc = "arm"
        /\ UNCHANGED <<home, job, aborted>>
    BY <1>0, <1>7 DEF SetAbort, WorkerInv
  <2>2. /\ entry'[t] = IF entry[t] = "none" THEN "none" ELSE "armed"
        /\ \A u \in Turns \ {t} : entry'[u] = entry[u]
    BY <1>0, <1>7, <2>1 DEF SetAbort
  <2>3. \A q \in Rooms \ {r} : worker'[q] = worker[q]
    BY <1>2, <1>7 DEF SetAbort, WorkerPCs
  <2> HIDE DEF t
  <2> QED
    BY <1>0, <2>1, <2>2, <2>3 DEF Arrived
<1> QED
  BY <1>3, <1>4, <1>5, <1>6, <1>7 DEF WorkerStep

(* So does every step of a turn: an entry outlives its job only in a panic. *)
LEMMA ListOthersStep ==
  ASSUME IInv, ListInv, NEW t \in Turns, OthersStep(t)
  PROVE  ListInv'
<1> USE DEF IInv, ListInv, AbortInv, ListedUnlessPanicked, Live, Current
<1>0. /\ job \in [Turns -> {"none"} \cup Running \cup Over]
      /\ entry \in [Turns -> {"none", "pending", "armed"}]
      /\ "none" \notin Running
  BY DEF TypeOK, TurnTypeOK, Running
<1>1. UNCHANGED <<worker, home>>
  BY <1>0, OthersFrame
<1>2. \A u \in Turns \ {t} : job'[u] = job[u]
  BY OthersFrame
<1>3. job'[t] = "none" <=> job[t] = "none"
  BY OthersFrame DEF Running, Over
<1>4. CASE Cancel(t)
  BY <1>0, <1>1, <1>4 DEF Cancel, Arrived
<1>5. CASE Finish(t)
  <2>1. /\ entry'[t] = "none" /\ \A u \in Turns \ {t} : entry'[u] = entry[u]
        /\ aborted' = aborted
    BY <1>0, <1>5 DEF Finish
  <2> QED
    BY <1>1, <1>2, <1>3, <2>1 DEF Arrived
<1>6. CASE Die(t)
  <2>1. entry' = entry /\ aborted' = aborted /\ entry[t] = "none"
    BY <1>6 DEF Die
  <2> QED
    BY <1>1, <1>2, <1>3, <2>1 DEF Arrived
<1>7. CASE Panic(t)
  <2>1. entry' = entry /\ aborted' = aborted /\ job'[t] = "panicked"
    BY <1>0, <1>7 DEF Panic, DropTask, Enter
  <2> QED
    BY <1>1, <1>2, <1>3, <2>1 DEF Arrived
<1>8. CASE \/ SpawnProducer(t) \/ StreamEnd(t) \/ Retry(t) \/ Records(t) \/ Render(t)
           \/ ProducerStep(t) \/ \E b \in stream[t].said : Flush(t, b)
  <2>1. entry' = entry /\ aborted' = aborted
    BY <1>8, ProducerFrame DEF SpawnProducer, StreamEnd, Retry, Records, Record, Render,
                               Flush, jobVars
  <2>2. job[t] \in Running => job'[t] \in Running
    BY <1>0, <1>8, ProducerFrame DEF SpawnProducer, StreamEnd, Retry, Records, Record,
                               Render, Flush, jobVars, Enter, Running
  <2>3. job[t] \notin Running => job'[t] = job[t]
    BY OthersFrame
  <2> QED
    BY <1>1, <1>2, <1>3, <2>1, <2>2, <2>3 DEF Arrived
<1> QED
  BY <1>4, <1>5, <1>6, <1>7, <1>8 DEF OthersStep, JobStep

(* A job that is listed is in flight or about to be, unless it panicked.   *)
THEOREM ListedAreLive == Spec => []ListedUnlessPanicked
<1>1. Init => ListInv
  BY DEF Init, ListInv, AbortInv, ListedUnlessPanicked
<1>2. ASSUME IInv, ListInv, [Next]_vars PROVE ListInv'
  <2>1. ASSUME NEW r \in Rooms, NEW named \in BOOLEAN, Post(r, named)
        PROVE  ListInv'
    <3>1. UNCHANGED <<worker, job, aborted, entry>>
      BY <2>1 DEF Post
    <3>2. \A t \in Arrived : t \in Arrived' /\ home'[t] = home[t]
      BY <2>1, PostHome, <1>2 DEF IInv
    <3> QED
      BY <1>2, <3>1, <3>2 DEF ListInv, AbortInv, ListedUnlessPanicked, Live, Current
  <2>2. ASSUME UNCHANGED <<worker, home, job, aborted, entry>>
        PROVE  ListInv'
    BY <1>2, <2>2 DEF ListInv, AbortInv, ListedUnlessPanicked, Live, Current, Arrived
  <2>3. ASSUME NEW r \in Rooms, NEW p \in Profiles, SetProfile(r, p)
        PROVE  ListInv'
    BY <2>2, <2>3 DEF SetProfile, jobVars
  <2>4. CASE UNCHANGED vars
    BY <2>2, <2>4 DEF vars, roomVars, jobVars
  <2> QED
    BY <1>2, <2>1, <2>3, <2>4, NextSplit, ListWorkerStep, ListOthersStep
<1>3. ListInv => ListedUnlessPanicked
  BY DEF ListInv
<1> QED
  BY <1>1, <1>2, <1>3, Invariance, PTL DEF Spec

-----------------------------------------------------------------------------
(* The transcript.                                                         *)

Recorded == {"rendering", "closing"} \cup Over

(* What stands in a log is of turns that left the queue, the current one   *)
(* being the latest, and a reply is there only once it was recorded.       *)
LogInv ==
  \A r \in Rooms : \A j \in 1 .. Len(log[r]) :
    LET t == log[r][j][2] IN
    /\ t \in Arrived /\ home[t] = r
    /\ \A i \in 1 .. Len(queue[r]) : t < queue[r][i]
    /\ worker[r].turn # NoTurn => t <= worker[r].turn
    /\ log[r][j][1] = "assistant" => job[t] \in Recorded

(* The question of a turn that left the queue to be served is in its       *)
(* room's log, saved or lost.                                              *)
AskedInv ==
  \A t \in Arrived : Current(t) \/ job[t] # "none" =>
    \E j \in 1 .. Len(log[home[t]]) : log[home[t]][j] \in Asked(t)

(* An entry of a log is where it belongs.                                  *)
Placed(r, j) ==
  /\ home[log[r][j][2]] = r
  /\ \A i \in 1 .. j - 1 : log[r][i] # log[r][j]
  /\ log[r][j][1] # "assistant" => \A i \in 1 .. j - 1 : log[r][i][2] < log[r][j][2]
  /\ log[r][j][1] = "assistant" =>
       \E i \in 1 .. j - 1 : log[r][i] \in Asked(log[r][j][2])

LEMMA OrderIsPlaced ==
  /\ TranscriptOrder <=> \A r \in Rooms : \A j \in 1 .. Len(log[r]) : Placed(r, j)
  /\ TranscriptOrder' <=> \A r \in Rooms : \A j \in 1 .. Len(log'[r]) : Placed(r, j)'
  BY DEF TranscriptOrder, Placed

TranscriptInv ==
  LogInv /\ AskedInv /\ TranscriptOrder /\ SyncRepliesInTurn

(* The types the proofs below need, as plain facts.                        *)
LEMMA LogTypes ==
  ASSUME IInv
  PROVE  /\ \A r \in Rooms : /\ log[r] \in Seq(Lines)
                             /\ worker[r].turn \in Turns \cup {NoTurn}
                             /\ queue[r] \in Seq(Turns)
         /\ \A t \in Arrived : t \in Turns /\ home[t] \in Rooms
         /\ Turns \subseteq Nat /\ NoTurn \notin Turns
         /\ job \in [Turns -> {"none"} \cup Running \cup Over]
         /\ log \in [Rooms -> Seq(Lines)]
         /\ queue \in [Rooms -> Seq(Turns)]
<1>1. log \in [Rooms -> Seq(Lines)] /\ \A r \in Rooms : log[r] \in Seq(Lines)
  BY DEF IInv, TypeOK, RoomTypeOK
<1> QED
  BY <1>1, MaxTurnsAssumption
  DEF IInv, TypeOK, RoomTypeOK, TurnTypeOK, WorkerType, Arrived, Turns, NoTurn

(* A step that writes nothing: turns arrive, queues shrink, workers leave, *)
(* jobs go on.                                                             *)
LEMMA LogKept ==
  ASSUME IInv, TranscriptInv, UNCHANGED log,
         \A t \in Arrived : t \in Arrived' /\ home'[t] = home[t],
         \A t \in Arrived' \ Arrived : job'[t] = "none" /\ ~Current(t)',
         \A r \in Rooms : \A i \in 1 .. Len(queue'[r]) :
           \/ \E k \in 1 .. Len(queue[r]) : queue'[r][i] = queue[r][k]
           \/ \A t \in Arrived : t < queue'[r][i],
         \A r \in Rooms : worker'[r].turn \in {NoTurn, worker[r].turn},
         \A t \in Arrived :
           /\ job[t] \in Recorded => job'[t] \in Recorded
           /\ job'[t] # "none" => job[t] # "none" \/ Current(t)
           /\ job[t] # "none" => plan'[t] = plan[t]
  PROVE  TranscriptInv'
<1> USE LogTypes DEF TranscriptInv
<1>1. LogInv'
  <2>1. SUFFICES ASSUME NEW r \in Rooms, NEW j \in 1 .. Len(log[r])
                 PROVE  LET t == log[r][j][2] IN
                        /\ t \in Arrived' /\ home'[t] = r
                        /\ \A i \in 1 .. Len(queue'[r]) : t < queue'[r][i]
                        /\ worker'[r].turn # NoTurn => t <= worker'[r].turn
                        /\ log[r][j][1] = "assistant" => job'[t] \in Recorded
    BY DEF LogInv
  <2> DEFINE t == log[r][j][2]
  <2>2. /\ t \in Arrived /\ home[t] = r
        /\ \A i \in 1 .. Len(queue[r]) : t < queue[r][i]
        /\ worker[r].turn # NoTurn => t <= worker[r].turn
        /\ log[r][j][1] = "assistant" => job[t] \in Recorded
    BY DEF LogInv
  <2> HIDE DEF t
  <2>3. t \in Arrived' /\ home'[t] = r /\ job[t] \in Recorded => job'[t] \in Recorded
    BY <2>2
  <2>4. \A i \in 1 .. Len(queue'[r]) : t < queue'[r][i]
    BY <2>2
  <2>5. worker'[r].turn # NoTurn => t <= worker'[r].turn
    BY <2>2
  <2> QED
    BY <2>2, <2>3, <2>4, <2>5 DEF t
<1>2. AskedInv'
  <2>1. SUFFICES ASSUME NEW t \in Arrived', Current(t)' \/ job'[t] # "none"
                 PROVE  \E j \in 1 .. Len(log'[home'[t]]) :
                          log'[home'[t]][j] \in Asked(t)
    BY DEF AskedInv
  <2>2. t \in Arrived /\ home'[t] = home[t]
    BY <2>1
  <2>3. Current(t) \/ job[t] # "none"
    BY <2>1, <2>2 DEF Current
  <2> QED
    BY <2>2, <2>3 DEF AskedInv
<1>3. TranscriptOrder'
  <2>1. \A r \in Rooms : \A j \in 1 .. Len(log[r]) :
          home'[log[r][j][2]] = home[log[r][j][2]]
    BY DEF LogInv
  <2>2. ASSUME NEW r \in Rooms, NEW j \in 1 .. Len(log[r])
        PROVE  Placed(r, j)'
    <3>1. Placed(r, j)
      BY OrderIsPlaced
    <3>2. log'[r] = log[r] /\ home'[log[r][j][2]] = home[log[r][j][2]]
      BY <2>1
    <3> QED
      BY <3>1, <3>2 DEF Placed
  <2> QED
    BY <2>2, OrderIsPlaced
<1>4. SyncRepliesInTurn'
  <2>1. ASSUME NEW r \in Rooms, NEW j \in 1 .. Len(log[r]),
               log[r][j][1] = "assistant"
        PROVE  plan'[log[r][j][2]] = plan[log[r][j][2]]
    <3>1. log[r][j][2] \in Arrived /\ job[log[r][j][2]] \in Recorded
      BY <2>1 DEF LogInv
    <3> QED
      BY <3>1 DEF Recorded, Over
  <2> QED
    BY <2>1 DEF SyncRepliesInTurn
<1> QED
  BY <1>1, <1>2, <1>3, <1>4

(* A step that writes one entry.                                           *)
LEMMA LogGrows ==
  ASSUME IInv, NEW r \in Rooms, NEW e \in Lines,
         log' = [log EXCEPT ![r] = Append(@, e)]
  PROVE  /\ Len(log[r]) \in Nat /\ Len(log'[r]) = Len(log[r]) + 1
         /\ log'[r][Len(log[r]) + 1] = e
         /\ \A j \in 1 .. Len(log[r]) : log'[r][j] = log[r][j]
         /\ \A q \in Rooms \ {r} : log'[q] = log[q]
<1>1. log \in [Rooms -> Seq(Lines)] /\ log[r] \in Seq(Lines)
  BY DEF IInv, TypeOK, RoomTypeOK
<1> QED
  BY <1>1

(* Take: the question of the turn at the head of the queue is later than   *)
(* all that was written.                                                   *)
LEMMA TranscriptTake ==
  ASSUME IInv, TranscriptInv, NEW r \in Rooms, Takes(r)
  PROVE  TranscriptInv'
<1> DEFINE h == Head(queue[r])
           n == Len(log[r]) + 1
<1>1. /\ queue[r] # <<>> /\ h = queue[r][1] /\ h \in Turns /\ 1 \in 1 .. Len(queue[r])
      /\ queue' = [queue EXCEPT ![r] = Tail(@)]
  BY LogTypes DEF Takes, Take
<1>2. /\ h \in Arrived /\ home[h] = r /\ job[h] = "none" /\ h # NoTurn
      /\ \A i \in 1 .. Len(queue'[r]) : h < queue'[r][i]
      /\ \A i \in 1 .. Len(queue'[r]) : i + 1 \in 1 .. Len(queue[r])
                                        /\ queue'[r][i] = queue[r][i + 1]
  <2>1. \A i \in 1 .. Len(queue'[r]) :
          /\ i + 1 \in 1 .. Len(queue[r]) /\ queue'[r][i] = queue[r][i + 1]
          /\ 1 \in 1 .. (i + 1) - 1
    BY <1>1, LogTypes
  <2> QED
    BY <1>1, <2>1, LogTypes DEF IInv, QueueInv
<1>3. \A j \in 1 .. Len(log[r]) : log[r][j][2] < h
  BY <1>1 DEF TranscriptInv, LogInv
<1>4. /\ worker'[r].turn = h /\ \A q \in Rooms \ {r} : worker'[q] = worker[q]
      /\ \A q \in Rooms \ {r} : queue'[q] = queue[q]
      /\ UNCHANGED <<home, job, plan>>
  BY LogTypes DEF Takes, Take, IInv, TypeOK, RoomTypeOK, jobVars
<1>5. PICK e \in Asked(h) : log' = [log EXCEPT ![r] = Append(@, e)]
  BY TakeWrites
<1>6. e \in Lines /\ e[1] # "assistant" /\ e[2] = h
  BY <1>1, QuestionLine
<1>7. /\ n \in Nat /\ Len(log'[r]) = n /\ log'[r][n] = e
      /\ \A j \in 1 .. n - 1 : log'[r][j] = log[r][j]
      /\ \A q \in Rooms \ {r} : log'[q] = log[q]
      /\ Len(log[r]) = n - 1
  <2> HIDE DEF h
  <2>1. /\ Len(log[r]) \in Nat /\ Len(log'[r]) = Len(log[r]) + 1
        /\ log'[r][Len(log[r]) + 1] = e
        /\ \A j \in 1 .. Len(log[r]) : log'[r][j] = log[r][j]
        /\ \A q \in Rooms \ {r} : log'[q] = log[q]
    BY <1>5, <1>6, LogGrows
  <2> QED
    BY <2>1
<1> HIDE DEF h, n
<1>8. \A j \in 1 .. n : j = n \/ j \in 1 .. n - 1
  BY <1>7
<1>9. /\ h \in Nat
      /\ \A j \in 1 .. n - 1 : log[r][j][2] \in Nat
  <2>1. \A j \in 1 .. n - 1 : log[r][j] \in Lines
    BY <1>7, LogTypes
  <2> QED
    BY <1>1, <2>1, LineTurn, LogTypes
<1> USE DEF TranscriptInv
<1>10. LogInv'
  <2>1. ASSUME NEW j \in 1 .. n
        PROVE  /\ log'[r][j][2] \in Arrived /\ home[log'[r][j][2]] = r
               /\ log'[r][j][2] <= h
               /\ log'[r][j][1] = "assistant" => job[log'[r][j][2]] \in Recorded
    <3>1. CASE j = n
      BY <1>6, <1>2, <1>7, <1>9, <3>1
    <3>2. CASE j \in 1 .. n - 1
      BY <1>6, <1>3, <1>7, <1>9, <3>2 DEF LogInv
    <3> QED
      BY <1>8, <3>1, <3>2
  <2>2. ASSUME NEW j \in 1 .. n, NEW i \in 1 .. Len(queue'[r])
        PROVE  log'[r][j][2] < queue'[r][i]
    <3>1. CASE j = n
      BY <1>6, <1>2, <1>7, <1>9, <3>1
    <3>2. CASE j \in 1 .. n - 1
      BY <1>2, <1>7, <3>2 DEF LogInv
    <3> QED
      BY <1>8, <3>1, <3>2
  <2>3. SUFFICES ASSUME NEW q \in Rooms, NEW j \in 1 .. Len(log'[q])
                 PROVE  LET t == log'[q][j][2] IN
                        /\ t \in Arrived /\ home[t] = q
                        /\ \A i \in 1 .. Len(queue'[q]) : t < queue'[q][i]
                        /\ worker'[q].turn # NoTurn => t <= worker'[q].turn
                        /\ log'[q][j][1] = "assistant" => job[t] \in Recorded
    BY <1>4 DEF LogInv, Arrived
  <2>4. CASE q = r
    BY <1>4, <1>7, <2>1, <2>2, <2>4
  <2>5. CASE q # r
    BY <1>4, <1>7, <2>5 DEF LogInv
  <2> QED
    BY <2>4, <2>5
<1>11. AskedInv'
  <2>1. SUFFICES ASSUME NEW t \in Arrived, Current(t)' \/ job[t] # "none"
                 PROVE  \E j \in 1 .. Len(log'[home[t]]) :
                          log'[home[t]][j] \in Asked(t)
    BY <1>4 DEF AskedInv, Arrived
  <2>2. CASE t = h
    <3>1. n \in 1 .. Len(log'[r])
      BY <1>7
    <3> QED
      BY <1>2, <1>5, <1>7, <2>2, <3>1
  <2>3. CASE t # h
    <3>1. Current(t) \/ job[t] # "none"
      BY <1>4, <2>1, <2>3, LogTypes DEF Current
    <3>2. PICK j \in 1 .. Len(log[home[t]]) : log[home[t]][j] \in Asked(t)
      BY <3>1 DEF AskedInv
    <3>3. home[t] \in Rooms
      BY LogTypes
    <3>4. CASE home[t] = r
      <4>1. j \in 1 .. n - 1 /\ j \in 1 .. Len(log'[r])
        BY <1>7, <3>2, <3>4
      <4> QED
        BY <1>7, <3>2, <3>4, <4>1
    <3>5. CASE home[t] # r
      BY <1>7, <3>2, <3>3, <3>5
    <3> QED
      BY <3>4, <3>5
  <2> QED
    BY <2>2, <2>3
<1>12. TranscriptOrder'
  <2>1. ASSUME NEW k \in Nat, k = n
        PROVE  Placed(r, k)'
    <3>1. \A i \in 1 .. n - 1 : log'[r][i] = log[r][i] /\ log[r][i][2] < h
      BY <1>3, <1>7
    <3>2. \A i \in 1 .. n - 1 : log'[r][i] # e
      BY <1>6, <1>9, <3>1
    <3>3. log'[r][n][1] # "assistant" /\ log'[r][n][2] = h /\ home'[h] = r
      BY <1>2, <1>4, <1>6, <1>7
    <3>4. \A i \in 1 .. n - 1 : log'[r][i][2] < h /\ log'[r][i] # log'[r][n]
      BY <1>7, <3>1, <3>2
    <3> QED
      BY <2>1, <3>3, <3>4 DEF Placed
  <2>2. ASSUME NEW q \in Rooms, NEW j \in 1 .. Len(log[q])
        PROVE  Placed(q, j)'
    <3>1. Placed(q, j)
      BY OrderIsPlaced
    <3>2. log'[q][j] = log[q][j] /\ \A i \in 1 .. j - 1 : log'[q][i] = log[q][i]
      <4>1. CASE q = r
        <5>1. \A i \in 1 .. j - 1 : i \in 1 .. n - 1
          BY <1>7, <4>1
        <5>2. j \in 1 .. n - 1
          BY <1>7, <4>1
        <5> QED
          BY <1>7, <4>1, <5>1, <5>2
      <4>2. CASE q # r
        <5>1. log'[q] = log[q]
          BY <1>7, <4>2
        <5> QED
          BY <5>1
      <4> QED
        BY <4>1, <4>2
    <3>3. home' = home
      BY <1>4
    <3> QED
      BY <3>1, <3>2, <3>3 DEF Placed
  <2>3. ASSUME NEW q \in Rooms, NEW j \in 1 .. Len(log'[q])
        PROVE  Placed(q, j)'
    <3>1. CASE q = r /\ j = n
      BY <1>7, <2>1, <3>1
    <3>2. CASE q = r /\ j \in 1 .. n - 1
      BY <1>7, <2>2, <3>2
    <3>3. CASE q # r
      BY <1>7, <2>2, <3>3
    <3> QED
      BY <1>7, <1>8, <3>1, <3>2, <3>3
  <2> QED
    BY <2>3, OrderIsPlaced
<1>13. SyncRepliesInTurn'
  <2>1. ASSUME NEW i \in 1 .. n, NEW j \in 1 .. n, log'[r][j][1] = "assistant",
               Mode[plan[log'[r][j][2]]] = "sync", i < j
        PROVE  log'[r][i][2] <= log'[r][j][2]
    <3>1. j \in 1 .. n - 1 /\ i \in 1 .. n - 1
      BY <1>6, <1>7, <1>8, <1>9, <2>1
    <3> QED
      BY <1>7, <2>1, <3>1 DEF SyncRepliesInTurn
  <2>2. ASSUME NEW q \in Rooms \ {r}, NEW i \in 1 .. Len(log'[q]),
               NEW j \in 1 .. Len(log'[q]), log'[q][j][1] = "assistant",
               Mode[plan[log'[q][j][2]]] = "sync", i < j
        PROVE  log'[q][i][2] <= log'[q][j][2]
    <3>1. log'[q] = log[q]
      BY <1>7
    <3> QED
      BY <2>2, <3>1 DEF SyncRepliesInTurn
  <2>3. SUFFICES ASSUME NEW q \in Rooms, NEW i \in 1 .. Len(log'[q]),
                        NEW j \in 1 .. Len(log'[q]), log'[q][j][1] = "assistant",
                        Mode[plan[log'[q][j][2]]] = "sync", i < j
                 PROVE  log'[q][i][2] <= log'[q][j][2]
    BY <1>4 DEF SyncRepliesInTurn
  <2> QED
    BY <1>7, <2>1, <2>2, <2>3
<1> QED
  BY <1>10, <1>11, <1>12, <1>13

(* Record: a reply is written once, by a live job, after its question; the *)
(* job of a sync turn writes it while its question is the latest.          *)
LEMMA TranscriptRecord ==
  ASSUME IInv, TranscriptInv, NEW t \in Turns, Records(t),
         log' = [log EXCEPT ![home[t]] = Append(@, <<"assistant", t>>)]
  PROVE  TranscriptInv'
<1> DEFINE r == home[t]
           n == Len(log[r]) + 1
<1>1. /\ job[t] \in Running /\ job[t] \notin Recorded /\ job'[t] = "rendering"
      /\ \A u \in Turns \ {t} : job'[u] = job[u]
      /\ UNCHANGED <<queue, worker, home, plan>>
  BY LogTypes DEF Records, Record, Enter, Running, Recorded, Over
<1>2. t \in Arrived /\ r \in Rooms /\ job[t] # "none"
  BY <1>1, LogTypes DEF IInv, JobInv, Running
<1>3. PICK k \in 1 .. Len(log[r]) : log[r][k] \in Asked(t)
  BY <1>2 DEF TranscriptInv, AskedInv
<1>4. /\ <<"assistant", t>>[2] = t /\ <<"assistant", t>>[1] = "assistant"
      /\ log[r][k][2] = t
  BY <1>3, QuestionLine
<1>5. /\ \A i \in 1 .. Len(queue[r]) : t < queue[r][i]
      /\ worker[r].turn # NoTurn => t <= worker[r].turn
  BY <1>2, <1>3, <1>4 DEF TranscriptInv, LogInv
<1>6. \A j \in 1 .. Len(log[r]) : log[r][j] # <<"assistant", t>>
  BY <1>1, <1>2, <1>4 DEF TranscriptInv, LogInv
<1>7. /\ n \in Nat /\ Len(log'[r]) = n /\ log'[r][n] = <<"assistant", t>>
      /\ \A j \in 1 .. n - 1 : log'[r][j] = log[r][j]
      /\ \A q \in Rooms \ {r} : log'[q] = log[q]
      /\ Len(log[r]) = n - 1 /\ k \in 1 .. n - 1
  <2>1. <<"assistant", t>> \in Lines
    BY DEF Lines
  <2>2. /\ Len(log[r]) \in Nat /\ Len(log'[r]) = Len(log[r]) + 1
        /\ log'[r][Len(log[r]) + 1] = <<"assistant", t>>
        /\ \A j \in 1 .. Len(log[r]) : log'[r][j] = log[r][j]
        /\ \A q \in Rooms \ {r} : log'[q] = log[q]
    BY <1>2, <2>1, LogGrows
  <2> QED
    BY <1>3, <2>2
<1> HIDE DEF n
<1>8. \A j \in 1 .. n : j = n \/ j \in 1 .. n - 1
  BY <1>7
<1>9. \A u \in Turns : /\ job[u] \in Recorded => job'[u] \in Recorded
                       /\ job'[u] # "none" => job[u] # "none"
  BY <1>1, <1>2 DEF Recorded
<1>10. LogInv'
  <2>1. SUFFICES ASSUME NEW q \in Rooms, NEW j \in 1 .. Len(log'[q])
                 PROVE  LET u == log'[q][j][2] IN
                        /\ u \in Arrived /\ home[u] = q
                        /\ \A i \in 1 .. Len(queue[q]) : u < queue[q][i]
                        /\ worker[q].turn # NoTurn => u <= worker[q].turn
                        /\ log'[q][j][1] = "assistant" => job'[u] \in Recorded
    BY <1>1 DEF LogInv, Arrived
  <2>2. CASE q = r /\ j = n
    BY <1>1, <1>2, <1>4, <1>5, <1>7, <2>2 DEF Recorded
  <2>3. CASE ~(q = r /\ j = n)
    <3>1. j \in 1 .. Len(log[q]) /\ log'[q][j] = log[q][j]
      BY <1>7, <1>8, <2>3
    <3>2. log[q][j][2] \in Arrived /\ log[q][j][2] \in Turns
      BY <3>1, LogTypes DEF TranscriptInv, LogInv
    <3> QED
      BY <1>9, <3>1, <3>2 DEF TranscriptInv, LogInv
  <2> QED
    BY <2>2, <2>3
<1>11. AskedInv'
  <2>1. SUFFICES ASSUME NEW u \in Arrived, Current(u) \/ job[u] # "none"
                 PROVE  \E j \in 1 .. Len(log'[home[u]]) :
                          log'[home[u]][j] \in Asked(u)
    BY <1>1, <1>9, LogTypes DEF AskedInv, Arrived, Current
  <2>2. PICK j \in 1 .. Len(log[home[u]]) : log[home[u]][j] \in Asked(u)
    BY <2>1 DEF TranscriptInv, AskedInv
  <2>3. home[u] \in Rooms
    BY LogTypes
  <2>4. CASE home[u] = r
    <3>1. j \in 1 .. n - 1 /\ j \in 1 .. Len(log'[r])
      BY <1>7, <2>2, <2>4
    <3> QED
      BY <1>7, <2>2, <2>4, <3>1
  <2>5. CASE home[u] # r
    BY <1>7, <2>2, <2>3, <2>5
  <2> QED
    BY <2>4, <2>5
<1>12. TranscriptOrder'
  <2>1. ASSUME NEW m \in Nat, m = n
        PROVE  Placed(r, m)'
    <3>1. home' = home
      BY <1>1
    <3>2. \A i \in 1 .. n - 1 : log'[r][i] # log'[r][n]
      BY <1>6, <1>7
    <3>3. log'[r][n][1] = "assistant" /\ log'[r][n][2] = t
      BY <1>4, <1>7
    <3>4. \E i \in 1 .. n - 1 : log'[r][i] \in Asked(t)
      BY <1>3, <1>7
    <3> QED
      BY <1>4, <2>1, <3>1, <3>2, <3>3, <3>4 DEF Placed
  <2>2. ASSUME NEW q \in Rooms, NEW j \in 1 .. Len(log[q])
        PROVE  Placed(q, j)'
    <3>1. Placed(q, j)
      BY OrderIsPlaced DEF TranscriptInv
    <3>2. log'[q][j] = log[q][j] /\ \A i \in 1 .. j - 1 : log'[q][i] = log[q][i]
      <4>1. CASE q = r
        <5>1. \A i \in 1 .. j - 1 : i \in 1 .. n - 1
          BY <1>7, <4>1
        <5>2. j \in 1 .. n - 1
          BY <1>7, <4>1
        <5> QED
          BY <1>7, <4>1, <5>1, <5>2
      <4>2. CASE q # r
        <5>1. log'[q] = log[q]
          BY <1>7, <4>2
        <5> QED
          BY <5>1
      <4> QED
        BY <4>1, <4>2
    <3>3. home' = home
      BY <1>1
    <3> QED
      BY <3>1, <3>2, <3>3 DEF Placed
  <2>3. ASSUME NEW q \in Rooms, NEW j \in 1 .. Len(log'[q])
        PROVE  Placed(q, j)'
    <3>1. CASE q = r /\ j = n
      <4>1. r' = r
        BY <1>1
      <4> QED
        BY <1>7, <2>1, <3>1, <4>1
    <3>2. CASE q = r /\ j \in 1 .. n - 1
      BY <1>7, <2>2, <3>2
    <3>3. CASE q # r
      BY <1>7, <2>2, <3>3
    <3> QED
      BY <1>7, <1>8, <3>1, <3>2, <3>3
  <2> QED
    BY <2>3, OrderIsPlaced
<1>13. SyncRepliesInTurn'
  <2>1. SUFFICES ASSUME NEW q \in Rooms, NEW i \in 1 .. Len(log'[q]),
                        NEW j \in 1 .. Len(log'[q]), log'[q][j][1] = "assistant",
                        Mode[plan[log'[q][j][2]]] = "sync", i < j
                 PROVE  log'[q][i][2] <= log'[q][j][2]
    BY <1>1 DEF SyncRepliesInTurn
  <2>2. CASE q = r /\ j = n
    <3>1. i \in 1 .. n - 1 /\ log'[r][i] = log[r][i] /\ i \in 1 .. Len(log[r])
      BY <1>7, <2>1, <2>2
    <3>2. Mode[plan[t]] = "sync"
      BY <1>4, <1>7, <2>1, <2>2
    <3>3. worker[r].turn = t /\ t # NoTurn
      BY <1>1, <1>2, <3>2, LogTypes DEF IInv, SyncHoldsRoom, Live, Current
    <3>4. log[r][i][2] <= t
      BY <1>2, <3>1, <3>3 DEF TranscriptInv, LogInv
    <3> QED
      BY <1>4, <1>7, <2>2, <3>1, <3>4
  <2>3. CASE ~(q = r /\ j = n)
    <3>1. j \in 1 .. Len(log[q]) /\ i \in 1 .. Len(log[q])
      BY <1>7, <1>8, <2>1, <2>3
    <3>2. log'[q][j] = log[q][j] /\ log'[q][i] = log[q][i]
      BY <1>7, <3>1
    <3> QED
      BY <2>1, <3>1, <3>2 DEF TranscriptInv, SyncRepliesInTurn
  <2> QED
    BY <2>2, <2>3
<1> QED
  BY <1>10, <1>11, <1>12, <1>13 DEF TranscriptInv

(* Every step keeps the transcripts.                                       *)
LEMMA TranscriptStep ==
  ASSUME IInv, TranscriptInv, [Next]_vars
  PROVE  TranscriptInv'
<1>1. ASSUME NEW r \in Rooms, NEW named \in BOOLEAN, Post(r, named)
      PROVE  TranscriptInv'
  <2> DEFINE n == Len(home) + 1
  <2>1. /\ n \in Turns /\ n \notin Arrived /\ Arrived' = Arrived \cup {n}
        /\ \A u \in Arrived : home'[u] = home[u] /\ u < n
        /\ home'[n] = r
    BY <1>1, PostHome DEF IInv
  <2>2. /\ UNCHANGED <<worker, log, plan, job>>
        /\ queue' = [queue EXCEPT ![r] = Append(@, n)]
    BY <1>1 DEF Post
  <2> HIDE DEF n
  <2>3. job'[n] = "none"
    BY <2>1, <2>2 DEF IInv, JobInv
  <2>4. worker'[r].turn # n
    BY <2>1, <2>2, LogTypes DEF IInv, WorkerInv
  <2>5. \A q \in Rooms : \A i \in 1 .. Len(queue'[q]) :
           \/ \E k \in 1 .. Len(queue[q]) : queue'[q][i] = queue[q][k]
           \/ \A u \in Arrived : u < queue'[q][i]
    <3>1. ASSUME NEW i \in 1 .. Len(queue'[r])
          PROVE  queue'[r][i] = n \/ (i \in 1 .. Len(queue[r]) /\ queue'[r][i] = queue[r][i])
      BY <2>1, <2>2, LogTypes
    <3>2. \A q \in Rooms \ {r} : queue'[q] = queue[q]
      BY <2>2, LogTypes
    <3> QED
      BY <2>1, <3>1, <3>2
  <2>6. \A u \in Arrived' \ Arrived : job'[u] = "none" /\ ~Current(u)'
    BY <2>1, <2>3, <2>4 DEF Current
  <2>7. \A u \in Arrived : u \in Arrived' /\ home'[u] = home[u]
    BY <2>1
  <2> QED
    BY <2>2, <2>5, <2>6, <2>7, LogKept
<1>2. ASSUME UNCHANGED <<home, log, job, plan>>,
             \A r \in Rooms : worker'[r].turn \in {NoTurn, worker[r].turn},
             \A r \in Rooms : \A i \in 1 .. Len(queue'[r]) :
               \E k \in 1 .. Len(queue[r]) : queue'[r][i] = queue[r][k]
      PROVE  TranscriptInv'
  BY <1>2, LogKept DEF Arrived
<1>3. ASSUME NEW r \in Rooms, WorkerStep(r)
      PROVE  TranscriptInv'
  <2>1. CASE Ignore(r)
    <3>1. \A q \in Rooms : \A i \in 1 .. Len(queue'[q]) :
            \E k \in 1 .. Len(queue[q]) : queue'[q][i] = queue[q][k]
      <4>1. \A i \in 1 .. Len(queue'[r]) :
              i + 1 \in 1 .. Len(queue[r]) /\ queue'[r][i] = queue[r][i + 1]
        BY <2>1, LogTypes DEF Ignore
      <4>2. \A q \in Rooms \ {r} : queue'[q] = queue[q]
        BY <2>1, LogTypes DEF Ignore
      <4> QED
        BY <4>1, <4>2
    <3> QED
      BY <1>2, <2>1, <3>1 DEF Ignore, jobVars
  <2>2. CASE Takes(r)
    BY <2>2, TranscriptTake
  <2>3. ASSUME Leave(r) \/ \E pc \in WorkerPCs : Step(r, pc)
        PROVE  \A q \in Rooms : worker'[q].turn \in {NoTurn, worker[q].turn}
    BY <2>3, LeaveFacts, StepFacts DEF IInv, TypeOK
  <2>4. CASE \/ AcquireSlot(r) \/ InsertPending(r) \/ SetAbort(r)
             \/ Joined(r) \/ BudgetElapsed(r)
    BY <1>2, <2>3, <2>4 DEF AcquireSlot, InsertPending, SetAbort, Joined,
       BudgetElapsed, jobVars, WorkerPCs
  <2>5. /\ worker[r].pc # "idle" => worker[r].turn \in Arrived
                                    /\ home[worker[r].turn] = r
        /\ worker[r].pc \in {"snapshot", "spawn"} => job[worker[r].turn] = "none"
    BY DEF IInv, WorkerInv
  <2>6. CASE Snapshot(r)
    <3>1. /\ UNCHANGED <<home, log, job, queue>>
          /\ \A q \in Rooms : worker'[q].turn \in {NoTurn, worker[q].turn}
      BY <2>3, <2>6 DEF Snapshot, WorkerPCs
    <3>2. \A u \in Arrived : job[u] # "none" => plan'[u] = plan[u]
      BY <2>5, <2>6, LogTypes DEF Snapshot, IInv, TypeOK, TurnTypeOK
    <3> QED
      BY <3>1, <3>2, LogKept DEF Arrived
  <2>7. CASE Spawn(r)
    <3>1. /\ UNCHANGED <<home, log, plan, queue>>
          /\ \A q \in Rooms : worker'[q].turn \in {NoTurn, worker[q].turn}
      BY <2>3, <2>7 DEF Spawn, WorkerPCs
    <3>2. \A u \in Arrived : job'[u] = job[u] \/ (job[u] = "none" /\ Current(u))
      BY <2>5, <2>7, LogTypes DEF Spawn, Current
    <3>3. "none" \notin Recorded
      BY DEF Recorded, Over
    <3> QED
      BY <3>1, <3>2, <3>3, LogKept DEF Arrived
  <2> QED
    BY <1>3, <2>1, <2>2, <2>4, <2>6, <2>7 DEF WorkerStep
<1>4. ASSUME NEW t \in Turns, OthersStep(t)
      PROVE  TranscriptInv'
  <2>1. /\ UNCHANGED <<queue, worker, home, plan>>
        /\ \A u \in Turns : job'[u] # "none" => job[u] # "none"
    BY <1>4, OthersFrame DEF IInv, Running
  <2>2. CASE UNCHANGED log
    <3>1. \A u \in Turns : job[u] \in Recorded => job'[u] \in Recorded
      <4>1. job[t] \in {"rendering", "closing"} => job'[t] \in Recorded
        BY <1>4, LogTypes, ProducerFrame DEF OthersStep, JobStep, SpawnProducer, StreamEnd, Retry,
           Records, Record, Render, Finish, Die, Panic, DropTask, Enter, Cancel, Flush,
           jobVars, Recorded, Over
      <4>2. \A u \in Turns \ {t} : job'[u] = job[u]
        BY <1>4, OthersFrame DEF IInv
      <4>3. job[t] \in Over => job'[t] = job[t]
        BY <1>4, OthersFrame DEF IInv, Running, Over
      <4> QED
        BY <4>1, <4>2, <4>3 DEF Recorded
    <3> QED
      BY <2>1, <2>2, <3>1, LogKept, LogTypes DEF Arrived
  <2>3. CASE ~UNCHANGED log
    <3>1. Records(t)
      BY <1>4, <2>3, ProducerFrame, QuietJobFrame DEF OthersStep, JobStep, Finish,
         Die, Panic, roomVars
    <3> QED
      BY <2>3, <3>1, TranscriptRecord DEF Records, Record
  <2> QED
    BY <2>2, <2>3
<1>5. ASSUME NEW r \in Rooms, NEW p \in Profiles, SetProfile(r, p)
      PROVE  TranscriptInv'
  BY <1>2, <1>5 DEF SetProfile, jobVars
<1>6. CASE UNCHANGED vars
  BY <1>2, <1>6 DEF vars, roomVars, jobVars
<1> QED
  BY <1>1, <1>3, <1>4, <1>5, <1>6, NextSplit

LEMMA TranscriptInvariance == Spec => []TranscriptInv
<1>1. Init => TranscriptInv
  <2>1. SUFFICES ASSUME Init PROVE TranscriptInv
    OBVIOUS
  <2>2. \A r \in Rooms : log[r] = <<>> /\ Len(log[r]) = 0
    BY <2>1 DEF Init
  <2>3. Arrived = {}
    BY <2>1 DEF Init, Arrived
  <2> QED
    BY <2>2, <2>3 DEF TranscriptInv, LogInv, AskedInv, TranscriptOrder,
       SyncRepliesInTurn
<1>2. IInv /\ TranscriptInv /\ [Next]_vars => TranscriptInv'
  BY TranscriptStep
<1> QED
  BY <1>1, <1>2, Invariance, PTL DEF Spec

(* Questions stand in the order of arrival, each at most once and answered *)
(* at most once, after it was asked.                                       *)
THEOREM TranscriptOrdered == Spec => []TranscriptOrder
<1>1. TranscriptInv => TranscriptOrder
  BY DEF TranscriptInv
<1> QED
  BY <1>1, TranscriptInvariance, PTL

(* The reply of a sync turn is not separated from its question by a later  *)
(* question.                                                               *)
THEOREM SyncRepliesFollow == Spec => []SyncRepliesInTurn
<1>1. TranscriptInv => SyncRepliesInTurn
  BY DEF TranscriptInv
<1> QED
  BY <1>1, TranscriptInvariance, PTL

-----------------------------------------------------------------------------
(* The refinement: every step of the pipeline is a step of Dispatch or     *)
(* leaves what Dispatch sees as it is.                                     *)

(* What Dispatch sees.                                                     *)
StageMap == [t \in Turns |-> Stage(t)]
HeldSet  == {t \in Turns : job[t] # "none" /\ Mode[plan[t]] = "sync"}
FrontMap == [r \in Rooms |-> worker[r].turn]

(* The stages of a turn exclude each other.                                *)
StageSpec(t) ==
  /\ t \notin Arrived => Stage(t) = "absent"
  /\ t \in Arrived /\ Queued(t) =>
       Stage(t) = "queued" /\ ~Current(t) /\ job[t] = "none"
  /\ t \in Arrived /\ Current(t) /\ job[t] = "none" => Stage(t) = "opened"
  /\ Live(t) => Stage(t) = IF Agentic(plan[t]) THEN "agentic" ELSE "plain"
  /\ t \in Arrived /\ ~Queued(t) /\ ~Live(t) /\ (Current(t) => job[t] # "none")
       => Stage(t) = "closed"

LEMMA StageIs == IInv => \A t \in Turns : StageSpec(t)
<1> SUFFICES ASSUME IInv, NEW t \in Turns
             PROVE  StageSpec(t)
  OBVIOUS
<1>1. Live(t) => t \in Arrived /\ job[t] # "none"
  BY LogTypes DEF IInv, JobInv, Live, Running
<1>2. t \in Arrived /\ Queued(t) => ~Current(t) /\ job[t] = "none" /\ ~Live(t)
  <2>1. SUFFICES ASSUME t \in Arrived, Queued(t)
                 PROVE  ~Current(t) /\ job[t] = "none"
    BY <1>1
  <2>2. PICK i \in 1 .. Len(queue[home[t]]) : queue[home[t]][i] = t
    BY <2>1 DEF Queued
  <2>3. worker[home[t]].turn < t /\ job[t] = "none"
    BY <2>1, <2>2, LogTypes DEF IInv, QueueInv
  <2>4. t \in Nat
    BY LogTypes
  <2> QED
    BY <2>3, <2>4 DEF Current
<1>3. CASE t \notin Arrived
  BY <1>1, <1>3 DEF StageSpec, Stage
<1>4. CASE t \in Arrived /\ Queued(t)
  BY <1>2, <1>4 DEF StageSpec, Stage
<1>5. CASE t \in Arrived /\ ~Queued(t) /\ Current(t) /\ job[t] = "none"
  BY <1>1, <1>5 DEF StageSpec, Stage
<1>6. CASE t \in Arrived /\ ~Queued(t) /\ Live(t)
  BY <1>1, <1>6 DEF StageSpec, Stage
<1>7. CASE /\ t \in Arrived /\ ~Queued(t) /\ ~Live(t)
           /\ Current(t) => job[t] # "none"
  BY <1>7 DEF StageSpec, Stage
<1> QED
  BY <1>3, <1>4, <1>5, <1>6, <1>7

LEMMA StageIsNext == IInv' => \A t \in Turns : StageSpec(t)'
<1>1. IInv' => (\A t \in Turns : StageSpec(t))'
  BY StageIs, PTL
<1> QED
  BY <1>1

(* A turn to which nothing visible happens keeps its stage.                *)
LEMMA StageKept ==
  ASSUME IInv, IInv', NEW t \in Turns,
         t \in Arrived <=> t \in Arrived',
         t \in Arrived =>
           /\ Queued(t)' <=> Queued(t)
           /\ job[t] = "none" => (Current(t)' <=> Current(t)),
         job'[t] = job[t] \/ (job[t] \in Running /\ job'[t] \in Running),
         job[t] # "none" => plan'[t] = plan[t]
  PROVE  Stage(t)' = Stage(t)
<1> DEFINE spec  == StageSpec(t)
           specN == StageSpec(t)'
<1>1. spec /\ specN
  BY StageIs, StageIsNext
<1>2. Live(t)' <=> Live(t)
  BY DEF Live
<1>3. Live(t) => job[t] # "none" /\ t \in Arrived
  BY LogTypes DEF IInv, JobInv, Live, Running
<1>4. (job'[t] = "none") <=> (job[t] = "none")
  BY DEF Running
<1>5. CASE t \notin Arrived
  BY <1>1, <1>5 DEF StageSpec
<1>6. CASE t \in Arrived /\ Queued(t)
  BY <1>1, <1>6 DEF StageSpec
<1>7. CASE t \in Arrived /\ Live(t)
  <2>1. Agentic(plan'[t]) <=> Agentic(plan[t])
    BY <1>3, <1>7
  <2> QED
    BY <1>1, <1>2, <1>7, <2>1 DEF StageSpec
<1>8. CASE t \in Arrived /\ ~Queued(t) /\ ~Live(t) /\ Current(t) /\ job[t] = "none"
  BY <1>1, <1>4, <1>8 DEF StageSpec
<1>9. CASE t \in Arrived /\ ~Queued(t) /\ ~Live(t) /\ (Current(t) => job[t] # "none")
  BY <1>1, <1>2, <1>4, <1>9 DEF StageSpec
<1> QED
  BY <1>5, <1>6, <1>7, <1>8, <1>9

Stutters == UNCHANGED <<home, StageMap, HeldSet, FrontMap>>

(* A step that is none of the actions of Dispatch leaves all of it alone.  *)
LEMMA StutterSeen ==
  ASSUME Stutters
  PROVE  UNCHANGED Promise!vars
  BY DEF Stutters, Promise!vars, StageMap, HeldSet, FrontMap

(* A turn is queued: Arrive.                                               *)
LEMMA PostSeen ==
  ASSUME IInv, IInv', NEW r \in Rooms, NEW named \in BOOLEAN, Post(r, named)
  PROVE  Promise!Next
<1>0. PICK n \in Turns : n = Len(home) + 1
  BY PostHome DEF IInv
<1>1. /\ n \in Turns /\ n \notin Arrived /\ Arrived' = Arrived \cup {n}
      /\ \A u \in Arrived : home'[u] = home[u]
      /\ home'[n] = r /\ home' = Append(home, r) /\ Len(home) < MaxTurns
  BY <1>0, PostHome DEF IInv, Post
<1>2. /\ UNCHANGED <<worker, job, plan>>
      /\ queue' = [queue EXCEPT ![r] = Append(@, n)]
  BY <1>0 DEF Post
<1>3. \A u \in Arrived : Queued(u)' <=> Queued(u)
  <2>1. SUFFICES ASSUME NEW u \in Arrived PROVE Queued(u)' <=> Queued(u)
    OBVIOUS
  <2>2. home'[u] = home[u] /\ home[u] \in Rooms /\ u # n
    BY <1>1, LogTypes
  <2>3. CASE home[u] = r
    <3>1. /\ Len(queue'[r]) = Len(queue[r]) + 1 /\ Len(queue[r]) \in Nat
          /\ queue'[r][Len(queue[r]) + 1] = n
          /\ \A i \in 1 .. Len(queue[r]) : queue'[r][i] = queue[r][i]
      BY <1>1, <1>2, LogTypes
    <3>2. \A i \in 1 .. Len(queue'[r]) :
            i \in 1 .. Len(queue[r]) \/ i = Len(queue[r]) + 1
      BY <3>1
    <3>3. \A i \in 1 .. Len(queue[r]) : i \in 1 .. Len(queue'[r])
      BY <3>1
    <3> QED
      BY <2>2, <2>3, <3>1, <3>2, <3>3 DEF Queued
  <2>4. CASE home[u] # r
    <3>1. queue'[home[u]] = queue[home[u]]
      BY <1>2, <2>2, <2>4, LogTypes
    <3> QED
      BY <2>2, <3>1 DEF Queued
  <2> QED
    BY <2>3, <2>4
<1>4. Queued(n)'
  <2>1. Len(queue'[r]) \in 1 .. Len(queue'[r]) /\ queue'[r][Len(queue'[r])] = n
    BY <1>1, <1>2, LogTypes
  <2> QED
    BY <1>1, <2>1 DEF Queued
<1>5. \A u \in Turns \ {n} : Stage(u)' = Stage(u)
  <2>1. ASSUME NEW u \in Turns \ {n} PROVE Stage(u)' = Stage(u)
    <3>1. u \in Arrived => (Current(u)' <=> Current(u))
      BY <1>1, <1>2 DEF Current
    <3> QED
      BY <1>1, <1>2, <1>3, <2>1, <3>1, StageKept
  <2> QED
    BY <2>1
<1>6. StageMap' = [StageMap EXCEPT ![n] = "queued"]
  <2>1. Stage(n)' = "queued"
    BY <1>1, <1>4, StageIsNext DEF StageSpec
  <2> QED
    BY <1>1, <1>5, <2>1 DEF StageMap
<1>7. HeldSet' = HeldSet /\ FrontMap' = FrontMap
  BY <1>2 DEF HeldSet, FrontMap
<1> QED
  BY <1>0, <1>1, <1>6, <1>7 DEF Promise!Next, Promise!Arrive, StageMap, HeldSet, FrontMap

(* The turn at the head of a queue that is free is the next of its room.   *)
LEMMA HeadIsNext ==
  ASSUME IInv, NEW r \in Rooms, queue[r] # <<>>, worker[r].pc = "idle"
  PROVE  /\ Head(queue[r]) \in Arrived /\ home[Head(queue[r])] = r
         /\ job[Head(queue[r])] = "none" /\ Queued(Head(queue[r]))
         /\ Promise!IsNext(Head(queue[r]))
<1> DEFINE h == Head(queue[r])
<1>1. h = queue[r][1] /\ 1 \in 1 .. Len(queue[r]) /\ worker[r].turn = NoTurn
  BY LogTypes DEF IInv, WorkerInv
<1>2. h \in Arrived /\ home[h] = r /\ job[h] = "none"
  BY <1>1 DEF IInv, QueueInv
<1>3. Queued(h)
  BY <1>1, <1>2 DEF Queued
<1>4. h \in Turns /\ Stage(h) = "queued"
  BY <1>2, <1>3, StageIs, LogTypes DEF StageSpec
<1>5. ASSUME NEW u \in Arrived, u < h, home[u] = r
      PROVE  Stage(u) # "queued"
  <2>1. ~Queued(u)
    <3>1. \A i \in 1 .. Len(queue[r]) : i = 1 \/ h < queue[r][i]
      <4>1. \A i \in 1 .. Len(queue[r]) : i = 1 \/ 1 \in 1 .. i - 1
        BY LogTypes
      <4> QED
        BY <1>1, <4>1 DEF IInv, QueueInv
    <3>2. u \in Nat /\ h \in Nat
      BY <1>4, LogTypes
    <3> QED
      BY <1>1, <1>5, <3>1, <3>2 DEF Queued
  <2>2. u \in Turns
    BY LogTypes
  <2>3. \/ Stage(u) = "opened" \/ Stage(u) = "closed"
        \/ Stage(u) = "plain" \/ Stage(u) = "agentic"
    BY <2>1, <2>2, StageIs DEF StageSpec
  <2> QED
    BY <2>3
<1> HIDE DEF h
<1>6. Promise!IsNext(h)
  <2>1. \A u \in Arrived : u \in Turns
    BY LogTypes
  <2> QED
    BY <1>1, <1>2, <1>4, <1>5, <2>1
    DEF Promise!IsNext, Promise!Arrived, Promise!Turns, Promise!NoTurn, Arrived, NoTurn
<1> QED
  BY <1>2, <1>3, <1>6 DEF h

(* Taking the head off a queue touches no other turn.                      *)
LEMMA TailKeeps ==
  ASSUME IInv, NEW r \in Rooms, queue[r] # <<>>, home' = home,
         queue' = [queue EXCEPT ![r] = Tail(@)]
  PROVE  /\ \A u \in Arrived : u # Head(queue[r]) => (Queued(u)' <=> Queued(u))
         /\ home[Head(queue[r])] = r => ~(\E i \in 1 .. Len(queue'[r]) :
                                            queue'[r][i] = Head(queue[r]))
<1> DEFINE h == Head(queue[r])
<1>1. /\ \A i \in 1 .. Len(queue'[r]) :
           i + 1 \in 1 .. Len(queue[r]) /\ queue'[r][i] = queue[r][i + 1]
      /\ \A i \in 1 .. Len(queue[r]) :
           i = 1 \/ (i - 1 \in 1 .. Len(queue'[r]) /\ queue'[r][i - 1] = queue[r][i])
      /\ \A q \in Rooms \ {r} : queue'[q] = queue[q]
      /\ h = queue[r][1] /\ h \in Nat
  BY LogTypes
<1>2. ASSUME NEW u \in Arrived, u # h
      PROVE  Queued(u)' <=> Queued(u)
  <2>1. home[u] \in Rooms
    BY LogTypes
  <2>2. CASE home[u] = r
    <3>1. ASSUME NEW i \in 1 .. Len(queue[r]), queue[r][i] = u
          PROVE  \E j \in 1 .. Len(queue'[r]) : queue'[r][j] = u
      BY <1>1, <1>2, <3>1
    <3>2. ASSUME NEW i \in 1 .. Len(queue'[r]), queue'[r][i] = u
          PROVE  \E j \in 1 .. Len(queue[r]) : queue[r][j] = u
      BY <1>1, <3>2
    <3> QED
      BY <2>2, <3>1, <3>2 DEF Queued
  <2>3. CASE home[u] # r
    BY <1>1, <2>1, <2>3 DEF Queued
  <2> QED
    BY <2>2, <2>3
<1>3. ASSUME NEW i \in 1 .. Len(queue'[r]) PROVE queue'[r][i] # h
  <2>1. i + 1 \in 1 .. Len(queue[r]) /\ 1 \in 1 .. (i + 1) - 1
    BY <1>1
  <2>2. h < queue[r][i + 1]
    BY <1>1, <2>1 DEF IInv, QueueInv
  <2>3. queue[r][i + 1] \in Nat
    BY <2>1, LogTypes
  <2> QED
    BY <1>1, <2>2, <2>3
<1> QED
  BY <1>2, <1>3

(* A turn that is not meant for the bot: Skip. Any other: Open.            *)
LEMMA HeadSeen ==
  ASSUME IInv, IInv', NEW r \in Rooms, Ignore(r) \/ Takes(r)
  PROVE  Promise!Next
<1>1. /\ queue[r] # <<>> /\ worker[r].pc = "idle" /\ worker[r].turn = NoTurn
      /\ queue' = [queue EXCEPT ![r] = Tail(@)]
      /\ UNCHANGED <<home, job, plan>>
  BY DEF Ignore, Takes, Take, jobVars, IInv, WorkerInv
<1>2. PICK h \in Turns : h = Head(queue[r])
  BY <1>1, LogTypes
<1>3. /\ h \in Arrived /\ home[h] = r /\ job[h] = "none" /\ Queued(h)
      /\ Promise!IsNext(h) /\ h # NoTurn
  BY <1>1, <1>2, HeadIsNext, LogTypes
<1>4. /\ \A u \in Arrived : u # h => (Queued(u)' <=> Queued(u))
      /\ ~Queued(h)' /\ Arrived' = Arrived
  <2>1. \A u \in Arrived : u # h => (Queued(u)' <=> Queued(u))
    BY <1>1, <1>2, TailKeeps
  <2>2. ~(\E i \in 1 .. Len(queue'[r]) : queue'[r][i] = h)
    BY <1>1, <1>2, <1>3, TailKeeps
  <2>3. ~Queued(h)'
    BY <1>1, <1>3, <2>2 DEF Queued
  <2>4. Arrived' = Arrived
    BY <1>1 DEF Arrived
  <2> QED
    BY <2>1, <2>3, <2>4
<1>5. HeldSet' = HeldSet
  BY <1>1 DEF HeldSet
<1>6. ASSUME \A u \in Arrived \ {h} : Current(u)' <=> Current(u)
      PROVE  \A u \in Turns \ {h} : Stage(u)' = Stage(u)
  <2>1. ASSUME NEW u \in Turns \ {h} PROVE Stage(u)' = Stage(u)
    BY <1>1, <1>4, <1>6, <2>1, StageKept
  <2> QED
    BY <2>1
<1>7. CASE Ignore(r)
  <2>1. worker' = worker
    BY <1>7 DEF Ignore
  <2>2. Stage(h)' = "closed"
    <3>1. h \in Arrived' /\ ~Queued(h)' /\ ~Live(h)' /\ ~Current(h)'
      BY <1>1, <1>3, <1>4, <2>1 DEF Live, Running, Current
    <3> QED
      BY <3>1, StageIsNext DEF StageSpec
  <2>3. \A u \in Turns \ {h} : Stage(u)' = Stage(u)
    BY <1>1, <1>6, <2>1 DEF Current
  <2>4. StageMap' = [StageMap EXCEPT ![h] = "closed"] /\ FrontMap' = FrontMap
    BY <2>1, <2>2, <2>3 DEF StageMap, FrontMap
  <2>5. Promise!Skip(h)
    BY <1>1, <1>3, <1>5, <2>4 DEF Promise!Skip, StageMap, HeldSet, FrontMap
  <2> QED
    BY <2>5 DEF Promise!Next, Promise!Advance, Promise!Turns, Turns
<1>8. CASE Takes(r)
  <2>1. /\ worker'[r].turn = h /\ \A q \in Rooms \ {r} : worker'[q] = worker[q]
    BY <1>2, <1>8 DEF Takes, Take, IInv, TypeOK, RoomTypeOK
  <2>2. Stage(h)' = "opened"
    <3>1. h \in Arrived' /\ Current(h)' /\ job'[h] = "none"
      BY <1>1, <1>3, <1>4, <2>1 DEF Current
    <3> QED
      BY <3>1, StageIsNext DEF StageSpec
  <2>3. \A u \in Turns \ {h} : Stage(u)' = Stage(u)
    BY <1>1, <1>6, <2>1, LogTypes DEF Current
  <2>4. /\ StageMap' = [StageMap EXCEPT ![h] = "opened"]
        /\ FrontMap' = [FrontMap EXCEPT ![r] = h]
    BY <2>1, <2>2, <2>3 DEF StageMap, FrontMap
  <2>5. Promise!Open(h)
    BY <1>1, <1>3, <1>5, <2>4 DEF Promise!Open, StageMap, HeldSet, FrontMap
  <2> QED
    BY <2>5 DEF Promise!Next, Promise!Advance, Promise!Turns, Turns
<1> QED
  BY <1>7, <1>8

(* Steps nothing of which shows: each worker keeps its turn, each queue    *)
(* its turns, and a job at most goes on.                                   *)
LEMMA QuietSeen ==
  ASSUME IInv, IInv', UNCHANGED <<home, queue>>,
         \A q \in Rooms : worker'[q].turn = worker[q].turn,
         \A t \in Turns :
           /\ job'[t] = job[t] \/ (job[t] \in Running /\ job'[t] \in Running)
           /\ job[t] # "none" => plan'[t] = plan[t]
  PROVE  Stutters
<1>1. ASSUME NEW t \in Turns PROVE Stage(t)' = Stage(t)
  <2>1. Arrived' = Arrived /\ (Queued(t)' <=> Queued(t))
    BY DEF Arrived, Queued
  <2>2. t \in Arrived => (Current(t)' <=> Current(t))
    BY LogTypes DEF Current
  <2> QED
    BY <1>1, <2>1, <2>2, StageKept
<1>2. StageMap' = StageMap
  BY <1>1 DEF StageMap
<1>3. HeldSet' = HeldSet
  <2>1. \A t \in Turns : job'[t] # "none" <=> job[t] # "none"
    BY DEF Running
  <2> QED
    BY <2>1 DEF HeldSet
<1>4. FrontMap' = FrontMap
  BY DEF FrontMap
<1> QED
  BY <1>2, <1>3, <1>4 DEF Stutters

(* The worker prepares the job of a turn it has opened.                    *)
LEMMA PreparationSeen ==
  ASSUME IInv, IInv', NEW r \in Rooms,
         Snapshot(r) \/ AcquireSlot(r) \/ InsertPending(r)
  PROVE  Stutters
<1>1. UNCHANGED <<home, queue, job>>
  BY DEF Snapshot, AcquireSlot, InsertPending, jobVars
<1>2. PICK pc \in WorkerPCs : Step(r, pc)
  BY DEF Snapshot, AcquireSlot, InsertPending, WorkerPCs
<1>3. \A q \in Rooms : worker'[q].turn = worker[q].turn
  BY <1>2, StepFacts DEF IInv, TypeOK
<1>4. ASSUME NEW t \in Turns, job[t] # "none" PROVE plan'[t] = plan[t]
  <2>1. CASE Snapshot(r)
    BY <1>4, <2>1 DEF Snapshot, IInv, WorkerInv, TypeOK, TurnTypeOK
  <2> QED
    BY <2>1 DEF AcquireSlot, InsertPending, jobVars
<1> QED
  BY <1>1, <1>3, <1>4, QuietSeen

(* The job of a turn is spawned: Serve. Its room has no other agentic job. *)
LEMMA SpawnSeen ==
  ASSUME IInv, IInv', NEW r \in Rooms, Spawn(r)
  PROVE  Promise!Next
<1>1. PICK t \in Turns : t = worker[r].turn
  BY LogTypes DEF Spawn, IInv, WorkerInv
<1>2. /\ t \in Arrived /\ home[t] = r /\ job[t] = "none" /\ Current(t)
      /\ UNCHANGED <<home, queue, plan, gate>>
      /\ job' = [job EXCEPT ![t] = "starting"]
  BY <1>1 DEF Spawn, IInv, WorkerInv, NoTurn, Turns, Current
<1>3. \A q \in Rooms : worker'[q].turn = worker[q].turn
  <2>1. Step(r, "arm") /\ "arm" \in WorkerPCs
    BY DEF Spawn, WorkerPCs
  <2> QED
    BY <2>1, StepFacts DEF IInv, TypeOK
<1>4. Arrived' = Arrived /\ \A u \in Arrived : (Queued(u)' <=> Queued(u))
                                            /\ (Current(u)' <=> Current(u))
  BY <1>2, <1>3, LogTypes DEF Arrived, Queued, Current
<1>5. PICK kind \in {"plain", "agentic"} :
        kind = IF Agentic(plan[t]) THEN "agentic" ELSE "plain"
  OBVIOUS
<1>6. PICK hold \in BOOLEAN : hold = (Mode[plan[t]] = "sync")
  OBVIOUS
<1>7. Stage(t) = "opened"
  BY <1>2, StageIs DEF StageSpec
<1>8. Stage(t)' = kind
  <2>1. job'[t] \in Running /\ plan'[t] = plan[t]
    BY <1>2, LogTypes DEF Running
  <2>2. StageSpec(t)'
    BY StageIsNext
  <2> QED
    BY <1>5, <2>1, <2>2 DEF StageSpec, Live, Agentic
<1>9. StageMap' = [StageMap EXCEPT ![t] = kind]
  <2>1. ASSUME NEW u \in Turns \ {t} PROVE Stage(u)' = Stage(u)
    BY <1>2, <1>4, <2>1, LogTypes, StageKept
  <2> QED
    BY <1>8, <2>1 DEF StageMap
<1>10. HeldSet' = IF hold THEN HeldSet \cup {t} ELSE HeldSet
  <2>1. \A u \in Turns : job'[u] # "none" <=> job[u] # "none" \/ u = t
    BY <1>2, LogTypes
  <2> QED
    BY <1>2, <1>6, <2>1 DEF HeldSet
<1>11. ASSUME kind = "agentic", NEW u \in Arrived, home[u] = r
       PROVE  Stage(u) # "agentic"
  <2>1. SUFFICES ASSUME Live(u), Agentic(plan[u]) PROVE FALSE
    <3>1. u \in Turns /\ StageSpec(u)
      BY LogTypes, StageIs
    <3>2. \/ Queued(u) \/ (Current(u) /\ job[u] = "none") \/ Live(u)
          \/ (~Queued(u) /\ ~Live(u) /\ (Current(u) => job[u] # "none"))
      OBVIOUS
    <3> QED
      BY <2>1, <3>1, <3>2 DEF StageSpec
  <2>2. gate[r] = u
    BY <1>11, <2>1 DEF IInv, OneAgenticJobPerRoom
  <2>3. gate[r] = t
    BY <1>1, <1>5, <1>11 DEF Spawn, IInv, GateInv
  <2> QED
    BY <1>2, <2>1, <2>2, <2>3 DEF Live, Running
<1>12. FrontMap' = FrontMap
  BY <1>3 DEF FrontMap
<1>13. Promise!Serve(t, kind, hold)
  BY <1>2, <1>7, <1>9, <1>10, <1>11, <1>12, LogTypes
  DEF Promise!Serve, Promise!Arrived, Arrived, StageMap, HeldSet, FrontMap
<1> QED
  BY <1>13 DEF Promise!Next, Promise!Advance, Promise!Turns, Turns

(* The worker leaves a turn whose job is detached or over: Yield.          *)
LEMMA LeaveSeen ==
  ASSUME IInv, IInv', NEW r \in Rooms, Leave(r),
         worker[r].pc \in {"arm", "hold"}, UNCHANGED <<home, queue, job, plan>>,
         Mode[plan[worker[r].turn]] # "sync" \/ job[worker[r].turn] \in Over
  PROVE  Promise!Next
<1>1. PICK t \in Turns : t = worker[r].turn
  BY LogTypes DEF IInv, WorkerInv
<1>2. t \in Arrived /\ home[t] = r /\ job[t] # "none" /\ t # NoTurn
  BY <1>1 DEF IInv, WorkerInv, NoTurn, Turns
<1>3. /\ worker'[r].turn = NoTurn
      /\ \A q \in Rooms \ {r} : worker'[q] = worker[q]
  BY LeaveFacts DEF IInv, TypeOK
<1>4. ASSUME NEW u \in Turns PROVE Stage(u)' = Stage(u)
  <2>1. Arrived' = Arrived /\ (Queued(u)' <=> Queued(u))
    BY DEF Arrived, Queued
  <2>2. u \in Arrived /\ job[u] = "none" => (Current(u)' <=> Current(u))
    <3>1. SUFFICES ASSUME u \in Arrived, job[u] = "none"
                   PROVE  Current(u)' <=> Current(u)
      OBVIOUS
    <3>2. home[u] \in Rooms /\ u # t
      BY <1>2, <3>1, LogTypes
    <3>3. home[u] = r => ~Current(u) /\ ~Current(u)'
      BY <1>1, <1>3, <3>2, LogTypes DEF Current
    <3> QED
      BY <1>3, <3>2, <3>3 DEF Current
  <2> QED
    BY <1>4, <2>1, <2>2, StageKept
<1>5. StageMap' = StageMap /\ HeldSet' = HeldSet
  BY <1>4 DEF StageMap, HeldSet
<1>6. FrontMap' = [FrontMap EXCEPT ![r] = NoTurn]
  BY <1>3 DEF FrontMap
<1>7. ~Queued(t)
  BY <1>2, StageIs DEF StageSpec
<1>8. Stage(t) \in {"plain", "agentic", "closed"}
  BY <1>2, <1>7, StageIs DEF StageSpec
<1>9. t \in HeldSet => Stage(t) = "closed"
  <2>1. SUFFICES ASSUME job[t] \in Over PROVE Stage(t) = "closed"
    BY <1>1 DEF HeldSet
  <2>2. ~Live(t)
    BY <2>1 DEF Live, Running, Over
  <2> QED
    BY <1>2, <1>7, <2>2, StageIs DEF StageSpec
<1>10. Promise!Yield(r)
  BY <1>1, <1>2, <1>5, <1>6, <1>8, <1>9
  DEF Promise!Yield, Promise!NoTurn, NoTurn, StageMap, HeldSet, FrontMap
<1> QED
  BY <1>10 DEF Promise!Next

(* A worker that spawned its job holds the room or leaves it.              *)
LEMMA ReleaseSeen ==
  ASSUME IInv, IInv', NEW r \in Rooms,
         SetAbort(r) \/ Joined(r) \/ BudgetElapsed(r)
  PROVE  Promise!Next \/ Stutters
<1>1. UNCHANGED <<home, queue, job, plan>> /\ worker[r].pc \in {"arm", "hold"}
  BY DEF SetAbort, Joined, BudgetElapsed, jobVars
<1>2. CASE Step(r, "hold")
  <2>1. \A q \in Rooms : worker'[q].turn = worker[q].turn
    BY <1>2, StepFacts DEF IInv, TypeOK, WorkerPCs
  <2> QED
    BY <1>1, <2>1, QuietSeen
<1>3. CASE /\ Leave(r)
           /\ Mode[plan[worker[r].turn]] # "sync" \/ job[worker[r].turn] \in Over
  BY <1>1, <1>3, LeaveSeen
<1> QED
  BY <1>2, <1>3 DEF SetAbort, Joined, BudgetElapsed

(* A job goes on unseen or ends: Close.                                    *)
LEMMA OthersSeen ==
  ASSUME IInv, IInv', NEW t \in Turns, OthersStep(t)
  PROVE  Promise!Next \/ Stutters
<1>1. /\ UNCHANGED <<queue, worker, home, plan>>
      /\ \A u \in Turns : \/ job'[u] = job[u]
                          \/ /\ u = t /\ job[u] \in Running
                             /\ job'[u] \in Running \cup Over
  BY OthersFrame DEF IInv
<1>2. CASE job'[t] = job[t] \/ (job[t] \in Running /\ job'[t] \in Running)
  <2>1. \A u \in Turns :
          \/ job'[u] = job[u] \/ (job[u] \in Running /\ job'[u] \in Running)
    BY <1>1, <1>2
  <2> QED
    BY <1>1, <2>1, QuietSeen
<1>3. CASE job[t] \in Running /\ job'[t] \in Over
  <2>1. /\ t \in Arrived /\ job[t] # "none" /\ job'[t] # "none"
        /\ Live(t) /\ ~Live(t)' /\ Arrived' = Arrived
    BY <1>1, <1>3 DEF IInv, JobInv, Live, Running, Over, Arrived
  <2>2. Stage(t) \in {"plain", "agentic"}
    BY <2>1, StageIs DEF StageSpec
  <2>3. ~Queued(t)'
    BY <2>1, StageIsNext DEF StageSpec
  <2>4. Stage(t)' = "closed"
    BY <2>1, <2>3, StageIsNext DEF StageSpec
  <2>5. ASSUME NEW u \in Turns \ {t} PROVE Stage(u)' = Stage(u)
    <3>1. (Queued(u)' <=> Queued(u)) /\ (Current(u)' <=> Current(u))
      BY <1>1 DEF Queued, Current
    <3>2. job'[u] = job[u]
      BY <1>1, <2>5
    <3> QED
      BY <1>1, <2>1, <2>5, <3>1, <3>2, StageKept
  <2>6. StageMap' = [StageMap EXCEPT ![t] = "closed"]
    BY <2>4, <2>5 DEF StageMap
  <2>7. HeldSet' = HeldSet
    <3>1. \A u \in Turns : job'[u] # "none" <=> job[u] # "none"
      BY <1>1, <2>1
    <3> QED
      BY <1>1, <3>1 DEF HeldSet
  <2>8. FrontMap' = FrontMap
    BY <1>1 DEF FrontMap
  <2>9. Promise!Close(t)
    BY <1>1, <2>2, <2>6, <2>7, <2>8
    DEF Promise!Close, StageMap, HeldSet, FrontMap
  <2> QED
    BY <2>9 DEF Promise!Next, Promise!Turns, Turns
<1> QED
  BY <1>1, <1>2, <1>3

(* Every step of the pipeline is a step of Dispatch or a stutter.          *)
LEMMA StepSeen ==
  ASSUME IInv, IInv', [Next]_vars
  PROVE  [Promise!Next]_(Promise!vars)
<1>1. ASSUME NEW r \in Rooms, WorkerStep(r)
      PROVE  Promise!Next \/ Stutters
  BY <1>1, HeadSeen, PreparationSeen, SpawnSeen, ReleaseSeen DEF WorkerStep
<1>2. ASSUME UNCHANGED <<home, queue, worker, job, plan>>
      PROVE  Stutters
  BY <1>2, QuietSeen
<1>3. ASSUME NEW r \in Rooms, NEW p \in Profiles, SetProfile(r, p)
      PROVE  Stutters
  BY <1>2, <1>3 DEF SetProfile, jobVars
<1>4. UNCHANGED vars => Stutters
  BY <1>2 DEF vars, roomVars, jobVars
<1>5. Promise!Next \/ Stutters
  BY <1>1, <1>3, <1>4, NextSplit, PostSeen, OthersSeen
<1> QED
  BY <1>5, StutterSeen

(* A fresh pipeline looks like a fresh Dispatch.                           *)
LEMMA InitSeen ==
  ASSUME Init
  PROVE  Promise!Init
<1>1. Arrived = {}
  BY DEF Init, Arrived
<1>2. \A t \in Turns : Stage(t) = "absent"
  <2>1. \A t \in Turns : ~Live(t)
    BY DEF Init, Live, Running
  <2> QED
    BY <1>1, <2>1 DEF Stage
<1> QED
  BY <1>2 DEF Init, Idle, NoTurn, Turns,
              Promise!Init, Promise!Turns, Promise!NoTurn

(* Seen from outside, a room does with its turns what Dispatch promises:   *)
(* it opens them one at a time in the order of arrival, never serves two   *)
(* agentic turns at once, and does not pass a held turn before it is over. *)
THEOREM PromiseKept == Spec => KeepsPromise
<1>1. Init => Promise!Init
  BY InitSeen
<1>2. IInv /\ IInv' /\ [Next]_vars => [Promise!Next]_(Promise!vars)
  BY StepSeen
<1> QED
  BY <1>1, <1>2, Invariance, PTL DEF Spec, KeepsPromise, Promise!Spec
=============================================================================

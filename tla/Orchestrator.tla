----------------------------- MODULE Orchestrator -----------------------------
(***************************************************************************)
(* The turn pipeline of roger: the per-room FIFO workers, the response job *)
(* each turn becomes, the job registry behind /jobs and /cancel, the       *)
(* per-room agentic slot, the producer task that walks a profile's chain   *)
(* of backends, and the process-wide cap on subprocess children.           *)
(*                                                                         *)
(* Four kinds of task interleave:                                          *)
(*   - the sync loop and the commands it answers (Post, SetProfile,        *)
(*     Cancel);                                                            *)
(*   - one worker per room (Take .. BudgetElapsed);                        *)
(*   - one response job per turn (SpawnProducer .. Finish, Die, Panic);    *)
(*   - one producer per turn (HttpAnswer .. ChildFail), which outlives a   *)
(*     job that is aborted: dropping its JoinHandle detaches it.           *)
(*                                                                         *)
(* Turns are numbered in the order in which the sync loop queues them.     *)
(* Texts, prompts and Matrix events are abstracted away; a backend is the  *)
(* string "http" or "sub" (an agentic CLI run as a child process).         *)
(***************************************************************************)
EXTENDS Naturals, Sequences, FiniteSets

CONSTANTS
  Rooms,           (* the allowed rooms                                    *)
  MaxTurns,        (* BOUND on the messages queued in one behaviour        *)
  MaxLost,         (* BOUND on the questions a room fails to save          *)
  Profiles,        (* the configured LLM profiles                          *)
  Mode,            (* profile -> comms mode                                *)
  Chain,           (* profile -> its backends, the primary first           *)
  DefaultProfile,  (* the profile of a room with no override               *)
  RequireMention,  (* the rooms whose turns must mention the bot           *)
  MaxChildren      (* comms.max_concurrent_children                        *)

Turns  == 1 .. MaxTurns
NoTurn == 0

ASSUME MaxTurnsAssumption    == MaxTurns \in Nat
ASSUME MaxChildrenAssumption == MaxChildren \in Nat \ {0}
ASSUME ProfileAssumption     == DefaultProfile \in Profiles
ASSUME ModeAssumption        == Mode \in [Profiles -> {"sync", "async", "auto"}]
ASSUME ChainAssumption       ==
  /\ Chain \in [Profiles -> Seq({"http", "sub"})]
  /\ \A p \in Profiles : Len(Chain[p]) >= 1
ASSUME MentionAssumption     == RequireMention \subseteq Rooms

VARIABLES
  (* one per room *)
  queue,         (* turns sent to the worker and not yet received          *)
  profile,       (* the room's current profile (ReloadableState)           *)
  worker,        (* the worker: where it is and the turn it processes      *)
  gate,          (* the turn that holds the agentic slot, or NoTurn        *)
  log,           (* what became of the appends to its history, in order    *)
  (* one per turn *)
  home,          (* the room of each queued turn: turn n is home[n]        *)
  heard,         (* the turns that mention the bot or bypass the gate      *)
  plan,          (* the profile snapshotted for the turn's job             *)
  job,           (* the phase of the turn's response job                   *)
  aborted,       (* the turns whose task was told to abort                 *)
  entry,         (* the job's entry in the registry                        *)
  call,          (* the chain walk made for the turn                       *)
  stream,        (* the flush loop: texts received, backend on display     *)
  (* the process *)
  childPermits   (* free permits of CHILD_SEM                              *)

roomVars == <<queue, profile, worker, gate, log>>
jobVars  == <<home, heard, plan, job, aborted, entry>>
callVars == <<call, stream, childPermits>>
vars     == <<roomVars, jobVars, callVars>>

-----------------------------------------------------------------------------
(* The state space.                                                        *)

Agentic(p) == Chain[p][1] = "sub"

WorkerPCs == {"idle", "snapshot", "slot", "insert", "spawn", "arm", "hold"}
Running   == {"starting", "streaming", "settling", "retrying", "rendering",
              "closing"}
Over      == {"done", "dead", "panicked"}
Outcomes  == {"ok", "empty", "err", "panic"}

(* A line of a log: a question or a reply that is in the history, or a     *)
(* question that could not be saved.                                       *)
Lines == {"user", "assistant", "lost"} \X Turns

Idle   == [pc |-> "idle", turn |-> NoTurn]
NoCall == [by |-> "none", at |-> 0, st |-> "off"]
NoText == [said |-> {}, shown |-> 0]

Calls == [by : {"none", "producer", "job"}, at : Nat,
          st : {"off", "http", "queue", "child"} \cup Outcomes]

WorkerType == [pc : WorkerPCs, turn : Turns \cup {NoTurn}]

RoomTypeOK ==
  /\ queue   \in [Rooms -> Seq(Turns)]
  /\ profile \in [Rooms -> Profiles]
  /\ worker  \in [Rooms -> WorkerType]
  /\ gate    \in [Rooms -> Turns \cup {NoTurn}]
  /\ log     \in [Rooms -> Seq(Lines)]

TurnTypeOK ==
  /\ home    \in Seq(Rooms) /\ Len(home) <= MaxTurns
  /\ heard   \in SUBSET Turns
  /\ plan    \in [Turns -> Profiles]
  /\ job     \in [Turns -> {"none"} \cup Running \cup Over]
  /\ aborted \in SUBSET Turns
  /\ entry   \in [Turns -> {"none", "pending", "armed"}]

CallTypeOK ==
  /\ call         \in [Turns -> Calls]
  /\ stream       \in [Turns -> [said : SUBSET Nat, shown : Nat]]
  /\ childPermits \in Nat

TypeOK == RoomTypeOK /\ TurnTypeOK /\ CallTypeOK

Init ==
  /\ queue        = [r \in Rooms |-> <<>>]
  /\ profile      = [r \in Rooms |-> DefaultProfile]
  /\ worker       = [r \in Rooms |-> Idle]
  /\ gate         = [r \in Rooms |-> NoTurn]
  /\ log          = [r \in Rooms |-> <<>>]
  /\ home         = <<>>
  /\ heard        = {}
  /\ plan         = [t \in Turns |-> DefaultProfile]
  /\ job          = [t \in Turns |-> "none"]
  /\ aborted      = {}
  /\ entry        = [t \in Turns |-> "none"]
  /\ call         = [t \in Turns |-> NoCall]
  /\ stream       = [t \in Turns |-> NoText]
  /\ childPermits = MaxChildren

-----------------------------------------------------------------------------
(* The sync loop: messages and control commands.                           *)

(* handle_message puts a turn on its room's queue; `named` says whether it *)
(* mentions the bot (a bare upload bypasses the gate: the same).           *)
Post(r, named) ==
  /\ Len(home) < MaxTurns
  /\ r \notin RequireMention => named
  /\ home'  = Append(home, r)
  /\ queue' = [queue EXCEPT ![r] = Append(@, Len(home) + 1)]
  /\ heard' = IF named THEN heard \cup {Len(home) + 1} ELSE heard
  /\ UNCHANGED <<profile, worker, gate, log, plan, job, aborted, entry,
                 callVars>>

(* /model <profile>, or a reload that changes the room's profile.          *)
SetProfile(r, p) ==
  /\ p # profile[r]
  /\ profile' = [profile EXCEPT ![r] = p]
  /\ UNCHANGED <<queue, worker, gate, log, jobVars, callVars>>

(* /cancel <id> on a listed job: the entry goes, and the task is told to   *)
(* abort if its handle is already there.                                   *)
Cancel(t) ==
  /\ entry[t] # "none"
  /\ entry'   = [entry EXCEPT ![t] = "none"]
  /\ aborted' = IF entry[t] = "armed" THEN aborted \cup {t} ELSE aborted
  /\ UNCHANGED <<roomVars, home, heard, plan, job, callVars>>

-----------------------------------------------------------------------------
(* The room worker: room_worker and process_turn.                          *)

Step(r, pc) == worker' = [worker EXCEPT ![r].pc = pc]
Leave(r)    == worker' = [worker EXCEPT ![r] = Idle]

Lost(r) == {j \in 1 .. Len(log[r]) : log[r][j][1] = "lost"}

(* The line of a question.                                                 *)
Question(t, saved) == <<IF saved THEN "user" ELSE "lost", t>>

(* A turn that fails the mention gate is dropped.                          *)
Ignore(r) ==
  /\ worker[r].pc = "idle" /\ queue[r] # <<>>
  /\ r \in RequireMention /\ Head(queue[r]) \notin heard
  /\ queue' = [queue EXCEPT ![r] = Tail(@)]
  /\ UNCHANGED <<profile, worker, gate, log, jobVars, callVars>>

(* Slip: the queue is drained from its end.                                *)
TakeNewest(r, saved) ==
  LET n == Len(queue[r]) IN
  /\ worker[r].pc = "idle" /\ n > 0
  /\ queue'  = [queue EXCEPT ![r] = SubSeq(@, 1, n - 1)]
  /\ worker' = [worker EXCEPT ![r] = [pc |-> "snapshot", turn |-> queue[r][n]]]
  /\ log'    = [log EXCEPT ![r] = Append(@, Question(queue[r][n], saved))]
  /\ UNCHANGED <<profile, gate, jobVars, callVars>>

(* Receive the next turn and append it to the history. If that fails, the  *)
(* turn goes on all the same.                                              *)
Take(r, saved) ==
  /\ worker[r].pc = "idle" /\ queue[r] # <<>>
  /\ r \in RequireMention => Head(queue[r]) \in heard
  /\ saved \/ Cardinality(Lost(r)) < MaxLost
  /\ queue'  = [queue EXCEPT ![r] = Tail(@)]
  /\ worker' = [worker EXCEPT ![r] = [pc   |-> "snapshot",
                                      turn |-> Head(queue[r])]]
  /\ log'    = [log EXCEPT ![r] = Append(@, Question(Head(queue[r]), saved))]
  /\ UNCHANGED <<profile, gate, jobVars, callVars>>

(* Snapshot the profile; an agentic turn goes on to wait for the slot.     *)
Snapshot(r) ==
  /\ worker[r].pc = "snapshot"
  /\ plan' = [plan EXCEPT ![worker[r].turn] = profile[r]]
  /\ Step(r, IF Agentic(profile[r]) THEN "slot" ELSE "insert")
  /\ UNCHANGED <<queue, profile, gate, log, home, heard, job, aborted, entry,
                 callVars>>

AcquireSlot(r) ==
  /\ worker[r].pc = "slot" /\ gate[r] = NoTurn
  /\ gate' = [gate EXCEPT ![r] = worker[r].turn]
  /\ Step(r, "insert")
  /\ UNCHANGED <<queue, profile, log, jobVars, callVars>>

InsertPending(r) ==
  /\ worker[r].pc = "insert"
  /\ entry' = [entry EXCEPT ![worker[r].turn] = "pending"]
  /\ Step(r, "spawn")
  /\ UNCHANGED <<queue, profile, gate, log, home, heard, plan, job, aborted,
                 callVars>>

Spawn(r) ==
  /\ worker[r].pc = "spawn"
  /\ job' = [job EXCEPT ![worker[r].turn] = "starting"]
  /\ Step(r, "arm")
  /\ UNCHANGED <<queue, profile, gate, log, home, heard, plan, aborted, entry,
                 callVars>>

(* Slip: set_abort inserts the entry again when it is gone.                *)
SetAbortInserts(r) ==
  /\ worker[r].pc = "arm"
  /\ entry' = [entry EXCEPT ![worker[r].turn] = "armed"]
  /\ IF Mode[plan[worker[r].turn]] = "async" THEN Leave(r) ELSE Step(r, "hold")
  /\ UNCHANGED <<queue, profile, gate, log, home, heard, plan, job, aborted,
                 callVars>>

(* Slip: every mode but auto is detached.                                  *)
SetAbortDetaches(r) ==
  LET t == worker[r].turn IN
  /\ worker[r].pc = "arm"
  /\ entry' = [entry EXCEPT ![t] = IF @ = "none" THEN "none" ELSE "armed"]
  /\ IF Mode[plan[t]] # "auto" THEN Leave(r) ELSE Step(r, "hold")
  /\ UNCHANGED <<queue, profile, gate, log, home, heard, plan, job, aborted,
                 callVars>>

(* set_abort does nothing when the entry is gone; an async turn then leaves *)
(* its job behind, any other is held.                                      *)
SetAbort(r) ==
  LET t == worker[r].turn IN
  /\ worker[r].pc = "arm"
  /\ entry' = [entry EXCEPT ![t] = IF @ = "none" THEN "none" ELSE "armed"]
  /\ IF Mode[plan[t]] = "async" THEN Leave(r) ELSE Step(r, "hold")
  /\ UNCHANGED <<queue, profile, gate, log, home, heard, plan, job, aborted,
                 callVars>>

(* Slip: the worker waits for a signal only a job that returns sends.      *)
JoinedOnReturn(r) ==
  /\ worker[r].pc = "hold" /\ job[worker[r].turn] = "done"
  /\ Leave(r)
  /\ UNCHANGED <<queue, profile, gate, log, jobVars, callVars>>

(* Slip: the signal is sent as soon as the reply is recorded.              *)
JoinedOnReply(r) ==
  /\ worker[r].pc = "hold"
  /\ job[worker[r].turn] \in Over \cup {"rendering", "closing"}
  /\ Leave(r)
  /\ UNCHANGED <<queue, profile, gate, log, jobVars, callVars>>

(* The awaited job has returned, was cancelled, or panicked.               *)
Joined(r) ==
  /\ worker[r].pc = "hold" /\ job[worker[r].turn] \in Over
  /\ Leave(r)
  /\ UNCHANGED <<queue, profile, gate, log, jobVars, callVars>>

(* Auto mode: the sync budget runs out and the job is detached.            *)
BudgetElapsed(r) ==
  /\ worker[r].pc = "hold" /\ Mode[plan[worker[r].turn]] = "auto"
  /\ Leave(r)
  /\ UNCHANGED <<queue, profile, gate, log, jobVars, callVars>>

-----------------------------------------------------------------------------
(* A walk down the profile's chain of backends.                            *)

Waiting(kind) == IF kind = "http" THEN "http" ELSE "queue"

(* A walk that starts at the primary.                                      *)
Walk(t, owner) ==
  [by |-> owner, at |-> 1, st |-> Waiting(Chain[plan[t]][1])]

(* The current backend returned an error: the next one, or the error.      *)
Failed(t) ==
  LET c == call[t] IN
  IF c.at < Len(Chain[plan[t]])
    THEN [c EXCEPT !.at = @ + 1, !.st = Waiting(Chain[plan[t]][c.at + 1])]
    ELSE [c EXCEPT !.st = "err"]

(* The producer's sends reach a receiver until the flush loop is gone.     *)
Received(t) ==
  IF call[t].by = "producer" /\ job[t] = "streaming"
    THEN [stream EXCEPT ![t].said = @ \cup {call[t].at}]
    ELSE stream

HttpAnswer(t, st) ==
  /\ call[t].st = "http" /\ st \in {"ok", "empty"}
  /\ call'   = [call EXCEPT ![t].st = st]
  /\ stream' = Received(t)
  /\ UNCHANGED <<roomVars, jobVars, childPermits>>

HttpFail(t) ==
  /\ call[t].st = "http"
  /\ call' = [call EXCEPT ![t] = Failed(t)]
  /\ UNCHANGED <<roomVars, jobVars, stream, childPermits>>

(* A tool panics in the loop of an HTTP backend, and the producer with it. *)
ProducerPanic(t) ==
  /\ call[t].st = "http" /\ call[t].by = "producer"
  /\ call' = [call EXCEPT ![t].st = "panic"]
  /\ UNCHANGED <<roomVars, jobVars, stream, childPermits>>

(* No workdir, or it is not a directory: an error before the permit.       *)
ChildRefused(t) ==
  /\ call[t].st = "queue"
  /\ call' = [call EXCEPT ![t] = Failed(t)]
  /\ UNCHANGED <<roomVars, jobVars, stream, childPermits>>

ChildStart(t) ==
  /\ call[t].st = "queue" /\ childPermits > 0
  /\ call'         = [call EXCEPT ![t].st = "child"]
  /\ childPermits' = childPermits - 1
  /\ UNCHANGED <<roomVars, jobVars, stream>>

(* The child prints text for a receiver that is still there.               *)
ChildText(t) ==
  /\ call[t].st = "child" /\ call[t].by = "producer" /\ job[t] = "streaming"
  /\ stream' = Received(t)
  /\ UNCHANGED <<roomVars, jobVars, call, childPermits>>

(* Slip: the permit of an abandoned child is forgotten.                    *)
ChildUnheardKeepsPermit(t) ==
  /\ call[t].st = "child" /\ call[t].by = "producer" /\ job[t] # "streaming"
  /\ call' = [call EXCEPT ![t] = Failed(t)]
  /\ UNCHANGED <<roomVars, jobVars, stream, childPermits>>

(* The child prints text and the receiver is gone: its tree is killed, and *)
(* to the chain that is one more failed backend.                           *)
ChildUnheard(t) ==
  /\ call[t].st = "child" /\ call[t].by = "producer" /\ job[t] # "streaming"
  /\ call'         = [call EXCEPT ![t] = Failed(t)]
  /\ childPermits' = childPermits + 1
  /\ UNCHANGED <<roomVars, jobVars, stream>>

ChildExit(t, st) ==
  /\ call[t].st = "child" /\ st \in {"ok", "empty"}
  /\ call'         = [call EXCEPT ![t].st = st]
  /\ childPermits' = childPermits + 1
  /\ UNCHANGED <<roomVars, jobVars, stream>>

(* Idle timeout, absolute ceiling, failed spawn, error event or no result. *)
ChildFail(t) ==
  /\ call[t].st = "child"
  /\ call'         = [call EXCEPT ![t] = Failed(t)]
  /\ childPermits' = childPermits + 1
  /\ UNCHANGED <<roomVars, jobVars, stream>>

-----------------------------------------------------------------------------
(* The response job: run_response_job and the task around it.              *)

Enter(t, phase) == job' = [job EXCEPT ![t] = phase]

(* Slip: only a job that returns gives the slot back.                      *)
DropTaskKeepsSlot(t, phase) ==
  /\ Enter(t, phase)
  /\ gate'   = [r \in Rooms |->
                  IF gate[r] = t /\ phase = "done" THEN NoTurn ELSE gate[r]]
  /\ stream' = [stream EXCEPT ![t] = NoText]
  /\ call'   = IF call[t].by = "job" THEN [call EXCEPT ![t] = NoCall] ELSE call
  /\ childPermits' = IF call[t].by = "job" /\ call[t].st = "child"
                       THEN childPermits + 1 ELSE childPermits

(* The task is dropped: with it go its permit, its flush loop, and a chain *)
(* walk it made itself (the child of that walk is killed on drop).         *)
DropTask(t, phase) ==
  /\ Enter(t, phase)
  /\ gate'   = [r \in Rooms |-> IF gate[r] = t THEN NoTurn ELSE gate[r]]
  /\ stream' = [stream EXCEPT ![t] = NoText]
  /\ call'   = IF call[t].by = "job" THEN [call EXCEPT ![t] = NoCall] ELSE call
  /\ childPermits' = IF call[t].by = "job" /\ call[t].st = "child"
                       THEN childPermits + 1 ELSE childPermits

SpawnProducer(t) ==
  /\ job[t] = "starting"
  /\ Enter(t, "streaming")
  /\ call' = [call EXCEPT ![t] = Walk(t, "producer")]
  /\ UNCHANGED <<roomVars, home, heard, plan, aborted, entry, stream,
                 childPermits>>

(* The flush loop shows the text of a backend.                             *)
Flush(t, b) ==
  /\ job[t] = "streaming"
  /\ b \in stream[t].said /\ b > stream[t].shown
  /\ stream' = [stream EXCEPT ![t].shown = b]
  /\ UNCHANGED <<roomVars, jobVars, call, childPermits>>

(* A later backend's text is shorter than the paragraphs already committed *)
(* for an earlier one: the slice at the committed length panics.           *)
Panic(t) ==
  /\ job[t] = "streaming"
  /\ stream[t].shown > 0
  /\ \E b \in stream[t].said : b > stream[t].shown
  /\ DropTask(t, "panicked")
  /\ UNCHANGED <<queue, profile, worker, log, home, heard, plan, aborted,
                 entry>>

(* The producer has returned and every sender is gone.                     *)
StreamEnd(t) ==
  /\ job[t] = "streaming" /\ call[t].st \in Outcomes
  /\ Enter(t, "settling")
  /\ stream' = [stream EXCEPT ![t] = NoText]
  /\ UNCHANGED <<roomVars, home, heard, plan, aborted, entry, call,
                 childPermits>>

NeedsRetry(t) == call[t].st \in {"empty", "err"} /\ ~Agentic(plan[t])

(* Only a chain with an HTTP primary is asked again, without streaming, if *)
(* the producer has returned.                                              *)
Retry(t) ==
  /\ job[t] = "settling" /\ NeedsRetry(t)
  /\ Enter(t, "retrying")
  /\ call' = [call EXCEPT ![t] = Walk(t, "job")]
  /\ UNCHANGED <<roomVars, home, heard, plan, aborted, entry, stream,
                 childPermits>>

(* A retry's text is taken as it is, an empty one too.                     *)
HasReply(t) == \/ call[t].st = "ok"
               \/ call[t].st = "empty" /\ job[t] = "retrying"

(* Metrics and history in one go: there is no await between them. A reply  *)
(* that cannot be saved is shown all the same.                             *)
Record(t, saved) ==
  /\ \/ job[t] = "settling" /\ ~NeedsRetry(t)
     \/ job[t] = "retrying" /\ call[t].st \in Outcomes
  /\ Enter(t, "rendering")
  /\ log' = IF HasReply(t) /\ saved
              THEN [log EXCEPT ![home[t]] = Append(@, <<"assistant", t>>)]
              ELSE log
  /\ call' = [call EXCEPT ![t] = NoCall]
  /\ UNCHANGED <<queue, profile, worker, gate, home, heard, plan, aborted,
                 entry, stream, childPermits>>

Render(t) ==
  /\ job[t] = "rendering"
  /\ Enter(t, "closing")
  /\ UNCHANGED <<roomVars, home, heard, plan, aborted, entry, callVars>>

(* The job leaves the registry and its permit is dropped.                  *)
Finish(t) ==
  /\ job[t] = "closing"
  /\ DropTask(t, "done")
  /\ entry' = [entry EXCEPT ![t] = "none"]
  /\ UNCHANGED <<queue, profile, worker, log, home, heard, plan, aborted>>

(* An aborted task is dropped at one of its awaits. It may still get past  *)
(* some of them: the abort may land while the task is being polled.        *)
Die(t) ==
  /\ t \in aborted /\ job[t] \in Running
  /\ DropTask(t, "dead")
  /\ UNCHANGED <<queue, profile, worker, log, home, heard, plan, aborted,
                 entry>>

-----------------------------------------------------------------------------
(* The history takes what it is given, or it does not.                     *)
Takes(r)   == \E saved \in BOOLEAN : Take(r, saved)
Records(t) == \E saved \in BOOLEAN : Record(t, saved)

WorkerStep(r) ==
  \/ Ignore(r) \/ Takes(r) \/ Snapshot(r) \/ AcquireSlot(r)
  \/ InsertPending(r) \/ Spawn(r) \/ SetAbort(r) \/ Joined(r)
  \/ BudgetElapsed(r)

JobStep(t) ==
  \/ SpawnProducer(t) \/ StreamEnd(t) \/ Retry(t) \/ Records(t)
  \/ Render(t) \/ Finish(t) \/ Die(t)

HttpStep(t)  == HttpFail(t) \/ \E st \in Outcomes : HttpAnswer(t, st)
ChildEnds(t) == \/ ChildUnheard(t) \/ ChildFail(t)
                \/ \E st \in Outcomes : ChildExit(t, st)

ProducerStep(t) ==
  \/ HttpStep(t) \/ ProducerPanic(t) \/ ChildRefused(t) \/ ChildStart(t) \/ ChildText(t)
  \/ ChildEnds(t)

Next ==
  \/ \E r \in Rooms : \/ \E named \in BOOLEAN : Post(r, named)
                      \/ \E p \in Profiles : SetProfile(r, p)
                      \/ WorkerStep(r)
  \/ \E t \in Turns : \/ Cancel(t) \/ JobStep(t) \/ Panic(t)
                      \/ \E b \in stream[t].said : Flush(t, b)
                      \/ ProducerStep(t)

Spec == Init /\ [][Next]_vars

(* Every task the runtime holds is polled again when it can go on, timers  *)
(* fire, and the child semaphore serves its waiters in order.              *)
TaskFairness ==
  /\ \A r \in Rooms : WF_vars(WorkerStep(r))
  /\ \A t \in Turns : /\ WF_vars(JobStep(t))
                      /\ WF_vars(Die(t))
                      /\ SF_vars(ChildStart(t))

FairSpec == Spec /\ TaskFairness

(* What the code does not see to is an assumption, which only the          *)
(* properties that need it make. The requests to the LLM servers have no   *)
(* timeout: each of them is answered or fails.                             *)
ServersAnswer == \A t \in Turns : WF_vars(HttpStep(t))

(* Idle timeout and ceiling guard the output of a CLI, and nothing guards  *)
(* the waits for its exit, for the end of its stderr and for git, all with *)
(* the permit in hand: a CLI that closes its output exits and leaves no    *)
(* one with its stderr, and git returns.                                   *)
ChildrenEnd == \A t \in Turns : WF_vars(ChildEnds(t))

-----------------------------------------------------------------------------
(* Properties. A queued turn is one of Arrived; it is settled once it has   *)
(* been ignored or its job is over.                                        *)

Arrived == 1 .. Len(home)

Queued(t)   == \E i \in 1 .. Len(queue[home[t]]) : queue[home[t]][i] = t
Current(t)  == worker[home[t]].turn = t
Settled(t)  == ~Queued(t) /\ ~Current(t) /\ job[t] \notin Running
Live(t)     == job[t] \in Running

(* The agentic slot of a room is held only on behalf of an agentic turn of *)
(* that room whose job is live or about to be spawned: whatever ends a job *)
(* (return, abort, panic) gives the slot back.                             *)
SlotNeverLeaks ==
  \A r \in Rooms : gate[r] # NoTurn =>
    LET t == gate[r] IN
    /\ t \in Arrived /\ home[t] = r /\ Agentic(plan[t])
    /\ \/ Live(t)
       \/ worker[r].turn = t /\ worker[r].pc \in {"insert", "spawn"}

(* A live job of an agentic turn holds its room's slot, so that a room has *)
(* at most one of them, detached or not.                                   *)
OneAgenticJobPerRoom ==
  \A t \in Arrived : Live(t) /\ Agentic(plan[t]) => gate[home[t]] = t

(* The slot is held by whom it is needed for: never leaked, never shared.  *)
SlotHeldExactly == SlotNeverLeaks /\ OneAgenticJobPerRoom

(* Permits of the child cap are neither lost nor made up, on any of the     *)
(* ways a child ends (exit, error, kill, abort of the job that owns it).   *)
ChildPermitsConserved ==
  childPermits + Cardinality({t \in Turns : call[t].st = "child"})
    = MaxChildren

(* A live job of a sync turn keeps its room: the worker stands at it.      *)
SyncHoldsRoom ==
  \A t \in Arrived : Live(t) /\ Mode[plan[t]] = "sync" =>
    Current(t) /\ worker[home[t]].pc \in {"arm", "hold"}

Asked(t) == {Question(t, saved) : saved \in BOOLEAN}

(* Questions enter a room's history in the order they arrived, each at     *)
(* most once. A turn has at most one reply there, of its own room, never   *)
(* before its question; it stands without one only if the question could   *)
(* not be saved when its turn came.                                        *)
TranscriptOrder ==
  \A r \in Rooms : \A j \in 1 .. Len(log[r]) :
    LET who == log[r][j][1]  t == log[r][j][2] IN
    /\ home[t] = r
    /\ \A i \in 1 .. j - 1 : log[r][i] # log[r][j]
    /\ who # "assistant" => \A i \in 1 .. j - 1 : log[r][i][2] < t
    /\ who = "assistant" => \E i \in 1 .. j - 1 : log[r][i] \in Asked(t)

(* The reply of a sync turn is never separated from its question by a      *)
(* later question.                                                         *)
SyncRepliesInTurn ==
  \A r \in Rooms : \A i, j \in 1 .. Len(log[r]) :
    LET t == log[r][j][2] IN
    log[r][j][1] = "assistant" /\ Mode[plan[t]] = "sync" /\ i < j =>
      log[r][i][2] <= t

(* A listed job is in flight or about to be, unless its flush loop         *)
(* panicked: nothing else leaves an entry behind.                          *)
ListedUnlessPanicked ==
  \A t \in Turns : entry[t] # "none" =>
    \/ Live(t) \/ job[t] = "panicked"
    \/ t \in Arrived /\ Current(t) /\ worker[home[t]].pc = "spawn"

(* Two children run for one room only when one of them outlived its job or *)
(* belongs to a profile whose primary is HTTP, which takes no slot. (No    *)
(* run checks this consequence of SlotHeldExactly: it is a theorem.)       *)
SecondAgentIsStray ==
  \A t, u \in Arrived :
    t # u /\ home[t] = home[u] /\ call[t].st = "child" /\ call[u].st = "child"
      => \E v \in {t, u} : job[v] \in Over \/ ~Agentic(plan[v])

(* Even when a server never answers: an abort frees the room and the slot. *)
CancelFreesRoom ==
  \A t \in Turns :
    t \in aborted ~> t \in Arrived /\ ~Current(t) /\ gate[home[t]] # t

(* Even when a server never answers: whoever waits for a child permit gets *)
(* it, whatever has been cancelled meanwhile, if children end.             *)
ChildQueueDrains ==
  ChildrenEnd => \A t \in Turns : call[t].st = "queue" ~> call[t].st # "queue"

(* What a room does with its turns, seen from outside.                     *)
Stage(t) ==
  CASE t \notin Arrived                     -> "absent"
    [] t \in Arrived /\ Queued(t)           -> "queued"
    [] t \in Arrived /\ Current(t) /\ job[t] = "none" -> "opened"
    [] Live(t)                              ->
         IF Agentic(plan[t]) THEN "agentic" ELSE "plain"
    [] OTHER                                -> "closed"

Promise == INSTANCE Dispatch WITH
  stage <- [t \in Turns |-> Stage(t)],
  held  <- {t \in Turns : job[t] # "none" /\ Mode[plan[t]] = "sync"},
  front <- [r \in Rooms |-> worker[r].turn]

(* The pipeline keeps the promise of Dispatch, step by step ...            *)
KeepsPromise == Promise!Spec

(* ... and, if the servers answer and the children end, makes the progress *)
(* Dispatch promises: every turn that is queued is ignored, answered,      *)
(* cancelled or given up.                                                  *)
KeepsPace ==
  ServersAnswer /\ ChildrenEnd =>
    /\ Promise!Fairness
    /\ \A t \in Turns : t \in Arrived ~> (t \in Arrived /\ Settled(t))

-----------------------------------------------------------------------------
(* What the documentation says and the code does not do: a run of its own  *)
(* refutes it.                                                             *)

(* docs/architecture.md: /cancel aborts the job and kills its subprocess   *)
(* tree. No child is started for a job that was cancelled.                 *)
CancelledStartsNoChild ==
  [][\A t \in Turns : job[t] = "dead" /\ call[t].st # "child" =>
       call'[t].st # "child"]_vars

=============================================================================

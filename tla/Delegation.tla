----------------------------- MODULE Delegation -----------------------------
(***************************************************************************)
(* Calls of models that call tools that call models.                       *)
(*                                                                         *)
(* A caller is the producer of a response job or the sync loop, which      *)
(* handles one command at a time and itself waits for what /agent and      *)
(* /skills suggest ask of a model. A caller's stack has one frame for each *)
(* call in progress: the room's profile or the command's, then the         *)
(* subagents. Each frame walks the chain of its profile. An HTTP backend   *)
(* runs the tool loop; a subprocess runs in a child, without these tools,  *)
(* and needs one of the permits all callers share.                         *)
(*                                                                         *)
(* A producer is not stopped by /cancel (see Orchestrator), so that a      *)
(* cancel changes nothing here. Texts are left out, and so are the callers *)
(* that offer no tools and are not commands: compactions, and the retry of *)
(* a job, whose walk Orchestrator models.                                  *)
(***************************************************************************)
EXTENDS Integers, Sequences, FiniteSets

CONSTANTS
  Jobs,         (* response jobs, one after another each                   *)
  Loop,         (* the sync loop                                           *)
  Profiles,
  Chain,        (* Chain[p]: the kinds of p's backends, primary first      *)
  Agents, AgentProfile,
  MaxDepth,     (* MAX_SUBAGENT_DEPTH                                      *)
  MaxRounds,    (* MAX_TOOL_ROUNDS                                         *)
  MaxChildren,
  MaxChain,     (* BOUND: backends of a chain                              *)
  MaxCalls,     (* BOUND: tool calls in one answer                         *)
  MaxCommands   (* BOUND: commands sent                                    *)

ASSUME CallerAssumption == IsFiniteSet(Jobs) /\ Loop \notin Jobs
ASSUME ChainAssumption ==
  /\ MaxChain \in Nat
  /\ \A p \in Profiles : Chain[p] \in Seq({"http", "sub"}) /\ Len(Chain[p]) \in 1 .. MaxChain
ASSUME AgentAssumption == AgentProfile \in [Agents -> Profiles]
ASSUME NumberAssumption ==
  /\ MaxDepth \in Nat \ {0} /\ MaxRounds \in Nat \ {0} /\ MaxChildren \in Nat \ {0}
  /\ MaxCalls \in Nat \ {0} /\ MaxCommands \in Nat

VARIABLES
  stack,        (* stack[w]: the calls of w in progress, the innermost last*)
  permits,      (* free child permits                                      *)
  inbox,        (* commands the sync loop has not come to                  *)
  sent          (* how many were sent                                      *)

vars == <<stack, permits, inbox, sent>>

Callers  == Jobs \cup {Loop}

(* /agent with the agent, /skills suggest with the profile it asks, and    *)
(* whatever needs no model, /cancel among it.                              *)
Commands == [kind : {"agent"}, of : Agents] \cup [kind : {"suggest"}, of : Profiles]
              \cup {[kind |-> "other", of |-> "none"]}

(* ask, final: a request with tools, without; tools: calls of the last     *)
(* answer to be executed; queue: for a permit; child: the CLI runs.        *)
Frames ==
  [profile : Profiles, backend : 1 .. MaxChain, tooled : BOOLEAN,
   round : 0 .. MaxRounds - 1, calls : 0 .. MaxCalls,
   pc : {"ask", "tools", "final", "queue", "child"}]

(* The depth of the SubagentHost in the scope of w's i-th call: the call   *)
(* of /agent is a subagent already.                                        *)
HostDepth(w, i) == IF w = Loop THEN i ELSE i - 1
Depth(w)        == HostDepth(w, Len(stack[w]))

TypeOK ==
  /\ stack   \in [Callers -> Seq(Frames)]
  /\ \A w \in Callers : Depth(w) <= MaxDepth
  /\ permits \in 0 .. MaxChildren
  /\ inbox   \in Seq(Commands)
  /\ sent    \in 0 .. MaxCommands

Init ==
  /\ stack   = [w \in Callers |-> << >>]
  /\ permits = MaxChildren
  /\ inbox   = << >>
  /\ sent    = 0

-----------------------------------------------------------------------------
(* Frames.                                                                 *)

(* A backend begins afresh with the messages the call was given.           *)
Frame(p, tooled, b) ==
  [profile |-> p, backend |-> b, tooled |-> tooled, round |-> 0, calls |-> 0,
   pc |-> CASE Chain[p][b] = "sub" -> "queue"
            [] tooled              -> "ask"
            [] OTHER               -> "final"]

Top(w)      == stack[w][Len(stack[w])]
Busy(w, pc) == stack[w] # << >> /\ Top(w).pc = pc

Go(w, frame) == stack' = [stack EXCEPT ![w][Len(stack[w])] = frame]
Push(w, p)   ==
  LET waiting == [stack[w] EXCEPT ![Len(stack[w])] = [Top(w) EXCEPT !.calls = @ - 1]]
  IN stack' = [stack EXCEPT ![w] = Append(waiting, Frame(p, TRUE, 1))]

(* The innermost call has a result, and the caller of it goes on.          *)
Return(w) == stack' = [stack EXCEPT ![w] = SubSeq(@, 1, Len(@) - 1)]

(* Slip: the same backend is tried again.                                  *)
FailAgain(w) ==
  IF Top(w).backend = Len(Chain[Top(w).profile])
    THEN Return(w)
    ELSE Go(w, Frame(Top(w).profile, Top(w).tooled, Top(w).backend))

(* A backend fails: the next one, or the error is the result.              *)
Fail(w) ==
  IF Top(w).backend = Len(Chain[Top(w).profile])
    THEN Return(w)
    ELSE Go(w, Frame(Top(w).profile, Top(w).tooled, Top(w).backend + 1))

-----------------------------------------------------------------------------
(* HTTP backends: LlmClient::chat_with_tools, chat.                        *)

(* The request fails: no connection, a bad status, an answer not to be     *)
(* parsed.                                                                 *)
RequestFails(w) ==
  /\ Busy(w, "ask") \/ Busy(w, "final")
  /\ Fail(w)
  /\ UNCHANGED <<permits, inbox, sent>>

(* A text, which is the result.                                            *)
Answer(w) ==
  /\ Busy(w, "ask") \/ Busy(w, "final")
  /\ Return(w)
  /\ UNCHANGED <<permits, inbox, sent>>

(* Neither a text nor a call.                                              *)
AnswerEmpty(w) ==
  /\ Busy(w, "ask")
  /\ Go(w, [Top(w) EXCEPT !.pc = "final"])
  /\ UNCHANGED <<permits, inbox, sent>>

AnswerCalls(w) ==
  /\ Busy(w, "ask")
  /\ \E n \in 0 .. MaxCalls : Go(w, [Top(w) EXCEPT !.pc = "tools", !.calls = n])
  /\ UNCHANGED <<permits, inbox, sent>>

(* A tool gives its text, or run_subagent its refusal: the nesting limit,  *)
(* an unknown agent, a profile that does not build.                        *)
Tool(w) ==
  /\ Busy(w, "tools") /\ Top(w).calls > 0
  /\ Go(w, [Top(w) EXCEPT !.calls = @ - 1])
  /\ UNCHANGED <<permits, inbox, sent>>

(* run_subagent.                                                           *)
Delegate(w, a) ==
  /\ Busy(w, "tools") /\ Top(w).calls > 0
  /\ Depth(w) < MaxDepth
  /\ Push(w, AgentProfile[a])
  /\ UNCHANGED <<permits, inbox, sent>>

(* Slip: the round is not counted.                                         *)
NextRoundUncounted(w) ==
  /\ Busy(w, "tools") /\ Top(w).calls = 0
  /\ Go(w, [Top(w) EXCEPT !.pc = "ask"])
  /\ UNCHANGED <<permits, inbox, sent>>

(* All results are in: the next round, or the request without tools.       *)
NextRound(w) ==
  /\ Busy(w, "tools") /\ Top(w).calls = 0
  /\ Go(w, IF Top(w).round + 1 < MaxRounds
             THEN [Top(w) EXCEPT !.pc = "ask", !.round = @ + 1]
             ELSE [Top(w) EXCEPT !.pc = "final"])
  /\ UNCHANGED <<permits, inbox, sent>>

-----------------------------------------------------------------------------
(* Subprocess backends: SubprocessBackend::run.                            *)

(* No working directory.                                                   *)
ChildRefused(w) ==
  /\ Busy(w, "queue")
  /\ Fail(w)
  /\ UNCHANGED <<permits, inbox, sent>>

ChildStart(w) ==
  /\ Busy(w, "queue") /\ permits > 0
  /\ Go(w, [Top(w) EXCEPT !.pc = "child"])
  /\ permits' = permits - 1
  /\ UNCHANGED <<inbox, sent>>

(* Slip: the child has the tools of roger and may delegate, permit in hand.*)
ChildExitDelegating(w) ==
  /\ Busy(w, "child")
  /\ \/ Return(w) /\ permits' = permits + 1
     \/ /\ Depth(w) < MaxDepth /\ UNCHANGED permits
        /\ \E a \in Agents :
             stack' = [stack EXCEPT ![w] = @ \o <<Frame(AgentProfile[a], TRUE, 1)>>]
  /\ UNCHANGED <<inbox, sent>>

ChildExit(w) ==
  /\ Busy(w, "child")
  /\ Return(w)
  /\ permits' = permits + 1
  /\ UNCHANGED <<inbox, sent>>

(* Slip: a child that is killed keeps its permit.                          *)
ChildFailsKeepsPermit(w) ==
  /\ Busy(w, "child")
  /\ Fail(w)
  /\ UNCHANGED <<permits, inbox, sent>>

(* Killed (idle, ceiling, no receiver), or no result.                      *)
ChildFails(w) ==
  /\ Busy(w, "child")
  /\ Fail(w)
  /\ permits' = permits + 1
  /\ UNCHANGED <<inbox, sent>>

-----------------------------------------------------------------------------
(* Callers.                                                                *)

(* A job's producer calls the model of the room.                           *)
StartJob(j, p) ==
  /\ stack[j] = << >>
  /\ stack' = [stack EXCEPT ![j] = <<Frame(p, TRUE, 1)>>]
  /\ UNCHANGED <<permits, inbox, sent>>

Send(c) ==
  /\ sent < MaxCommands
  /\ sent'  = sent + 1
  /\ inbox' = Append(inbox, c)
  /\ UNCHANGED <<stack, permits>>

(* A command that calls a model is answered when the call has returned;    *)
(* one that calls none, or whose profile does not build, at once.          *)
Called(c) ==
  CASE c.kind = "agent"   -> {<< >>, <<Frame(AgentProfile[c.of], TRUE, 1)>>}
    [] c.kind = "suggest" -> {<< >>, <<Frame(c.of, FALSE, 1)>>}
    [] OTHER              -> {<< >>}

Handle ==
  /\ stack[Loop] = << >> /\ inbox # << >>
  /\ \E call \in Called(Head(inbox)) : stack' = [stack EXCEPT ![Loop] = call]
  /\ inbox' = Tail(inbox)
  /\ UNCHANGED <<permits, sent>>

-----------------------------------------------------------------------------
ServerStep(w) == \/ RequestFails(w) \/ Answer(w) \/ AnswerEmpty(w) \/ AnswerCalls(w)
                 \/ Tool(w)
OwnStep(w)    == \/ NextRound(w) \/ \E a \in Agents : Delegate(w, a)
ChildEnds(w)  == ChildExit(w) \/ ChildFails(w)

Next ==
  \/ \E w \in Callers : \/ ServerStep(w) \/ OwnStep(w)
                        \/ ChildRefused(w) \/ ChildStart(w) \/ ChildEnds(w)
  \/ \E j \in Jobs, p \in Profiles : StartJob(j, p)
  \/ \E c \in Commands : Send(c)
  \/ Handle

Spec == Init /\ [][Next]_vars

(* Tasks are polled; the permits are given out first come, first served;   *)
(* the sync loop takes the next command.                                   *)
TaskFairness ==
  /\ \A w \in Callers : /\ WF_vars(NextRound(w))
                        /\ SF_vars(ChildStart(w))
  /\ WF_vars(Handle)

FairSpec == Spec /\ TaskFairness

(* What the code does not see to is an assumption, which only the          *)
(* properties that need it make. Requests have no timeout, and a tool may  *)
(* wait for a server too.                                                  *)
ServersAnswer ==
  \A w \in Callers : WF_vars(ServerStep(w) \/ \E a \in Agents : Delegate(w, a))

(* Idle timeout and ceiling guard the output of a CLI, and nothing guards  *)
(* the waits for its exit, for the end of its stderr and for git, all with *)
(* the permit in hand: a CLI that closes its output exits and leaves no    *)
(* one with its stderr, and git returns.                                   *)
ChildrenEnd == \A w \in Callers : WF_vars(ChildEnds(w))

-----------------------------------------------------------------------------
(* How many steps a call may still take; a tool call takes `call` of them. *)

RoundCost(call)   == 2 + MaxCalls * call
BackendCost(call) == MaxRounds * RoundCost(call) + 2

(* A whole call that may be followed by n more, one inside the other, and  *)
(* a tool call that may begin one.                                         *)
Whole[n \in 0 .. MaxDepth] ==
  MaxChain * BackendCost(IF n = 0 THEN 1 ELSE 1 + Whole[n - 1])
CallCost(n) == IF n = 0 THEN 1 ELSE 1 + Whole[n - 1]

(* What is left of frame f.                                                *)
FrameLeft(f, n) ==
  LET call  == CallCost(n)
      later == (Len(Chain[f.profile]) - f.backend) * BackendCost(call)
  IN later + CASE f.pc = "ask"   -> (MaxRounds - f.round) * RoundCost(call) + 2
               [] f.pc = "tools" -> (MaxRounds - f.round - 1) * RoundCost(call)
                                      + f.calls * call + 3
               [] f.pc = "queue" -> 2
               [] OTHER          -> 1

(* What is left of the first calls of a stack of w, and of all its calls.  *)
Remaining(w, s) ==
  LET left[i \in 0 .. Len(s)] ==
        IF i = 0 THEN 0 ELSE left[i - 1] + FrameLeft(s[i], MaxDepth - HostDepth(w, i))
  IN  left
Left(w) == Remaining(w, stack[w])[Len(stack[w])]

-----------------------------------------------------------------------------
(* Properties.                                                             *)

(* A caller that waits for a permit, or for a model, holds none: agents    *)
(* that call agents cannot starve each other of children.                  *)
PermitsConserved ==
  permits + Cardinality({w \in Callers : Busy(w, "child")}) = MaxChildren

(* Every step of a call uses up some of it, through failovers, rounds and  *)
(* subagents of subagents: no answer of a model makes a call run away.     *)
CallsWindDown ==
  [][\A w \in Callers : stack[w] # << >> /\ stack'[w] # stack[w] => Left(w)' < Left(w)]_vars

(* Even when a server never answers: whoever waits for a permit gets on,   *)
(* if children end.                                                        *)
PermitComes ==
  ChildrenEnd => \A w \in Callers : Busy(w, "queue") ~> ~Busy(w, "queue")

(* If the servers answer and the children end, every call returns, and     *)
(* every command is handled though /agent holds the sync loop and waits    *)
(* for a permit behind other rooms' children.                              *)
CommandsHandled ==
  ServersAnswer /\ ChildrenEnd =>
    /\ \A w \in Callers : stack[w] # << >> ~> stack[w] = << >>
    /\ inbox # << >> ~> inbox = << >>
=============================================================================

-------------------------------- MODULE Prompt --------------------------------
(***************************************************************************)
(* What a room's model is asked with: the question is recorded, the most   *)
(* recent part of the history that fits is taken, and the job starts.      *)
(*                                                                         *)
(* Between those steps of the room's worker come the replies of jobs it no *)
(* longer waits for, uploads that the sync loop records by itself, /clear, *)
(* and the rewrite of a compaction. One room, whose profile may change at  *)
(* any time. Any write of the history may fail. A message is its kind, its *)
(* size in tokens and, if a user sent it, its place in the order of        *)
(* arrival; a text is nothing more.                                        *)
(***************************************************************************)
EXTENDS Naturals, Sequences, FiniteSets, SequencesExt

CONSTANTS
  Context, Reserve, Margin, Floor, (* context_tokens, max_tokens, 256, 256 *)
  CliBudget,       (* what a CLI is given of the history: 64_000           *)
  Parts, Of,       (* trigger_fraction is Parts / Of                       *)
  TriggerTokens,   (* the absolute trigger, 0 for none                     *)
  KeepRecent,      (* compaction.keep_recent_turns                         *)
  Sizes,           (* the sizes a message may have                         *)
  Base,            (* the size of the persona                              *)
  Sections,        (* the sizes of what else a system prompt may hold: the *)
                   (* TLDR, operating files, memories, digest, skills      *)
  MaxArrivals      (* BOUND on the messages users send                     *)

ASSUME TokenAssumption ==
  /\ {Context, Reserve, Margin, Floor, CliBudget, Parts, TriggerTokens,
      KeepRecent, MaxArrivals} \subseteq Nat
  /\ Of \in Nat \ {0} /\ Parts <= Of
ASSUME SizeAssumption ==
  /\ Sizes \subseteq Nat \ {0} /\ Base \in Nat
  /\ Sections \in Seq(Nat)

VARIABLES
  arrived,    (* messages sent by users                                    *)
  handler,    (* the sync loop: idle, or at an upload                      *)
  queue,      (* turns waiting for the room's worker                       *)
  worker,     (* where the worker is with its turn                         *)
  history,    (* the room's history file                                   *)
  jobs,       (* the jobs under way                                        *)
  stale,      (* how many jobs that panicked the registry still lists      *)
  due,        (* a compaction task is spawned and has not begun            *)
  compaction  (* the compaction under way                                  *)

vars == <<arrived, handler, queue, worker, history, jobs, stale, due, compaction>>

Message(kind, id, size) == [kind |-> kind, id |-> id, size |-> size]
Reply(size)   == Message("reply", 0, size)
Summary(size) == Message("summary", 0, size)

Modes == {"sync", "auto", "async"}

NoTurn == Message("none", 0, 0)
Free   == [at |-> "free", turn |-> NoTurn, since |-> {}, agentic |-> FALSE,
           system |-> 0, seen |-> <<>>, prompt |-> <<>>]
AtRest == [at |-> "idle", upload |-> NoTurn]
Off    == [on |-> FALSE, recent |-> <<>>]

-----------------------------------------------------------------------------
(* Budgets and windows.                                                    *)

(* What the last i of some numbers come to, for every i.                   *)
Sums(ns) ==
  LET sum[i \in 0 .. Len(ns)] ==
        IF i = 0 THEN 0 ELSE sum[i - 1] + ns[Len(ns) + 1 - i]
  IN  sum

Total(ns)  == Sums(ns)[Len(ns)]
SizesOf(h) == [i \in 1 .. Len(h) |-> h[i].size]
Tokens(h)  == Total(SizesOf(h))

(* assemble_system_prompt: a section that is empty adds nothing.           *)
SystemSize(present) ==
  Base + Total([i \in 1 .. Len(Sections) |->
                  IF i \in present THEN Sections[i] ELSE 0])

(* LlmClient: subtraction stops at 0, the result at the floor.             *)
HttpBudget(system) ==
  LET reserved == Reserve + system + Margin
      left     == IF Context > reserved THEN Context - reserved ELSE 0
  IN  IF left > Floor THEN left ELSE Floor

(* An agentic profile's CLI keeps house with its context itself.           *)
Budget(agentic, system) == IF agentic THEN CliBudget ELSE HttpBudget(system)

(* maybe_compact: a part of the budget beside an empty system prompt.      *)
Trigger(agentic) ==
  IF TriggerTokens > 0 THEN TriggerTokens ELSE (Budget(agentic, 0) * Parts) \div Of

(* Slip: no message is taken that does not fit.                            *)
KeepFitting(w, m, budget) ==
  IF w.full \/ w.used + m.size > budget
    THEN [w EXCEPT !.full = TRUE]
    ELSE [w EXCEPT !.kept = <<m>> \o @, !.used = @ + m.size]

(* Slip: a message that fits exactly is left out.                          *)
KeepBelow(w, m, budget) ==
  IF w.full \/ (w.kept # <<>> /\ w.used + m.size >= budget)
    THEN [w EXCEPT !.full = TRUE]
    ELSE [w EXCEPT !.kept = <<m>> \o @, !.used = @ + m.size]

(* Slip: the walk passes over what does not fit.                           *)
KeepOn(w, m, budget) ==
  IF w.kept # <<>> /\ w.used + m.size > budget
    THEN w
    ELSE [w EXCEPT !.kept = <<m>> \o @, !.used = @ + m.size]

(* One step of the walk from the newest message to the oldest.             *)
Keep(w, m, budget) ==
  IF w.full \/ (w.kept # <<>> /\ w.used + m.size > budget)
    THEN [w EXCEPT !.full = TRUE]
    ELSE [w EXCEPT !.kept = <<m>> \o @, !.used = @ + m.size]

(* windowed_by_tokens: the walk after each message, and what it kept.      *)
Walk(h, budget) ==
  LET walk[i \in 0 .. Len(h)] ==
        IF i = 0 THEN [kept |-> <<>>, used |-> 0, full |-> FALSE]
                 ELSE Keep(walk[i - 1], h[Len(h) + 1 - i], budget)
  IN  walk

Window(h, budget) == Walk(h, budget)[Len(h)].kept

-----------------------------------------------------------------------------
Messages == [kind : {"none", "question", "upload", "reply", "summary"},
             id : Nat, size : Nat]

WorkerType ==
  [at : {"free", "taken", "recorded", "windowed"} \cup Modes, turn : Messages,
   since : SUBSET {"unsaved", "upload", "cleared", "reply", "rewritten"},
   agentic : BOOLEAN, system : Nat, seen : Seq(Messages), prompt : Seq(Messages)]

TypeOK ==
  /\ arrived    \in 0 .. MaxArrivals
  /\ handler    \in [at : {"idle", "fetching", "recording", "queueing"},
                     upload : Messages]
  /\ queue      \in Seq(Messages)
  /\ worker     \in WorkerType
  /\ history    \in Seq(Messages)
  /\ jobs       \subseteq [turn : Messages, agentic : BOOLEAN, replied : BOOLEAN]
  /\ stale      \in Nat
  /\ due        \in BOOLEAN
  /\ compaction \in [on : BOOLEAN, recent : Seq(Messages)]

Init ==
  /\ arrived    = 0
  /\ handler    = AtRest
  /\ queue      = <<>>
  /\ worker     = Free
  /\ history    = <<>>
  /\ jobs       = {}
  /\ stale      = 0
  /\ due        = FALSE
  /\ compaction = Off

(* What happens to the history while the worker's question is in it.       *)
Note(what) ==
  worker' = IF worker.at = "recorded" THEN [worker EXCEPT !.since = @ \cup {what}]
                                      ELSE worker

-----------------------------------------------------------------------------
(* The sync loop: one message after the other.                             *)

(* A text (or transcript), or an upload with a caption, joins the queue.   *)
Ask(size) ==
  /\ handler.at = "idle" /\ arrived < MaxArrivals
  /\ arrived' = arrived + 1
  /\ queue'   = Append(queue, Message("question", arrived', size))
  /\ UNCHANGED <<handler, worker, history, jobs, stale, due, compaction>>

(* A bare upload: it is downloaded now, later or not at all.               *)
Upload(size) ==
  /\ handler.at = "idle" /\ arrived < MaxArrivals
  /\ arrived' = arrived + 1
  /\ handler' = [at |-> "fetching", upload |-> Message("upload", arrived', size)]
  /\ UNCHANGED <<queue, worker, history, jobs, stale, due, compaction>>

(* has_active_job                                                          *)
Look ==
  /\ handler.at = "fetching"
  /\ handler' = [handler EXCEPT !.at = IF jobs = {} /\ stale = 0
                                         THEN "recording" ELSE "queueing"]
  /\ UNCHANGED <<arrived, queue, worker, history, jobs, stale, due, compaction>>

(* No job: the upload goes into the history, with an acknowledgement. An   *)
(* append that fails is a warning in the log.                              *)
RecordUpload(saved) ==
  /\ handler.at = "recording"
  /\ IF saved THEN history' = Append(history, handler.upload) /\ Note("upload")
              ELSE UNCHANGED <<history, worker>>
  /\ handler' = AtRest
  /\ UNCHANGED <<arrived, queue, jobs, stale, due, compaction>>

(* A job: the upload becomes a turn that needs no mention.                 *)
QueueUpload ==
  /\ handler.at = "queueing"
  /\ queue'   = Append(queue, handler.upload)
  /\ handler' = AtRest
  /\ UNCHANGED <<arrived, worker, history, jobs, stale, due, compaction>>

(* /clear                                                                  *)
Clear ==
  /\ handler.at = "idle" /\ history # <<>>
  /\ history' = <<>>
  /\ Note("cleared")
  /\ UNCHANGED <<arrived, handler, queue, jobs, stale, due, compaction>>

-----------------------------------------------------------------------------
(* The room's worker: process_turn.                                        *)

(* Slip: the newest turn first.                                            *)
TakeNewest ==
  /\ worker.at = "free" /\ queue # <<>>
  /\ worker' = [Free EXCEPT !.at = "taken", !.turn = Last(queue)]
  /\ queue'  = Front(queue)
  /\ UNCHANGED <<arrived, handler, history, jobs, stale, due, compaction>>

Take ==
  /\ worker.at = "free" /\ queue # <<>>
  /\ worker' = [Free EXCEPT !.at = "taken", !.turn = Head(queue)]
  /\ queue'  = Tail(queue)
  /\ UNCHANGED <<arrived, handler, history, jobs, stale, due, compaction>>

(* The question goes into the history; if that fails the turn goes on.     *)
Record(saved) ==
  /\ worker.at = "taken"
  /\ history' = IF saved THEN Append(history, worker.turn) ELSE history
  /\ worker'  = [worker EXCEPT !.at    = "recorded",
                               !.since = IF saved THEN {} ELSE {"unsaved"}]
  /\ UNCHANGED <<arrived, handler, queue, jobs, stale, due, compaction>>

(* After the wait for the state: the system prompt is put together from    *)
(* files read now, and what it leaves of the context is filled.            *)
TakeWindow(present, agentic) ==
  LET system == SystemSize(present) IN
  /\ worker.at = "recorded"
  /\ worker' = [worker EXCEPT !.at = "windowed", !.agentic = agentic,
                              !.system = system, !.seen = history,
                              !.prompt = Window(history, Budget(agentic, system))]
  /\ UNCHANGED <<arrived, handler, queue, history, jobs, stale, due, compaction>>

SlotTaken == \E j \in jobs : j.agentic

(* An agentic turn waits for the room's slot first. The job is registered  *)
(* and spawned; async lets the room go at once.                            *)
Start(mode) ==
  /\ worker.at = "windowed"
  /\ worker.agentic => ~SlotTaken
  /\ jobs' = jobs \cup {[turn |-> worker.turn, agentic |-> worker.agentic,
                         replied |-> FALSE]}
  /\ worker' = IF mode = "async" THEN Free
               ELSE [Free EXCEPT !.at = mode, !.turn = worker.turn]
  /\ UNCHANGED <<arrived, handler, queue, history, stale, due, compaction>>

(* sync holds the room until the job is over, auto for the budget at most. *)
LetGo ==
  /\ worker.at \in {"sync", "auto"}
  /\ worker.at = "auto" \/ \A j \in jobs : j.turn # worker.turn
  /\ worker' = Free
  /\ UNCHANGED <<arrived, handler, queue, history, jobs, stale, due, compaction>>

-----------------------------------------------------------------------------
(* The jobs: run_response_job.                                             *)

RecordReply(j, size) ==
  /\ ~j.replied
  /\ history' = Append(history, Reply(size))
  /\ jobs'    = (jobs \ {j}) \cup {[j EXCEPT !.replied = TRUE]}
  /\ Note("reply")
  /\ UNCHANGED <<arrived, handler, queue, stale, due, compaction>>

(* After the reply, a reply that could not be recorded or an error that is *)
(* shown: maybe_compact, with the profile the room has by now, and the end *)
(* of the job.                                                             *)
EndJob(j, agentic) ==
  /\ jobs' = jobs \ {j}
  /\ due'  = (due \/ Tokens(history) > Trigger(agentic))
  /\ UNCHANGED <<arrived, handler, queue, worker, history, stale, compaction>>

(* A panic ends the job and leaves it in the registry.                     *)
Panic(j) ==
  /\ jobs'  = jobs \ {j}
  /\ stale' = stale + 1
  /\ UNCHANGED <<arrived, handler, queue, worker, history, due, compaction>>

(* /cancel, of a job that runs or of one that panicked.                    *)
Cancel(j) ==
  /\ handler.at = "idle"
  /\ jobs' = jobs \ {j}
  /\ UNCHANGED <<arrived, handler, queue, worker, history, stale, due, compaction>>

CancelStale ==
  /\ handler.at = "idle" /\ stale > 0
  /\ stale' = stale - 1
  /\ UNCHANGED <<arrived, handler, queue, worker, history, jobs, due, compaction>>

-----------------------------------------------------------------------------
(* The compaction of the room; module Conversation has it step by step.    *)

Compact ==
  /\ due
  /\ due' = FALSE
  /\ compaction' = IF ~compaction.on /\ Len(history) > KeepRecent
       THEN [on |-> TRUE,
             recent |-> SubSeq(history, Len(history) - KeepRecent + 1, Len(history))]
       ELSE compaction
  /\ UNCHANGED <<arrived, handler, queue, worker, history, jobs, stale>>

Rewrite(size) ==
  /\ compaction.on
  /\ history'    = <<Summary(size)>> \o compaction.recent
  /\ compaction' = Off
  /\ Note("rewritten")
  /\ UNCHANGED <<arrived, handler, queue, jobs, stale, due>>

GiveUp ==
  /\ compaction.on
  /\ compaction' = Off
  /\ UNCHANGED <<arrived, handler, queue, worker, history, jobs, stale, due>>

-----------------------------------------------------------------------------
Rest ==
  /\ arrived = MaxArrivals /\ handler = AtRest /\ worker = Free
  /\ queue = <<>> /\ jobs = {} /\ UNCHANGED vars

Next ==
  \/ \E n \in Sizes : Ask(n) \/ Upload(n) \/ Rewrite(n)
  \/ \E saved \in BOOLEAN : Record(saved) \/ RecordUpload(saved)
  \/ Look \/ QueueUpload \/ Clear
  \/ Take \/ LetGo \/ CancelStale
  \/ \E present \in SUBSET (1 .. Len(Sections)), agentic \in BOOLEAN : TakeWindow(present, agentic)
  \/ \E mode \in Modes : Start(mode)
  \/ \E j \in jobs : \/ \E agentic \in BOOLEAN : EndJob(j, agentic)
                     \/ \E n \in Sizes : RecordReply(j, n)
                     \/ Panic(j) \/ Cancel(j)
  \/ Compact \/ GiveUp
  \/ Rest

Spec == Init /\ [][Next]_vars

-----------------------------------------------------------------------------
(* Properties.                                                             *)

Windowed == worker.at = "windowed"

(* The budget of the worker's turn.                                        *)
Allowed == Budget(worker.agentic, worker.system)

Suffix(h, k) == SubSeq(h, Len(h) - k + 1, Len(h))

(* A window is the longest end of the history within the budget, and never *)
(* without the newest message: it has no holes, whatever the sizes.        *)
WindowIsLongest ==
  Windowed =>
    LET h    == worker.seen
        fits == {k \in 1 .. Len(h) : k = 1 \/ Tokens(Suffix(h, k)) <= Allowed}
    IN  \E k \in fits \cup {0} :
          /\ worker.prompt = Suffix(h, k)
          /\ \A l \in fits : l <= k

(* The model is asked the question of its turn, however large it is. It is *)
(* missing only if it could not be recorded, if the history was cleared or *)
(* rewritten since, or if a reply of a job let go or an upload came behind *)
(* it and, with all that came behind it, it is over the budget.            *)
QuestionAsked ==
  Windowed =>
    \/ worker.turn \in ToSet(worker.prompt)
    \/ worker.since \cap {"unsaved", "cleared", "rewritten"} # {}
    \/ /\ worker.since \cap {"reply", "upload"} # {}
       /\ \E i \in DOMAIN worker.seen :
            /\ worker.seen[i] = worker.turn
            /\ Tokens(Suffix(worker.seen, Len(worker.seen) - i + 1)) > Allowed

(* A message (or the summary at the head) is left out of a prompt only if  *)
(* the history is over the profile's trigger of a compaction, or if the    *)
(* system prompt takes more than the trigger leaves of the budget: the two *)
(* limits are computed in two places, from two sizes of the system prompt. *)
OmittedOnlyOverTrigger ==
  LET trigger == Trigger(worker.agentic) IN
  Windowed /\ worker.prompt # worker.seen =>
    Tokens(worker.seen) > trigger \/ worker.system > Budget(worker.agentic, 0) - trigger

(* Users' messages are recorded in the order of arrival, but for an upload *)
(* the sync loop records by itself: that may overtake turns which wait.    *)
OrderOfArrival ==
  \A i, j \in DOMAIN history :
    i < j /\ history[j].id # 0 /\ history[i].id > history[j].id
      => history[i].kind = "upload"
=============================================================================

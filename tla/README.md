# Verification of roger

roger is a Matrix bot that answers in chat rooms with language models. This
directory holds TLA+ modules of its concurrent core, the TLC runs that check
them and the TLAPS proofs about them. Paths below are relative to the
repository; `handler.rs` is `src/matrix/handler.rs`.

## 1. The system

One tokio process. Four kinds of task share its state: the Matrix sync loop,
one worker per room, one job task per turn, and one producer task per job.
Detached compactions and the two scheduled loops run beside them, and each
agentic call has a CLI, a process with its own children.

| component | state | operations | talks to |
|---|---|---|---|
| Sync loop (`handle_message`, slash commands) | none of its own | queue a turn; `/cancel`, `/model`, `/clear`, `/forget`, `/agent`, `/skills` | queues, registry, stores |
| Room queues and workers (`RoomQueues`, `room_worker`, `process_turn`) | one unbounded FIFO and one agentic semaphore (1 permit) per room | receive, mention gate, append the question, snapshot the profile, wait for the slot, register, spawn, then wait (sync), wait up to a budget (auto) or go on (async) | history, registry, job |
| Response job (`run_response_job`) | stream channel, text on display, the slot's permit | spawn the producer, flush, retry without streaming, metrics, append the reply, render, compact | producer, Matrix, history |
| Job registry (`workers.rs`) | id to entry, with an abort handle once the task exists | insert_pending, set_abort, remove, cancel, list | worker, sync loop |
| Profile chain (`llm.rs`) | an ordered list of backends | try each until one answers | HTTP servers, subprocesses |
| Subprocess backend (`subprocess.rs`) | process-wide semaphore of children | permit, worktree, spawn, stream, idle timeout, ceiling, kill | the CLI, git |
| Worktrees (`subprocess.rs`) | a branch and a directory per run, a sequence number | create, finalize, drop | git |
| History (`history.rs`) | one JSON file per room, a sidecar of known rooms | append, rewrite, clear, load, window | everyone |
| Compaction (`compaction.rs`) | the set of rooms reserved | reserve, summarise, rewrite, TLDR, distil, condense | model, history, memory |
| Memory (`memory.rs`) | a file per room, a global one, TLDRs, digest | append, rewrite, clear | compaction, prompts |
| Scheduler (`scheduler.rs`) | none (two loops) | nightly sweep, weekly digest | compaction |
| Config and reload (`main.rs`, `config.rs`, `room_profiles.rs`, `room_workdirs.rs`) | one RwLock, two JSON files | reload, `/model`, set_workdir | workers |
| Tools and subagents (`tools.rs`, `handler.rs`) | the stack of calls in progress | rounds of tool calls, subagents, set_workdir, write_skill | models, stores |
| Skills (`skills.rs`) | three directories of small files | draft, approve, forget; index, read, list | tools, sync loop, prompts |
| Attachments (`attachment.rs`) | attachment directory | download, record or queue an upload | history, queue, registry |
| Display (`markdown.rs`, `FlushCadence`) | the text shown, the paragraphs rendered for good | should_flush, last_safe_paragraph_end | response job |
| MCP, web, audio, metrics, Matrix client | counters; none | I/O | |

What is hard here, and what makes each part correct:

* A job ends in four ways (return, abort at an await, panic, never) and holds
  three resources (slot, room, child permit) plus a registry entry. Each must be
  given back once, by whatever ends it, and not before.
* An abort reaches the job's task and not the producer it spawned. The producer
  walks on without a receiver.
* Detached jobs append replies while later turns append questions.
* A compaction reads a file, waits for a model, and writes the file. Appends,
  `/clear`, other rooms' compactions and restarts fall in between.
* Servers have no timeout, children have two; one cap is shared by all rooms.
* Files outlive the process; queues, reservations and sequence numbers do not.
* A CLI may fall silent, talk for ever, block on a pipe nobody reads, or leave a
  process behind; its text goes through a bounded channel to a display that may
  be slower than it or gone.
* A turn reads a dozen files one after the other; others write them meanwhile.
* A scheduled loop reckons in wall time and sleeps in machine time.

What must hold: of turns and jobs, order, one agentic job per room and an end to
each; of permits, conservation; of files, that what was said to be saved is;
of compaction, that it loses nothing but what it cannot know of; of a CLI's run,
that its answer is what it said and that nothing of it stays; of a prompt, that
it holds the question; of a schedule, each hour once.

`PROJECT.json` lists every hazard at its line with the properties that cover
it, or why none does yet.

## 2. The modules

### Orchestrator: turns, jobs, registry, slot, producers, children

One action per step between two awaits or locks of the code.

| code | in the module |
|---|---|
| a room's channel | `queue[r]`, turns numbered in order of arrival, `home[t]` their room |
| `process_turn`'s position | `worker[r].pc`: `snapshot`, `slot`, `insert`, `spawn`, `arm` (before set_abort), `hold` (awaiting the job) |
| agentic semaphore | `gate[r]`: the turn whose task owns the permit |
| job task | `job[t]`: `starting`, `streaming`, `settling`, `retrying`, `rendering`, `closing`; over: `done`, `dead`, `panicked` |
| registry entry | `entry[t]`: `none`, `pending` (no handle yet), `armed` |
| abort handle called | `aborted`; `Die` drops the task at a later await |
| walk over the chain | `call[t]`: who walks (`producer` or, for the retry, `job`), which backend, waiting for `http`, for a permit (`queue`), running a `child`, or its outcome |
| stream | `stream[t]`: backends whose text has reached the receiver, and the one on display |
| history appends | `log[r]`; a question that could not be saved leaves a line `lost`, which is not in the file |

Abstractions. Texts are left out; a backend's text counts as shorter than the
one on display when it comes from a later backend, which is what makes the
slice at `handler.rs:632` panic (`Panic` is a possibility, never a duty). The
HTTP tool loop is one request; it sends one complete text, as
`LlmClient::chat_with_tools` does, or panics in a tool (`ProducerPanic`), which the
job takes for an error and does not retry. Any append may fail: `process_turn`
warns and goes on to the model and the reply (`handler.rs:442`), and a reply that
cannot be saved is shown all the same (`handler.rs:676`). `TranscriptOrder` has
the lost questions in it: a reply stands in the file without its question only if
that append failed. The profile of a room may change at any
time (`SetProfile`), a superset of `/model` and of a reload.

### Dispatch: what the orchestrator promises

Turns of a room are opened one at a time, in order; at most one agentic turn is
served per room; a held turn keeps the room until it is closed. `Promise` in
Orchestrator maps the detailed state to it; `KeepsPromise` is the refinement of
the steps, `KeepsPace` of the fairness.

### Conversation: histories, compaction, memory files, restart

| code | in the module |
|---|---|
| history file | `history[r]`: items that stand for sets of messages; a summary for all it was made from |
| `ACTIVE` | `active` |
| detached size-triggered tasks not yet polled | `spawned[r]` |
| `run`'s position and locals | `task[r, cause]`: `asking` the model, `tldr`, `distil`, `append` (with the write lock, between the read and the write of a memory file), `weigh`, `condense`; `old`, `recent`, `copy` are the values read before a wait |
| nightly loop | `sweep`: rooms still to visit |
| memory files, TLDRs | `memory[f]`, `tldr[r]`: the messages whose facts they hold |
| the process dies and starts | `Restart`: all but the files is lost |
| `run_weekly_digest` | `weekly`: the TLDRs it has read, while the model is asked; `digest` |

Sizes are abstracted: a history that is not empty may be over the trigger, a
memory file over its cap (module Prompt has sizes). What a summary says is taken to account for all it
was made from. Files are read and written whole: they are replaced by rename.
The sidecar of known rooms is exact here; its own races are in Stores. Whoever
writes a memory file waits while another is between its read and its write
(`Unlocked`); `/forget` does not, because `clear_room` and `clear_global` take no
lock, so that a write under way may bring back what was forgotten. `RoomFactsKept`
is about the opposite: nothing else takes a fact out of a room's memory.

### Worktree: runs of the CLI, git, the owner of the project

| code | in the module |
|---|---|
| `WORKTREE_SEQ` | `seq`, back at 1 after `Restart` |
| branch `<prefix>/<room>/<n>`, directory `<room>-<n>` | `<<project, <<room, n>>>>` in `branches`, `<<room, n>>` in `trees` (one base directory for all projects) |
| a revision | the set of edits in it: `head[p]`, `tip[b]` |
| files not committed | `dirty[p]` in the live checkout, `scratch[n]` in a worktree |
| `create` | `Begin` (number, base revision), then `AddTree`, or `FallBack` if git refuses the name, or `AddFails` if it fails for another reason (no commit yet, a full disk, a lock, no git), with or without leaving the branch behind |
| the CLI | `Edit`, `SelfCommit`, in whichever directory it was given |
| `finalize` | `Commit` (with the comparison), `RemoveTree` (with the note), `DropBranch`; each of the three commands may fail, which the code does not look at |
| which of git's commands failed for a run | `run[r].failed` |
| `Drop` | `Abandon`, at every await of `execute_in` and `finalize` |
| the process dies | `Restart`: a CLI at work becomes an orphan, in its own process group, and goes on |

Assumptions: isolation is on and each project is a git repository (otherwise
the live checkout is used by design); `rev-parse`, once the worktree is there,
gives its revision; what an agent does in its directory it does with its own files
and branch. Names of rooms are
different after `create` has replaced their separators.

### Stores: three small files that are rewritten in place

| code | in the module |
|---|---|
| `reload_on_sighup` | `Build` (load and build, `fresh`), then `Install` (under the write lock) |
| `ReloadableState.llms`, `.room_profiles` | `llms`, `overrides` |
| `handle_model_command` | `Choose` (under the lock), `OpenOverrides`, `WriteOverrides` (`fs::write` after it) |
| `RoomWorkdirStore` | `dirs`; `SetDir`, `OpenDirs`, `WriteDirs`, by any number of jobs at once |
| `record_room`, without a lock | `RecordRoom` or `AlreadyKnown`, `OpenRooms`, `WriteRooms` |
| the three files | `overrideFile`, `dirFile`, `roomFile`: empty, whole or garbled, and what loading them gives |
| the process dies and starts | `Restart`: what the files hold, less the overrides that do not build |

`fs::write` truncates and then writes, in two steps; a file another task has
written to in between may keep a tail of it, which does not parse. `/model`
commands do not overlap: the sync loop awaits each. `chosen`, `clashed` and
`safe` are history variables: what each room's last finished command asked for,
whether the last set overlapped another, which rooms were recorded alone. The
configuration is the set of profiles that would build; a file that does not
parse makes a reload give up and is left out. Writes do not fail.

### Delegation: models that call tools that call models

| code | in the module |
|---|---|
| `ProfileLlm::chat_with_tools`, and `run_impl` inside it | `stack[w]`: the calls of a caller in progress, the innermost last |
| a call's place | `Frames`: the profile, the backend of its chain, the round of tool calls and how many calls of it are left; a request is out (`ask` with tools, `final` without), tools are running (`tools`), or a permit is awaited (`queue`) or held (`child`) |
| `SubagentHostImpl.depth` | `Depth(w)`, from the length of the stack: `/agent` starts with a subagent, a turn with the room's profile |
| `MAX_SUBAGENT_DEPTH`, `MAX_TOOL_ROUNDS`, the semaphore of children | `MaxDepth`, `MaxRounds`, `permits` |
| messages the sync loop has not come to | `inbox`; `Handle` takes one when the last is answered |

A subagent that fails is a text to its caller (`Return`), whereas a backend that
fails is followed by the next of its chain, which begins with the messages the
call was given (`Fail`, `Frame`). A subprocess offers none of roger's tools to
the CLI, so a stack never grows above a child. Every answer of a model may have
any number of tool calls up to `MaxCalls`, zero among them, and every tool may
be a subagent. Orchestrator takes the whole tool loop for one request; this
module is what that request is made of. A tool that panics, which ends the
caller's task with all its stack, is in Orchestrator and not here.

### CliRun: a CLI, its pipes, the reader, the channel, the display

| code | in the module |
|---|---|
| the CLI and the other processes of its group | `leader`, `helper`; the pipes a helper has inherited, `holds` |
| stdout, stderr | `pipe`, a few lines deep; `jammed`: a write to stderr blocks |
| a line of JSON | a kind, a text and an error flag; `ParseClaude`, `ParseOpenCode` are the two parsers |
| `execute_in` | `reader`: `spawning`, `top` (before the ceiling is looked at), `reading` (a line or the idle timeout), `sending` (waiting for room in the channel), `waiting` (child.wait), `stderr`; its locals `full`, `final`, `failed` |
| the ceiling | `late`, which becomes true at some time of each run |
| `kill_tree`, and what is left when a child is only dropped | `Killed`, `Drop`; `strays` remembers how the runs ended that left a process behind |
| the chain | `attempt`; each backend begins afresh on the same channel (`EndRun`) |
| the flush loop | `flusher`, the snapshot at hand `acc`, `posted`, `shown`, and `committed`: the offset kept from an earlier snapshot, with the backend it came from |
| `should_flush` | three amounts of time since the last flush, chosen freely |
| `last_safe_paragraph_end` | `SafeEnd`: `Scan` goes through the text by `ScanChar` |

A text is a sequence of words, sentence ends, line breaks and fences, so that
the offset, the blank lines between blocks and the choice between the final, the
accumulated and no text are computed and not assumed. Times are not counted: a
timer may fire whenever the code would have it armed. The CLI and its helper are
external; nothing is assumed of them but what a pipe makes of a write. The
channel is given (streaming) or not (a plain chat, whose caller may be
aborted). Orchestrator takes all this for `ChildText`, `ChildUnheard`,
`ChildExit` and `ChildFail`.

### Prompt: what a model is asked with

| code | in the module |
|---|---|
| a message of the history | its kind, its size, and its place in the order of arrival if a user sent it |
| the sync loop | `handler`: idle, or in `handle_attachment` before and after has_active_job is read |
| `process_turn` | `worker`: `taken`, `recorded` (the question is appended), `windowed` (prompt and window taken), then the wait of its mode |
| `assemble_system_prompt` | `SystemSize`: the persona and whatever sections there are at that moment |
| `history_token_budget` | `HttpBudget`, saturating at 0 and floored; `Budget` is that or, for an agentic profile, the constant `CliBudget` (64 000 at `llm.rs:435`) whatever the system prompt |
| `windowed_by_tokens` | `Window`: `Walk` goes from the newest message to the oldest by `Keep` |
| `maybe_compact`, the rewrite of a compaction | `EndJob` with `Trigger`, `Compact`, `Rewrite`, `GiveUp` |
| detached jobs | `jobs`, with whether they have recorded a reply |
| registry entries that panicked jobs left | `stale`: `has_active_job` counts them, `/cancel` removes them |

The mention gate (whose turns leave no trace in the history) and what
compactions do besides the rewrite are in Orchestrator and Conversation.
`worker.since` is a history variable: what came between question and window, or
that the question could not be appended (`Record`, after which the turn goes on). The
appends of an upload and of a reply may fail too.

### SkillFiles: the draft and the active body of a skill

| code | in the module |
|---|---|
| `pending/<name>.md`, `active/<name>.md` | `pending` (with its inode: a removed file may still be written to), `learned` |
| `write_pending`, by jobs and by the sync loop | `OpenDraft`, `FillDraft` |
| `approve` | `Approve` (exists), `ReadDraft`, `OpenLearned`, `FillLearned`, `RemoveDraft` |
| `forget` | `ForgetLearned`, `ForgetDraft` |
| the process dies and starts | `Restart` |

A body is the number of the draft it is, empty, or a mixture of two. `owed` is a
history variable: the draft whose author was told that it is saved, until it is
forgotten or overwritten.

### Scheduler: when the scheduled loops work

| code | in the module |
|---|---|
| `secs_until_hour`, `secs_until_weekday_hour` | `UntilHour`, `UntilWeekdayHour`, in units of which `Hour` make an hour |
| one of the two loops | `at`: `asleep`, `working`, `resting`; `left` of the sleep, by the machine's clock |
| the settings, which run_scheduler takes by value | `setting` |
| the wall clock | `wall`, which may be set (`SetClock`) without any sleep noticing |

Work takes no time or any; a timer that is due fires before time goes on. A
machine that is suspended is a clock set forward. What the work does is in
Conversation (`Nightfall`, `AskDigest`), where it may begin at any time.

### The MC modules

The tables of profiles, agents, texts and sections and the symmetry sets for
TLC. MCOrchestrator has these profiles:

| profile | mode | chain |
|---|---|---|
| chat | sync | http |
| code | async | subprocess |
| build | auto | subprocess, http |
| mixed | async | http, subprocess |

### The proofs

OrchestratorProofs, WorktreeProofs, DelegationProofs, PromptProofs and CliRunProofs
are about the modules they are named for; StoresProofs is about Stores and
SkillFiles, ConversationProofs about Conversation and Scheduler (of which the
one's variables and actions have other names than the other's). Recursion has what
several of them need of induction and of recursive functions. See section 5.

Operators whose comment begins with "Slip" are plausible mistakes in an action
of the code. No specification uses them: each is there to be put in the place
of that action, to see that a property notices.

## 3. The runs

| run | bounds | what it shows |
|---|---|---|
| `orch_one_room` | 1 room, 3 turns, code + build, 2 permits, 1 question that cannot be saved | Slot, registry and transcript over all orders of detachment, abort, panic, failover |
| `orch_two_rooms` | 2 rooms, 2 turns, chat + mixed, 1 permit | Permits over two rooms, sync replies in turn, refinement of Dispatch |
| `orch_progress` | 1 room that requires mentions, 2 turns, chat + build, 1 permit, fair | Turns settle if servers answer and children end, the queue for permits drains if children end, cancelled turns free the room whatever they do |
| `orch_cancel_child` | 1 room, 2 turns, fair | Refuted: a cancelled job starts no child |
| `conv_two_rooms` | 2 rooms, 3 messages, 1 kept | Reservation, order of histories, verbatim turns, what a rewrite may lose, TLDR and digest, facts of a room |
| `wt_isolated` | 2 runs, 1 room, 2 projects, 2 edits each, 2 numbers, 1 restart | Directories and branches apart, work and reports kept, directories removed if git can, the live checkout used only under an old name or if git failed |
| `stores_shared` | 2 rooms, 1 of them uses `/model`, 2 profiles, 1 directory, 2 jobs | Overrides build, are saved and never go back; directories and known rooms are right unless writes overlap |
| `deleg_nested` | 1 job at a time and the sync loop, 2 agents, depth 2, 2 rounds of 2 calls, 1 permit, 2 commands, fair | Permits conserved, calls wind down; waits for a permit end if children end, calls return and commands are handled if servers answer too |
| `cli_run` | claude then opencode, 2 lines each that say something and any number that do not, pipe and channel of 1, fair | The answer is what was said, rendered paragraphs stay whole, cut-off runs leave nothing, calls end but in two cases |
| `prompt_room` | 3 messages of 1 or 4 tokens, 1 kept; budgets 8 and the floor 3 with a trigger of 8, and for agentic turns 12 with a trigger of 9 | Windows are the longest that fit and hold the question; what is left out and why; order of arrival |
| `skill_files` | 2 jobs and the sync loop, 3 drafts | A draft reported saved is in one of its places, with crashes at every call |
| `sched_clock` | half hours over two weeks and more, any start, hours 0, 5 and 47, days 0, 3 and 13, one clock set by less or more than the rest | Loops sleep to the next hour, and do none twice |

Type invariants are not among the properties of the runs: a theorem has each of
them for all constants.

Why the bounds are enough. Interference in a room is between a running job, a
stray producer of an earlier one and the worker's current turn: three turns
give all three at once, and two permits let two children run. Rooms meet only at the child
cap: two rooms and one permit make them compete. Chains of two backends give
every failover (agentic to agentic is the only pair the runs leave out; it
differs from the others in no guard). A compaction needs a message to
summarise, one to keep and one that comes late: three messages; the second
room is there for the global file and the order of the sweep.

A lost update of a file needs two tasks and two rooms; a reload that takes a
profile away needs one beside chat. One directory tells a room that has one from a
room that has not (two directories hold as well, at three times the states).

A window differs from the history when two messages do not fit, which sizes 1 and
4 and the three budgets give in both ways (a message that fits exactly, one that is
larger than all); a question is pushed out by one reply or upload behind it, and
a third message follows. Two lines let a run say an error and a text, a text and
a result, or two paragraphs in a fence; a channel of one fills at the second.
Three drafts are one on approval, one that overwrites it and one after. The week
is whole, because weekdays wrap at its end; half hours tell "at" from "after" an
hour. A clock set twice adds up to one set, or is told apart by `astray` alone.

Two callers compete for one permit at every depth, subagents call subagents and
may go no deeper, a chain fails over from http to a child in any round, and the
second command waits behind the first.

Bounds in the guards: `MaxTurns`, `MaxLost` (questions of a room that cannot be
saved: one in `orch_one_room`, none in the other runs, whose states they would only
multiply, because no guard looks at the history; the theorems have any number), `MaxMessages`, `MaxSpawned`. Nothing else is
cut off, but for `MaxEdits`, `MaxNumber` and `MaxRestarts` of Worktree and
`MaxCalls` and `MaxCommands` of Delegation (`MaxChain` bounds no action, only the
chains), `MaxLines` of CliRun (lines without text are not counted),
`MaxArrivals` of Prompt, `MaxDrafts` of SkillFiles, `MaxTime` and `MaxSets` of
Scheduler. Two
runs meet under one name after one restart; two edits let a run commit one and
leave one. Deadlock is checked in the runs of Orchestrator and Conversation: a
room's profile can always change, and a known room can always be swept. In Stores
the owner can always edit the configuration, and in Delegation a job can always
start. It is
not in those of Worktree: each run is over some day, and then nothing is left
to do. CliRun and Prompt have a step `Rest` for a call or a room that is done, and
SkillFiles and Scheduler can always restart. In the passing runs every action of the
modules is taken.

Fairness (`TaskFairness`). The tokio runtime polls every task that can go on
and fires its timers; `tokio::sync::Semaphore` is first come first served,
hence strong fairness for `ChildStart`. Matrix requests are taken to end (the SDK's
have timeouts). Two things the code does not see to, and each is an assumption
with a name that stands in front of the properties that need it:

* `ServersAnswer`: requests to LLM servers have no timeout; each is answered or fails.
* `ChildrenEnd`: the timers guard the output of a CLI and nothing after it. The wait
  for its exit (`subprocess.rs:351`), for the end of its stderr (`subprocess.rs:527`)
  and for the git commands of `finalize` (`subprocess.rs:601` to `632`) have no
  timeout, and all hold the child permit. A CLI that has closed its output exits, leaves
  none of its children with its stderr, and git returns.

| property | servers answer | children end |
|---|---|---|
| `CancelFreesRoom` | | |
| `ChildQueueDrains` | | x |
| `KeepsPace` | x | x |
| `PermitComes` | | x |
| `CommandsHandled` | x | x |
| `CallEnds` | | says itself which waits may last |

A cancelled turn frees its room without either, by the abort of the job's task
alone. In Delegation own steps and the sync loop are fair, permits strongly so, and
servers, tools and children only by the same two assumptions.
Posting, `/model`, `/cancel` and panics are never fair. CliRun says when
`ChildrenEnd` is so, but for git. There the reader, the flush
loop and the timers are fair and the CLI and its helpers are not, and
`CallEnds` is what remains: a call ends unless a CLI closes its output and lives on
(`subprocess.rs:351`), or a helper keeps the stderr of one that said nothing
(`subprocess.rs:527`). Even a CLI that talks for ever is stopped, because the
ceiling is looked at before each line, and a full channel (`subprocess.rs:319`)
empties because Matrix answers. In Scheduler no liveness is claimed; that a due
timer fires before time goes on is in the guard of `Tick`.

## 4. Where documentation and code differ

`PROJECT.json` lists the differences found while modelling, with the lines of
both sides. One is refuted by a run (`orch_cancel_child`); the others name the
actions that show it, or were read. In short:

* Jobs: `/cancel` does not reach the producer; a failover in mid-stream is
  possible and can panic the job, whose entry then stays; a cancel in the
  insert-to-arm window stops nothing; a subprocess fallback runs outside the slot;
  `/agent` holds up every later command.
* Files: compaction loses messages appended and undoes a `/clear` made while it
  waits; the nightly sweep of a short history summarises nothing and keeps adding
  summaries; condensing loses other rooms' facts; `/forget` leaves the TLDR; two
  `set_workdir` at once may save the older map; two first messages may leave one
  room off the list; an approval removes a draft written after it was read; of a
  skill in both directories the index shows one and `read_skill` gives the other.
* Prompts: the question may be pushed out of the window, and the summary is the
  first to go when the history grows past it; `search_history` cuts texts inside a
  character and panics.
* CLIs: the ceiling is not a hard limit; a drop kills the CLI and not its
  children; a result without a text discards what was streamed; after a restart
  an agent may be let loose on the live checkout; a commit between reading the
  base and adding the worktree is taken for the run's.
* Schedule: there is a nightly job; reloads do not change its hours.
* MCP: a server that never answers keeps the bot from starting; one whose name ends
  in an underscore gets no calls.

For most there is a weaker property that does hold and is checked:
`SecondAgentIsStray` (a theorem, no run), `ListedUnlessPanicked`, `OnlyLateMessagesLost`, `InOrder`,
`LiveOnlyOnUsedName`, `DirsSaved`, `KnownKept`, `CommandsHandled`, `DraftKept`,
`QuestionAsked`, `OmittedOnlyOverTrigger`, `CallEnds`, `CutShortMeansGone`,
`CommittedIsSettled`.

## 5. What is proved

Every safety and action property the runs check is a theorem, for all values of
the constants that satisfy the ASSUMEs of its module, and so is the refinement of
Dispatch, step by step. Each inductive invariant was checked with TLC before it was
proved.

`OrchestratorProofs`: for all rooms, turns, profiles, chains and caps (numbers are
naturals, the cap is positive, chains are not empty, the default profile is one of
the profiles),

* `TypeCorrect`: Spec => []TypeOK
* `PermitsConserved`: Spec => []ChildPermitsConserved
* `SlotSafety`: Spec => []SlotHeldExactly (the slot never leaks, and a room has
  one live agentic job at most)
* `SyncSafety`: Spec => []SyncHoldsRoom
* `SecondAgentStrays`: Spec => []SecondAgentIsStray
* `ListedAreLive`: Spec => []ListedUnlessPanicked
* `TranscriptOrdered`, `SyncRepliesFollow`: Spec => []TranscriptOrder,
  Spec => []SyncRepliesInTurn
* `PromiseKept`: Spec => KeepsPromise

All of them rest on `Invariance`, Spec => []IInv, because none is inductive
alone. That the slot is free when it is taken for a turn says nothing of who
runs unless live agentic jobs hold it (`OneAgenticJobPerRoom`), which needs
that a turn whose job is about to be spawned holds it (`GateInv`), which needs
that the turn of a worker is fresh and its own (`WorkerInv`, `QueueInv`,
`JobInv`). Permits need the phases of walks tied to the phases of jobs
(`CallInv`): dropping a task gives back the permit of a walk the job made
itself and of no other.

The registry needs one fact more (`AbortInv`): who is told to abort was spawned and
is not listed, and an armed entry has a job. Hence a job that ends after a cancel
removes nothing that was put there since. The order of logs needs to know where
turns stand that have left no line yet: whatever is in a log came before the queue
and not after the worker's turn, and a reply is there only when its job has recorded
it (`LogInv`); the question of a turn under way is there, or its place is marked as
lost (`AskedInv`).

The refinement follows one turn at a time. What Dispatch sees of a turn is a stage
(`StageIs` gives it from worker, queue and job); each action moves the stage of one
turn and leaves those of the others (`StepSeen`), and then either one action of
Dispatch has happened or nothing it can see (`Stutters`). The room is held while a
turn is (`HoldInv`).

`WorktreeProofs` proves all five safety properties of Worktree and its types,
for all runs, rooms, projects and bounds (the owner is not a run; bounds are
naturals): `TreesStayApart`, `TreesAreRemoved`, `ReportedIsKept`, `WorkIsKept`,
`LiveOnlyLater`. `TreesApart` rests on git alone: a new name is one that is not
on disk, so it is inductive with the phases a worktree can be in (`Isolation`).
The others need the counter: of two runs of one process each has its number
(`Numbered`), so a live run that found its name taken found an earlier
process's; the others are those for which git failed (`failed`). That nothing reported is lost needs that a branch deleted as empty
holds nothing but its base (`Based`), which needs that no other run has its
name by then (`RemovedApart`), and that a checkout never goes back
(`HeadGrows`). `KeptGrows` sums this up: what a project holds it goes on
holding. `WorkInv` follows each edit from the worktree to the branch.

`StoresProofs` proves all five safety properties of Stores and its types, for
all rooms, profiles, directories and jobs (chat is a profile, no profile is the
absence of one): `OverridesAlwaysBuild`, `OldChoiceNeverBack`,
`OverridesAreSaved`, `SoleSetSaves`, `KnownStay`. Each file has an invariant
that follows the value on its way to it. `Commanding`: the map a command is
about to save agrees with the overrides in force, less what a reload has dropped
since, so that neither the file nor a restart from it knows an older choice.
`DirsOnTheWay`: unless sets overlap there is one at most, it has the current
map, and the file it writes to is empty, so nothing of an older text remains.
`RoomsOnTheWay`: a record that is alone has read all that is safe. A lemma
(`Apart`) keeps the steps of one store away from the invariants of the others.

`DelegationProofs` proves both invariants of Delegation, for all finite sets of
jobs, profiles, chains, agents and limits: `DepthLimited` (types and the depth of
subagents) and `ChildrenConserved`. Permits are not conserved by themselves: when
a call returns, the caller under it goes on, and if that were a child too the
count would rise by one nobody has paid for. `Waiting` says it is not: every
frame but the last of a stack is between two tool calls. `InChain` keeps the
backend inside its chain, which a failover needs. Steps of callers are of four
kinds (`GoStep`, `ReturnStep`, `PushStep`, `FailStep`); each lemma says which
callers can hold a permit after it, and `CountChildren` does the counting.
`CallsAlwaysWindDown`, Spec => CallsWindDown, is of another kind: the measure `Left`
is a sum over the stack (`Remaining`) of products of rounds and costs, and the cost
of a tool call at one depth contains that of a whole call one deeper (`Whole`,
`CallCostIs`). A step within a call lowers its frame's share (`FramePays`), a
failover begins with less than was left to later backends (`FailPays`), and a
subagent with less than the tool call it is made by (`PushPays`); whatever is below
the innermost frame stays the same (`RemainingSame`).

`ConversationProofs` proves all six properties of Conversation and its types, for
all rooms and any number of messages, tasks and turns to keep (Global is not a
room; numbers are naturals): `ReservationsHold`, `HistoriesInOrder`,
`RecentStayVerbatim`, `LossIsLate`, `TellingAdvances`, `RoomMemoriesKept`. A compaction replaces a
history by what it read before it waited, so whatever is claimed of a history has
to be claimed of what a waiting compaction plans to write (`PlansGood`). That
summarised turns are old needs a count: each of the `KeepRecent` items that stay has
a message of its own, later than any that goes (`ManyAfter`, by the pigeonhole
theorem of the library), because only summaries at the head account for nothing
(`Full`). A rewrite loses only what came after its read because a room has one
compaction at a time (`OthersLater`, with `ReservedExactly`). The TLDR advances
because all that has been told of a room, by TLDR, digest or the weekly loop's
copy, lies before every item of its history that accounts for something
(`HistoriesAhead`, `TasksSound`), and the three follow each other (`Succession`).
A room's memory keeps what it holds because what a compaction has read of it to write
back is all that is in it, whatever it waited for meanwhile (`CopiesCover`): the only
other writer would be a second compaction of the room, and `/forget` only takes away.
The steps of compactions fall into a few kinds (`Kinds`), for which each part is
proved once.

For SkillFiles, `StoresProofs` proves `DraftsAreKept`, SkillSpec => []DraftKept, for
all writers and any number of drafts. An approval empties the active body before it
fills it and removes the draft at its end; what makes both safe is that a draft that
is owed is in the draft's file while there is one (`Owed`), and that an approval has
one to the end and copies what is owed unless someone has written since
(`Approving`).

For Scheduler, `ConversationProofs` proves `WorkOncePerHour`, ClockSpec =>
OncePerHour, for all hours and days, every unit of time and every setting of the
clock. What makes it inductive is a balance (`Balanced`): the wall clock and what it
was set back by are past the last work by the time that was rested and slept since.
A restart takes the rest out of it, and a sleep is never empty (`UntilPositive`),
which makes it strict. `SleepsRightly`, ClockSpec => []SleepsToNext, is the
arithmetic of days and weeks: the sleep of `secs_until_hour` ends at the first later
time with that hour (`NextHour`), that of `secs_until_weekday_hour` at the first with
that weekday too, and one that was cut short by no setting of the clock is on its
way there.

`PromptProofs` proves the types of Prompt and all four properties, for all sizes,
budgets, fractions and sections: `ArrivalsKeepTheirOrder`, `WindowsAreLongest`,
`QuestionsAreAsked`, `OmissionsAreOverTrigger`. Order holds of the history because it
holds of what a compaction has kept to write back, and because what is still to
come, in the queue or at the worker, is later than what is there (`OrderInv`). A
window is described without the walk: it is the end of the history from which the
walk turned back, whose total fits, and one message more does not (`Keeps`,
`Reached`). From there the question is a matter of what may come behind it while the
turn is in each place (`QuestionInv`), and an omission a matter of sums: what is left
out is what the budget, and so the trigger, has no room for.

`CliRunProofs` proves the types of CliRun and its three safety properties, for every
chain of CLIs, all texts and every size of pipe and channel. `NothingOutlivesAKill`:
each early end of a run kills the group. `RenderedIsSettled` needs that snapshots are
in order: those in the channel, and then the text being read, are each of an earlier
backend or the beginning of the next (`InOrder`, `Coming`), so that an offset that
ends a paragraph in one ends it in all that follow (`SettledStays`; `Rendered`). A
panic is then possible only over a text that replaced another's. `NothingSaidIsLost`
needs, while a run goes on, that the words accumulated are those of the lines heard
and the result at hand is the last one (`HeardInv`); the blank lines put between
blocks add no word (`WordsOfBreaks`).

A definition by recursion is used in a proof through an equation, which holds only
if such a function exists. Module `Recursion` proves that it does (`RecursionExists`)
and states induction as a fact about a set of numbers (`InductionUpTo`), both from
the well-foundedness of < in the library; the sums, walks and scans of Prompt, CliRun
and Delegation are cases of these.

Only model-checked: liveness, which is out of the prover's reach. That is
`KeepsPace`, `CancelFreesRoom` and `ChildQueueDrains` of Orchestrator, `PermitComes`
and `CommandsHandled` of Delegation, and `CallEnds` of CliRun.

## 6. Plan

Done: Orchestrator, Dispatch, Conversation, Worktree, Stores, Delegation, CliRun,
Prompt, SkillFiles, Scheduler, and the theorems of section 5. Next, in this
order:

1. An abstract specification of a CLI's run, which CliRun implements and which is the
   child of Orchestrator: what an agent may say, and how it may end.
2. One of a compaction, which Conversation implements.

## 7. Not modelled

Text and layout of prompts and replies, Matrix encryption and login, the
network protocols of LLM, MCP, web and audio services, metrics (no decision
depends on them), the soft cap on jobs (it only logs). `PROJECT.json` says of
each component what is left out.

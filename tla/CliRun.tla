-------------------------------- MODULE CliRun --------------------------------
(***************************************************************************)
(* A call answered by agentic CLIs: the processes of a run and their       *)
(* pipes, the reader that turns lines into text under two timers, the      *)
(* bounded channel, and the flush loop that puts the text on display.      *)
(*                                                                         *)
(* Backends are tried in turn; each that is tried runs one CLI. The CLI    *)
(* (the leader of a process group) may start a helper, a process of its    *)
(* group that outlives it and may have inherited its pipes. A text is a    *)
(* sequence of characters of four kinds: words, ends of sentences, line    *)
(* breaks and code fences (three backquotes count as one character).       *)
(***************************************************************************)
EXTENDS Naturals, Sequences, FiniteSets

CONSTANTS
  Flavors,    (* the CLI of each backend of the chain, the primary first   *)
  Chunks,     (* the texts one line of output may carry                    *)
  PipeRoom,   (* lines the stdout pipe takes before a writer blocks        *)
  ChanRoom,   (* snapshots the channel takes before a sender waits (64)    *)
  MaxLines    (* BOUND on the lines of a run that say something            *)

NL    == "newline"
Fence == "fence"
Stop  == "stop"
Chars == {"word", Stop, NL, Fence}

ASSUME FlavorAssumption ==
  Flavors \in Seq({"claude", "opencode"}) /\ Len(Flavors) >= 1
ASSUME ChunkAssumption  == Chunks \subseteq Seq(Chars)
ASSUME RoomAssumption   == /\ PipeRoom \in Nat \ {0} /\ ChanRoom \in Nat \ {0}
                           /\ MaxLines \in Nat

VARIABLES
  (* the processes *)
  leader,     (* "none", "busy", "quiet" (closed its output, lives), "dead" *)
  helper,     (* a second process of the group is alive                    *)
  holds,      (* the pipes the helper has inherited                        *)
  jammed,     (* the stderr pipe, which nobody reads, is full              *)
  pipe,       (* lines on stdout not yet read                              *)
  printed,    (* lines printed that say something                          *)
  strays,     (* how the runs ended that left a process of theirs behind   *)
  (* the reader: execute_in *)
  streams,    (* the caller gave a channel                                 *)
  attempt,    (* the backend that is running                               *)
  reader,     (* where it is in its loop                                   *)
  late,       (* the ceiling of the run has passed                         *)
  full, final, failed,
  heard,      (* history: the lines of this run that said something        *)
  result,     (* what the chain gave its caller                            *)
  (* the flush loop: run_response_job *)
  channel,    (* snapshots sent and not yet received                       *)
  flusher,    (* "receiving", "posting", "done", "panicked" or "gone"      *)
  acc,        (* the snapshot it is at                                     *)
  posted,     (* there is a message to edit                                *)
  shown,      (* the text of the last flush                                *)
  committed   (* the offset of the paragraphs rendered for good, and the   *)
              (* backend whose text they are from                          *)

procVars   == <<leader, helper, holds, jammed, pipe, printed, strays>>
readerVars == <<streams, attempt, reader, late, full, final, failed, heard, result>>
flushVars  == <<flusher, acc, posted, shown, committed>>
vars       == <<procVars, readerVars, channel, flushVars>>

None     == [given |-> FALSE, text |-> <<>>]
Given(t) == [given |-> TRUE,  text |-> t]

Silence == [by |-> 0, text |-> <<>>]

(* What is shown when there is no reply.                                   *)
Sorry == <<"sorry">>
-----------------------------------------------------------------------------
(* Lines of output and what the two parsers make of them. A line "invalid" *)
(* is not UTF-8: reading it is an error.                                   *)

Line(kind, t, bad) == [kind |-> kind, text |-> t, error |-> bad]
Noise              == Line("other", <<>>, FALSE)
Invalid            == Line("invalid", <<>>, FALSE)

(* content_block_delta, content_block_start of a text, result (with or     *)
(* without a text, successful or not).                                     *)
ClaudeLines ==
  {Line("text_delta", t, FALSE) : t \in Chunks} \cup
  {Line("block_start", <<>>, FALSE)} \cup
  {Line("result", t, FALSE) : t \in {<<>>, <<"word">>}} \cup
  {Line("result", <<>>, TRUE)}

OpenCodeLines ==
  {Line("text", t, FALSE) : t \in Chunks} \cup {Line("error", <<>>, TRUE)}

Says(flavor) == {Invalid} \cup
  (IF flavor = "claude" THEN ClaudeLines ELSE OpenCodeLines)

Event(type, t) == [type |-> type, text |-> t]
Other          == Event("Other", <<>>)

(* parse_claude_line: a result without a text gives an empty one.          *)
ParseClaude(l) ==
  CASE l.kind = "text_delta"            -> Event("Text", l.text)
    [] l.kind = "block_start"           -> Event("BlockBreak", <<>>)
    [] l.kind = "result" /\ l.error     -> Event("Error", <<>>)
    [] l.kind = "result" /\ ~l.error    -> Event("Final", l.text)
    [] OTHER                            -> Other

(* parse_opencode_line: success is the accumulated text at the end.        *)
ParseOpenCode(l) ==
  CASE l.kind = "text"  -> Event("Text", l.text)
    [] l.kind = "error" -> Event("Error", <<>>)
    [] OTHER            -> Other

Parse(l) == IF Flavors[attempt] = "claude" THEN ParseClaude(l) ELSE ParseOpenCode(l)

EndsWith(t, tail) == Len(t) >= Len(tail)
                     /\ SubSeq(t, Len(t) - Len(tail) + 1, Len(t)) = tail

(* A blank line between two blocks of text, unless there is one.           *)
Broken(t) ==
  IF t = <<>> \/ EndsWith(t, <<NL, NL>>) THEN t
  ELSE IF EndsWith(t, <<NL>>) THEN Append(t, NL) ELSE t \o <<NL, NL>>

-----------------------------------------------------------------------------
(* The text on display.                                                    *)

(* Slip: code fences are not seen.                                         *)
ScanPlain(s, c) ==
  LET at == s.at + 1 IN
  IF c # NL
    THEN [s EXCEPT !.at = at, !.half = FALSE]
  ELSE IF s.half
    THEN [s EXCEPT !.at = at, !.half = FALSE, !.last = at]
    ELSE [s EXCEPT !.at = at, !.half = TRUE]

(* One character of the scan of last_safe_paragraph_end: `half` says that  *)
(* a line break outside a fence may be the first of two.                   *)
ScanChar(s, c) ==
  LET at == s.at + 1 IN
  IF c = Fence /\ s.start
    THEN [s EXCEPT !.at = at, !.inFence = ~@, !.start = FALSE, !.half = FALSE]
  ELSE IF c # NL
    THEN [s EXCEPT !.at = at, !.start = FALSE, !.half = FALSE]
  ELSE IF s.half
    THEN [s EXCEPT !.at = at, !.start = TRUE, !.half = FALSE, !.last = at]
    ELSE [s EXCEPT !.at = at, !.start = TRUE, !.half = ~s.inFence]

Unread == [at |-> 0, inFence |-> FALSE, start |-> TRUE, half |-> FALSE, last |-> 0]

(* The scan of a text after each of its characters.                        *)
Scan(t) ==
  LET scan[i \in 0 .. Len(t)] ==
        IF i = 0 THEN Unread ELSE ScanChar(scan[i - 1], t[i])
  IN  scan

(* last_safe_paragraph_end, 0 for none.                                    *)
SafeEnd(t) == Scan(t)[Len(t)].last

(* A sentence or a line ends in the part that is not on display.           *)
SentenceReady(t) == \E i \in Len(shown) + 1 .. Len(t) : t[i] \in {Stop, NL}

(* The time since the last flush: below min_gap, between, over max_wait.   *)
Elapsed == {"short", "some", "long"}

ShouldFlush(t, elapsed) ==
  /\ t # shown
  /\ elapsed # "short"
  /\ SentenceReady(t) \/ elapsed = "long"

Blank(t) == \A i \in DOMAIN t : t[i] = NL

-----------------------------------------------------------------------------
Init ==
  /\ leader    = "none"
  /\ helper    = FALSE
  /\ holds     = {}
  /\ jammed    = FALSE
  /\ pipe      = <<>>
  /\ printed   = 0
  /\ strays    = {}
  /\ streams   \in BOOLEAN
  /\ attempt   = 1
  /\ reader    = "spawning"
  /\ late      = FALSE
  /\ full      = <<>>
  /\ final     = None
  /\ failed    = FALSE
  /\ heard     = <<>>
  /\ result    = [st |-> "none", how |-> "", text |-> <<>>]
  /\ channel   = <<>>
  /\ flusher   = IF streams THEN "receiving" ELSE "gone"
  /\ acc       = Silence
  /\ posted    = FALSE
  /\ shown     = <<>>
  /\ committed = [at |-> 0, by |-> 0]

-----------------------------------------------------------------------------
(* The processes. Nothing of the program waits for them but the reader.    *)

OutputOpen == leader = "busy" \/ "out" \in holds
StderrOpen == leader \in {"busy", "quiet"} \/ "err" \in holds

CanPrint == leader = "busy" /\ ~jammed /\ Len(pipe) < PipeRoom

Say(l) ==
  /\ CanPrint
  /\ printed < MaxLines
  /\ pipe' = Append(pipe, l)
  /\ printed' = printed + 1
  /\ UNCHANGED <<leader, helper, holds, jammed, strays, readerVars, channel, flushVars>>

(* Events the parsers skip: tool calls, thinking, system notes. No bound.  *)
Chatter ==
  /\ CanPrint
  /\ pipe' = Append(pipe, Noise)
  /\ UNCHANGED <<leader, helper, holds, jammed, printed, strays,
                 readerVars, channel, flushVars>>

(* A write to a full stderr pipe blocks: it is read after the end, if ever. *)
JamStderr ==
  /\ leader = "busy" /\ ~jammed
  /\ jammed' = TRUE
  /\ UNCHANGED <<leader, helper, holds, pipe, printed, strays,
                 readerVars, channel, flushVars>>

StartHelper ==
  /\ leader = "busy" /\ ~jammed /\ ~helper
  /\ helper' = TRUE
  /\ holds' \in SUBSET {"out", "err"}
  /\ UNCHANGED <<leader, jammed, pipe, printed, strays, readerVars, channel, flushVars>>

CloseOutput ==
  /\ leader = "busy" /\ ~jammed
  /\ leader' = "quiet"
  /\ UNCHANGED <<helper, holds, jammed, pipe, printed, strays,
                 readerVars, channel, flushVars>>

LeaderExits ==
  /\ leader \in {"busy", "quiet"} /\ ~jammed
  /\ leader' = "dead"
  /\ UNCHANGED <<helper, holds, jammed, pipe, printed, strays,
                 readerVars, channel, flushVars>>

HelperExits ==
  /\ helper
  /\ helper' = FALSE
  /\ holds'  = {}
  /\ UNCHANGED <<leader, jammed, pipe, printed, strays, readerVars, channel, flushVars>>

-----------------------------------------------------------------------------
(* How a run ends.                                                         *)

(* The chain's loop: the answer of a backend ends it, an error makes the   *)
(* next one start afresh, on the same channel. `left`: a helper survives.  *)
EndRun(st, how, text, left) ==
  /\ leader'  = "none"
  /\ helper'  = FALSE
  /\ holds'   = {}
  /\ jammed'  = FALSE
  /\ pipe'    = <<>>
  /\ strays'  = IF left THEN strays \cup {how} ELSE strays
  /\ late'    = FALSE
  /\ full'    = <<>>
  /\ final'   = None
  /\ failed'  = FALSE
  /\ printed' = 0
  /\ IF st = "err" /\ attempt < Len(Flavors)
       THEN /\ attempt' = attempt + 1
            /\ reader'  = "spawning"
            /\ heard'   = <<>>
            /\ UNCHANGED <<streams, result>>
       ELSE /\ reader'  = "over"
            /\ result'  = [st |-> st, how |-> how, text |-> text]
            /\ UNCHANGED <<streams, attempt, heard>>

(* Slip: only the CLI is killed.                                           *)
KilledAlone(how) == EndRun("err", how, <<>>, helper)

(* The whole process group is killed.                                      *)
Killed(how) == EndRun("err", how, <<>>, FALSE)

-----------------------------------------------------------------------------
(* The reader.                                                             *)

Spawn ==
  /\ reader = "spawning"
  /\ leader' = "busy"
  /\ reader' = "top"
  /\ UNCHANGED <<helper, holds, jammed, pipe, printed, strays, streams, attempt, late,
                 full, final, failed, heard, result, channel, flushVars>>

(* No such program, or the working directory is gone.                      *)
SpawnFails ==
  /\ reader = "spawning"
  /\ EndRun("err", "spawn", <<>>, FALSE)
  /\ UNCHANGED <<channel, flushVars>>

CeilingPasses ==
  /\ reader \notin {"spawning", "over"} /\ ~late
  /\ late' = TRUE
  /\ UNCHANGED <<procVars, streams, attempt, reader, full, final, failed, heard,
                 result, channel, flushVars>>

(* Slip: the ceiling is a part of the wait for a line only.                *)
WhenIdleOnly == FALSE

(* The ceiling is looked at before every line.                             *)
PastCeiling == late

CheckCeiling ==
  /\ reader = "top"
  /\ IF PastCeiling
       THEN Killed("ceiling")
       ELSE /\ reader' = "reading"
            /\ UNCHANGED <<procVars, streams, attempt, late, full, final, failed,
                           heard, result>>
  /\ UNCHANGED <<channel, flushVars>>

Take(ev) ==
  /\ full'   = CASE ev.type = "Text"       -> full \o ev.text
                 [] ev.type = "BlockBreak" -> Broken(full)
                 [] OTHER                  -> full
  /\ final'  = IF ev.type = "Final" THEN Given(ev.text) ELSE final
  /\ failed' = (failed \/ ev.type = "Error")
  /\ reader' = IF ev.type = "Text" /\ streams THEN "sending" ELSE "top"

ReadLine ==
  /\ reader = "reading" /\ pipe # <<>>
  /\ LET l == Head(pipe) IN
       IF l = Invalid
         THEN Killed("read")
         ELSE /\ Take(Parse(l))
              /\ pipe'  = Tail(pipe)
              /\ heard' = IF l = Noise THEN heard ELSE Append(heard, l)
              /\ UNCHANGED <<leader, helper, holds, jammed, printed, strays,
                             streams, attempt, late, result>>
  /\ UNCHANGED <<channel, flushVars>>

(* No line within the idle time, or within what is left of the ceiling.    *)
IdleTimeout ==
  /\ reader = "reading" /\ pipe = <<>> /\ OutputOpen
  /\ Killed("idle")
  /\ UNCHANGED <<channel, flushVars>>

EndOfOutput ==
  /\ reader = "reading" /\ pipe = <<>> /\ ~OutputOpen
  /\ reader' = "waiting"
  /\ UNCHANGED <<procVars, streams, attempt, late, full, final, failed, heard,
                 result, channel, flushVars>>

Listening == flusher \in {"receiving", "posting"}

(* Neither timer covers the wait for room in the channel.                  *)
SendText ==
  /\ reader = "sending" /\ Listening /\ Len(channel) < ChanRoom
  /\ channel' = Append(channel, [by |-> attempt, text |-> full])
  /\ reader'  = "top"
  /\ UNCHANGED <<procVars, streams, attempt, late, full, final, failed, heard,
                 result, flushVars>>

Unheard ==
  /\ reader = "sending" /\ ~Listening
  /\ Killed("unheard")
  /\ UNCHANGED <<channel, flushVars>>

(* Slip: an error event outweighs the text.                                *)
FailedEver == failed /\ ~final.given

FailedForGood == failed /\ ~final.given /\ full = <<>>

(* After the end of the output: a final text, else the accumulated one,    *)
(* else what is on stderr. An error event counts when there is no text.    *)
Outcome ==
  IF FailedForGood
    THEN EndRun("err", "exited", <<>>, helper)
  ELSE IF final.given
    THEN EndRun("ok", "exited", final.text, helper)
  ELSE IF full # <<>>
    THEN EndRun("ok", "exited", full, helper)
  ELSE /\ reader' = "stderr"
       /\ UNCHANGED <<procVars, streams, attempt, late, full, final, failed, heard, result>>

WaitChild ==
  /\ reader = "waiting" /\ leader = "dead"
  /\ Outcome
  /\ UNCHANGED <<channel, flushVars>>

ReadStderr ==
  /\ reader = "stderr" /\ ~StderrOpen
  /\ EndRun("err", "exited", <<>>, helper)
  /\ UNCHANGED <<channel, flushVars>>

(* The caller of a plain chat is aborted: dropping the child kills it.     *)
Drop ==
  /\ ~streams /\ reader # "over"
  /\ leader' = "none" /\ helper' = FALSE /\ holds' = {} /\ jammed' = FALSE
  /\ pipe'   = <<>>
  /\ strays' = IF helper THEN strays \cup {"dropped"} ELSE strays
  /\ reader' = "over"
  /\ result' = [st |-> "dropped", how |-> "dropped", text |-> <<>>]
  /\ UNCHANGED <<printed, streams, attempt, late, full, final, failed, heard,
                 channel, flushVars>>

-----------------------------------------------------------------------------
(* The flush loop.                                                         *)

(* Too early or nothing new: the snapshot is passed over.                  *)
PassOver ==
  /\ flusher = "receiving" /\ channel # <<>>
  /\ \E elapsed \in Elapsed : ~ShouldFlush(Head(channel).text, elapsed)
  /\ channel' = Tail(channel)
  /\ UNCHANGED <<procVars, readerVars, flushVars>>

Advanced(snap) ==
  LET end == SafeEnd(snap.text) IN
  IF end > committed.at THEN [at |-> end, by |-> snap.by] ELSE committed

(* The tail of a text shorter than what was committed is out of range: the *)
(* job panics and the receiver goes with it.                               *)
Render ==
  /\ flusher = "receiving" /\ channel # <<>>
  /\ LET snap == Head(channel) IN
       /\ \E elapsed \in Elapsed : ShouldFlush(snap.text, elapsed)
       /\ committed' = Advanced(snap)
       /\ IF committed'.at > Len(snap.text)
            THEN /\ flusher' = "panicked" /\ channel' = <<>> /\ UNCHANGED acc
            ELSE /\ flusher' = "posting"  /\ channel' = Tail(channel) /\ acc' = snap
  /\ UNCHANGED <<procVars, readerVars, posted, shown>>

(* The first post may fail and is tried again with a later text; an edit   *)
(* that fails counts as shown.                                             *)
Post ==
  /\ flusher = "posting"
  /\ flusher' = "receiving"
  /\ acc' = Silence
  /\ \/ posted' = TRUE /\ shown' = acc.text
     \/ ~posted /\ UNCHANGED <<posted, shown>>
  /\ UNCHANGED <<procVars, readerVars, channel, committed>>

Finish ==
  /\ flusher = "receiving" /\ channel = <<>> /\ reader = "over"
  /\ flusher' = "done"
  /\ shown'   = IF result.st = "ok" /\ ~Blank(result.text) THEN result.text ELSE Sorry
  /\ UNCHANGED <<procVars, readerVars, channel, acc, posted, committed>>

(* /cancel aborts the job; the task that runs the CLI goes on.             *)
Abort ==
  /\ Listening
  /\ flusher' = "gone"
  /\ channel' = <<>>
  /\ acc'     = Silence
  /\ UNCHANGED <<procVars, readerVars, posted, shown, committed>>

-----------------------------------------------------------------------------
Rest == reader = "over" /\ ~Listening /\ UNCHANGED vars

Processes ==
  \/ \E l \in Says(Flavors[attempt]) : Say(l)
  \/ Chatter \/ JamStderr \/ StartHelper
  \/ CloseOutput \/ LeaderExits \/ HelperExits

Reader ==
  \/ Spawn \/ SpawnFails \/ CeilingPasses \/ CheckCeiling \/ ReadLine
  \/ IdleTimeout \/ EndOfOutput \/ SendText \/ Unheard \/ WaitChild \/ ReadStderr
  \/ Drop

FlushLoop == PassOver \/ Render \/ Post \/ Finish \/ Abort

Next == Processes \/ Reader \/ FlushLoop \/ Rest

Spec == Init /\ [][Next]_vars

(* The runtime schedules every task and fires every timer, and Matrix      *)
(* answers. Nothing is asked of the CLI or of its helper.                  *)
Fairness ==
  /\ WF_vars(Spawn \/ SpawnFails)
  /\ WF_vars(CeilingPasses)
  /\ WF_vars(CheckCeiling) /\ WF_vars(ReadLine)
  /\ WF_vars(IdleTimeout) /\ WF_vars(EndOfOutput)
  /\ WF_vars(SendText) /\ WF_vars(Unheard)
  /\ WF_vars(WaitChild) /\ WF_vars(ReadStderr)
  /\ WF_vars(PassOver \/ Render) /\ WF_vars(Post) /\ WF_vars(Finish)

FairSpec == Spec /\ Fairness
-----------------------------------------------------------------------------
Lines     == [kind : {"other", "invalid", "text_delta", "block_start", "result",
                      "text", "error"},
              text : Seq(Chars), error : BOOLEAN]
Snapshots == [by : Nat, text : Seq(Chars)]

TypeOK ==
  /\ leader \in {"none", "busy", "quiet", "dead"} /\ helper \in BOOLEAN
  /\ holds \subseteq {"out", "err"} /\ jammed \in BOOLEAN
  /\ pipe \in Seq(Lines) /\ Len(pipe) <= PipeRoom /\ printed \in 0 .. MaxLines
  /\ strays \subseteq {"spawn", "ceiling", "read", "idle", "unheard", "exited", "dropped"}
  /\ streams \in BOOLEAN /\ attempt \in 1 .. Len(Flavors)
  /\ reader \in {"spawning", "top", "reading", "sending", "waiting", "stderr", "over"}
  /\ late \in BOOLEAN /\ full \in Seq(Chars) /\ failed \in BOOLEAN
  /\ final \in [given : BOOLEAN, text : Seq(Chars)] /\ heard \in Seq(Lines)
  /\ result \in [st : {"none", "ok", "err", "dropped"},
                 how : {"", "spawn", "ceiling", "read", "idle", "unheard", "exited",
                        "dropped"},
                 text : Seq(Chars)]
  /\ channel \in Seq(Snapshots) /\ Len(channel) <= ChanRoom
  /\ flusher \in {"receiving", "posting", "done", "panicked", "gone"}
  /\ acc \in Snapshots /\ posted \in BOOLEAN /\ shown \in Seq(Chars) \cup {Sorry}
  /\ committed \in [at : Nat, by : Nat]

(* What the lines heard say, one after the other, and a text without its   *)
(* line breaks.                                                            *)
SaidText(l) == l.kind \in {"text_delta", "text"}
Said(ls) ==
  LET said[i \in 0 .. Len(ls)] ==
        IF i = 0 THEN <<>>
        ELSE said[i - 1] \o (IF SaidText(ls[i]) THEN ls[i].text ELSE <<>>)
  IN  said

Without(t) ==
  LET words[i \in 0 .. Len(t)] ==
        IF i = 0 THEN <<>>
        ELSE words[i - 1] \o (IF t[i] = NL THEN <<>> ELSE <<t[i]>>)
  IN  words

HeardText == Said(heard)[Len(heard)]
Words(t)  == Without(t)[Len(t)]
Results   == {i \in DOMAIN heard : heard[i].kind = "result" /\ ~heard[i].error}

(* What the CLI said is the answer: the text of its last successful result *)
(* if it gave one, else every word of its output in order. A run that was  *)
(* read to its end fails only if it said neither, whatever error events    *)
(* came in between (the end of execute_in).                                *)
NoTextLost ==
  /\ result.st = "ok" =>
       IF Results # {}
         THEN result.text = heard[CHOOSE i \in Results : \A j \in Results : j <= i].text
         ELSE Words(result.text) = Words(HeardText)
  /\ result.st = "err" /\ result.how = "exited" => Results = {} /\ HeardText = <<>>

(* A part of the text rendered for good stays a whole number of paragraphs *)
(* outside code fences in every later snapshot of the same CLI: before the *)
(* offset there is a blank line and as many fences were closed as opened;  *)
(* and the loop panics only over a text of another backend than the one    *)
(* whose paragraphs it holds (committed_up_to outlives a failover).        *)
FencesBefore(t, n) ==
  Cardinality({i \in 1 .. n : t[i] = Fence /\ (i = 1 \/ t[i-1] = NL)})

CommittedIsSettled ==
  /\ flusher = "posting" /\ committed.by = acc.by =>
       \/ committed.at = 0
       \/ /\ committed.at \in 2 .. Len(acc.text)
          /\ SubSeq(acc.text, committed.at - 1, committed.at) = <<NL, NL>>
          /\ FencesBefore(acc.text, committed.at) % 2 = 0
  /\ flusher = "panicked" => committed.by < attempt

(* No process of a run survives one that was cut short by a timer, by a    *)
(* line that could not be read or by a receiver that went away: only a CLI *)
(* that exited by itself, and a plain chat that was aborted (kill_on_drop  *)
(* knows nothing of the group), leave a helper behind.                     *)
CutShortMeansGone == strays \subseteq {"exited", "dropped"}

(* Every call ends and is answered, whatever the CLI does (silent, talking *)
(* for ever, blocked on stderr) and however slowly its text is put on      *)
(* display, with two exceptions, both past the reach of the timers: a CLI  *)
(* that closed its output and lives on (child.wait), and a helper that     *)
(* keeps the stderr of a CLI that said nothing (read_stderr).              *)
CallEnds ==
  \/ <>[](reader = "over" /\ ~Listening)
  \/ <>[](reader = "waiting" /\ leader = "quiet")
  \/ <>[](reader = "stderr" /\ "err" \in holds)

=============================================================================

----------------------------- MODULE Conversation -----------------------------
(***************************************************************************)
(* What roger remembers: the history file of each room, the detached tasks *)
(* that compact it, and the two tiers of memory files they distill it      *)
(* into.                                                                   *)
(*                                                                         *)
(* Six kinds of actor interleave: the turns and jobs that append, the      *)
(* slash commands that clear and forget, the compactions the jobs spawn    *)
(* when a room has grown, the nightly sweep over all rooms, the weekly     *)
(* digest of them, and a restart of the process, which keeps the files and *)
(* nothing else.                                                           *)
(*                                                                         *)
(* Messages are numbered in the order in which they are appended. A text   *)
(* is what it accounts for: an item of a history stands for a set of       *)
(* messages (itself, or all that a summary was made from), and a memory    *)
(* file for the messages whose facts it holds. Sizes are abstracted: any   *)
(* history that is not empty may be over the trigger, any memory file over *)
(* its cap.                                                                *)
(***************************************************************************)
EXTENDS Integers, Sequences, FiniteSets

CONSTANTS
  Rooms,
  Global,        (* the key of the global memory file                      *)
  KeepRecent,    (* compaction.keep_recent_turns                           *)
  MaxMessages,   (* BOUND on the messages appended in one behaviour        *)
  MaxSpawned     (* BOUND on the size-triggered tasks not yet started      *)

ASSUME GlobalAssumption == Global \notin Rooms
ASSUME KeepAssumption   == KeepRecent \in Nat
ASSUME BoundAssumption  == MaxMessages \in Nat /\ MaxSpawned \in Nat

Messages == 1 .. MaxMessages
Files    == Rooms \cup {Global}

(* A compaction runs for a room on behalf of a finished job or of the      *)
(* nightly sweep; the sweep forces it.                                     *)
Causes == {"size", "nightly"}

VARIABLES
  (* files *)
  home,      (* the room of each message appended: message m is home[m]    *)
  history,   (* the history of each room                                   *)
  known,     (* the rooms ever written, in the order they were recorded    *)
  tldr,      (* the TLDR of each room                                      *)
  memory,    (* the memory file of each room, and the global one           *)
  digest,    (* the weekly digest of all rooms                             *)
  (* the process *)
  active,    (* the rooms reserved for compaction (ACTIVE)                 *)
  spawned,   (* size-triggered tasks not yet started, per room             *)
  task,      (* the compaction of a room for a cause                       *)
  sweep,     (* the rooms the nightly sweep has still to visit             *)
  weekly     (* the weekly loop: the TLDRs it has asked the model about    *)

files == <<home, history, known, tldr, memory, digest>>
vars  == <<files, active, spawned, task, sweep, weekly>>

Item == [summary : BOOLEAN, of : SUBSET Messages]

Chat(m)     == [summary |-> FALSE, of |-> {m}]
Summary(ms) == [summary |-> TRUE,  of |-> ms]

(* The messages a history accounts for.                                    *)
Account(h) == UNION {h[i].of : i \in DOMAIN h}

Phases == {"off", "asking", "tldr", "distil", "append", "weigh", "condense"}
Off    == [at |-> "off", old |-> {}, recent |-> <<>>, file |-> Global,
           copy |-> {}]

(* What the weekly loop has read, if the model is at it.                   *)
Quiet == [on |-> FALSE, of |-> {}]

TypeOK ==
  /\ home    \in Seq(Rooms) /\ Len(home) <= MaxMessages
  /\ history \in [Rooms -> Seq(Item)]
  /\ known   \in Seq(Rooms) /\ \A i, j \in DOMAIN known :
                                  known[i] = known[j] => i = j
  /\ tldr    \in [Rooms -> SUBSET Messages]
  /\ memory  \in [Files -> SUBSET Messages]
  /\ active  \in SUBSET Rooms
  /\ spawned \in [Rooms -> 0 .. MaxSpawned]
  /\ task    \in [Rooms \X Causes ->
                    [at : Phases, old : SUBSET Messages, recent : Seq(Item),
                     file : Files, copy : SUBSET Messages]]
  /\ sweep   \in Seq(Rooms)
  /\ digest  \in SUBSET Messages
  /\ weekly  \in [on : BOOLEAN, of : SUBSET Messages]

Init ==
  /\ home    = <<>>
  /\ history = [r \in Rooms |-> <<>>]
  /\ known   = <<>>
  /\ tldr    = [r \in Rooms |-> {}]
  /\ memory  = [f \in Files |-> {}]
  /\ active  = {}
  /\ spawned = [r \in Rooms |-> 0]
  /\ task    = [c \in Rooms \X Causes |-> Off]
  /\ sweep   = <<>>
  /\ digest  = {}
  /\ weekly  = Quiet

-----------------------------------------------------------------------------
(* Turns, jobs and commands.                                               *)

(* The sidecar gains the room unless it lists it already.                  *)
RecordRoom(r) ==
  known' = IF \E i \in DOMAIN known : known[i] = r THEN known
                                                    ELSE Append(known, r)

(* A user's message, a reply or a bare upload: record_room, then the       *)
(* read-modify-write of the file under the room's lock.                    *)
AppendMessage(r) ==
  /\ Len(home) < MaxMessages
  /\ home'    = Append(home, r)
  /\ history' = [history EXCEPT ![r] = Append(@, Chat(Len(home) + 1))]
  /\ RecordRoom(r)
  /\ UNCHANGED <<tldr, memory, digest, active, spawned, task, sweep, weekly>>

(* /clear                                                                  *)
Clear(r) ==
  /\ history[r] # <<>>
  /\ history' = [history EXCEPT ![r] = <<>>]
  /\ UNCHANGED <<home, known, tldr, memory, digest, active, spawned, task, sweep, weekly>>

(* /forget and /forget global: the file goes, whoever has the write lock.  *)
Forget(f) ==
  /\ memory[f] # {}
  /\ memory' = [memory EXCEPT ![f] = {}]
  /\ UNCHANGED <<home, history, known, tldr, digest, active, spawned, task, sweep, weekly>>

-----------------------------------------------------------------------------
(* The start of a compaction.                                              *)

(* maybe_compact, at the end of a job: the history is over the trigger.    *)
MaybeCompact(r) ==
  /\ history[r] # <<>>
  /\ spawned[r] < MaxSpawned
  /\ spawned' = [spawned EXCEPT ![r] = @ + 1]
  /\ UNCHANGED <<files, active, task, sweep, weekly>>

(* Slip: one message more than the ones to keep is taken from the tail.    *)
SplitLate(n) == IF n > KeepRecent THEN n - KeepRecent + 1 ELSE 0

(* The number of items summarised of n.                                    *)
Split(n) == IF n > KeepRecent THEN n - KeepRecent ELSE 0

(* What a compaction of history h asks the model to summarise, and what it *)
(* keeps.                                                                  *)
Asking(h) ==
  LET k == Split(Len(h)) IN
  [at |-> "asking", old |-> Account(SubSeq(h, 1, k)),
   recent |-> SubSeq(h, k + 1, Len(h)), file |-> Global, copy |-> {}]

(* Slip: the reservation is made, but nobody looks whether it was free.    *)
BeginAnyway(r, cause) ==
  /\ active' = active \cup {r}
  /\ task'   = [task EXCEPT ![<<r, cause>>] = Asking(history[r])]

(* begin and the read of the history. A room that is reserved is left      *)
(* alone, one with no more than the turns to keep is too unless forced.    *)
Begin(r, cause) ==
  IF r \in active \/ (cause = "size" /\ Len(history[r]) <= KeepRecent)
    THEN UNCHANGED <<active, task>>
    ELSE /\ active' = active \cup {r}
         /\ task'   = [task EXCEPT ![<<r, cause>>] = Asking(history[r])]

Start(r) ==
  /\ spawned[r] > 0 /\ task[<<r, "size">>].at = "off"
  /\ spawned' = [spawned EXCEPT ![r] = @ - 1]
  /\ Begin(r, "size")
  /\ UNCHANGED <<files, sweep, weekly>>

SweepIdle == \A r \in Rooms : task[<<r, "nightly">>].at = "off"

(* The nightly hour strikes: the rooms are listed once, at the start.      *)
Nightfall ==
  /\ SweepIdle /\ sweep = <<>> /\ known # <<>>
  /\ sweep' = known
  /\ UNCHANGED <<files, active, spawned, task, weekly>>

(* The sweep compacts one room after the other.                            *)
Visit ==
  /\ SweepIdle /\ sweep # <<>>
  /\ Begin(Head(sweep), "nightly")
  /\ sweep' = Tail(sweep)
  /\ UNCHANGED <<files, spawned, weekly>>

-----------------------------------------------------------------------------
(* The compaction of room r: run.                                          *)

(* Slip: the reservation is given back on success only.                    *)
EndUnreserved(r, cause) ==
  /\ task' = [task EXCEPT ![<<r, cause>>] = Off]
  /\ active' = IF task[<<r, cause>>].at = "asking" THEN active ELSE active \ {r}

(* run returns, and end gives the room back.                               *)
End(r, cause) ==
  /\ task'   = [task EXCEPT ![<<r, cause>>] = Off]
  /\ active' = active \ {r}

(* The model fails, or gives no summary, or the file cannot be written:    *)
(* the history stays as it is.                                             *)
GiveUp(r, cause) ==
  /\ task[<<r, cause>>].at = "asking"
  /\ End(r, cause)
  /\ UNCHANGED <<files, spawned, sweep, weekly>>

(* Slip: the turns that were kept are not written back.                    *)
RewriteForgetful(r, cause) ==
  LET c == task[<<r, cause>>] IN
  /\ c.at = "asking"
  /\ history' = [history EXCEPT ![r] = <<Summary(c.old)>>]
  /\ task'    = [task EXCEPT ![<<r, cause>>].at     = "tldr",
                             ![<<r, cause>>].recent = <<>>]
  /\ UNCHANGED <<home, known, tldr, memory, digest, active, spawned, sweep, weekly>>

(* Slip: the summary goes to the end.                                      *)
RewriteAtEnd(r, cause) ==
  LET c == task[<<r, cause>>] IN
  /\ c.at = "asking"
  /\ history' = [history EXCEPT ![r] = c.recent \o <<Summary(c.old)>>]
  /\ task'    = [task EXCEPT ![<<r, cause>>].at     = "tldr",
                             ![<<r, cause>>].recent = <<>>]
  /\ UNCHANGED <<home, known, tldr, memory, digest, active, spawned, sweep, weekly>>

(* The model has answered: the file becomes the summary and the recent     *)
(* turns, as they were when the history was read.                          *)
Rewrite(r, cause) ==
  LET c == task[<<r, cause>>] IN
  /\ c.at = "asking"
  /\ history' = [history EXCEPT ![r] = <<Summary(c.old)>> \o c.recent]
  /\ task'    = [task EXCEPT ![<<r, cause>>].at     = "tldr",
                             ![<<r, cause>>].recent = <<>>]
  /\ UNCHANGED <<home, known, tldr, memory, digest, active, spawned, sweep, weekly>>

(* Nobody is between the read and the write of a memory file: whoever is   *)
(* holds the store's write lock.                                           *)
Unlocked == \A c \in Rooms \X Causes : task[c].at # "append"

(* A TLDR with content replaces the old one (condensed first if too long); *)
(* an empty one, or one that cannot be written, leaves it.                 *)
WriteTldr(r, cause, content) ==
  LET c == task[<<r, cause>>] IN
  /\ c.at = "tldr" /\ (content => Unlocked)
  /\ tldr' = IF content THEN [tldr EXCEPT ![r] = c.old] ELSE tldr
  /\ task' = [task EXCEPT ![<<r, cause>>].at   = "distil",
                          ![<<r, cause>>].file = r]
  /\ UNCHANGED <<home, history, known, memory, digest, active, spawned, sweep, weekly>>

(* From the room's memory to the global one, from there to the end.        *)
NextFile(r, cause) ==
  IF task[<<r, cause>>].file = Global
    THEN End(r, cause)
    ELSE /\ task' = [task EXCEPT ![<<r, cause>>].at   = "distil",
                                 ![<<r, cause>>].file = Global,
                                 ![<<r, cause>>].copy = {}]
         /\ UNCHANGED active

(* Nothing to remember in this file.                                       *)
NoFacts(r, cause) ==
  /\ task[<<r, cause>>].at = "distil"
  /\ NextFile(r, cause)
  /\ UNCHANGED <<files, spawned, sweep, weekly>>

(* There are new facts: the write lock is taken and the file read.         *)
ReadFacts(r, cause) ==
  LET c == task[<<r, cause>>] IN
  /\ c.at = "distil" /\ Unlocked
  /\ task' = [task EXCEPT ![<<r, cause>>].at   = "append",
                          ![<<r, cause>>].copy = memory[c.file]]
  /\ UNCHANGED <<files, active, spawned, sweep, weekly>>

(* The file becomes what was read and the new facts.                       *)
Distil(r, cause) ==
  LET c == task[<<r, cause>>] IN
  /\ c.at = "append"
  /\ memory' = [memory EXCEPT ![c.file] = c.copy \cup c.old]
  /\ task'   = [task EXCEPT ![<<r, cause>>].at = "weigh"]
  /\ UNCHANGED <<home, history, known, tldr, digest, active, spawned, sweep, weekly>>

(* The file cannot be written: run returns the error.                      *)
DistilFails(r, cause) ==
  /\ task[<<r, cause>>].at = "append"
  /\ End(r, cause)
  /\ UNCHANGED <<files, spawned, sweep, weekly>>

(* The file is within its cap.                                             *)
Fits(r, cause) ==
  /\ task[<<r, cause>>].at = "weigh"
  /\ NextFile(r, cause)
  /\ UNCHANGED <<files, spawned, sweep, weekly>>

(* The file is over its cap: it is read, and the model asked to condense.  *)
Overflows(r, cause) ==
  LET c == task[<<r, cause>>] IN
  /\ c.at = "weigh" /\ memory[c.file] # {}
  /\ task' = [task EXCEPT ![<<r, cause>>].at   = "condense",
                          ![<<r, cause>>].copy = memory[c.file]]
  /\ UNCHANGED <<files, active, spawned, sweep, weekly>>

(* The condensed text replaces the file; if the model fails it stays.      *)
Condense(r, cause, ok) ==
  LET c == task[<<r, cause>>] IN
  /\ c.at = "condense" /\ (ok => Unlocked)
  /\ memory' = IF ok THEN [memory EXCEPT ![c.file] = c.copy] ELSE memory
  /\ NextFile(r, cause)
  /\ UNCHANGED <<home, history, known, tldr, digest, spawned, sweep, weekly>>

-----------------------------------------------------------------------------
(* The weekly digest: run_weekly_digest, when the hour strikes.            *)

Told == UNION {tldr[r] : r \in Rooms}

(* The TLDRs of all rooms are read, and the model asked.                   *)
AskDigest ==
  /\ ~weekly.on /\ Told # {}
  /\ weekly' = [on |-> TRUE, of |-> Told]
  /\ UNCHANGED <<files, active, spawned, task, sweep>>

(* A failure or an empty answer leaves the old digest.                     *)
WriteDigest(ok) ==
  /\ weekly.on /\ (ok => Unlocked)
  /\ digest' = IF ok THEN weekly.of ELSE digest
  /\ weekly' = Quiet
  /\ UNCHANGED <<home, history, known, tldr, memory, active, spawned, task, sweep>>

-----------------------------------------------------------------------------
(* The process stops, anywhere, and starts again.                          *)
Restart ==
  /\ active  # {} \/ sweep # <<>> \/ weekly.on \/ \E r \in Rooms : spawned[r] > 0
  /\ active' = {}
  /\ spawned' = [r \in Rooms |-> 0]
  /\ task'    = [c \in Rooms \X Causes |-> Off]
  /\ sweep'   = <<>>
  /\ weekly'  = Quiet
  /\ UNCHANGED files

-----------------------------------------------------------------------------
CompactionStep(r, cause) ==
  \/ GiveUp(r, cause) \/ Rewrite(r, cause) \/ NoFacts(r, cause)
  \/ ReadFacts(r, cause) \/ Distil(r, cause) \/ DistilFails(r, cause)
  \/ Fits(r, cause) \/ Overflows(r, cause)
  \/ \E b \in BOOLEAN : WriteTldr(r, cause, b) \/ Condense(r, cause, b)

Next ==
  \/ \E r \in Rooms : AppendMessage(r) \/ Clear(r) \/ MaybeCompact(r) \/ Start(r)
  \/ \E f \in Files : Forget(f)
  \/ \E r \in Rooms, cause \in Causes : CompactionStep(r, cause)
  \/ Nightfall \/ Visit \/ AskDigest \/ Restart
  \/ \E b \in BOOLEAN : WriteDigest(b)

Spec == Init /\ [][Next]_vars

-----------------------------------------------------------------------------
(* Properties.                                                             *)

On(r, cause) == task[<<r, cause>>].at # "off"

(* A room is compacted by one task at a time, and is reserved exactly      *)
(* while one is at it: no way out of a compaction keeps the reservation.   *)
ReservedExactly ==
  \A r \in Rooms :
    /\ r \in active <=> \E cause \in Causes : On(r, cause)
    /\ ~(On(r, "size") /\ On(r, "nightly"))

(* A history holds messages of its own room, in their order and none       *)
(* twice, whatever was cleared or overtaken while a compaction waited.     *)
InOrder ==
  \A r \in Rooms :
    /\ \A m \in Account(history[r]) : home[m] = r
    /\ \A i, j \in DOMAIN history[r] :
         i < j => \A m \in history[r][i].of, n \in history[r][j].of : m < n

(* The latest turns stay verbatim: a message that has gone into a summary  *)
(* is followed by at least KeepRecent messages of its room.                *)
SummarisedIsOld ==
  \A r \in Rooms : \A i \in DOMAIN history[r] :
    history[r][i].summary =>
      \A m \in history[r][i].of :
        Cardinality({n \in DOMAIN home : n > m /\ home[n] = r}) >= KeepRecent

(* Short of /clear, a message leaves the history only if it came after the *)
(* compaction that rewrites it had read the file.                          *)
OnlyLateMessagesLost ==
  [][\A r \in Rooms :
       LET lost == Account(history[r]) \ Account(history'[r]) IN
       \/ lost = {} \/ history'[r] = <<>>
       \/ \E cause \in Causes :
            LET c == task[<<r, cause>>] IN
            /\ c.at = "asking"
            /\ \A m \in lost, n \in c.old \cup Account(c.recent) : m > n]_vars

(* The TLDR of a room never goes back to an earlier point of the           *)
(* conversation (a forced compaction of a short history has none to make), *)
(* and what the weekly digest tells of a room does not either.             *)
TldrAdvances ==
  [][/\ \A r \in Rooms : tldr'[r] # {} =>
          \A m \in tldr[r] : \E n \in tldr'[r] : m <= n
     /\ \A m \in digest :
          LET now == {n \in digest' : home[n] = home[m]} IN
          now # {} => \E n \in now : m <= n]_vars

(* What a room's memory holds stays in it until /forget: a compaction that *)
(* writes back what it read before it waited overwrites nobody's facts.    *)
(* (Not so the global memory, which the compactions of all rooms share.)   *)
RoomFactsKept ==
  [][\A r \in Rooms : memory[r] \subseteq memory'[r] \/ Forget(r)]_vars
=============================================================================

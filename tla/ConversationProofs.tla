-------------------------- MODULE ConversationProofs --------------------------
(***************************************************************************)
(* Proofs about Conversation, for all rooms, numbers of messages and turns *)
(* to keep, and about Scheduler, which says when the loops begin the work  *)
(* that Conversation follows: for all settings, whatever the unit of time  *)
(* and however far the wall clock is set.                                  *)
(*                                                                         *)
(* Of Conversation's properties only ReservedExactly is inductive. The     *)
(* others speak of a history that a compaction replaces by what it has     *)
(* read before it waited, so they have to be stated of what it plans to    *)
(* write, too (PlansGood, TasksSound). Two facts carry most of the weight. *)
(* Only summaries at the head account for nothing (Full): that each turn   *)
(* which stays has a message of its own is what makes the summarised ones  *)
(* old. And what a history has beyond what a waiting compaction has read   *)
(* came later (OthersLater), because a room has one compaction at a time.  *)
(***************************************************************************)
EXTENDS Conversation, Scheduler, FiniteSetTheorems, TLAPS

(* What a compaction knows.                                                *)
Tasks == [at : Phases, old : SUBSET Messages, recent : Seq(Item),
          file : Files, copy : SUBSET Messages]

-----------------------------------------------------------------------------
(* What a step does to histories, TLDRs, digest and compactions. Most      *)
(* steps are of one of a few kinds.                                        *)

content == <<home, history, tldr, digest, weekly>>

(* The compaction of a room for a cause becomes t.                         *)
Becomes(r, cause, t) == task' = [task EXCEPT ![<<r, cause>>] = t]

(* A compaction begins in a room that is not reserved.                     *)
Reserves(r, cause) ==
  /\ r \notin active /\ active' = active \cup {r}
  /\ Becomes(r, cause, Asking(history[r]))
  /\ UNCHANGED content

(* It goes on with the memory files, or is over.                           *)
GoesOn(r, cause) ==
  /\ task[<<r, cause>>].at # "off"
  /\ \E t \in Tasks :
       /\ Becomes(r, cause, t) /\ t.at \in {"distil", "append", "weigh", "condense"}
  /\ UNCHANGED active /\ UNCHANGED content

Returns(r, cause) ==
  /\ task[<<r, cause>>].at # "off"
  /\ Becomes(r, cause, Off) /\ active' = active \ {r}
  /\ UNCHANGED content

(* Nothing of all this changes.                                            *)
Elsewhere == UNCHANGED <<content, task, active>>

-----------------------------------------------------------------------------
(* Sequences.                                                              *)

(* A part of a history is one.                                             *)
LEMMA PartOfHistory ==
  ASSUME NEW h \in Seq(Item), NEW a \in 1 .. Len(h) + 1, NEW b \in 0 .. Len(h)
  PROVE  /\ SubSeq(h, a, b) \in Seq(Item)
         /\ Len(SubSeq(h, a, b)) = IF a <= b THEN b - a + 1 ELSE 0
         /\ \A i \in 1 .. b - a + 1 : SubSeq(h, a, b)[i] = h[a + i - 1]
         /\ DOMAIN SubSeq(h, a, b) = 1 .. b - a + 1
  OBVIOUS

(* The split of a history.                                                 *)
LEMMA SplitRange ==
  ASSUME NEW n \in Nat
  PROVE  /\ Split(n) \in 0 .. n
         /\ Split(n) # 0 => n - Split(n) = KeepRecent
  BY KeepAssumption DEF Split

LEMMA AccountType ==
  ASSUME NEW h \in Seq(Item)
  PROVE  Account(h) \in SUBSET Messages
<1>1. \A i \in DOMAIN h : h[i] \in Item
  OBVIOUS
<1>2. \A i \in DOMAIN h : h[i].of \in SUBSET Messages
  BY <1>1 DEF Item
<1> QED
  BY <1>2 DEF Account

LEMMA AskingType ==
  ASSUME NEW h \in Seq(Item)
  PROVE  Asking(h) \in Tasks
<1> DEFINE k == Split(Len(h))
<1>1. Len(h) \in Nat /\ k \in 0 .. Len(h)
  BY SplitRange
<1> HIDE DEF k
<1>2. SubSeq(h, 1, k) \in Seq(Item) /\ SubSeq(h, k + 1, Len(h)) \in Seq(Item)
  BY <1>1, PartOfHistory
<1>3. Account(SubSeq(h, 1, k)) \in SUBSET Messages
  BY <1>2, AccountType
<1>4. Asking(h) = [at |-> "asking", old |-> Account(SubSeq(h, 1, k)),
                   recent |-> SubSeq(h, k + 1, Len(h)), file |-> Global,
                   copy |-> {}]
  BY DEF Asking, k
<1> QED
  BY <1>2, <1>3, <1>4 DEF Tasks, Phases, Files

LEMMA OffType == Off \in Tasks
<1>1. <<>> \in Seq(Item)
  OBVIOUS
<1> QED
  BY <1>1 DEF Off, Tasks, Phases, Files

-----------------------------------------------------------------------------
(* The steps of a compaction are of these kinds.                           *)

TaskTable == [Rooms \X Causes -> Tasks]

(* A compaction at another place.                                          *)
LEMMA AtType ==
  ASSUME NEW f \in TaskTable, NEW x \in Rooms \X Causes, NEW a \in Phases
  PROVE  LET t == [f[x] EXCEPT !.at = a] IN
         /\ t \in Tasks
         /\ [f EXCEPT ![x].at = a] = [f EXCEPT ![x] = t]
  BY DEF TaskTable, Tasks

(* One that keeps other turns.                                             *)
LEMMA RecentType ==
  ASSUME NEW f \in TaskTable, NEW x \in Rooms \X Causes, NEW a \in Phases,
         NEW s \in Seq(Item)
  PROVE  LET t == [f[x] EXCEPT !.at = a, !.recent = s] IN
         /\ t \in Tasks
         /\ [f EXCEPT ![x].at = a, ![x].recent = s] = [f EXCEPT ![x] = t]
  BY DEF TaskTable, Tasks

(* One that is at another file.                                            *)
LEMMA FileType ==
  ASSUME NEW f \in TaskTable, NEW x \in Rooms \X Causes, NEW a \in Phases,
         NEW s \in Files
  PROVE  LET t == [f[x] EXCEPT !.at = a, !.file = s] IN
         /\ t \in Tasks
         /\ [f EXCEPT ![x].at = a, ![x].file = s] = [f EXCEPT ![x] = t]
  BY DEF TaskTable, Tasks

(* What the first two steps of run make of a compaction.                   *)
LEMMA RewriteTask ==
  ASSUME TypeOK, NEW r \in Rooms, NEW cause \in Causes, Rewrite(r, cause)
  PROVE  LET t == [task[<<r, cause>>] EXCEPT !.at = "tldr", !.recent = <<>>] IN
         t \in Tasks /\ Becomes(r, cause, t)
<1>1. /\ task \in TaskTable /\ <<r, cause>> \in Rooms \X Causes
      /\ "tldr" \in Phases /\ <<>> \in Seq(Item)
  BY DEF TypeOK, TaskTable, Tasks, Phases
<1> DEFINE x == <<r, cause>>
           t == [task[x] EXCEPT !.at = "tldr", !.recent = <<>>]
<1>2. /\ t \in Tasks
      /\ [task EXCEPT ![x].at = "tldr", ![x].recent = <<>>] = [task EXCEPT ![x] = t]
  BY <1>1, RecentType DEF TaskTable
<1> QED
  BY <1>2 DEF Rewrite, Becomes

LEMMA TldrTask ==
  ASSUME TypeOK, NEW r \in Rooms, NEW cause \in Causes, NEW b \in BOOLEAN,
         WriteTldr(r, cause, b)
  PROVE  LET t == [task[<<r, cause>>] EXCEPT !.at = "distil", !.file = r] IN
         t \in Tasks /\ Becomes(r, cause, t)
<1>1. /\ task \in TaskTable /\ <<r, cause>> \in Rooms \X Causes
      /\ "distil" \in Phases /\ r \in Files
  BY DEF TypeOK, TaskTable, Tasks, Phases, Files
<1> DEFINE x == <<r, cause>>
           t == [task[x] EXCEPT !.at = "distil", !.file = r]
<1>2. /\ t \in Tasks
      /\ [task EXCEPT ![x].at = "distil", ![x].file = r] = [task EXCEPT ![x] = t]
  BY <1>1, FileType DEF TaskTable
<1> QED
  BY <1>2 DEF WriteTldr, Becomes

LEMMA CompactionKinds ==
  ASSUME TypeOK, NEW r \in Rooms, NEW cause \in Causes, CompactionStep(r, cause)
  PROVE  \/ Returns(r, cause) \/ GoesOn(r, cause)
         \/ Rewrite(r, cause) \/ \E b \in BOOLEAN : WriteTldr(r, cause, b)
<1> DEFINE x == <<r, cause>>
           c == task[x]
<1>1. x \in Rooms \X Causes /\ task \in TaskTable /\ c \in Tasks
  BY DEF TypeOK, TaskTable, Tasks
<1>2. ASSUME c.at # "off", NextFile(r, cause), UNCHANGED content
      PROVE  Returns(r, cause) \/ GoesOn(r, cause)
  <2>1. CASE c.file = Global
    BY <1>2, <2>1 DEF NextFile, End, Returns, Becomes
  <2>2. CASE c.file # Global
    <3> DEFINE t == [c EXCEPT !.at = "distil", !.file = Global, !.copy = {}]
    <3>1. t \in Tasks /\ t.at = "distil"
      BY <1>1 DEF Tasks, Phases, Files
    <3>2. [task EXCEPT ![x].at = "distil", ![x].file = Global, ![x].copy = {}]
            = [task EXCEPT ![x] = t]
      BY <1>1 DEF TaskTable, Tasks
    <3> QED
      BY <1>2, <2>2, <3>1, <3>2 DEF NextFile, GoesOn, Becomes
  <2> QED
    BY <2>1, <2>2
<1>3. CASE GiveUp(r, cause) \/ DistilFails(r, cause)
  BY <1>3 DEF GiveUp, DistilFails, End, Returns, Becomes, files, content
<1>4. CASE NoFacts(r, cause) \/ Fits(r, cause) \/ \E b \in BOOLEAN : Condense(r, cause, b)
  <2>1. c.at # "off" /\ NextFile(r, cause) /\ UNCHANGED content
    BY <1>4 DEF NoFacts, Fits, Condense, files, content
  <2> QED
    BY <1>2, <2>1
<1>5. CASE Distil(r, cause)
  <2> DEFINE t == [c EXCEPT !.at = "weigh"]
  <2>1. /\ t \in Tasks /\ t.at = "weigh"
        /\ [task EXCEPT ![x].at = "weigh"] = [task EXCEPT ![x] = t]
    <3>1. "weigh" \in Phases
      BY DEF Phases
    <3>2. t.at = "weigh"
      BY <1>1 DEF Tasks
    <3> QED
      BY <1>1, <3>1, <3>2, AtType
  <2> QED
    BY <1>5, <2>1 DEF Distil, GoesOn, Becomes, content
<1>6. CASE ReadFacts(r, cause) \/ Overflows(r, cause)
  <2>1. PICK a \in {"append", "condense"} :
          /\ task' = [task EXCEPT ![x].at = a, ![x].copy = memory[c.file]]
          /\ c.at # "off" /\ UNCHANGED <<files, active, weekly>>
    BY <1>6 DEF ReadFacts, Overflows
  <2> DEFINE t == [c EXCEPT !.at = a, !.copy = memory[c.file]]
  <2>2. memory[c.file] \in SUBSET Messages
    BY <1>1 DEF TypeOK, Tasks
  <2>3. t \in Tasks /\ t.at = a
    BY <1>1, <2>2 DEF Tasks, Phases
  <2>4. [task EXCEPT ![x].at = a, ![x].copy = memory[c.file]] = [task EXCEPT ![x] = t]
    BY <1>1 DEF TaskTable, Tasks
  <2> QED
    BY <2>1, <2>3, <2>4 DEF GoesOn, Becomes, files, content
<1> QED
  BY <1>3, <1>4, <1>5, <1>6 DEF CompactionStep

LEMMA BeginKinds ==
  ASSUME NEW r \in Rooms, NEW cause \in Causes, Begin(r, cause), UNCHANGED content
  PROVE  Elsewhere \/ Reserves(r, cause)
  BY DEF Begin, Elsewhere, Reserves, Becomes

LEMMA Kinds ==
  ASSUME TypeOK, [Next]_vars
  PROVE  \/ Elsewhere \/ AskDigest \/ Restart
         \/ \E b \in BOOLEAN : WriteDigest(b)
         \/ \E r \in Rooms : AppendMessage(r) \/ Clear(r)
         \/ \E r \in Rooms, cause \in Causes :
              \/ Reserves(r, cause) \/ Returns(r, cause) \/ GoesOn(r, cause)
              \/ Rewrite(r, cause) \/ \E b \in BOOLEAN : WriteTldr(r, cause, b)
<1>1. CASE UNCHANGED vars
  BY <1>1 DEF vars, files, Elsewhere, content
<1>2. CASE \/ \E r \in Rooms : MaybeCompact(r)
           \/ \E f \in Files : Forget(f)
           \/ Nightfall
  BY <1>2 DEF MaybeCompact, Forget, Nightfall, files, Elsewhere, content
<1>3. CASE \E r \in Rooms : Start(r)
  <2>1. PICK r \in Rooms : Begin(r, "size") /\ UNCHANGED content
    BY <1>3 DEF Start, files, content
  <2>2. "size" \in Causes
    BY DEF Causes
  <2> QED
    BY <2>1, <2>2, BeginKinds
<1>4. CASE Visit
  <2>1. Head(sweep) \in Rooms /\ "nightly" \in Causes
    BY <1>4 DEF Visit, TypeOK, Causes
  <2>2. Begin(Head(sweep), "nightly") /\ UNCHANGED content
    BY <1>4 DEF Visit, files, content
  <2> QED
    BY <2>1, <2>2, BeginKinds
<1>5. CASE \E r \in Rooms, cause \in Causes : CompactionStep(r, cause)
  BY <1>5, CompactionKinds
<1> QED
  BY <1>1, <1>2, <1>3, <1>4, <1>5 DEF Next

-----------------------------------------------------------------------------
(* Types.                                                                  *)

LEMMA MessageType ==
  ASSUME TypeOK, Len(home) < MaxMessages
  PROVE  Len(home) + 1 \in Messages
  BY BoundAssumption DEF TypeOK, Messages

(* The compactions keep their types.                                       *)
LEMMA TasksType ==
  ASSUME TypeOK, [Next]_vars
  PROVE  task' \in TaskTable /\ active' \in SUBSET Rooms
<1> USE DEF TaskTable
<1>1. task \in TaskTable /\ active \in SUBSET Rooms
  BY DEF TypeOK, Tasks
<1>2. ASSUME NEW r \in Rooms, NEW cause \in Causes, NEW t \in Tasks, Becomes(r, cause, t)
      PROVE  task' \in TaskTable
  BY <1>1, <1>2 DEF Becomes
<1>3. CASE Elsewhere \/ AskDigest \/ \E b \in BOOLEAN : WriteDigest(b)
  BY <1>1, <1>3 DEF Elsewhere, AskDigest, WriteDigest
<1>4. CASE Restart
  BY <1>4, OffType DEF Restart
<1>5. CASE \E r \in Rooms : AppendMessage(r) \/ Clear(r)
  BY <1>1, <1>5 DEF AppendMessage, Clear
<1>6. ASSUME NEW r \in Rooms, NEW cause \in Causes,
             Reserves(r, cause) \/ Returns(r, cause) \/ GoesOn(r, cause)
      PROVE  task' \in TaskTable /\ active' \in SUBSET Rooms
  <2>1. history[r] \in Seq(Item)
    BY DEF TypeOK
  <2>2. Asking(history[r]) \in Tasks
    BY <2>1, AskingType
  <2> QED
    BY <1>1, <1>2, <1>6, <2>2, OffType DEF Reserves, Returns, GoesOn
<1>7. ASSUME NEW r \in Rooms, NEW cause \in Causes,
             Rewrite(r, cause) \/ \E b \in BOOLEAN : WriteTldr(r, cause, b)
      PROVE  task' \in TaskTable /\ active' \in SUBSET Rooms
  <2>1. \E t \in Tasks : Becomes(r, cause, t)
    BY <1>7, RewriteTask, TldrTask
  <2> QED
    BY <1>1, <1>2, <1>7, <2>1 DEF Rewrite, WriteTldr
<1> QED
  BY <1>3, <1>4, <1>5, <1>6, <1>7, Kinds

(* What histories and texts account for keeps its type.                    *)
LEMMA ContentType ==
  ASSUME TypeOK, [Next]_vars
  PROVE  /\ home' \in Seq(Rooms) /\ Len(home') <= MaxMessages
         /\ history' \in [Rooms -> Seq(Item)]
         /\ tldr' \in [Rooms -> SUBSET Messages]
         /\ digest' \in SUBSET Messages
         /\ weekly' \in [on : BOOLEAN, of : SUBSET Messages]
<1>1. /\ home \in Seq(Rooms) /\ Len(home) <= MaxMessages
      /\ history \in [Rooms -> Seq(Item)] /\ tldr \in [Rooms -> SUBSET Messages]
      /\ digest \in SUBSET Messages
      /\ weekly \in [on : BOOLEAN, of : SUBSET Messages]
      /\ task \in [Rooms \X Causes -> Tasks]
  BY DEF TypeOK, Tasks
<1>2. Quiet \in [on : BOOLEAN, of : SUBSET Messages]
  BY DEF Quiet
<1>3. CASE \/ Elsewhere
           \/ \E r \in Rooms, cause \in Causes :
                Reserves(r, cause) \/ Returns(r, cause) \/ GoesOn(r, cause)
  BY <1>1, <1>3 DEF Elsewhere, Reserves, Returns, GoesOn, content
<1>4. CASE AskDigest
  <2>1. Told \in SUBSET Messages
    BY <1>1 DEF Told
  <2> QED
    BY <1>1, <1>4, <2>1 DEF AskDigest, files
<1>5. CASE Restart \/ \E b \in BOOLEAN : WriteDigest(b)
  BY <1>1, <1>2, <1>5 DEF Restart, WriteDigest, files
<1>6. ASSUME NEW r \in Rooms, AppendMessage(r)
      PROVE  /\ home' \in Seq(Rooms) /\ Len(home') <= MaxMessages
             /\ history' \in [Rooms -> Seq(Item)]
  <2>1. Chat(Len(home) + 1) \in Item
    BY <1>6, MessageType DEF AppendMessage, Chat, Item
  <2>2. Append(history[r], Chat(Len(home) + 1)) \in Seq(Item)
    BY <1>1, <2>1
  <2>3. history' \in [Rooms -> Seq(Item)]
    BY <1>1, <1>6, <2>2 DEF AppendMessage
  <2> QED
    BY <1>1, <1>6, <2>3, BoundAssumption DEF AppendMessage
<1>7. ASSUME NEW r \in Rooms, Clear(r)
      PROVE  history' \in [Rooms -> Seq(Item)]
  BY <1>1, <1>7 DEF Clear
<1>8. ASSUME NEW r \in Rooms, NEW cause \in Causes, Rewrite(r, cause)
      PROVE  history' \in [Rooms -> Seq(Item)]
  <2> DEFINE c == task[<<r, cause>>]
  <2>1. c \in Tasks
    BY <1>1
  <2>2. Summary(c.old) \in Item /\ c.recent \in Seq(Item)
    BY <2>1 DEF Tasks, Summary, Item
  <2> HIDE DEF c
  <2>3. <<Summary(c.old)>> \o c.recent \in Seq(Item)
    BY <2>2
  <2> QED
    BY <1>1, <1>8, <2>3 DEF Rewrite, c
<1>9. ASSUME NEW r \in Rooms, NEW cause \in Causes, NEW b \in BOOLEAN,
             WriteTldr(r, cause, b)
      PROVE  tldr' \in [Rooms -> SUBSET Messages]
  BY <1>1, <1>9 DEF WriteTldr, Tasks
<1>10. CASE \E r \in Rooms : AppendMessage(r) \/ Clear(r)
  BY <1>1, <1>6, <1>7, <1>10 DEF AppendMessage, Clear
<1>11. CASE \E r \in Rooms, cause \in Causes :
              Rewrite(r, cause) \/ \E b \in BOOLEAN : WriteTldr(r, cause, b)
  <2>1. PICK r \in Rooms, cause \in Causes :
              Rewrite(r, cause) \/ \E b \in BOOLEAN : WriteTldr(r, cause, b)
    BY <1>11
  <2>2. CASE Rewrite(r, cause)
    BY <1>1, <1>8, <2>2 DEF Rewrite
  <2>3. CASE \E b \in BOOLEAN : WriteTldr(r, cause, b)
    BY <1>1, <1>9, <2>3 DEF WriteTldr
  <2> QED
    BY <2>1, <2>2, <2>3
<1> QED
  BY <1>3, <1>4, <1>5, <1>10, <1>11, Kinds

(* The sidecar, memory files, queue of tasks and sweep keep theirs.        *)
LEMMA OtherType ==
  ASSUME TypeOK, [Next]_vars
  PROVE  /\ known' \in Seq(Rooms)
         /\ \A i, j \in DOMAIN known' : known'[i] = known'[j] => i = j
         /\ memory' \in [Files -> SUBSET Messages]
         /\ spawned' \in [Rooms -> 0 .. MaxSpawned]
         /\ sweep' \in Seq(Rooms)
<1> DEFINE Goal == /\ known' \in Seq(Rooms)
                   /\ \A i, j \in DOMAIN known' : known'[i] = known'[j] => i = j
                   /\ memory' \in [Files -> SUBSET Messages]
                   /\ spawned' \in [Rooms -> 0 .. MaxSpawned]
                   /\ sweep' \in Seq(Rooms)
<1>1. /\ known \in Seq(Rooms) /\ sweep \in Seq(Rooms)
      /\ \A i, j \in DOMAIN known : known[i] = known[j] => i = j
      /\ memory \in [Files -> SUBSET Messages]
      /\ spawned \in [Rooms -> 0 .. MaxSpawned]
      /\ task \in [Rooms \X Causes -> Tasks] /\ MaxSpawned \in Nat
  BY BoundAssumption DEF TypeOK, Tasks
<1>2. ASSUME NEW r \in Rooms, AppendMessage(r)
      PROVE  Goal
  BY <1>1, <1>2 DEF AppendMessage, RecordRoom
<1>3. ASSUME NEW r \in Rooms, Clear(r) \/ MaybeCompact(r) \/ Start(r)
      PROVE  Goal
  <2>1. CASE Clear(r)
    BY <1>1, <2>1 DEF Clear
  <2>2. CASE MaybeCompact(r)
    <3>1. spawned' \in [Rooms -> 0 .. MaxSpawned]
      BY <1>1, <2>2 DEF MaybeCompact
    <3> QED
      BY <1>1, <2>2, <3>1 DEF MaybeCompact, files
  <2>3. CASE Start(r)
    <3>1. spawned' \in [Rooms -> 0 .. MaxSpawned]
      BY <1>1, <2>3 DEF Start
    <3> QED
      BY <1>1, <2>3, <3>1 DEF Start, files
  <2> QED
    BY <1>3, <2>1, <2>2, <2>3
<1>4. ASSUME NEW r \in Rooms, NEW cause \in Causes, CompactionStep(r, cause)
      PROVE  Goal
  <2>1. /\ task[<<r, cause>>].old \in SUBSET Messages
        /\ task[<<r, cause>>].copy \in SUBSET Messages
        /\ task[<<r, cause>>].file \in Files
    BY <1>1 DEF Tasks
  <2>2. ASSUME NEW b \in BOOLEAN, WriteTldr(r, cause, b)
        PROVE  Goal
    BY <1>1, <2>1, <2>2 DEF WriteTldr
  <2>3. CASE Distil(r, cause)
    BY <1>1, <2>1, <2>3 DEF Distil
  <2>4. ASSUME NEW b \in BOOLEAN, Condense(r, cause, b)
        PROVE  Goal
    BY <1>1, <2>1, <2>4 DEF Condense
  <2>5. CASE GiveUp(r, cause) \/ Rewrite(r, cause) \/ NoFacts(r, cause) \/ DistilFails(r, cause)
             \/ ReadFacts(r, cause) \/ Fits(r, cause) \/ Overflows(r, cause)
    BY <1>1, <2>1, <2>5
       DEF GiveUp, Rewrite, NoFacts, ReadFacts, DistilFails, Fits, Overflows, files
  <2> QED
    BY <1>4, <2>2, <2>3, <2>4, <2>5 DEF CompactionStep
<1>5. CASE AskDigest \/ UNCHANGED vars \/ \E b \in BOOLEAN : WriteDigest(b)
  BY <1>1, <1>5 DEF AskDigest, WriteDigest, files, vars
<1>6. ASSUME NEW f \in Files, Forget(f)
      PROVE  Goal
  BY <1>1, <1>6 DEF Forget
<1>7. CASE Nightfall
  BY <1>1, <1>7 DEF Nightfall, files
<1>8. CASE Visit
  <2>1. sweep' \in Seq(Rooms)
    BY <1>1, <1>8 DEF Visit
  <2> QED
    BY <1>1, <1>8, <2>1 DEF Visit, files
<1>9. CASE Restart
  BY <1>1, <1>9 DEF Restart, files
<1> QED
  BY <1>2, <1>3, <1>4, <1>5, <1>6, <1>7, <1>8, <1>9 DEF Next

LEMMA TypeStep ==
  ASSUME TypeOK, [Next]_vars
  PROVE  TypeOK'
  BY TasksType, ContentType, OtherType DEF TypeOK, TaskTable, Tasks

LEMMA TypeInit == Init => TypeOK
<1> SUFFICES ASSUME Init PROVE TypeOK
  OBVIOUS
<1>1. task \in [Rooms \X Causes -> Tasks]
  BY OffType DEF Init
<1> QED
  BY <1>1, BoundAssumption DEF Init, TypeOK, Tasks, Quiet

(* Whoever was at work no longer asks.                                     *)
LEMMA Proceeds ==
  ASSUME TypeOK, NEW r \in Rooms, NEW cause \in Causes,
         \/ Returns(r, cause) \/ GoesOn(r, cause) \/ Rewrite(r, cause)
         \/ \E b \in BOOLEAN : WriteTldr(r, cause, b)
  PROVE  \E t \in Tasks : Becomes(r, cause, t) /\ t.at # "asking"
<1>1. task[<<r, cause>>] \in Tasks
  BY DEF TypeOK, Tasks
<1>2. CASE Returns(r, cause)
  BY <1>2, OffType DEF Returns, Off
<1>3. CASE GoesOn(r, cause)
  BY <1>3 DEF GoesOn
<1>4. CASE Rewrite(r, cause)
  BY <1>1, <1>4, RewriteTask DEF Tasks
<1>5. CASE \E b \in BOOLEAN : WriteTldr(r, cause, b)
  BY <1>1, <1>5, TldrTask DEF Tasks
<1> QED
  BY <1>2, <1>3, <1>4, <1>5

-----------------------------------------------------------------------------
(* Reservations.                                                           *)

LEMMA ReservedInit == Init => ReservedExactly
  BY DEF Init, ReservedExactly, On, Off, Causes

(* A room has one compaction at a time.                                    *)
LEMMA OneAtATime ==
  ASSUME ReservedExactly, NEW r \in Rooms, NEW c \in Causes, NEW d \in Causes,
         On(r, c), On(r, d)
  PROVE  c = d
  BY DEF ReservedExactly, Causes

LEMMA ReservedStep ==
  ASSUME TypeOK, ReservedExactly, [Next]_vars
  PROVE  ReservedExactly'
<1>1. task \in TaskTable
  BY DEF TypeOK, TaskTable, Tasks
<1>2. CASE \/ Elsewhere \/ AskDigest \/ \E b \in BOOLEAN : WriteDigest(b)
           \/ \E r \in Rooms : AppendMessage(r) \/ Clear(r)
  <2>1. task' = task /\ active' = active
    BY <1>2 DEF Elsewhere, AskDigest, WriteDigest, AppendMessage, Clear
  <2> QED
    BY <2>1 DEF ReservedExactly, On
<1>3. CASE Restart
  BY <1>3 DEF Restart, ReservedExactly, On, Off, Causes
<1>4. ASSUME NEW r \in Rooms, NEW cause \in Causes, NEW t \in Tasks,
             Becomes(r, cause, t)
      PROVE  /\ On(r, cause)' <=> t.at # "off"
             /\ \A q \in Rooms, d \in Causes :
                  <<q, d>> # <<r, cause>> => (On(q, d)' <=> On(q, d))
  BY <1>1, <1>4 DEF Becomes, On, TaskTable
<1>5. ASSUME NEW r \in Rooms, NEW cause \in Causes, Reserves(r, cause)
      PROVE  ReservedExactly'
  <2>1. Asking(history[r]) \in Tasks /\ Asking(history[r]).at = "asking"
    BY AskingType DEF TypeOK, Asking
  <2>2. /\ On(r, cause)'
        /\ \A q \in Rooms, d \in Causes :
             <<q, d>> # <<r, cause>> => (On(q, d)' <=> On(q, d))
    BY <1>4, <1>5, <2>1 DEF Reserves
  <2>3. active' = active \cup {r} /\ r \notin active
    BY <1>5 DEF Reserves
  <2> QED
    BY <2>2, <2>3 DEF ReservedExactly, Causes
<1>6. ASSUME NEW r \in Rooms, NEW cause \in Causes, Returns(r, cause)
      PROVE  ReservedExactly'
  <2>1. /\ ~On(r, cause)'
        /\ \A q \in Rooms, d \in Causes :
             <<q, d>> # <<r, cause>> => (On(q, d)' <=> On(q, d))
    BY <1>4, <1>6, OffType DEF Returns, Off
  <2>2. active' = active \ {r} /\ On(r, cause)
    BY <1>6 DEF Returns, On
  <2> QED
    BY <2>1, <2>2 DEF ReservedExactly, Causes
<1>7. ASSUME NEW r \in Rooms, NEW cause \in Causes,
             \/ GoesOn(r, cause) \/ Rewrite(r, cause)
             \/ \E b \in BOOLEAN : WriteTldr(r, cause, b)
      PROVE  ReservedExactly'
  <2>1. On(r, cause) /\ active' = active
    BY <1>7 DEF GoesOn, Rewrite, WriteTldr, On
  <2>2. \E t \in Tasks : Becomes(r, cause, t) /\ t.at # "off"
    <3>1. task[<<r, cause>>] \in Tasks
      BY <1>1 DEF TaskTable
    <3>2. CASE GoesOn(r, cause)
      BY <3>2 DEF GoesOn
    <3>3. CASE Rewrite(r, cause)
      BY <3>1, <3>3, RewriteTask DEF Tasks
    <3>4. CASE \E b \in BOOLEAN : WriteTldr(r, cause, b)
      BY <3>1, <3>4, TldrTask DEF Tasks
    <3> QED
      BY <1>7, <3>2, <3>3, <3>4
  <2>3. \A q \in Rooms, d \in Causes : On(q, d)' <=> On(q, d)
    BY <1>4, <2>1, <2>2
  <2> QED
    BY <2>1, <2>3 DEF ReservedExactly, Causes
<1> QED
  BY <1>2, <1>3, <1>5, <1>6, <1>7, Kinds

-----------------------------------------------------------------------------
(* Histories: hm gives the room of each message, h is a history of r.      *)

(* The messages of r after m.                                              *)
After(hm, r, m) == {n \in DOMAIN hm : n > m /\ hm[n] = r}

Own(hm, h, r) == \A i \in DOMAIN h : \A m \in h[i].of : m \in DOMAIN hm /\ hm[m] = r

Increasing(h) ==
  \A i, j \in DOMAIN h : i < j => \A m \in h[i].of, n \in h[j].of : m < n

(* Only summaries at the head account for nothing.                         *)
Full(h) == \A i, j \in DOMAIN h : i < j /\ h[i].of # {} => h[j].of # {}

Aged(hm, h, r) ==
  \A i \in DOMAIN h : h[i].summary =>
    \A m \in h[i].of : Cardinality(After(hm, r, m)) >= KeepRecent

Good(hm, h, r) ==
  h \in Seq(Item) /\ Own(hm, h, r) /\ Increasing(h) /\ Full(h) /\ Aged(hm, h, r)

LEMMA AfterFinite ==
  ASSUME NEW hm \in Seq(Rooms), NEW r, NEW m
  PROVE  IsFiniteSet(After(hm, r, m)) /\ Cardinality(After(hm, r, m)) \in Nat
<1>1. IsFiniteSet(1 .. Len(hm))
  BY FS_Interval
<1>2. After(hm, r, m) \subseteq 1 .. Len(hm)
  BY DEF After
<1> QED
  BY <1>1, <1>2, FS_Subset, FS_CardinalityType

LEMMA AfterGrows ==
  ASSUME NEW hm \in Seq(Rooms), NEW q \in Rooms, NEW r, NEW m
  PROVE  Cardinality(After(hm, r, m)) <= Cardinality(After(Append(hm, q), r, m))
<1>1. After(hm, r, m) \subseteq After(Append(hm, q), r, m)
  BY DEF After
<1>2. Append(hm, q) \in Seq(Rooms)
  OBVIOUS
<1> QED
  BY <1>1, <1>2, AfterFinite, FS_Subset

(* A message more, of any room, leaves a history good.                     *)
LEMMA GoodGrows ==
  ASSUME NEW hm \in Seq(Rooms), NEW q \in Rooms, NEW r \in Rooms, NEW h,
         Good(hm, h, r)
  PROVE  Good(Append(hm, q), h, r)
<1> DEFINE gm == Append(hm, q)
<1>1. Own(gm, h, r)
  BY DEF Good, Own
<1>2. ASSUME NEW i \in DOMAIN h, h[i].summary, NEW m \in h[i].of
      PROVE  Cardinality(After(gm, r, m)) >= KeepRecent
  <2>1. Cardinality(After(hm, r, m)) >= KeepRecent
    BY <1>2 DEF Good, Aged
  <2>2. gm \in Seq(Rooms)
    OBVIOUS
  <2>3. Cardinality(After(hm, r, m)) \in Nat /\ Cardinality(After(gm, r, m)) \in Nat
    BY <2>2, AfterFinite
  <2> HIDE DEF gm
  <2> QED
    BY <2>1, <2>3, AfterGrows, KeepAssumption DEF gm
<1>3. Aged(gm, h, r)
  BY <1>2 DEF Aged
<1> QED
  BY <1>1, <1>3 DEF Good

(* The message itself goes to the end of its room's history.               *)
LEMMA GoodAppends ==
  ASSUME NEW hm \in Seq(Rooms), NEW r \in Rooms, NEW h, Good(hm, h, r),
         Len(hm) + 1 \in Messages
  PROVE  Good(Append(hm, r), Append(h, Chat(Len(hm) + 1)), r)
<1> DEFINE gm == Append(hm, r)
           c == Chat(Len(hm) + 1)
           p == Append(h, c)
<1>1. Good(gm, h, r)
  BY GoodGrows
<1>2. c \in Item /\ ~c.summary /\ c.of = {Len(hm) + 1}
  BY DEF Chat, Item
<1>3. h \in Seq(Item)
  BY DEF Good
<1> HIDE DEF c
<1>4. /\ p \in Seq(Item) /\ DOMAIN p = 1 .. Len(h) + 1 /\ DOMAIN h = 1 .. Len(h)
      /\ Len(h) \in Nat /\ p[Len(h) + 1] = c /\ \A i \in 1 .. Len(h) : p[i] = h[i]
  BY <1>2, <1>3
<1>5. /\ DOMAIN hm = 1 .. Len(hm) /\ DOMAIN gm = 1 .. Len(hm) + 1
      /\ Len(hm) \in Nat /\ gm[Len(hm) + 1] = r
  OBVIOUS
<1> HIDE DEF p, gm
<1>6. Own(gm, p, r)
  BY <1>1, <1>2, <1>4, <1>5 DEF Good, Own
<1>7. Increasing(p)
  <2>1. \A i \in 1 .. Len(h) : \A m \in h[i].of : m \in 1 .. Len(hm)
    BY <1>4, <1>5 DEF Good, Own
  <2> QED
    BY <1>2, <1>4, <1>5, <2>1 DEF Good, Increasing
<1>8. Full(p)
  <2>1. ASSUME NEW i \in DOMAIN p, NEW j \in DOMAIN p, i < j, p[i].of # {}
        PROVE  p[j].of # {}
    <3>1. CASE j = Len(h) + 1
      BY <1>2, <1>4, <3>1
    <3>2. CASE j \in 1 .. Len(h)
      <4>1. i \in DOMAIN h /\ j \in DOMAIN h /\ p[i] = h[i] /\ p[j] = h[j]
        BY <1>4, <2>1, <3>2
      <4> QED
        BY <2>1, <4>1 DEF Good, Full
    <3> QED
      BY <1>4, <3>1, <3>2
  <2> QED
    BY <2>1 DEF Full
<1>9. Aged(gm, p, r)
  BY <1>1, <1>2, <1>4 DEF Good, Aged
<1> QED
  BY <1>4, <1>6, <1>7, <1>8, <1>9 DEF Good, p, gm, c

LEMMA GoodEmpty ==
  ASSUME NEW hm, NEW r
  PROVE  Good(hm, <<>>, r)
  BY DEF Good, Own, Increasing, Full, Aged

-----------------------------------------------------------------------------
(* What a rewrite makes of a history.                                      *)

(* The history as it will be when compaction c is done with it.            *)
Planned(c) == <<Summary(c.old)>> \o c.recent

LEMMA PlannedShape ==
  ASSUME NEW h \in Seq(Item)
  PROVE  LET k == Split(Len(h))
             p == Planned(Asking(h)) IN
         /\ k \in 0 .. Len(h) /\ Len(h) \in Nat
         /\ p \in Seq(Item) /\ DOMAIN p = 1 .. Len(h) - k + 1
         /\ p[1] = Summary(Account(SubSeq(h, 1, k)))
         /\ \A i \in DOMAIN p : i # 1 => k + i - 1 \in DOMAIN h /\ p[i] = h[k + i - 1]
         /\ \A m : m \in p[1].of <=> \E i \in 1 .. k : m \in h[i].of
<1> DEFINE k == Split(Len(h))
           s == SubSeq(h, 1, k)
           e == SubSeq(h, k + 1, Len(h))
           p == Planned(Asking(h))
<1>1. k \in 0 .. Len(h) /\ Len(h) \in Nat /\ k \in Nat
  BY SplitRange
<1>2. p = <<Summary(Account(s))>> \o e
  BY DEF Planned, Asking
<1> HIDE DEF k, p
<1>3. /\ s \in Seq(Item) /\ DOMAIN s = 1 .. k
      /\ \A i \in 1 .. k : s[i] = h[i]
  BY <1>1, PartOfHistory
<1>4. /\ e \in Seq(Item) /\ Len(e) = Len(h) - k
      /\ \A i \in 1 .. Len(h) - k : e[i] = h[k + i]
  BY <1>1, PartOfHistory
<1>5. Account(s) \in SUBSET Messages /\ \A m : m \in Account(s) <=> \E i \in 1 .. k : m \in h[i].of
  BY <1>3, AccountType DEF Account
<1> HIDE DEF s, e
<1>6. Summary(Account(s)) \in Item /\ Summary(Account(s)).of = Account(s)
  BY <1>5 DEF Summary, Item
<1>7. /\ p \in Seq(Item) /\ Len(p) = Len(e) + 1 /\ p[1] = Summary(Account(s))
      /\ \A i \in 2 .. Len(e) + 1 : p[i] = e[i - 1]
  BY <1>2, <1>4, <1>6
<1>8. DOMAIN p = 1 .. Len(h) - k + 1
  BY <1>1, <1>4, <1>7
<1>9. ASSUME NEW i \in DOMAIN p, i # 1
      PROVE  k + i - 1 \in DOMAIN h /\ p[i] = h[k + i - 1]
  <2>1. i - 1 \in 1 .. Len(h) - k /\ i \in 2 .. Len(e) + 1
    BY <1>1, <1>4, <1>8, <1>9
  <2>2. k + (i - 1) = k + i - 1 /\ k + i - 1 \in 1 .. Len(h)
    BY <1>1, <2>1
  <2> QED
    BY <1>4, <1>7, <2>1, <2>2
<1> QED
  BY <1>1, <1>5, <1>6, <1>7, <1>8, <1>9 DEF k, p, s

(* What goes into the summary has KeepRecent messages after it: each of    *)
(* the items that stay accounts for one.                                   *)
LEMMA ManyAfter ==
  ASSUME NEW hm \in Seq(Rooms), NEW r \in Rooms, NEW h, Good(hm, h, r),
         NEW i \in 1 .. Split(Len(h)), NEW m \in h[i].of
  PROVE  Cardinality(After(hm, r, m)) >= KeepRecent
<1> DEFINE k == Split(Len(h))
           S == k + 1 .. Len(h)
           T == After(hm, r, m)
           f == [j \in S |-> CHOOSE n \in h[j].of : TRUE]
<1>1. /\ h \in Seq(Item) /\ Len(h) \in Nat /\ k \in 0 .. Len(h)
      /\ k # 0 => Len(h) - k = KeepRecent
  BY SplitRange DEF Good
<1>2. i \in 1 .. k
  OBVIOUS
<1> HIDE DEF k
<1>3. i \in DOMAIN h /\ k # 0 /\ \A j \in S : j \in DOMAIN h /\ i < j
  BY <1>1, <1>2
<1>4. \A j \in S : f[j] \in h[j].of
  BY <1>3 DEF Good, Full
<1>5. \A n : n \in DOMAIN hm => n \in Nat
  OBVIOUS
<1>6. f \in [S -> T]
  BY <1>3, <1>4 DEF Good, Own, Increasing, After
<1>7. \A x, y \in S : x < y => f[x] < f[y]
  BY <1>3, <1>4 DEF Good, Increasing
<1>8. \A x, y \in S : x # y => f[x] # f[y]
  <2>1. \A x \in S : x \in Nat /\ f[x] \in Nat
    BY <1>1, <1>3, <1>4, <1>5 DEF Good, Own
  <2> HIDE DEF f
  <2> QED
    BY <1>1, <1>7, <2>1
<1>9. IsFiniteSet(S) /\ Cardinality(S) = KeepRecent
  <2>1. k + 1 \in Int /\ Len(h) \in Int
    BY <1>1
  <2>2. /\ IsFiniteSet(S)
        /\ Cardinality(S) = IF k + 1 > Len(h) THEN 0 ELSE Len(h) - (k + 1) + 1
    BY <2>1, FS_Interval
  <2> QED
    BY <1>1, <1>3, <2>2
<1>10. IsFiniteSet(T) /\ Cardinality(T) \in Nat
  BY AfterFinite
<1> HIDE DEF S, T, f
<1>11. ~(Cardinality(T) < Cardinality(S))
  BY <1>6, <1>8, <1>9, <1>10, FS_PigeonHole
<1> QED
  BY <1>9, <1>10, <1>11, KeepAssumption DEF T

(* What a compaction plans is a good history.                              *)
LEMMA GoodPlanned ==
  ASSUME NEW hm \in Seq(Rooms), NEW r \in Rooms, NEW h, Good(hm, h, r)
  PROVE  Good(hm, Planned(Asking(h)), r)
<1> DEFINE k == Split(Len(h))
           p == Planned(Asking(h))
<1>1. h \in Seq(Item) /\ DOMAIN h = 1 .. Len(h) /\ Len(h) \in Nat
  BY DEF Good
<1>2. /\ k \in 0 .. Len(h)
      /\ p \in Seq(Item) /\ DOMAIN p = 1 .. Len(h) - k + 1
      /\ \A i \in DOMAIN p : i # 1 => k + i - 1 \in DOMAIN h /\ p[i] = h[k + i - 1]
      /\ \A m : m \in p[1].of <=> \E i \in 1 .. k : m \in h[i].of
  BY <1>1, PlannedShape
<1>3. ASSUME NEW m \in p[1].of
      PROVE  Cardinality(After(hm, r, m)) >= KeepRecent
  <2>1. PICK i \in 1 .. k : m \in h[i].of
    BY <1>2, <1>3
  <2> QED
    BY <2>1, ManyAfter
<1> HIDE DEF k, p
<1>4. \A i \in 1 .. k : i \in DOMAIN h
  BY <1>1, <1>2
<1>5. Own(hm, p, r)
  BY <1>2, <1>4 DEF Good, Own
<1>6. ASSUME NEW i \in DOMAIN p, NEW j \in DOMAIN p, i < j
      PROVE  /\ \A m \in p[i].of, n \in p[j].of : m < n
             /\ p[i].of # {} => p[j].of # {}
  <2>1. j # 1 /\ k + j - 1 \in DOMAIN h /\ p[j] = h[k + j - 1]
    BY <1>2, <1>6
  <2>2. CASE i = 1
    <3> DEFINE q == k + j - 1
    <3>1. \A a \in 1 .. k : a < q
      BY <1>1, <1>2, <1>6, <2>2
    <3>2. q \in DOMAIN h /\ p[j] = h[q]
      BY <2>1
    <3> HIDE DEF q
    <3>3. \A a \in 1 .. k : /\ \A m \in h[a].of, n \in h[q].of : m < n
                            /\ h[a].of # {} => h[q].of # {}
      BY <1>4, <3>1, <3>2 DEF Good, Increasing, Full
    <3> QED
      BY <1>2, <2>2, <3>2, <3>3
  <2>3. CASE i # 1
    <3>1. k + i - 1 \in DOMAIN h /\ p[i] = h[k + i - 1] /\ k + i - 1 < k + j - 1
      BY <1>1, <1>2, <1>6, <2>3
    <3> QED
      BY <2>1, <3>1 DEF Good, Increasing, Full
  <2> QED
    BY <2>2, <2>3
<1>7. Aged(hm, p, r)
  BY <1>2, <1>3 DEF Good, Aged
<1> QED
  BY <1>2, <1>5, <1>6, <1>7 DEF Good, Increasing, Full, p

-----------------------------------------------------------------------------
(* Histories and plans are good in every reachable state.                  *)

HistoriesGood == \A r \in Rooms : Good(home, history[r], r)

PlansGood ==
  \A r \in Rooms, cause \in Causes :
    task[<<r, cause>>].at = "asking" => Good(home, Planned(task[<<r, cause>>]), r)

LEMMA GoodInit == Init => HistoriesGood /\ PlansGood
  BY GoodEmpty DEF Init, HistoriesGood, PlansGood, Off

(* A step that makes no plan leaves those of the others.                   *)
LEMMA PlansStay ==
  ASSUME TypeOK, PlansGood, home' = home, NEW r \in Rooms, NEW cause \in Causes,
         NEW t \in Tasks, Becomes(r, cause, t),
         t.at = "asking" => Good(home, Planned(t), r)
  PROVE  PlansGood'
<1>1. task \in TaskTable
  BY DEF TypeOK, TaskTable, Tasks
<1>2. \A q \in Rooms, d \in Causes :
        task'[<<q, d>>] = IF <<q, d>> = <<r, cause>> THEN t ELSE task[<<q, d>>]
  BY <1>1 DEF Becomes, TaskTable
<1>3. ASSUME NEW q \in Rooms, NEW d \in Causes, task'[<<q, d>>].at = "asking"
      PROVE  Good(home, Planned(task'[<<q, d>>]), q)
  <2>1. CASE <<q, d>> = <<r, cause>>
    BY <1>2, <1>3, <2>1
  <2>2. CASE <<q, d>> # <<r, cause>>
    BY <1>2, <1>3, <2>2 DEF PlansGood
  <2> QED
    BY <2>1, <2>2
<1> QED
  BY <1>3 DEF PlansGood

LEMMA GoodStep ==
  ASSUME TypeOK, HistoriesGood, PlansGood, [Next]_vars
  PROVE  HistoriesGood' /\ PlansGood'
<1>1. /\ home \in Seq(Rooms) /\ history \in [Rooms -> Seq(Item)]
      /\ task \in TaskTable
  BY DEF TypeOK, TaskTable, Tasks
<1>2. CASE Elsewhere \/ AskDigest \/ \E b \in BOOLEAN : WriteDigest(b)
  <2>1. home' = home /\ history' = history /\ task' = task
    BY <1>2 DEF Elsewhere, AskDigest, WriteDigest, content, files
  <2> QED
    BY <2>1 DEF HistoriesGood, PlansGood
<1>3. CASE Restart
  <2>1. home' = home /\ history' = history
    BY <1>3 DEF Restart, files
  <2>2. \A x \in Rooms \X Causes : task'[x].at # "asking"
    BY <1>3 DEF Restart, Off
  <2> QED
    BY <2>1, <2>2 DEF HistoriesGood, PlansGood
<1>4. ASSUME NEW r \in Rooms, AppendMessage(r)
      PROVE  HistoriesGood' /\ PlansGood'
  <2>1. /\ home' = Append(home, r) /\ task' = task
        /\ history' = [history EXCEPT ![r] = Append(@, Chat(Len(home) + 1))]
    BY <1>4 DEF AppendMessage
  <2>2. Len(home) + 1 \in Messages
    BY <1>4, MessageType DEF AppendMessage
  <2>3. PlansGood'
    BY <1>1, <2>1, GoodGrows DEF PlansGood
  <2>4. ASSUME NEW q \in Rooms
        PROVE  Good(home', history'[q], q)
    <3>1. CASE q = r
      BY <1>1, <2>1, <2>2, <3>1, GoodAppends DEF HistoriesGood
    <3>2. CASE q # r
      BY <1>1, <2>1, <3>2, GoodGrows DEF HistoriesGood
    <3> QED
      BY <3>1, <3>2
  <2> QED
    BY <2>3, <2>4 DEF HistoriesGood
<1>5. ASSUME NEW r \in Rooms, Clear(r)
      PROVE  HistoriesGood' /\ PlansGood'
  <2>1. /\ home' = home /\ task' = task
        /\ history' = [history EXCEPT ![r] = <<>>]
    BY <1>5 DEF Clear
  <2>2. \A q \in Rooms : Good(home', history'[q], q)
    BY <1>1, <2>1, GoodEmpty DEF HistoriesGood
  <2> QED
    BY <2>1, <2>2 DEF HistoriesGood, PlansGood
<1>6. ASSUME NEW r \in Rooms, NEW cause \in Causes, Reserves(r, cause)
      PROVE  HistoriesGood' /\ PlansGood'
  <2>1. home' = home /\ history' = history /\ Becomes(r, cause, Asking(history[r]))
    BY <1>6 DEF Reserves, content
  <2>2. Asking(history[r]) \in Tasks /\ Good(home, Planned(Asking(history[r])), r)
    BY <1>1, AskingType, GoodPlanned DEF HistoriesGood
  <2> QED
    BY <2>1, <2>2, PlansStay DEF HistoriesGood
<1>7. ASSUME NEW r \in Rooms, NEW cause \in Causes,
             \/ Returns(r, cause) \/ GoesOn(r, cause)
             \/ \E b \in BOOLEAN : WriteTldr(r, cause, b)
      PROVE  HistoriesGood' /\ PlansGood'
  <2>1. home' = home /\ history' = history
    BY <1>7 DEF Returns, GoesOn, WriteTldr, content
  <2>2. PICK t \in Tasks : Becomes(r, cause, t) /\ t.at # "asking"
    BY <1>7, Proceeds
  <2> QED
    BY <2>1, <2>2, PlansStay DEF HistoriesGood
<1>8. ASSUME NEW r \in Rooms, NEW cause \in Causes, Rewrite(r, cause)
      PROVE  HistoriesGood' /\ PlansGood'
  <2> DEFINE c == task[<<r, cause>>]
             t == [c EXCEPT !.at = "tldr", !.recent = <<>>]
  <2>1. /\ home' = home /\ c.at = "asking"
        /\ history' = [history EXCEPT ![r] = Planned(c)]
    BY <1>8 DEF Rewrite, Planned
  <2>2. t \in Tasks /\ Becomes(r, cause, t)
    BY <1>8, RewriteTask
  <2>3. t.at # "asking"
    BY <1>1 DEF TaskTable, Tasks
  <2>4. Good(home, Planned(c), r)
    BY <2>1 DEF PlansGood
  <2> HIDE DEF c, t
  <2>5. \A q \in Rooms : Good(home', history'[q], q)
    BY <1>1, <2>1, <2>4 DEF HistoriesGood
  <2> QED
    BY <2>1, <2>2, <2>3, <2>5, PlansStay DEF HistoriesGood
<1> QED
  BY <1>2, <1>3, <1>4, <1>5, <1>6, <1>7, <1>8, Kinds

-----------------------------------------------------------------------------
(* What a rewrite loses.                                                   *)

(* What a compaction has read.                                             *)
Taken(c) == c.old \cup Account(c.recent)

(* While the model is asked, what the history has beyond that came later.  *)
OthersLater ==
  \A r \in Rooms, cause \in Causes :
    LET c == task[<<r, cause>>] IN
    c.at = "asking" =>
      \A m \in Account(history[r]) \ Taken(c), n \in Taken(c) : m > n

LEMMA PlannedAccount ==
  ASSUME NEW c \in Tasks
  PROVE  /\ Planned(c) \in Seq(Item) /\ Planned(c) # <<>>
         /\ DOMAIN Planned(c) = 1 .. Len(c.recent) + 1
         /\ Planned(c)[1] = Summary(c.old)
         /\ \A i \in 1 .. Len(c.recent) : Planned(c)[i + 1] = c.recent[i]
         /\ Account(Planned(c)) = Taken(c)
<1> DEFINE s == Summary(c.old)
           e == c.recent
           p == Planned(c)
<1>1. s \in Item /\ s.of = c.old /\ e \in Seq(Item)
  BY DEF Tasks, Summary, Item
<1>2. p = <<s>> \o e
  BY DEF Planned
<1> HIDE DEF s, e, p
<1>3. /\ p \in Seq(Item) /\ p # <<>> /\ DOMAIN p = 1 .. Len(e) + 1 /\ p[1] = s
      /\ Len(e) \in Nat /\ DOMAIN e = 1 .. Len(e)
      /\ \A i \in 1 .. Len(e) : p[i + 1] = e[i]
  BY <1>1, <1>2
<1>4. \A m : m \in Account(p) <=> m \in s.of \/ \E i \in DOMAIN e : m \in e[i].of
  <2>1. ASSUME NEW m, m \in Account(p)
        PROVE  m \in s.of \/ \E i \in DOMAIN e : m \in e[i].of
    <3>1. PICK i \in DOMAIN p : m \in p[i].of
      BY <2>1 DEF Account
    <3>2. CASE i = 1
      BY <1>3, <3>1, <3>2
    <3>3. CASE i # 1
      <4>1. i - 1 \in 1 .. Len(e) /\ (i - 1) + 1 = i
        BY <1>3, <3>3
      <4> QED
        BY <1>3, <3>1, <4>1
    <3> QED
      BY <3>2, <3>3
  <2>2. ASSUME NEW m, m \in s.of \/ \E i \in DOMAIN e : m \in e[i].of
        PROVE  m \in Account(p)
    <3>1. \E j \in DOMAIN p : m \in p[j].of
      BY <1>3, <2>2
    <3> QED
      BY <3>1 DEF Account
  <2> QED
    BY <2>1, <2>2
<1>5. Account(p) = Taken(c)
  BY <1>1, <1>4 DEF Taken, Account, e
<1> QED
  BY <1>3, <1>5 DEF s, e, p

LEMMA AskingTakesAll ==
  ASSUME NEW h \in Seq(Item)
  PROVE  Account(h) \subseteq Taken(Asking(h))
<1> DEFINE k == Split(Len(h))
           p == Planned(Asking(h))
<1>1. /\ k \in 0 .. Len(h) /\ Len(h) \in Nat
      /\ DOMAIN p = 1 .. Len(h) - k + 1
      /\ \A i \in DOMAIN p : i # 1 => k + i - 1 \in DOMAIN h /\ p[i] = h[k + i - 1]
      /\ \A m : m \in p[1].of <=> \E i \in 1 .. k : m \in h[i].of
  BY PlannedShape
<1>2. DOMAIN h = 1 .. Len(h)
  OBVIOUS
<1>3. Account(p) = Taken(Asking(h))
  BY AskingType, PlannedAccount
<1> HIDE DEF k, p
<1>4. ASSUME NEW i \in DOMAIN h, NEW m \in h[i].of
      PROVE  m \in Account(p)
  <2>1. CASE i <= k
    <3>1. i \in 1 .. k /\ 1 \in DOMAIN p
      BY <1>1, <2>1
    <3> QED
      BY <1>1, <3>1 DEF Account
  <2>2. CASE i > k
    <3> DEFINE j == i - k + 1
    <3>1. j \in DOMAIN p /\ j # 1 /\ k + j - 1 = i
      BY <1>1, <1>2, <2>2
    <3>2. p[j] = h[i]
      BY <1>1, <3>1
    <3> QED
      BY <3>1, <3>2 DEF Account
  <2> QED
    BY <1>1, <1>2, <2>1, <2>2
<1> QED
  BY <1>3, <1>4 DEF Account

LEMMA AppendAccount ==
  ASSUME NEW h \in Seq(Item), NEW n \in Messages
  PROVE  Account(Append(h, Chat(n))) = Account(h) \cup {n}
<1> DEFINE c == Chat(n)
           p == Append(h, c)
<1>1. c \in Item /\ c.of = {n}
  BY DEF Chat, Item
<1> HIDE DEF c
<1>2. /\ Len(h) \in Nat /\ DOMAIN h = 1 .. Len(h) /\ DOMAIN p = 1 .. Len(h) + 1
      /\ p[Len(h) + 1] = c /\ \A i \in DOMAIN h : p[i] = h[i]
  BY <1>1
<1> HIDE DEF p
<1>3. Len(h) + 1 \in DOMAIN p /\ \A i \in DOMAIN p : i \in DOMAIN h \/ i = Len(h) + 1
  BY <1>2
<1>4. \A i \in DOMAIN h : i \in DOMAIN p
  BY <1>2
<1> QED
  BY <1>1, <1>2, <1>3, <1>4 DEF Account, p, c

LEMMA LaterInit == Init => OthersLater
  BY DEF Init, OthersLater, Off

(* What a plan or a history accounts for has been said in its room.        *)
LEMMA Said ==
  ASSUME NEW hm, NEW r, NEW h, Good(hm, h, r), NEW m \in Account(h)
  PROVE  m \in DOMAIN hm /\ hm[m] = r
  BY DEF Good, Own, Account

LEMMA LaterStep ==
  ASSUME TypeOK, ReservedExactly, PlansGood, OthersLater, [Next]_vars
  PROVE  OthersLater'
<1>1. /\ home \in Seq(Rooms) /\ history \in [Rooms -> Seq(Item)]
      /\ task \in TaskTable
  BY DEF TypeOK, TaskTable, Tasks
<1>2. CASE Elsewhere \/ AskDigest \/ \E b \in BOOLEAN : WriteDigest(b)
  <2>1. history' = history /\ task' = task
    BY <1>2 DEF Elsewhere, AskDigest, WriteDigest, content, files
  <2> QED
    BY <2>1 DEF OthersLater
<1>3. CASE Restart
  <2>1. \A x \in Rooms \X Causes : task'[x].at # "asking"
    BY <1>3 DEF Restart, Off
  <2> QED
    BY <2>1 DEF OthersLater
<1>4. ASSUME NEW r \in Rooms, AppendMessage(r)
      PROVE  OthersLater'
  <2>1. /\ task' = task /\ Len(home) + 1 \in Messages
        /\ history' = [history EXCEPT ![r] = Append(@, Chat(Len(home) + 1))]
    BY <1>4, MessageType DEF AppendMessage
  <2>2. ASSUME NEW q \in Rooms, NEW d \in Causes, task[<<q, d>>].at = "asking",
               NEW m \in Account(history'[q]) \ Taken(task[<<q, d>>]),
               NEW n \in Taken(task[<<q, d>>])
        PROVE  m > n
    <3>1. n \in DOMAIN home
      <4>1. task[<<q, d>>] \in Tasks /\ Good(home, Planned(task[<<q, d>>]), q)
        BY <1>1, <2>2 DEF PlansGood, TaskTable
      <4> QED
        BY <2>2, <4>1, PlannedAccount, Said
    <3>2. Account(history'[r]) = Account(history[r]) \cup {Len(home) + 1}
      BY <1>1, <2>1, AppendAccount
    <3>3. m \in Account(history[q]) \/ m = Len(home) + 1
      BY <1>1, <2>1, <2>2, <3>2
    <3> QED
      BY <1>1, <2>2, <3>1, <3>3 DEF OthersLater
  <2> QED
    BY <2>1, <2>2 DEF OthersLater
<1>5. ASSUME NEW r \in Rooms, Clear(r)
      PROVE  OthersLater'
  <2>1. task' = task /\ history' = [history EXCEPT ![r] = <<>>]
    BY <1>5 DEF Clear
  <2>2. Account(<<>>) = {}
    BY DEF Account
  <2>3. \A q \in Rooms : Account(history'[q]) \subseteq Account(history[q])
    BY <1>1, <2>1, <2>2
  <2> QED
    BY <2>1, <2>3 DEF OthersLater
<1>6. ASSUME NEW r \in Rooms, NEW cause \in Causes, NEW t \in Tasks,
             Becomes(r, cause, t), \A q \in Rooms : q # r => history'[q] = history[q],
             t.at = "asking" => Account(history'[r]) \subseteq Taken(t),
             \A d \in Causes : On(r, d) /\ d # cause => history'[r] = history[r]
      PROVE  OthersLater'
  <2>1. \A q \in Rooms, d \in Causes :
          task'[<<q, d>>] = IF <<q, d>> = <<r, cause>> THEN t ELSE task[<<q, d>>]
    BY <1>1, <1>6 DEF Becomes, TaskTable
  <2>2. ASSUME NEW q \in Rooms, NEW d \in Causes, task'[<<q, d>>].at = "asking",
               NEW m \in Account(history'[q]) \ Taken(task'[<<q, d>>]),
               NEW n \in Taken(task'[<<q, d>>])
        PROVE  m > n
    <3>1. CASE <<q, d>> = <<r, cause>>
      BY <1>6, <2>1, <2>2, <3>1
    <3>2. CASE <<q, d>> # <<r, cause>>
      <4>1. task'[<<q, d>>] = task[<<q, d>>] /\ On(q, d)
        BY <2>1, <2>2, <3>2 DEF On
      <4>2. history'[q] = history[q]
        BY <1>6, <3>2, <4>1
      <4> QED
        BY <2>2, <4>1, <4>2 DEF OthersLater
    <3> QED
      BY <3>1, <3>2
  <2> QED
    BY <2>2 DEF OthersLater
<1>7. ASSUME NEW r \in Rooms, NEW cause \in Causes, Reserves(r, cause)
      PROVE  OthersLater'
  <2>1. history' = history /\ Becomes(r, cause, Asking(history[r]))
    BY <1>7 DEF Reserves, content
  <2>2. /\ Asking(history[r]) \in Tasks
        /\ Account(history[r]) \subseteq Taken(Asking(history[r]))
    BY <1>1, AskingType, AskingTakesAll
  <2> QED
    BY <1>6, <2>1, <2>2
<1>8. ASSUME NEW r \in Rooms, NEW cause \in Causes,
             \/ Returns(r, cause) \/ GoesOn(r, cause) \/ Rewrite(r, cause)
             \/ \E b \in BOOLEAN : WriteTldr(r, cause, b)
      PROVE  OthersLater'
  <2>1. PICK t \in Tasks : Becomes(r, cause, t) /\ t.at # "asking"
    BY <1>8, Proceeds
  <2>2. /\ On(r, cause) /\ \A q \in Rooms : q # r => history'[q] = history[q]
    BY <1>1, <1>8 DEF Returns, GoesOn, Rewrite, WriteTldr, content, On
  <2>3. \A d \in Causes : ~(On(r, d) /\ d # cause)
    BY <2>2, OneAtATime
  <2> QED
    BY <1>6, <2>1, <2>2, <2>3
<1> QED
  BY <1>2, <1>3, <1>4, <1>5, <1>7, <1>8, Kinds

LEMMA LostLate ==
  ASSUME TypeOK, OthersLater, [Next]_vars, NEW r \in Rooms
  PROVE  LET lost == Account(history[r]) \ Account(history'[r]) IN
         \/ lost = {} \/ history'[r] = <<>>
         \/ \E cause \in Causes :
              LET c == task[<<r, cause>>] IN
              /\ c.at = "asking"
              /\ \A m \in lost, n \in c.old \cup Account(c.recent) : m > n
<1> DEFINE lost == Account(history[r]) \ Account(history'[r])
           Late == \E cause \in Causes :
                     LET c == task[<<r, cause>>] IN
                     /\ c.at = "asking"
                     /\ \A m \in lost, n \in c.old \cup Account(c.recent) : m > n
<1>1. /\ home \in Seq(Rooms) /\ history \in [Rooms -> Seq(Item)]
      /\ task \in TaskTable
  BY DEF TypeOK, TaskTable, Tasks
<1>2. CASE \/ Elsewhere \/ AskDigest \/ Restart
           \/ \E b \in BOOLEAN : WriteDigest(b)
           \/ \E q \in Rooms, cause \in Causes :
                \/ Reserves(q, cause) \/ Returns(q, cause) \/ GoesOn(q, cause)
                \/ \E b \in BOOLEAN : WriteTldr(q, cause, b)
  <2>1. history' = history
    BY <1>2 DEF Elsewhere, AskDigest, Restart, WriteDigest, Reserves, Returns,
      GoesOn, WriteTldr, content, files
  <2> QED
    BY <2>1
<1>3. ASSUME NEW q \in Rooms, AppendMessage(q)
      PROVE  lost = {}
  <2>1. CASE q = r
    <3>1. history'[r] = Append(history[r], Chat(Len(home) + 1))
      BY <1>1, <1>3, <2>1 DEF AppendMessage
    <3>2. history[r] \in Seq(Item) /\ Len(home) + 1 \in Messages
      BY <1>1, <1>3, MessageType DEF AppendMessage
    <3> QED
      BY <3>1, <3>2, AppendAccount
  <2>2. CASE q # r
    BY <1>1, <1>3, <2>2 DEF AppendMessage
  <2> QED
    BY <2>1, <2>2
<1>4. ASSUME NEW q \in Rooms, Clear(q)
      PROVE  lost = {} \/ history'[r] = <<>>
  BY <1>1, <1>4 DEF Clear
<1>5. ASSUME NEW q \in Rooms, NEW cause \in Causes, Rewrite(q, cause)
      PROVE  lost = {} \/ Late
  <2>1. CASE q = r
    <3> DEFINE c == task[<<r, cause>>]
    <3>1. c \in Tasks /\ c.at = "asking" /\ history'[r] = Planned(c)
      BY <1>1, <1>5, <2>1 DEF Rewrite, Planned, TaskTable
    <3>2. lost = Account(history[r]) \ Taken(c)
      BY <3>1, PlannedAccount
    <3>3. \A m \in lost, n \in Taken(c) : m > n
      BY <3>1, <3>2 DEF OthersLater
    <3> QED
      BY <3>1, <3>3 DEF Taken
  <2>2. CASE q # r
    BY <1>1, <1>5, <2>2 DEF Rewrite
  <2> QED
    BY <2>1, <2>2
<1> QED
  BY <1>2, <1>3, <1>4, <1>5, Kinds

-----------------------------------------------------------------------------
(* What TLDRs and the digest have told.                                    *)

Behind(A, B) == \A m \in A : \E n \in B : m <= n

(* Every item of a history that accounts for something is past A.          *)
Ahead(A, h) == \A i \in DOMAIN h : h[i].of # {} => Behind(A, h[i].of)

OfRoom(hm, S, r) == {m \in S : hm[m] = r}

(* What has been told of a room, by its TLDR, the digest or the TLDRs that *)
(* the weekly loop has read.                                               *)
Spoken(r) == tldr[r] \cup OfRoom(home, digest, r) \cup OfRoom(home, weekly.of, r)

(* What a compaction of r has read is past A, and once it is in the        *)
(* history the rest of that is past it.                                    *)
SoundTask(hm, h, A, r, c) ==
  /\ c.at = "asking" => Ahead(A, Planned(c))
  /\ c.at = "tldr" =>
       /\ \A m \in c.old : m \in DOMAIN hm /\ hm[m] = r
       /\ c.old # {} => Behind(A, c.old)
       /\ Ahead(c.old, h)

Placed ==
  /\ \A r \in Rooms : \A m \in tldr[r] : m \in DOMAIN home /\ home[m] = r
  /\ digest \subseteq DOMAIN home /\ weekly.of \subseteq DOMAIN home

HistoriesAhead == \A r \in Rooms : Ahead(Spoken(r), history[r])

TasksSound ==
  \A r \in Rooms, cause \in Causes :
    SoundTask(home, history[r], Spoken(r), r, task[<<r, cause>>])

(* Digest, weekly loop and TLDR follow each other.                         *)
Succession ==
  \A r \in Rooms :
    LET D == OfRoom(home, digest, r)  W == OfRoom(home, weekly.of, r) IN
    /\ tldr[r] # {} => Behind(D, tldr[r]) /\ Behind(W, tldr[r])
    /\ W # {} => Behind(D, W)

Telling == Placed /\ HistoriesAhead /\ TasksSound /\ Succession

LEMMA AheadLess ==
  ASSUME NEW A, NEW B \in SUBSET A, NEW h, Ahead(A, h)
  PROVE  Ahead(B, h)
  BY DEF Ahead, Behind

LEMMA AheadAppends ==
  ASSUME NEW h \in Seq(Item), NEW n \in Messages, NEW A, Ahead(A, h),
         \A m \in A : m <= n
  PROVE  Ahead(A, Append(h, Chat(n)))
<1> DEFINE c == Chat(n)
           p == Append(h, c)
<1>1. c \in Item /\ c.of = {n}
  BY DEF Chat, Item
<1> HIDE DEF c
<1>2. /\ Len(h) \in Nat /\ DOMAIN h = 1 .. Len(h) /\ DOMAIN p = 1 .. Len(h) + 1
      /\ p[Len(h) + 1] = c /\ \A i \in DOMAIN h : p[i] = h[i]
  BY <1>1
<1> HIDE DEF p
<1>3. \A i \in DOMAIN p : i \in DOMAIN h \/ i = Len(h) + 1
  BY <1>2
<1>4. Behind(A, c.of)
  BY <1>1 DEF Behind
<1> QED
  BY <1>2, <1>3, <1>4 DEF Ahead, p, c

LEMMA AheadPlanned ==
  ASSUME NEW h \in Seq(Item), NEW A, Ahead(A, h)
  PROVE  Ahead(A, Planned(Asking(h)))
<1> DEFINE k == Split(Len(h))
           p == Planned(Asking(h))
<1>1. /\ k \in 0 .. Len(h) /\ Len(h) \in Nat
      /\ DOMAIN p = 1 .. Len(h) - k + 1
      /\ \A i \in DOMAIN p : i # 1 => k + i - 1 \in DOMAIN h /\ p[i] = h[k + i - 1]
      /\ \A m : m \in p[1].of <=> \E i \in 1 .. k : m \in h[i].of
  BY PlannedShape
<1>2. DOMAIN h = 1 .. Len(h)
  OBVIOUS
<1> HIDE DEF k, p
<1>3. \A i \in 1 .. k : i \in DOMAIN h
  BY <1>1, <1>2
<1>4. p[1].of # {} => Behind(A, p[1].of)
  <2>1. ASSUME p[1].of # {}
        PROVE  Behind(A, p[1].of)
    <3>1. PICK i \in 1 .. k : h[i].of # {}
      BY <1>1, <2>1
    <3>2. Behind(A, h[i].of) /\ h[i].of \subseteq p[1].of
      BY <1>1, <1>3, <3>1 DEF Ahead
    <3> QED
      BY <3>2 DEF Behind
  <2> QED
    BY <2>1
<1>5. ASSUME NEW i \in DOMAIN p, i # 1, p[i].of # {}
      PROVE  Behind(A, p[i].of)
  <2> DEFINE q == k + i - 1
  <2>1. q \in DOMAIN h /\ p[i] = h[q]
    BY <1>1, <1>5
  <2> HIDE DEF q
  <2> QED
    BY <1>5, <2>1 DEF Ahead
<1> QED
  BY <1>4, <1>5 DEF Ahead, p

LEMMA AheadEmpty ==
  ASSUME NEW A
  PROVE  Ahead(A, <<>>)
  BY DEF Ahead

LEMMA SoundLess ==
  ASSUME NEW hm, NEW h, NEW A, NEW B \in SUBSET A, NEW r, NEW c,
         SoundTask(hm, h, A, r, c)
  PROVE  SoundTask(hm, h, B, r, c)
  BY AheadLess DEF SoundTask, Behind

LEMMA TellingInit == Init => Telling
<1> SUFFICES ASSUME Init
             PROVE  Telling
  OBVIOUS
<1>1. \A r \in Rooms : history[r] = <<>> /\ tldr[r] = {} /\ OfRoom(home, weekly.of, r) = {}
  BY DEF Init, Quiet, OfRoom
<1>2. Placed /\ Succession
  BY <1>1 DEF Init, Quiet, Placed, Succession
<1>3. HistoriesAhead
  BY <1>1, AheadEmpty DEF HistoriesAhead
<1>4. TasksSound
  BY DEF Init, TasksSound, SoundTask, Off
<1> QED
  BY <1>2, <1>3, <1>4 DEF Telling

(* Steps of the digest, and those that change nothing of all this, tell    *)
(* nothing new; a restart forgets the compactions.                         *)
LEMMA TellsNoMore ==
  ASSUME TypeOK, Telling, home' = home, history' = history, tldr' = tldr,
         task' = task \/ \A x \in Rooms \X Causes : task'[x] = Off,
         digest' = digest \/ digest' = weekly.of,
         weekly'.of = weekly.of \/ weekly'.of = {} \/ weekly'.of = Told,
         weekly'.of = {} \/ digest' = digest
  PROVE  Telling'
<1>1. /\ \A r \in Rooms : \A m \in tldr[r] : m \in DOMAIN home /\ home[m] = r
      /\ digest \subseteq DOMAIN home /\ weekly.of \subseteq DOMAIN home
  BY DEF Telling, Placed
<1>2. Told \subseteq DOMAIN home /\ \A r \in Rooms : OfRoom(home, Told, r) = tldr[r]
  BY <1>1 DEF Told, OfRoom
<1>3. Placed'
  BY <1>1, <1>2 DEF Placed
<1>4. ASSUME NEW r \in Rooms
      PROVE  /\ Spoken(r)' \subseteq Spoken(r)
             /\ LET D == OfRoom(home, digest', r)  W == OfRoom(home, weekly'.of, r) IN
                /\ tldr[r] # {} => Behind(D, tldr[r]) /\ Behind(W, tldr[r])
                /\ W # {} => Behind(D, W)
  <2> DEFINE D == OfRoom(home, digest, r)
             W == OfRoom(home, weekly.of, r)
             E == OfRoom(home, digest', r)
             V == OfRoom(home, weekly'.of, r)
  <2>1. /\ E = D \/ E = W
        /\ V = W \/ V = {} \/ V = tldr[r]
        /\ E = D \/ V = {}
    BY <1>2 DEF OfRoom
  <2>2. Spoken(r) = tldr[r] \cup D \cup W /\ Spoken(r)' = tldr[r] \cup E \cup V
    BY DEF Spoken
  <2>3. /\ tldr[r] # {} => Behind(D, tldr[r]) /\ Behind(W, tldr[r])
        /\ W # {} => Behind(D, W)
    BY DEF Telling, Succession
  <2>4. Behind({}, tldr[r]) /\ Behind(tldr[r], tldr[r])
    <3>1. \A m \in tldr[r] : m \in Int
      BY DEF TypeOK, Messages
    <3> QED
      BY <3>1 DEF Behind
  <2> HIDE DEF D, W, E, V
  <2>5. /\ tldr[r] # {} => Behind(E, tldr[r]) /\ Behind(V, tldr[r])
        /\ V # {} => Behind(E, V)
    BY <2>1, <2>3, <2>4
  <2> QED
    BY <2>1, <2>2, <2>5 DEF E, V
<1>5. Succession'
  BY <1>4 DEF Succession
<1>6. HistoriesAhead'
  BY <1>4, AheadLess DEF Telling, HistoriesAhead
<1>7. TasksSound'
  <2>1. CASE task' = task
    BY <1>4, <2>1, SoundLess DEF Telling, TasksSound
  <2>2. CASE \A x \in Rooms \X Causes : task'[x] = Off
    BY <2>2 DEF TasksSound, SoundTask, Off
  <2> QED
    BY <2>1, <2>2
<1> QED
  BY <1>3, <1>5, <1>6, <1>7 DEF Telling

(* The step of one compaction leaves the others sound.                     *)
LEMMA OthersSound ==
  ASSUME TypeOK, Telling, NEW r \in Rooms, NEW cause \in Causes, NEW t \in Tasks,
         Becomes(r, cause, t), home' = home, digest' = digest, weekly' = weekly,
         \A q \in Rooms : q # r => history'[q] = history[q] /\ tldr'[q] = tldr[q],
         \/ history'[r] = history[r] /\ tldr'[r] = tldr[r]
         \/ \A d \in Causes : d # cause => ~On(r, d),
         SoundTask(home, history'[r], Spoken(r)', r, t)
  PROVE  TasksSound'
<1>1. \A q \in Rooms, d \in Causes :
        task'[<<q, d>>] = IF <<q, d>> = <<r, cause>> THEN t ELSE task[<<q, d>>]
  BY DEF TypeOK, Tasks, Becomes
<1>2. \A q \in Rooms : tldr'[q] = tldr[q] => Spoken(q)' = Spoken(q)
  BY DEF Spoken
<1>3. ASSUME NEW q \in Rooms, NEW d \in Causes
      PROVE  SoundTask(home, history'[q], Spoken(q)', q, task'[<<q, d>>])
  <2>1. CASE <<q, d>> = <<r, cause>>
    BY <1>1, <2>1
  <2>2. CASE <<q, d>> # <<r, cause>>
    <3>1. task'[<<q, d>>] = task[<<q, d>>]
      BY <1>1, <2>2
    <3>2. CASE history'[q] = history[q] /\ tldr'[q] = tldr[q]
      BY <1>2, <3>1, <3>2 DEF Telling, TasksSound
    <3>3. CASE ~On(q, d)
      BY <3>1, <3>3 DEF On, SoundTask
    <3> QED
      BY <2>2, <3>2, <3>3
  <2> QED
    BY <2>1, <2>2
<1> QED
  BY <1>3 DEF TasksSound

LEMMA TellingAppend ==
  ASSUME TypeOK, Telling, HistoriesGood, PlansGood, NEW r \in Rooms, AppendMessage(r)
  PROVE  Telling'
<1> DEFINE n == Len(home) + 1
<1>1. /\ home \in Seq(Rooms) /\ history \in [Rooms -> Seq(Item)]
      /\ DOMAIN home = 1 .. Len(home) /\ Len(home) \in Nat
  BY DEF TypeOK
<1>2. /\ home' = Append(home, r) /\ n \in Messages
      /\ history' = [history EXCEPT ![r] = Append(@, Chat(n))]
      /\ UNCHANGED <<tldr, digest, weekly, task>>
  BY MessageType DEF AppendMessage
<1>3. /\ DOMAIN home' = 1 .. n
      /\ \A m \in DOMAIN home : m \in DOMAIN home' /\ home'[m] = home[m] /\ m <= n
  BY <1>1, <1>2
<1>4. /\ \A q \in Rooms : \A m \in tldr[q] : m \in DOMAIN home /\ home[m] = q
      /\ digest \subseteq DOMAIN home /\ weekly.of \subseteq DOMAIN home
  BY DEF Telling, Placed
<1> HIDE DEF n
<1>5. Placed'
  BY <1>2, <1>3, <1>4 DEF Placed
<1>6. \A q \in Rooms : /\ OfRoom(home', digest, q) = OfRoom(home, digest, q)
                       /\ OfRoom(home', weekly.of, q) = OfRoom(home, weekly.of, q)
  BY <1>3, <1>4 DEF OfRoom
<1>7. \A q \in Rooms : Spoken(q)' = Spoken(q) /\ \A m \in Spoken(q) : m \in DOMAIN home
  <2>1. \A q \in Rooms : Spoken(q)' = Spoken(q)
    BY <1>2, <1>6 DEF Spoken
  <2>2. \A q \in Rooms : \A m \in Spoken(q) : m \in DOMAIN home
    BY <1>4 DEF Spoken, OfRoom
  <2> QED
    BY <2>1, <2>2
<1>8. Succession'
  BY <1>2, <1>6 DEF Telling, Succession
<1>9. ASSUME NEW q \in Rooms, NEW A, Ahead(A, history[q]),
             \A m \in A : m \in DOMAIN home
      PROVE  Ahead(A, history'[q])
  <2>1. CASE q = r
    <3>1. history'[q] = Append(history[q], Chat(n)) /\ history[q] \in Seq(Item)
      BY <1>1, <1>2, <2>1
    <3>2. \A m \in A : m <= n
      BY <1>3, <1>9
    <3> QED
      BY <1>2, <1>9, <3>1, <3>2, AheadAppends
  <2>2. CASE q # r
    BY <1>1, <1>2, <1>9, <2>2
  <2> QED
    BY <2>1, <2>2
<1>10. HistoriesAhead'
  BY <1>7, <1>9 DEF Telling, HistoriesAhead
<1>11. ASSUME NEW q \in Rooms, NEW d \in Causes
       PROVE  SoundTask(home', history'[q], Spoken(q)', q, task'[<<q, d>>])
  <2> DEFINE c == task[<<q, d>>]
  <2>1. SoundTask(home, history[q], Spoken(q), q, c)
    BY DEF Telling, TasksSound
  <2>2. ASSUME c.at = "tldr"
        PROVE  /\ \A m \in c.old : m \in DOMAIN home' /\ home'[m] = q
               /\ Ahead(c.old, history'[q])
    BY <1>3, <1>9, <2>1, <2>2 DEF SoundTask
  <2>3. task' = task /\ Spoken(q)' = Spoken(q)
    BY <1>2, <1>7
  <2> QED
    BY <2>1, <2>2, <2>3 DEF SoundTask
<1>12. TasksSound'
  BY <1>11 DEF TasksSound
<1> QED
  BY <1>5, <1>8, <1>10, <1>12 DEF Telling

LEMMA TellingClear ==
  ASSUME TypeOK, Telling, NEW r \in Rooms, Clear(r)
  PROVE  Telling'
<1>1. /\ history' = [history EXCEPT ![r] = <<>>]
      /\ UNCHANGED <<home, tldr, digest, weekly, task>>
  BY DEF Clear
<1>2. \A q \in Rooms : history'[q] = history[q] \/ history'[q] = <<>>
  BY <1>1 DEF TypeOK
<1>3. \A q \in Rooms : Spoken(q)' = Spoken(q)
  BY <1>1 DEF Spoken
<1>4. Placed' /\ Succession'
  BY <1>1 DEF Telling, Placed, Succession
<1>5. HistoriesAhead'
  BY <1>2, <1>3, AheadEmpty DEF Telling, HistoriesAhead
<1>6. ASSUME NEW q \in Rooms, NEW d \in Causes
      PROVE  SoundTask(home', history'[q], Spoken(q)', q, task'[<<q, d>>])
  <2> DEFINE c == task[<<q, d>>]
  <2>1. SoundTask(home, history[q], Spoken(q), q, c)
    BY DEF Telling, TasksSound
  <2> HIDE DEF c
  <2>2. SoundTask(home, history'[q], Spoken(q), q, c)
    BY <1>2, <2>1, AheadEmpty DEF SoundTask
  <2> QED
    BY <1>1, <1>3, <2>2 DEF c
<1>7. TasksSound'
  BY <1>6 DEF TasksSound
<1> QED
  BY <1>4, <1>5, <1>7 DEF Telling

(* The steps of compactions that leave histories and TLDRs alone.          *)
LEMMA TellingQuiet ==
  ASSUME TypeOK, Telling, NEW r \in Rooms, NEW cause \in Causes,
         Reserves(r, cause) \/ Returns(r, cause) \/ GoesOn(r, cause)
  PROVE  Telling'
<1>1. UNCHANGED content
  BY DEF Reserves, Returns, GoesOn
<1>2. \A q \in Rooms : Spoken(q)' = Spoken(q)
  BY <1>1 DEF content, Spoken
<1>3. PICK t \in Tasks : /\ Becomes(r, cause, t)
                         /\ \/ t.at \notin {"asking", "tldr"}
                            \/ t = Asking(history[r])
  <2>1. history[r] \in Seq(Item)
    BY DEF TypeOK
  <2>2. Asking(history[r]) \in Tasks
    BY <2>1, AskingType
  <2> QED
    BY <2>2, OffType DEF Reserves, Returns, GoesOn, Off
<1>4. SoundTask(home, history[r], Spoken(r), r, t)
  <2>1. CASE t.at \notin {"asking", "tldr"}
    BY <2>1 DEF SoundTask
  <2>2. CASE t = Asking(history[r])
    <3>1. Ahead(Spoken(r), Planned(t)) /\ t.at = "asking"
      BY <2>2, AheadPlanned DEF TypeOK, Telling, HistoriesAhead, Asking
    <3> QED
      BY <3>1 DEF SoundTask
  <2> QED
    BY <1>3, <2>1, <2>2
<1>5. TasksSound'
  BY <1>1, <1>2, <1>3, <1>4, OthersSound DEF content
<1> QED
  BY <1>1, <1>2, <1>5 DEF content, Telling, Placed, Succession, HistoriesAhead

LEMMA TellingRewrite ==
  ASSUME TypeOK, ReservedExactly, PlansGood, Telling,
         NEW r \in Rooms, NEW cause \in Causes, Rewrite(r, cause)
  PROVE  Telling'
<1> DEFINE c == task[<<r, cause>>]
           t == [c EXCEPT !.at = "tldr", !.recent = <<>>]
           p == Planned(c)
<1>1. /\ c \in Tasks /\ c.at = "asking" /\ history \in [Rooms -> Seq(Item)]
      /\ history' = [history EXCEPT ![r] = p]
      /\ UNCHANGED <<home, tldr, digest, weekly>>
  BY DEF TypeOK, Tasks, Rewrite, Planned
<1>2. t \in Tasks /\ Becomes(r, cause, t)
  BY RewriteTask
<1>3. t.at = "tldr" /\ t.old = c.old
  BY <1>1 DEF Tasks
<1>4. Good(home, p, r) /\ Ahead(Spoken(r), p)
  BY <1>1 DEF PlansGood, Telling, TasksSound, SoundTask
<1>5. p \in Seq(Item) /\ 1 \in DOMAIN p /\ p[1].of = c.old
  <2>1. c.recent \in Seq(Item)
    BY <1>1 DEF Tasks
  <2> HIDE DEF c
  <2>2. Len(c.recent) \in Nat
    BY <2>1
  <2>3. p \in Seq(Item) /\ DOMAIN p = 1 .. Len(c.recent) + 1 /\ p[1] = Summary(c.old)
    BY <1>1, PlannedAccount
  <2> QED
    BY <2>2, <2>3 DEF Summary
<1>6. \A q \in Rooms : Spoken(q)' = Spoken(q)
  BY <1>1 DEF Spoken
<1> HIDE DEF c, t, p
<1>7. \A m \in c.old : m \in DOMAIN home /\ home[m] = r
  BY <1>4, <1>5 DEF Good, Own
<1>8. c.old # {} => Behind(Spoken(r), c.old)
  BY <1>4, <1>5 DEF Ahead
<1>9. Ahead(c.old, p)
  <2>1. ASSUME NEW i \in DOMAIN p, p[i].of # {}
        PROVE  Behind(c.old, p[i].of)
    <3>1. CASE i = 1
      <4>1. \A m \in c.old : m \in Int
        BY <1>1 DEF Tasks, Messages
      <4> QED
        BY <1>5, <3>1, <4>1 DEF Behind
    <3>2. CASE i # 1
      <4>1. 1 < i
        BY <1>5, <2>1, <3>2
      <4>2. \A m \in c.old, n \in p[i].of : m < n
        BY <1>4, <1>5, <4>1 DEF Good, Increasing
      <4>3. \A m \in c.old : m \in Int
        BY <1>1 DEF Tasks, Messages
      <4>4. \A n \in p[i].of : n \in Int
        <5>1. p[i] \in Item
          BY <1>5, <2>1
        <5> QED
          BY <5>1 DEF Item, Messages
      <4> QED
        BY <2>1, <4>2, <4>3, <4>4 DEF Behind
    <3> QED
      BY <3>1, <3>2
  <2> QED
    BY <2>1 DEF Ahead
<1>10. SoundTask(home, history'[r], Spoken(r)', r, t)
  BY <1>1, <1>3, <1>6, <1>7, <1>8, <1>9 DEF SoundTask
<1>11. \A d \in Causes : d # cause => ~On(r, d)
  <2>1. On(r, cause)
    BY <1>1 DEF On, c
  <2> QED
    BY <2>1, OneAtATime
<1>12. TasksSound'
  <2>1. \A q \in Rooms : q # r => history'[q] = history[q] /\ tldr'[q] = tldr[q]
    BY <1>1
  <2> QED
    BY <1>1, <1>2, <1>10, <1>11, <2>1, OthersSound
<1>13. HistoriesAhead'
  BY <1>1, <1>4, <1>6 DEF Telling, HistoriesAhead
<1> QED
  BY <1>1, <1>12, <1>13 DEF Telling, Placed, Succession

LEMMA TellingTldr ==
  ASSUME TypeOK, ReservedExactly, Telling,
         NEW r \in Rooms, NEW cause \in Causes, NEW b \in BOOLEAN,
         WriteTldr(r, cause, b)
  PROVE  /\ Telling'
         /\ \A q \in Rooms : tldr'[q] # {} => Behind(tldr[q], tldr'[q])
<1> DEFINE c == task[<<r, cause>>]
           t == [c EXCEPT !.at = "distil", !.file = r]
           D(q) == OfRoom(home, digest, q)
           W(q) == OfRoom(home, weekly.of, q)
<1>1. /\ c \in Tasks /\ c.at = "tldr" /\ tldr \in [Rooms -> SUBSET Messages]
      /\ tldr' = tldr \/ tldr' = [tldr EXCEPT ![r] = c.old]
      /\ UNCHANGED <<home, history, digest, weekly>>
  BY DEF TypeOK, Tasks, WriteTldr
<1>2. t \in Tasks /\ Becomes(r, cause, t) /\ t.at = "distil"
  <2>1. t \in Tasks /\ Becomes(r, cause, t)
    BY TldrTask
  <2>2. t.at = "distil"
    BY <1>1 DEF Tasks
  <2> QED
    BY <2>1, <2>2
<1>3. SoundTask(home, history[r], Spoken(r), r, c)
  BY DEF Telling, TasksSound
<1>4. /\ \A q \in Rooms : Spoken(q) = tldr[q] \cup D(q) \cup W(q)
      /\ \A q \in Rooms : Spoken(q)' = tldr'[q] \cup D(q) \cup W(q)
  BY <1>1 DEF Spoken
<1> HIDE DEF c, t
<1>5. /\ \A m \in c.old : m \in DOMAIN home /\ home[m] = r
      /\ c.old # {} => Behind(Spoken(r), c.old)
      /\ Ahead(c.old, history[r])
  BY <1>1, <1>3 DEF SoundTask
<1>6. ASSUME NEW q \in Rooms
      PROVE  tldr'[q] = tldr[q] \/ (q = r /\ tldr'[q] = c.old)
  <2>1. CASE tldr' = tldr
    BY <2>1
  <2>2. CASE tldr' = [tldr EXCEPT ![r] = c.old]
    BY <1>1, <2>2
  <2> QED
    BY <1>1, <2>1, <2>2
<1>7. \A q \in Rooms : \A m \in tldr[q] : m \in Int
  BY <1>1 DEF Messages
<1>8. \A q \in Rooms : tldr'[q] # {} => Behind(tldr[q], tldr'[q])
  <2>1. \A q \in Rooms : Behind(tldr[q], tldr[q])
    BY <1>7 DEF Behind
  <2>2. c.old # {} => Behind(tldr[r], c.old)
    BY <1>4, <1>5 DEF Behind
  <2> QED
    BY <1>6, <2>1, <2>2
<1>9. Placed'
  BY <1>1, <1>5, <1>6 DEF Telling, Placed
<1>10. HistoriesAhead'
  <2>1. ASSUME NEW q \in Rooms
        PROVE  Ahead(Spoken(q)', history[q])
    <3>1. Ahead(Spoken(q), history[q])
      BY DEF Telling, HistoriesAhead
    <3>2. CASE tldr'[q] = tldr[q]
      BY <1>4, <3>1, <3>2
    <3>3. CASE q = r /\ tldr'[q] = c.old
      BY <1>4, <1>5, <3>1, <3>3 DEF Ahead, Behind
    <3> QED
      BY <1>6, <3>2, <3>3
  <2> QED
    BY <1>1, <2>1 DEF HistoriesAhead
<1>11. Succession'
  <2>1. ASSUME NEW q \in Rooms
        PROVE  /\ tldr'[q] # {} => Behind(D(q), tldr'[q]) /\ Behind(W(q), tldr'[q])
               /\ W(q) # {} => Behind(D(q), W(q))
    <3>1. /\ tldr[q] # {} => Behind(D(q), tldr[q]) /\ Behind(W(q), tldr[q])
          /\ W(q) # {} => Behind(D(q), W(q))
      BY DEF Telling, Succession
    <3>2. c.old # {} => Behind(D(r), c.old) /\ Behind(W(r), c.old)
      BY <1>4, <1>5 DEF Behind
    <3> HIDE DEF D, W
    <3> QED
      BY <1>6, <3>1, <3>2
  <2> QED
    BY <1>1, <2>1 DEF Succession
<1>12. TasksSound'
  <2>1. On(r, cause)
    BY <1>1 DEF On, c
  <2>2. \A d \in Causes : d # cause => ~On(r, d)
    BY <2>1, OneAtATime
  <2>3. SoundTask(home, history'[r], Spoken(r)', r, t)
    BY <1>2 DEF SoundTask
  <2>4. \A q \in Rooms : q # r => history'[q] = history[q] /\ tldr'[q] = tldr[q]
    BY <1>1
  <2> QED
    BY <1>1, <1>2, <2>2, <2>3, <2>4, OthersSound
<1> QED
  BY <1>8, <1>9, <1>10, <1>11, <1>12 DEF Telling

LEMMA TellingStep ==
  ASSUME TypeOK, ReservedExactly, HistoriesGood, PlansGood, Telling, [Next]_vars
  PROVE  Telling'
<1>1. CASE Elsewhere
  BY <1>1, TellsNoMore DEF Elsewhere, content
<1>2. CASE AskDigest
  BY <1>2, TellsNoMore DEF AskDigest, files
<1>3. CASE \E b \in BOOLEAN : WriteDigest(b)
  BY <1>3, TellsNoMore DEF WriteDigest, Quiet
<1>4. CASE Restart
  <2>1. \A x \in Rooms \X Causes : task'[x] = Off
    BY <1>4 DEF Restart
  <2> QED
    BY <1>4, <2>1, TellsNoMore DEF Restart, files, Quiet
<1> QED
  BY <1>1, <1>2, <1>3, <1>4, TellingAppend, TellingClear, TellingQuiet,
    TellingRewrite, TellingTldr, Kinds

-----------------------------------------------------------------------------
(* The inductive invariant.                                                *)

IInv ==
  TypeOK /\ ReservedExactly /\ HistoriesGood /\ PlansGood /\ OthersLater /\ Telling

(* IInv holds in every reachable state.                                    *)
THEOREM ConversationInvariance == Spec => []IInv
<1>1. Init => IInv
  BY TypeInit, ReservedInit, GoodInit, LaterInit, TellingInit DEF IInv
<1>2. IInv /\ [Next]_vars => IInv'
  BY TypeStep, ReservedStep, GoodStep, LaterStep, TellingStep DEF IInv
<1> QED
  BY <1>1, <1>2, PTL DEF Spec

(* Every variable keeps its type.                                          *)
THEOREM ConversationTypeCorrect == Spec => []TypeOK
<1>1. IInv => TypeOK
  BY DEF IInv
<1> QED
  BY <1>1, ConversationInvariance, PTL

(* A room is compacted by one task at a time and reserved exactly while it *)
(* is, whichever way a compaction ends.                                    *)
THEOREM ReservationsHold == Spec => []ReservedExactly
<1>1. IInv => ReservedExactly
  BY DEF IInv
<1> QED
  BY <1>1, ConversationInvariance, PTL

(* Histories are in order and hold nothing twice, for any number of rooms, *)
(* messages, overlapping compactions and restarts.                         *)
THEOREM HistoriesInOrder == Spec => []InOrder
<1>1. HistoriesGood => InOrder
  BY Said DEF HistoriesGood, InOrder, Good, Increasing
<1>2. IInv => HistoriesGood
  BY DEF IInv
<1> QED
  BY <1>1, <1>2, ConversationInvariance, PTL

(* A message that was summarised is followed by KeepRecent of its room.    *)
THEOREM RecentStayVerbatim == Spec => []SummarisedIsOld
<1>1. HistoriesGood => SummarisedIsOld
  BY DEF HistoriesGood, SummarisedIsOld, Good, Aged, After
<1>2. IInv => HistoriesGood
  BY DEF IInv
<1> QED
  BY <1>1, <1>2, ConversationInvariance, PTL

(* What a rewrite loses came after the compaction had read the history.    *)
THEOREM LossIsLate == Spec => OnlyLateMessagesLost
<1>1. IInv /\ [Next]_vars =>
        [\A r \in Rooms :
           LET lost == Account(history[r]) \ Account(history'[r]) IN
           \/ lost = {} \/ history'[r] = <<>>
           \/ \E cause \in Causes :
                LET c == task[<<r, cause>>] IN
                /\ c.at = "asking"
                /\ \A m \in lost, n \in c.old \cup Account(c.recent) : m > n]_vars
  BY LostLate DEF IInv
<1> QED
  BY <1>1, ConversationInvariance, PTL DEF Spec, OnlyLateMessagesLost

LEMMA Advances ==
  ASSUME IInv, [Next]_vars
  PROVE  /\ \A r \in Rooms : tldr'[r] # {} =>
              \A m \in tldr[r] : \E n \in tldr'[r] : m <= n
         /\ \A m \in digest :
              LET now == {n \in digest' : home[n] = home[m]} IN
              now # {} => \E n \in now : m <= n
<1> USE DEF IInv
<1>1. /\ \A r \in Rooms : \A m \in tldr[r] : m \in Int
      /\ \A m \in digest : m \in Int
      /\ \A m \in digest : m \in DOMAIN home /\ home[m] \in Rooms
  BY DEF TypeOK, Messages, Telling, Placed
<1>2. CASE tldr' = tldr /\ digest' = digest
  BY <1>1, <1>2
<1>3. CASE \E r \in Rooms, cause \in Causes, b \in BOOLEAN : WriteTldr(r, cause, b)
  <2>1. digest' = digest
    BY <1>3 DEF WriteTldr
  <2>2. \A q \in Rooms : tldr'[q] # {} => Behind(tldr[q], tldr'[q])
    BY <1>3, TellingTldr
  <2> QED
    BY <1>1, <2>1, <2>2 DEF Behind
<1>4. CASE \E b \in BOOLEAN : WriteDigest(b)
  <2>1. tldr' = tldr /\ (digest' = digest \/ digest' = weekly.of)
    BY <1>4 DEF WriteDigest
  <2>2. ASSUME NEW m \in digest, digest' = weekly.of,
               {n \in digest' : home[n] = home[m]} # {}
        PROVE  \E n \in {n \in digest' : home[n] = home[m]} : m <= n
    <3> DEFINE r == home[m]
    <3>1. /\ m \in OfRoom(home, digest, r) /\ r \in Rooms
          /\ OfRoom(home, weekly.of, r) = {n \in digest' : home[n] = r}
      BY <1>1, <2>2 DEF OfRoom
    <3>2. Behind(OfRoom(home, digest, r), OfRoom(home, weekly.of, r))
      BY <2>2, <3>1 DEF Telling, Succession
    <3> QED
      BY <3>1, <3>2 DEF Behind
  <2> QED
    BY <1>1, <2>1, <2>2
<1>5. CASE \/ Elsewhere \/ AskDigest \/ Restart
           \/ \E r \in Rooms : AppendMessage(r) \/ Clear(r)
           \/ \E r \in Rooms, cause \in Causes :
                \/ Reserves(r, cause) \/ Returns(r, cause) \/ GoesOn(r, cause)
                \/ Rewrite(r, cause)
  <2>1. tldr' = tldr /\ digest' = digest
    BY <1>5 DEF Elsewhere, AskDigest, Restart, AppendMessage, Clear, Reserves,
      Returns, GoesOn, Rewrite, content, files
  <2> QED
    BY <1>2, <2>1
<1> QED
  BY <1>3, <1>4, <1>5, Kinds

(* What has been told of a room by its TLDR or the digest never goes back, *)
(* across /clear, restarts and compactions of short histories.             *)
THEOREM TellingAdvances == Spec => TldrAdvances
<1>1. IInv /\ [Next]_vars =>
        [/\ \A r \in Rooms : tldr'[r] # {} =>
              \A m \in tldr[r] : \E n \in tldr'[r] : m <= n
         /\ \A m \in digest :
              LET now == {n \in digest' : home[n] = home[m]} IN
              now # {} => \E n \in now : m <= n]_vars
  BY Advances
<1> QED
  BY <1>1, ConversationInvariance, PTL DEF Spec, TldrAdvances

-----------------------------------------------------------------------------
(* The memory of a room.                                                   *)

(* A compaction works on its room's memory file or on the global one. What *)
(* it has read of its room's, to append to it or to condense it, is all    *)
(* that is in it: only /forget has touched the file since.                 *)
Copied(r, cause) ==
  LET c == task[<<r, cause>>] IN
  /\ c.at \in {"distil", "append", "weigh", "condense"} => c.file \in {r, Global}
  /\ c.at \in {"append", "condense"} /\ c.file = r => memory[r] \subseteq c.copy

CopiesCover == \A r \in Rooms, cause \in Causes : Copied(r, cause)

LEMMA CopyMoves ==
  ASSUME TypeOK, NEW r \in Rooms, NEW cause \in Causes, Copied(r, cause),
         CompactionStep(r, cause)
  PROVE  /\ Copied(r, cause)'
         /\ \A x \in Rooms \X Causes : x # <<r, cause>> => task'[x] = task[x]
         /\ memory[r] \subseteq memory'[r]
         /\ \A q \in Rooms : q # r => memory'[q] = memory[q]
<1> DEFINE x == <<r, cause>>
           c == task[x]
           Goal == /\ Copied(r, cause)'
                   /\ \A y \in Rooms \X Causes : y # x => task'[y] = task[y]
                   /\ memory[r] \subseteq memory'[r]
                   /\ \A q \in Rooms : q # r => memory'[q] = memory[q]
<1>1. /\ x \in Rooms \X Causes /\ task \in [Rooms \X Causes -> Tasks] /\ c \in Tasks
      /\ memory \in [Files -> SUBSET Messages] /\ r \in Files /\ Global \in Files
      /\ r # Global /\ \A q \in Rooms : q \in Files /\ q # Global
  BY GlobalAssumption DEF TypeOK, Tasks, Files
<1>2. ASSUME NEW t \in Tasks, task' = [task EXCEPT ![x] = t],
             t.at \in {"distil", "append", "weigh", "condense"} => t.file \in {r, Global},
             t.at \in {"append", "condense"} /\ t.file = r => memory'[r] \subseteq t.copy,
             \/ memory' = memory
             \/ \E f \in {r, Global}, s \in SUBSET Messages :
                  /\ memory' = [memory EXCEPT ![f] = s]
                  /\ f = r => memory[r] \subseteq s
      PROVE  Goal
  <2>1. task'[x] = t /\ \A y \in Rooms \X Causes : y # x => task'[y] = task[y]
    BY <1>1, <1>2
  <2>2. Copied(r, cause)'
    BY <1>2, <2>1 DEF Copied
  <2>3. memory[r] \subseteq memory'[r] /\ \A q \in Rooms : q # r => memory'[q] = memory[q]
    BY <1>1, <1>2
  <2> QED
    BY <2>1, <2>2, <2>3
<1>3. ASSUME NextFile(r, cause),
             \/ memory' = memory
             \/ \E f \in {r, Global}, s \in SUBSET Messages :
                  /\ memory' = [memory EXCEPT ![f] = s]
                  /\ f = r => memory[r] \subseteq s
      PROVE  Goal
  <2>1. CASE c.file = Global
    <3>1. task' = [task EXCEPT ![x] = Off] /\ Off.at = "off"
      BY <1>3, <2>1 DEF NextFile, End, Off
    <3> QED
      BY <1>2, <1>3, <3>1, OffType
  <2>2. CASE c.file # Global
    <3>1. PICK t \in Tasks : t = [c EXCEPT !.at = "distil", !.file = Global, !.copy = {}]
      BY <1>1 DEF Tasks, Phases
    <3>2. task' = [task EXCEPT ![x] = t]
      BY <1>1, <1>3, <2>2, <3>1 DEF NextFile, Tasks
    <3>3. t.at = "distil" /\ t.file = Global
      BY <1>1, <3>1 DEF Tasks
    <3> QED
      BY <1>2, <1>3, <3>2, <3>3
  <2> QED
    BY <2>1, <2>2
<1>4. CASE GiveUp(r, cause) \/ DistilFails(r, cause)
  <2>1. task' = [task EXCEPT ![x] = Off] /\ Off.at = "off" /\ memory' = memory
    BY <1>4 DEF GiveUp, DistilFails, End, Off, files
  <2> QED
    BY <1>2, <2>1, OffType
<1>5. CASE NoFacts(r, cause) \/ Fits(r, cause)
  BY <1>3, <1>5 DEF NoFacts, Fits, files
<1>6. CASE Rewrite(r, cause)
  <2>1. PICK t \in Tasks : t = [c EXCEPT !.at = "tldr", !.recent = <<>>] /\ Becomes(r, cause, t)
    BY <1>6, RewriteTask
  <2>2. t.at = "tldr" /\ memory' = memory
    BY <1>1, <1>6, <2>1 DEF Tasks, Rewrite
  <2> QED
    BY <1>2, <2>1, <2>2 DEF Becomes
<1>7. ASSUME NEW b \in BOOLEAN, WriteTldr(r, cause, b) PROVE Goal
  <2>1. PICK t \in Tasks : t = [c EXCEPT !.at = "distil", !.file = r] /\ Becomes(r, cause, t)
    BY <1>7, TldrTask
  <2>2. t.at = "distil" /\ t.file = r /\ memory' = memory
    BY <1>1, <1>7, <2>1 DEF Tasks, WriteTldr
  <2> QED
    BY <1>2, <2>1, <2>2 DEF Becomes
<1>8. CASE ReadFacts(r, cause) \/ Overflows(r, cause)
  <2>1. PICK a \in {"append", "condense"} :
          /\ task' = [task EXCEPT ![x].at = a, ![x].copy = memory[c.file]]
          /\ c.at \in {"distil", "weigh"} /\ memory' = memory
    BY <1>8 DEF ReadFacts, Overflows, files
  <2>2. PICK t \in Tasks : /\ t.at = a /\ t.file = c.file /\ t.copy = memory[c.file]
                          /\ task' = [task EXCEPT ![x] = t]
    <3> DEFINE u == [c EXCEPT !.at = a, !.copy = memory[c.file]]
    <3>1. u \in Tasks
      BY <1>1 DEF Tasks, Phases
    <3>2. u.at = a /\ u.file = c.file /\ u.copy = memory[c.file]
      BY <1>1 DEF Tasks
    <3>3. task' = [task EXCEPT ![x] = u]
      BY <1>1, <2>1 DEF Tasks
    <3> QED
      BY <3>1, <3>2, <3>3
  <2>3. t.file \in {r, Global}
    BY <2>1, <2>2 DEF Copied
  <2>4. t.file = r => memory'[r] \subseteq t.copy
    BY <2>1, <2>2
  <2> QED
    BY <1>2, <2>1, <2>2, <2>3, <2>4
<1>9. CASE Distil(r, cause)
  <2>1. /\ c.at = "append" /\ task' = [task EXCEPT ![x].at = "weigh"]
        /\ memory' = [memory EXCEPT ![c.file] = c.copy \cup c.old]
    BY <1>9 DEF Distil
  <2>2. PICK t \in Tasks : t = [c EXCEPT !.at = "weigh"]
    BY <1>1 DEF Tasks, Phases
  <2>3. t.at = "weigh" /\ t.file = c.file
    BY <1>1, <2>2 DEF Tasks
  <2>4. task' = [task EXCEPT ![x] = t]
    BY <1>1, <2>1, <2>2 DEF Tasks
  <2>5. c.file \in {r, Global} /\ (c.file = r => memory[r] \subseteq c.copy \cup c.old)
    BY <2>1 DEF Copied
  <2>6. c.copy \cup c.old \in SUBSET Messages
    BY <1>1 DEF Tasks
  <2> QED
    BY <1>2, <2>1, <2>3, <2>4, <2>5, <2>6
<1>10. ASSUME NEW ok \in BOOLEAN, Condense(r, cause, ok) PROVE Goal
  <2>1. /\ c.at = "condense" /\ NextFile(r, cause)
        /\ memory' = memory \/ memory' = [memory EXCEPT ![c.file] = c.copy]
    BY <1>10 DEF Condense
  <2>2. c.file \in {r, Global} /\ (c.file = r => memory[r] \subseteq c.copy)
    BY <2>1 DEF Copied
  <2>3. c.copy \in SUBSET Messages
    BY <1>1 DEF Tasks
  <2> QED
    BY <1>3, <2>1, <2>2, <2>3
<1> QED
  BY <1>4, <1>5, <1>6, <1>7, <1>8, <1>9, <1>10 DEF CompactionStep

LEMMA CopyStep ==
  ASSUME TypeOK, ReservedExactly, CopiesCover, [Next]_vars
  PROVE  /\ CopiesCover'
         /\ \A r \in Rooms : memory[r] \subseteq memory'[r] \/ Forget(r)
<1> DEFINE Goal == /\ CopiesCover'
                   /\ \A r \in Rooms : memory[r] \subseteq memory'[r] \/ Forget(r)
<1>1. /\ task \in [Rooms \X Causes -> Tasks]
      /\ memory \in [Files -> SUBSET Messages]
      /\ \A r \in Rooms : r \in Files /\ r # Global
  BY GlobalAssumption DEF TypeOK, Tasks, Files
<1>2. ASSUME UNCHANGED <<memory, task>> PROVE Goal
  BY <1>2 DEF CopiesCover, Copied
<1>3. CASE \/ UNCHANGED vars \/ Nightfall \/ AskDigest
           \/ \E b \in BOOLEAN : WriteDigest(b)
           \/ \E r \in Rooms : AppendMessage(r) \/ Clear(r) \/ MaybeCompact(r)
  BY <1>2, <1>3
     DEF vars, files, Nightfall, AskDigest, WriteDigest, AppendMessage, Clear, MaybeCompact
<1>4. ASSUME NEW f \in Files, Forget(f) PROVE Goal
  <2>1. task' = task /\ memory' = [memory EXCEPT ![f] = {}]
    BY <1>4 DEF Forget
  <2>2. ASSUME NEW r \in Rooms
        PROVE  /\ memory'[r] \subseteq memory[r]
               /\ memory[r] \subseteq memory'[r] \/ Forget(r)
    BY <1>1, <1>4, <2>1
  <2> QED
    BY <2>1, <2>2 DEF CopiesCover, Copied
<1>5. CASE Restart
  BY <1>5 DEF Restart, files, Off, CopiesCover, Copied
<1>6. ASSUME NEW r \in Rooms, NEW cause \in Causes, Begin(r, cause), UNCHANGED files
      PROVE  Goal
  <2>1. CASE UNCHANGED task
    BY <1>2, <1>6, <2>1 DEF files
  <2>2. CASE task' = [task EXCEPT ![<<r, cause>>] = Asking(history[r])]
    <3>1. Asking(history[r]).at = "asking"
      BY DEF Asking
    <3>2. ASSUME NEW q \in Rooms, NEW d \in Causes PROVE Copied(q, d)'
      BY <1>1, <1>6, <2>2, <3>1 DEF CopiesCover, Copied, files
    <3> QED
      BY <1>6, <3>2 DEF CopiesCover, files
  <2> QED
    BY <1>6, <2>1, <2>2 DEF Begin
<1>7. CASE \E r \in Rooms : Start(r)
  <2>1. "size" \in Causes
    BY DEF Causes
  <2> QED
    BY <1>6, <1>7, <2>1 DEF Start
<1>8. CASE Visit
  <2>1. Head(sweep) \in Rooms /\ "nightly" \in Causes
    BY <1>8 DEF Visit, TypeOK, Causes
  <2> QED
    BY <1>6, <1>8, <2>1 DEF Visit
<1>9. ASSUME NEW r \in Rooms, NEW cause \in Causes, CompactionStep(r, cause)
      PROVE  Goal
  <2>1. /\ Copied(r, cause)'
        /\ \A x \in Rooms \X Causes : x # <<r, cause>> => task'[x] = task[x]
        /\ memory[r] \subseteq memory'[r]
        /\ \A q \in Rooms : q # r => memory'[q] = memory[q]
    BY <1>9, CopyMoves DEF CopiesCover
  <2>2. On(r, cause)
    BY <1>9 DEF CompactionStep, GiveUp, Rewrite, NoFacts, ReadFacts, Distil, DistilFails,
       Fits, Overflows, WriteTldr, Condense, On
  <2>3. ASSUME NEW q \in Rooms, NEW d \in Causes PROVE Copied(q, d)'
    <3>1. CASE q = r /\ d = cause
      BY <2>1, <3>1
    <3>2. CASE q = r /\ d # cause
      <4>1. ~On(q, d)
        BY <2>2, <3>2, OneAtATime
      <4>2. task'[<<q, d>>] = task[<<q, d>>]
        BY <2>1, <3>2
      <4> QED
        BY <4>1, <4>2 DEF On, Copied
    <3>3. CASE q # r
      <4>1. task'[<<q, d>>] = task[<<q, d>>] /\ memory'[q] = memory[q]
        BY <2>1, <3>3
      <4> QED
        BY <4>1 DEF CopiesCover, Copied
    <3> QED
      BY <3>1, <3>2, <3>3
  <2>4. \A q \in Rooms : memory[q] \subseteq memory'[q]
    BY <2>1
  <2> QED
    BY <2>3, <2>4 DEF CopiesCover
<1> QED
  BY <1>3, <1>4, <1>5, <1>7, <1>8, <1>9 DEF Next

(* What a room's memory holds stays in it until /forget, for all rooms and *)
(* messages, wherever a /forget, another compaction or a crash falls: the  *)
(* reservation of the room keeps everybody else from its file between the  *)
(* reading and the writing of it, over the wait for the model as well.     *)
THEOREM RoomMemoriesKept == Spec => RoomFactsKept
<1>1. Init => CopiesCover
  BY DEF Init, Off, CopiesCover, Copied
<1>2. IInv /\ CopiesCover /\ [Next]_vars => CopiesCover'
  BY CopyStep DEF IInv
<1>3. IInv /\ CopiesCover /\ [Next]_vars
        => [\A r \in Rooms : memory[r] \subseteq memory'[r] \/ Forget(r)]_vars
  BY CopyStep DEF IInv
<1>4. Spec => []CopiesCover
  BY <1>1, <1>2, ConversationInvariance, PTL DEF Spec
<1> QED
  BY <1>3, <1>4, ConversationInvariance, PTL DEF Spec, RoomFactsKept

-----------------------------------------------------------------------------
(* Scheduler. What makes OncePerHour hold is a balance (Balanced): the     *)
(* wall clock and what it was set back by are past the last work by at     *)
(* least the time that was rested and slept since; a clock set forward     *)
(* adds to it. A restart takes the rest out of the balance, and the sleep, *)
(* which is never empty (UntilPositive), makes it strict. A time is put    *)
(* together from its week, its day and its hour (WholeDays, MadeUp), which *)
(* shows that a sleep ends at the configured hour and that no such hour    *)
(* lies before its end (SleepsRightly).                                    *)

LEMMA DayPositive == Hour \in Nat /\ Hour > 0 /\ Day \in Nat /\ Day > 0 /\ Week = 7 * Day
  BY TimeAssumption DEF Day, Week

(* The days that have passed.                                              *)
LEMMA DayOf ==
  ASSUME NEW now \in Nat, NEW d \in Nat, d > 0
  PROVE  /\ now \div d \in Nat
         /\ (now \div d) * d <= now /\ now < (now \div d) * d + d
  OBVIOUS

LEMMA HourOfDay ==
  ASSUME NEW hour \in Nat
  PROVE  (hour % 24) * Hour \in Nat
<1>1. hour % 24 \in Nat
  OBVIOUS
<1> QED
  BY <1>1, DayPositive

LEMMA UntilHourPositive ==
  ASSUME NEW now \in Nat, NEW hour \in Nat
  PROVE  UntilHour(now, hour) \in Nat /\ UntilHour(now, hour) > 0
<1> DEFINE a == (now \div Day) * Day
           b == (hour % 24) * Hour
<1>1. now \div Day \in Nat /\ a <= now /\ now < a + Day /\ Day \in Nat
  BY DayPositive, DayOf
<1>2. a \in Nat
  BY <1>1
<1>3. b \in Nat
  BY HourOfDay
<1>4. PICK t : t = a + b
  OBVIOUS
<1>5. UntilHour(now, hour) = IF t > now THEN t - now ELSE t + Day - now
  BY <1>4, Zenon DEF UntilHour
<1> HIDE DEF a, b
<1> QED
  BY <1>1, <1>2, <1>3, <1>4, <1>5

LEMMA UntilWeekdayPositive ==
  ASSUME NEW now \in Nat, NEW weekday \in 0 .. 6, NEW hour \in Nat
  PROVE  /\ UntilWeekdayHour(now, weekday, hour) \in Nat
         /\ UntilWeekdayHour(now, weekday, hour) > 0
<1> DEFINE e     == now \div Day
           today == (e + 4) % 7
           ahead == IF weekday >= today THEN weekday - today ELSE 7 - today + weekday
           a     == (e + ahead) * Day
           b     == (hour % 24) * Hour
<1>1. e \in Nat /\ e * Day <= now /\ now < e * Day + Day /\ Day \in Nat
  BY DayPositive, DayOf
<1>2. today \in 0 .. 6
  BY <1>1
<1>3. ahead \in Nat
  BY <1>2
<1>4. b \in Nat
  BY HourOfDay
<1>5. PICK t : t = a + b
  OBVIOUS
<1>6. UntilWeekdayHour(now, weekday, hour) =
        IF t <= now THEN t + Week - now ELSE t - now
  BY <1>5, Zenon DEF UntilWeekdayHour
<1> HIDE DEF e, ahead, b
<1>7. a = e * Day + ahead * Day
  BY <1>1, <1>3
<1>8. e * Day \in Nat /\ ahead * Day \in Nat
  BY <1>1, <1>3
<1> HIDE DEF a
<1> QED
  BY <1>1, <1>4, <1>5, <1>6, <1>7, <1>8, DayPositive

(* A loop that lies down sleeps for a while.                               *)
LEMMA UntilPositive ==
  ASSUME ClockTypeOK
  PROVE  Until(wall) \in Nat /\ Until(wall) > 0
<1>1. wall \in Nat /\ setting.hour \in Nat
  BY TimeAssumption DEF ClockTypeOK, Settings
<1>2. CASE setting.loop = "nightly"
  BY <1>1, <1>2, UntilHourPositive DEF Until
<1>3. CASE setting.loop # "nightly"
  <2>1. setting.day \in Nat
    BY <1>3, TimeAssumption DEF ClockTypeOK, Settings
  <2>2. setting.day % 7 \in 0 .. 6
    BY <2>1
  <2> QED
    BY <1>1, <1>3, <2>2, UntilWeekdayPositive DEF Until
<1> QED
  BY <1>2, <1>3

-----------------------------------------------------------------------------
(* What time it would be if the clock had not been set back.               *)
Reckoned == wall + back

(* Past the last work, and past it by an hour once it has been rested.     *)
Balanced ==
  last # Never =>
    /\ Reckoned >= last
    /\ at = "resting" /\ ~restarted => left <= Hour /\ Reckoned >= last + (Hour - left)
    /\ at = "asleep" =>
         LET due == IF restarted THEN last ELSE last + Hour IN
         Reckoned >= due /\ (left = 0 => Reckoned > due)
    /\ at = "off" => restarted

ClockInv == ClockTypeOK /\ Balanced

LEMMA SchedulerInit == ClockInit => ClockInv
<1> SUFFICES ASSUME ClockInit
             PROVE  ClockInv
  OBVIOUS
<1>1. wall \in Nat
  BY DayPositive DEF ClockInit
<1>2. ClockTypeOK
  <2>1. setting \in Settings /\ at \in LoopPhases /\ last \in Nat \cup {Never}
    BY DEF ClockInit, LoopPhases
  <2>2. sets \in 0 .. MaxSets /\ left \in Nat /\ back \in Nat
    BY TimeAssumption DEF ClockInit
  <2>3. astray \in BOOLEAN /\ restarted \in BOOLEAN
    BY DEF ClockInit
  <2> QED
    BY <1>1, <2>1, <2>2, <2>3 DEF ClockTypeOK
<1>3. Balanced
  BY DEF ClockInit, Balanced
<1> QED
  BY <1>2, <1>3 DEF ClockInv

LEMMA LieDownStep ==
  ASSUME ClockInv, StartProcess \/ Rested
  PROVE  ClockInv'
<1>1. Until(wall) \in Nat /\ Until(wall) > 0
  BY UntilPositive DEF ClockInv
<1>2. at' = "asleep" /\ left' = Until(wall) /\ astray' = FALSE
      /\ UNCHANGED <<setting, wall, sets, last, back, restarted>>
  BY DEF StartProcess, Rested, LieDown
<1>3. ClockTypeOK'
  BY <1>1, <1>2 DEF ClockInv, ClockTypeOK, LoopPhases
<1>4. Balanced'
  BY <1>1, <1>2, DayPositive DEF ClockInv, ClockTypeOK, Balanced, Reckoned, StartProcess, Rested, Due, Never
<1> QED
  BY <1>3, <1>4 DEF ClockInv

LEMMA StopStep ==
  ASSUME ClockInv, StopProcess
  PROVE  ClockInv'
  BY DEF ClockInv, ClockTypeOK, Balanced, Reckoned, StopProcess, LoopPhases

LEMMA TickStep ==
  ASSUME ClockInv, Tick
  PROVE  ClockInv'
<1>1. ClockTypeOK'
  BY DEF ClockInv, ClockTypeOK, Tick, Due
<1>2. Balanced'
  BY DayPositive DEF ClockInv, ClockTypeOK, Balanced, Reckoned, Tick, Due, Never
<1> QED
  BY <1>1, <1>2 DEF ClockInv

LEMMA SetClockStep ==
  ASSUME ClockInv, NEW new \in Nat, SetClock(new)
  PROVE  ClockInv'
<1>1. ClockTypeOK'
  BY TimeAssumption DEF ClockInv, ClockTypeOK, SetClock
<1>2. Reckoned' >= Reckoned /\ Reckoned \in Nat /\ Reckoned' \in Nat
  BY DEF ClockInv, ClockTypeOK, SetClock, Reckoned
<1>3. Balanced'
  BY <1>2, DayPositive DEF ClockInv, ClockTypeOK, Balanced, SetClock, Never
<1> QED
  BY <1>1, <1>3 DEF ClockInv

LEMMA WorkStep ==
  ASSUME ClockInv, Work \/ EndWork
  PROVE  ClockInv'
<1>1. ClockTypeOK'
  <2>1. CASE Work
    BY <2>1 DEF ClockInv, ClockTypeOK, Work, LoopPhases
  <2>2. CASE EndWork
    BY <2>2, DayPositive DEF ClockInv, ClockTypeOK, EndWork, LoopPhases
  <2> QED
    BY <2>1, <2>2
<1>2. Balanced'
  BY DayPositive DEF ClockInv, ClockTypeOK, Balanced, Reckoned, Work, EndWork, Never
<1> QED
  BY <1>1, <1>2 DEF ClockInv

(* ClockInv holds in every reachable state.                                *)
THEOREM SchedulerInvariance == ClockSpec => []ClockInv
<1>1. ASSUME ClockInv, ClockNext PROVE ClockInv'
  <2>1. wall \in Nat /\ \A s \in Steps : s \in Nat
    BY <1>1, TimeAssumption DEF ClockInv, ClockTypeOK
  <2>2. CASE StartProcess \/ Rested
    BY <1>1, <2>2, LieDownStep
  <2>3. CASE \E s \in Steps : SetClock(wall + s) \/ (s <= wall /\ SetClock(wall - s))
    <3>1. PICK s \in Steps : SetClock(wall + s) \/ (s <= wall /\ SetClock(wall - s))
      BY <2>3
    <3>2. \E new \in Nat : SetClock(new)
      <4>1. s \in Nat
        BY <2>1
      <4>2. CASE SetClock(wall + s)
        <5>1. PICK new \in Nat : new = wall + s
          BY <2>1, <4>1
        <5> QED
          BY <4>2, <5>1
      <4>3. CASE s <= wall /\ SetClock(wall - s)
        <5>1. PICK new \in Nat : new = wall - s
          BY <2>1, <4>1, <4>3
        <5> QED
          BY <4>3, <5>1
      <4> QED
        BY <3>1, <4>2, <4>3
    <3>3. PICK new \in Nat : SetClock(new)
      BY <3>2
    <3> QED
      BY <1>1, <3>3, SetClockStep
  <2>4. CASE StopProcess \/ Tick \/ Work \/ EndWork
    BY <1>1, <2>4, StopStep, TickStep, WorkStep
  <2> QED
    BY <1>1, <2>2, <2>3, <2>4 DEF ClockNext
<1>2. ASSUME ClockInv, UNCHANGED clockVars PROVE ClockInv'
  BY <1>2 DEF clockVars, ClockInv, ClockTypeOK, Balanced, Reckoned
<1>3. ClockInv /\ [ClockNext]_clockVars => ClockInv'
  BY <1>1, <1>2
<1> QED
  BY <1>3, SchedulerInit, PTL DEF ClockSpec

(* The work of an hour is not done twice, for all hours and days, unless   *)
(* the clock was set back by more than the rest or, after a restart, at    *)
(* all.                                                                    *)
THEOREM WorkOncePerHour == ClockSpec => OncePerHour
<1>1. ClockInv /\ [ClockNext]_clockVars =>
        [at = "asleep" /\ at' = "working" =>
           last < wall \/ back > IF restarted THEN 0 ELSE Hour]_clockVars
  <2>1. SUFFICES ASSUME ClockInv, ClockNext, at = "asleep", at' = "working"
                 PROVE  last < wall \/ back > IF restarted THEN 0 ELSE Hour
    OBVIOUS
  <2>2. Work
    BY <2>1 DEF ClockNext, StartProcess, StopProcess, Tick, SetClock, EndWork, Rested, LieDown
  <2>3. left = 0 /\ wall \in Nat /\ back \in Nat /\ last \in Nat \cup {Never}
    BY <2>1, <2>2 DEF Work, Due, ClockInv, ClockTypeOK
  <2>4. CASE last = Never
    BY <2>3, <2>4 DEF Never
  <2>5. CASE last # Never
    <3>1. wall + back > IF restarted THEN last ELSE last + Hour
      BY <2>1, <2>3, <2>5 DEF ClockInv, Balanced, Reckoned
    <3> QED
      BY <2>3, <2>5, <3>1, DayPositive
  <2> QED
    BY <2>4, <2>5
<1> QED
  BY <1>1, SchedulerInvariance, PTL DEF ClockSpec, OncePerHour

-----------------------------------------------------------------------------
(* The sleep ends at the next of the loop's hours.                         *)

LEMMA WholeDays ==
  ASSUME NEW p \in Nat, NEW q \in Nat, NEW d \in Nat, p < q
  PROVE  p * d + d <= q * d
<1>1. PICK k \in Nat : q = p + 1 + k
  <2>1. q - p - 1 \in Nat /\ q = p + 1 + (q - p - 1)
    OBVIOUS
  <2> QED
    BY <2>1
<1>2. q * d = p * d + d + k * d /\ k * d \in Nat
  BY <1>1
<1> QED
  BY <1>2

(* A time is told by its day and what has passed of it, in one way only.   *)
LEMMA DayAndRest ==
  ASSUME NEW t \in Nat, NEW d \in Nat, d > 0, NEW q \in Nat, NEW rest \in Nat,
         rest < d, t = q * d + rest
  PROVE  t \div d = q /\ t % d = rest
<1>1. PICK p \in Nat : p = t \div d
  BY DayOf
<1>2. p * d <= t /\ t < p * d + d /\ p * d \in Nat /\ q * d \in Nat
  BY <1>1, DayOf
<1>3. p = q
  <2>1. p < q => FALSE
    BY <1>2, WholeDays
  <2>2. q < p => FALSE
    BY <1>2, WholeDays
  <2> QED
    BY <2>1, <2>2
<1>4. t % d = t - p * d
  BY <1>1
<1> QED
  BY <1>1, <1>2, <1>3, <1>4

(* A time is made up of its day and what has passed of it.                 *)
LEMMA MadeUp ==
  ASSUME NEW t \in Nat, NEW d \in Nat, d > 0,
         NEW q \in Nat, q = t \div d, NEW rest \in Nat, rest = t % d
  PROVE  t = q * d + rest /\ q * d \in Nat
<1>1. q * d <= t /\ q * d \in Nat
  BY DayOf
<1>2. rest = t - q * d
  OBVIOUS
<1> QED
  BY <1>1, <1>2

(* The hour is one of the day's.                                           *)
LEMMA HourInDay ==
  ASSUME NEW hour \in Nat
  PROVE  (hour % 24) * Hour \in Nat /\ (hour % 24) * Hour < Day
<1>1. hour % 24 \in Nat /\ hour % 24 < 24
  OBVIOUS
<1>2. (hour % 24) * Hour + Hour <= 24 * Hour
  BY <1>1, DayPositive, WholeDays
<1> QED
  BY <1>2, HourOfDay, DayPositive DEF Day

(* secs_until_hour: to the first time after now with that hour.            *)
LEMMA NextHour ==
  ASSUME NEW now \in Nat, NEW hour \in Nat,
         NEW b \in Nat, b = (hour % 24) * Hour,
         NEW stop \in Nat, stop = now + UntilHour(now, hour)
  PROVE  /\ stop % Day = b
         /\ \A t \in now + 1 .. stop - 1 : t % Day # b
<1>1. PICK e \in Nat : e = now \div Day
  BY DayPositive, DayOf
<1>2. PICK a \in Nat : a = e * Day
  BY DayPositive
<1>3. a <= now /\ now < a + Day /\ Day \in Nat /\ Day > 0 /\ b < Day
  BY <1>1, <1>2, DayPositive, DayOf, HourInDay
<1>4. PICK trigger \in Nat : trigger = a + b
  OBVIOUS
<1>10. UntilHour(now, hour) =
         IF trigger > now THEN trigger - now ELSE trigger + Day - now
  BY <1>1, <1>2, <1>4, Zenon DEF UntilHour
<1>5. (e + 1) * Day = a + Day
  BY <1>2, <1>3
<1>6. ASSUME NEW t \in Nat, a <= t, t < a + Day
      PROVE  t % Day = t - a
  <2>1. t - a \in Nat /\ t - a < Day /\ t = e * Day + (t - a)
    BY <1>2, <1>3, <1>6
  <2> QED
    BY <1>3, <2>1, DayAndRest
<1>7. ASSUME NEW t \in Nat, a + Day <= t, t < a + Day + Day
      PROVE  t % Day = t - (a + Day)
  <2>1. /\ t - (a + Day) \in Nat /\ t - (a + Day) < Day
        /\ t = (e + 1) * Day + (t - (a + Day)) /\ e + 1 \in Nat
    BY <1>3, <1>5, <1>7
  <2> QED
    BY <1>3, <2>1, DayAndRest
<1>8. CASE a + b > now
  <2>1. stop = a + b /\ stop % Day = stop - a
    BY <1>3, <1>4, <1>6, <1>8, <1>10
  <2>2. ASSUME NEW t \in now + 1 .. stop - 1 PROVE t % Day # b
    <3>1. t \in Nat /\ a <= t /\ t < a + Day /\ t < a + b
      BY <1>3, <2>1, <2>2
    <3> QED
      BY <1>6, <3>1
  <2> QED
    BY <2>1, <2>2
<1>9. CASE ~(a + b > now)
  <2>1. stop = a + Day + b /\ stop % Day = stop - (a + Day)
    <3>1. stop = a + Day + b
      BY <1>3, <1>4, <1>9, <1>10
    <3>2. stop \in Nat /\ a + Day <= stop /\ stop < a + Day + Day
      BY <1>3, <3>1
    <3> QED
      BY <1>7, <3>1, <3>2
  <2>2. ASSUME NEW t \in now + 1 .. stop - 1 PROVE t % Day # b
    <3>1. t \in Nat /\ a <= t /\ t > a + b /\ t < a + Day + b
      BY <1>3, <1>9, <2>1, <2>2
    <3>2. CASE t < a + Day
      BY <1>3, <1>6, <3>1, <3>2
    <3>3. CASE a + Day <= t
      BY <1>3, <1>7, <3>1, <3>3
    <3> QED
      BY <1>3, <3>1, <3>2, <3>3
  <2>3. stop % Day = b
    BY <1>3, <2>1
  <2> QED
    BY <2>2, <2>3
<1> QED
  BY <1>8, <1>9

(* The time of day b on a day of the week.                                 *)
WeeklyAt(t, b, weekday) == t % Day = b /\ (t \div Day - 3) % 7 = weekday

AtHour(b, hour)                == b = (hour % 24) * Hour
Ends(stop, now, weekday, hour) == stop = now + UntilWeekdayHour(now, weekday, hour)

(* secs_until_weekday_hour: to the first time after now with that hour on  *)
(* that day of the week.                                                   *)
LEMMA NextWeekdayHour ==
  ASSUME NEW now \in Nat, NEW weekday \in 0 .. 6, NEW hour \in Nat,
         NEW b \in Nat, AtHour(b, hour),
         NEW stop \in Nat, Ends(stop, now, weekday, hour)
  PROVE  /\ WeeklyAt(stop, b, weekday)
         /\ \A t \in now + 1 .. stop - 1 : ~WeeklyAt(t, b, weekday)
<1>0. b = (hour % 24) * Hour /\ stop = now + UntilWeekdayHour(now, weekday, hour)
  BY DEF AtHour, Ends
<1> USE <1>0
<1>1. PICK e \in Nat : e = now \div Day
  BY DayPositive, DayOf
<1>2. PICK a \in Nat : a = e * Day
  BY DayPositive
<1>3. /\ a <= now /\ now < a + Day /\ Day \in Nat /\ Day > 0 /\ b < Day
      /\ Week = 7 * Day
  BY <1>1, <1>2, DayPositive, DayOf, HourInDay
<1>4. PICK today \in 0 .. 6 : today = (e + 4) % 7
  OBVIOUS
<1>5. PICK ahead \in 0 .. 6 :
        ahead = IF weekday >= today THEN weekday - today ELSE 7 - today + weekday
  OBVIOUS
<1>6. PICK trigger \in Nat : trigger = (e + ahead) * Day + b
  <2>1. e + ahead \in Nat
    OBVIOUS
  <2>2. (e + ahead) * Day \in Nat
    BY <1>3, <2>1
  <2> QED
    BY <2>2
<1>7. UntilWeekdayHour(now, weekday, hour) =
        IF trigger <= now THEN trigger + Week - now ELSE trigger - now
  BY <1>1, <1>4, <1>5, <1>6, Zenon DEF UntilWeekdayHour
(* The day of the next strike: k days ahead.                               *)
<1>8. PICK k \in 0 .. 7 :
        /\ stop = (e + k) * Day + b
        /\ (e + k - 3) % 7 = weekday
        /\ \A i \in 0 .. 7 : i < k /\ (e + i - 3) % 7 = weekday =>
             i = 0 /\ a + b <= now
  <2>1. (e + ahead - 3) % 7 = weekday /\ (e + 7 + ahead - 3) % 7 = weekday
    BY <1>4, <1>5
  <2>2. \A i \in 0 .. 6 : (e + i - 3) % 7 = weekday => i = ahead
    BY <1>4, <1>5
  <2>3. CASE trigger > now
    <3>1. stop = (e + ahead) * Day + b
      BY <1>6, <1>7, <2>3
    <3> QED
      BY <2>1, <2>2, <3>1
  <2>4. CASE trigger <= now
    <3>1. ahead = 0
      <4>1. SUFFICES ASSUME ahead > 0 PROVE FALSE
        OBVIOUS
      <4>2. e * Day + Day <= (e + ahead) * Day
        BY <1>3, <4>1, WholeDays
      <4>3. (e + ahead) * Day \in Nat
        <5>1. e + ahead \in Nat
          OBVIOUS
        <5> QED
          BY <1>3, <5>1
      <4> QED
        BY <1>2, <1>3, <1>6, <2>4, <4>2, <4>3
    <3>2. trigger = a + b
      BY <1>2, <1>6, <3>1
    <3>3. stop = (e + 7) * Day + b
      <4>1. (e + 7) * Day = a + 7 * Day
        BY <1>2, <1>3
      <4>2. UntilWeekdayHour(now, weekday, hour) = trigger + Week - now
        BY <1>7, <2>4
      <4> QED
        BY <1>3, <3>2, <4>1, <4>2
    <3> QED
      BY <2>1, <2>2, <2>4, <3>1, <3>2, <3>3
  <2> QED
    BY <2>3, <2>4
<1>9. stop % Day = b /\ (stop \div Day - 3) % 7 = weekday
  <2>1. stop % Day = b /\ stop \div Day = e + k
    <3>1. e + k \in Nat
      OBVIOUS
    <3>2. PICK q \in Nat : q = e + k /\ stop = q * Day + b
      BY <1>8, <3>1
    <3> QED
      BY <1>3, <3>2, DayAndRest
  <2> QED
    BY <1>8, <2>1
<1>10. ASSUME NEW t \in now + 1 .. stop - 1,
              t % Day = b, (t \div Day - 3) % 7 = weekday
       PROVE  FALSE
  <2>1. t \in Nat /\ now < t /\ t < stop
    BY <1>10
  <2>2. PICK q \in Nat : q = t \div Day
    BY <1>3, <2>1, DayOf
  <2>3. t = q * Day + b /\ q * Day \in Nat
    BY <1>3, <1>10, <2>1, <2>2, MadeUp
  <2>4. e <= q
    <3>1. SUFFICES ASSUME q < e PROVE FALSE
      OBVIOUS
    <3>2. q * Day + Day <= e * Day
      BY <1>3, <3>1, WholeDays
    <3> QED
      BY <1>2, <1>3, <2>1, <2>3, <3>2
  <2>5. q < e + k
    <3>1. SUFFICES ASSUME ~(q < e + k) PROVE FALSE
      OBVIOUS
    <3>2. q = e + k \/ (e + k) * Day + Day <= q * Day
      BY <1>3, <3>1, WholeDays
    <3>3. (e + k) * Day \in Nat
      BY <1>3
    <3> QED
      BY <1>3, <1>8, <2>1, <2>3, <3>2, <3>3
  <2>6. PICK i \in 0 .. 7 : q = e + i /\ i < k
    <3>1. q - e \in 0 .. 7 /\ q = e + (q - e) /\ q - e < k
      BY <2>4, <2>5
    <3> QED
      BY <3>1
  <2>7. i = 0 /\ a + b <= now
    BY <1>8, <1>10, <2>2, <2>6
  <2> QED
    BY <1>2, <2>1, <2>3, <2>6, <2>7
<1> QED
  BY <1>9, <1>10 DEF WeeklyAt

-----------------------------------------------------------------------------
(* SleepsToNext, an invariant of its own: a sleep ends at the next strike  *)
(* when it begins, time brings both equally nearer, and a clock that is    *)
(* set makes the loop go astray.                                           *)

LEMMA LieDownToNext ==
  ASSUME ClockTypeOK, StartProcess \/ Rested
  PROVE  SleepsToNext'
<1>1. /\ wall \in Nat /\ setting.hour \in Nat
      /\ Until(wall) \in Nat /\ UNCHANGED <<setting, wall>>
      /\ left' = Until(wall)
  BY UntilPositive, TimeAssumption
  DEF ClockTypeOK, Settings, StartProcess, Rested, LieDown
<1>2. PICK b \in Nat : b = (setting.hour % 24) * Hour
  BY <1>1, HourOfDay
<1>3. PICK stop \in Nat : stop = wall + Until(wall)
  BY <1>1
<1>4. wall' + left' = stop /\ wall' + left' - 1 = stop - 1
  BY <1>1, <1>3
<1>5. CASE setting.loop = "nightly"
  <2>1. stop % Day = b /\ \A t \in wall + 1 .. stop - 1 : t % Day # b
    BY <1>1, <1>2, <1>3, <1>5, NextHour DEF Until
  <2> QED
    BY <1>1, <1>2, <1>4, <1>5, <2>1 DEF SleepsToNext, Strikes
<1>6. CASE setting.loop # "nightly"
  <2>1. setting.loop = "weekly" /\ setting.day \in Nat
    BY <1>6, TimeAssumption DEF ClockTypeOK, Settings
  <2>2. PICK weekday \in 0 .. 6 : weekday = setting.day % 7
    BY <2>1
  <2>3. /\ WeeklyAt(stop, b, weekday)
        /\ \A t \in wall + 1 .. stop - 1 : ~WeeklyAt(t, b, weekday)
    <3>1. PICK hour \in Nat : hour = setting.hour
      BY <1>1
    <3>2. Until(wall) = UntilWeekdayHour(wall, weekday, hour)
      BY <1>6, <2>2, <3>1 DEF Until
    <3>3. AtHour(b, hour) /\ Ends(stop, wall, weekday, hour)
      BY <1>2, <1>3, <3>1, <3>2 DEF AtHour, Ends
    <3> QED
      <4>1. wall \in Nat /\ b \in Nat /\ stop \in Nat /\ hour \in Nat /\ weekday \in 0 .. 6
        BY <1>1, <1>2, <1>3, <2>2, <3>1
      <4> QED
        BY <3>3, <4>1, NextWeekdayHour
  <2> QED
    BY <1>1, <1>2, <1>4, <2>1, <2>2, <2>3 DEF SleepsToNext, Strikes, WeeklyAt
<1> QED
  BY <1>5, <1>6

LEMMA TickToNext ==
  ASSUME ClockTypeOK, SleepsToNext, Tick
  PROVE  SleepsToNext'
<1> SUFFICES ASSUME at' = "asleep", ~astray'
             PROVE  SleepsToNext'
  BY DEF SleepsToNext
<1>1. /\ at = "asleep" /\ ~astray /\ setting' = setting
      /\ wall \in Nat /\ left \in Nat /\ left # 0
      /\ wall' = wall + 1 /\ left' = left - 1
  BY DEF Tick, Due, ClockTypeOK
<1>2. PICK stop \in Nat : stop = wall + left
  BY <1>1
<1>3. wall' + left' = stop /\ \A t \in wall' + 1 .. stop - 1 : t \in wall + 1 .. stop - 1
  BY <1>1, <1>2
<1>4. Strikes(stop) /\ \A t \in wall + 1 .. stop - 1 : ~Strikes(t)
  BY <1>1, <1>2 DEF SleepsToNext
<1> QED
  BY <1>1, <1>3, <1>4 DEF SleepsToNext, Strikes

(* A loop sleeps to the very next of its hours, whatever the setting and   *)
(* whenever it lies down, unless the clock is set under it.                *)
THEOREM SleepsRightly == ClockSpec => []SleepsToNext
<1>1. ClockInit => SleepsToNext
  BY DEF ClockInit, SleepsToNext
<1>2. ClockTypeOK /\ SleepsToNext /\ [ClockNext]_clockVars => SleepsToNext'
  <2> SUFFICES ASSUME ClockTypeOK, SleepsToNext, [ClockNext]_clockVars
               PROVE  SleepsToNext'
    OBVIOUS
  <2>1. CASE StartProcess \/ Rested
    BY <2>1, LieDownToNext
  <2>2. CASE Tick
    BY <2>2, TickToNext
  <2>3. ASSUME NEW new, SetClock(new)
        PROVE  SleepsToNext'
    BY <2>3 DEF SetClock, SleepsToNext
  <2>4. CASE StopProcess \/ Work \/ EndWork
    BY <2>4 DEF StopProcess, Work, EndWork, SleepsToNext
  <2>5. CASE UNCHANGED clockVars
    BY <2>5 DEF clockVars, SleepsToNext, Strikes
  <2> QED
    BY <2>1, <2>2, <2>3, <2>4, <2>5 DEF ClockNext
<1>3. ClockInv => ClockTypeOK
  BY DEF ClockInv
<1> QED
  BY <1>1, <1>2, <1>3, SchedulerInvariance, PTL DEF ClockSpec
=============================================================================

------------------------------ MODULE SkillFiles ------------------------------
(***************************************************************************)
(* The files of one skill: a draft on approval and the active, learned     *)
(* body. Jobs write drafts (the write_skill tool), the sync loop suggests, *)
(* approves and forgets; nothing locks the files and the process may stop  *)
(* between any two system calls. Committed bodies are never written and    *)
(* skills of other names are other files: both are left out.               *)
(*                                                                         *)
(* A body is the number of the draft it is the text of, 0 for an empty     *)
(* file and Torn for a mixture of two.                                     *)
(*                                                                         *)
(* The specification is SkillSpec, from SkillInit and SkillNext, so that a *)
(* module may extend this one and Stores.                                  *)
(***************************************************************************)
EXTENDS Naturals, FiniteSets

CONSTANTS
  Writers,     (* who may draft at the same time ...                       *)
  Desk,        (* ... the sync loop among them (/skills suggest)           *)
  MaxDrafts    (* BOUND on the drafts written                              *)

ASSUME DeskAssumption  == Desk \in Writers
ASSUME DraftAssumption == MaxDrafts \in Nat

VARIABLES
  pending,    (* the draft's file: which inode, and its body               *)
  learned,    (* the active file: whether it is there, and its body        *)
  drafts,     (* drafts begun                                              *)
  writer,     (* the file each writer has open, and its draft              *)
  desk,       (* how far the sync loop is with /skills approve or forget   *)
  owed        (* history: the draft that was reported saved and has since  *)
              (* been neither forgotten nor overwritten nor removed by an  *)
              (* approve that had read the file before                     *)

skillVars == <<pending, learned, drafts, writer, desk, owed>>

Torn    == MaxDrafts + 1
Missing == [inode |-> 0, body |-> 0]
Closed  == [inode |-> 0, draft |-> 0]
NoSkill == [there |-> FALSE, body |-> 0]
Idle    == [at |-> "idle", copy |-> 0, late |-> FALSE]

There == pending.inode # 0

SkillInit ==
  /\ pending = Missing
  /\ learned = NoSkill
  /\ drafts  = 0
  /\ writer  = [w \in Writers |-> Closed]
  /\ desk    = Idle
  /\ owed    = 0

-----------------------------------------------------------------------------
(* write_pending: the file is created or emptied, then written.            *)

OpenDraft(w) ==
  /\ writer[w] = Closed /\ drafts < MaxDrafts
  /\ w = Desk => desk.at = "idle"
  /\ drafts'  = drafts + 1
  /\ pending' = [inode |-> IF There THEN pending.inode ELSE drafts', body |-> 0]
  /\ writer'  = [writer EXCEPT ![w] = [inode |-> pending'.inode, draft |-> drafts']]
  /\ owed'    = 0
  /\ UNCHANGED <<learned, desk>>

(* Nobody else is at the file and it is still the file of that name.       *)
Undisturbed(w) ==
  /\ pending.inode = writer[w].inode /\ pending.body = 0
  /\ \A v \in Writers \ {w} : writer[v].inode # writer[w].inode

(* A longer text written meanwhile shows behind the end of this one.       *)
FillDraft(w) ==
  LET d == writer[w].draft IN
  /\ writer[w] # Closed
  /\ IF pending.inode # writer[w].inode THEN UNCHANGED pending
     ELSE \E body \in {d} \cup (IF pending.body = 0 THEN {} ELSE {Torn}) :
            pending' = [pending EXCEPT !.body = body]
  /\ writer' = [writer EXCEPT ![w] = Closed]
  /\ owed'   = IF Undisturbed(w) THEN d ELSE 0
  /\ desk'   = [desk EXCEPT !.late = desk.at \in {"read", "opened", "copied"}]
  /\ UNCHANGED <<learned, drafts>>

-----------------------------------------------------------------------------
(* /skills approve                                                         *)

DeskFree == desk.at = "idle" /\ writer[Desk] = Closed

Approve ==
  /\ DeskFree /\ There
  /\ desk' = [Idle EXCEPT !.at = "found"]
  /\ UNCHANGED <<pending, learned, drafts, writer, owed>>

ReadDraft ==
  /\ desk.at = "found"
  /\ desk' = [at |-> "read", copy |-> pending.body, late |-> FALSE]
  /\ UNCHANGED <<pending, learned, drafts, writer, owed>>

(* Slip: the draft is removed before it is copied.                         *)
MoveDraft ==
  /\ desk.at = "read"
  /\ learned' = [there |-> TRUE, body |-> 0]
  /\ pending' = Missing
  /\ desk'    = [desk EXCEPT !.at = "opened"]
  /\ UNCHANGED <<drafts, writer, owed>>

OpenLearned ==
  /\ desk.at = "read"
  /\ learned' = [there |-> TRUE, body |-> 0]
  /\ desk'    = [desk EXCEPT !.at = "opened"]
  /\ UNCHANGED <<pending, drafts, writer, owed>>

FillLearned ==
  /\ desk.at = "opened"
  /\ learned' = [there |-> TRUE, body |-> desk.copy]
  /\ desk'    = [desk EXCEPT !.at = "copied"]
  /\ UNCHANGED <<pending, drafts, writer, owed>>

RemoveDraft ==
  /\ desk.at = "copied"
  /\ pending' = Missing
  /\ desk'    = Idle
  /\ owed'    = IF desk.late THEN 0 ELSE owed
  /\ UNCHANGED <<learned, drafts, writer>>

-----------------------------------------------------------------------------
(* /skills forget: the learned file, then the draft.                       *)

ForgetLearned ==
  /\ DeskFree /\ (learned.there \/ There)
  /\ learned' = NoSkill
  /\ owed'    = 0
  /\ desk'    = [Idle EXCEPT !.at = "forgetting"]
  /\ UNCHANGED <<pending, drafts, writer>>

ForgetDraft ==
  /\ desk.at = "forgetting"
  /\ pending' = Missing
  /\ owed'    = 0
  /\ desk'    = Idle
  /\ UNCHANGED <<learned, drafts, writer>>

-----------------------------------------------------------------------------
(* The process stops, between any two of these calls, and starts again.    *)
SkillRestart ==
  /\ writer' = [w \in Writers |-> Closed]
  /\ desk'   = Idle
  /\ UNCHANGED <<pending, learned, drafts, owed>>

SkillNext ==
  \/ \E w \in Writers : OpenDraft(w) \/ FillDraft(w)
  \/ Approve \/ ReadDraft \/ OpenLearned \/ FillLearned \/ RemoveDraft
  \/ ForgetLearned \/ ForgetDraft
  \/ SkillRestart

SkillSpec == SkillInit /\ [][SkillNext]_skillVars

-----------------------------------------------------------------------------
(* Types.                                                                  *)
SkillTypeOK ==
  /\ pending \in [inode : Nat, body : Nat]
  /\ learned \in [there : BOOLEAN, body : Nat]
  /\ drafts  \in Nat
  /\ writer  \in [Writers -> [inode : Nat, draft : Nat]]
  /\ desk    \in [at : {"idle", "found", "read", "opened", "copied", "forgetting"},
                  copy : Nat, late : BOOLEAN]
  /\ owed    \in Nat

(* A draft that was reported saved is on approval or active, wherever an   *)
(* approval is interrupted: the draft goes only when its copy is complete. *)
(* What this does not promise is in `owed`: approve removes, with the      *)
(* draft it has read, one that was written over it since.                  *)
DraftKept == owed # 0 => owed \in {pending.body, learned.body}
=============================================================================

--------------------------- MODULE WorktreeProofs ---------------------------
(***************************************************************************)
(* Proofs about Worktree, for all runs, rooms, projects and bounds.        *)
(*                                                                         *)
(* What makes worktrees safe is that git refuses a name that is in use.    *)
(* That covers names of earlier processes, whose branches and directories  *)
(* are on disk; names of the same process never meet, because the counter  *)
(* gives each number once (Numbered).                                      *)
(***************************************************************************)
EXTENDS Worktree, TLAPS

(* Runs of this process that have a number.                                *)
Current == {"named", "tree", "live", "judged", "removed"}

(* A process gives each number once.                                       *)
Numbered ==
  /\ \A r \in Runs :
       /\ run[r].epoch <= epoch
       /\ run[r].pc \in Current => run[r].epoch = epoch
       /\ run[r].pc # "new" /\ run[r].epoch = epoch => run[r].id < seq
  /\ \A r, s \in Runs :
       run[r].pc # "new" /\ run[s].pc # "new" /\ r # s
         /\ run[r].epoch = run[s].epoch => run[r].id # run[s].id

(* Who has a worktree, and had.                                            *)
Isolation ==
  \A r \in Runs :
    /\ run[r].pc \in {"new", "named", "live"} => ~run[r].isolated
    /\ run[r].pc \in {"tree", "judged", "removed"} => run[r].isolated
    /\ run[r].pc \in {"new", "named"} => run[r].made = 0 /\ run[r].told = {}

(* The name of a run that has removed its directory and has still to       *)
(* delete its branch is not in use again.                                  *)
RemovedApart ==
  \A r, s \in Runs :
    run[r].pc = "removed" /\ InTree(s) => Name(s) # Name(r)

(* Every branch on disk was made for a run; a directory that is not there  *)
(* holds nothing.                                                          *)
Taken ==
  /\ \A b \in branches : \E s \in Runs :
       run[s].pc \notin {"new", "named"} /\ Name(s) = b[2]
  /\ \A n \in Names : n \notin trees => scratch[n] = {}

(* A run begins with a revision of the checkout; a branch that is about to *)
(* be deleted holds nothing else.                                          *)
Based ==
  \A r \in Runs :
    /\ run[r].pc # "new" => run[r].base \subseteq head[run[r].project]
    /\ run[r].pc = "removed" => tip[Branch(r)] \subseteq head[run[r].project]

Made(r) == {r} \X (1 .. run[r].made)

(* Where the edits of a run are.                                           *)
AtWork(r) == run[r].pc \in {"tree", "live", "orphan"}
Settled(r) == /\ run[r].pc \in {"judged", "removed", "over"}
              /\ "commit" \notin run[r].failed

Held(r) ==
  /\ AtWork(r) => Made(r) \subseteq Kept(run[r].project) \cup
                    (IF run[r].isolated THEN scratch[Name(r)] ELSE {})
  /\ Settled(r) => Made(r) \subseteq Kept(run[r].project)

WorkInv == \A r \in Runs : Held(r)

IInv ==
  /\ TypeOK /\ Numbered /\ Isolation /\ Taken /\ TreesApart /\ RemovedApart
  /\ TreesRemoved /\ Based /\ ReportedKept /\ WorkInv /\ LiveOnlyOnUsedName

-----------------------------------------------------------------------------
(* Types.                                                                  *)

(* The name and the branch of a run, and what is there.                    *)
LEMMA NameTypes ==
  ASSUME TypeOK, NEW r \in Runs
  PROVE  /\ run[r] \in RunType
         /\ Name(r) \in Names
         /\ Branch(r) \in Projects \X Names
         /\ run[r].project \in Projects
         /\ head[run[r].project] \in SUBSET Edits
         /\ dirty[run[r].project] \in SUBSET Edits
         /\ tip[Branch(r)] \in SUBSET Edits
         /\ scratch[Name(r)] \in SUBSET Edits
<1>1. run[r] \in RunType
  BY DEF TypeOK
<1>2. run[r].room \in Rooms /\ run[r].id \in Ids /\ run[r].project \in Projects
  BY <1>1 DEF RunType
<1>3. Name(r) \in Names /\ Branch(r) \in Projects \X Names
  BY <1>2 DEF Name, Branch, Names
<1> QED
  BY <1>1, <1>2, <1>3 DEF TypeOK

(* The next edit of a run is an edit.                                      *)
LEMMA EditType ==
  ASSUME TypeOK, NEW r \in Runs, run[r].made < MaxEdits
  PROVE  <<r, run[r].made + 1>> \in Edits /\ run[r].made + 1 \in 0 .. MaxEdits
<1>1. run[r].made \in 0 .. MaxEdits
  BY DEF TypeOK, RunType
<1> QED
  BY <1>1, BoundAssumption DEF Edits

(* Every step keeps the types.                                             *)
LEMMA TypeStep == TypeOK /\ [Next]_vars => TypeOK'
<1> SUFFICES ASSUME TypeOK, [Next]_vars PROVE TypeOK'
  OBVIOUS
<1>0. [Next]_vars
  OBVIOUS
<1> USE DEF TypeOK, git
<1>1. ASSUME NEW r \in Runs, NEW m \in Rooms, NEW p \in Projects, Begin(r, m, p)
      PROVE  TypeOK'
  <2>1. run[r] \in RunType
    OBVIOUS
  <2>2. run'[r] \in RunType
    BY <1>1, <2>1 DEF Begin, RunType, Phases
  <2>3. run' \in [Runs -> RunType]
    BY <1>1, <2>2 DEF Begin
  <2>4. seq' \in 1 .. MaxNumber + 1
    BY <1>1, BoundAssumption DEF Begin, Ids
  <2> QED
    BY <1>1, <2>3, <2>4 DEF Begin
<1>2. ASSUME NEW r \in Runs, AddTree(r)
      PROVE  TypeOK'
  <2>1. /\ run[r] \in RunType
        /\ tip[Branch(r)] \in SUBSET Edits /\ Branch(r) \in Projects \X Names
        /\ scratch[Name(r)] \in SUBSET Edits /\ Name(r) \in Names
        /\ head[run[r].project] \in SUBSET Edits
    BY NameTypes
  <2>2. run'[r] \in RunType
    BY <1>2, <2>1 DEF AddTree, RunType, Phases
  <2>3. run' \in [Runs -> RunType]
    BY <1>2, <2>2 DEF AddTree
  <2> QED
    BY <1>2, <2>1, <2>3 DEF AddTree
<1>3. ASSUME NEW r \in Runs, FallBack(r)
      PROVE  TypeOK'
  <2>1. run[r] \in RunType
    OBVIOUS
  <2>2. run'[r] \in RunType
    BY <1>3, <2>1 DEF FallBack, RunType, Phases
  <2>3. run' \in [Runs -> RunType]
    BY <1>3, <2>2 DEF FallBack
  <2> QED
    BY <1>3, <2>1, <2>3 DEF FallBack
<1>3a. ASSUME NEW r \in Runs, NEW left \in BOOLEAN, AddFails(r, left)
      PROVE  TypeOK'
  <2>1. run[r] \in RunType
    OBVIOUS
  <2>2. run'[r] \in RunType
    BY <1>3a, <2>1 DEF AddFails, RunType, Phases
  <2>3. run' \in [Runs -> RunType]
    BY <1>3a, <2>2 DEF AddFails
  <2>4. branches' \in SUBSET (Projects \X Names) /\ tip' \in [Projects \X Names -> SUBSET Edits]
    <3>1. Branch(r) \in Projects \X Names /\ head[run[r].project] \in SUBSET Edits
      BY NameTypes
    <3>2. CASE left
      BY <1>3a, <3>1, <3>2 DEF AddFails
    <3>3. CASE ~left
      BY <1>3a, <3>3 DEF AddFails
    <3> QED
      BY <3>2, <3>3
  <2> QED
    BY <1>3a, <2>3, <2>4 DEF AddFails
<1>4. ASSUME NEW r \in Runs, Edit(r)
      PROVE  TypeOK'
  <2>1. run[r] \in RunType
    OBVIOUS
  <2>2. <<r, run[r].made + 1>> \in Edits /\ run[r].made + 1 \in 0 .. MaxEdits
    BY <1>4, EditType DEF Edit
  <2>3. run'[r] \in RunType
    BY <1>4, <2>1, <2>2 DEF Edit, RunType
  <2>4. run' \in [Runs -> RunType]
    BY <1>4, <2>3 DEF Edit
  <2>5. dirty' \in [Projects -> SUBSET Edits] /\ scratch' \in [Names -> SUBSET Edits]
    BY <1>4, <2>2 DEF Edit
  <2> QED
    BY <1>4, <2>4, <2>5 DEF Edit
<1>5. ASSUME NEW r \in Runs, SelfCommit(r)
      PROVE  TypeOK'
  <2>1. /\ tip[Branch(r)] \in SUBSET Edits /\ scratch[Name(r)] \in SUBSET Edits
        /\ head[run[r].project] \in SUBSET Edits /\ dirty[run[r].project] \in SUBSET Edits
    BY NameTypes
  <2>2. CASE run[r].isolated
    BY <1>5, <2>1, <2>2 DEF SelfCommit
  <2>3. CASE ~run[r].isolated
    BY <1>5, <2>1, <2>3 DEF SelfCommit
  <2> QED
    BY <2>2, <2>3
<1>6. ASSUME NEW r \in Runs, ReturnLive(r)
      PROVE  TypeOK'
  <2>1. run[r] \in RunType
    OBVIOUS
  <2>2. run'[r] \in RunType
    BY <1>6, <2>1 DEF ReturnLive, RunType, Phases
  <2>3. run' \in [Runs -> RunType]
    BY <1>6, <2>2 DEF ReturnLive
  <2> QED
    BY <1>6, <2>1, <2>3 DEF ReturnLive
<1>7. ASSUME NEW r \in Runs, NEW ok \in BOOLEAN, Commit(r, ok)
      PROVE  TypeOK'
  <2>1. /\ run[r] \in RunType
        /\ tip[Branch(r)] \in SUBSET Edits /\ Branch(r) \in Projects \X Names
        /\ scratch[Name(r)] \in SUBSET Edits /\ Name(r) \in Names
        /\ head[run[r].project] \in SUBSET Edits
    BY NameTypes
  <2>2. run'[r] \in RunType
    BY <1>7, <2>1 DEF Commit, RunType, Phases
  <2>3. run' \in [Runs -> RunType]
    BY <1>7, <2>2 DEF Commit
  <2> QED
    BY <1>7, <2>1, <2>3 DEF Commit
<1>8. ASSUME NEW r \in Runs, NEW ok \in BOOLEAN, NEW gone \in BOOLEAN,
             RemoveTree(r, ok, gone)
      PROVE  TypeOK'
  <2>1. /\ run[r] \in RunType
        /\ tip[Branch(r)] \in SUBSET Edits /\ Branch(r) \in Projects \X Names
        /\ scratch[Name(r)] \in SUBSET Edits /\ Name(r) \in Names
        /\ head[run[r].project] \in SUBSET Edits
    BY NameTypes
  <2>2. run'[r] \in RunType
    BY <1>8, <2>1 DEF RemoveTree, Remove, Removed, RunType, Phases, Changed
  <2>3. run' \in [Runs -> RunType]
    BY <1>8, <2>2 DEF RemoveTree, Remove, Removed
  <2> QED
    BY <1>8, <2>1, <2>3 DEF RemoveTree, Remove, Removed, Changed
<1>9. ASSUME NEW r \in Runs, NEW ok \in BOOLEAN, DropBranch(r, ok)
      PROVE  TypeOK'
  <2>1. /\ run[r] \in RunType
        /\ tip[Branch(r)] \in SUBSET Edits /\ Branch(r) \in Projects \X Names
        /\ scratch[Name(r)] \in SUBSET Edits /\ Name(r) \in Names
        /\ head[run[r].project] \in SUBSET Edits
    BY NameTypes
  <2>2. run'[r] \in RunType
    BY <1>9, <2>1 DEF DropBranch, RunType, Phases
  <2>3. run' \in [Runs -> RunType]
    BY <1>9, <2>2 DEF DropBranch
  <2> QED
    BY <1>9, <2>1, <2>3 DEF DropBranch
<1>10. ASSUME NEW r \in Runs, NEW gone \in BOOLEAN, Abandon(r, gone)
      PROVE  TypeOK'
  <2>1. /\ run[r] \in RunType
        /\ tip[Branch(r)] \in SUBSET Edits /\ Branch(r) \in Projects \X Names
        /\ scratch[Name(r)] \in SUBSET Edits /\ Name(r) \in Names
        /\ head[run[r].project] \in SUBSET Edits
    BY NameTypes
  <2>2. run'[r] \in RunType
    BY <1>10, <2>1 DEF Abandon, Remove, Removed, RunType, Phases
  <2>3. run' \in [Runs -> RunType]
    BY <1>10, <2>2 DEF Abandon, Remove, Removed
  <2> QED
    BY <1>10, <2>1, <2>3 DEF Abandon, Remove, Removed
<1>11. ASSUME NEW r \in Runs, OrphanEnds(r)
      PROVE  TypeOK'
  <2>1. run[r] \in RunType
    OBVIOUS
  <2>2. run'[r] \in RunType
    BY <1>11, <2>1 DEF OrphanEnds, RunType, Phases
  <2>3. run' \in [Runs -> RunType]
    BY <1>11, <2>2 DEF OrphanEnds
  <2> QED
    BY <1>11, <2>1, <2>3 DEF OrphanEnds
<1>12. ASSUME NEW p \in Projects, OwnerCommits(p)
      PROVE  TypeOK'
  BY <1>12 DEF OwnerCommits, Edits
<1>13. ASSUME NEW b \in branches, OwnerMerges(b)
      PROVE  TypeOK'
  <2>1. b[1] \in Projects /\ b \in Projects \X Names
    BY <1>13
  <2> QED
    BY <1>13, <2>1 DEF OwnerMerges
<1>14. CASE Restart
  <2>1. ASSUME NEW r \in Runs PROVE run'[r] \in RunType
    <3>1. run[r] \in RunType
      OBVIOUS
    <3> QED
      BY <1>14, <3>1 DEF Restart, RunType, Phases
  <2>2. run' \in [Runs -> RunType]
    BY <1>14, <2>1 DEF Restart
  <2> QED
    BY <1>14, <2>2, BoundAssumption DEF Restart
<1>15. CASE UNCHANGED vars
  BY <1>15 DEF vars, git, RunType, Phases
<1>16. QED
  BY <1>0, <1>1, <1>2, <1>3, <1>4, <1>5, <1>6, <1>7, <1>8, <1>9, <1>10, <1>11, <1>12, <1>13, <1>14, <1>15, <1>3a
  DEF Next
-----------------------------------------------------------------------------
(* Names and numbers.                                                      *)

(* The fields of a run that are compared as numbers.                       *)
LEMMA NumberTypes ==
  ASSUME TypeOK
  PROVE  /\ \A r \in Runs : run[r].epoch \in Int /\ run[r].id \in Int /\ run[r].made \in Nat
         /\ epoch \in Int /\ seq \in Int
<1>1. \A r \in Runs : run[r] \in RunType
  BY DEF TypeOK
<1> QED
  BY <1>1, BoundAssumption DEF TypeOK, RunType, Ids

(* Only a restart changes the epoch, and only Begin takes a number.        *)
LEMMA NumberedStep == TypeOK /\ Numbered /\ [Next]_vars => Numbered'
<1> SUFFICES ASSUME TypeOK, Numbered, [Next]_vars PROVE Numbered'
  OBVIOUS
<1>0. [Next]_vars /\ run \in [Runs -> RunType]
  BY DEF TypeOK
<1>a. /\ \A r \in Runs : run[r].epoch \in Int /\ run[r].id \in Int
      /\ epoch \in Int /\ seq \in Int
  BY NumberTypes
<1> USE DEF Numbered, Current, RunType
<1>1. ASSUME NEW r \in Runs, NEW m \in Rooms, NEW p \in Projects, Begin(r, m, p)
      PROVE  Numbered'
  BY <1>1, <1>0, <1>a DEF Begin
<1>2. ASSUME NEW r \in Runs, AddTree(r)
      PROVE  Numbered'
  BY <1>2, <1>0, <1>a DEF AddTree
<1>3. ASSUME NEW r \in Runs, FallBack(r)
      PROVE  Numbered'
  BY <1>3, <1>0, <1>a DEF FallBack
<1>3a. ASSUME NEW r \in Runs, NEW left \in BOOLEAN, AddFails(r, left)
      PROVE  Numbered'
  BY <1>3a, <1>0, <1>a DEF AddFails
<1>4. ASSUME NEW r \in Runs, Edit(r)
      PROVE  Numbered'
  BY <1>4, <1>0, <1>a DEF Edit
<1>5. ASSUME NEW r \in Runs, SelfCommit(r)
      PROVE  Numbered'
  BY <1>5, <1>0, <1>a DEF SelfCommit
<1>6. ASSUME NEW r \in Runs, ReturnLive(r)
      PROVE  Numbered'
  BY <1>6, <1>0, <1>a DEF ReturnLive
<1>7. ASSUME NEW r \in Runs, NEW ok \in BOOLEAN, Commit(r, ok)
      PROVE  Numbered'
  BY <1>7, <1>0, <1>a DEF Commit
<1>8. ASSUME NEW r \in Runs, NEW ok \in BOOLEAN, NEW gone \in BOOLEAN,
             RemoveTree(r, ok, gone)
      PROVE  Numbered'
  BY <1>8, <1>0, <1>a DEF RemoveTree, Remove, Removed
<1>9. ASSUME NEW r \in Runs, NEW ok \in BOOLEAN, DropBranch(r, ok)
      PROVE  Numbered'
  BY <1>9, <1>0, <1>a DEF DropBranch
<1>10. ASSUME NEW r \in Runs, NEW gone \in BOOLEAN, Abandon(r, gone)
      PROVE  Numbered'
  BY <1>10, <1>0, <1>a DEF Abandon, Remove, Removed
<1>11. ASSUME NEW r \in Runs, OrphanEnds(r)
      PROVE  Numbered'
  BY <1>11, <1>0, <1>a DEF OrphanEnds
<1>12. ASSUME NEW p \in Projects, OwnerCommits(p)
      PROVE  Numbered'
  BY <1>12, <1>0, <1>a DEF OwnerCommits
<1>13. ASSUME NEW b \in branches, OwnerMerges(b)
      PROVE  Numbered'
  BY <1>13, <1>0, <1>a DEF OwnerMerges
<1>14. CASE Restart
  BY <1>14, <1>0, <1>a DEF Restart
<1>15. CASE UNCHANGED vars
  BY <1>15, <1>0, <1>a DEF vars, git
<1>16. QED
  BY <1>0, <1>1, <1>2, <1>3, <1>4, <1>5, <1>6, <1>7, <1>8, <1>9, <1>10, <1>11, <1>12, <1>13, <1>14, <1>15, <1>3a
  DEF Next
-----------------------------------------------------------------------------
(* Directories and branches.                                              *)

(* A run that has begun keeps its name, project, base and epoch.           *)
LEMMA NamesStay ==
  ASSUME TypeOK, [Next]_vars, NEW t \in Runs, run[t].pc # "new"
  PROVE  /\ Name(t)' = Name(t) /\ Branch(t)' = Branch(t)
         /\ run'[t].project = run[t].project /\ run'[t].base = run[t].base
         /\ run'[t].epoch = run[t].epoch /\ run'[t].pc # "new"
         /\ run[t].pc # "named" => run'[t].pc # "named"
<1> DEFINE Stays == /\ run'[t].room = run[t].room /\ run'[t].id = run[t].id
                    /\ run'[t].project = run[t].project /\ run'[t].base = run[t].base
                    /\ run'[t].epoch = run[t].epoch /\ run'[t].pc # "new"
                    /\ run[t].pc # "named" => run'[t].pc # "named"
<1>0. [Next]_vars /\ run \in [Runs -> RunType] /\ run[t].pc # "new"
  BY DEF TypeOK
<1> USE DEF RunType
<1>1. ASSUME NEW r \in Runs, NEW m \in Rooms, NEW p \in Projects, Begin(r, m, p)
      PROVE  Stays
  BY <1>1, <1>0 DEF Begin
<1>2. ASSUME NEW r \in Runs, AddTree(r)
      PROVE  Stays
  BY <1>2, <1>0 DEF AddTree
<1>3. ASSUME NEW r \in Runs, FallBack(r)
      PROVE  Stays
  BY <1>3, <1>0 DEF FallBack
<1>3a. ASSUME NEW r \in Runs, NEW left \in BOOLEAN, AddFails(r, left)
      PROVE  Stays
  BY <1>3a, <1>0 DEF AddFails
<1>4. ASSUME NEW r \in Runs, Edit(r)
      PROVE  Stays
  BY <1>4, <1>0 DEF Edit
<1>5. ASSUME NEW r \in Runs, SelfCommit(r)
      PROVE  Stays
  BY <1>5, <1>0 DEF SelfCommit
<1>6. ASSUME NEW r \in Runs, ReturnLive(r)
      PROVE  Stays
  BY <1>6, <1>0 DEF ReturnLive
<1>7. ASSUME NEW r \in Runs, NEW ok \in BOOLEAN, Commit(r, ok)
      PROVE  Stays
  BY <1>7, <1>0 DEF Commit
<1>8. ASSUME NEW r \in Runs, NEW ok \in BOOLEAN, NEW gone \in BOOLEAN,
             RemoveTree(r, ok, gone)
      PROVE  Stays
  BY <1>8, <1>0 DEF RemoveTree, Remove, Removed
<1>9. ASSUME NEW r \in Runs, NEW ok \in BOOLEAN, DropBranch(r, ok)
      PROVE  Stays
  BY <1>9, <1>0 DEF DropBranch
<1>10. ASSUME NEW r \in Runs, NEW gone \in BOOLEAN, Abandon(r, gone)
      PROVE  Stays
  BY <1>10, <1>0 DEF Abandon, Remove, Removed
<1>11. ASSUME NEW r \in Runs, OrphanEnds(r)
      PROVE  Stays
  BY <1>11, <1>0 DEF OrphanEnds
<1>12. ASSUME NEW p \in Projects, OwnerCommits(p)
      PROVE  Stays
  BY <1>12, <1>0 DEF OwnerCommits
<1>13. ASSUME NEW b \in branches, OwnerMerges(b)
      PROVE  Stays
  BY <1>13, <1>0 DEF OwnerMerges
<1>14. ASSUME Restart PROVE Stays
  BY <1>14, <1>0 DEF Restart
<1>15. ASSUME UNCHANGED vars PROVE Stays
  BY <1>15, <1>0 DEF vars, git
<1>16. Stays
  BY <1>0, <1>1, <1>2, <1>3, <1>4, <1>5, <1>6, <1>7, <1>8, <1>9, <1>10, <1>11, <1>12, <1>13, <1>14, <1>15, <1>3a
  DEF Next
<1> QED
  BY <1>16 DEF Name, Branch

(* Every step keeps the phases in which a run has a worktree.              *)
LEMMA IsolationStep == TypeOK /\ Isolation /\ [Next]_vars => Isolation'
<1> SUFFICES ASSUME TypeOK, Isolation, [Next]_vars PROVE Isolation'
  OBVIOUS
<1>0. [Next]_vars /\ run \in [Runs -> RunType]
  BY DEF TypeOK
<1> USE DEF Isolation, RunType, Working
<1>1. ASSUME NEW r \in Runs, NEW m \in Rooms, NEW p \in Projects, Begin(r, m, p)
      PROVE  Isolation'
  BY <1>1, <1>0 DEF Begin
<1>2. ASSUME NEW r \in Runs, AddTree(r)
      PROVE  Isolation'
  BY <1>2, <1>0 DEF AddTree
<1>3. ASSUME NEW r \in Runs, FallBack(r)
      PROVE  Isolation'
  BY <1>3, <1>0 DEF FallBack
<1>3a. ASSUME NEW r \in Runs, NEW left \in BOOLEAN, AddFails(r, left)
      PROVE  Isolation'
  BY <1>3a, <1>0 DEF AddFails
<1>4. ASSUME NEW r \in Runs, Edit(r)
      PROVE  Isolation'
  BY <1>4, <1>0 DEF Edit
<1>5. ASSUME NEW r \in Runs, SelfCommit(r)
      PROVE  Isolation'
  BY <1>5, <1>0 DEF SelfCommit
<1>6. ASSUME NEW r \in Runs, ReturnLive(r)
      PROVE  Isolation'
  BY <1>6, <1>0 DEF ReturnLive
<1>7. ASSUME NEW r \in Runs, NEW ok \in BOOLEAN, Commit(r, ok)
      PROVE  Isolation'
  BY <1>7, <1>0 DEF Commit
<1>8. ASSUME NEW r \in Runs, NEW ok \in BOOLEAN, NEW gone \in BOOLEAN,
             RemoveTree(r, ok, gone)
      PROVE  Isolation'
  BY <1>8, <1>0 DEF RemoveTree, Remove, Removed
<1>9. ASSUME NEW r \in Runs, NEW ok \in BOOLEAN, DropBranch(r, ok)
      PROVE  Isolation'
  BY <1>9, <1>0 DEF DropBranch
<1>10. ASSUME NEW r \in Runs, NEW gone \in BOOLEAN, Abandon(r, gone)
      PROVE  Isolation'
  BY <1>10, <1>0 DEF Abandon, Remove, Removed
<1>11. ASSUME NEW r \in Runs, OrphanEnds(r)
      PROVE  Isolation'
  BY <1>11, <1>0 DEF OrphanEnds
<1>12. ASSUME NEW p \in Projects, OwnerCommits(p)
      PROVE  Isolation'
  BY <1>12, <1>0 DEF OwnerCommits
<1>13. ASSUME NEW b \in branches, OwnerMerges(b)
      PROVE  Isolation'
  BY <1>13, <1>0 DEF OwnerMerges
<1>14. ASSUME Restart PROVE Isolation'
  BY <1>14, <1>0 DEF Restart
<1>15. ASSUME UNCHANGED vars PROVE Isolation'
  BY <1>15, <1>0 DEF vars, git
<1>16. QED
  BY <1>0, <1>1, <1>2, <1>3, <1>4, <1>5, <1>6, <1>7, <1>8, <1>9, <1>10, <1>11, <1>12, <1>13, <1>14, <1>15, <1>3a
  DEF Next

(* Two runs of one process never have the same name.                       *)
LEMMA NamesDiffer ==
  ASSUME TypeOK, Numbered, NEW r \in Runs, NEW t \in Runs, r # t,
         run[r].pc \in Current, run[t].pc \in Current
  PROVE  Name(r) # Name(t)
BY DEF Numbered, Name, Current

(* What is on disk is on disk for the runs that use it, and for no other.  *)
OnDisk == TreesApart /\ RemovedApart /\ Taken /\ TreesRemoved

(* Every step keeps disk and runs in agreement.                            *)
LEMMA OnDiskStep ==
  TypeOK /\ Numbered /\ Isolation /\ OnDisk /\ [Next]_vars => OnDisk'
<1> SUFFICES ASSUME TypeOK, Numbered, Isolation, OnDisk, [Next]_vars
             PROVE  OnDisk'
  OBVIOUS
<1>0. [Next]_vars /\ run \in [Runs -> RunType] /\ scratch \in [Names -> SUBSET Edits]
  BY DEF TypeOK
<1>a. \A t \in Runs : run[t].isolated =>
        Name(t)' = Name(t) /\ Branch(t)' = Branch(t) /\ run[t].pc # "new"
  BY NamesStay DEF Isolation
<1>b. \A t \in Runs : run[t].isolated /\ run[t].pc \in {"tree", "live", "orphan"} => InTree(t)
  BY DEF Isolation, InTree
<1>e. \A t \in Runs : run[t].pc = "removed" => run[t].isolated
  BY DEF Isolation
<1>f. \A t \in Runs : run[t].pc = "live" => ~run[t].isolated
  BY DEF Isolation
<1>c. \A t \in Runs : Name(t) \in Names /\ Branch(t)[2] = Name(t)
  BY NameTypes DEF Branch
<1>d. \A t, u \in Runs : run[t].pc \in Current /\ run[u].pc \in Current /\ t # u
                        => Name(t) # Name(u)
  BY NamesDiffer
<1>g. \A t \in Runs : run[t].isolated => run[t].pc \notin {"new", "named"}
  BY DEF Isolation
<1>t. ASSUME NEW b \in branches
      PROVE  \E u \in Runs : run'[u].pc \notin {"new", "named"} /\ Name(u)' = b[2]
  <2>1. PICK u \in Runs : run[u].pc \notin {"new", "named"} /\ Name(u) = b[2]
    BY DEF OnDisk, Taken
  <2> QED
    BY <2>1, NamesStay
<1> USE DEF OnDisk, TreesApart, RemovedApart, Taken, TreesRemoved, InTree, Current
<1>q. ASSUME UNCHANGED <<branches, trees, scratch>>,
             \A t \in Runs :
               /\ run'[t].isolated = run[t].isolated
               /\ InTree(t)' => InTree(t)
               /\ run'[t].pc = "removed" => run[t].pc = "removed"
               /\ run[t].isolated /\ Leaves(t) => Leaves(t)'
      PROVE  OnDisk'
  <2>1. TreesApart'
    BY <1>q, <1>a
  <2>2. RemovedApart'
    BY <1>e, <1>q, <1>a, Isolation
  <2>3. Taken'
    BY <1>q, <1>t
  <2>4. TreesRemoved'
    BY <1>q, <1>a
  <2> QED
    BY <2>1, <2>2, <2>3, <2>4
<1> USE DEF RunType
<1>1. ASSUME NEW r \in Runs, NEW m \in Rooms, NEW p \in Projects, Begin(r, m, p)
      PROVE  OnDisk'
  BY <1>1, <1>0, <1>q DEF Begin, git, Leaves
<1>2. ASSUME NEW r \in Runs, AddTree(r)
      PROVE  OnDisk'
  <2>1. TreesApart'
    BY <1>2, <1>0, <1>a, <1>b, <1>c, <1>d DEF AddTree
  <2>2. RemovedApart'
    BY <1>e, <1>2, <1>0, <1>a, <1>b, <1>c, <1>d DEF AddTree
  <2>3. Taken'
    BY <1>2, <1>0, <1>a, <1>b, <1>c, <1>d, <1>t DEF AddTree
  <2>4. TreesRemoved'
    BY <1>2, <1>0, <1>a, <1>b, <1>c, <1>d DEF AddTree, Leaves
  <2> QED
    BY <2>1, <2>2, <2>3, <2>4
<1>3. ASSUME NEW r \in Runs, FallBack(r)
      PROVE  OnDisk'
  BY <1>3, <1>0, <1>q DEF FallBack, git, Leaves
<1>3a. ASSUME NEW r \in Runs, NEW left \in BOOLEAN, AddFails(r, left)
      PROVE  OnDisk'
  <2>1. \A t \in Runs : /\ run'[t].isolated = run[t].isolated
                        /\ InTree(t)' <=> InTree(t)
                        /\ run'[t].pc = "removed" <=> run[t].pc = "removed"
                        /\ Leaves(t) => Leaves(t)'
    BY <1>3a, <1>0, <1>g DEF AddFails, Leaves
  <2>2. trees' = trees /\ scratch' = scratch /\ branches \subseteq branches'
    BY <1>3a DEF AddFails
  <2>3. TreesApart'
    BY <2>1, <2>2, <1>a
  <2>4. RemovedApart'
    BY <2>1, <2>2, <1>a, <1>e
  <2>5. ASSUME NEW b \in branches'
        PROVE  \E u \in Runs : run'[u].pc \notin {"new", "named"} /\ Name(u)' = b[2]
    <3>1. CASE b \in branches
      BY <3>1, <1>t
    <3>2. CASE b = Branch(r)
      <4>1. run'[r].pc = "live"
        BY <1>3a, <1>0 DEF AddFails
      <4>2. Name(r)' = Name(r)
        BY <1>3a, <1>0 DEF AddFails, Name
      <4>3. b[2] = Name(r)
        BY <3>2 DEF Branch
      <4> QED
        BY <4>1, <4>2, <4>3
    <3>3. branches' = branches \cup {Branch(r)} \/ branches' = branches
      BY <1>3a DEF AddFails
    <3> QED
      BY <3>1, <3>2, <3>3
  <2>6. Taken'
    BY <2>2, <2>5
  <2>7. TreesRemoved'
    BY <2>1, <2>2, <1>a
  <2> QED
    BY <2>3, <2>4, <2>6, <2>7
<1>4. ASSUME NEW r \in Runs, Edit(r)
      PROVE  OnDisk'
  <2>1. CASE run[r].isolated
    <3>1. InTree(r)
      BY <1>4, <1>b, <2>1 DEF Edit, Working
    <3>2. TreesApart'
      BY <1>4, <2>1, <3>1, <1>0, <1>a, <1>c DEF Edit
    <3>3. RemovedApart'
      BY <1>e, <1>4, <2>1, <1>0, <1>a DEF Edit
    <3>4. Taken'
      BY <1>4, <2>1, <3>1, <1>0, <1>a, <1>c, <1>t DEF Edit
    <3>5. TreesRemoved'
      BY <1>4, <2>1, <1>0, <1>a DEF Edit, Leaves
    <3> QED
      BY <3>2, <3>3, <3>4, <3>5
  <2>2. CASE ~run[r].isolated
    <3>1. UNCHANGED <<branches, trees, scratch>>
      BY <1>4, <2>2 DEF Edit
    <3>2. TreesApart'
      BY <1>4, <3>1, <1>0, <1>a DEF Edit
    <3>3. RemovedApart'
      BY <1>e, <1>4, <3>1, <1>0, <1>a DEF Edit
    <3>4. Taken'
      BY <1>4, <3>1, <1>0, <1>a, <1>t DEF Edit
    <3>5. TreesRemoved'
      BY <1>4, <3>1, <1>0, <1>a DEF Edit, Leaves
    <3> QED
      BY <3>2, <3>3, <3>4, <3>5
  <2> QED
    BY <2>1, <2>2
<1>5. ASSUME NEW r \in Runs, SelfCommit(r)
      PROVE  OnDisk'
  <2>1. TreesApart'
    BY <1>5, <1>0, <1>a, <1>b, <1>c, <1>d DEF SelfCommit, Working
  <2>2. RemovedApart'
    BY <1>e, <1>5, <1>0, <1>a, <1>b, <1>c, <1>d DEF SelfCommit, Working
  <2>3. Taken'
    BY <1>5, <1>0, <1>a, <1>b, <1>c, <1>d, <1>t DEF SelfCommit, Working
  <2>4. TreesRemoved'
    BY <1>5, <1>0, <1>a, <1>b, <1>c, <1>d DEF SelfCommit, Working, Leaves
  <2> QED
    BY <2>1, <2>2, <2>3, <2>4
<1>6. ASSUME NEW r \in Runs, ReturnLive(r)
      PROVE  OnDisk'
  BY <1>6, <1>0, <1>q DEF ReturnLive, git, Leaves
<1>7. ASSUME NEW r \in Runs, NEW ok \in BOOLEAN, Commit(r, ok)
      PROVE  OnDisk'
  <2>1. TreesApart'
    BY <1>7, <1>0, <1>a, <1>b, <1>c, <1>d DEF Commit
  <2>2. RemovedApart'
    BY <1>e, <1>7, <1>0, <1>a, <1>b, <1>c, <1>d DEF Commit
  <2>3. Taken'
    BY <1>7, <1>0, <1>a, <1>b, <1>c, <1>d, <1>t DEF Commit
  <2>4. TreesRemoved'
    BY <1>7, <1>0, <1>a, <1>b, <1>c, <1>d DEF Commit, Leaves
  <2> QED
    BY <2>1, <2>2, <2>3, <2>4
<1>8. ASSUME NEW r \in Runs, NEW ok \in BOOLEAN, NEW gone \in BOOLEAN,
             RemoveTree(r, ok, gone)
      PROVE  OnDisk'
  <2>1. InTree(r)
    BY <1>8 DEF RemoveTree, Remove, Removed, Isolation
  <2>2. \A t \in Runs : /\ InTree(t)' => t # r /\ InTree(t)
                        /\ run'[t].isolated = run[t].isolated
    BY <1>8, <1>0 DEF RemoveTree, Remove, Removed
  <2>3. TreesApart'
    BY <1>8, <2>1, <2>2, <1>0, <1>a, <1>c DEF RemoveTree, Remove, Removed
  <2>4. RemovedApart'
    BY <1>e, <1>8, <2>1, <2>2, <1>0, <1>a, <1>c DEF RemoveTree, Remove, Removed, Isolation
  <2>5. Taken'
    BY <1>8, <2>1, <2>2, <1>0, <1>a, <1>c, <1>t DEF RemoveTree, Remove, Removed
  <2>6. TreesRemoved'
    BY <1>8, <2>1, <2>2, <1>0, <1>a, <1>c DEF RemoveTree, Remove, Removed, Leaves
  <2> QED
    BY <2>3, <2>4, <2>5, <2>6
<1>9. ASSUME NEW r \in Runs, NEW ok \in BOOLEAN, DropBranch(r, ok)
      PROVE  OnDisk'
  <2>1. TreesApart'
    BY <1>9, <1>0, <1>a, <1>b, <1>c, <1>d DEF DropBranch
  <2>2. RemovedApart'
    BY <1>e, <1>9, <1>0, <1>a, <1>b, <1>c, <1>d DEF DropBranch
  <2>3. Taken'
    BY <1>9, <1>0, <1>a, <1>b, <1>c, <1>d, <1>t DEF DropBranch
  <2>4. TreesRemoved'
    BY <1>9, <1>0, <1>a, <1>b, <1>c, <1>d DEF DropBranch, Leaves
  <2> QED
    BY <2>1, <2>2, <2>3, <2>4
<1>10. ASSUME NEW r \in Runs, NEW gone \in BOOLEAN, Abandon(r, gone)
      PROVE  OnDisk'
  <2>1. \A t \in Runs :
          /\ InTree(t)' => t # r /\ InTree(t)
          /\ InTree(t)' => (run[r].isolated => Name(t) # Name(r))
          /\ run'[t].isolated = run[t].isolated
    BY <1>10, <1>0, <1>b DEF Abandon, Remove, Removed
  <2>2. TreesApart'
    BY <1>10, <2>1, <1>0, <1>a, <1>c DEF Abandon, Remove, Removed
  <2>3. RemovedApart'
    BY <1>e, <1>10, <2>1, <1>0, <1>a, <1>c DEF Abandon, Remove, Removed, Isolation
  <2>4. Taken'
    BY <1>10, <2>1, <1>0, <1>a, <1>c, <1>t DEF Abandon, Remove, Removed
  <2>5. TreesRemoved'
    <3>1. ASSUME NEW n \in trees'
          PROVE  \E t \in Runs : Name(t)' = n /\ run'[t].isolated /\ Leaves(t)'
      <4>1. n \in trees
        BY <1>10 DEF Abandon, Remove
      <4>2. PICK t \in Runs : Name(t) = n /\ run[t].isolated /\ Leaves(t)
        BY <4>1, <1>a
      <4>3. CASE t # r
        <5>1. run'[t] = run[t]
          BY <1>10, <4>3, <1>0 DEF Abandon
        <5> QED
          BY <4>2, <5>1 DEF Leaves, Name
      <4>4. CASE t = r
        <5>1. ~gone
          BY <1>10, <4>2, <4>4, <3>1 DEF Abandon, Remove
        <5>2. "remove" \in run'[r].failed
          BY <1>10, <4>2, <4>4, <5>1, <1>0 DEF Abandon, Removed
        <5>3. run'[r].isolated = run[r].isolated /\ Name(r)' = Name(r)
          BY <1>10, <1>0 DEF Abandon, Name
        <5> QED
          BY <4>2, <4>4, <5>2, <5>3 DEF Leaves
      <4> QED
        BY <4>3, <4>4
    <3> QED
      BY <3>1 DEF TreesRemoved
  <2> QED
    BY <2>2, <2>3, <2>4, <2>5
<1>11. ASSUME NEW r \in Runs, OrphanEnds(r)
      PROVE  OnDisk'
  BY <1>11, <1>0, <1>q DEF OrphanEnds, git, Leaves
<1>12. ASSUME NEW p \in Projects, OwnerCommits(p)
      PROVE  OnDisk'
  BY <1>12, <1>q DEF OwnerCommits, Leaves
<1>13. ASSUME NEW b \in branches, OwnerMerges(b)
      PROVE  OnDisk'
  <2>1. /\ run' = run /\ trees' = trees /\ scratch' = scratch
        /\ branches' = branches \ {b}
    BY <1>13 DEF OwnerMerges
  <2>2. \A t \in Runs : InTree(t) => Branch(t) # b
    BY <1>13 DEF OwnerMerges, Leaves
  <2>3. TreesApart'
    BY <2>1, <2>2, <1>a
  <2>4. RemovedApart'
    BY <2>1, <1>a, <1>e
  <2>5. Taken'
    BY <2>1, <1>a, <1>t
  <2>6. TreesRemoved'
    BY <2>1, <1>a DEF Leaves
  <2> QED
    BY <2>3, <2>4, <2>5, <2>6
<1>14. ASSUME Restart PROVE OnDisk'
  <2>1. ASSUME NEW t \in Runs
        PROVE  /\ run'[t].isolated = run[t].isolated
               /\ InTree(t)' => InTree(t)
               /\ run'[t].pc = "removed" => run[t].pc = "removed"
               /\ run[t].isolated /\ Leaves(t) => Leaves(t)'
    <3>1. CASE run[t].pc \in {"tree", "live"}
      <4>1. run'[t] = [run[t] EXCEPT !.pc = "orphan"]
        BY <1>14, <3>1 DEF Restart
      <4> QED
        BY <4>1, <3>1, <1>0, <1>f DEF Leaves
    <3>2. CASE run[t].pc \in {"named", "judged", "removed"}
      <4>1. run'[t] = [run[t] EXCEPT !.pc = "lost"]
        BY <1>14, <3>2 DEF Restart
      <4> QED
        BY <4>1, <3>2, <1>0 DEF Leaves
    <3>3. CASE run[t].pc \notin {"tree", "live", "named", "judged", "removed"}
      <4>1. run'[t] = run[t]
        BY <1>14, <3>3 DEF Restart
      <4> QED
        BY <4>1 DEF Leaves
    <3> QED
      BY <3>1, <3>2, <3>3
  <2> QED
    BY <1>14, <1>q, <2>1 DEF Restart, git
<1>15. ASSUME UNCHANGED vars PROVE OnDisk'
  BY <1>15, <1>q DEF vars, git, Leaves
<1>16. QED
  BY <1>0, <1>1, <1>2, <1>3, <1>4, <1>5, <1>6, <1>7, <1>8, <1>9, <1>10, <1>11, <1>12, <1>13, <1>14, <1>15, <1>3a
  DEF Next
-----------------------------------------------------------------------------
(* What is kept.                                                          *)

(* The checkouts only move forward.                                        *)
LEMMA HeadGrows ==
  ASSUME TypeOK, [Next]_vars, NEW q \in Projects
  PROVE  head[q] \subseteq head'[q]
<1>0. [Next]_vars /\ head \in [Projects -> SUBSET Edits]
  BY DEF TypeOK
<1>1. ASSUME NEW r \in Runs, NEW m \in Rooms, NEW p \in Projects, Begin(r, m, p)
      PROVE  head[q] \subseteq head'[q]
  BY <1>1, <1>0 DEF Begin, git
<1>2. ASSUME NEW r \in Runs, AddTree(r)
      PROVE  head[q] \subseteq head'[q]
  BY <1>2, <1>0 DEF AddTree
<1>3. ASSUME NEW r \in Runs, FallBack(r)
      PROVE  head[q] \subseteq head'[q]
  BY <1>3, <1>0 DEF FallBack, git
<1>3a. ASSUME NEW r \in Runs, NEW left \in BOOLEAN, AddFails(r, left)
      PROVE  head[q] \subseteq head'[q]
  BY <1>3a, <1>0 DEF AddFails, git
<1>4. ASSUME NEW r \in Runs, Edit(r)
      PROVE  head[q] \subseteq head'[q]
  BY <1>4, <1>0 DEF Edit
<1>5. ASSUME NEW r \in Runs, SelfCommit(r)
      PROVE  head[q] \subseteq head'[q]
  BY <1>5, <1>0, NameTypes DEF SelfCommit
<1>6. ASSUME NEW r \in Runs, ReturnLive(r)
      PROVE  head[q] \subseteq head'[q]
  BY <1>6, <1>0 DEF ReturnLive, git
<1>7. ASSUME NEW r \in Runs, NEW ok \in BOOLEAN, Commit(r, ok)
      PROVE  head[q] \subseteq head'[q]
  BY <1>7, <1>0 DEF Commit
<1>8. ASSUME NEW r \in Runs, NEW ok \in BOOLEAN, NEW gone \in BOOLEAN,
             RemoveTree(r, ok, gone)
      PROVE  head[q] \subseteq head'[q]
  BY <1>8, <1>0 DEF RemoveTree, Remove, Removed
<1>9. ASSUME NEW r \in Runs, NEW ok \in BOOLEAN, DropBranch(r, ok)
      PROVE  head[q] \subseteq head'[q]
  BY <1>9, <1>0 DEF DropBranch
<1>10. ASSUME NEW r \in Runs, NEW gone \in BOOLEAN, Abandon(r, gone)
      PROVE  head[q] \subseteq head'[q]
  BY <1>10, <1>0 DEF Abandon, Remove, Removed
<1>11. ASSUME NEW r \in Runs, OrphanEnds(r)
      PROVE  head[q] \subseteq head'[q]
  BY <1>11, <1>0 DEF OrphanEnds, git
<1>12. ASSUME NEW p \in Projects, OwnerCommits(p)
      PROVE  head[q] \subseteq head'[q]
  BY <1>12, <1>0 DEF OwnerCommits
<1>13. ASSUME NEW b \in branches, OwnerMerges(b)
      PROVE  head[q] \subseteq head'[q]
  BY <1>13, <1>0 DEF OwnerMerges
<1>14. ASSUME Restart PROVE head[q] \subseteq head'[q]
  BY <1>14, <1>0 DEF Restart, git
<1>15. ASSUME UNCHANGED vars PROVE head[q] \subseteq head'[q]
  BY <1>15 DEF vars, git
<1>16. QED
  BY <1>0, <1>1, <1>2, <1>3, <1>4, <1>5, <1>6, <1>7, <1>8, <1>9, <1>10, <1>11, <1>12, <1>13, <1>14, <1>15, <1>3a
  DEF Next

(* An edit is kept in the checkout, committed or not, or on a branch.      *)
LEMMA KeptMember ==
  ASSUME NEW q, NEW e
  PROVE  e \in Kept(q) <=> \/ e \in head[q] \/ e \in dirty[q]
                           \/ \E b \in branches : b[1] = q /\ e \in tip[b]
BY DEF Kept

(* The revision of a branch changes in the hands of the one run that is in *)
(* its worktree; a branch that is deleted has been merged or holds nothing *)
(* of its own.                                                             *)
LEMMA BasedStep ==
  TypeOK /\ Numbered /\ Isolation /\ OnDisk /\ Based /\ [Next]_vars => Based'
<1> SUFFICES ASSUME TypeOK, Numbered, Isolation, OnDisk, Based, [Next]_vars,
                    NEW t \in Runs
             PROVE  /\ run'[t].pc # "new" => run'[t].base \subseteq head'[run'[t].project]
                    /\ run'[t].pc = "removed" => (tip[Branch(t)])' \subseteq head'[run'[t].project]
  BY DEF Based
<1> DEFINE Goal == /\ run'[t].pc # "new" => run'[t].base \subseteq head'[run'[t].project]
                   /\ run'[t].pc = "removed" => (tip[Branch(t)])' \subseteq head'[run'[t].project]
<1>0. [Next]_vars /\ run \in [Runs -> RunType] /\ tip \in [Projects \X Names -> SUBSET Edits]
  BY DEF TypeOK
<1>a. run[t].pc # "new" =>
        /\ Branch(t)' = Branch(t) /\ run'[t].project = run[t].project
        /\ run'[t].base = run[t].base
  BY NamesStay
<1>b. \A q \in Projects : head[q] \subseteq head'[q]
  BY HeadGrows
<1>c. run[t].project \in Projects /\ Branch(t) \in Projects \X Names
  BY NameTypes
<1>d. /\ run[t].pc # "new" => run[t].base \subseteq head[run[t].project]
      /\ run[t].pc = "removed" => tip[Branch(t)] \subseteq head[run[t].project]
  BY DEF Based
<1>e. ASSUME run[t].pc # "new", run'[t].pc = "removed" => run[t].pc = "removed",
             run[t].pc = "removed" => tip'[Branch(t)] \in {tip[Branch(t)], {}}
      PROVE  Goal
  BY <1>a, <1>b, <1>c, <1>d, <1>e
<1>f. \A r \in Runs : r # t /\ run[t].pc = "removed" /\ (InTree(r) \/ run[r].pc \in Current)
                     => Branch(r) # Branch(t)
  BY NamesDiffer DEF OnDisk, RemovedApart, Branch, Current
<1> HIDE DEF Goal
<1> USE DEF RunType
<1>h. ASSUME run[t].pc = "new", run'[t] = run[t]
      PROVE  Goal
  BY <1>h DEF Goal
<1>i. \A r \in Runs : run[r].isolated /\ run[r].pc \in {"tree", "live", "orphan"} => InTree(r)
  BY DEF Isolation, InTree
<1>1. ASSUME NEW r \in Runs, NEW m \in Rooms, NEW p \in Projects, Begin(r, m, p)
      PROVE  Goal
  <2>1. CASE t = r
    BY <1>1, <2>1, <1>0, <1>c DEF Begin, git, Goal
  <2>2. CASE t # r
    <3>1. run'[t] = run[t] /\ tip' = tip
      BY <1>1, <2>2, <1>0 DEF Begin, git
    <3> QED
      BY <3>1, <1>h, <1>e
  <2> QED
    BY <2>1, <2>2
<1>2. ASSUME NEW r \in Runs, AddTree(r)
      PROVE  Goal
  <2>1. CASE run[t].pc = "new"
    BY <1>2, <2>1, <1>0, <1>h DEF AddTree
  <2>2. CASE run[t].pc # "new"
    <3>1. run[t].pc = "removed" => Branch(t) # Branch(r)
      BY <1>2, <1>f DEF AddTree, Current
    <3>2. run[t].pc = "removed" => tip'[Branch(t)] = tip[Branch(t)]
      BY <1>2, <3>1, <1>0, <1>c DEF AddTree
    <3>3. run'[t].pc = "removed" => run[t].pc = "removed"
      BY <1>2, <1>0 DEF AddTree
    <3> QED
      BY <2>2, <3>2, <3>3, <1>e
  <2> QED
    BY <2>1, <2>2
<1>3. ASSUME NEW r \in Runs, FallBack(r)
      PROVE  Goal
  <2>1. tip' = tip
    BY <1>3 DEF FallBack, git
  <2>2. /\ run'[t].pc = "removed" => run[t].pc = "removed"
        /\ run[t].pc = "new" => run'[t] = run[t]
    BY <1>3, <1>0 DEF FallBack
  <2> QED
    BY <2>1, <2>2, <1>e, <1>h
<1>3a. ASSUME NEW r \in Runs, NEW left \in BOOLEAN, AddFails(r, left)
      PROVE  Goal
  <2>1. /\ run'[t].pc = "removed" => run[t].pc = "removed"
        /\ run[t].pc = "new" => run'[t] = run[t]
    BY <1>3a, <1>0 DEF AddFails
  <2>2. run[t].pc = "removed" => Branch(t) # Branch(r)
    BY <1>3a, <1>f DEF AddFails, Current
  <2>3. run[t].pc = "removed" => tip'[Branch(t)] = tip[Branch(t)]
    BY <1>3a, <2>2, <1>0, <1>c DEF AddFails
  <2> QED
    BY <2>1, <2>3, <1>e, <1>h
<1>4. ASSUME NEW r \in Runs, Edit(r)
      PROVE  Goal
  <2>1. tip' = tip
    BY <1>4 DEF Edit, git
  <2>2. /\ run'[t].pc = "removed" => run[t].pc = "removed"
        /\ run[t].pc = "new" => run'[t] = run[t]
    BY <1>4, <1>0 DEF Edit, Working
  <2> QED
    BY <2>1, <2>2, <1>e, <1>h
<1>5. ASSUME NEW r \in Runs, SelfCommit(r)
      PROVE  Goal
  <2>1. run' = run
    BY <1>5 DEF SelfCommit
  <2>2. run[t].pc = "removed" => tip'[Branch(t)] = tip[Branch(t)]
    BY <1>5, <1>0, <1>c, <1>f, <1>i DEF SelfCommit, Working
  <2> QED
    BY <2>1, <2>2, <1>e, <1>h
<1>6. ASSUME NEW r \in Runs, ReturnLive(r)
      PROVE  Goal
  <2>1. tip' = tip
    BY <1>6 DEF ReturnLive, git
  <2>2. /\ run'[t].pc = "removed" => run[t].pc = "removed"
        /\ run[t].pc = "new" => run'[t] = run[t]
    BY <1>6, <1>0 DEF ReturnLive
  <2> QED
    BY <2>1, <2>2, <1>e, <1>h
<1>7. ASSUME NEW r \in Runs, NEW ok \in BOOLEAN, Commit(r, ok)
      PROVE  Goal
  <2>1. run[t].pc = "removed" => Branch(t) # Branch(r)
    BY <1>7, <1>f DEF Commit, Current
  <2>2. run[t].pc = "removed" => tip'[Branch(t)] = tip[Branch(t)]
    BY <1>7, <2>1, <1>0, <1>c DEF Commit
  <2>3. /\ run'[t].pc = "removed" => run[t].pc = "removed"
        /\ run[t].pc = "new" => run'[t] = run[t]
    BY <1>7, <1>0 DEF Commit
  <2> QED
    BY <2>2, <2>3, <1>e, <1>h
<1>8. ASSUME NEW r \in Runs, NEW ok \in BOOLEAN, NEW gone \in BOOLEAN,
             RemoveTree(r, ok, gone)
      PROVE  Goal
  <2>1. tip' = tip /\ head' = head
    BY <1>8 DEF RemoveTree, Remove, Removed
  <2>2. CASE t = r
    <3>1. run[t].pc = "judged" /\ (run'[t].pc = "removed" => tip[Branch(t)] = run[t].base)
      BY <1>8, <2>2, <1>0 DEF RemoveTree, Remove, Removed, Changed
    <3> QED
      BY <2>1, <3>1, <1>a, <1>d DEF Goal
  <2>3. CASE t # r
    BY <1>8, <2>1, <2>3, <1>0, <1>e, <1>h DEF RemoveTree, Remove, Removed
  <2> QED
    BY <2>2, <2>3
<1>9. ASSUME NEW r \in Runs, NEW ok \in BOOLEAN, DropBranch(r, ok)
      PROVE  Goal
  <2>1. tip'[Branch(t)] \in {tip[Branch(t)], {}}
    BY <1>9, <1>0, <1>c DEF DropBranch
  <2>2. /\ run'[t].pc = "removed" => run[t].pc = "removed"
        /\ run[t].pc = "new" => run'[t] = run[t]
    BY <1>9, <1>0 DEF DropBranch
  <2> QED
    BY <2>1, <2>2, <1>e, <1>h
<1>10. ASSUME NEW r \in Runs, NEW gone \in BOOLEAN, Abandon(r, gone)
      PROVE  Goal
  <2>1. tip' = tip
    BY <1>10 DEF Abandon, Remove, Removed, git
  <2>2. /\ run'[t].pc = "removed" => run[t].pc = "removed"
        /\ run[t].pc = "new" => run'[t] = run[t]
    BY <1>10, <1>0 DEF Abandon, Remove, Removed
  <2> QED
    BY <2>1, <2>2, <1>e, <1>h
<1>11. ASSUME NEW r \in Runs, OrphanEnds(r)
      PROVE  Goal
  <2>1. tip' = tip
    BY <1>11 DEF OrphanEnds, git
  <2>2. /\ run'[t].pc = "removed" => run[t].pc = "removed"
        /\ run[t].pc = "new" => run'[t] = run[t]
    BY <1>11, <1>0 DEF OrphanEnds
  <2> QED
    BY <2>1, <2>2, <1>e, <1>h
<1>12. ASSUME NEW p \in Projects, OwnerCommits(p)
      PROVE  Goal
  BY <1>12, <1>e, <1>h DEF OwnerCommits
<1>13. ASSUME NEW b \in branches, OwnerMerges(b)
      PROVE  Goal
  <2>1. tip'[Branch(t)] \in {tip[Branch(t)], {}} /\ run' = run
    BY <1>13, <1>0, <1>c DEF OwnerMerges
  <2> QED
    BY <2>1, <1>e, <1>h
<1>14. ASSUME Restart PROVE Goal
  <2>1. tip' = tip
    BY <1>14 DEF Restart, git
  <2>2. /\ run'[t].pc = "removed" => run[t].pc = "removed"
        /\ run[t].pc = "new" => run'[t] = run[t]
    BY <1>14, <1>0 DEF Restart
  <2> QED
    BY <2>1, <2>2, <1>e, <1>h
<1>15. ASSUME UNCHANGED vars PROVE Goal
  BY <1>15, <1>e, <1>h DEF vars, git
<1>16. Goal
  BY <1>0, <1>1, <1>2, <1>3, <1>4, <1>5, <1>6, <1>7, <1>8, <1>9, <1>10, <1>11, <1>12, <1>13, <1>14, <1>15, <1>3a
  DEF Next
<1> QED
  BY <1>16 DEF Goal

(* What is in a live checkout, committed or not, stays in it.              *)
LEMMA CheckoutGrows ==
  ASSUME TypeOK, [Next]_vars, NEW q \in Projects, NEW e \in head[q] \cup dirty[q]
  PROVE  e \in head'[q] \cup dirty'[q]
<1>0. /\ [Next]_vars /\ e \in head[q] \cup dirty[q]
      /\ head \in [Projects -> SUBSET Edits] /\ dirty \in [Projects -> SUBSET Edits]
  BY DEF TypeOK
<1>1. ASSUME NEW r \in Runs, NEW m \in Rooms, NEW p \in Projects, Begin(r, m, p)
      PROVE  e \in head'[q] \cup dirty'[q]
  BY <1>1, <1>0 DEF Begin, git
<1>2. ASSUME NEW r \in Runs, AddTree(r)
      PROVE  e \in head'[q] \cup dirty'[q]
  BY <1>2, <1>0 DEF AddTree
<1>3. ASSUME NEW r \in Runs, FallBack(r)
      PROVE  e \in head'[q] \cup dirty'[q]
  BY <1>3, <1>0 DEF FallBack, git
<1>3a. ASSUME NEW r \in Runs, NEW left \in BOOLEAN, AddFails(r, left)
      PROVE  e \in head'[q] \cup dirty'[q]
  BY <1>3a, <1>0 DEF AddFails, git
<1>4. ASSUME NEW r \in Runs, Edit(r)
      PROVE  e \in head'[q] \cup dirty'[q]
  BY <1>4, <1>0 DEF Edit
<1>5. ASSUME NEW r \in Runs, SelfCommit(r)
      PROVE  e \in head'[q] \cup dirty'[q]
  BY <1>5, <1>0, NameTypes DEF SelfCommit
<1>6. ASSUME NEW r \in Runs, ReturnLive(r)
      PROVE  e \in head'[q] \cup dirty'[q]
  BY <1>6, <1>0 DEF ReturnLive, git
<1>7. ASSUME NEW r \in Runs, NEW ok \in BOOLEAN, Commit(r, ok)
      PROVE  e \in head'[q] \cup dirty'[q]
  BY <1>7, <1>0 DEF Commit
<1>8. ASSUME NEW r \in Runs, NEW ok \in BOOLEAN, NEW gone \in BOOLEAN,
             RemoveTree(r, ok, gone)
      PROVE  e \in head'[q] \cup dirty'[q]
  BY <1>8, <1>0 DEF RemoveTree, Remove, Removed
<1>9. ASSUME NEW r \in Runs, NEW ok \in BOOLEAN, DropBranch(r, ok)
      PROVE  e \in head'[q] \cup dirty'[q]
  BY <1>9, <1>0 DEF DropBranch
<1>10. ASSUME NEW r \in Runs, NEW gone \in BOOLEAN, Abandon(r, gone)
      PROVE  e \in head'[q] \cup dirty'[q]
  BY <1>10, <1>0 DEF Abandon, Remove, Removed
<1>11. ASSUME NEW r \in Runs, OrphanEnds(r)
      PROVE  e \in head'[q] \cup dirty'[q]
  BY <1>11, <1>0 DEF OrphanEnds, git
<1>12. ASSUME NEW p \in Projects, OwnerCommits(p)
      PROVE  e \in head'[q] \cup dirty'[q]
  BY <1>12, <1>0 DEF OwnerCommits
<1>13. ASSUME NEW b \in branches, OwnerMerges(b)
      PROVE  e \in head'[q] \cup dirty'[q]
  BY <1>13, <1>0 DEF OwnerMerges
<1>14. ASSUME Restart PROVE e \in head'[q] \cup dirty'[q]
  BY <1>14, <1>0 DEF Restart, git
<1>15. ASSUME UNCHANGED vars PROVE e \in head'[q] \cup dirty'[q]
  BY <1>15, <1>0 DEF vars, git
<1>16. QED
  BY <1>0, <1>1, <1>2, <1>3, <1>4, <1>5, <1>6, <1>7, <1>8, <1>9, <1>10, <1>11, <1>12, <1>13, <1>14, <1>15, <1>3a
  DEF Next

(* What is on a branch stays on it, until the branch is merged, or deleted *)
(* with nothing of its own.                                                *)
LEMMA BranchGrows ==
  ASSUME TypeOK, OnDisk, Based, [Next]_vars, NEW b \in branches, NEW e \in tip[b]
  PROVE  (b \in branches' /\ e \in tip'[b]) \/ e \in head'[b[1]]
<1>0. /\ [Next]_vars /\ b \in branches /\ e \in tip[b] /\ b \in Projects \X Names
      /\ head \in [Projects -> SUBSET Edits]
      /\ tip \in [Projects \X Names -> SUBSET Edits]
  BY DEF TypeOK
<1>1. ASSUME NEW r \in Runs, NEW m \in Rooms, NEW p \in Projects, Begin(r, m, p)
      PROVE  (b \in branches' /\ e \in tip'[b]) \/ e \in head'[b[1]]
  BY <1>1, <1>0 DEF Begin, git
<1>2. ASSUME NEW r \in Runs, AddTree(r)
      PROVE  (b \in branches' /\ e \in tip'[b]) \/ e \in head'[b[1]]
  BY <1>2, <1>0 DEF AddTree
<1>3. ASSUME NEW r \in Runs, FallBack(r)
      PROVE  (b \in branches' /\ e \in tip'[b]) \/ e \in head'[b[1]]
  BY <1>3, <1>0 DEF FallBack, git
<1>3a. ASSUME NEW r \in Runs, NEW left \in BOOLEAN, AddFails(r, left)
      PROVE  (b \in branches' /\ e \in tip'[b]) \/ e \in head'[b[1]]
  BY <1>3a, <1>0 DEF AddFails, git
<1>4. ASSUME NEW r \in Runs, Edit(r)
      PROVE  (b \in branches' /\ e \in tip'[b]) \/ e \in head'[b[1]]
  BY <1>4, <1>0 DEF Edit, git
<1>5. ASSUME NEW r \in Runs, SelfCommit(r)
      PROVE  (b \in branches' /\ e \in tip'[b]) \/ e \in head'[b[1]]
  BY <1>5, <1>0 DEF SelfCommit
<1>6. ASSUME NEW r \in Runs, ReturnLive(r)
      PROVE  (b \in branches' /\ e \in tip'[b]) \/ e \in head'[b[1]]
  BY <1>6, <1>0 DEF ReturnLive, git
<1>7. ASSUME NEW r \in Runs, NEW ok \in BOOLEAN, Commit(r, ok)
      PROVE  (b \in branches' /\ e \in tip'[b]) \/ e \in head'[b[1]]
  BY <1>7, <1>0 DEF Commit
<1>8. ASSUME NEW r \in Runs, NEW ok \in BOOLEAN, NEW gone \in BOOLEAN,
             RemoveTree(r, ok, gone)
      PROVE  (b \in branches' /\ e \in tip'[b]) \/ e \in head'[b[1]]
  BY <1>8, <1>0 DEF RemoveTree, Remove, Removed
<1>9. ASSUME NEW r \in Runs, NEW ok \in BOOLEAN, DropBranch(r, ok)
      PROVE  (b \in branches' /\ e \in tip'[b]) \/ e \in head'[b[1]]
  <2>1. tip[Branch(r)] \subseteq head[run[r].project] /\ Branch(r)[1] = run[r].project
    BY <1>9 DEF DropBranch, Based, Branch
  <2>2. CASE b = Branch(r)
    BY <1>9, <2>1, <2>2, <1>0 DEF DropBranch
  <2>3. CASE b # Branch(r)
    BY <1>9, <2>3, <1>0 DEF DropBranch
  <2> QED
    BY <2>2, <2>3
<1>10. ASSUME NEW r \in Runs, NEW gone \in BOOLEAN, Abandon(r, gone)
      PROVE  (b \in branches' /\ e \in tip'[b]) \/ e \in head'[b[1]]
  BY <1>10, <1>0 DEF Abandon, Remove, Removed
<1>11. ASSUME NEW r \in Runs, OrphanEnds(r)
      PROVE  (b \in branches' /\ e \in tip'[b]) \/ e \in head'[b[1]]
  BY <1>11, <1>0 DEF OrphanEnds, git
<1>12. ASSUME NEW p \in Projects, OwnerCommits(p)
      PROVE  (b \in branches' /\ e \in tip'[b]) \/ e \in head'[b[1]]
  BY <1>12, <1>0 DEF OwnerCommits
<1>13. ASSUME NEW c \in branches, OwnerMerges(c)
      PROVE  (b \in branches' /\ e \in tip'[b]) \/ e \in head'[b[1]]
  BY <1>13, <1>0 DEF OwnerMerges
<1>14. ASSUME Restart PROVE (b \in branches' /\ e \in tip'[b]) \/ e \in head'[b[1]]
  BY <1>14, <1>0 DEF Restart, git
<1>15. ASSUME UNCHANGED vars PROVE (b \in branches' /\ e \in tip'[b]) \/ e \in head'[b[1]]
  BY <1>15, <1>0 DEF vars, git
<1>16. QED
  BY <1>0, <1>1, <1>2, <1>3, <1>4, <1>5, <1>6, <1>7, <1>8, <1>9, <1>10, <1>11, <1>12, <1>13, <1>14, <1>15, <1>3a
  DEF Next

(* What a project holds, in its checkout or on a branch, it goes on        *)
(* holding.                                                                *)
LEMMA KeptGrows ==
  ASSUME TypeOK, OnDisk, Based, [Next]_vars, NEW q \in Projects
  PROVE  Kept(q) \subseteq Kept(q)'
<1> SUFFICES ASSUME NEW e \in Kept(q) PROVE e \in Kept(q)'
  OBVIOUS
<1>1. CASE e \in head[q] \cup dirty[q]
  <2>1. e \in head'[q] \cup dirty'[q]
    BY <1>1, CheckoutGrows
  <2> QED
    BY <2>1 DEF Kept
<1>2. ASSUME NEW b \in branches, b[1] = q, e \in tip[b]
      PROVE  e \in Kept(q)'
  <2>1. (b \in branches' /\ e \in tip'[b]) \/ e \in head'[q]
    BY <1>2, BranchGrows
  <2> QED
    BY <2>1, <1>2 DEF Kept
<1> QED
  BY <1>1, <1>2, KeptMember

(* What was reported is never lost.                                        *)
LEMMA ReportedStep ==
  TypeOK /\ Isolation /\ OnDisk /\ Based /\ ReportedKept /\ [Next]_vars => ReportedKept'
<1> SUFFICES ASSUME TypeOK, Isolation, OnDisk, Based, ReportedKept, [Next]_vars,
                    NEW t \in Runs
             PROVE  (run[t].told \subseteq Kept(run[t].project))'
  BY DEF ReportedKept
<1>0. [Next]_vars /\ run \in [Runs -> RunType] /\ run[t].project \in Projects
  BY NameTypes DEF TypeOK
<1>p. PICK q \in Projects : q = run[t].project
  BY <1>0
<1>a. run[t].told \subseteq Kept(q)'
  <2>1. run[t].told \subseteq Kept(q)
    BY <1>p DEF ReportedKept
  <2> QED
    BY <2>1, KeptGrows
<1>b. run[t].pc # "new" => run'[t].project = q
  BY <1>p, NamesStay
<1>q. ASSUME run[t].pc # "new" PROVE Kept(run[t].project)' = Kept(q)'
  BY <1>q, <1>b DEF Kept
<1>c. run[t].pc = "new" => run[t].told = {}
  BY DEF Isolation
<1>d. ASSUME run'[t].told \in {run[t].told, {}}
      PROVE  (run[t].told \subseteq Kept(run[t].project))'
  <2>1. CASE run[t].pc = "new"
    BY <1>c, <1>d, <2>1
  <2>2. CASE run[t].pc # "new"
    BY <1>a, <1>q, <1>d, <2>2
  <2> QED
    BY <2>1, <2>2
<1> USE DEF RunType
<1>1. ASSUME NEW r \in Runs, NEW m \in Rooms, NEW p \in Projects, Begin(r, m, p)
      PROVE  (run[t].told \subseteq Kept(run[t].project))'
  BY <1>1, <1>0, <1>d DEF Begin
<1>2. ASSUME NEW r \in Runs, AddTree(r)
      PROVE  (run[t].told \subseteq Kept(run[t].project))'
  BY <1>2, <1>0, <1>d DEF AddTree
<1>3. ASSUME NEW r \in Runs, FallBack(r)
      PROVE  (run[t].told \subseteq Kept(run[t].project))'
  BY <1>3, <1>0, <1>d DEF FallBack
<1>3a. ASSUME NEW r \in Runs, NEW left \in BOOLEAN, AddFails(r, left)
      PROVE  (run[t].told \subseteq Kept(run[t].project))'
  BY <1>3a, <1>0, <1>d DEF AddFails
<1>4. ASSUME NEW r \in Runs, Edit(r)
      PROVE  (run[t].told \subseteq Kept(run[t].project))'
  BY <1>4, <1>0, <1>d DEF Edit
<1>5. ASSUME NEW r \in Runs, SelfCommit(r)
      PROVE  (run[t].told \subseteq Kept(run[t].project))'
  BY <1>5, <1>0, <1>d DEF SelfCommit
<1>6. ASSUME NEW r \in Runs, ReturnLive(r)
      PROVE  (run[t].told \subseteq Kept(run[t].project))'
  BY <1>6, <1>0, <1>d DEF ReturnLive
<1>7. ASSUME NEW r \in Runs, NEW ok \in BOOLEAN, Commit(r, ok)
      PROVE  (run[t].told \subseteq Kept(run[t].project))'
  BY <1>7, <1>0, <1>d DEF Commit
<1>8. ASSUME NEW r \in Runs, NEW ok \in BOOLEAN, NEW gone \in BOOLEAN,
             RemoveTree(r, ok, gone)
      PROVE  (run[t].told \subseteq Kept(run[t].project))'
  <2>1. CASE t # r
    BY <1>8, <2>1, <1>0, <1>d DEF RemoveTree, Remove, Removed
  <2>2. CASE t = r
    <3>1. run'[t].told \subseteq tip[Branch(t)] /\ tip' = tip /\ branches' = branches
      BY <1>8, <2>2, <1>0 DEF RemoveTree, Remove, Removed
    <3>2. Branch(t) \in branches /\ run[t].pc = "judged"
      BY <1>8, <2>2 DEF RemoveTree, Remove, Removed, Isolation, OnDisk, TreesApart, InTree
    <3>3. Branch(t)[1] = q /\ Kept(run[t].project)' = Kept(q)'
      BY <1>p, <1>q, <3>2 DEF Branch
    <3>4. \A e \in tip'[Branch(t)] : e \in Kept(q)'
      BY <3>1, <3>2, <3>3 DEF Kept
    <3> QED
      BY <3>1, <3>3, <3>4
  <2> QED
    BY <2>1, <2>2
<1>9. ASSUME NEW r \in Runs, NEW ok \in BOOLEAN, DropBranch(r, ok)
      PROVE  (run[t].told \subseteq Kept(run[t].project))'
  BY <1>9, <1>0, <1>d DEF DropBranch
<1>10. ASSUME NEW r \in Runs, NEW gone \in BOOLEAN, Abandon(r, gone)
      PROVE  (run[t].told \subseteq Kept(run[t].project))'
  BY <1>10, <1>0, <1>d DEF Abandon, Remove, Removed
<1>11. ASSUME NEW r \in Runs, OrphanEnds(r)
      PROVE  (run[t].told \subseteq Kept(run[t].project))'
  BY <1>11, <1>0, <1>d DEF OrphanEnds
<1>12. ASSUME NEW p \in Projects, OwnerCommits(p)
      PROVE  (run[t].told \subseteq Kept(run[t].project))'
  BY <1>12, <1>0, <1>d DEF OwnerCommits
<1>13. ASSUME NEW b \in branches, OwnerMerges(b)
      PROVE  (run[t].told \subseteq Kept(run[t].project))'
  BY <1>13, <1>0, <1>d DEF OwnerMerges
<1>14. ASSUME Restart PROVE (run[t].told \subseteq Kept(run[t].project))'
  BY <1>14, <1>0, <1>d DEF Restart
<1>15. ASSUME UNCHANGED vars PROVE (run[t].told \subseteq Kept(run[t].project))'
  BY <1>15, <1>0, <1>d DEF vars
<1>16. QED
  BY <1>0, <1>1, <1>2, <1>3, <1>4, <1>5, <1>6, <1>7, <1>8, <1>9, <1>10, <1>11, <1>12, <1>13, <1>14, <1>15, <1>3a
  DEF Next

(* A run has to work in the live checkout only if its name was used before *)
(* the process started: git found it, and no other run of this process has *)
(* it.                                                                     *)
LEMMA LiveStep ==
  TypeOK /\ Numbered /\ Isolation /\ OnDisk /\ LiveOnlyOnUsedName /\ [Next]_vars
    => LiveOnlyOnUsedName'
<1> SUFFICES ASSUME TypeOK, Numbered, Isolation, OnDisk, LiveOnlyOnUsedName,
                    [Next]_vars, NEW t \in Runs, run'[t].pc = "live",
                    "add" \notin run'[t].failed
             PROVE  \E s \in Runs : /\ Name(s)' = Name(t)' /\ run'[s].pc # "new"
                                    /\ run'[s].epoch < run'[t].epoch
  BY DEF LiveOnlyOnUsedName
<1>0. /\ [Next]_vars /\ run \in [Runs -> RunType] /\ run'[t].pc = "live"
      /\ "add" \notin run'[t].failed
  BY DEF TypeOK
<1> DEFINE Before == \/ run[t].pc = "live" /\ "add" \notin run[t].failed
                     \/ run[t].pc = "named" /\ FallBack(t)
<1> USE DEF RunType
<1>1. ASSUME NEW r \in Runs, NEW m \in Rooms, NEW p \in Projects, Begin(r, m, p)
      PROVE  Before
  BY <1>1, <1>0 DEF Begin
<1>2. ASSUME NEW r \in Runs, AddTree(r)
      PROVE  Before
  BY <1>2, <1>0 DEF AddTree
<1>3. ASSUME NEW r \in Runs, FallBack(r)
      PROVE  Before
  BY <1>3, <1>0 DEF FallBack
<1>3a. ASSUME NEW r \in Runs, NEW left \in BOOLEAN, AddFails(r, left)
      PROVE  Before
  BY <1>3a, <1>0 DEF AddFails
<1>4. ASSUME NEW r \in Runs, Edit(r)
      PROVE  Before
  BY <1>4, <1>0 DEF Edit
<1>5. ASSUME NEW r \in Runs, SelfCommit(r)
      PROVE  Before
  BY <1>5, <1>0 DEF SelfCommit
<1>6. ASSUME NEW r \in Runs, ReturnLive(r)
      PROVE  Before
  BY <1>6, <1>0 DEF ReturnLive
<1>7. ASSUME NEW r \in Runs, NEW ok \in BOOLEAN, Commit(r, ok)
      PROVE  Before
  BY <1>7, <1>0 DEF Commit
<1>8. ASSUME NEW r \in Runs, NEW ok \in BOOLEAN, NEW gone \in BOOLEAN,
             RemoveTree(r, ok, gone)
      PROVE  Before
  BY <1>8, <1>0 DEF RemoveTree, Remove, Removed
<1>9. ASSUME NEW r \in Runs, NEW ok \in BOOLEAN, DropBranch(r, ok)
      PROVE  Before
  BY <1>9, <1>0 DEF DropBranch
<1>10. ASSUME NEW r \in Runs, NEW gone \in BOOLEAN, Abandon(r, gone)
      PROVE  Before
  BY <1>10, <1>0 DEF Abandon, Remove, Removed
<1>11. ASSUME NEW r \in Runs, OrphanEnds(r)
      PROVE  Before
  BY <1>11, <1>0 DEF OrphanEnds
<1>12. ASSUME NEW p \in Projects, OwnerCommits(p)
      PROVE  Before
  BY <1>12, <1>0 DEF OwnerCommits
<1>13. ASSUME NEW b \in branches, OwnerMerges(b)
      PROVE  Before
  BY <1>13, <1>0 DEF OwnerMerges
<1>14. ASSUME Restart PROVE Before
  BY <1>14, <1>0 DEF Restart
<1>15. ASSUME UNCHANGED vars PROVE Before
  BY <1>15, <1>0 DEF vars
<1>16. Before
  BY <1>0, <1>1, <1>2, <1>3, <1>4, <1>5, <1>6, <1>7, <1>8, <1>9, <1>10, <1>11, <1>12, <1>13, <1>14, <1>15, <1>3a
  DEF Next
<1>17. \E s \in Runs : Name(s) = Name(t) /\ run[s].pc # "new" /\ run[s].epoch < run[t].epoch
  <2>1. CASE run[t].pc = "live" /\ "add" \notin run[t].failed
    BY <2>1 DEF LiveOnlyOnUsedName
  <2>2. CASE run[t].pc = "named" /\ FallBack(t)
    <3>1. PICK s \in Runs : run[s].pc \notin {"new", "named"} /\ Name(s) = Name(t)
      BY <2>2 DEF FallBack, OnDisk, Taken, TreesRemoved, Branch, Isolation
    <3>2. s # t /\ run[s].pc # "new" /\ run[t].pc # "new"
      BY <2>2, <3>1 DEF Isolation
    <3>3. run[s].id = run[t].id
      BY <3>1 DEF Name
    <3>4. run[s].epoch # run[t].epoch
      BY <3>2, <3>3 DEF Numbered
    <3>5. run[s].epoch <= epoch /\ run[t].epoch = epoch
      BY <2>2 DEF Numbered, Current
    <3>6. run[s].epoch \in Int /\ run[t].epoch \in Int /\ epoch \in Int
      BY NumberTypes
    <3>7. run[s].epoch < run[t].epoch
      BY <3>4, <3>5, <3>6
    <3> QED
      BY <3>1, <3>2, <3>7
  <2> QED
    BY <1>16, <2>1, <2>2
<1>18. PICK s \in Runs : Name(s) = Name(t) /\ run[s].pc # "new" /\ run[s].epoch < run[t].epoch
  BY <1>17
<1>19. run[t].pc # "new"
  BY <1>16
<1>20. /\ Name(s)' = Name(s) /\ run'[s].epoch = run[s].epoch /\ run'[s].pc # "new"
       /\ Name(t)' = Name(t) /\ run'[t].epoch = run[t].epoch
  BY <1>18, <1>19, NamesStay
<1> QED
  BY <1>18, <1>20

(* The edits of a run are in its worktree or kept; a commit that succeeds  *)
(* moves what is in the worktree to the branch, and the worktree is        *)
(* removed only after.                                                     *)
LEMMA WorkStep ==
  TypeOK /\ Isolation /\ OnDisk /\ Based /\ WorkInv /\ [Next]_vars => WorkInv'
<1> SUFFICES ASSUME TypeOK, Isolation, OnDisk, Based, WorkInv, [Next]_vars,
                    NEW t \in Runs
             PROVE  Held(t)'
  BY DEF WorkInv
<1>0. /\ [Next]_vars /\ run \in [Runs -> RunType] /\ Held(t)
      /\ scratch \in [Names -> SUBSET Edits]
      /\ tip \in [Projects \X Names -> SUBSET Edits]
      /\ dirty \in [Projects -> SUBSET Edits]
  BY DEF TypeOK, WorkInv
<1>b. /\ run[t].project \in Projects /\ Name(t) \in Names
      /\ Branch(t) \in Projects \X Names /\ Branch(t)[1] = run[t].project
      /\ run[t].made \in Nat
  BY NameTypes, NumberTypes DEF Branch
<1>p. PICK q \in Projects : q = run[t].project
  BY <1>b
<1>k. Kept(q) \subseteq Kept(q)' /\ Kept(run[t].project) = Kept(q)
  BY <1>p, KeptGrows
<1>n. ASSUME run[t].pc # "new"
      PROVE  /\ run'[t].project = q /\ Kept(run[t].project)' = Kept(q)'
             /\ Name(t)' = Name(t) /\ Branch(t)' = Branch(t)
  <2>1. /\ run'[t].project = q /\ Name(t)' = Name(t) /\ Branch(t)' = Branch(t)
    BY <1>n, <1>p, NamesStay
  <2> QED
    BY <2>1 DEF Kept
<1>o. run[t].pc \in {"new", "named"} => run[t].made = 0
  BY DEF Isolation
<1>i. AtWork(t) /\ run[t].isolated => InTree(t) /\ Branch(t) \in branches
  BY DEF AtWork, Isolation, InTree, OnDisk, TreesApart
<1>j. \A r \in Runs : InTree(r) /\ InTree(t) /\ r # t => Name(r) # Name(t)
  BY DEF OnDisk, TreesApart
(* A step that takes nothing from the run's worktree.                      *)
<1>u. ASSUME run[t].pc # "new", run'[t].made = run[t].made,
             AtWork(t)' => /\ AtWork(t) /\ run'[t].isolated = run[t].isolated
                           /\ run[t].isolated => scratch[Name(t)] \subseteq scratch'[Name(t)],
             Settled(t)' => Settled(t)
      PROVE  Held(t)'
  <2>1. Made(t)' = Made(t)
    BY <1>u DEF Made
  <2>2. AtWork(t)' => Made(t)' \subseteq Kept(q)' \cup
                        (IF run'[t].isolated THEN scratch'[Name(t)] ELSE {})
    BY <2>1, <1>u, <1>0, <1>k DEF Held
  <2>3. Settled(t)' => Made(t)' \subseteq Kept(q)'
    BY <2>1, <1>u, <1>0, <1>k DEF Held
  <2> QED
    BY <2>2, <2>3, <1>u, <1>n DEF Held
(* A run that is not at work.                                              *)
<1>v. ASSUME ~AtWork(t)', ~Settled(t)' PROVE Held(t)'
  BY <1>v DEF Held
(* A run that has not made an edit.                                        *)
<1>w. ASSUME run'[t].made = 0 PROVE Held(t)'
  <2>1. Made(t)' = {}
    BY <1>w DEF Made
  <2> QED
    BY <2>1 DEF Held
<1>l. \A r \in Runs : Working(r) /\ run[r].isolated => InTree(r)
  BY DEF Working, Isolation, InTree
<1> USE DEF RunType
<1>1. ASSUME NEW r \in Runs, NEW m \in Rooms, NEW p \in Projects, Begin(r, m, p)
      PROVE  Held(t)'
  <2>1. CASE t = r
    BY <1>1, <2>1, <1>0, <1>v DEF Begin, AtWork, Settled
  <2>2. CASE t # r
    BY <1>1, <2>2, <1>0, <1>u, <1>v DEF Begin, git, AtWork, Settled
  <2> QED
    BY <2>1, <2>2
<1>2. ASSUME NEW r \in Runs, AddTree(r)
      PROVE  Held(t)'
  <2>1. CASE run[t].pc \in {"new", "named"}
    BY <1>2, <2>1, <1>0, <1>o, <1>w DEF AddTree
  <2>2. CASE run[t].pc \notin {"new", "named"}
    BY <1>2, <2>2, <1>0, <1>u DEF AddTree, AtWork, Settled
  <2> QED
    BY <2>1, <2>2
<1>3. ASSUME NEW r \in Runs, FallBack(r)
      PROVE  Held(t)'
  <2>1. CASE run[t].pc \in {"new", "named"}
    BY <1>3, <2>1, <1>0, <1>o, <1>w DEF FallBack
  <2>2. CASE run[t].pc \notin {"new", "named"}
    BY <1>3, <2>2, <1>0, <1>u DEF FallBack, git, AtWork, Settled
  <2> QED
    BY <2>1, <2>2
<1>3a. ASSUME NEW r \in Runs, NEW left \in BOOLEAN, AddFails(r, left)
      PROVE  Held(t)'
  <2>1. CASE run[t].pc \in {"new", "named"}
    BY <1>3a, <2>1, <1>0, <1>o, <1>w DEF AddFails
  <2>2. CASE run[t].pc \notin {"new", "named"}
    BY <1>3a, <2>2, <1>0, <1>u DEF AddFails, git, AtWork, Settled
  <2> QED
    BY <2>1, <2>2
<1>4. ASSUME NEW r \in Runs, Edit(r)
      PROVE  Held(t)'
  <2>1. CASE t = r
    <3>1. /\ AtWork(t) /\ run'[t].made = run[t].made + 1
          /\ run'[t].pc = run[t].pc /\ run'[t].isolated = run[t].isolated
      BY <1>4, <2>1, <1>0 DEF Edit, Working, AtWork
    <3>2. Made(t)' = Made(t) \cup {<<t, run[t].made + 1>>}
      BY <3>1, <1>b DEF Made
    <3>3. run[t].pc # "new" /\ ~Settled(t)'
      BY <3>1 DEF AtWork, Settled
    <3>4. CASE run[t].isolated
      <4>1. scratch'[Name(t)] = scratch[Name(t)] \cup {<<t, run[t].made + 1>>}
        BY <1>4, <2>1, <3>4, <1>0, <1>b DEF Edit
      <4>2. Made(t)' \subseteq Kept(q)' \cup scratch'[Name(t)]
        BY <3>1, <3>2, <3>4, <4>1, <1>0, <1>k DEF Held
      <4> QED
        BY <3>1, <3>3, <3>4, <4>2, <1>n DEF Held
    <3>5. CASE ~run[t].isolated
      <4>1. <<t, run[t].made + 1>> \in dirty'[q]
        BY <1>4, <2>1, <3>5, <1>0, <1>b, <1>p DEF Edit
      <4>2. <<t, run[t].made + 1>> \in Kept(q)'
        BY <4>1 DEF Kept
      <4>3. Made(t)' \subseteq Kept(q)'
        BY <3>1, <3>2, <3>5, <4>2, <1>0, <1>k DEF Held
      <4> QED
        BY <3>1, <3>3, <3>5, <4>3, <1>n DEF Held
    <3> QED
      BY <3>4, <3>5
  <2>2. CASE t # r
    <3>0. scratch[Name(t)] \subseteq scratch'[Name(t)]
      <4>1. \/ scratch' = scratch
            \/ \E e : scratch' = [scratch EXCEPT ![Name(r)] = @ \cup {e}]
        BY <1>4 DEF Edit
      <4> QED
        BY <4>1, <1>0, <1>b
    <3>1. run'[t] = run[t] /\ scratch[Name(t)] \subseteq scratch'[Name(t)]
      BY <1>4, <2>2, <3>0, <1>0 DEF Edit
    <3>2. CASE run[t].pc = "new"
      BY <3>1, <3>2, <1>o, <1>w
    <3>3. CASE run[t].pc # "new"
      BY <3>1, <3>3, <1>u DEF AtWork, Settled
    <3> QED
      BY <3>2, <3>3
  <2> QED
    BY <2>1, <2>2
<1>5. ASSUME NEW r \in Runs, SelfCommit(r)
      PROVE  Held(t)'
  <2>0. run' = run
    BY <1>5 DEF SelfCommit
  <2>1. CASE run[t].pc = "new"
    BY <2>0, <2>1, <1>o, <1>w
  <2>2. CASE run[t].pc # "new" /\ ~(t = r /\ run[t].isolated)
    <3>1. AtWork(t) /\ run[t].isolated => scratch'[Name(t)] = scratch[Name(t)]
      BY <1>5, <2>2, <1>0, <1>b, <1>i, <1>j, <1>l DEF SelfCommit
    <3> QED
      BY <2>0, <2>2, <3>1, <1>u DEF AtWork, Settled
  <2>3. CASE t = r /\ run[t].isolated
    <3>1. AtWork(t) /\ run[t].pc # "new" /\ ~Settled(t)'
      BY <1>5, <2>0, <2>3 DEF SelfCommit, Working, AtWork, Settled
    <3>2. scratch[Name(t)] \subseteq tip'[Branch(t)] /\ Branch(t) \in branches'
      BY <1>5, <2>3, <3>1, <1>0, <1>b, <1>i DEF SelfCommit
    <3>3. scratch[Name(t)] \subseteq Kept(q)'
      BY <3>2, <1>b, <1>p DEF Kept
    <3>4. Made(t)' = Made(t)
      BY <2>0 DEF Made
    <3>5. Made(t)' \subseteq Kept(q)'
      BY <3>1, <3>3, <3>4, <1>0, <1>k DEF Held
    <3> QED
      BY <3>1, <3>5, <1>n DEF Held
  <2> QED
    BY <2>1, <2>2, <2>3
<1>6. ASSUME NEW r \in Runs, ReturnLive(r)
      PROVE  Held(t)'
  <2>1. scratch' = scratch
    BY <1>6 DEF ReturnLive, git
  <2>2. CASE t = r
    <3>1. /\ AtWork(t) /\ ~run[t].isolated /\ run[t].pc # "new"
          /\ run'[t].pc = "over" /\ run'[t].made = run[t].made
      BY <1>6, <2>2, <1>0 DEF ReturnLive, AtWork, Isolation
    <3>2. Made(t)' \subseteq Kept(q)'
      BY <3>1, <1>0, <1>k DEF Held, Made
    <3>3. ~AtWork(t)'
      BY <3>1 DEF AtWork
    <3> QED
      BY <3>1, <3>2, <3>3, <1>n DEF Held
  <2>3. CASE t # r
    <3>1. run'[t] = run[t]
      BY <1>6, <2>3, <1>0 DEF ReturnLive
    <3> QED
      BY <2>1, <3>1, <1>o, <1>u, <1>w DEF AtWork, Settled
  <2> QED
    BY <2>2, <2>3
<1>7. ASSUME NEW r \in Runs, NEW ok \in BOOLEAN, Commit(r, ok)
      PROVE  Held(t)'
  <2>1. CASE t # r
    <3>1. run'[t] = run[t]
      BY <1>7, <2>1, <1>0 DEF Commit
    <3>2. InTree(r)
      BY <1>7 DEF Commit, Isolation, InTree
    <3>3. AtWork(t) /\ run[t].isolated => scratch'[Name(t)] = scratch[Name(t)]
      BY <1>7, <2>1, <3>2, <1>0, <1>b, <1>i, <1>j DEF Commit
    <3> QED
      BY <3>1, <3>3, <1>o, <1>u, <1>w DEF AtWork, Settled
  <2>2. CASE t = r
    <3>1. /\ AtWork(t) /\ run[t].isolated /\ run[t].pc # "new"
          /\ run'[t].pc = "judged" /\ run'[t].made = run[t].made
          /\ IF ok THEN run'[t].failed = run[t].failed ELSE "commit" \in run'[t].failed
      BY <1>7, <2>2, <1>0 DEF Commit, AtWork, Isolation
    <3>2. ~AtWork(t)'
      BY <3>1 DEF AtWork
    <3>3. CASE ok
      <4>1. scratch[Name(t)] \subseteq tip'[Branch(t)] /\ Branch(t) \in branches'
        BY <1>7, <2>2, <3>1, <3>3, <1>0, <1>b, <1>i DEF Commit
      <4>2. scratch[Name(t)] \subseteq Kept(q)'
        BY <4>1, <1>b, <1>p DEF Kept
      <4>3. Made(t)' \subseteq Kept(q)'
        BY <3>1, <4>2, <1>0, <1>k DEF Held, Made
      <4> QED
        BY <3>1, <3>2, <4>3, <1>n DEF Held
    <3>4. CASE ~ok
      BY <3>1, <3>2, <3>4, <1>v DEF Settled
    <3> QED
      BY <3>3, <3>4
  <2> QED
    BY <2>1, <2>2
<1>8. ASSUME NEW r \in Runs, NEW ok \in BOOLEAN, NEW gone \in BOOLEAN,
             RemoveTree(r, ok, gone)
      PROVE  Held(t)'
  <2>1. InTree(r)
    BY <1>8 DEF RemoveTree, Remove, Removed, Isolation, InTree
  <2>2. AtWork(t) /\ run[t].isolated => scratch'[Name(t)] = scratch[Name(t)]
    <3>1. AtWork(t) => t # r
      BY <1>8 DEF RemoveTree, Remove, Removed, AtWork
    <3> QED
      BY <1>8, <2>1, <3>1, <1>0, <1>b, <1>i, <1>j DEF RemoveTree, Remove, Removed
  <2>3. /\ run'[t].made = run[t].made
        /\ "commit" \in run'[t].failed <=> "commit" \in run[t].failed
        /\ run'[t].isolated = run[t].isolated
        /\ t # r => run'[t] = run[t]
        /\ t = r => run[t].pc = "judged" /\ run'[t].pc \in {"over", "removed"}
    BY <1>8, <1>0 DEF RemoveTree, Remove, Removed
  <2> QED
    BY <2>2, <2>3, <1>o, <1>u, <1>w DEF AtWork, Settled
<1>9. ASSUME NEW r \in Runs, NEW ok \in BOOLEAN, DropBranch(r, ok)
      PROVE  Held(t)'
  <2>1. /\ run'[t].made = run[t].made /\ run'[t].failed = run[t].failed
        /\ t # r => run'[t] = run[t]
        /\ t = r => run[t].pc = "removed" /\ run'[t].pc = "over"
        /\ scratch' = scratch
    BY <1>9, <1>0 DEF DropBranch
  <2> QED
    BY <2>1, <1>o, <1>u, <1>w DEF AtWork, Settled
<1>10. ASSUME NEW r \in Runs, NEW gone \in BOOLEAN, Abandon(r, gone)
      PROVE  Held(t)'
  <2>1. CASE t = r
    BY <1>10, <2>1, <1>0, <1>v DEF Abandon, Remove, Removed, AtWork, Settled
  <2>2. CASE t # r
    <3>1. run'[t] = run[t]
      BY <1>10, <2>2, <1>0 DEF Abandon, Remove, Removed
    <3>2. run[r].isolated => InTree(r) \/ run[r].pc = "removed"
      BY <1>10 DEF Abandon, Remove, Removed, Isolation, InTree
    <3>3. run[r].isolated /\ InTree(t) => Name(t) # Name(r)
      BY <2>2, <3>2, <1>j DEF OnDisk, RemovedApart
    <3>4. AtWork(t) /\ run[t].isolated => scratch'[Name(t)] = scratch[Name(t)]
      BY <1>10, <3>3, <1>0, <1>b, <1>i DEF Abandon, Remove, Removed
    <3> QED
      BY <3>1, <3>4, <1>o, <1>u, <1>w DEF AtWork, Settled
  <2> QED
    BY <2>1, <2>2
<1>11. ASSUME NEW r \in Runs, OrphanEnds(r)
      PROVE  Held(t)'
  <2>1. /\ t # r => run'[t] = run[t]
        /\ t = r => run'[t].pc = "lost"
        /\ scratch' = scratch
    BY <1>11, <1>0 DEF OrphanEnds, git
  <2> QED
    BY <2>1, <1>o, <1>u, <1>v, <1>w DEF AtWork, Settled
<1>12. ASSUME NEW p \in Projects, OwnerCommits(p)
      PROVE  Held(t)'
  <2>1. run' = run /\ scratch' = scratch
    BY <1>12 DEF OwnerCommits
  <2> QED
    BY <2>1, <1>o, <1>u, <1>w DEF AtWork, Settled
<1>13. ASSUME NEW b \in branches, OwnerMerges(b)
      PROVE  Held(t)'
  <2>1. run' = run /\ scratch' = scratch
    BY <1>13 DEF OwnerMerges
  <2> QED
    BY <2>1, <1>o, <1>u, <1>w DEF AtWork, Settled
<1>14. ASSUME Restart PROVE Held(t)'
  <2>1. /\ run'[t].made = run[t].made /\ run'[t].failed = run[t].failed
        /\ run'[t].isolated = run[t].isolated
        /\ AtWork(t)' => AtWork(t)
        /\ Settled(t)' => Settled(t)
        /\ scratch' = scratch
    BY <1>14, <1>0 DEF Restart, git, AtWork, Settled
  <2> QED
    BY <2>1, <1>o, <1>u, <1>w
<1>15. ASSUME UNCHANGED vars PROVE Held(t)'
  <2>1. run' = run /\ scratch' = scratch
    BY <1>15 DEF vars, git
  <2> QED
    BY <2>1, <1>o, <1>u, <1>w DEF AtWork, Settled
<1>16. QED
  BY <1>0, <1>1, <1>2, <1>3, <1>4, <1>5, <1>6, <1>7, <1>8, <1>9, <1>10, <1>11, <1>12, <1>13, <1>14, <1>15, <1>3a
  DEF Next

-----------------------------------------------------------------------------
(* The theorems.                                                           *)

(* The invariant holds at the start.                                       *)
LEMMA InitInv == Init => IInv
<1> SUFFICES ASSUME Init PROVE IInv
  OBVIOUS
<1>1. PICK m \in Rooms, p \in Projects :
        run = [r \in Runs |->
                [pc |-> "new", room |-> m, project |-> p, id |-> 1,
                 epoch |-> 0, base |-> {}, isolated |-> FALSE, made |-> 0,
                 failed |-> {}, told |-> {}]]
  BY DEF Init
<1>2. TypeOK
  BY <1>1, BoundAssumption DEF Init, TypeOK, RunType, Phases, Ids
<1>3. /\ \A r \in Runs : /\ run[r].pc = "new" /\ ~run[r].isolated /\ run[r].made = 0
                         /\ run[r].told = {} /\ run[r].epoch = 0
      /\ branches = {} /\ trees = {} /\ epoch = 0 /\ scratch = [n \in Names |-> {}]
  BY <1>1 DEF Init
<1>4. Numbered
  BY <1>3 DEF Numbered, Current
<1>5. Isolation /\ Taken /\ TreesApart /\ RemovedApart /\ TreesRemoved /\ Based
  BY <1>3 DEF Isolation, Taken, TreesApart, RemovedApart, TreesRemoved, Based, InTree
<1>6. ReportedKept /\ WorkInv /\ LiveOnlyOnUsedName
  BY <1>3 DEF ReportedKept, WorkInv, Held, AtWork, Settled, LiveOnlyOnUsedName
<1> QED
  BY <1>2, <1>4, <1>5, <1>6 DEF IInv

(* Every reachable state of the worktrees satisfies the invariant.         *)
THEOREM WorktreeInvariance == Spec => []IInv
<1>1. IInv /\ [Next]_vars => IInv'
  BY TypeStep, NumberedStep, IsolationStep, OnDiskStep, BasedStep, ReportedStep,
     WorkStep, LiveStep DEF IInv, OnDisk
<1> QED
  BY InitInv, <1>1, PTL DEF Spec

(* TypeOK for all runs, rooms and projects: in particular a number or an   *)
(* edit is never outside its bounds.                                       *)
THEOREM WorktreeTypeCorrect == Spec => []TypeOK
<1>1. IInv => TypeOK
  BY DEF IInv
<1> QED
  BY WorktreeInvariance, <1>1, PTL

(* WorktreeGuard::create never gives two runs one directory or branch, in  *)
(* whatever order processes, orphans and the owner act.                    *)
THEOREM TreesStayApart == Spec => []TreesApart
<1>1. IInv => TreesApart
  BY DEF IInv
<1> QED
  BY WorktreeInvariance, <1>1, PTL

(* Every directory that is left has a run that is at work or was cut off.  *)
THEOREM TreesAreRemoved == Spec => []TreesRemoved
<1>1. IInv => TreesRemoved
  BY DEF IInv
<1> QED
  BY WorktreeInvariance, <1>1, PTL

(* What a room was told is on a branch is never lost, through any number   *)
(* of restarts and later runs.                                             *)
THEOREM ReportedIsKept == Spec => []ReportedKept
<1>1. IInv => ReportedKept
  BY DEF IInv
<1> QED
  BY WorktreeInvariance, <1>1, PTL

(* finalize keeps every edit of a run whose commit did not fail.           *)
THEOREM WorkIsKept == Spec => []WorkSurvives
<1>1. IInv => WorkSurvives
  BY DEF IInv, WorkInv, Held, Settled, Made, WorkSurvives
<1> QED
  BY WorktreeInvariance, <1>1, PTL

(* A run works in the live checkout only under a name that an earlier      *)
(* process has used.                                                       *)
THEOREM LiveOnlyLater == Spec => []LiveOnlyOnUsedName
<1>1. IInv => LiveOnlyOnUsedName
  BY DEF IInv
<1> QED
  BY WorktreeInvariance, <1>1, PTL

=============================================================================

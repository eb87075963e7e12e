------------------------------ MODULE Worktree ------------------------------
(***************************************************************************)
(* Git worktrees around the runs of a subprocess backend.                  *)
(*                                                                         *)
(* A run that works on a git project gets a branch and a directory of its  *)
(* own, named for its room and a number; when the CLI is done, what it     *)
(* left is committed, the directory removed, and the branch kept for       *)
(* review if it differs from the revision the run began with. The number   *)
(* comes from a counter in memory; branches and directories are on disk    *)
(* and outlive the process.                                                *)
(*                                                                         *)
(* A revision is the set of edits in it. The owner of a project commits to *)
(* the live checkout and merges reviewed branches at any time. Isolation   *)
(* is on and every project is a git repository: otherwise a run works in   *)
(* the live checkout by design.                                            *)
(***************************************************************************)
EXTENDS Integers

CONSTANTS
  Runs,         (* the runs of the subprocess backends, all rooms together *)
  Rooms,
  Projects,     (* the working directories                                 *)
  Owner,        (* who works in the live checkouts                         *)
  MaxEdits,     (* BOUND on the edits of one run, and of the owner         *)
  MaxNumber,    (* BOUND on the numbers one process gives out              *)
  MaxRestarts   (* BOUND on the restarts of the process                    *)

ASSUME OwnerAssumption == Owner \notin Runs
ASSUME BoundAssumption ==
  MaxEdits \in Nat /\ MaxNumber \in Nat \ {0} /\ MaxRestarts \in Nat

Ids   == 1 .. MaxNumber
Names == Rooms \X Ids
Edits == (Runs \cup {Owner}) \X (1 .. MaxEdits)

VARIABLES
  (* git: the live checkouts *)
  head,       (* the revision each project has checked out                 *)
  dirty,      (* what runs have left uncommitted in the live checkout      *)
  (* git: branches and directories of runs *)
  branches,   (* the branches there are, as <<project, name>>              *)
  tip,        (* their revisions                                           *)
  trees,      (* the directories there are, by name                        *)
  scratch,    (* what is uncommitted in each of them                       *)
  (* the process *)
  seq,        (* WORKTREE_SEQ                                              *)
  epoch,      (* how often the process has been started again              *)
  run         (* the runs                                                  *)

git  == <<head, dirty, branches, tip, trees, scratch>>
vars == <<git, seq, epoch, run>>

(* named: has its number and base revision. tree, live: the CLI works, in  *)
(* a worktree or in the live checkout. judged: committed and compared.     *)
(* removed: the directory is gone, the branch is to go. over: returned.    *)
(* dropped: abandoned at an await. orphan: the process has died, the CLI   *)
(* has not. lost: both have. A run also remembers what git failed to do    *)
(* for it (a lock, a hook, a full disk).                                   *)
Phases == {"new", "named", "tree", "live", "judged", "removed", "over",
           "dropped", "orphan", "lost"}

RunType ==
  [pc : Phases, room : Rooms, project : Projects, id : Ids, epoch : 0 .. MaxRestarts,
   base : SUBSET Edits, isolated : BOOLEAN, made : 0 .. MaxEdits,
   failed : SUBSET {"add", "commit", "remove"}, told : SUBSET Edits]

Name(r)   == <<run[r].room, run[r].id>>
Branch(r) == <<run[r].project, Name(r)>>

TypeOK ==
  /\ head     \in [Projects -> SUBSET Edits]
  /\ dirty    \in [Projects -> SUBSET Edits]
  /\ branches \in SUBSET (Projects \X Names)
  /\ tip      \in [Projects \X Names -> SUBSET Edits]
  /\ trees    \in SUBSET Names
  /\ scratch  \in [Names -> SUBSET Edits]
  /\ seq      \in 1 .. MaxNumber + 1
  /\ epoch    \in 0 .. MaxRestarts
  /\ run      \in [Runs -> RunType]

Init ==
  /\ head     = [p \in Projects |-> {}]
  /\ dirty    = [p \in Projects |-> {}]
  /\ branches = {}
  /\ tip      = [b \in Projects \X Names |-> {}]
  /\ trees    = {}
  /\ scratch  = [n \in Names |-> {}]
  /\ seq      = 1
  /\ epoch    = 0
  /\ \E m \in Rooms, p \in Projects :
       run = [r \in Runs |->
                [pc |-> "new", room |-> m, project |-> p, id |-> 1,
                 epoch |-> 0, base |-> {}, isolated |-> FALSE, made |-> 0,
                 failed |-> {}, told |-> {}]]

-----------------------------------------------------------------------------
(* WorktreeGuard::create.                                                  *)

(* Slip: the counter is read and not advanced.                             *)
BeginUncounted(r, m, p) ==
  /\ run[r].pc = "new" /\ seq \in Ids
  /\ run' = [run EXCEPT ![r] = [@ EXCEPT !.pc = "named", !.room = m,
                                         !.project = p, !.id = seq,
                                         !.epoch = epoch, !.base = head[p]]]
  /\ UNCHANGED <<git, seq, epoch>>

(* A run for room m in project p takes its number and notes the revision   *)
(* it starts from.                                                         *)
Begin(r, m, p) ==
  /\ run[r].pc = "new" /\ seq \in Ids
  /\ seq' = seq + 1
  /\ run' = [run EXCEPT ![r] = [@ EXCEPT !.pc = "named", !.room = m,
                                         !.project = p, !.id = seq,
                                         !.epoch = epoch, !.base = head[p]]]
  /\ UNCHANGED <<git, epoch>>

(* Slip: an existing branch is reset (worktree add -B).                    *)
AddTreeReset(r) ==
  LET n == Name(r) b == Branch(r) IN
  /\ run[r].pc = "named" /\ n \notin trees
  /\ branches' = branches \cup {b}
  /\ tip'      = [tip EXCEPT ![b] = head[run[r].project]]
  /\ trees'    = trees \cup {n}
  /\ run'      = [run EXCEPT ![r].pc = "tree", ![r].isolated = TRUE]
  /\ UNCHANGED <<head, dirty, scratch, seq, epoch>>

(* Slip: a directory that is there is used as it is (worktree add --force).*)
AddTreeForce(r) ==
  LET n == Name(r) b == Branch(r) IN
  /\ run[r].pc = "named"
  /\ branches' = branches \cup {b}
  /\ tip'      = IF b \in branches THEN tip
                 ELSE [tip EXCEPT ![b] = head[run[r].project]]
  /\ trees'    = trees \cup {n}
  /\ run'      = [run EXCEPT ![r].pc = "tree", ![r].isolated = TRUE]
  /\ UNCHANGED <<head, dirty, scratch, seq, epoch>>

(* git worktree add -b: a new branch, at what HEAD is now, in a new        *)
(* directory.                                                              *)
AddTree(r) ==
  LET n == Name(r) b == Branch(r) IN
  /\ run[r].pc = "named" /\ b \notin branches /\ n \notin trees
  /\ branches' = branches \cup {b}
  /\ tip'      = [tip EXCEPT ![b] = head[run[r].project]]
  /\ trees'    = trees \cup {n}
  /\ run'      = [run EXCEPT ![r].pc = "tree", ![r].isolated = TRUE]
  /\ UNCHANGED <<head, dirty, scratch, seq, epoch>>

(* git refuses a branch or a directory that exists; the run goes on in the *)
(* live checkout.                                                          *)
FallBack(r) ==
  /\ run[r].pc = "named" /\ (Branch(r) \in branches \/ Name(r) \in trees)
  /\ run' = [run EXCEPT ![r].pc = "live"]
  /\ UNCHANGED <<git, seq, epoch>>

(* rev-parse or worktree add fails for a reason of its own, and so does    *)
(* the run. What git did of it is undone but, at times, for the branch.    *)
AddFails(r, left) ==
  LET b == Branch(r) IN
  /\ run[r].pc = "named"
  /\ IF left
       THEN /\ b \notin branches
            /\ branches' = branches \cup {b}
            /\ tip'      = [tip EXCEPT ![b] = head[run[r].project]]
       ELSE UNCHANGED <<branches, tip>>
  /\ run' = [run EXCEPT ![r].pc = "live", ![r].failed = @ \cup {"add"}]
  /\ UNCHANGED <<head, dirty, trees, scratch, seq, epoch>>

-----------------------------------------------------------------------------
(* The CLI at work: execute_in.                                            *)

Working(r) == run[r].pc \in {"tree", "live", "orphan"}

(* It changes a file.                                                      *)
Edit(r) ==
  LET e == <<r, run[r].made + 1>> IN
  /\ Working(r) /\ run[r].made < MaxEdits
  /\ IF run[r].isolated
       THEN /\ scratch' = [scratch EXCEPT ![Name(r)] = @ \cup {e}]
            /\ UNCHANGED dirty
       ELSE /\ dirty' = [dirty EXCEPT ![run[r].project] = @ \cup {e}]
            /\ UNCHANGED scratch
  /\ run' = [run EXCEPT ![r].made = @ + 1]
  /\ UNCHANGED <<head, branches, tip, trees, seq, epoch>>

(* It commits what there is to commit.                                     *)
SelfCommit(r) ==
  LET p == run[r].project n == Name(r) b == Branch(r) IN
  /\ Working(r)
  /\ IF run[r].isolated
       THEN /\ scratch[n] # {}
            /\ tip'     = [tip EXCEPT ![b] = @ \cup scratch[n]]
            /\ scratch' = [scratch EXCEPT ![n] = {}]
            /\ UNCHANGED <<head, dirty>>
       ELSE /\ dirty[p] # {}
            /\ head'  = [head EXCEPT ![p] = @ \cup dirty[p]]
            /\ dirty' = [dirty EXCEPT ![p] = {}]
            /\ UNCHANGED <<tip, scratch>>
  /\ UNCHANGED <<branches, trees, seq, epoch, run>>

(* A run in the live checkout returns.                                     *)
ReturnLive(r) ==
  /\ run[r].pc = "live"
  /\ run' = [run EXCEPT ![r].pc = "over"]
  /\ UNCHANGED <<git, seq, epoch>>

-----------------------------------------------------------------------------
(* WorktreeGuard::finalize, after the CLI has ended in any way.            *)

(* Slip: what the agent left is not committed.                             *)
CommitNothing(r, ok) ==
  /\ run[r].pc = "tree" /\ ok
  /\ run' = [run EXCEPT ![r].pc = "judged"]
  /\ UNCHANGED <<git, seq, epoch>>

(* add, diff, commit, and the comparison with the base. A commit that      *)
(* fails (a hook, a lock) is not noticed.                                  *)
Commit(r, ok) ==
  LET n == Name(r) b == Branch(r) IN
  /\ run[r].pc = "tree"
  /\ IF ok
       THEN /\ tip'     = [tip EXCEPT ![b] = @ \cup scratch[n]]
            /\ scratch' = [scratch EXCEPT ![n] = {}]
       ELSE scratch[n] # {} /\ UNCHANGED <<tip, scratch>>
  /\ run' = [run EXCEPT ![r].pc = "judged",
                        ![r].failed = IF ok THEN @ ELSE @ \cup {"commit"}]
  /\ UNCHANGED <<head, dirty, branches, trees, seq, epoch>>

Changed(r) == tip[Branch(r)] # run[r].base

(* worktree remove --force: the directory goes, with all that is not       *)
(* committed, if git can remove it.                                        *)
Remove(r, gone) ==
  LET n == Name(r) IN
  IF gone
    THEN trees' = trees \ {n} /\ scratch' = [scratch EXCEPT ![n] = {}]
    ELSE UNCHANGED <<trees, scratch>>

(* What git may have left behind is noted.                                 *)
Removed(r, gone) == IF gone THEN run[r].failed ELSE run[r].failed \cup {"remove"}

(* A branch with changes is reported, if the CLI's run was a success, and  *)
(* the run is over; one without has still to go.                           *)
RemoveTree(r, success, gone) ==
  LET b == Branch(r) IN
  /\ run[r].pc = "judged"
  /\ Remove(r, gone)
  /\ run' = [run EXCEPT
                ![r].pc     = IF Changed(r) THEN "over" ELSE "removed",
                ![r].failed = Removed(r, gone),
                ![r].told   = IF Changed(r) /\ success
                                THEN tip[b] \ run[r].base ELSE {}]
  /\ UNCHANGED <<head, dirty, branches, tip, seq, epoch>>

(* branch -D, which git refuses while the directory is there. Whether it   *)
(* worked is not looked at.                                                *)
DropBranch(r, done) ==
  LET b == Branch(r) IN
  /\ run[r].pc = "removed"
  /\ IF done
       THEN /\ Name(r) \notin trees
            /\ branches' = branches \ {b}
            /\ tip'      = [tip EXCEPT ![b] = {}]
       ELSE UNCHANGED <<branches, tip>>
  /\ run' = [run EXCEPT ![r].pc = "over"]
  /\ UNCHANGED <<head, dirty, trees, scratch, seq, epoch>>

(* Slip: the guard has no Drop.                                            *)
AbandonInPlace(r, gone) ==
  /\ run[r].pc \in {"tree", "live", "judged", "removed"}
  /\ run' = [run EXCEPT ![r].pc = "dropped"]
  /\ UNCHANGED <<git, seq, epoch>>

(* The future of the run is dropped at an await: the child is killed, and  *)
(* Drop removes the directory. The branch stays.                           *)
Abandon(r, gone) ==
  /\ run[r].pc \in {"tree", "live", "judged", "removed"}
  /\ IF run[r].isolated
       THEN /\ Remove(r, gone)
            /\ run' = [run EXCEPT ![r].pc     = "dropped",
                                  ![r].failed = Removed(r, gone)]
       ELSE /\ run' = [run EXCEPT ![r].pc = "dropped"]
            /\ UNCHANGED <<trees, scratch>>
  /\ UNCHANGED <<head, dirty, branches, tip, seq, epoch>>

-----------------------------------------------------------------------------
(* The process, and the owner of the project.                              *)

(* The process dies: no destructor runs, a CLI at work becomes an orphan.  *)
(* It starts again: the counter is back at one, the disk is as it was.     *)
Restart ==
  /\ epoch < MaxRestarts
  /\ epoch' = epoch + 1
  /\ seq'   = 1
  /\ run'   = [r \in Runs |->
                 CASE run[r].pc \in {"tree", "live"}
                        -> [run[r] EXCEPT !.pc = "orphan"]
                   [] run[r].pc \in {"named", "judged", "removed"}
                        -> [run[r] EXCEPT !.pc = "lost"]
                   [] OTHER -> run[r]]
  /\ UNCHANGED git

OrphanEnds(r) ==
  /\ run[r].pc = "orphan"
  /\ run' = [run EXCEPT ![r].pc = "lost"]
  /\ UNCHANGED <<git, seq, epoch>>

(* The directory of the run may be there.                                  *)
Leaves(r) == \/ run[r].pc \in {"tree", "judged", "orphan", "lost"}
             \/ "remove" \in run[r].failed

OwnerCommits(p) ==
  /\ \E k \in 1 .. MaxEdits :
       /\ \A q \in Projects : <<Owner, k>> \notin head[q]
       /\ head' = [head EXCEPT ![p] = @ \cup {<<Owner, k>>}]
  /\ UNCHANGED <<dirty, branches, tip, trees, scratch, seq, epoch, run>>

(* The owner merges a branch that no worktree has checked out, and deletes *)
(* it.                                                                     *)
OwnerMerges(b) ==
  /\ b \in branches
  /\ ~ \E r \in Runs : /\ run[r].isolated /\ Branch(r) = b
                       /\ Leaves(r) /\ Name(r) \in trees
  /\ head'     = [head EXCEPT ![b[1]] = @ \cup tip[b]]
  /\ branches' = branches \ {b}
  /\ tip'      = [tip EXCEPT ![b] = {}]
  /\ UNCHANGED <<dirty, trees, scratch, seq, epoch, run>>

-----------------------------------------------------------------------------
Next ==
  \/ \E r \in Runs :
       \/ \E m \in Rooms, p \in Projects : Begin(r, m, p)
       \/ AddTree(r) \/ FallBack(r) \/ \E b \in BOOLEAN : AddFails(r, b)
       \/ Edit(r) \/ SelfCommit(r) \/ ReturnLive(r)
       \/ \E b \in BOOLEAN : Commit(r, b) \/ DropBranch(r, b) \/ Abandon(r, b)
       \/ \E b, c \in BOOLEAN : RemoveTree(r, b, c)
       \/ OrphanEnds(r)
  \/ \E p \in Projects : OwnerCommits(p)
  \/ \E b \in branches : OwnerMerges(b)
  \/ Restart

Spec == Init /\ [][Next]_vars

-----------------------------------------------------------------------------
(* Properties.                                                             *)

(* The run has a directory of its own: from worktree add until it removes  *)
(* it, or for good if the process died.                                    *)
InTree(r) == run[r].isolated /\ run[r].pc \in {"tree", "judged", "orphan"}

(* What a project holds anywhere.                                          *)
Kept(p) == head[p] \cup dirty[p] \cup UNION {tip[b] : b \in {c \in branches : c[1] = p}}

(* No directory and no branch serves two runs, not even when one of them   *)
(* is the orphan of a process that numbered from one as well.              *)
TreesApart ==
  \A r \in Runs : InTree(r) =>
    /\ Name(r) \in trees /\ Branch(r) \in branches
    /\ \A s \in Runs \ {r} : InTree(s) => Name(s) # Name(r)
    /\ \A e \in scratch[Name(r)] : e[1] = r

(* What the room was told is on a branch is there, or in the checkout if   *)
(* the owner has merged it: no later run, drop or restart undoes it.       *)
ReportedKept ==
  \A r \in Runs : run[r].told \subseteq Kept(run[r].project)

(* The edits of a run that returned are kept, unless the commit failed.    *)
WorkSurvives ==
  \A r \in Runs : run[r].pc = "over" /\ "commit" \notin run[r].failed =>
    {r} \X (1 .. run[r].made) \subseteq Kept(run[r].project)

(* A directory that is still there belongs to a run at work, to one that   *)
(* the death of the process cut off, or to one for which git failed to     *)
(* remove it: no other end of a run leaves it behind.                      *)
TreesRemoved ==
  \A n \in trees : \E r \in Runs :
    Name(r) = n /\ run[r].isolated /\ Leaves(r)

(* No run takes a worktree from another run of its process, finished or    *)
(* not: unless git itself fails, a run works in the live checkout only     *)
(* under a name that an earlier process has used.                          *)
LiveOnlyOnUsedName ==
  \A r \in Runs : run[r].pc = "live" /\ "add" \notin run[r].failed =>
    \E s \in Runs : Name(s) = Name(r) /\ run[s].pc # "new" /\ run[s].epoch < run[r].epoch
=============================================================================

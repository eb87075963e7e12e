--------------------------- MODULE StoresProofs ---------------------------
(***************************************************************************)
(* Proofs about Stores, for all rooms, profiles, directories and jobs, and *)
(* about SkillFiles, for all writers and any number of drafts. The two     *)
(* modules share no variable.                                              *)
(*                                                                         *)
(* Each file of Stores has an invariant of its own that follows the value  *)
(* on its way from memory through the task that writes to the file         *)
(* (Commanding, DirsOnTheWay, RoomsOnTheWay). The steps of one store leave *)
(* the others' variables alone; only a restart touches all.                *)
(***************************************************************************)
EXTENDS Stores, SkillFiles, TLAPS

(* What the rooms will have chosen when the command is done.               *)
Asked(r) == IF command.pc # "idle" /\ r = command.room
              THEN command.choice ELSE chosen[r]

(* The map to be saved names what is in force; the file, until then, no    *)
(* choice but the last finished one.                                       *)
Commanding ==
  \A r \in Rooms :
    /\ overrides[r] \in {Asked(r), None}
    /\ overrideFile.holds[r] \in {chosen[r], None}
    /\ command.pc = "idle" /\ overrides[r] # None =>
         overrideFile.holds[r] = overrides[r]
    /\ command.pc # "idle" =>
         /\ command.map[r] \in {Asked(r), None}
         /\ overrides[r] # None => command.map[r] = overrides[r]

(* Unless sets overlap there is one at most, and it has the map.           *)
DirsOnTheWay ==
  ~clashed =>
    /\ Setting = {} => dirFile.holds = dirs
    /\ \A j \in Setting :
         /\ \A i \in Setting : i = j
         /\ job[j].map = dirs
         /\ job[j].pc = "write_dirs" => dirFile.text = "empty"

(* A record that is alone has all that is safe; while others are going on  *)
(* nothing is safe.                                                        *)
RoomsOnTheWay ==
  /\ KnownKept
  /\ \A j \in Recording :
       IF job[j].alone
         THEN /\ \A i \in Recording : i = j
              /\ safe \cup {job[j].room} \subseteq job[j].rooms
              /\ job[j].pc = "write_rooms" => roomFile.text = "empty"
         ELSE safe = {}

IInv == TypeOK /\ OverridesBuild /\ Commanding /\ DirsOnTheWay /\ RoomsOnTheWay

-----------------------------------------------------------------------------
(* Files.                                                                  *)

(* A file stays a file, whatever it held.                                  *)
LEMMA FileTypes ==
  ASSUME NEW S, NEW x \in S, NEW y \in S, NEW f \in FileOf(S), NEW g \in Written(f, x, y)
  PROVE  /\ Emptied(y) \in FileOf(S) /\ Whole(x) \in FileOf(S) /\ g \in FileOf(S)
         /\ f.text = "empty" => g = Whole(x)
BY DEF FileOf, Emptied, Whole, Garbled, Written

(* The steps of /model, of a reload and of the owner leave the jobs alone, *)
(* and the other way round.                                                *)
LEMMA Apart ==
  ASSUME [Next]_vars
  PROVE  \/ /\ UNCHANGED jobVars
            /\ \/ EditConfig \/ Build \/ Install \/ OpenOverrides \/ WriteOverrides
               \/ \E r \in Choosers, p \in Profiles \cup {None} : Choose(r, p)
         \/ /\ UNCHANGED modelVars
            /\ \E j \in Jobs :
                 \/ \E r \in Rooms :
                      \/ \E d \in Dirs : SetDir(j, r, d)
                      \/ RecordRoom(j, r) \/ AlreadyKnown(j, r)
                 \/ OpenDirs(j) \/ WriteDirs(j) \/ OpenRooms(j) \/ WriteRooms(j)
         \/ Restart
         \/ UNCHANGED vars
<1> SUFFICES ASSUME Next PROVE
         \/ /\ UNCHANGED jobVars
            /\ \/ EditConfig \/ Build \/ Install \/ OpenOverrides \/ WriteOverrides
               \/ \E r \in Choosers, p \in Profiles \cup {None} : Choose(r, p)
         \/ /\ UNCHANGED modelVars
            /\ \E j \in Jobs :
                 \/ \E r \in Rooms :
                      \/ \E d \in Dirs : SetDir(j, r, d)
                      \/ RecordRoom(j, r) \/ AlreadyKnown(j, r)
                 \/ OpenDirs(j) \/ WriteDirs(j) \/ OpenRooms(j) \/ WriteRooms(j)
         \/ Restart
  OBVIOUS
<1>1. EditConfig \/ Build \/ Install \/ OpenOverrides \/ WriteOverrides => UNCHANGED jobVars
  BY DEF EditConfig, Build, Install, OpenOverrides, WriteOverrides
<1>2. \A r \in Choosers, p \in Profiles \cup {None} : Choose(r, p) => UNCHANGED jobVars
  BY DEF Choose
<1>3. \A j \in Jobs, r \in Rooms :
        /\ \A d \in Dirs : SetDir(j, r, d) => UNCHANGED modelVars
        /\ RecordRoom(j, r) \/ AlreadyKnown(j, r) => UNCHANGED modelVars
  BY DEF SetDir, RecordRoom, AlreadyKnown
<1>4. \A j \in Jobs :
        OpenDirs(j) \/ WriteDirs(j) \/ OpenRooms(j) \/ WriteRooms(j) => UNCHANGED modelVars
  BY DEF OpenDirs, WriteDirs, OpenRooms, WriteRooms
<1> QED
  BY <1>1, <1>2, <1>3, <1>4 DEF Next

-----------------------------------------------------------------------------
(* Types.                                                                  *)

(* The overrides that still build are overrides.                           *)
LEMMA RetainedType ==
  ASSUME NEW m \in Overrides, NEW c
  PROVE  /\ Retained(m, c) \in Overrides
         /\ \A r \in Rooms : Retained(m, c)[r] \in {m[r], None} /\ Retained(m, c)[r] \in c \cup {None}
BY DEF Retained, Overrides

(* The types of the profiles, the overrides and the command.               *)
ModelTypes ==
  /\ config    \in SUBSET Profiles
  /\ llms      \in WithChat
  /\ fresh     \in WithChat \cup {{}}
  /\ overrides \in Overrides
  /\ overrideFile \in FileOf(Overrides)
  /\ command   \in Commands
  /\ chosen    \in Overrides

(* The types of the directories, the list of rooms and the jobs.           *)
JobTypes ==
  /\ dirs      \in Workdirs
  /\ dirFile   \in FileOf(Workdirs)
  /\ roomFile  \in FileOf(SUBSET Rooms)
  /\ job       \in [Jobs -> JobType]
  /\ clashed   \in BOOLEAN
  /\ safe      \in SUBSET Rooms

(* Every step keeps the first.                                             *)
LEMMA ModelTypeStep == ModelTypes /\ [Next]_vars => ModelTypes'
<1> SUFFICES ASSUME ModelTypes, [Next]_vars PROVE ModelTypes'
  OBVIOUS
<1>0. Unset \in Overrides /\ NoCommand \in Commands /\ Choosers \subseteq Rooms
  BY ChooserAssumption DEF Unset, Overrides, NoCommand, Commands
<1> USE DEF ModelTypes
<1>1. ASSUME EditConfig
      PROVE  ModelTypes'
  BY <1>1 DEF EditConfig
<1>2. ASSUME Build
      PROVE  ModelTypes'
  BY <1>2 DEF Build, WithChat
<1>3. ASSUME Install
      PROVE  ModelTypes'
  BY <1>3, RetainedType DEF Install
<1>4. ASSUME NEW r \in Choosers, NEW p \in Profiles \cup {None}, Choose(r, p)
      PROVE  ModelTypes'
  <2>1. p \in Profiles \cup {None} /\ r \in Rooms
    BY <1>0
  <2>2. overrides' \in Overrides
    BY <1>4, <2>1 DEF Choose, Overrides
  <2>3. command' \in Commands
    BY <1>4, <2>1, <2>2 DEF Choose, Commands
  <2> QED
    BY <1>4, <2>2, <2>3 DEF Choose
<1>5. ASSUME OpenOverrides
      PROVE  ModelTypes'
  <2>1. command' \in Commands
    BY <1>5 DEF OpenOverrides, Commands
  <2>2. overrideFile' \in FileOf(Overrides)
    BY <1>5, <1>0 DEF OpenOverrides, FileOf, Emptied
  <2> QED
    BY <1>5, <2>1, <2>2 DEF OpenOverrides
<1>6. ASSUME WriteOverrides
      PROVE  ModelTypes'
  <2>1. overrideFile' \in FileOf(Overrides)
    BY <1>6 DEF WriteOverrides, FileOf, Whole, Commands
  <2>2. chosen' \in Overrides
    BY <1>6 DEF WriteOverrides, Commands, Overrides
  <2> QED
    BY <1>6, <1>0, <2>1, <2>2 DEF WriteOverrides
<1>7. ASSUME Restart
      PROVE  ModelTypes'
  <2>1. overrideFile.holds \in Overrides
    BY DEF FileOf
  <2>2. overrides' \in Overrides
    BY <1>7, <2>1, RetainedType DEF Restart
  <2> QED
    BY <1>7, <1>0, <2>2 DEF Restart, WithChat
<1>8. ASSUME UNCHANGED modelVars
      PROVE  ModelTypes'
  BY <1>8 DEF modelVars
<1> QED
  BY Apart, <1>1, <1>2, <1>3, <1>4, <1>5, <1>6, <1>7, <1>8 DEF vars

(* Every step keeps the second: what is alone and recorded is a room.      *)
LEMMA JobTypeStep == JobTypes /\ RoomsOnTheWay /\ [Next]_vars => JobTypes'
<1> SUFFICES ASSUME JobTypes, RoomsOnTheWay, [Next]_vars PROVE JobTypes'
  OBVIOUS
<1>0. /\ Unset \in Workdirs /\ Elsewhere \in JobType
      /\ dirFile.holds \in Workdirs /\ roomFile.holds \in SUBSET Rooms
  BY DEF JobTypes, FileOf, Unset, Workdirs, Elsewhere, JobType
<1> USE DEF JobTypes
<1>1. ASSUME NEW j \in Jobs, NEW r \in Rooms, NEW d \in Dirs, SetDir(j, r, d)
      PROVE  JobTypes'
  <2>1. dirs' \in Workdirs
    BY <1>1 DEF SetDir, Workdirs
  <2>2. job'[j] \in JobType /\ \A i \in Jobs : i # j => job'[i] = job[i]
    <3>1. job[j] \in JobType
      OBVIOUS
    <3> QED
      BY <1>1, <2>1, <3>1 DEF SetDir, JobType
  <2>3. job' \in [Jobs -> JobType]
    BY <1>1, <2>2 DEF SetDir
  <2> QED
    BY <1>1, <2>1, <2>3 DEF SetDir
<1>2. ASSUME NEW j \in Jobs, NEW r \in Rooms, RecordRoom(j, r)
      PROVE  JobTypes'
  <2>1. \A i \in Jobs : job'[i] \in JobType
    BY <1>2, <1>0 DEF RecordRoom, JobType
  <2>2. job' \in [Jobs -> JobType]
    BY <1>2, <2>1 DEF RecordRoom
  <2> QED
    BY <1>2, <2>2 DEF RecordRoom
<1>3. ASSUME NEW j \in Jobs, NEW r \in Rooms, AlreadyKnown(j, r)
      PROVE  JobTypes'
  BY <1>3 DEF AlreadyKnown
<1>4. ASSUME NEW j \in Jobs, OpenDirs(j)
      PROVE  JobTypes'
  <2>1. job' \in [Jobs -> JobType]
    BY <1>4 DEF OpenDirs, JobType
  <2> QED
    BY <1>4, <1>0, <2>1 DEF OpenDirs, FileOf, Emptied
<1>5. ASSUME NEW j \in Jobs, WriteDirs(j)
      PROVE  JobTypes'
  <2>1. job[j].map \in Workdirs
    BY DEF JobType
  <2>2. dirFile' \in FileOf(Workdirs)
    BY <1>5, <1>0, <2>1, FileTypes DEF WriteDirs
  <2> QED
    BY <1>5, <1>0, <2>2 DEF WriteDirs
<1>6. ASSUME NEW j \in Jobs, OpenRooms(j)
      PROVE  JobTypes'
  <2>1. job' \in [Jobs -> JobType]
    BY <1>6 DEF OpenRooms, JobType
  <2> QED
    BY <1>6, <2>1 DEF OpenRooms, FileOf, Emptied
<1>7. ASSUME NEW j \in Jobs, WriteRooms(j)
      PROVE  JobTypes'
  <2>1. job[j].rooms \in SUBSET Rooms
    BY DEF JobType
  <2>2. roomFile' \in FileOf(SUBSET Rooms)
    BY <1>7, <2>1, FileTypes DEF WriteRooms
  <2>3. safe' \in SUBSET Rooms
    BY <1>7, <2>1 DEF WriteRooms, RoomsOnTheWay, Recording
  <2> QED
    BY <1>7, <1>0, <2>2, <2>3 DEF WriteRooms
<1>8. ASSUME Restart
      PROVE  JobTypes'
  BY <1>8, <1>0 DEF Restart
<1>9. ASSUME UNCHANGED jobVars
      PROVE  JobTypes'
  BY <1>9 DEF jobVars
<1> QED
  BY Apart, <1>1, <1>2, <1>3, <1>4, <1>5, <1>6, <1>7, <1>8, <1>9 DEF vars

-----------------------------------------------------------------------------
(* /model.                                                                 *)

(* An override that does not build is dropped with its profile.            *)
LEMMA OverridesBuildStep == TypeOK /\ OverridesBuild /\ [Next]_vars => OverridesBuild'
<1> SUFFICES ASSUME ModelTypes, OverridesBuild, [Next]_vars PROVE OverridesBuild'
  BY DEF TypeOK, ModelTypes
<1> USE DEF ModelTypes, OverridesBuild
<1>1. ASSUME EditConfig \/ Build \/ OpenOverrides \/ WriteOverrides
      PROVE  OverridesBuild'
  BY <1>1 DEF EditConfig, Build, OpenOverrides, WriteOverrides
<1>2. ASSUME Install
      PROVE  OverridesBuild'
  BY <1>2, RetainedType DEF Install
<1>3. ASSUME NEW r \in Choosers, NEW p \in Profiles \cup {None}, Choose(r, p)
      PROVE  OverridesBuild'
  BY <1>3 DEF Choose, Overrides
<1>4. ASSUME Restart
      PROVE  OverridesBuild'
  BY <1>4, RetainedType DEF Restart, FileOf
<1>5. ASSUME UNCHANGED modelVars
      PROVE  OverridesBuild'
  BY <1>5 DEF modelVars
<1> QED
  BY Apart, <1>1, <1>2, <1>3, <1>4, <1>5 DEF vars

(* The map on its way to the file stays ahead of it.                       *)
LEMMA CommandingStep == TypeOK /\ Commanding /\ [Next]_vars => Commanding'
<1> SUFFICES ASSUME ModelTypes, Commanding, [Next]_vars PROVE Commanding'
  BY DEF TypeOK, ModelTypes
<1> USE DEF ModelTypes, Commanding, Asked
<1>0. \A r \in Rooms : Unset[r] = None
  BY DEF Unset
<1>1. ASSUME EditConfig \/ Build
      PROVE  Commanding'
  BY <1>1 DEF EditConfig, Build
<1>2. ASSUME Install
      PROVE  Commanding'
  <2>1. \A r \in Rooms : overrides'[r] \in {overrides[r], None}
    BY <1>2, RetainedType DEF Install
  <2> QED
    BY <1>2, <2>1 DEF Install
<1>3. ASSUME NEW r \in Choosers, NEW p \in Profiles \cup {None}, Choose(r, p)
      PROVE  Commanding'
  <2>1. \A q \in Rooms : overrides'[q] = IF q = r THEN p ELSE overrides[q]
    BY <1>3 DEF Choose, Overrides
  <2>2. /\ command.pc = "idle" /\ command'.pc = "open" /\ command'.map = overrides'
        /\ command'.room = r /\ command'.choice = p
    BY <1>3 DEF Choose
  <2>3. \A q \in Rooms : Asked(q)' = IF q = r THEN p ELSE chosen[q]
    BY <1>3, <2>2 DEF Choose
  <2> QED
    BY <1>3, <2>1, <2>2, <2>3 DEF Choose
<1>4. ASSUME OpenOverrides
      PROVE  Commanding'
  <2>1. /\ command'.pc = "write" /\ command'.map = command.map
        /\ command'.room = command.room /\ command'.choice = command.choice
    BY <1>4 DEF OpenOverrides, Commands
  <2> QED
    BY <1>0, <1>4, <2>1 DEF OpenOverrides, Emptied
<1>5. ASSUME WriteOverrides
      PROVE  Commanding'
  <2>1. command.pc # "idle" /\ command'.pc = "idle" /\ overrideFile'.holds = command.map
    BY <1>5 DEF WriteOverrides, NoCommand, Whole
  <2>2. \A q \in Rooms : chosen'[q] = Asked(q)
    BY <1>5, <2>1 DEF WriteOverrides, Overrides
  <2> QED
    BY <1>5, <2>1, <2>2 DEF WriteOverrides
<1>6. ASSUME Restart
      PROVE  Commanding'
  <2>1. command'.pc = "idle"
    BY <1>6 DEF Restart, NoCommand
  <2>2. \A q \in Rooms : overrides'[q] \in {overrideFile.holds[q], None}
    BY <1>6, RetainedType DEF Restart, FileOf
  <2> QED
    BY <1>6, <2>1, <2>2 DEF Restart
<1>7. ASSUME UNCHANGED modelVars
      PROVE  Commanding'
  BY <1>7 DEF modelVars
<1> QED
  BY Apart, <1>1, <1>2, <1>3, <1>4, <1>5, <1>6, <1>7 DEF vars

-----------------------------------------------------------------------------
(* set_workdir.                                                            *)

(* A set that nothing overlaps has the file to itself.                     *)
LEMMA DirsStep == TypeOK /\ DirsOnTheWay /\ [Next]_vars => DirsOnTheWay'
<1> SUFFICES ASSUME JobTypes, DirsOnTheWay, [Next]_vars PROVE DirsOnTheWay'
  BY DEF TypeOK, JobTypes
<1> USE DEF JobTypes, DirsOnTheWay, Setting
<1>1. ASSUME NEW j \in Jobs, NEW r \in Rooms, NEW d \in Dirs, SetDir(j, r, d)
      PROVE  DirsOnTheWay'
  <2>1. /\ job'[j].pc = "open_dirs" /\ job'[j].map = dirs'
        /\ \A i \in Jobs : i # j => job'[i] = job[i]
    BY <1>1 DEF SetDir, JobType
  <2>2. clashed' = (Setting # {})
    BY <1>1 DEF SetDir
  <2> QED
    BY <1>1, <2>1, <2>2 DEF SetDir
<1>2. ASSUME NEW j \in Jobs, OpenDirs(j)
      PROVE  DirsOnTheWay'
  <2>1. /\ j \in Setting /\ job'[j].pc = "write_dirs" /\ job'[j].map = job[j].map
        /\ \A i \in Jobs : i # j => job'[i] = job[i]
    BY <1>2 DEF OpenDirs, JobType
  <2>2. Setting' = Setting /\ dirFile'.text = "empty"
    BY <1>2, <2>1 DEF OpenDirs, Emptied
  <2> QED
    BY <1>2, <2>1, <2>2 DEF OpenDirs
<1>3. ASSUME NEW j \in Jobs, WriteDirs(j)
      PROVE  DirsOnTheWay'
  <2>1. /\ j \in Setting /\ job'[j].pc = "idle"
        /\ \A i \in Jobs : i # j => job'[i] = job[i]
    BY <1>3 DEF WriteDirs, Elsewhere
  <2>2. Setting' = Setting \ {j}
    BY <2>1
  <2>3. dirFile.text = "empty" => dirFile'.holds = job[j].map
    BY <1>3 DEF WriteDirs, Written, Whole
  <2> QED
    BY <1>3, <2>1, <2>2, <2>3 DEF WriteDirs
<1>4. ASSUME NEW j \in Jobs, NEW r \in Rooms, RecordRoom(j, r)
      PROVE  DirsOnTheWay'
  <2>1. \A i \in Jobs : /\ i \in Setting \/ i \in Setting' => job'[i].pc = job[i].pc
                        /\ job'[i].map = job[i].map
    BY <1>4 DEF RecordRoom, Recording, JobType
  <2>2. Setting' = Setting
    BY <2>1
  <2>3. dirs' = dirs /\ dirFile' = dirFile /\ clashed' = clashed
    BY <1>4 DEF RecordRoom
  <2>4. \A i \in Setting : job'[i].pc = job[i].pc /\ job'[i].map = job[i].map /\ i \in Jobs
    BY <2>1
  <2> HIDE DEF Setting
  <2> QED
    BY <2>2, <2>3, <2>4
<1>5. ASSUME NEW j \in Jobs, NEW r \in Rooms, AlreadyKnown(j, r)
      PROVE  DirsOnTheWay'
  BY <1>5 DEF AlreadyKnown
<1>6. ASSUME NEW j \in Jobs, OpenRooms(j) \/ WriteRooms(j)
      PROVE  DirsOnTheWay'
  <2>1. /\ j \notin Setting /\ job'[j].pc \in {"write_rooms", "idle"}
        /\ \A i \in Jobs : i # j => job'[i] = job[i]
    BY <1>6 DEF OpenRooms, WriteRooms, Elsewhere, JobType
  <2>2. Setting' = Setting
    BY <2>1
  <2> QED
    BY <1>6, <2>1, <2>2 DEF OpenRooms, WriteRooms
<1>7. ASSUME Restart
      PROVE  DirsOnTheWay'
  <2>1. Setting' = {}
    BY <1>7 DEF Restart, Elsewhere
  <2> QED
    BY <1>7, <2>1 DEF Restart
<1>8. ASSUME UNCHANGED jobVars
      PROVE  DirsOnTheWay'
  BY <1>8 DEF jobVars
<1> QED
  BY Apart, <1>1, <1>2, <1>3, <1>4, <1>5, <1>6, <1>7, <1>8 DEF vars

-----------------------------------------------------------------------------
(* record_room.                                                            *)

(* A record that is alone reads all that is safe and writes it back.       *)
LEMMA RoomsStep == TypeOK /\ RoomsOnTheWay /\ [Next]_vars => RoomsOnTheWay'
<1> SUFFICES ASSUME JobTypes, RoomsOnTheWay, [Next]_vars PROVE RoomsOnTheWay'
  BY DEF TypeOK, JobTypes
<1> USE DEF JobTypes, RoomsOnTheWay, KnownKept, Recording
<1>1. ASSUME NEW j \in Jobs, NEW r \in Rooms, RecordRoom(j, r)
      PROVE  RoomsOnTheWay'
  <2>1. /\ job[j].pc = "idle" /\ job'[j].pc = "open_rooms" /\ job'[j].room = r
        /\ job'[j].rooms = roomFile.holds \cup {r}
        /\ job'[j].alone = (Recording = {})
    BY <1>1 DEF RecordRoom, JobType
  <2>2. \A i \in Recording : job'[i].pc = job[i].pc /\ ~job'[i].alone
    BY <1>1 DEF RecordRoom, JobType
  <2>3. \A i \in Jobs : i # j /\ i \notin Recording => job'[i] = job[i]
    BY <1>1 DEF RecordRoom
  <2>4. Recording' = Recording \cup {j}
    BY <2>1, <2>2, <2>3
  <2>5. CASE Recording = {}
    <3>1. safe' = safe /\ roomFile' = roomFile /\ safe \subseteq roomFile.holds
      BY <1>1, <2>5 DEF RecordRoom
    <3>2. \A i \in Jobs : job'[i].pc # "write_rooms"
      BY <2>1, <2>3, <2>5
    <3> QED
      BY <2>1, <2>4, <2>5, <3>1, <3>2
  <2>6. CASE Recording # {}
    <3>1. safe' = {}
      BY <1>1, <2>6 DEF RecordRoom
    <3>2. \A i \in Recording' : ~job'[i].alone
      BY <2>1, <2>2, <2>4, <2>6
    <3> QED
      BY <3>1, <3>2
  <2> QED
    BY <2>5, <2>6
<1>2. ASSUME NEW j \in Jobs, NEW r \in Rooms, AlreadyKnown(j, r)
      PROVE  RoomsOnTheWay'
  BY <1>2 DEF AlreadyKnown
<1>3. ASSUME NEW j \in Jobs, OpenRooms(j)
      PROVE  RoomsOnTheWay'
  <2>1. /\ j \in Recording /\ job'[j].pc = "write_rooms"
        /\ job'[j].alone = job[j].alone /\ job'[j].room = job[j].room
        /\ job'[j].rooms = job[j].rooms
        /\ \A i \in Jobs : i # j => job'[i] = job[i]
    BY <1>3 DEF OpenRooms, JobType
  <2>2. Recording' = Recording /\ roomFile'.text = "empty" /\ safe' = safe
    BY <1>3, <2>1 DEF OpenRooms, Emptied
  <2> QED
    BY <2>1, <2>2
<1>4. ASSUME NEW j \in Jobs, WriteRooms(j)
      PROVE  RoomsOnTheWay'
  <2>1. /\ j \in Recording /\ job'[j].pc = "idle"
        /\ \A i \in Jobs : i # j => job'[i] = job[i]
    BY <1>4 DEF WriteRooms, Elsewhere
  <2>2. Recording' = Recording \ {j}
    BY <2>1
  <2>3. roomFile.text = "empty" => roomFile'.holds = job[j].rooms
    BY <1>4 DEF WriteRooms, Written, Whole
  <2>4. CASE job[j].alone
    <3>1. Recording' = {} /\ safe' = safe \cup {job[j].room} /\ roomFile'.holds = job[j].rooms
      BY <1>4, <2>1, <2>2, <2>3, <2>4 DEF WriteRooms
    <3> QED
      BY <2>1, <2>4, <3>1
  <2>5. CASE ~job[j].alone
    <3>1. safe = {} /\ safe' = {}
      BY <1>4, <2>1, <2>5 DEF WriteRooms
    <3>2. \A i \in Recording' : ~job'[i].alone
      BY <2>1, <2>2, <2>5
    <3> QED
      BY <3>1, <3>2
  <2> QED
    BY <2>4, <2>5
<1>5. ASSUME NEW j \in Jobs, NEW r \in Rooms, NEW d \in Dirs, SetDir(j, r, d)
      PROVE  RoomsOnTheWay'
  <2>1. /\ j \notin Recording /\ job'[j].pc = "open_dirs"
        /\ \A i \in Jobs : i # j => job'[i] = job[i]
    BY <1>5 DEF SetDir, JobType
  <2>2. Recording' = Recording
    BY <2>1
  <2> QED
    BY <1>5, <2>1, <2>2 DEF SetDir
<1>6. ASSUME NEW j \in Jobs, OpenDirs(j) \/ WriteDirs(j)
      PROVE  RoomsOnTheWay'
  <2>1. /\ j \notin Recording /\ job'[j].pc \in {"write_dirs", "idle"}
        /\ \A i \in Jobs : i # j => job'[i] = job[i]
    BY <1>6 DEF OpenDirs, WriteDirs, Elsewhere, JobType
  <2>2. Recording' = Recording
    BY <2>1
  <2> QED
    BY <1>6, <2>1, <2>2 DEF OpenDirs, WriteDirs
<1>7. ASSUME Restart
      PROVE  RoomsOnTheWay'
  <2>1. Recording' = {}
    BY <1>7 DEF Restart, Elsewhere
  <2>2. \A j \in Jobs : job'[j].pc # "write_rooms"
    BY <1>7 DEF Restart, Elsewhere
  <2>3. safe' \subseteq roomFile.holds
    BY <1>7 DEF Restart
  <2> QED
    BY <1>7, <2>1, <2>2, <2>3 DEF Restart
<1>8. ASSUME UNCHANGED jobVars
      PROVE  RoomsOnTheWay'
  BY <1>8 DEF jobVars
<1> QED
  BY Apart, <1>1, <1>2, <1>3, <1>4, <1>5, <1>6, <1>7, <1>8 DEF vars

-----------------------------------------------------------------------------
(* The theorems.                                                           *)

(* IInv holds always.                                                      *)
THEOREM StoresInvariance == Spec => []IInv
<1>1. Init => IInv
  <2> SUFFICES ASSUME Init PROVE IInv
    OBVIOUS
  <2>1. TypeOK
    BY ChatAssumption DEF Init, TypeOK, WithChat, Overrides, Workdirs, Unset, FileOf,
      Emptied, Commands, NoCommand, JobType, Elsewhere
  <2>2. OverridesBuild /\ Commanding
    BY DEF Init, OverridesBuild, Commanding, Asked, Unset, Emptied, NoCommand
  <2>3. DirsOnTheWay /\ RoomsOnTheWay
    BY DEF Init, DirsOnTheWay, RoomsOnTheWay, KnownKept, Setting, Recording, Elsewhere,
      Emptied
  <2> QED
    BY <2>1, <2>2, <2>3 DEF IInv
<1>2. IInv /\ [Next]_vars => IInv'
  <2> SUFFICES ASSUME IInv, [Next]_vars PROVE IInv'
    OBVIOUS
  <2>1. TypeOK'
    <3>1. ModelTypes' /\ JobTypes'
      BY ModelTypeStep, JobTypeStep DEF IInv, TypeOK, ModelTypes, JobTypes
    <3> QED
      BY <3>1 DEF TypeOK, ModelTypes, JobTypes
  <2>2. OverridesBuild' /\ Commanding'
    BY OverridesBuildStep, CommandingStep DEF IInv
  <2>3. DirsOnTheWay' /\ RoomsOnTheWay'
    BY DirsStep, RoomsStep DEF IInv
  <2> QED
    BY <2>1, <2>2, <2>3 DEF IInv
<1> QED
  BY <1>1, <1>2, PTL DEF Spec

(* The variables have their types: a file holds a map or nothing.          *)
THEOREM StoresTypeCorrect == Spec => []TypeOK
<1>1. IInv => TypeOK
  BY DEF IInv
<1> QED
  BY <1>1, StoresInvariance, PTL

(* No room is asked to run on a profile that is not built, whenever a      *)
(* reload takes it away.                                                   *)
THEOREM OverridesAlwaysBuild == Spec => []OverridesBuild
<1>1. IInv => OverridesBuild
  BY DEF IInv
<1> QED
  BY <1>1, StoresInvariance, PTL

(* A room runs on what it chose last or on the default.                    *)
THEOREM OldChoiceNeverBack == Spec => []NoOldChoice
<1>1. IInv => NoOldChoice
  BY DEF IInv, Commanding, Asked, NoOldChoice
<1> QED
  BY <1>1, StoresInvariance, PTL

(* Between commands a restart loses no override.                           *)
THEOREM OverridesAreSaved == Spec => []OverridesSaved
<1>1. IInv => OverridesSaved
  BY DEF IInv, Commanding, OverridesSaved
<1> QED
  BY <1>1, StoresInvariance, PTL

(* After a set that no other overlaps the directories on disk are those in *)
(* memory.                                                                 *)
THEOREM SoleSetSaves == Spec => []DirsSaved
<1>1. IInv => DirsSaved
  BY DEF IInv, DirsOnTheWay, DirsSaved
<1> QED
  BY <1>1, StoresInvariance, PTL

(* A room that was recorded alone is known until records overlap.          *)
THEOREM KnownStay == Spec => []KnownKept
<1>1. IInv => KnownKept
  BY DEF IInv, RoomsOnTheWay
<1> QED
  BY <1>1, StoresInvariance, PTL

-----------------------------------------------------------------------------
(* SkillFiles. DraftKept is not inductive: an approval empties the active  *)
(* body before it fills it, and removes the draft at its end. What makes   *)
(* both safe is that a draft that is owed is in the draft's file as long   *)
(* as there is one (Owed), that there is one as long as an approval goes   *)
(* on, and that what it copies is what is owed unless someone has written  *)
(* since (Approving).                                                      *)

(* A file that is open has an inode.                                       *)
Opened == \A w \in Writers : writer[w] # Closed => writer[w].inode # 0

(* What is owed is in the draft's file if there is one.                    *)
Owed == owed # 0 /\ There => pending.body = owed

(* An approval has a draft to read, and its copy is what is owed.          *)
Approving ==
  /\ desk.at \in {"found", "read", "opened", "copied"} => There
  /\ desk.at \in {"read", "opened", "copied"} /\ ~desk.late /\ owed # 0 =>
       desk.copy = owed
  /\ desk.at = "copied" => learned.body = desk.copy

SkillInv == SkillTypeOK /\ Opened /\ Owed /\ Approving /\ DraftKept

-----------------------------------------------------------------------------
(* The steps of whoever writes a draft.                                    *)

LEMMA OpenStep ==
  ASSUME SkillInv, NEW w \in Writers, OpenDraft(w)
  PROVE  SkillInv'
<1>1. /\ drafts' \in Nat \ {0}
      /\ pending' \in [inode : Nat \ {0}, body : {0}]
      /\ pending'.inode # 0
  BY DEF SkillInv, SkillTypeOK, OpenDraft, There
<1>2. writer' = [writer EXCEPT ![w] = [inode |-> pending'.inode, draft |-> drafts']]
      /\ owed' = 0 /\ learned' = learned /\ desk' = desk
  BY DEF OpenDraft
<1>3. SkillTypeOK'
  BY <1>1, <1>2 DEF SkillInv, SkillTypeOK
<1>4. Opened'
  BY <1>1, <1>2 DEF SkillInv, SkillTypeOK, Opened, Closed
<1>5. Approving'
  BY <1>1, <1>2 DEF SkillInv, Approving, There
<1> QED
  BY <1>2, <1>3, <1>4, <1>5 DEF SkillInv, Owed, DraftKept

LEMMA FillStep ==
  ASSUME SkillInv, NEW w \in Writers, FillDraft(w)
  PROVE  SkillInv'
<1> DEFINE d == writer[w].draft
<1>1. /\ writer[w] # Closed /\ writer[w].inode # 0
      /\ d \in Nat /\ Torn \in Nat
  BY DraftAssumption DEF FillDraft, SkillInv, SkillTypeOK, Opened, Torn
<1>2. /\ pending' \in [inode : Nat, body : Nat]
      /\ pending'.inode = pending.inode
  BY <1>1 DEF FillDraft, SkillInv, SkillTypeOK
<1>3. /\ writer' = [writer EXCEPT ![w] = Closed]
      /\ owed' = IF Undisturbed(w) THEN d ELSE 0
      /\ desk' = [desk EXCEPT !.late = desk.at \in {"read", "opened", "copied"}]
      /\ learned' = learned /\ drafts' = drafts
  BY DEF FillDraft
<1>4. Undisturbed(w) => pending'.body = d
  <2> SUFFICES ASSUME Undisturbed(w) PROVE pending'.body = d
    OBVIOUS
  <2>1. pending.inode = writer[w].inode /\ pending.body = 0
    BY DEF Undisturbed
  <2>2. \E body \in {d} : pending' = [pending EXCEPT !.body = body]
    BY <2>1 DEF FillDraft
  <2> QED
    BY <2>2 DEF SkillInv, SkillTypeOK
<1>5. owed' # 0 => pending'.body = owed'
  BY <1>3, <1>4
<1>6. SkillTypeOK'
  <2>1. (desk.at \in {"read", "opened", "copied"}) \in BOOLEAN
    OBVIOUS
  <2>2. desk' \in [at : {"idle", "found", "read", "opened", "copied", "forgetting"},
                   copy : Nat, late : BOOLEAN]
    BY <1>3, <2>1, Zenon DEF SkillInv, SkillTypeOK
  <2>3. writer' \in [Writers -> [inode : Nat, draft : Nat]]
    BY <1>3 DEF SkillInv, SkillTypeOK, Closed
  <2>4. owed' \in Nat
    BY <1>1, <1>3
  <2> QED
    BY <1>2, <1>3, <2>2, <2>3, <2>4 DEF SkillInv, SkillTypeOK
<1>7. Opened'
  BY <1>3 DEF SkillInv, SkillTypeOK, Opened
<1>8. /\ desk'.at = desk.at /\ desk'.copy = desk.copy
      /\ desk'.at \in {"read", "opened", "copied"} => desk'.late
  BY <1>3 DEF SkillInv, SkillTypeOK
<1>9. Approving'
  BY <1>2, <1>3, <1>8 DEF SkillInv, Approving, There
<1> QED
  BY <1>5, <1>6, <1>7, <1>9 DEF SkillInv, Owed, DraftKept

-----------------------------------------------------------------------------
(* The steps of /skills approve and forget, and a restart.                 *)

LEMMA ApproveStep ==
  ASSUME SkillInv, Approve \/ ReadDraft
  PROVE  SkillInv'
<1> USE DEF SkillInv, SkillTypeOK, Opened, Owed, Approving, DraftKept, There
<1>1. CASE Approve
  BY <1>1 DEF Approve, DeskFree, Idle
<1>2. CASE ReadDraft
  BY <1>2 DEF ReadDraft
<1> QED
  BY <1>1, <1>2

LEMMA CopyStep ==
  ASSUME SkillInv, OpenLearned \/ FillLearned
  PROVE  SkillInv'
<1> USE DEF SkillInv, SkillTypeOK, Opened, Owed, Approving, DraftKept, There
<1>1. CASE OpenLearned
  BY <1>1 DEF OpenLearned
<1>2. CASE FillLearned
  BY <1>2 DEF FillLearned
<1> QED
  BY <1>1, <1>2

(* Without a late draft the one that is removed is the one that was copied.*)
LEMMA RemoveStep ==
  ASSUME SkillInv, RemoveDraft
  PROVE  SkillInv'
<1>1. owed' # 0 => ~desk.late /\ owed # 0 /\ owed' = owed /\ learned.body = owed
  BY DEF RemoveDraft, SkillInv, Approving
<1>2. pending' = Missing /\ desk' = Idle /\ learned' = learned /\ writer' = writer
      /\ drafts' = drafts
  BY DEF RemoveDraft
<1>3. SkillTypeOK'
  BY <1>2 DEF RemoveDraft, SkillInv, SkillTypeOK, Missing, Idle
<1> QED
  BY <1>1, <1>2, <1>3 DEF SkillInv, Opened, Owed, Approving, DraftKept, There, Missing, Idle

LEMMA ForgetStep ==
  ASSUME SkillInv, ForgetLearned \/ ForgetDraft
  PROVE  SkillInv'
<1> USE DEF SkillInv, SkillTypeOK, Opened, Owed, Approving, DraftKept, There, NoSkill, Missing, Idle
<1>1. CASE ForgetLearned
  BY <1>1 DEF ForgetLearned
<1>2. CASE ForgetDraft
  BY <1>2 DEF ForgetDraft
<1> QED
  BY <1>1, <1>2

LEMMA RestartStep ==
  ASSUME SkillInv, SkillRestart
  PROVE  SkillInv'
BY DEF SkillRestart, SkillInv, SkillTypeOK, Opened, Owed, Approving, DraftKept, There, Closed, Idle

-----------------------------------------------------------------------------
LEMMA InitInv == SkillInit => SkillInv
BY DEF SkillInit, SkillInv, SkillTypeOK, Opened, Owed, Approving, DraftKept, There,
       Missing, NoSkill, Closed, Idle

LEMMA StepInv == SkillInv /\ [SkillNext]_skillVars => SkillInv'
<1> SUFFICES ASSUME SkillInv, [SkillNext]_skillVars PROVE SkillInv'
  OBVIOUS
<1>1. CASE UNCHANGED skillVars
  BY <1>1 DEF skillVars, SkillInv, SkillTypeOK, Opened, Owed, Approving, DraftKept, There
<1>2. CASE \E w \in Writers : OpenDraft(w) \/ FillDraft(w)
  BY <1>2, OpenStep, FillStep
<1>3. CASE Approve \/ ReadDraft
  BY <1>3, ApproveStep
<1>4. CASE OpenLearned \/ FillLearned
  BY <1>4, CopyStep
<1>5. CASE RemoveDraft
  BY <1>5, RemoveStep
<1>6. CASE ForgetLearned \/ ForgetDraft
  BY <1>6, ForgetStep
<1>7. CASE SkillRestart
  BY <1>7, RestartStep
<1> QED
  BY <1>1, <1>2, <1>3, <1>4, <1>5, <1>6, <1>7 DEF SkillNext

(* The inductive invariant holds throughout: every variable has its type,  *)
(* and an approval copies what is owed (SkillStore::approve).              *)
THEOREM SkillInvariance == SkillSpec => []SkillInv
BY InitInv, StepInv, PTL DEF SkillSpec

(* A draft that was reported saved is on approval or active, wherever an   *)
(* approval is interrupted, for any number of jobs that draft beside it.   *)
THEOREM DraftsAreKept == SkillSpec => []DraftKept
<1>1. SkillInv => DraftKept
  BY DEF SkillInv
<1> QED
  BY <1>1, SkillInvariance, PTL
=============================================================================

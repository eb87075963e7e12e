------------------------------- MODULE Stores -------------------------------
(***************************************************************************)
(* Three small files that outlive the process, and their copies in it.     *)
(*                                                                         *)
(* room_profiles.json: the /model overrides. Commands run one at a time in *)
(* the sync loop; a reload of the configuration may change the copy at any *)
(* time, and does not write the file.                                      *)
(* room_workdirs.json: the working directories, set by a tool, from any    *)
(* number of jobs at once.                                                 *)
(* known_rooms.json: the rooms with a history, recorded before each append *)
(* to one, from any number of jobs at once. It has no copy.                *)
(*                                                                         *)
(* All are written with fs::write: opened, which empties the file, and     *)
(* then written. A write does not fail; the process may die at any step.   *)
(***************************************************************************)
EXTENDS Integers

CONSTANTS
  Rooms,
  Choosers,     (* BOUND: the rooms in which /model is used                *)
  Profiles, Chat,
  Dirs,         (* the known projects' directories                         *)
  None,         (* no override, no directory                               *)
  Jobs          (* the tasks that append and call tools                    *)

ASSUME ChooserAssumption == Choosers \subseteq Rooms
ASSUME ChatAssumption == Chat \in Profiles
ASSUME NoneAssumption == None \notin Profiles \cup Dirs

VARIABLES
  config,       (* the profiles that build from the owner's files          *)
  llms,         (* the profiles that are built                             *)
  fresh,        (* what a reload has built and not yet installed, or {}    *)
  overrides,    (* ReloadableState.room_profiles                           *)
  overrideFile,
  command,      (* the /model command being handled                        *)
  chosen,       (* history: what the room's last finished command asked for*)
  dirs,         (* RoomWorkdirStore.map                                    *)
  dirFile,
  roomFile,
  job,          (* what each job is doing to the files                     *)
  clashed,      (* history: the last set began while another was going on  *)
  safe          (* history: rooms recorded with no other record going on   *)

modelVars == <<config, llms, fresh, overrides, overrideFile, command, chosen>>
jobVars   == <<dirs, dirFile, roomFile, job, clashed, safe>>
vars      == <<modelVars, jobVars>>

Overrides == [Rooms -> Profiles \cup {None}]
Workdirs  == [Rooms -> Dirs \cup {None}]
Unset     == [r \in Rooms |-> None]

-----------------------------------------------------------------------------
(* Files. What cannot be read is taken for nothing.                        *)

FileOf(S) == [text : {"empty", "whole", "garbled"}, holds : S]

Whole(x)   == [text |-> "whole",   holds |-> x]
Emptied(x) == [text |-> "empty",   holds |-> x]
Garbled(x) == [text |-> "garbled", holds |-> x]

(* What a file may be after x is written from its start: if someone else   *)
(* has written since it was emptied and wrote more, a tail of that stays.  *)
Written(f, x, nothing) ==
  {Whole(x)} \cup (IF f.text = "empty" THEN {} ELSE {Garbled(nothing)})

Commands ==
  [pc : {"idle", "open", "write"}, room : Rooms \cup {None},
   choice : Profiles \cup {None}, map : Overrides]

NoCommand == [pc |-> "idle", room |-> None, choice |-> None, map |-> Unset]

JobType ==
  [pc : {"idle", "open_dirs", "write_dirs", "open_rooms", "write_rooms"},
   map : Workdirs, room : Rooms \cup {None}, rooms : SUBSET Rooms, alone : BOOLEAN]

Elsewhere == [pc |-> "idle", map |-> Unset, room |-> None, rooms |-> {}, alone |-> FALSE]

(* handler.rs relies on it: "chat client always present".                  *)
WithChat == {c \in SUBSET Profiles : Chat \in c}

TypeOK ==
  /\ config       \in SUBSET Profiles
  /\ llms         \in WithChat
  /\ fresh        \in WithChat \cup {{}}
  /\ overrides    \in Overrides
  /\ overrideFile \in FileOf(Overrides)
  /\ command      \in Commands
  /\ chosen       \in Overrides
  /\ dirs         \in Workdirs
  /\ dirFile      \in FileOf(Workdirs)
  /\ roomFile     \in FileOf(SUBSET Rooms)
  /\ job          \in [Jobs -> JobType]
  /\ clashed      \in BOOLEAN
  /\ safe         \in SUBSET Rooms

Init ==
  /\ config       = Profiles
  /\ llms         = Profiles
  /\ fresh        = {}
  /\ overrides    = Unset
  /\ overrideFile = Emptied(Unset)
  /\ chosen       = Unset
  /\ dirs         = Unset
  /\ dirFile      = Emptied(Unset)
  /\ roomFile     = Emptied({})
  /\ clashed      = FALSE
  /\ safe         = {}
  /\ command      = NoCommand
  /\ job          = [j \in Jobs |-> Elsewhere]

-----------------------------------------------------------------------------
(* The configuration: reload_on_sighup.                                    *)

(* The owner edits the profiles and backends.                              *)
EditConfig ==
  /\ config' \in SUBSET Profiles
  /\ UNCHANGED <<llms, fresh, overrides, overrideFile, command, chosen, jobVars>>

(* A reload reads the files and builds what builds; without chat it gives  *)
(* up and all stays as it was.                                             *)
Build ==
  /\ fresh = {} /\ Chat \in config
  /\ fresh' = config
  /\ UNCHANGED <<config, llms, overrides, overrideFile, command, chosen, jobVars>>

(* The overrides that still build.                                         *)
Retained(m, built) == [r \in Rooms |-> IF m[r] \in built THEN m[r] ELSE None]

(* Slip: overrides of profiles that are gone are kept.                     *)
InstallOnly ==
  /\ fresh # {}
  /\ llms'      = fresh
  /\ fresh'     = {}
  /\ UNCHANGED <<config, overrides, overrideFile, command, chosen, jobVars>>

(* Under the write lock: the new profiles, and the overrides that name one *)
(* of them.                                                                *)
Install ==
  /\ fresh # {}
  /\ llms'      = fresh
  /\ overrides' = Retained(overrides, fresh)
  /\ fresh'     = {}
  /\ UNCHANGED <<config, overrideFile, command, chosen, jobVars>>

-----------------------------------------------------------------------------
(* /model: handle_model_command.                                           *)

(* Slip: what is saved is the map before the change.                       *)
ChooseStale(r, p) ==
  /\ command.pc = "idle" /\ p \in llms \cup {None}
  /\ overrides' = [overrides EXCEPT ![r] = p]
  /\ command'   = [pc |-> "open", room |-> r, choice |-> p, map |-> overrides]
  /\ UNCHANGED <<config, llms, fresh, overrideFile, chosen, jobVars>>

(* Slip: a reset is not saved, there is nothing to name.                   *)
ChooseQuietReset(r, p) ==
  /\ command.pc = "idle" /\ p \in llms \cup {None}
  /\ overrides' = [overrides EXCEPT ![r] = p]
  /\ IF p = None
       THEN /\ chosen'  = [chosen EXCEPT ![r] = None]
            /\ UNCHANGED command
       ELSE /\ command' = [pc |-> "open", room |-> r, choice |-> p,
                           map |-> overrides']
            /\ UNCHANGED chosen
  /\ UNCHANGED <<config, llms, fresh, overrideFile, jobVars>>

(* Under the write lock: a profile that is built, or none (a reset); the   *)
(* map as it is now is what will be saved.                                 *)
Choose(r, p) ==
  /\ command.pc = "idle" /\ p \in llms \cup {None}
  /\ overrides' = [overrides EXCEPT ![r] = p]
  /\ command'   = [pc |-> "open", room |-> r, choice |-> p, map |-> overrides']
  /\ UNCHANGED <<config, llms, fresh, overrideFile, chosen, jobVars>>

OpenOverrides ==
  /\ command.pc = "open"
  /\ command'      = [command EXCEPT !.pc = "write"]
  /\ overrideFile' = Emptied(Unset)
  /\ UNCHANGED <<config, llms, fresh, overrides, chosen, jobVars>>

(* The map is on disk, and the room is told.                               *)
WriteOverrides ==
  /\ command.pc = "write"
  /\ command'      = NoCommand
  /\ overrideFile' = Whole(command.map)
  /\ chosen'       = [chosen EXCEPT ![command.room] = command.choice]
  /\ UNCHANGED <<config, llms, fresh, overrides, jobVars>>

-----------------------------------------------------------------------------
(* set_workdir: RoomWorkdirStore::set.                                     *)

Setting   == {j \in Jobs : job[j].pc \in {"open_dirs", "write_dirs"}}
Recording == {j \in Jobs : job[j].pc \in {"open_rooms", "write_rooms"}}

(* Slip: the map is copied before the change.                              *)
SetDirStale(j, r, d) ==
  /\ job[j].pc = "idle"
  /\ dirs'    = [dirs EXCEPT ![r] = d]
  /\ job'     = [job EXCEPT ![j].pc = "open_dirs", ![j].map = dirs]
  /\ clashed' = (Setting # {})
  /\ UNCHANGED <<modelVars, dirFile, roomFile, safe>>

(* Under the lock: the change, and a copy of the map to be saved.          *)
SetDir(j, r, d) ==
  /\ job[j].pc = "idle"
  /\ dirs'    = [dirs EXCEPT ![r] = d]
  /\ job'     = [job EXCEPT ![j].pc = "open_dirs", ![j].map = dirs']
  /\ clashed' = (Setting # {})
  /\ UNCHANGED <<modelVars, dirFile, roomFile, safe>>

OpenDirs(j) ==
  /\ job[j].pc = "open_dirs"
  /\ job'     = [job EXCEPT ![j].pc = "write_dirs"]
  /\ dirFile' = Emptied(Unset)
  /\ UNCHANGED <<modelVars, dirs, roomFile, clashed, safe>>

WriteDirs(j) ==
  /\ job[j].pc = "write_dirs"
  /\ job'     = [job EXCEPT ![j] = Elsewhere]
  /\ dirFile' \in Written(dirFile, job[j].map, Unset)
  /\ UNCHANGED <<modelVars, dirs, roomFile, clashed, safe>>

-----------------------------------------------------------------------------
(* HistoryStore::record_room, at the beginning of each append.             *)

(* Slip: what is known is not read first.                                  *)
RecordRoomUnread(j, r) ==
  /\ job[j].pc = "idle" /\ r \notin roomFile.holds
  /\ job' = [i \in Jobs |->
               CASE i = j -> [job[j] EXCEPT !.pc = "open_rooms", !.room = r,
                                            !.rooms = {r},
                                            !.alone = (Recording = {})]
                 [] i \in Recording -> [job[i] EXCEPT !.alone = FALSE]
                 [] OTHER -> job[i]]
  /\ safe' = IF Recording = {} THEN safe ELSE {}
  /\ UNCHANGED <<modelVars, dirs, dirFile, roomFile, clashed>>

(* A room that is not in the list: the list with it is to be written.      *)
RecordRoom(j, r) ==
  /\ job[j].pc = "idle" /\ r \notin roomFile.holds
  /\ job' = [i \in Jobs |->
               CASE i = j -> [job[j] EXCEPT !.pc = "open_rooms", !.room = r,
                                            !.rooms = roomFile.holds \cup {r},
                                            !.alone = (Recording = {})]
                 [] i \in Recording -> [job[i] EXCEPT !.alone = FALSE]
                 [] OTHER -> job[i]]
  /\ safe' = IF Recording = {} THEN safe ELSE {}
  /\ UNCHANGED <<modelVars, dirs, dirFile, roomFile, clashed>>

(* A room that is in the list.                                             *)
AlreadyKnown(j, r) ==
  /\ job[j].pc = "idle" /\ r \in roomFile.holds
  /\ safe' = IF Recording = {} THEN safe \cup {r} ELSE safe
  /\ UNCHANGED <<modelVars, dirs, dirFile, roomFile, job, clashed>>

OpenRooms(j) ==
  /\ job[j].pc = "open_rooms"
  /\ job'      = [job EXCEPT ![j].pc = "write_rooms"]
  /\ roomFile' = Emptied({})
  /\ UNCHANGED <<modelVars, dirs, dirFile, clashed, safe>>

WriteRooms(j) ==
  /\ job[j].pc = "write_rooms"
  /\ job'      = [job EXCEPT ![j] = Elsewhere]
  /\ roomFile' \in Written(roomFile, job[j].rooms, {})
  /\ safe'     = IF job[j].alone THEN safe \cup {job[j].room} ELSE safe
  /\ UNCHANGED <<modelVars, dirs, dirFile, clashed>>

-----------------------------------------------------------------------------
(* The process dies and starts again: main. Without chat it does not.      *)
Restart ==
  /\ Chat \in config
  /\ llms'      = config
  /\ fresh'     = {}
  /\ overrides' = Retained(overrideFile.holds, config)
  /\ command'   = NoCommand
  /\ dirs'      = dirFile.holds
  /\ job'       = [j \in Jobs |-> Elsewhere]
  /\ clashed'   = FALSE
  /\ safe'      = IF Recording = {} THEN safe ELSE {}
  /\ UNCHANGED <<config, overrideFile, chosen, dirFile, roomFile>>

Next ==
  \/ EditConfig \/ Build \/ Install
  \/ \E r \in Choosers, p \in Profiles \cup {None} : Choose(r, p)
  \/ OpenOverrides \/ WriteOverrides
  \/ \E j \in Jobs :
       \/ \E r \in Rooms :
            \/ \E d \in Dirs : SetDir(j, r, d)
            \/ RecordRoom(j, r) \/ AlreadyKnown(j, r)
       \/ OpenDirs(j) \/ WriteDirs(j) \/ OpenRooms(j) \/ WriteRooms(j)
  \/ Restart

Spec == Init /\ [][Next]_vars

-----------------------------------------------------------------------------
(* Properties.                                                             *)

(* An override names a profile that is built, whatever a reload has taken  *)
(* away while the command was on its way.                                  *)
OverridesBuild == \A r \in Rooms : overrides[r] \in llms \cup {None}

(* A room has the profile it chose last or none: no reload, restart or     *)
(* delayed write brings an older choice back.                              *)
NoOldChoice ==
  command.pc = "idle" => \A r \in Rooms : overrides[r] \in {chosen[r], None}

(* Between commands every override is on disk: a restart keeps it.         *)
OverridesSaved ==
  command.pc = "idle" =>
    \A r \in Rooms : overrides[r] # None => overrideFile.holds[r] = overrides[r]

(* A set that no other set overlaps leaves file and memory equal, and so   *)
(* repairs what overlapping sets and crashes have done to the file.        *)
DirsSaved == Setting = {} /\ ~clashed => dirFile.holds = dirs

(* A room recorded while no other was stays in the list until two records  *)
(* overlap or the process dies in one.                                     *)
KnownKept ==
  (\A j \in Jobs : job[j].pc # "write_rooms") => safe \subseteq roomFile.holds
=============================================================================

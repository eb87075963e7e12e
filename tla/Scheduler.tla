------------------------------ MODULE Scheduler ------------------------------
(***************************************************************************)
(* The clockwork of the two scheduled loops. A loop computes how long it   *)
(* is to its hour from the wall clock, sleeps that long by the machine's   *)
(* own clock, works, rests for an hour, and computes again. The wall clock *)
(* may be set meanwhile, and the process may stop and start.               *)
(*                                                                         *)
(* The two loops share nothing but the clocks: a behaviour follows one of  *)
(* them. Time is counted in units of which `Hour` make an hour, from       *)
(* midnight of a Thursday, as in UNIX time. What the work writes is in     *)
(* module Conversation; the specification is ClockSpec, from ClockInit and *)
(* ClockNext, so that a module may extend both.                            *)
(***************************************************************************)
EXTENDS Integers

CONSTANTS
  Hour,      (* units of time in an hour                                   *)
  Hours,     (* settings: hours, which nothing keeps below 24              *)
  Weekdays,  (* settings: days of the week from Sunday, 0; or beyond 6     *)
  Steps,     (* by how much the wall clock may be set                      *)
  MaxSets,   (* BOUND on how often it is set                               *)
  MaxTime    (* BOUND on the wall clock                                    *)

ASSUME TimeAssumption ==
  /\ Hour \in Nat \ {0} /\ MaxTime \in Nat /\ MaxSets \in Nat
  /\ Hours \subseteq Nat /\ Weekdays \subseteq Nat /\ Steps \subseteq Nat \ {0}

Day  == 24 * Hour
Week == 7 * Day

VARIABLES
  setting,   (* which loop, its hour and its day; read once, at the start  *)
  wall,      (* the wall clock                                             *)
  at,        (* "off", "asleep", "working" or "resting"                    *)
  left,      (* what is left of a sleep or rest, by the machine's clock    *)
  sets,      (* how often the wall clock was set                           *)
  (* history *)
  astray,    (* the clock was set during this sleep                        *)
  last,      (* when work was begun last, by the wall clock                *)
  back,      (* by how much the clock was set back since                   *)
  restarted  (* the process was restarted since                            *)

clockVars == <<setting, wall, at, left, sets, astray, last, back, restarted>>

Never == -1

-----------------------------------------------------------------------------
(* secs_until_hour                                                         *)
UntilHour(now, hour) ==
  LET trigger == (now \div Day) * Day + (hour % 24) * Hour
  IN  IF trigger > now THEN trigger - now ELSE trigger + Day - now

(* Slip: an hour of today that has passed comes again tomorrow.            *)
UntilNextDay(now, weekday, hour) ==
  LET epochDay == now \div Day
      today    == (epochDay + 4) % 7
      ahead    == IF weekday >= today THEN weekday - today ELSE 7 - today + weekday
      trigger  == (epochDay + ahead) * Day + (hour % 24) * Hour
  IN  IF trigger <= now THEN trigger + Day - now ELSE trigger - now

(* secs_until_weekday_hour                                                 *)
UntilWeekdayHour(now, weekday, hour) ==
  LET epochDay == now \div Day
      today    == (epochDay + 4) % 7
      ahead    == IF weekday >= today THEN weekday - today ELSE 7 - today + weekday
      trigger  == (epochDay + ahead) * Day + (hour % 24) * Hour
  IN  IF trigger <= now THEN trigger + Week - now ELSE trigger - now

(* run_scheduler takes the day modulo 7, the hour is reduced above.        *)
Until(now) ==
  IF setting.loop = "nightly"
    THEN UntilHour(now, setting.hour)
    ELSE UntilWeekdayHour(now, setting.day % 7, setting.hour)

-----------------------------------------------------------------------------
Settings == [loop : {"nightly"}, day : {0}, hour : Hours] \cup
            [loop : {"weekly"}, day : Weekdays, hour : Hours]

LoopPhases == {"off", "asleep", "working", "resting"}

ClockTypeOK ==
  /\ setting   \in Settings
  /\ wall      \in Nat
  /\ at        \in LoopPhases
  /\ left      \in Nat
  /\ sets      \in 0 .. MaxSets
  /\ astray    \in BOOLEAN
  /\ last      \in Nat \cup {Never}
  /\ back      \in Nat
  /\ restarted \in BOOLEAN

ClockInit ==
  /\ setting   \in Settings
  /\ wall      \in 0 .. Week - 1
  /\ at        = "off"
  /\ left      = 0
  /\ sets      = 0
  /\ astray    = FALSE
  /\ last      = Never
  /\ back      = 0
  /\ restarted = FALSE

(* The top of the loop.                                                    *)
LieDown ==
  /\ at'     = "asleep"
  /\ left'   = Until(wall)
  /\ astray' = FALSE

StartProcess ==
  /\ at = "off"
  /\ LieDown
  /\ UNCHANGED <<setting, wall, sets, last, back, restarted>>

StopProcess ==
  /\ at # "off"
  /\ at'        = "off"
  /\ left'      = 0
  /\ astray'    = FALSE
  /\ restarted' = TRUE
  /\ UNCHANGED <<setting, wall, sets, last, back>>

(* A timer that is due fires before time goes on.                          *)
Due == at \in {"asleep", "resting"} /\ left = 0

Tick ==
  /\ ~Due /\ wall < MaxTime
  /\ wall' = wall + 1
  /\ left' = IF at \in {"asleep", "resting"} THEN left - 1 ELSE left
  /\ UNCHANGED <<setting, at, sets, astray, last, back, restarted>>

(* The owner, or NTP, sets the wall clock. Sleeps do not notice.           *)
SetClock(new) ==
  /\ sets < MaxSets
  /\ sets'   = sets + 1
  /\ wall'   = new
  /\ astray' = (at = "asleep")
  /\ back'   = IF new < wall THEN back + (wall - new) ELSE back
  /\ UNCHANGED <<setting, at, left, last, restarted>>

(* run_nightly_compaction, run_weekly_digest: until they return.           *)
Work ==
  /\ at = "asleep" /\ Due
  /\ at'        = "working"
  /\ astray'    = FALSE
  /\ last'      = wall
  /\ back'      = 0
  /\ restarted' = FALSE
  /\ UNCHANGED <<setting, wall, left, sets>>

(* Slip: there is no rest.                                                 *)
GoOn ==
  /\ at = "working"
  /\ LieDown
  /\ UNCHANGED <<setting, wall, sets, last, back, restarted>>

(* No profile to ask, nothing to tell of, a failure or a file written: the *)
(* work is over, however long it took. Then an hour's rest.                *)
EndWork ==
  /\ at = "working"
  /\ at'   = "resting"
  /\ left' = Hour
  /\ UNCHANGED <<setting, wall, sets, astray, last, back, restarted>>

Rested ==
  /\ at = "resting" /\ Due
  /\ LieDown
  /\ UNCHANGED <<setting, wall, sets, last, back, restarted>>

ClockNext ==
  \/ StartProcess \/ StopProcess \/ Tick
  \/ \E s \in Steps : SetClock(wall + s) \/ (s <= wall /\ SetClock(wall - s))
  \/ Work \/ EndWork \/ Rested

ClockSpec == ClockInit /\ [][ClockNext]_clockVars

-----------------------------------------------------------------------------
(* Properties.                                                             *)

(* The hours of a loop, told another way: the fourth day was a Sunday.     *)
Strikes(t) ==
  /\ t % Day = (setting.hour % 24) * Hour
  /\ setting.loop = "weekly" => (t \div Day - 3) % 7 = setting.day % 7

(* A loop sleeps to its next hour: it passes over none and wakes at one,   *)
(* whenever it lay down and whatever the settings, unless the wall clock   *)
(* is set during that very sleep. Of hours that strike while it works or   *)
(* rests nothing is promised.                                              *)
SleepsToNext ==
  at = "asleep" /\ ~astray =>
    /\ Strikes(wall + left)
    /\ \A t \in wall + 1 .. wall + left - 1 : ~Strikes(t)

(* The work of an hour is not done twice: a loop begins at a later time    *)
(* than the last, unless the clock was set back since by more than the     *)
(* rest, or the process, which forgets the rest, was restarted as well.    *)
OncePerHour ==
  [][at = "asleep" /\ at' = "working" =>
       last < wall \/ back > IF restarted THEN 0 ELSE Hour]_clockVars
=============================================================================

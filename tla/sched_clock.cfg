\* One setting of the clock by less or more than the rest, and any number of restarts.
SPECIFICATION ClockSpec
CONSTANTS
  Hour = 2
  Hours = {0, 5, 47}
  Weekdays = {0, 3, 13}
  Steps = {1, 3}
  MaxSets = 1
  MaxTime = 800
INVARIANT SleepsToNext
PROPERTY OncePerHour

\* the digits of the SSOV timestamp: expected violation. An hour has two
\* minutes of two seconds of four microseconds; HourUnit goes into IntMod as
\* often as 10^9 into 2^32, 4.29 times.
SPECIFICATION Spec
CONSTANTS
  UsecPerSec = 4
  SecPerMin = 2
  MinPerHour = 2
  LastUsec = 95
  UsecDivisor = 2
  SecUnit = 10
  MinUnit = 100
  HourUnit = 1000
  DayUnit = 10000
  Date = 7
  IntMod = 4295
INVARIANTS
  StampShowsTime

---------------------------- MODULE SsovTimestamp ----------------------------
(***************************************************************************)
(* The timestamp build_ssov_header puts into every SSOV message:           *)
(* convert_timestamp_format reads the clock twice, first for the           *)
(* microseconds, then for the time of day, and adds up the digits of a     *)
(* decimal number. The hours are multiplied as ints.                       *)
(*                                                                         *)
(* TLC's numbers are as wide as the code's int, so the units are scaled    *)
(* down together: what counts is how many times HourUnit goes into IntMod. *)
(***************************************************************************)
EXTENDS Integers

CONSTANTS UsecPerSec, SecPerMin, MinPerHour,
          LastUsec,     \* bound: the clock goes from 0 to here
          UsecDivisor,  \* 100
          SecUnit, MinUnit, HourUnit, DayUnit,  \* 10^5, 10^7, 10^9, 10^11
          Date,         \* the digits of year, month and day
          IntMod        \* 2^32

VARIABLES wraps,  \* what the build makes of an overflow, see HourTerm
          now,    \* the wall clock
          pc,     \* where convert_timestamp_format is
          usec,   \* its microseconds, from get_epoch_time_usec
          tm,     \* its time of day in seconds, from get_tm
          stamp,  \* what it returned last
          shown   \* history: the seconds of the clock during that call

vars == <<wraps, now, pc, usec, tm, stamp, shown>>

Second(t) == t \div UsecPerSec

Hour(s) == s \div (SecPerMin * MinPerHour)
Minute(s) == (s \div SecPerMin) % MinPerHour
Sec(s) == s % SecPerMin

(* The number an int holds after n was stored in it.                       *)
Wrapped(n) == IF n % IntMod < IntMod \div 2 THEN n % IntMod
                                            ELSE (n % IntMod) - IntMod

(* tm.tm_hour * 1000000000. Both factors are ints, and 3000000000 is none: *)
(* the behaviour is undefined. Compiled as the Makefile says (-O0) the     *)
(* product wraps; optimised, it is computed in 64 bits.                    *)
HourTerm(s) == IF wraps THEN Wrapped(Hour(s) * HourUnit) ELSE Hour(s) * HourUnit

Stamp == Date * DayUnit + HourTerm(tm) + Minute(tm) * MinUnit
         + Sec(tm) * SecUnit + usec \div UsecDivisor

Init ==
  /\ wraps \in BOOLEAN
  /\ now = 0
  /\ pc = "idle"
  /\ usec = 0 /\ tm = 0 /\ stamp = 0
  /\ shown = {}

Tick ==
  /\ now < LastUsec
  /\ now' = now + 1
  /\ UNCHANGED <<wraps, pc, usec, tm, stamp, shown>>

ReadUsec ==
  /\ pc = "idle" /\ pc' = "tm"
  /\ usec' = now % UsecPerSec
  /\ shown' = {Second(now)}
  /\ UNCHANGED <<wraps, now, tm, stamp>>

ReadTm ==
  /\ pc = "tm" /\ pc' = "sum"
  /\ tm' = Second(now)
  /\ shown' = shown \cup {Second(now)}
  /\ UNCHANGED <<wraps, now, usec, stamp>>

Sum ==
  /\ pc = "sum" /\ pc' = "idle"
  /\ stamp' = Stamp
  /\ UNCHANGED <<wraps, now, usec, tm, shown>>

Next == Tick \/ ReadUsec \/ ReadTm \/ Sum

Spec == Init /\ [][Next]_vars

-----------------------------------------------------------------------------
(* The time of day the digits of a timestamp stand for.                    *)
TimeOf(n) ==
  SecPerMin * MinPerHour * ((n % DayUnit) \div HourUnit)
  + SecPerMin * ((n % HourUnit) \div MinUnit)
  + (n % MinUnit) \div SecUnit

(* "//2025 08 18 14 22 24 00000" (platooning_service.cpp:331): the digits  *)
(* are year, month, day, hour, minute, second and fraction. A timestamp    *)
(* shows a time of day at which the call read the clock.                   *)
StampShowsTime == pc = "idle" /\ stamp # 0 => TimeOf(stamp) \in shown

=============================================================================

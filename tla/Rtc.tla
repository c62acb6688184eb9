-------------------------------- MODULE Rtc --------------------------------
(***************************************************************************)
(* Reading the CMOS clock (arch/i386/time.c): read_rtc waits until no      *)
(* update is in progress, reads the registers one by one, does both again, *)
(* compares, and converts what it read.  The clock ticks in between.       *)
(*                                                                         *)
(* Seconds, minutes and hours stand for all the registers; day, month and  *)
(* year are read and converted like the minutes.                           *)
(***************************************************************************)
EXTENDS Integers

(* The seconds of a day. *)
Day == 86400

CONSTANTS
  Starts,     \* times of day, in seconds, at which the system is started
  Modes,      \* settings of status register B
  MaxTicks    \* bound: ticks of the clock

ASSUME RtcAssumption ==
  /\ Starts \subseteq 0..(Day - 1)
  /\ Modes \subseteq [binary : BOOLEAN, h24 : BOOLEAN]
  /\ MaxTicks \in Nat

VARIABLES
  t,          \* the time of day the clock keeps
  ticks,      \* ticks so far
  uip,        \* its update-in-progress flag
  registerB,  \* its mode: binary or BCD, 24 or 12 hours
  pc,         \* where read_rtc is
  second, minute, hour,  \* the variables it reads into
  last,       \* last_second, last_minute, last_hour
  since       \* ticks when the call of read_rtc began

clock == <<t, ticks, uip, registerB>>
vars == <<t, ticks, uip, registerB, pc, second, minute, hour, last, since>>

-----------------------------------------------------------------------------
(* The clock.                                                              *)

Bcd(n) == 16 * (n \div 10) + (n % 10)

(* 12, 1, 2 ... 11 and bit 7 in the afternoon *)
Hours12(h) == IF h % 12 = 0 THEN 12 ELSE h % 12

Register(n, mode) == IF mode.binary THEN n ELSE Bcd(n)
SecondOf(s) == s % 60
MinuteOf(s) == (s \div 60) % 60
HourOf(s)   == s \div 3600

HourRegister(h, mode) ==
  IF mode.h24 THEN Register(h, mode)
  ELSE Register(Hours12(h), mode) + (IF h >= 12 THEN 128 ELSE 0)

(* The flag goes up before the registers change and down when they have. *)
UpdateBegins ==
  /\ ticks < MaxTicks /\ ~uip
  /\ uip' = TRUE
  /\ UNCHANGED <<t, ticks, registerB, pc, second, minute, hour, last, since>>

Update ==
  /\ uip
  /\ uip' = FALSE
  /\ t' = (t + 1) % Day /\ ticks' = ticks + 1
  /\ UNCHANGED <<registerB, pc, second, minute, hour, last, since>>

-----------------------------------------------------------------------------
(* read_rtc                                                                *)

Idle == pc = "idle"

Init ==
  /\ t \in Starts /\ ticks = 0 /\ uip = FALSE /\ registerB \in Modes
  /\ pc = "idle" /\ second = 0 /\ minute = 0 /\ hour = 0
  /\ last = <<0, 0, 0>> /\ since = 0

time_get ==
  /\ Idle
  /\ pc' = "wait1" /\ since' = ticks
  /\ UNCHANGED <<clock, second, minute, hour, last>>

(* Mutant of WaitNoUpdate: the flag is tested the wrong way round. *)
WaitNoUpdate_inverted(from, to) ==
  /\ pc = from /\ uip
  /\ pc' = to
  /\ UNCHANGED <<clock, second, minute, hour, last, since>>

WaitNoUpdate(from, to) ==
  /\ pc = from /\ ~uip
  /\ pc' = to
  /\ UNCHANGED <<clock, second, minute, hour, last, since>>

ReadSecond(from, to) ==
  /\ pc = from
  /\ pc' = to
  /\ second' = Register(SecondOf(t), registerB)
  /\ UNCHANGED <<clock, minute, hour, last, since>>

ReadMinute(from, to) ==
  /\ pc = from
  /\ pc' = to
  /\ minute' = Register(MinuteOf(t), registerB)
  /\ UNCHANGED <<clock, second, hour, last, since>>

ReadHour(from, to) ==
  /\ pc = from
  /\ pc' = to
  /\ hour' = HourRegister(HourOf(t), registerB)
  /\ UNCHANGED <<clock, second, minute, last, since>>

KeepLast ==
  /\ pc = "keep"
  /\ pc' = "wait2"
  /\ last' = <<second, minute, hour>>
  /\ UNCHANGED <<clock, second, minute, hour, since>>

(* Mutant of Same: the minutes are not compared. *)
Same_without_minutes == last[1] = second /\ last[3] = hour

Same == last = <<second, minute, hour>>

(* The values differ: the loop reads register B again and again, nothing else. *)
ReadRegisterB ==
  /\ pc = "compare" /\ ~Same
  /\ UNCHANGED vars

(* Mutant of FromBcd: the upper digit is not shifted down. *)
FromBcd_no_shift(n) == ((n % 16) + n * 10) % 256

(* n & 0x0F + n / 16 * 10 *)
FromBcd(n) == (n % 16) + (n \div 16) * 10

(* Mutant of HourFromBcd: the bit for the afternoon gets into the digits. *)
HourFromBcd_all_bits(h) == FromBcd(h)

(* The same for the hour, whose bit 7 is kept apart. *)
HourFromBcd(h) == FromBcd(h % 128) + (h \div 128) * 128

To24(h) == ((h % 128) + 12) % 24

(* What read_rtc makes of its variables when it finds register B to be b. *)
Converted(b) ==
  LET sec  == IF b.binary THEN second ELSE FromBcd(second)
      min  == IF b.binary THEN minute ELSE FromBcd(minute)
      hour1 == IF b.binary THEN hour ELSE HourFromBcd(hour)
  IN  <<sec, min, IF ~b.h24 /\ hour1 >= 128 THEN To24(hour1) ELSE hour1>>

(* The values agree: the loop was not entered and registerB was never assigned,
   so that its two bits are anything. *)
Convert ==
  /\ pc = "compare" /\ Same
  /\ \E b \in [binary : BOOLEAN, h24 : BOOLEAN] :
       /\ second' = Converted(b)[1]
       /\ minute' = Converted(b)[2]
       /\ hour'   = Converted(b)[3]
  /\ pc' = "return"
  /\ UNCHANGED <<clock, last, since>>

Return ==
  /\ pc = "return"
  /\ pc' = "idle"
  /\ UNCHANGED <<clock, second, minute, hour, last, since>>

Reader ==
  \/ WaitNoUpdate("wait1", "second1") \/ ReadSecond("second1", "minute1")
  \/ ReadMinute("minute1", "hour1") \/ ReadHour("hour1", "keep") \/ KeepLast
  \/ WaitNoUpdate("wait2", "second2") \/ ReadSecond("second2", "minute2")
  \/ ReadMinute("minute2", "hour2") \/ ReadHour("hour2", "compare")
  \/ ReadRegisterB \/ Convert \/ Return

Next == time_get \/ Reader \/ UpdateBegins \/ Update

Spec == Init /\ [][Next]_vars

(* read_rtc runs on, and an update that has begun ends. *)
FairSpec == Spec /\ WF_vars(Reader) /\ WF_vars(Update)

-----------------------------------------------------------------------------
(* Properties.                                                             *)

(* The times the clock showed since the call began. *)
Shown == {(t - d) % Day : d \in 0..(ticks - since)}

(* The call has lasted less than an hour: 59 minutes at most, after which the
   minutes can come round to the value of the first reading. *)
Brief == ticks - since <= 3540

(* The kinds of values the variables hold.  The bounds are what the registers can
   hold and the conversion can make of it: BCD 59 is 89; the hour may keep bit 7
   when registerB is taken for that of a 24-hour clock. *)
TypeOK ==
  /\ t \in 0..(Day - 1) /\ ticks \in 0..MaxTicks /\ uip \in BOOLEAN
  /\ registerB \in Modes
  /\ second \in 0..89 /\ minute \in 0..89 /\ hour \in 0..146
  /\ since \in 0..ticks

(* Whatever ticks fall between the reads of the registers, the values read_rtc
   goes on with are those of one moment of the call, when it is brief. *)
Consistent ==
  pc = "compare" /\ Same /\ Brief =>
    \E s \in Shown :
      /\ second = Register(SecondOf(s), registerB)
      /\ minute = Register(MinuteOf(s), registerB)
      /\ hour = HourRegister(HourOf(s), registerB)

(* If registerB held the mode of the clock, the conversion would give the time
   of one moment of a brief call, except for the hours 0 and 12 of a 12-hour clock. *)
ConversionRight ==
  pc = "compare" /\ Same /\ Brief =>
    \E s \in Shown :
      /\ Converted(registerB)[1] = SecondOf(s)
      /\ Converted(registerB)[2] = MinuteOf(s)
      /\ registerB.h24 \/ HourOf(s) % 12 # 0 => Converted(registerB)[3] = HourOf(s)

(* A call that no tick falls into returns. *)
ReturnsUnlessTick == ~Idle ~> (Idle \/ ticks # since)

(* "read registers until you get the same values twice in a row": read_rtc
   returns once the clock lets it. *)
Returns == ~Idle ~> Idle
=============================================================================

----------------------------- MODULE RtcProofs -----------------------------
(***************************************************************************)
(* Rtc, for every start of the clock, every mode and any number of ticks   *)
(* at any points of read_rtc: what passes the comparison of the two        *)
(* readings is a time the clock showed during the call, and its conversion *)
(* with the right mode is that time.                                       *)
(*                                                                         *)
(* The invariant remembers how long ago each register was read.  When the  *)
(* minutes of the two readings agree, less than an hour apart, they were   *)
(* the same minute all the time in between, and so were the hours: all     *)
(* three registers are those of the moment the seconds were read the       *)
(* second time.                                                            *)
(***************************************************************************)
EXTENDS Rtc, TLAPS

(* The time the clock showed d ticks ago. *)
Ago(d) == (t - d) % Day

SecondAgo(d) == Register(SecondOf(Ago(d)), registerB)
MinuteAgo(d) == Register(MinuteOf(Ago(d)), registerB)
HourAgo(d)   == HourRegister(HourOf(Ago(d)), registerB)

(* The ticks since the first reading of the minutes and of the hours, and the
   second reading of seconds, minutes and hours. *)
Reads(min1, hour1, sec2, min2, hour2) ==
  /\ ticks - since >= min1 /\ min1 >= hour1 /\ hour1 >= sec2 /\ sec2 >= min2
  /\ min2 >= hour2 /\ hour2 >= 0
  /\ pc \in {"hour1", "keep", "wait2", "second2", "minute2"} => minute = MinuteAgo(min1)
  /\ pc \in {"keep", "wait2", "second2", "minute2", "hour2"} => hour = HourAgo(hour1)
  /\ pc \in {"wait2", "second2", "minute2", "hour2", "compare"} =>
       last[2] = MinuteAgo(min1) /\ last[3] = HourAgo(hour1)
  /\ pc \in {"minute2", "hour2", "compare"} => second = SecondAgo(sec2)
  /\ pc \in {"hour2", "compare"} => minute = MinuteAgo(min2)
  /\ pc = "compare" => hour = HourAgo(hour2)

Reading == \E a, b, c, d, e \in Nat : Reads(a, b, c, d, e)

Positions ==
  {"idle", "wait1", "second1", "minute1", "hour1", "keep", "wait2", "second2",
   "minute2", "hour2", "compare", "return"}

Typed ==
  /\ TypeOK /\ pc \in Positions
  /\ uip => ticks < MaxTicks

-----------------------------------------------------------------------------
(* What the registers show and what the conversion makes of it.            *)

(* The mode of the clock is one of four. *)
LEMMA ModeType ==
  ASSUME TypeOK
  PROVE  registerB.binary \in BOOLEAN /\ registerB.h24 \in BOOLEAN
<1>1. Modes \subseteq [binary : BOOLEAN, h24 : BOOLEAN]
  BY RtcAssumption
<1>2. registerB \in Modes
  BY DEF TypeOK
<1>3. registerB \in [binary : BOOLEAN, h24 : BOOLEAN]
  BY <1>1, <1>2
<1> QED  BY <1>3

(* BCD and back. *)
LEMMA BcdInverse ==
  ASSUME NEW n \in 0..59
  PROVE  /\ Bcd(n) \in 0..89 /\ FromBcd(Bcd(n)) = n
         /\ n <= 23 => Bcd(n) <= 35
  BY DEF Bcd, FromBcd

(* A register of seconds or minutes, and its conversion. *)
LEMMA RegisterInverse ==
  ASSUME NEW n \in 0..59, NEW mode, mode.binary \in BOOLEAN
  PROVE  /\ Register(n, mode) \in 0..89
         /\ (IF mode.binary THEN Register(n, mode) ELSE FromBcd(Register(n, mode))) = n
  BY BcdInverse DEF Register

(* What a register of seconds or minutes counts. *)
Sixty == 0..59

(* A register tells two values apart. *)
LEMMA RegisterInjective ==
  ASSUME NEW m \in Sixty, NEW n \in Sixty, NEW mode, mode.binary \in BOOLEAN,
         Register(m, mode) = Register(n, mode)
  PROVE  m = n
<1> DEFINE Value(r) == IF mode.binary THEN r ELSE FromBcd(r)
<1>1. \A k \in Sixty : Value(Register(k, mode)) = k
  BY RegisterInverse, SMTT(30) DEF Sixty
<1> HIDE DEF Value
<1>2. Value(Register(m, mode)) = m /\ Value(Register(n, mode)) = n
  BY <1>1
<1> QED BY <1>2

(* The hour: digits below bit 7. *)
LEMMA HourDigits ==
  ASSUME NEW n \in 0..23, NEW mode, mode.binary \in BOOLEAN
  PROVE  /\ Register(n, mode) \in 0..35
         /\ n <= 12 => Register(n, mode) \in 0..18
         /\ (IF mode.binary THEN Register(n, mode) ELSE HourFromBcd(Register(n, mode))) = n
         /\ (IF mode.binary THEN Register(n, mode) + 128
             ELSE HourFromBcd(Register(n, mode) + 128)) = n + 128
<1>1. Bcd(n) \in 0..35 /\ FromBcd(Bcd(n)) = n /\ (n <= 12 => Bcd(n) \in 0..18)
  BY DEF Bcd, FromBcd
<1>2. \A k \in 0..35 : k % 128 = k /\ k \div 128 = 0
                       /\ (k + 128) % 128 = k /\ (k + 128) \div 128 = 1
  OBVIOUS
<1>3. HourFromBcd(Bcd(n)) = n /\ HourFromBcd(Bcd(n) + 128) = n + 128
  BY <1>1, <1>2 DEF HourFromBcd
<1> QED  BY <1>1, <1>3 DEF Register

(* The hour register fits its variable. *)
LEMMA HourRegisterRange ==
  ASSUME NEW h \in 0..23, NEW mode, mode.binary \in BOOLEAN, mode.h24 \in BOOLEAN
  PROVE  HourRegister(h, mode) \in 0..146
<1>1. Hours12(h) \in 1..12
  BY DEF Hours12
<1>2. Register(h, mode) \in 0..35 /\ Register(Hours12(h), mode) \in 0..18
  BY <1>1, HourDigits
<1> QED  BY <1>2 DEF HourRegister

(* The hour register tells two hours apart. *)
LEMMA HourInjective ==
  ASSUME NEW g \in 0..23, NEW h \in 0..23, NEW mode,
         mode.binary \in BOOLEAN, mode.h24 \in BOOLEAN,
         HourRegister(g, mode) = HourRegister(h, mode)
  PROVE  g = h
<1>1. CASE mode.h24
  <2>1. g \in Sixty /\ h \in Sixty /\ Register(g, mode) = Register(h, mode)
    BY <1>1 DEF HourRegister, Sixty
  <2> QED  BY <2>1, RegisterInjective
<1>2. CASE ~mode.h24
  <2>1. Hours12(g) \in 1..12 /\ Hours12(h) \in 1..12
    BY DEF Hours12
  <2>2. Register(Hours12(g), mode) \in 0..18 /\ Register(Hours12(h), mode) \in 0..18
    BY <2>1, HourDigits
  <2>3. /\ Register(Hours12(g), mode) = Register(Hours12(h), mode)
        /\ (g >= 12) <=> (h >= 12)
    BY <1>2, <2>2 DEF HourRegister
  <2>4. Hours12(g) = Hours12(h)
    <3>1. Hours12(g) \in Sixty /\ Hours12(h) \in Sixty
      BY <2>1 DEF Sixty
    <3> DEFINE i == Hours12(g)
               j == Hours12(h)
    <3>2. i \in Sixty /\ j \in Sixty /\ Register(i, mode) = Register(j, mode)
      BY <2>3, <3>1
    <3> HIDE DEF i, j
    <3>3. i = j
      BY <3>2, RegisterInjective
    <3> QED  BY <3>3 DEF i, j
  <2> QED  BY <2>3, <2>4 DEF Hours12
<1> QED  BY <1>1, <1>2

(* With the clock's own mode the conversion gives the hour back, except for the
   hours 0 and 12 of a 12-hour clock. *)
LEMMA HourInverse ==
  ASSUME NEW h \in 0..23, NEW mode, mode.binary \in BOOLEAN, mode.h24 \in BOOLEAN,
         mode.h24 \/ h % 12 # 0
  PROVE  LET r == HourRegister(h, mode)
             k == IF mode.binary THEN r ELSE HourFromBcd(r)
         IN  (IF ~mode.h24 /\ k >= 128 THEN To24(k) ELSE k) = h
<1> DEFINE r == HourRegister(h, mode)
           k == IF mode.binary THEN r ELSE HourFromBcd(r)
<1>1. CASE mode.h24
  <2>1. k = h
    BY <1>1, HourDigits DEF HourRegister
  <2> QED  BY <1>1, <2>1
<1>2. CASE ~mode.h24 /\ h < 12
  <2>1. Hours12(h) = h
    BY <1>2 DEF Hours12
  <2>2. k = h
    BY <1>2, <2>1, HourDigits DEF HourRegister
  <2> QED  BY <1>2, <2>2
<1>3. CASE ~mode.h24 /\ h >= 12
  <2>1. Hours12(h) = h - 12 /\ h - 12 \in 0..23
    BY <1>3 DEF Hours12
  <2>2. r = Register(h - 12, mode) + 128
    BY <1>3, <2>1 DEF HourRegister
  <2>3. k = h - 12 + 128
    BY <2>1, <2>2, HourDigits
  <2>4. To24(h - 12 + 128) = h
    BY <1>3 DEF To24
  <2> QED  BY <1>3, <2>3, <2>4
<1> QED  BY <1>1, <1>2, <1>3

-----------------------------------------------------------------------------
(* Moments.  (Times are compared, not enumerated: a day is long.)          *)

(* The clock keeps times of a day. *)
LEMMA AgoType ==
  ASSUME t \in Int, NEW d \in Int
  PROVE  Ago(d) \in Int /\ Ago(d) >= 0 /\ Ago(d) < 86400
  BY SMT DEF Ago, Day

(* The parts of a time of day. *)
LEMMA Parts ==
  ASSUME NEW s \in Int, s >= 0, s < 86400
  PROVE  SecondOf(s) \in 0..59 /\ MinuteOf(s) \in 0..59 /\ HourOf(s) \in 0..23
<1>1. s % 60 \in Int /\ s % 60 >= 0 /\ s % 60 < 60
  BY SMT
<1>2. (s \div 60) % 60 \in Int /\ (s \div 60) % 60 >= 0 /\ (s \div 60) % 60 < 60
  BY SMT
<1>3. s \div 3600 \in Int /\ s \div 3600 >= 0 /\ s \div 3600 < 24
  BY SMT
<1> QED  BY <1>1, <1>2, <1>3 DEF SecondOf, MinuteOf, HourOf

(* A tick puts every moment one tick further back. *)
LEMMA AgoTick ==
  ASSUME t \in Int, 0 <= t, t < 86400, t' = (t + 1) % Day, NEW CONSTANT d \in Nat
  PROVE  Ago(d + 1)' = Ago(d)
<1>1. CASE t < 86399
  <2>1. t' = t + 1
    BY SMT, <1>1 DEF Day
  <2> QED  BY SMT, <2>1 DEF Ago
<1>2. CASE t = 86399
  <2>1. t' = 0
    BY SMT, <1>2 DEF Day
  <2>2. (86399 - d) % 86400 = (0 - (d + 1)) % 86400
    BY SMT
  <2> QED  BY SMT, <1>2, <2>1, <2>2 DEF Ago, Day
<1> QED  BY SMT, <1>1, <1>2

(* Minutes and hours of a moment, counted through two days. *)
LEMMA AgoParts ==
  ASSUME NEW x \in Int, 0 <= x, x < 172800
  PROVE  /\ MinuteOf(x % Day) = (x \div 60) % 60
         /\ HourOf(x % Day) = (x \div 3600) % 24
<1>1. CASE x < 86400
  <2>1. x % 86400 = x /\ (x \div 3600) % 24 = x \div 3600
    BY SMT, <1>1
  <2> QED  BY SMT, <2>1 DEF MinuteOf, HourOf, Day
<1>2. CASE x >= 86400
  <2>1. x % 86400 = x - 86400
    BY SMT, <1>2
  <2>2. (x - 86400) \div 60 = (x \div 60) - 1440 /\ x \div 60 \in Int
    BY SMT
  <2>3. ((x \div 60) - 1440) % 60 = (x \div 60) % 60
    BY SMT
  <2>4. (x - 86400) \div 3600 = (x \div 3600) - 24
    BY SMT
  <2>5. (x \div 3600) % 24 = (x \div 3600) - 24
    BY SMT, <1>2
  <2> QED  BY SMT, <2>1, <2>2, <2>3, <2>4, <2>5 DEF MinuteOf, HourOf, Day
<1> QED  BY SMT, <1>1, <1>2

(* Two moments less than an hour apart that show the same minute of the hour
   are in the same minute, and so is everything between them. *)
LEMMA SameMinute ==
  ASSUME NEW x \in Int, NEW y \in Int, NEW z \in Int, 0 <= x, z < 172800,
         x <= y, y <= z, z - x <= 3540,
         MinuteOf(x % Day) = MinuteOf(z % Day)
  PROVE  MinuteOf(y % Day) = MinuteOf(z % Day)
<1> DEFINE k == x \div 60
           l == y \div 60
           m == z \div 60
<1>1. k \in Int /\ l \in Int /\ m \in Int /\ k <= l /\ l <= m /\ m <= k + 59
  BY SMT
<1>2. k % 60 = m % 60
  BY SMT, AgoParts
<1>3. k = m
  <2> HIDE DEF k, l, m
  <2> QED  BY SMT, <1>1, <1>2
<1>4. l = m
  <2> HIDE DEF k, l, m
  <2> QED  BY SMT, <1>1, <1>3
<1>5. MinuteOf(y % Day) = l % 60 /\ MinuteOf(z % Day) = m % 60
  BY SMT, AgoParts
<1> HIDE DEF k, l, m
<1> QED  BY SMT, <1>4, <1>5

(* The same for the hour of the day. *)
LEMMA SameHour ==
  ASSUME NEW x \in Int, NEW y \in Int, NEW z \in Int, 0 <= x, z < 172800,
         x <= y, y <= z, z - x <= 3540,
         HourOf(x % Day) = HourOf(z % Day)
  PROVE  HourOf(y % Day) = HourOf(z % Day)
<1> DEFINE k == x \div 3600
           l == y \div 3600
           m == z \div 3600
<1>1. k \in Int /\ l \in Int /\ m \in Int /\ k <= l /\ l <= m /\ m <= k + 1
  BY SMT
<1>2. k % 24 = m % 24
  BY SMT, AgoParts
<1>3. k = m
  <2> HIDE DEF k, l, m
  <2> QED  BY SMT, <1>1, <1>2
<1>4. l = m
  <2> HIDE DEF k, l, m
  <2> QED  BY SMT, <1>1, <1>3
<1>5. HourOf(y % Day) = l % 24 /\ HourOf(z % Day) = m % 24
  BY SMT, AgoParts
<1> HIDE DEF k, l, m
<1> QED  BY SMT, <1>4, <1>5
-----------------------------------------------------------------------------
(* The invariants.                                                         *)

(* The time of day as an integer between bounds. *)
LEMMA TimeType ==
  ASSUME TypeOK
  PROVE  /\ t \in Int /\ 0 <= t /\ t < 86400
         /\ ticks \in Nat /\ since \in Nat /\ since <= ticks
<1>1. Day \in Nat /\ MaxTicks \in Nat
  <2>1. Day \in Nat
    BY SMT DEF Day
  <2>2. MaxTicks \in Nat
    BY RtcAssumption
  <2> QED  BY <2>1, <2>2
<1>2. t \in 0..(Day - 1) /\ ticks \in 0..MaxTicks /\ since \in 0..ticks
  BY DEF TypeOK
<1>3. t \in Int /\ 0 <= t /\ t <= Day - 1
  BY <1>1, <1>2
<1>4. ticks \in Nat /\ since \in Nat /\ since <= ticks
  BY <1>1, <1>2
<1>5. t < 86400
  BY SMT, <1>3 DEF Day
<1> QED  BY <1>3, <1>4, <1>5

(* The registers read now. *)
LEMMA AgoNow ==
  ASSUME TypeOK
  PROVE  /\ SecondAgo(0) = Register(SecondOf(t), registerB)
         /\ MinuteAgo(0) = Register(MinuteOf(t), registerB)
         /\ HourAgo(0) = HourRegister(HourOf(t), registerB)
<1>1. t \in Int /\ 0 <= t /\ t < 86400
  BY TimeType
<1>2. t - 0 = t /\ t % 86400 = t
  BY SMT, <1>1
<1>3. Ago(0) = t
  BY SMT, <1>2 DEF Ago, Day
<1> QED  BY <1>3 DEF SecondAgo, MinuteAgo, HourAgo

(* A step of read_rtc leaves the clock alone. *)
LEMMA AgoSame ==
  ASSUME UNCHANGED <<t, registerB>>, NEW CONSTANT d
  PROVE  SecondAgo(d)' = SecondAgo(d) /\ MinuteAgo(d)' = MinuteAgo(d)
         /\ HourAgo(d)' = HourAgo(d)
  BY DEF SecondAgo, MinuteAgo, HourAgo, Ago

(* The values in the variables keep to their bounds. *)
LEMMA TypedStep ==
  ASSUME Typed, [Next]_vars
  PROVE  Typed'
<1>1. TypeOK /\ registerB.binary \in BOOLEAN /\ registerB.h24 \in BOOLEAN
  BY ModeType DEF Typed
<1>2. t \in Int /\ 0 <= t /\ t < 86400 /\ ticks \in Nat /\ since \in Nat /\ since <= ticks
  BY <1>1, TimeType
<1>3. SecondOf(t) \in 0..59 /\ MinuteOf(t) \in 0..59 /\ HourOf(t) \in 0..23
  BY <1>2, Parts
<1>4. /\ Register(SecondOf(t), registerB) \in 0..89
      /\ Register(MinuteOf(t), registerB) \in 0..89
      /\ HourRegister(HourOf(t), registerB) \in 0..146
  BY <1>1, <1>3, RegisterInverse, HourRegisterRange
<1>5. CASE Convert
  <2>1. PICK b \in [binary : BOOLEAN, h24 : BOOLEAN] :
          /\ second' = Converted(b)[1]
          /\ minute' = Converted(b)[2]
          /\ hour'   = Converted(b)[3]
    BY <1>5 DEF Convert
  <2>2. \A n \in 0..89 : FromBcd(n) \in 0..89
    BY DEF FromBcd
  <2>3. \A h \in 0..146 : HourFromBcd(h) \in 0..146
    <3> SUFFICES ASSUME NEW h \in 0..146  PROVE HourFromBcd(h) \in 0..146
      OBVIOUS
    <3>1. h \in Int /\ h >= 0 /\ h <= 146
      OBVIOUS
    <3>2. CASE h < 128
      <4>1. h % 128 = h /\ h \div 128 = 0
        BY <3>1, <3>2
      <4>2. h % 16 \in Int /\ h % 16 >= 0 /\ h % 16 < 16
            /\ h \div 16 \in Int /\ h \div 16 >= 0 /\ h \div 16 < 8
        BY <3>1, <3>2
      <4> QED  BY <4>1, <4>2 DEF HourFromBcd, FromBcd
    <3>3. CASE h >= 128
      <4> DEFINE k == h % 128
      <4>1. k \in Int /\ k >= 0 /\ k <= 18 /\ h \div 128 = 1
        BY <3>1, <3>3
      <4> HIDE DEF k
      <4>2. k % 16 \in Int /\ k % 16 >= 0 /\ k \div 16 \in Int /\ k \div 16 >= 0
            /\ (k % 16) + (k \div 16) * 10 <= 18
        BY <4>1
      <4>3. HourFromBcd(h) = (k % 16) + (k \div 16) * 10 + 1 * 128
        BY <4>1 DEF HourFromBcd, FromBcd, k
      <4> QED  BY <4>2, <4>3
    <3> QED  BY <3>1, <3>2, <3>3
  <2>4. \A h \in 0..146 : To24(h) \in 0..146
    <3> SUFFICES ASSUME NEW h \in 0..146  PROVE To24(h) \in 0..146
      OBVIOUS
    <3>1. To24(h) \in Int /\ To24(h) >= 0 /\ To24(h) < 24
      BY DEF To24
    <3> QED  BY <3>1
  <2>5. second \in 0..89 /\ minute \in 0..89 /\ hour \in 0..146
    BY <1>1 DEF TypeOK
  <2>6. second' \in 0..89 /\ minute' \in 0..89
    BY <2>1, <2>2, <2>5 DEF Converted
  <2>7. hour' \in 0..146
    <3> DEFINE k == IF b.binary THEN hour ELSE HourFromBcd(hour)
    <3>1. k \in 0..146
      BY <2>3, <2>5
    <3>2. hour' = IF ~b.h24 /\ k >= 128 THEN To24(k) ELSE k
      BY <2>1 DEF Converted
    <3> HIDE DEF k
    <3> QED  BY <2>4, <3>1, <3>2
  <2> QED  BY <1>1, <1>5, <2>6, <2>7 DEF Convert, clock, Typed, TypeOK, Positions
<1>6. CASE Update
  <2>1. ticks < MaxTicks /\ MaxTicks \in Nat
    BY <1>6, RtcAssumption DEF Update, Typed
  <2>2. Day \in Nat
    BY SMT DEF Day
  <2>3. t' \in Int /\ 0 <= t' /\ t' <= Day - 1
    BY SMT, <1>2, <1>6 DEF Update, Day
  <2>4. t' \in 0..(Day - 1)
    BY <2>2, <2>3
  <2>5. ticks' \in 0..MaxTicks /\ since' \in 0..ticks' /\ uip' \in BOOLEAN /\ ~uip'
    <3>1. ticks' = ticks + 1 /\ since' = since /\ uip' = FALSE
      BY SMT, <1>6 DEF Update
    <3>2. ticks' \in 0..MaxTicks /\ since' \in 0..ticks'
      BY SMT, <1>2, <2>1, <3>1
    <3> QED  BY <3>1, <3>2
  <2> QED  BY <1>1, <1>6, <2>4, <2>5 DEF Update, Typed, TypeOK
<1>7. CASE UpdateBegins
  BY <1>1, <1>7 DEF UpdateBegins, Typed, TypeOK
<1>8. CASE time_get
  BY <1>1, <1>2, <1>8 DEF time_get, clock, Typed, TypeOK, Positions
<1>9. CASE Reader /\ ~Convert
  BY <1>1, <1>4, <1>9 DEF Reader, WaitNoUpdate, ReadSecond, ReadMinute, ReadHour, KeepLast,
     ReadRegisterB, Return, clock, vars, Typed, TypeOK, Positions
<1>10. CASE UNCHANGED vars
  BY <1>10 DEF vars, Typed, TypeOK
<1> QED  BY <1>5, <1>6, <1>7, <1>8, <1>9, <1>10 DEF Next, Reader

(* The readings lie in order within the call, whatever ticks fall between. *)
LEMMA ReadingStep ==
  ASSUME Typed, Reading, [Next]_vars
  PROVE  Reading'
<1>1. TypeOK /\ ticks \in Nat /\ since \in Nat /\ since <= ticks
  BY TimeType DEF Typed
<1>2. PICK a, b, c, d, e \in Nat : Reads(a, b, c, d, e)
  BY DEF Reading
<1>3. ticks - since >= a /\ a >= b /\ b >= c /\ c >= d /\ d >= e /\ e >= 0
  BY <1>2 DEF Reads
<1>4. CASE Update
  <2>1. t \in Int /\ 0 <= t /\ t < 86400 /\ t' = (t + 1) % Day
    BY <1>1, <1>4, TimeType DEF Update
  <2>2. /\ MinuteAgo(a + 1)' = MinuteAgo(a) /\ HourAgo(b + 1)' = HourAgo(b)
        /\ SecondAgo(c + 1)' = SecondAgo(c) /\ MinuteAgo(d + 1)' = MinuteAgo(d)
        /\ HourAgo(e + 1)' = HourAgo(e)
    BY <1>4, <2>1, AgoTick DEF Update, SecondAgo, MinuteAgo, HourAgo
  <2>3. Reads(a + 1, b + 1, c + 1, d + 1, e + 1)'
    BY <1>1, <1>2, <1>4, <2>2 DEF Update, Reads
  <2> QED  BY <2>3 DEF Reading
<1>5. ASSUME ~Update  PROVE UNCHANGED <<t, registerB>>
  BY <1>5 DEF Next, time_get, Reader, WaitNoUpdate, ReadSecond, ReadMinute, ReadHour,
     KeepLast, ReadRegisterB, Convert, Return, UpdateBegins, clock, vars
<1>6. ASSUME ~Update
      PROVE  /\ MinuteAgo(a)' = MinuteAgo(a) /\ HourAgo(b)' = HourAgo(b)
             /\ SecondAgo(c)' = SecondAgo(c) /\ MinuteAgo(d)' = MinuteAgo(d)
             /\ HourAgo(e)' = HourAgo(e)
             /\ SecondAgo(0)' = Register(SecondOf(t), registerB)
             /\ MinuteAgo(0)' = Register(MinuteOf(t), registerB)
             /\ HourAgo(0)' = HourRegister(HourOf(t), registerB)
  BY <1>1, <1>5, <1>6, AgoSame, AgoNow
<1>7. CASE ~Update /\ ReadMinute("minute1", "hour1")
  <2>1. Reads(0, 0, 0, 0, 0)'
    BY <1>1, <1>6, <1>7 DEF ReadMinute, clock, Reads
  <2> QED  BY <2>1 DEF Reading
<1>8. CASE ~Update /\ ReadHour("hour1", "keep")
  <2>1. Reads(a, 0, 0, 0, 0)'
    BY <1>2, <1>3, <1>6, <1>8 DEF ReadHour, clock, Reads
  <2> QED  BY <2>1 DEF Reading
<1>9. CASE ~Update /\ ReadSecond("second2", "minute2")
  <2>1. Reads(a, b, 0, 0, 0)'
    BY <1>2, <1>3, <1>6, <1>9 DEF ReadSecond, clock, Reads
  <2> QED  BY <2>1 DEF Reading
<1>10. CASE ~Update /\ ReadMinute("minute2", "hour2")
  <2>1. Reads(a, b, c, 0, 0)'
    BY <1>2, <1>3, <1>6, <1>10 DEF ReadMinute, clock, Reads
  <2> QED  BY <2>1 DEF Reading
<1>11. CASE ~Update /\ ReadHour("hour2", "compare")
  <2>1. Reads(a, b, c, d, 0)'
    BY <1>2, <1>3, <1>6, <1>11 DEF ReadHour, clock, Reads
  <2> QED  BY <2>1 DEF Reading
<1>12. CASE ~Update /\ KeepLast
  <2>1. Reads(a, b, c, d, e)'
    BY <1>2, <1>3, <1>6, <1>12 DEF KeepLast, clock, Reads
  <2> QED  BY <2>1 DEF Reading
<1>13. CASE ~Update /\ time_get
  <2>1. Reads(0, 0, 0, 0, 0)'
    BY <1>1, <1>13 DEF time_get, clock, Reads
  <2> QED  BY <2>1 DEF Reading
<1>14. CASE /\ ~Update
            /\ \/ WaitNoUpdate("wait1", "second1") \/ ReadSecond("second1", "minute1")
               \/ WaitNoUpdate("wait2", "second2") \/ ReadRegisterB \/ Convert \/ Return
               \/ UpdateBegins \/ UNCHANGED vars
  <2>1. Reads(a, b, c, d, e)'
    BY <1>2, <1>3, <1>6, <1>14 DEF WaitNoUpdate, ReadSecond, ReadRegisterB, Convert,
       Return, UpdateBegins, clock, vars, Reads
  <2> QED  BY <2>1 DEF Reading
<1> QED
  BY <1>4, <1>7, <1>8, <1>9, <1>10, <1>11, <1>12, <1>13, <1>14 DEF Next, Reader

(* Both hold before the first call. *)
LEMMA InitTyped ==
  ASSUME Init
  PROVE  Typed /\ Reading
<1>1. t \in 0..(Day - 1) /\ MaxTicks \in Nat
  BY RtcAssumption DEF Init
<1>2. Typed
  <2>1. /\ ticks \in 0..MaxTicks /\ second \in 0..89 /\ minute \in 0..89
        /\ hour \in 0..146 /\ since \in 0..ticks
    BY <1>1 DEF Init
  <2>2. registerB \in Modes /\ uip \in BOOLEAN /\ ~uip /\ pc \in Positions
    BY DEF Init, Positions
  <2> QED  BY <1>1, <2>1, <2>2 DEF Typed, TypeOK
<1>3. Reads(0, 0, 0, 0, 0)
  BY DEF Init, Reads
<1> QED  BY <1>2, <1>3 DEF Reading

(* What passes the comparison is what the clock showed when the seconds were
   read the second time. *)
LEMMA OneMoment ==
  ASSUME Typed, Reading, pc = "compare", Same, Brief
  PROVE  \E s \in Shown :
           /\ s \in Int /\ 0 <= s /\ s < 86400
           /\ second = Register(SecondOf(s), registerB)
           /\ minute = Register(MinuteOf(s), registerB)
           /\ hour = HourRegister(HourOf(s), registerB)
<1>1. /\ TypeOK /\ registerB.binary \in BOOLEAN /\ registerB.h24 \in BOOLEAN
      /\ t \in Int /\ 0 <= t /\ t < 86400 /\ ticks \in Nat /\ since \in Nat
  BY ModeType, TimeType DEF Typed
<1>2. PICK a, b, c, d, e \in Nat : Reads(a, b, c, d, e)
  BY DEF Reading
<1>3. /\ ticks - since >= a /\ a >= b /\ b >= c /\ c >= d /\ d >= e /\ e >= 0
      /\ last[2] = MinuteAgo(a) /\ last[3] = HourAgo(b)
      /\ second = SecondAgo(c) /\ minute = MinuteAgo(d) /\ hour = HourAgo(e)
  BY <1>2 DEF Reads
<1>4. MinuteAgo(a) = MinuteAgo(d) /\ HourAgo(b) = HourAgo(e)
  BY <1>3 DEF Same
<1>5. /\ Ago(a) \in Int /\ Ago(a) >= 0 /\ Ago(a) < 86400
      /\ Ago(b) \in Int /\ Ago(b) >= 0 /\ Ago(b) < 86400
      /\ Ago(c) \in Int /\ Ago(c) >= 0 /\ Ago(c) < 86400
      /\ Ago(d) \in Int /\ Ago(d) >= 0 /\ Ago(d) < 86400
      /\ Ago(e) \in Int /\ Ago(e) >= 0 /\ Ago(e) < 86400
  <2>1. a \in Int /\ b \in Int /\ c \in Int /\ d \in Int /\ e \in Int
    OBVIOUS
  <2> QED  BY SMT, <1>1, <2>1, AgoType
<1>6. MinuteOf(Ago(a)) = MinuteOf(Ago(d)) /\ HourOf(Ago(b)) = HourOf(Ago(e))
  <2>1. /\ MinuteOf(Ago(a)) \in 0..59 /\ MinuteOf(Ago(d)) \in 0..59
        /\ HourOf(Ago(b)) \in 0..23 /\ HourOf(Ago(e)) \in 0..23
    BY SMT, <1>5, Parts
  <2>2. MinuteOf(Ago(a)) = MinuteOf(Ago(d))
    <3> DEFINE m == MinuteOf(Ago(a))
               n == MinuteOf(Ago(d))
    <3>1. m \in Sixty /\ n \in Sixty /\ Register(m, registerB) = Register(n, registerB)
      BY <1>4, <2>1 DEF MinuteAgo, Sixty
    <3> HIDE DEF m, n
    <3>2. m = n
      BY <1>1, <3>1, RegisterInjective
    <3> QED  BY <3>2 DEF m, n
  <2>3. HourOf(Ago(b)) = HourOf(Ago(e))
    <3> DEFINE m == HourOf(Ago(b))
               n == HourOf(Ago(e))
    <3>1. m \in 0..23 /\ n \in 0..23 /\ HourRegister(m, registerB) = HourRegister(n, registerB)
      BY <1>4, <2>1 DEF HourAgo
    <3> HIDE DEF m, n
    <3>2. m = n
      BY <1>1, <3>1, HourInjective
    <3> QED  BY <3>2 DEF m, n
  <2> QED  BY <2>2, <2>3
<1>7. \A k \in Nat : k <= 3540 => Ago(k) = (t + 86400 - k) % Day
  <2>1. ASSUME NEW k \in Nat  PROVE (t - k) % 86400 = (t + 86400 - k) % 86400
    BY SMT, <1>1
  <2> QED  BY SMT, <2>1 DEF Ago, Day
<1>8. a <= 3540 /\ b <= 3540 /\ c <= 3540 /\ d <= 3540 /\ e <= 3540
  BY SMT, <1>1, <1>3 DEF Brief
<1>9. MinuteOf(Ago(c)) = MinuteOf(Ago(d))
  <2> DEFINE x == t + 86400 - a
             y == t + 86400 - c
             z == t + 86400 - d
  <2>1. /\ x \in Int /\ y \in Int /\ z \in Int /\ 0 <= x /\ z < 172800
        /\ x <= y /\ y <= z /\ z - x <= 3540
    BY SMT, <1>1, <1>3, <1>8
  <2>2. Ago(a) = x % Day /\ Ago(c) = y % Day /\ Ago(d) = z % Day
    BY SMT, <1>7, <1>8
  <2> HIDE DEF x, y, z
  <2>3. MinuteOf(x % Day) = MinuteOf(z % Day)
    BY <1>6, <2>2
  <2>4. MinuteOf(y % Day) = MinuteOf(z % Day)
    BY SMT, <2>1, <2>3, SameMinute
  <2> QED  BY <2>2, <2>4
<1>10. HourOf(Ago(c)) = HourOf(Ago(e))
  <2> DEFINE x == t + 86400 - b
             y == t + 86400 - c
             z == t + 86400 - e
  <2>1. /\ x \in Int /\ y \in Int /\ z \in Int /\ 0 <= x /\ z < 172800
        /\ x <= y /\ y <= z /\ z - x <= 3540
    BY SMT, <1>1, <1>3, <1>8
  <2>2. Ago(b) = x % Day /\ Ago(c) = y % Day /\ Ago(e) = z % Day
    BY SMT, <1>7, <1>8
  <2> HIDE DEF x, y, z
  <2>3. HourOf(x % Day) = HourOf(z % Day)
    BY <1>6, <2>2
  <2>4. HourOf(y % Day) = HourOf(z % Day)
    BY SMT, <2>1, <2>3, SameHour
  <2> QED  BY <2>2, <2>4
<1>11. Ago(c) \in Shown
  <2>1. c \in 0..(ticks - since)
    BY <1>1, <1>3
  <2> QED  BY <2>1 DEF Shown, Ago
<1>12. /\ second = Register(SecondOf(Ago(c)), registerB)
       /\ minute = Register(MinuteOf(Ago(c)), registerB)
       /\ hour = HourRegister(HourOf(Ago(c)), registerB)
  BY <1>3, <1>9, <1>10 DEF SecondAgo, MinuteAgo, HourAgo
<1> QED  BY <1>5, <1>11, <1>12

(* The variables of read_rtc never hold more than its conversions can make. *)
THEOREM TypeCorrect == Spec => []TypeOK
<1>1. Init => Typed
  BY InitTyped
<1>2. Typed /\ [Next]_vars => Typed'
  BY TypedStep
<1>3. Typed => TypeOK
  BY DEF Typed
<1> QED  BY <1>1, <1>2, <1>3, PTL DEF Spec

(* In a call of less than an hour, two equal readings are the registers of one
   moment of the call, however often and wherever the clock ticked. *)
THEOREM OneTime == Spec => []Consistent
<1>1. Init => Typed /\ Reading
  BY InitTyped
<1>2. Typed /\ Reading /\ [Next]_vars => Typed' /\ Reading'
  BY TypedStep, ReadingStep
<1>3. Typed /\ Reading => Consistent
  BY OneMoment DEF Consistent
<1> QED  BY <1>1, <1>2, <1>3, PTL DEF Spec

(* The conversion with the clock's own mode gives the time of that moment. *)
THEOREM Conversion == Spec => []ConversionRight
<1>1. Init => Typed /\ Reading
  BY InitTyped
<1>2. Typed /\ Reading /\ [Next]_vars => Typed' /\ Reading'
  BY TypedStep, ReadingStep
<1>3. Typed /\ Reading => ConversionRight
  <2> SUFFICES ASSUME Typed, Reading, pc = "compare", Same, Brief
               PROVE  \E s \in Shown :
                        /\ Converted(registerB)[1] = SecondOf(s)
                        /\ Converted(registerB)[2] = MinuteOf(s)
                        /\ registerB.h24 \/ HourOf(s) % 12 # 0
                             => Converted(registerB)[3] = HourOf(s)
    BY DEF ConversionRight
  <2>1. registerB.binary \in BOOLEAN /\ registerB.h24 \in BOOLEAN
    BY ModeType DEF Typed
  <2>2. PICK s \in Shown :
          /\ s \in Int /\ 0 <= s /\ s < 86400
          /\ second = Register(SecondOf(s), registerB)
          /\ minute = Register(MinuteOf(s), registerB)
          /\ hour = HourRegister(HourOf(s), registerB)
    BY OneMoment
  <2>3. SecondOf(s) \in 0..59 /\ MinuteOf(s) \in 0..59 /\ HourOf(s) \in 0..23
    BY SMT, <2>2, Parts
  <2>4. Converted(registerB)[1] = SecondOf(s)
    BY <2>1, <2>2, <2>3, RegisterInverse DEF Converted
  <2>5. Converted(registerB)[2] = MinuteOf(s)
    BY <2>1, <2>2, <2>3, RegisterInverse DEF Converted
  <2>6. registerB.h24 \/ HourOf(s) % 12 # 0 => Converted(registerB)[3] = HourOf(s)
    BY <2>1, <2>2, <2>3, HourInverse DEF Converted
  <2> QED  BY <2>4, <2>5, <2>6
<1> QED  BY <1>1, <1>2, <1>3, PTL DEF Spec
=============================================================================

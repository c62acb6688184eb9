---------------------------- MODULE FloppyProofs ----------------------------
(***************************************************************************)
(* What floppy_convert computes, for every sector number, and what         *)
(* floppy_dma_initialize programs, for every buffer; then that driver and  *)
(* controller stay in step, that the motor is stopped, and that            *)
(* floppy_read returns the right sector.                                   *)
(*                                                                         *)
(* The last three rest on one inductive invariant, Inv.  It names the      *)
(* place of the driver by the sequence of calls it is in and the number k  *)
(* of the next one: todo = Rest(p, k) for one of four sequences p.  With   *)
(* each place goes what the controller is doing there (InPhase), how many  *)
(* bytes and interrupts it still has for the driver, and what is known of  *)
(* the motor, the head, the channel and the transfer.                      *)
(***************************************************************************)
EXTENDS Floppy, SequenceTheorems, TLAPS

(* The place floppy_convert gives a sector exists on the disk, and it is the
   place of that sector and of no other: counted through the disk again it
   gives the number it came from. *)
THEOREM ConvertExact ==
  ASSUME NEW lba \in Nat
  PROVE  /\ HeadOf(lba) \in {0, 1}
         /\ TrackOf(lba) \in Nat
         /\ SectorOf(lba) \in 1..FLOPPY_SECTORS_PER_TRACK
         /\ SectorAt(TrackOf(lba), HeadOf(lba), SectorOf(lba)) = lba
PROOF
  <1> DEFINE t == lba \div 36
             r == lba % 36
             h == r \div 18
             s == r % 18
  <1>1. t \in Nat /\ r \in 0..35 /\ lba = 36 * t + r
    OBVIOUS
  <1>2. h \in {0, 1} /\ s \in 0..17 /\ r = 18 * h + s
    BY <1>1
  <1>3. lba % 18 = s
    BY <1>1, <1>2
  <1>4. HeadOf(lba) = h /\ TrackOf(lba) = t /\ SectorOf(lba) = s + 1
    BY <1>3 DEF HeadOf, TrackOf, SectorOf, FLOPPY_SECTORS_PER_TRACK
  <1>5. SectorAt(t, h, s + 1) = (t * 2 + h) * 18 + s
    <2> HIDE DEF t, h, s
    <2> QED BY <1>1, <1>2 DEF SectorAt, FLOPPY_SECTORS_PER_TRACK
  <1>6. (t * 2 + h) * 18 + s = lba
    BY <1>1, <1>2
  <1> QED
    BY <1>1, <1>2, <1>4, <1>5, <1>6 DEF FLOPPY_SECTORS_PER_TRACK

(* Two bytes written with the flip-flop at the lower half. *)
LEMMA TwoBytes ==
  ASSUME NEW reg \in Nat, NEW low \in Nat, low < 256, NEW high \in Nat, high < 256
  PROVE  Written(Written(reg, low, 0), high, 1) = low + 256 * high
PROOF
  <1>1. Written(reg, low, 0) = 256 * (reg \div 256) + low
    BY DEF Written
  <1>2. (256 * (reg \div 256) + low) % 256 = low
    OBVIOUS
  <1> QED
    BY <1>1, <1>2 DEF Written

(* The fields of a register file. *)
LEMMA Fields ==
  ASSUME NEW a, NEW c, NEW h, NEW m, NEW o
  PROVE  /\ Registers(a, c, h, m, o).addr = a /\ Registers(a, c, h, m, o).count = c
         /\ Registers(a, c, h, m, o).high = h /\ Registers(a, c, h, m, o).masked = m
         /\ Registers(a, c, h, m, o).mode = o
PROOF
  BY DEF Registers

(* A register file with one register changed: the address. *)
LEMMA Set_addr ==
  ASSUME NEW a, NEW c, NEW h, NEW m, NEW o, NEW x
  PROVE  [Registers(a, c, h, m, o) EXCEPT !.addr = x] = Registers(x, c, h, m, o)
PROOF
  BY DEF Registers

(* The count. *)
LEMMA Set_count ==
  ASSUME NEW a, NEW c, NEW h, NEW m, NEW o, NEW x
  PROVE  [Registers(a, c, h, m, o) EXCEPT !.count = x] = Registers(a, x, h, m, o)
PROOF
  BY DEF Registers

(* The flip-flop. *)
LEMMA Set_high ==
  ASSUME NEW a, NEW c, NEW h, NEW m, NEW o, NEW x
  PROVE  [Registers(a, c, h, m, o) EXCEPT !.high = x] = Registers(a, c, x, m, o)
PROOF
  BY DEF Registers

(* The mask. *)
LEMMA Set_masked ==
  ASSUME NEW a, NEW c, NEW h, NEW m, NEW o, NEW x
  PROVE  [Registers(a, c, h, m, o) EXCEPT !.masked = x] = Registers(a, c, h, x, o)
PROOF
  BY DEF Registers

(* The mode. *)
LEMMA Set_mode ==
  ASSUME NEW a, NEW c, NEW h, NEW m, NEW o, NEW x
  PROVE  [Registers(a, c, h, m, o) EXCEPT !.mode = x] = Registers(a, c, h, m, x)
PROOF
  BY DEF Registers

(* dma_reset clears the flip-flop and masks the channel. *)
LEMMA ResetFields ==
  ASSUME NEW a, NEW c, NEW h, NEW m, NEW o
  PROVE  dma_reset(Registers(a, c, h, m, o)) = Registers(a, c, 0, 1, o)
PROOF
  <1>1. [Registers(a, c, h, m, o) EXCEPT !.high = 0] = Registers(a, c, 0, m, o)
    BY Set_high
  <1>2. [Registers(a, c, 0, m, o) EXCEPT !.masked = 1] = Registers(a, c, 0, 1, o)
    BY Set_masked
  <1>3. [[Registers(a, c, h, m, o) EXCEPT !.high = 0] EXCEPT !.masked = 1] = Registers(a, c, 0, 1, o)
    BY <1>1, <1>2, Zenon
  <1> QED
    BY <1>3, Zenon DEF dma_reset

(* dma_mask_channel(2) opens the channel it is meant to mask. *)
LEMMA MaskFields ==
  ASSUME NEW a, NEW c, NEW h, NEW m, NEW o
  PROVE  dma_mask_channel(Registers(a, c, h, m, o), 2) = Registers(a, c, h, 0, o)
PROOF
  <1>1. 2^(2 - 1) = 2 /\ 2 % 4 = 2 /\ (2 \div 4) % 2 = 0
    BY SMT
  <1>2. dma_mask_channel(Registers(a, c, h, m, o), 2) = [Registers(a, c, h, m, o) EXCEPT !.masked = 0]
    BY <1>1, Zenon DEF dma_mask_channel
  <1>3. [Registers(a, c, h, m, o) EXCEPT !.masked = 0] = Registers(a, c, h, 0, o)
    BY Set_masked
  <1> QED
    BY <1>2, <1>3, Zenon

(* dma_set_address: the second byte goes to the other half, and the flip-flop is
   back where it was. *)
LEMMA AddressFields ==
  ASSUME NEW a, NEW c, NEW m, NEW o, NEW low, NEW high
  PROVE  dma_set_address(Registers(a, c, 0, m, o), low, high)
           = Registers(Written(Written(a, low, 0), high, 1), c, 0, m, o)
PROOF
  <1>1. 1 - 0 = 1 /\ 1 - 1 = 0
    OBVIOUS
  <1>2. AddrByte(Registers(a, c, 0, m, o), low) = Registers(Written(a, low, 0), c, 1, m, o)
    <2>1. Registers(a, c, 0, m, o).addr = a /\ Registers(a, c, 0, m, o).high = 0
      BY Fields
    <2>2. [Registers(a, c, 0, m, o) EXCEPT !.addr = Written(a, low, 0)] = Registers(Written(a, low, 0), c, 0, m, o)
      BY Set_addr
    <2>3. [Registers(Written(a, low, 0), c, 0, m, o) EXCEPT !.high = 1] = Registers(Written(a, low, 0), c, 1, m, o)
      BY Set_high
    <2>4. [[Registers(a, c, 0, m, o) EXCEPT !.addr = Written(a, low, 0)] EXCEPT !.high = 1] = Registers(Written(a, low, 0), c, 1, m, o)
      BY <2>2, <2>3, Zenon
    <2> QED BY <2>1, <2>4, <1>1, Zenon DEF AddrByte
  <1>3. ASSUME NEW x
        PROVE  AddrByte(Registers(x, c, 1, m, o), high) = Registers(Written(x, high, 1), c, 0, m, o)
    <2>1. Registers(x, c, 1, m, o).addr = x /\ Registers(x, c, 1, m, o).high = 1
      BY Fields
    <2>2. [Registers(x, c, 1, m, o) EXCEPT !.addr = Written(x, high, 1)] = Registers(Written(x, high, 1), c, 1, m, o)
      BY Set_addr
    <2>3. [Registers(Written(x, high, 1), c, 1, m, o) EXCEPT !.high = 0] = Registers(Written(x, high, 1), c, 0, m, o)
      BY Set_high
    <2>4. [[Registers(x, c, 1, m, o) EXCEPT !.addr = Written(x, high, 1)] EXCEPT !.high = 0] = Registers(Written(x, high, 1), c, 0, m, o)
      BY <2>2, <2>3, Zenon
    <2> QED BY <2>1, <2>4, <1>1, Zenon DEF AddrByte
  <1> QED
    BY <1>2, <1>3 DEF dma_set_address

(* The same for dma_set_count. *)
LEMMA CountFields ==
  ASSUME NEW a, NEW c, NEW m, NEW o, NEW low, NEW high
  PROVE  dma_set_count(Registers(a, c, 0, m, o), low, high)
           = Registers(a, Written(Written(c, low, 0), high, 1), 0, m, o)
PROOF
  <1>1. 1 - 0 = 1 /\ 1 - 1 = 0
    OBVIOUS
  <1>2. CountByte(Registers(a, c, 0, m, o), low) = Registers(a, Written(c, low, 0), 1, m, o)
    <2>1. Registers(a, c, 0, m, o).count = c /\ Registers(a, c, 0, m, o).high = 0
      BY Fields
    <2>2. [Registers(a, c, 0, m, o) EXCEPT !.count = Written(c, low, 0)] = Registers(a, Written(c, low, 0), 0, m, o)
      BY Set_count
    <2>3. [Registers(a, Written(c, low, 0), 0, m, o) EXCEPT !.high = 1] = Registers(a, Written(c, low, 0), 1, m, o)
      BY Set_high
    <2>4. [[Registers(a, c, 0, m, o) EXCEPT !.count = Written(c, low, 0)] EXCEPT !.high = 1] = Registers(a, Written(c, low, 0), 1, m, o)
      BY <2>2, <2>3, Zenon
    <2> QED BY <2>1, <2>4, <1>1, Zenon DEF CountByte
  <1>3. ASSUME NEW x
        PROVE  CountByte(Registers(a, x, 1, m, o), high) = Registers(a, Written(x, high, 1), 0, m, o)
    <2>1. Registers(a, x, 1, m, o).count = x /\ Registers(a, x, 1, m, o).high = 1
      BY Fields
    <2>2. [Registers(a, x, 1, m, o) EXCEPT !.count = Written(x, high, 1)] = Registers(a, Written(x, high, 1), 1, m, o)
      BY Set_count
    <2>3. [Registers(a, Written(x, high, 1), 1, m, o) EXCEPT !.high = 0] = Registers(a, Written(x, high, 1), 0, m, o)
      BY Set_high
    <2>4. [[Registers(a, x, 1, m, o) EXCEPT !.count = Written(x, high, 1)] EXCEPT !.high = 0] = Registers(a, Written(x, high, 1), 0, m, o)
      BY <2>2, <2>3, Zenon
    <2> QED BY <2>1, <2>4, <1>1, Zenon DEF CountByte
  <1> QED
    BY <1>2, <1>3 DEF dma_set_count

(* dma_set_read sets the direction and leaves the channel open. *)
LEMMA ReadFields ==
  ASSUME NEW a, NEW c, NEW h, NEW m, NEW o
  PROVE  dma_set_read(Registers(a, c, h, m, o), 2) = Registers(a, c, h, 0, DMA_MODE_READ_TRANSFER)
PROOF
  <1>1. [Registers(a, c, h, 0, o) EXCEPT !.mode = DMA_MODE_READ_TRANSFER]
          = Registers(a, c, h, 0, DMA_MODE_READ_TRANSFER)
    BY Set_mode
  <1>2. dma_mask_channel(Registers(a, c, h, m, o), 2) = Registers(a, c, h, 0, o)
    BY MaskFields
  <1> QED
    BY <1>1, <1>2, Zenon DEF dma_set_read

(* What floppy_dma_initialize leaves in the registers for a buffer it accepts. *)
LEMMA DmaEnd ==
  ASSUME NEW a \in Nat, NEW c \in Nat, NEW h, NEW m, NEW o,
         NEW buffer \in Nat, ~BufferIssue(buffer)
  PROVE  floppy_dma_initialize(Registers(a, c, h, m, o), buffer)
           = Registers(buffer % 65536, 511, 0, 0, DMA_MODE_READ_TRANSFER)
PROOF
  <1> DEFINE low == buffer % 256
             high == (buffer \div 256) % 256
             end == Registers(buffer % 65536, 511, 0, 0, DMA_MODE_READ_TRANSFER)
  <1>1. low \in Nat /\ low < 256 /\ high \in Nat /\ high < 256 /\ low + 256 * high = buffer % 65536
    OBVIOUS
  <1>2. Written(Written(a, low, 0), high, 1) = buffer % 65536
    BY <1>1, TwoBytes
  <1>3. 511 % 256 = 255 /\ 511 \div 256 = 1 /\ Written(Written(c, 255, 0), 1, 1) = 511
    BY TwoBytes
  <1> HIDE DEF low, high
  <1>4. \A d : dma_reset_flipflop(d, 1) = d
    BY DEF dma_reset_flipflop
  <1>5. dma_mask_channel(dma_reset(Registers(a, c, h, m, o)), 2) = Registers(a, c, 0, 0, o)
    BY ResetFields, MaskFields
  <1>6. dma_set_address(Registers(a, c, 0, 0, o), low, high) = Registers(buffer % 65536, c, 0, 0, o)
    BY <1>2, AddressFields
  <1>7. dma_set_count(Registers(buffer % 65536, c, 0, 0, o), 255, 1)
          = Registers(buffer % 65536, 511, 0, 0, o)
    BY <1>3, CountFields
  <1>8. DmaProgram(Registers(a, c, h, m, o), buffer) = end
    <2>1. dma_set_read(Registers(buffer % 65536, 511, 0, 0, o), 2) = end
      BY ReadFields
    <2> HIDE DEF end
    <2> QED BY <1>3, <1>4, <1>5, <1>6, <1>7, <2>1 DEF DmaProgram, low, high
  <1> HIDE DEF end
  <1>9. floppy_dma_initialize(Registers(a, c, h, m, o), buffer) = end
    BY <1>8 DEF floppy_dma_initialize
  <1> QED
    BY <1>9 DEF end

(* Whatever the registers of the channel held, and although neither call of
   dma_reset_flipflop does anything, floppy_dma_initialize leaves the lower half
   of the address of every buffer it accepts in the address register and 512
   bytes in the count register, with the channel open towards the memory; and
   the transfer does not leave the 64 KB page of the buffer. *)
THEOREM DmaProgrammed ==
  ASSUME NEW a \in Nat, NEW c \in Nat, NEW h, NEW m, NEW o,
         NEW buffer \in Nat, ~BufferIssue(buffer)
  PROVE  LET p == floppy_dma_initialize(Registers(a, c, h, m, o), buffer) IN
         /\ p.addr = buffer % 2^16 /\ p.count + 1 = 512
         /\ p.mode = DMA_MODE_READ_TRANSFER /\ p.masked = 0
         /\ p.addr + p.count < 2^16
PROOF
  <1> DEFINE end == Registers(buffer % 65536, 511, 0, 0, DMA_MODE_READ_TRANSFER)
  <1>1. 2^16 = 65536
    BY SMT
  <1>2. (buffer % 65536) + 511 < 65536
    BY <1>1 DEF BufferIssue
  <1>3. /\ end.addr = buffer % 65536 /\ end.count = 511
        /\ end.mode = DMA_MODE_READ_TRANSFER /\ end.masked = 0
    BY Fields
  <1>4. floppy_dma_initialize(Registers(a, c, h, m, o), buffer) = end
    BY DmaEnd
  <1> HIDE DEF end
  <1> QED
    BY <1>1, <1>2, <1>3, <1>4

-----------------------------------------------------------------------------
(* The sequences of calls, call by call.                                   *)

(* The calls of the driver. *)
Calls ==
  {"disable", "enable", "wait", "clear", "check_int", "st0", "cyl", "specify_reset",
   "motor_on", "calibrate", "calibrated?", "motor_off", "specify", "seek", "found?",
   "dma", "read", "result", "return"}

(* One sequence of calls after another, by its places. *)
Joined(u, s, t) ==
  /\ u \in Seq(Calls) /\ Len(u) = Len(s) + Len(t)
  /\ \A k \in 1..(Len(s) + Len(t)) : u[k] = IF k <= Len(s) THEN s[k] ELSE t[k - Len(s)]

(* A concatenation has the calls of both, in their places. *)
LEMMA Join ==
  ASSUME NEW s \in Seq(Calls), NEW t \in Seq(Calls)
  PROVE  Joined(s \o t, s, t)
PROOF
  BY ConcatProperties, Zenon DEF Joined

(* floppy_reset up to floppy_calibrate; the end of floppy_initialize; and
   floppy_read up to the end of the first turn of floppy_seek. *)
Begin == <<"disable", "enable">> \o WaitIrq
         \o CheckInt \o CheckInt \o CheckInt \o CheckInt
         \o <<"specify_reset", "motor_on">>

StopMotor == <<"motor_off">> \o <<"specify">>

FirstTurn == <<"motor_on">> \o SeekTurn

(* The calls of floppy_wait_irq. *)
LEMMA WaitCalls ==
  /\ WaitIrq \in Seq(Calls) /\ Len(WaitIrq) = 2
  /\ WaitIrq[1] = "wait" /\ WaitIrq[2] = "clear"
PROOF
  BY DEF WaitIrq, Calls

(* The calls of floppy_check_int. *)
LEMMA CheckCalls ==
  /\ CheckInt \in Seq(Calls) /\ Len(CheckInt) = 3
  /\ CheckInt[1] = "check_int" /\ CheckInt[2] = "st0" /\ CheckInt[3] = "cyl"
PROOF
  BY DEF CheckInt, Calls

(* The seven bytes fetched after a read. *)
LEMMA FetchCalls ==
  /\ Fetch \in Seq(Calls) /\ Len(Fetch) = 7
  /\ Fetch[1] = "result" /\ Fetch[2] = "result" /\ Fetch[3] = "result"
  /\ Fetch[4] = "result" /\ Fetch[5] = "result" /\ Fetch[6] = "result"
  /\ Fetch[7] = "result"
PROOF
  BY DEF Fetch, Calls

(* The calls of a turn of floppy_calibrate. *)
LEMMA CalibrateCalls ==
  /\ CalibrateTurn \in Seq(Calls) /\ Len(CalibrateTurn) = 7
  /\ CalibrateTurn[1] = "calibrate" /\ CalibrateTurn[2] = "wait"
  /\ CalibrateTurn[3] = "clear" /\ CalibrateTurn[4] = "check_int"
  /\ CalibrateTurn[5] = "st0" /\ CalibrateTurn[6] = "cyl"
  /\ CalibrateTurn[7] = "calibrated?"
PROOF
  <1> DEFINE a == <<"calibrate">>
             b == <<"calibrated?">>
             u1 == a \o WaitIrq
             u2 == u1 \o CheckInt
             u3 == u2 \o b
  <1>1. /\ a \in Seq(Calls) /\ Len(a) = 1 /\ a[1] = "calibrate"
        /\ b \in Seq(Calls) /\ Len(b) = 1 /\ b[1] = "calibrated?"
    BY DEF Calls
  <1>2. CalibrateTurn = u3
    BY Zenon DEF CalibrateTurn
  <1> HIDE DEF a, b
  <1>3. a \in Seq(Calls) /\ WaitIrq \in Seq(Calls) /\ CheckInt \in Seq(Calls) /\ b \in Seq(Calls)
    BY <1>1, WaitCalls, CheckCalls
  <1>4. Joined(u1, a, WaitIrq)
    BY <1>3, Join
  <1> HIDE DEF u1
  <1>5. Joined(u2, u1, CheckInt)
    BY <1>3, <1>4, Join DEF Joined
  <1> HIDE DEF u2
  <1>6. Joined(u3, u2, b)
    BY <1>3, <1>5, Join DEF Joined
  <1> HIDE DEF u3
  <1> QED
    BY <1>1, <1>2, <1>4, <1>5, <1>6, WaitCalls, CheckCalls DEF Joined

(* The calls of a turn of floppy_seek. *)
LEMMA SeekCalls ==
  /\ SeekTurn \in Seq(Calls) /\ Len(SeekTurn) = 7
  /\ SeekTurn[1] = "seek" /\ SeekTurn[2] = "wait" /\ SeekTurn[3] = "clear"
  /\ SeekTurn[4] = "check_int" /\ SeekTurn[5] = "st0" /\ SeekTurn[6] = "cyl"
  /\ SeekTurn[7] = "found?"
PROOF
  <1> DEFINE a == <<"seek">>
             b == <<"found?">>
             u1 == a \o WaitIrq
             u2 == u1 \o CheckInt
             u3 == u2 \o b
  <1>1. /\ a \in Seq(Calls) /\ Len(a) = 1 /\ a[1] = "seek"
        /\ b \in Seq(Calls) /\ Len(b) = 1 /\ b[1] = "found?"
    BY DEF Calls
  <1>2. SeekTurn = u3
    BY Zenon DEF SeekTurn
  <1> HIDE DEF a, b
  <1>3. a \in Seq(Calls) /\ WaitIrq \in Seq(Calls) /\ CheckInt \in Seq(Calls) /\ b \in Seq(Calls)
    BY <1>1, WaitCalls, CheckCalls
  <1>4. Joined(u1, a, WaitIrq)
    BY <1>3, Join
  <1> HIDE DEF u1
  <1>5. Joined(u2, u1, CheckInt)
    BY <1>3, <1>4, Join DEF Joined
  <1> HIDE DEF u2
  <1>6. Joined(u3, u2, b)
    BY <1>3, <1>5, Join DEF Joined
  <1> HIDE DEF u3
  <1> QED
    BY <1>1, <1>2, <1>4, <1>5, <1>6, WaitCalls, CheckCalls DEF Joined

(* The calls of floppy_reset before floppy_calibrate. *)
LEMMA BeginCalls ==
  /\ Begin \in Seq(Calls) /\ Len(Begin) = 18
  /\ Begin[1] = "disable" /\ Begin[2] = "enable" /\ Begin[3] = "wait"
  /\ Begin[4] = "clear" /\ Begin[5] = "check_int" /\ Begin[6] = "st0"
  /\ Begin[7] = "cyl" /\ Begin[8] = "check_int" /\ Begin[9] = "st0"
  /\ Begin[10] = "cyl" /\ Begin[11] = "check_int" /\ Begin[12] = "st0"
  /\ Begin[13] = "cyl" /\ Begin[14] = "check_int" /\ Begin[15] = "st0"
  /\ Begin[16] = "cyl" /\ Begin[17] = "specify_reset" /\ Begin[18] = "motor_on"
PROOF
  <1> DEFINE a == <<"disable", "enable">>
             b == <<"specify_reset", "motor_on">>
             u1 == a \o WaitIrq
             u2 == u1 \o CheckInt
             u3 == u2 \o CheckInt
             u4 == u3 \o CheckInt
             u5 == u4 \o CheckInt
             u6 == u5 \o b
  <1>1. /\ a \in Seq(Calls) /\ Len(a) = 2 /\ a[1] = "disable" /\ a[2] = "enable"
        /\ b \in Seq(Calls) /\ Len(b) = 2 /\ b[1] = "specify_reset" /\ b[2] = "motor_on"
    BY DEF Calls
  <1>2. Begin = u6
    BY Zenon DEF Begin
  <1> HIDE DEF a, b
  <1>3. a \in Seq(Calls) /\ WaitIrq \in Seq(Calls) /\ CheckInt \in Seq(Calls) /\ b \in Seq(Calls)
    BY <1>1, WaitCalls, CheckCalls
  <1>4. Joined(u1, a, WaitIrq)
    BY <1>3, Join
  <1> HIDE DEF u1
  <1>5. Joined(u2, u1, CheckInt)
    BY <1>3, <1>4, Join DEF Joined
  <1> HIDE DEF u2
  <1>6. Joined(u3, u2, CheckInt)
    BY <1>3, <1>5, Join DEF Joined
  <1> HIDE DEF u3
  <1>7. Joined(u4, u3, CheckInt)
    BY <1>3, <1>6, Join DEF Joined
  <1> HIDE DEF u4
  <1>8. Joined(u5, u4, CheckInt)
    BY <1>3, <1>7, Join DEF Joined
  <1> HIDE DEF u5
  <1>9. Joined(u6, u5, b)
    BY <1>3, <1>8, Join DEF Joined
  <1> HIDE DEF u6
  <1> QED
    BY <1>1, <1>2, <1>4, <1>5, <1>6, <1>7, <1>8, <1>9, WaitCalls, CheckCalls DEF Joined

(* The calls of floppy_initialize. *)
LEMMA StartCalls ==
  /\ Initialize \in Seq(Calls) /\ Len(Initialize) = 26
  /\ Initialize[1] = "disable" /\ Initialize[2] = "enable" /\ Initialize[3] = "wait"
  /\ Initialize[4] = "clear" /\ Initialize[5] = "check_int" /\ Initialize[6] = "st0"
  /\ Initialize[7] = "cyl" /\ Initialize[8] = "check_int" /\ Initialize[9] = "st0"
  /\ Initialize[10] = "cyl" /\ Initialize[11] = "check_int"
  /\ Initialize[12] = "st0" /\ Initialize[13] = "cyl"
  /\ Initialize[14] = "check_int" /\ Initialize[15] = "st0"
  /\ Initialize[16] = "cyl" /\ Initialize[17] = "specify_reset"
  /\ Initialize[18] = "motor_on" /\ Initialize[19] = "calibrate"
  /\ Initialize[20] = "wait" /\ Initialize[21] = "clear"
  /\ Initialize[22] = "check_int" /\ Initialize[23] = "st0"
  /\ Initialize[24] = "cyl" /\ Initialize[25] = "calibrated?"
  /\ Initialize[26] = "specify"
PROOF
  <1> DEFINE a == <<"specify">>
             u1 == Begin \o CalibrateTurn
             u2 == u1 \o a
  <1>1. /\ a \in Seq(Calls) /\ Len(a) = 1 /\ a[1] = "specify"
    BY DEF Calls
  <1>2. Initialize = u2
    BY Zenon DEF Initialize, Reset, Begin
  <1> HIDE DEF a
  <1>3. Begin \in Seq(Calls) /\ CalibrateTurn \in Seq(Calls) /\ a \in Seq(Calls)
    BY <1>1, BeginCalls, CalibrateCalls
  <1>4. Joined(u1, Begin, CalibrateTurn)
    BY <1>3, Join
  <1> HIDE DEF u1
  <1>5. Joined(u2, u1, a)
    BY <1>3, <1>4, Join DEF Joined
  <1> HIDE DEF u2
  <1> QED
    BY <1>1, <1>2, <1>4, <1>5, BeginCalls, CalibrateCalls DEF Joined

(* The calls that are left when floppy_calibrate has come to an end. *)
LEMMA StopCalls ==
  /\ StopMotor \in Seq(Calls) /\ Len(StopMotor) = 2
  /\ StopMotor[1] = "motor_off" /\ StopMotor[2] = "specify"
PROOF
  <1> DEFINE a == <<"motor_off">>
             b == <<"specify">>
             u1 == a \o b
  <1>1. /\ a \in Seq(Calls) /\ Len(a) = 1 /\ a[1] = "motor_off"
        /\ b \in Seq(Calls) /\ Len(b) = 1 /\ b[1] = "specify"
    BY DEF Calls
  <1>2. StopMotor = u1
    BY Zenon DEF StopMotor
  <1> HIDE DEF a, b
  <1>3. a \in Seq(Calls) /\ b \in Seq(Calls)
    BY <1>1
  <1>4. Joined(u1, a, b)
    BY <1>3, Join
  <1> HIDE DEF u1
  <1> QED
    BY <1>1, <1>2, <1>4 DEF Joined

(* The calls of floppy_read up to the end of a turn of floppy_seek. *)
LEMMA TurnCalls ==
  /\ FirstTurn \in Seq(Calls) /\ Len(FirstTurn) = 8
  /\ FirstTurn[1] = "motor_on" /\ FirstTurn[2] = "seek" /\ FirstTurn[3] = "wait"
  /\ FirstTurn[4] = "clear" /\ FirstTurn[5] = "check_int" /\ FirstTurn[6] = "st0"
  /\ FirstTurn[7] = "cyl" /\ FirstTurn[8] = "found?"
PROOF
  <1> DEFINE a == <<"motor_on">>
             u1 == a \o SeekTurn
  <1>1. /\ a \in Seq(Calls) /\ Len(a) = 1 /\ a[1] = "motor_on"
    BY DEF Calls
  <1>2. FirstTurn = u1
    BY Zenon DEF FirstTurn
  <1> HIDE DEF a
  <1>3. a \in Seq(Calls) /\ SeekTurn \in Seq(Calls)
    BY <1>1, SeekCalls
  <1>4. Joined(u1, a, SeekTurn)
    BY <1>3, Join
  <1> HIDE DEF u1
  <1> QED
    BY <1>1, <1>2, <1>4, SeekCalls DEF Joined

(* The calls of floppy_read after floppy_seek. *)
LEMMA ReadCalls ==
  /\ ReadSector \in Seq(Calls) /\ Len(ReadSector) = 16
  /\ ReadSector[1] = "dma" /\ ReadSector[2] = "read" /\ ReadSector[3] = "wait"
  /\ ReadSector[4] = "clear" /\ ReadSector[5] = "result" /\ ReadSector[6] = "result"
  /\ ReadSector[7] = "result" /\ ReadSector[8] = "result"
  /\ ReadSector[9] = "result" /\ ReadSector[10] = "result"
  /\ ReadSector[11] = "result" /\ ReadSector[12] = "check_int"
  /\ ReadSector[13] = "st0" /\ ReadSector[14] = "cyl"
  /\ ReadSector[15] = "motor_off" /\ ReadSector[16] = "return"
PROOF
  <1> DEFINE a == <<"dma", "read">>
             b == <<"motor_off", "return">>
             u1 == a \o WaitIrq
             u2 == u1 \o Fetch
             u3 == u2 \o CheckInt
             u4 == u3 \o b
  <1>1. /\ a \in Seq(Calls) /\ Len(a) = 2 /\ a[1] = "dma" /\ a[2] = "read"
        /\ b \in Seq(Calls) /\ Len(b) = 2 /\ b[1] = "motor_off" /\ b[2] = "return"
    BY DEF Calls
  <1>2. ReadSector = u4
    BY Zenon DEF ReadSector
  <1> HIDE DEF a, b
  <1>3. a \in Seq(Calls) /\ WaitIrq \in Seq(Calls) /\ Fetch \in Seq(Calls) /\ CheckInt \in Seq(Calls) /\ b \in Seq(Calls)
    BY <1>1, WaitCalls, FetchCalls, CheckCalls
  <1>4. Joined(u1, a, WaitIrq)
    BY <1>3, Join
  <1> HIDE DEF u1
  <1>5. Joined(u2, u1, Fetch)
    BY <1>3, <1>4, Join DEF Joined
  <1> HIDE DEF u2
  <1>6. Joined(u3, u2, CheckInt)
    BY <1>3, <1>5, Join DEF Joined
  <1> HIDE DEF u3
  <1>7. Joined(u4, u3, b)
    BY <1>3, <1>6, Join DEF Joined
  <1> HIDE DEF u4
  <1> QED
    BY <1>1, <1>2, <1>4, <1>5, <1>6, <1>7, WaitCalls, FetchCalls, CheckCalls DEF Joined

(* The calls of p from the k-th on. *)
Rest(p, k) == SubSeq(p, k, Len(p))

(* A call is made: the rest begins with it, and becomes the next rest. *)
LEMMA RestStep ==
  ASSUME NEW p \in Seq(Calls), NEW k \in 1..Len(p)
  PROVE  Rest(p, k) # <<>> /\ Head(Rest(p, k)) = p[k] /\ Tail(Rest(p, k)) = Rest(p, k + 1)
PROOF
  <1>1. Len(Rest(p, k)) = Len(p) - k + 1
    BY SubSeqProperties DEF Rest
  <1>2. Head(Rest(p, k)) = p[k] /\ Tail(Rest(p, k)) = Rest(p, k + 1)
    BY HeadTailOfSubSeq DEF Rest
  <1> QED
    BY <1>1, <1>2

(* The rest from the first call on, and after the last one. *)
LEMMA RestEnds ==
  ASSUME NEW p \in Seq(Calls)
  PROVE  Rest(p, 1) = p /\ Rest(p, Len(p) + 1) = <<>>
PROOF
  BY SubSeqFull, SubSeqEmpty DEF Rest

(* The rest after the first of two sequences is the second. *)
LEMMA RestJoined ==
  ASSUME NEW s \in Seq(Calls), NEW t \in Seq(Calls)
  PROVE  Rest(s \o t, Len(s) + 1) = t
PROOF
  <1> DEFINE u == s \o t
             r == Rest(u, Len(s) + 1)
  <1>1. Joined(u, s, t)
    BY Join
  <1> HIDE DEF u
  <1>2. Len(s) \in Nat /\ Len(t) \in Nat
    OBVIOUS
  <1>3. \A k \in 1..Len(u) : u[k] \in Calls
    BY <1>1 DEF Joined
  <1>4. /\ r \in Seq(Calls) /\ Len(r) = Len(t)
        /\ \A k \in 1..Len(t) : r[k] = u[Len(s) + k]
    <2>1. \A k \in (Len(s) + 1)..Len(u) : u[k] \in Calls
      BY <1>2, <1>3
    <2>2. /\ r \in Seq(Calls)
          /\ Len(r) = IF Len(s) + 1 <= Len(u) THEN Len(u) - (Len(s) + 1) + 1 ELSE 0
          /\ \A k \in 1..(Len(u) - (Len(s) + 1) + 1) : r[k] = u[(Len(s) + 1) + k - 1]
      BY <2>1, <1>1, <1>2, SubSeqProperties, SMTT(40) DEF Rest, Joined
    <2> HIDE DEF r
    <2> QED BY <2>2, <1>1, <1>2 DEF Joined
  <1> HIDE DEF r
  <1>5. ASSUME NEW k \in 1..Len(t) PROVE r[k] = t[k]
    <2>1. Len(s) + k \in 1..(Len(s) + Len(t)) /\ ~(Len(s) + k <= Len(s)) /\ (Len(s) + k) - Len(s) = k
      BY <1>2
    <2>2. u[Len(s) + k] = t[(Len(s) + k) - Len(s)]
      BY <1>1, <2>1 DEF Joined
    <2> QED BY <1>4, <2>1, <2>2
  <1>6. r = t
    BY <1>4, <1>5, SeqEqual, Zenon
  <1> QED
    BY <1>6 DEF r, u

(* Where the loops go back to, and where floppy_calibrate goes on. *)
LEMMA Turns ==
  /\ Rest(Initialize, 26) = <<"specify">>
  /\ CalibrateTurn \o <<"specify">> = Rest(Initialize, 19)
  /\ SeekTurn = Rest(FirstTurn, 2)
PROOF
  <1> DEFINE a == <<"specify">>
             b == <<"motor_on">>
  <1>1. a \in Seq(Calls) /\ b \in Seq(Calls) /\ Len(b) = 1
    BY DEF Calls
  <1>2. /\ Begin \in Seq(Calls) /\ Len(Begin) = 18
        /\ CalibrateTurn \in Seq(Calls) /\ Len(CalibrateTurn) = 7
        /\ SeekTurn \in Seq(Calls)
    BY BeginCalls, CalibrateCalls, SeekCalls
  <1>3. Initialize = (Begin \o CalibrateTurn) \o a /\ FirstTurn = b \o SeekTurn
    BY Zenon DEF Initialize, Reset, Begin, FirstTurn
  <1> HIDE DEF a, b
  <1>4. (Begin \o CalibrateTurn) \in Seq(Calls) /\ Len(Begin \o CalibrateTurn) = 25
    <2>1. Joined(Begin \o CalibrateTurn, Begin, CalibrateTurn)
      BY <1>2, Join, Zenon
    <2> DEFINE u == Begin \o CalibrateTurn
    <2> HIDE DEF u
    <2>2. u \in Seq(Calls) /\ Len(u) = 25
      BY <2>1, <1>2 DEF Joined, u
    <2> QED BY <2>2 DEF u
  <1>5. Rest(Initialize, 26) = a
    <2>1. Rest((Begin \o CalibrateTurn) \o a, Len(Begin \o CalibrateTurn) + 1) = a
      BY <1>1, <1>4, RestJoined, Zenon
    <2>2. Len(Begin \o CalibrateTurn) + 1 = 26
      BY <1>4
    <2> QED BY <2>1, <2>2, <1>3, Zenon
  <1>6. CalibrateTurn \o a = Rest(Initialize, 19)
    <2>1. Initialize = Begin \o (CalibrateTurn \o a)
      <3>1. Begin \in Seq(Calls) /\ CalibrateTurn \in Seq(Calls) /\ a \in Seq(Calls)
        BY <1>1, <1>2
      <3>2. (Begin \o CalibrateTurn) \o a = Begin \o (CalibrateTurn \o a)
        BY ONLY <3>1, ConcatAssociative
      <3> QED BY <3>2, <1>3
    <2>2. CalibrateTurn \o a \in Seq(Calls)
      <3>1. Joined(CalibrateTurn \o a, CalibrateTurn, a)
        BY <1>1, <1>2, Join, Zenon
      <3> QED BY <3>1, Zenon DEF Joined
    <2>3. Rest(Begin \o (CalibrateTurn \o a), Len(Begin) + 1) = CalibrateTurn \o a
      BY <1>2, <2>2, RestJoined, Zenon
    <2>4. Len(Begin) + 1 = 19
      BY <1>2
    <2> QED BY <2>1, <2>3, <2>4, Zenon
  <1>7. SeekTurn = Rest(FirstTurn, 2)
    <2>1. Rest(b \o SeekTurn, Len(b) + 1) = SeekTurn
      BY <1>1, <1>2, RestJoined, Zenon
    <2>2. Len(b) + 1 = 2
      BY <1>1
    <2> QED BY <2>1, <2>2, <1>3, Zenon
  <1> QED
    BY <1>5, <1>6, <1>7 DEF a

-----------------------------------------------------------------------------
(* The inductive invariant.                                                *)

(* What the three commands look like. *)
CalibrateCommand == [op |-> "calibrate", drive |-> CurrentDrive, track |-> 0]
SeekCommand == [op |-> "seek", drive |-> CurrentDrive, track |-> TrackOf(want)]
ReadCommand == [op |-> "read", drive |-> CurrentDrive, head |-> HeadOf(want),
                track |-> TrackOf(want), sector |-> SectorOf(want)]

(* Between commands nothing runs and no interrupt is left over. *)
Quiet == exec = NoCommand /\ irq = FALSE /\ FloppyDiskIRQ = 0

(* The command has ended: its interrupt is raised, or it has been taken. *)
Ended ==
  /\ exec = NoCommand
  /\ \/ irq = TRUE /\ FloppyDiskIRQ = 0
     \/ irq = FALSE /\ FloppyDiskIRQ = 1

(* The end of the command has been seen and the flag is still to be cleared. *)
Seen == exec = NoCommand /\ irq = FALSE /\ FloppyDiskIRQ = 1

(* Where the command is when the driver's next call is `call'. *)
InPhase(call, command) ==
  /\ call = "wait" => \/ exec = command /\ irq = FALSE /\ FloppyDiskIRQ = 0
                      \/ Ended
  /\ call = "clear" => Seen
  /\ call # "wait" /\ call # "clear" => Quiet

(* The bytes of a sense command that are still to be fetched. *)
Bytes(call) == IF call = "st0" THEN 2 ELSE IF call = "cyl" THEN 1 ELSE 0

(* The kinds of values the variables hold. *)
Kinds ==
  /\ i \in Nat /\ i < MaxTries /\ cyl \in Nat
  /\ CurrentDrive \in Usable /\ DMA_BUFFER \in Buffers
  /\ want \in Sectors \cup {None} /\ result \in {"none", "buffer", "null"}
  /\ dor.motor \in Usable \cup {None} /\ dor.gate \in BOOLEAN /\ nondma \in BOOLEAN
  /\ results \in Seq(Nat) /\ senses \in Seq(Nat) /\ heads \in [Usable -> Nat]

(* The address and the count of the channel fit their registers. *)
DmaKinds ==
  \E a, c \in Nat : \E h, m, o :
    dma = Registers(a, c, h, m, o) /\ a < DmaLimit /\ c < DmaLimit

(* How many interrupts are to be asked for at the k-th call of Initialize. *)
Due(k) ==
  /\ k <= 2 => Len(senses) = 0
  /\ 3 <= k /\ k <= 5 => Len(senses) = 4
  /\ 6 <= k /\ k <= 8 => Len(senses) = 3
  /\ 9 <= k /\ k <= 11 => Len(senses) = 2
  /\ 12 <= k /\ k <= 14 => Len(senses) = 1
  /\ 15 <= k /\ k <= 19 => Len(senses) = 0
  /\ k = 20 => Len(senses) = IF exec = NoCommand THEN 1 ELSE 0
  /\ 21 <= k /\ k <= 22 => Len(senses) = 1
  /\ 23 <= k => Len(senses) = 0

(* In floppy_initialize, before its k-th call. *)
Starting(k) ==
  /\ todo = Rest(Initialize, k)
  /\ InPhase(Initialize[k], CalibrateCommand)
  /\ Len(results) = Bytes(Initialize[k])
  /\ Due(k)
  /\ k = 3 => Ended
  /\ 18 <= k => ~nondma

(* Between two calls of the driver, with everything fetched. *)
Settled == Quiet /\ results = <<>> /\ senses = <<>> /\ ~nondma

(* After floppy_calibrate. *)
Stopping(k) ==
  /\ todo = Rest(StopMotor, k)
  /\ Settled
  /\ k = 2 => dor.motor = None

(* Between the calls of floppy_read. *)
Idle ==
  /\ todo = <<>>
  /\ Settled
  /\ result # "null" => dor.motor = None

(* In floppy_read, up to the end of a turn of floppy_seek: the sense bytes say
   where the head of the current drive is. *)
Seeking(k) ==
  /\ todo = Rest(FirstTurn, k)
  /\ want \in Sectors /\ ~nondma
  /\ 2 <= k => dor.motor = CurrentDrive
  /\ InPhase(FirstTurn[k], SeekCommand)
  /\ senses = IF k \in {4, 5} \/ (k = 3 /\ exec = NoCommand) THEN <<heads[CurrentDrive]>> ELSE <<>>
  /\ results = IF k = 6 THEN <<32, heads[CurrentDrive]>>
               ELSE IF k = 7 THEN <<heads[CurrentDrive]>> ELSE <<>>
  /\ k = 8 => cyl = heads[CurrentDrive]

(* The channel is open, and set to the buffer if that was accepted. *)
Channel ==
  /\ dma.masked = 0 /\ dma.mode = DMA_MODE_READ_TRANSFER
  /\ ~BufferIssue(DMA_BUFFER) => dma.addr = DMA_BUFFER % DmaLimit /\ dma.count = 511

(* The read has ended: with an error, or with the sector in the buffer. *)
Filled ==
  moved # ReadError /\ ~BufferIssue(DMA_BUFFER) =>
    /\ moved.state = "done" /\ moved.lba = want /\ moved.drive = CurrentDrive
    /\ moved.addr = DMA_BUFFER % DmaLimit /\ moved.length = 512

(* In floppy_read, after floppy_seek. *)
Reading(k) ==
  /\ todo = Rest(ReadSector, k)
  /\ want \in Sectors /\ ~nondma /\ senses = <<>>
  /\ heads[CurrentDrive] = TrackOf(want)
  /\ dor.motor = IF k = 16 THEN None ELSE CurrentDrive
  /\ InPhase(ReadSector[k], ReadCommand)
  /\ k = 2 \/ (k = 3 /\ exec # NoCommand) => Channel
  /\ 4 <= k \/ (k = 3 /\ exec = NoCommand) => Filled
  /\ k <= 2 \/ (k = 3 /\ exec # NoCommand) => results = <<>>
  /\ k = 3 /\ exec = NoCommand => Len(results) = 7
  /\ k = 4 => Len(results) = 7
  /\ 5 <= k /\ k <= 12 => Len(results) = 12 - k
  /\ k = 13 => Len(results) = 1
  /\ 14 <= k => results = <<>>

(* The driver is at one of its calls, and the controller is where that call
   needs it. *)
Placed ==
  \/ Idle
  \/ \E k \in 1..25 : Starting(k)
  \/ \E k \in 1..2 : Stopping(k)
  \/ \E k \in 1..8 : Seeking(k)
  \/ \E k \in 1..16 : Reading(k)

Inv == Kinds /\ DmaKinds /\ Placed

(* At a call of a sequence: the next call is that one, and when it has been made
   the rest of the sequence is left. *)
LEMMA At ==
  ASSUME NEW p \in Seq(Calls), NEW k \in 1..Len(p), todo = Rest(p, k)
  PROVE  /\ todo # <<>>
         /\ \A call : Do(call) <=> p[k] = call
         /\ Done <=> todo' = Rest(p, k + 1)
PROOF
  <1>1. todo # <<>> /\ Head(todo) = p[k] /\ Tail(todo) = Rest(p, k + 1)
    BY RestStep
  <1>2. \A call : Do(call) <=> p[k] = call
    BY <1>1, Zenon DEF Do
  <1>3. Done <=> todo' = Rest(p, k + 1)
    BY <1>1, Zenon DEF Done
  <1> QED
    BY <1>1, <1>2, <1>3

(* What the calls of Initialize are. *)
LEMMA StartIs ==
  ASSUME NEW k
  PROVE  /\ k = 1 => Initialize[k] = "disable"
         /\ k = 2 => Initialize[k] = "enable"
         /\ k \in {3, 20} => Initialize[k] = "wait"
         /\ k \in {4, 21} => Initialize[k] = "clear"
         /\ k \in {5, 8, 11, 14, 22} => Initialize[k] = "check_int"
         /\ k \in {6, 9, 12, 15, 23} => Initialize[k] = "st0"
         /\ k \in {7, 10, 13, 16, 24} => Initialize[k] = "cyl"
         /\ k = 17 => Initialize[k] = "specify_reset"
         /\ k = 18 => Initialize[k] = "motor_on"
         /\ k = 19 => Initialize[k] = "calibrate"
         /\ k = 25 => Initialize[k] = "calibrated?"
PROOF
  <1>1. /\ k = 1 => Initialize[k] = "disable"
        /\ k = 2 => Initialize[k] = "enable"
        /\ k = 17 => Initialize[k] = "specify_reset"
        /\ k = 18 => Initialize[k] = "motor_on"
        /\ k = 19 => Initialize[k] = "calibrate"
        /\ k = 25 => Initialize[k] = "calibrated?"
    BY StartCalls
  <1>2. k \in {3, 20} => Initialize[k] = "wait"
    BY StartCalls, Zenon
  <1>3. k \in {4, 21} => Initialize[k] = "clear"
    BY StartCalls, Zenon
  <1>4. k \in {5, 8, 11, 14, 22} => Initialize[k] = "check_int"
    BY StartCalls, Zenon
  <1>5. k \in {6, 9, 12, 15, 23} => Initialize[k] = "st0"
    BY StartCalls, Zenon
  <1>6. k \in {7, 10, 13, 16, 24} => Initialize[k] = "cyl"
    BY StartCalls, Zenon
  <1> QED
    BY ONLY <1>1, <1>2, <1>3, <1>4, <1>5, <1>6, Zenon

(* Which of the calls of Initialize is next. *)
LEMMA StartAt ==
  ASSUME NEW k \in 1..25
  PROVE  \/ k = 1 /\ Initialize[k] = "disable"
         \/ k = 2 /\ Initialize[k] = "enable"
         \/ k \in {3, 20} /\ Initialize[k] = "wait"
         \/ k \in {4, 21} /\ Initialize[k] = "clear"
         \/ k \in {5, 8, 11, 14, 22} /\ Initialize[k] = "check_int"
         \/ k \in {6, 9, 12, 15, 23} /\ Initialize[k] = "st0"
         \/ k \in {7, 10, 13, 16, 24} /\ Initialize[k] = "cyl"
         \/ k = 17 /\ Initialize[k] = "specify_reset"
         \/ k = 18 /\ Initialize[k] = "motor_on"
         \/ k = 19 /\ Initialize[k] = "calibrate"
         \/ k = 25 /\ Initialize[k] = "calibrated?"
PROOF
  <1>1. \/ k = 1 \/ k = 2 \/ k = 17 \/ k = 18 \/ k = 19 \/ k = 25
        \/ k \in {3, 20} \/ k \in {4, 21} \/ k \in {5, 8, 11, 14, 22}
        \/ k \in {6, 9, 12, 15, 23} \/ k \in {7, 10, 13, 16, 24}
    OBVIOUS
  <1> QED
    BY <1>1, StartIs

(* The same for the calls up to the end of a turn of floppy_seek. *)
LEMMA SeekAt ==
  ASSUME NEW k \in 1..8
  PROVE  \/ k = 1 /\ FirstTurn[k] = "motor_on"
         \/ k = 2 /\ FirstTurn[k] = "seek"
         \/ k = 3 /\ FirstTurn[k] = "wait"
         \/ k = 4 /\ FirstTurn[k] = "clear"
         \/ k = 5 /\ FirstTurn[k] = "check_int"
         \/ k = 6 /\ FirstTurn[k] = "st0"
         \/ k = 7 /\ FirstTurn[k] = "cyl"
         \/ k = 8 /\ FirstTurn[k] = "found?"
PROOF
  BY TurnCalls

(* The same for the calls after floppy_seek. *)
LEMMA ReadAt ==
  ASSUME NEW k \in 1..16
  PROVE  \/ k = 1 /\ ReadSector[k] = "dma"
         \/ k = 2 /\ ReadSector[k] = "read"
         \/ k = 3 /\ ReadSector[k] = "wait"
         \/ k = 4 /\ ReadSector[k] = "clear"
         \/ k \in {5, 6, 7, 8, 9, 10, 11} /\ ReadSector[k] = "result"
         \/ k = 12 /\ ReadSector[k] = "check_int"
         \/ k = 13 /\ ReadSector[k] = "st0"
         \/ k = 14 /\ ReadSector[k] = "cyl"
         \/ k = 15 /\ ReadSector[k] = "motor_off"
         \/ k = 16 /\ ReadSector[k] = "return"
PROOF
  BY ReadCalls

(* The steps of floppy_initialize up to the end of a turn of floppy_calibrate. *)
LEMMA StartingStep ==
  ASSUME Kinds, NEW k \in 1..25, Starting(k), Driver \/ Controller \/ floppy_irq
  PROVE  Placed'
PROOF
  <1> USE FloppyAssumption
  <1> DEFINE call == Initialize[k]
  <1>1. /\ todo # <<>> /\ \A c : Do(c) <=> call = c
        /\ Done <=> todo' = Rest(Initialize, k + 1)
    <2>1. Initialize \in Seq(Calls) /\ k \in 1..Len(Initialize) /\ todo = Rest(Initialize, k)
      BY StartCalls DEF Starting
    <2> QED BY ONLY <2>1, At, Zenon
  <1>0. \/ k = 1 /\ call = "disable"
        \/ k = 2 /\ call = "enable"
        \/ k \in {3, 20} /\ call = "wait"
        \/ k \in {4, 21} /\ call = "clear"
        \/ k \in {5, 8, 11, 14, 22} /\ call = "check_int"
        \/ k \in {6, 9, 12, 15, 23} /\ call = "st0"
        \/ k \in {7, 10, 13, 16, 24} /\ call = "cyl"
        \/ k = 17 /\ call = "specify_reset"
        \/ k = 18 /\ call = "motor_on"
        \/ k = 19 /\ call = "calibrate"
        \/ k = 25 /\ call = "calibrated?"
    BY StartAt, Zenon
  <1>19. InPhase(call, CalibrateCommand) /\ Len(results) = Bytes(call) /\ Due(k) /\ (k = 3 => Ended)
        /\ (18 <= k => ~nondma)
    BY DEF Starting
  <1> HIDE DEF call
  <1>2. Len(results) \in Nat /\ Len(senses) \in Nat
    BY DEF Kinds
  <1>3. ASSUME NEW n \in 1..25, Starting(n)' PROVE Placed'
    BY <1>3 DEF Placed
  <1>4. k + 1 \in 1..26
    OBVIOUS
  <1>5. CASE floppy_disable_controller
    <2>1. k = 1
      BY <1>1, <1>5, <1>0 DEF floppy_disable_controller
    <2>2. Starting(2)'
      BY <1>1, <1>5, <2>1, StartCalls
      DEF floppy_disable_controller, driver, Starting, Due, InPhase, Quiet, Bytes
    <2> QED BY <2>2, <1>3
  <1>6. CASE floppy_enable_controller
    <2>1. k = 2
      BY <1>1, <1>6, <1>0 DEF floppy_enable_controller
    <2>2. Starting(3)'
      BY <1>1, <1>6, <2>1, StartCalls
      DEF floppy_enable_controller, driver, Starting, Due, InPhase, Quiet, Ended, Bytes
    <2> QED BY <2>2, <1>3
  <1>7. CASE floppy_control_motor("motor_on", MotorOn)
    <2>1. k = 18
      BY <1>1, <1>7, <1>0 DEF floppy_control_motor
    <2>2. Starting(19)'
      BY <1>1, <1>7, <2>1, StartCalls
      DEF floppy_control_motor, driver, Starting, Due, InPhase, Quiet, Bytes
    <2> QED BY <2>2, <1>3
  <1>8. CASE SendCalibrate
    <2>1. k = 19
      BY <1>1, <1>8, <1>0 DEF SendCalibrate, Send
    <2>2. Quiet /\ results = <<>>
      BY <1>0, <1>19, <2>1, <1>2 DEF InPhase, Bytes, Kinds
    <2>3. exec' = CalibrateCommand /\ CalibrateCommand' = CalibrateCommand
      BY <1>8, <2>2 DEF SendCalibrate, Send, Ready, Quiet, CalibrateCommand, driver
    <2>4. exec' # NoCommand
      BY <2>3 DEF CalibrateCommand, NoCommand
    <2>5. Starting(20)'
      BY <1>1, <1>8, <2>1, <2>2, <2>3, <2>4, StartCalls
      DEF SendCalibrate, Send, driver, Starting, Due, InPhase, Quiet, Bytes
    <2> QED BY <2>5, <1>3
  <1>9. CASE floppy_drive_data("specify_reset", 16)
    <2>1. k = 17
      BY <1>1, <1>9, <1>0 DEF floppy_drive_data
    <2>2. Quiet /\ results = <<>>
      BY <1>0, <1>19, <2>1, <1>2 DEF InPhase, Bytes, Kinds
    <2>3. ~nondma'
      <3>1. Ready
        BY <2>2 DEF Ready, Quiet
      <3>2. SpecifyByte(16) = 0 /\ 0 % 2 # 1
        BY DEF SpecifyByte
      <3> QED BY <1>9, <3>1, <3>2 DEF floppy_drive_data
    <2>4. Starting(18)'
      BY <1>1, <1>9, <2>1, <2>2, <2>3, StartCalls
      DEF floppy_drive_data, driver, Starting, Due, InPhase, Quiet, Bytes
    <2> QED BY <2>4, <1>3
  <1>10. CASE floppy_check_int
    <2>1. k \in {5, 8, 11, 14, 22}
      BY <1>1, <1>10, <1>0 DEF floppy_check_int
    <2>2. Quiet /\ results = <<>>
      BY <1>0, <1>19, <2>1, <1>2 DEF InPhase, Bytes, Kinds
    <2>3. senses # <<>> /\ Len(senses) >= 1
      <3>1. Len(senses) \in {1, 2, 3, 4}
        BY <2>1, <1>19 DEF Due
      <3> QED BY <3>1
    <2>4. Len(results') = 2 /\ Len(senses') = Len(senses) - 1
      BY <1>10, <2>2, <2>3 DEF floppy_check_int, Ready, Quiet, Kinds
    <2>5. Quiet' /\ nondma' = nondma
      BY <1>10, <2>2 DEF floppy_check_int, driver, Quiet
    <2>6. Due(k + 1)'
      BY <2>1, <2>4, <1>19 DEF Due
    <2>7. Initialize[k + 1] = "st0" /\ k + 1 \in 1..25
      <3>1. k + 1 \in {6, 9, 12, 15, 23}
        BY <2>1
      <3> QED BY <3>1, StartIs
    <2>8. Starting(k + 1)'
      BY <1>1, <1>10, <2>1, <2>4, <2>5, <2>6, <2>7
      DEF floppy_check_int, Starting, InPhase, Bytes
    <2> QED BY <2>7, <2>8, <1>3
  <1>11. CASE floppy_read_data("st0") \/ floppy_read_data("cyl") \/ floppy_read_data("result")
    <2>1. PICK c \in {"st0", "cyl", "result"} : floppy_read_data(c)
      BY <1>11
    <2>2. k \in {6, 9, 12, 15, 23} \/ k \in {7, 10, 13, 16, 24}
      BY <1>1, <2>1, <1>0 DEF floppy_read_data
    <2>3. Quiet /\ results # <<>> /\ Len(results) = Bytes(call)
      <3>1. call \in {"st0", "cyl"}
        BY <1>0, <2>2
      <3>2. Quiet /\ Len(results) = Bytes(call) /\ Len(results) # 0
        BY <3>1, <1>19 DEF InPhase, Bytes
      <3> QED BY <3>2
    <2>4. Len(results') = Len(results) - 1
      BY <2>1, <2>3 DEF floppy_read_data, Kinds
    <2>5. Quiet' /\ nondma' = nondma /\ senses' = senses /\ exec' = exec
      BY <2>1, <2>3 DEF floppy_read_data, Quiet
    <2>6. Due(k + 1)'
      BY <2>2, <2>5, <1>19 DEF Due
    <2>7. k + 1 \in 1..25
      BY <2>2
    <2>8. Len(results') = Bytes(Initialize[k + 1]) /\ Initialize[k + 1] # "wait" /\ Initialize[k + 1] # "clear"
      <3>1. CASE k \in {6, 9, 12, 15, 23}
        <4>1. Initialize[k + 1] = "cyl" /\ call = "st0"
          <5>1. k + 1 \in {7, 10, 13, 16, 24}
            BY <3>1
          <5> QED BY <3>1, <5>1, <1>0, StartIs
        <4> QED BY <4>1, <2>3, <2>4 DEF Bytes
      <3>2. CASE k \in {7, 10, 13, 16, 24}
        <4>1. Initialize[k + 1] \in {"check_int", "specify_reset", "calibrated?"} /\ call = "cyl"
          <5>1. k + 1 \in {5, 8, 11, 14, 22} \/ k + 1 = 17 \/ k + 1 = 25
            BY <3>2
          <5> QED BY <3>2, <5>1, <1>0, StartIs
        <4> QED BY <4>1, <2>3, <2>4 DEF Bytes
      <3> QED BY <2>2, <3>1, <3>2
    <2>9. k + 1 # 3 /\ (18 <= k + 1 => ~nondma)
      BY <2>2, <1>19
    <2>10. todo' = Rest(Initialize, k + 1)
      BY <1>1, <2>1 DEF floppy_read_data
    <2>11. Starting(k + 1)'
      BY <2>5, <2>6, <2>8, <2>9, <2>10 DEF Starting, InPhase
    <2> QED BY <2>7, <2>11, <1>3
  <1>12. CASE IrqSeen
    <2>1. k \in {3, 20} /\ Ended /\ FloppyDiskIRQ = 1
      BY <1>1, <1>12, <1>0, <1>19 DEF IrqSeen, InPhase, Ended
    <2>2. Seen' /\ exec = NoCommand
      BY <1>12, <2>1 DEF IrqSeen, Ended, Seen, driver, chip
    <2>3. results' = results /\ senses' = senses /\ nondma' = nondma /\ todo' = Rest(Initialize, k + 1)
      BY <1>1, <1>12 DEF IrqSeen, chip
    <2>4. k + 1 \in {4, 21} /\ Initialize[k + 1] = "clear"
      <3>1. k + 1 \in {4, 21}
        BY <2>1
      <3> QED BY <3>1, StartIs
    <2>5. Len(results) = 0 /\ Due(k + 1)' /\ (18 <= k + 1 => ~nondma)
      BY <1>0, <1>19, <2>1, <2>2, <2>3 DEF Bytes, Due, Seen, Quiet
    <2>6. Starting(k + 1)'
      BY <2>2, <2>3, <2>4, <2>5 DEF Starting, InPhase, Bytes
    <2> QED BY <2>1, <2>6, <1>3
  <1>13. CASE ClearIrq
    <2>1. k \in {4, 21} /\ Seen
      BY <1>1, <1>13, <1>0, <1>19 DEF ClearIrq, InPhase
    <2>2. Quiet'
      BY <1>13, <2>1 DEF ClearIrq, Seen, Quiet, chip
    <2>3. results' = results /\ senses' = senses /\ nondma' = nondma /\ todo' = Rest(Initialize, k + 1)
      BY <1>1, <1>13 DEF ClearIrq, chip
    <2>4. k + 1 \in {5, 22} /\ Initialize[k + 1] = "check_int"
      <3>1. k + 1 \in {5, 22}
        BY <2>1
      <3> QED BY <3>1, StartIs
    <2>5. Len(results) = 0 /\ Due(k + 1)' /\ (18 <= k + 1 => ~nondma)
      BY <1>0, <1>19, <2>1, <2>2, <2>3 DEF Bytes, Due, Seen, Quiet
    <2>6. Starting(k + 1)'
      BY <2>2, <2>3, <2>4, <2>5 DEF Starting, InPhase, Bytes
    <2> QED BY <2>1, <2>6, <1>3
  <1>14. CASE Calibrated
    <2>1. k = 25 /\ Tail(todo) = <<"specify">>
      <3>1. k = 25
        BY <1>0, <1>1, <1>14 DEF Calibrated
      <3>2. Initialize \in Seq(Calls) /\ 25 \in 1..Len(Initialize) /\ todo = Rest(Initialize, 25)
        BY <3>1, StartCalls DEF Starting
      <3>3. Tail(todo) = Rest(Initialize, 25 + 1)
        BY ONLY <3>2, RestStep, Zenon
      <3>4. Tail(todo) = <<"specify">>
        <4>1. 25 + 1 = 26
          OBVIOUS
        <4> QED BY <3>3, <4>1, Turns, Zenon
      <3> QED BY <3>1, <3>4
    <2>2. Quiet /\ Len(results) = 0 /\ Len(senses) = 0 /\ ~nondma
      BY <2>1, StartCalls DEF Starting, InPhase, Due, Bytes
    <2>3. /\ results' = results /\ senses' = senses /\ nondma' = nondma
          /\ Quiet'
      BY <1>14, <2>2 DEF Calibrated, chip, Quiet
    <2>4. CASE cyl = 0 \/ i + 1 = MaxTries
      <3>1. todo' = StopMotor
        BY <1>14, <2>1, <2>4 DEF Calibrated, StopMotor
      <3>2. StopMotor = Rest(StopMotor, 1)
        BY StopCalls, RestEnds
      <3>3. results = <<>> /\ senses = <<>>
        BY <2>2 DEF Kinds
      <3>4. Stopping(1)'
        BY <3>1, <3>2, <3>3, <2>2, <2>3 DEF Stopping, Settled
      <3> QED BY <3>4 DEF Placed
    <2>5. CASE ~(cyl = 0 \/ i + 1 = MaxTries)
      <3>1. todo' = Rest(Initialize, 19)
        BY <1>14, <2>1, <2>5, Turns DEF Calibrated
      <3>2. Starting(19)'
        BY <3>1, <2>2, <2>3, StartCalls DEF Starting, InPhase, Due, Bytes
      <3> QED BY <3>2, <1>3
    <2> QED BY <2>4, <2>5
  <1>15. CASE Positioned
    <2>1. exec.op \in {"calibrate", "seek"} /\ exec # NoCommand
      BY <1>15 DEF Positioned, NoCommand
    <2>2. k = 20 /\ irq = FALSE /\ FloppyDiskIRQ = 0
      BY <2>1, <1>0, <1>19 DEF InPhase, Ended, Seen, Quiet
    <2>3. Ended'
      BY <1>15, <2>2 DEF Positioned, Ended, driver
    <2>4. PICK x \in {exec.track} \cup Misses : senses' = Append(senses, x)
      BY <1>15 DEF Positioned
    <2>5. exec.track \in Nat
      <3>1. exec = CalibrateCommand
        BY <1>0, <1>19, <2>1, <2>2 DEF InPhase, Ended
      <3> QED BY <3>1 DEF CalibrateCommand
    <2>6. Len(senses') = Len(senses) + 1
      BY <2>4, <2>5 DEF Kinds
    <2>7. Len(senses) = 0
      BY <2>1, <2>2 DEF Starting, Due
    <2>8. results' = results /\ nondma' = nondma /\ todo' = todo /\ exec' = NoCommand
      BY <1>15 DEF Positioned
    <2>9. Starting(20)'
      BY <2>2, <2>3, <2>6, <2>7, <2>8, StartCalls DEF Starting, InPhase, Due, Bytes
    <2> QED BY <2>9, <1>3
  <1>16. CASE ReadDone
    <2>1. exec.op = "read"
      BY <1>16 DEF ReadDone
    <2>2. exec # NoCommand /\ exec # CalibrateCommand
      BY <2>1 DEF NoCommand, CalibrateCommand
    <2> QED BY <2>2 DEF Starting, InPhase, Ended, Seen, Quiet
  <1>17. CASE floppy_irq
    <2>1. irq
      BY <1>17 DEF floppy_irq
    <2>2. k \in {3, 20} /\ Ended /\ FloppyDiskIRQ = 0
      BY <2>1, <1>0, <1>19 DEF InPhase, Ended, Seen, Quiet
    <2>3. Ended' /\ exec' = exec
      BY <1>17, <2>2 DEF floppy_irq, Ended
    <2>4. results' = results /\ senses' = senses /\ nondma' = nondma /\ todo' = todo
      BY <1>17 DEF floppy_irq
    <2>5. Starting(k)'
      BY <1>0, <2>2, <2>3, <2>4, <1>19 DEF Starting, InPhase, Due, Bytes, call
    <2> QED BY <2>5, <1>3
  <1>18. ~Do("motor_off") /\ ~Do("seek") /\ ~Do("read") /\ ~Do("specify") /\ ~Do("found?")
         /\ ~Do("dma") /\ ~Do("return")
    BY <1>0, <1>1
  <1> QED
    BY <1>5, <1>6, <1>7, <1>8, <1>9, <1>10, <1>11, <1>12, <1>13, <1>14, <1>15, <1>16, <1>17, <1>18
    DEF Driver, Controller, floppy_control_motor, SendSeek, SendRead, Send, floppy_drive_data,
        SeekFound, SeekAgain, SeekFailed, Found, SetUpDma, Return

(* The motor is stopped after floppy_calibrate and the timing is set again. *)
LEMMA StoppingStep ==
  ASSUME Kinds, NEW k \in 1..2, Stopping(k), Driver \/ Controller \/ floppy_irq
  PROVE  Placed'
PROOF
  <1> DEFINE call == StopMotor[k]
  <1>1. /\ todo # <<>> /\ \A c : Do(c) <=> call = c
        /\ Done <=> todo' = Rest(StopMotor, k + 1)
    <2>1. StopMotor \in Seq(Calls) /\ k \in 1..Len(StopMotor) /\ todo = Rest(StopMotor, k)
      BY StopCalls DEF Stopping
    <2> QED BY ONLY <2>1, At, Zenon
  <1>2. \/ k = 1 /\ call = "motor_off"
        \/ k = 2 /\ call = "specify"
    BY StopCalls
  <1> HIDE DEF call
  <1>3. Settled /\ (k = 2 => dor.motor = None)
    BY DEF Stopping
  <1>4. CASE floppy_control_motor("motor_off", MotorOff)
    <2>1. k = 1
      BY <1>1, <1>2, <1>4 DEF floppy_control_motor
    <2>2. Settled' /\ dor'.motor = None /\ todo' = Rest(StopMotor, 2)
      BY <1>1, <1>3, <1>4, <2>1 DEF floppy_control_motor, MotorOff, Settled, Quiet, driver
    <2>3. Stopping(2)'
      BY <2>2 DEF Stopping
    <2> QED BY <2>3 DEF Placed
  <1>5. CASE floppy_drive_data("specify", 1)
    <2>1. k = 2
      BY <1>1, <1>2, <1>5 DEF floppy_drive_data
    <2>2. ~nondma'
      <3>1. SpecifyByte(1) = 0 /\ 0 % 2 # 1
        BY DEF SpecifyByte
      <3> QED BY <1>5, <3>1, <1>3 DEF floppy_drive_data, Settled
    <2>3. Settled' /\ dor' = dor
      BY <1>3, <1>5, <2>2 DEF floppy_drive_data, Settled, Quiet, driver
    <2>4. todo' = <<>>
      <3>1. todo' = Rest(StopMotor, 2 + 1) /\ StopMotor \in Seq(Calls) /\ Len(StopMotor) = 2
        BY <1>1, <1>5, <2>1, StopCalls DEF floppy_drive_data
      <3> QED BY <3>1, RestEnds
    <2>5. Idle'
      BY <1>3, <2>1, <2>3, <2>4 DEF Idle
    <2> QED BY <2>5 DEF Placed
  <1>6. CASE Controller
    BY <1>3, <1>6 DEF Controller, Positioned, ReadDone, Settled, Quiet, NoCommand
  <1>7. CASE floppy_irq
    BY <1>3, <1>7 DEF floppy_irq, Settled, Quiet
  <1>8. /\ ~Do("disable") /\ ~Do("enable") /\ ~Do("motor_on") /\ ~Do("calibrate") /\ ~Do("seek")
        /\ ~Do("read") /\ ~Do("specify_reset") /\ ~Do("check_int") /\ ~Do("wait") /\ ~Do("clear")
        /\ \A c \in {"st0", "cyl", "result"} : ~Do(c)
        /\ ~Do("calibrated?") /\ ~Do("found?") /\ ~Do("dma") /\ ~Do("return")
    BY <1>1, <1>2
  <1> QED
    BY <1>4, <1>5, <1>6, <1>7, <1>8
    DEF Driver, floppy_disable_controller, floppy_enable_controller, floppy_control_motor,
        SendCalibrate, SendSeek, SendRead, Send, floppy_drive_data, floppy_check_int,
        floppy_read_data, IrqSeen, ClearIrq, Calibrated, SeekFound, SeekAgain, SeekFailed, Found,
        SetUpDma, Return

(* Between calls nothing happens but the next call. *)
LEMMA IdleStep ==
  ASSUME Kinds, Idle, Next
  PROVE  Placed'
PROOF
  <1>1. todo = <<>> /\ Settled /\ (result # "null" => dor.motor = None)
    BY DEF Idle
  <1>2. CASE \E lba \in Sectors : floppy_read(lba)
    <2>1. PICK lba \in Sectors : floppy_read(lba)
      BY <1>2
    <2>2. todo' = Rest(FirstTurn, 1)
      <3>1. todo' = FirstTurn
        BY <2>1 DEF floppy_read, FirstTurn
      <3>2. Rest(FirstTurn, 1) = FirstTurn
        BY TurnCalls, RestEnds
      <3> QED BY <3>1, <3>2
    <2>3. Settled' /\ want' \in Sectors
      BY <1>1, <2>1 DEF floppy_read, Settled, Quiet, chip
    <2>4. FirstTurn[1] = "motor_on"
      BY TurnCalls
    <2>5. Seeking(1)'
      BY <2>2, <2>3, <2>4 DEF Seeking, Settled, InPhase
    <2> QED BY <2>5 DEF Placed
  <1>3. CASE \E drive \in Drives : floppy_drive_set(drive)
    <2>1. PICK drive \in Drives : floppy_drive_set(drive)
      BY <1>3
    <2>2. Idle'
      BY <1>1, <2>1 DEF floppy_drive_set, Idle, Settled, Quiet, chip
    <2> QED BY <2>2 DEF Placed
  <1>4. CASE Controller
    BY <1>1, <1>4 DEF Controller, Positioned, ReadDone, Settled, Quiet, NoCommand
  <1>5. CASE floppy_irq
    BY <1>1, <1>5 DEF floppy_irq, Settled, Quiet
  <1>6. CASE Driver
    <2>1. \A c : ~Do(c)
      BY <1>1 DEF Do
    <2> QED BY <1>6, <2>1
    DEF Driver, floppy_disable_controller, floppy_enable_controller, floppy_control_motor,
        SendCalibrate, SendSeek, SendRead, Send, floppy_drive_data, floppy_check_int,
        floppy_read_data, IrqSeen, ClearIrq, Calibrated, SeekFound, SeekAgain, SeekFailed, Found,
        SetUpDma, Return
  <1> QED
    BY <1>2, <1>3, <1>4, <1>5, <1>6 DEF Next

(* The steps of floppy_read up to the end of a turn of floppy_seek. *)
LEMMA SeekingStep ==
  ASSUME Kinds, NEW k \in 1..8, Seeking(k), Driver \/ Controller \/ floppy_irq
  PROVE  Placed'
PROOF
  <1> USE FloppyAssumption
  <1> DEFINE call == FirstTurn[k]
             head == heads[CurrentDrive]
  <1>1. /\ todo # <<>> /\ \A c : Do(c) <=> call = c
        /\ Done <=> todo' = Rest(FirstTurn, k + 1)
    <2>1. FirstTurn \in Seq(Calls) /\ k \in 1..Len(FirstTurn) /\ todo = Rest(FirstTurn, k)
      BY TurnCalls DEF Seeking
    <2> QED BY ONLY <2>1, At, Zenon
  <1>2. \/ k = 1 /\ call = "motor_on"
        \/ k = 2 /\ call = "seek"
        \/ k = 3 /\ call = "wait"
        \/ k = 4 /\ call = "clear"
        \/ k = 5 /\ call = "check_int"
        \/ k = 6 /\ call = "st0"
        \/ k = 7 /\ call = "cyl"
        \/ k = 8 /\ call = "found?"
    BY SeekAt, Zenon
  <1>3. /\ want \in Sectors /\ ~nondma /\ (2 <= k => dor.motor = CurrentDrive)
        /\ InPhase(call, SeekCommand)
        /\ senses = IF k \in {4, 5} \/ (k = 3 /\ exec = NoCommand) THEN <<head>> ELSE <<>>
        /\ results = IF k = 6 THEN <<32, head>> ELSE IF k = 7 THEN <<head>> ELSE <<>>
        /\ k = 8 => cyl = head
    BY DEF Seeking
  <1>4. head \in Nat
    BY DEF Kinds
  <1> HIDE DEF call
  <1>5. ASSUME NEW n \in 1..8, Seeking(n)' PROVE Placed'
    BY <1>5 DEF Placed
  <1>6. CASE floppy_control_motor("motor_on", MotorOn)
    <2>1. k = 1 /\ Quiet
      BY <1>1, <1>2, <1>3, <1>6 DEF floppy_control_motor, InPhase
    <2>2. dor'.motor = CurrentDrive /\ CurrentDrive' = CurrentDrive /\ Quiet' /\ todo' = Rest(FirstTurn, 2)
      BY <1>1, <1>6, <2>1 DEF floppy_control_motor, MotorOn, Quiet, driver
    <2>3. want' = want /\ nondma' = nondma /\ senses' = senses /\ results' = results
      BY <1>6 DEF floppy_control_motor, driver
    <2>4. Seeking(2)'
      BY <1>3, <2>1, <2>2, <2>3, TurnCalls DEF Seeking, InPhase
    <2> QED BY <2>4, <1>5
  <1>7. CASE SendSeek
    <2>1. k = 2 /\ Quiet /\ results = <<>> /\ senses = <<>>
      BY <1>1, <1>2, <1>3, <1>7 DEF SendSeek, Send, InPhase
    <2>2. exec' = SeekCommand /\ SeekCommand' = SeekCommand
      BY <1>7, <2>1 DEF SendSeek, Send, Ready, Quiet, SeekCommand, driver
    <2>3. SeekCommand # NoCommand
      BY DEF SeekCommand, NoCommand
    <2>4. /\ want' = want /\ nondma' = nondma /\ senses' = senses /\ results' = results
          /\ dor' = dor /\ CurrentDrive' = CurrentDrive /\ irq' = irq /\ FloppyDiskIRQ' = FloppyDiskIRQ
          /\ todo' = Rest(FirstTurn, 3)
      BY <1>1, <1>7, <2>1 DEF SendSeek, Send, driver
    <2>5. Seeking(3)'
      BY <1>3, <2>1, <2>2, <2>3, <2>4, TurnCalls DEF Seeking, InPhase, Quiet
    <2> QED BY <2>5, <1>5
  <1>8. CASE IrqSeen
    <2>1. k = 3 /\ Ended /\ FloppyDiskIRQ = 1
      BY <1>1, <1>2, <1>3, <1>8 DEF IrqSeen, InPhase, Ended
    <2>2. Seen'
      BY <1>8, <2>1 DEF IrqSeen, Ended, Seen, driver, chip
    <2>3. /\ want' = want /\ nondma' = nondma /\ senses' = senses /\ results' = results
          /\ dor' = dor /\ CurrentDrive' = CurrentDrive /\ heads' = heads
          /\ todo' = Rest(FirstTurn, 4)
      BY <1>1, <1>8, <2>1 DEF IrqSeen, driver, chip
    <2>4. senses = <<head>> /\ results = <<>>
      BY <1>3, <2>1 DEF Ended
    <2>5. Seeking(4)'
      <3>1. dor.motor = CurrentDrive /\ FirstTurn[4] = "clear"
        BY <1>3, <2>1, TurnCalls
      <3>2. senses' = <<heads'[CurrentDrive']>> /\ results' = <<>>
        BY <2>3, <2>4
      <3>3. InPhase(FirstTurn[4], SeekCommand)'
        BY <2>2, <3>1 DEF InPhase
      <3>4. want' \in Sectors /\ ~nondma' /\ dor'.motor = CurrentDrive' /\ todo' = Rest(FirstTurn, 4)
        BY <1>3, <2>3, <3>1
      <3> QED BY ONLY <3>2, <3>3, <3>4 DEF Seeking
    <2> QED BY <2>5, <1>5
  <1>9. CASE ClearIrq
    <2>1. k = 4 /\ Seen
      BY <1>1, <1>2, <1>3, <1>9 DEF ClearIrq, InPhase
    <2>2. Quiet'
      BY <1>9, <2>1 DEF ClearIrq, Seen, Quiet, chip
    <2>3. /\ want' = want /\ nondma' = nondma /\ senses' = senses /\ results' = results
          /\ dor' = dor /\ CurrentDrive' = CurrentDrive /\ heads' = heads
          /\ todo' = Rest(FirstTurn, 5)
      BY <1>1, <1>9, <2>1 DEF ClearIrq, chip
    <2>4. Seeking(5)'
      <3>1. senses = <<head>> /\ results = <<>>
        BY <1>3, <2>1
      <3> QED BY <1>3, <2>1, <2>2, <2>3, <3>1, TurnCalls DEF Seeking, InPhase
    <2> QED BY <2>4, <1>5
  <1>10. CASE floppy_check_int
    <2>1. k = 5 /\ Quiet /\ results = <<>> /\ senses = <<head>>
      BY <1>1, <1>2, <1>3, <1>10 DEF floppy_check_int, InPhase
    <2>2. senses # <<>> /\ Head(senses) = head /\ Tail(senses) = <<>>
      BY <2>1
    <2>3. results' = <<32, head>> /\ senses' = <<>>
      BY <1>10, <2>1, <2>2 DEF floppy_check_int, Ready, Quiet
    <2>4. /\ want' = want /\ nondma' = nondma /\ dor' = dor /\ CurrentDrive' = CurrentDrive
          /\ heads' = heads /\ todo' = Rest(FirstTurn, 6) /\ Quiet'
      BY <1>1, <1>10, <2>1 DEF floppy_check_int, driver, Quiet
    <2>5. Seeking(6)'
      BY <1>3, <2>1, <2>3, <2>4, TurnCalls DEF Seeking, InPhase
    <2> QED BY <2>5, <1>5
  <1>11. CASE floppy_read_data("st0") \/ floppy_read_data("cyl") \/ floppy_read_data("result")
    <2>1. PICK c \in {"st0", "cyl", "result"} : floppy_read_data(c)
      BY <1>11
    <2>2. call = c /\ k \in {6, 7} /\ Quiet
      BY <1>1, <1>2, <1>3, <2>1 DEF floppy_read_data, InPhase
    <2>3. /\ want' = want /\ nondma' = nondma /\ senses' = senses /\ exec' = exec
          /\ dor' = dor /\ CurrentDrive' = CurrentDrive /\ heads' = heads
          /\ todo' = Rest(FirstTurn, k + 1) /\ Quiet'
      BY <1>1, <2>1, <2>2 DEF floppy_read_data, Quiet
    <2>4. CASE k = 6
      <3>1. results = <<32, head>> /\ results # <<>> /\ Tail(results) = <<head>>
        BY <1>3, <2>4
      <3>2. results' = <<head>>
        BY <2>1, <3>1 DEF floppy_read_data
      <3>3. Seeking(7)'
        BY <1>3, <2>3, <2>4, <3>2, TurnCalls DEF Seeking, InPhase
      <3> QED BY <3>3, <1>5
    <2>5. CASE k = 7
      <3>1. results = <<head>> /\ results # <<>> /\ Head(results) = head /\ Tail(results) = <<>>
        BY <1>3, <2>5
      <3>2. results' = <<>> /\ cyl' = head
        BY <1>2, <2>1, <2>2, <2>5, <3>1 DEF floppy_read_data
      <3>3. Seeking(8)'
        BY <1>3, <2>3, <2>5, <3>2, TurnCalls DEF Seeking, InPhase
      <3> QED BY <3>3, <1>5
    <2> QED BY <2>2, <2>4, <2>5
  <1>12. CASE SeekFound
    <2>1. k = 8 /\ Quiet /\ cyl = head /\ cyl = TrackOf(want) /\ results = <<>> /\ senses = <<>>
      BY <1>1, <1>2, <1>3, <1>12 DEF SeekFound, Found, InPhase
    <2>2. todo' = Rest(ReadSector, 1)
      <3>1. Rest(ReadSector, 1) = ReadSector
        BY ReadCalls, RestEnds
      <3> QED BY <1>12, <3>1 DEF SeekFound
    <2>3. /\ want' = want /\ nondma' = nondma /\ senses' = senses /\ results' = results
          /\ dor' = dor /\ CurrentDrive' = CurrentDrive /\ heads' = heads /\ Quiet'
      BY <1>12, <2>1 DEF SeekFound, chip, Quiet
    <2>4. Reading(1)'
      <3>1. ReadSector[1] = "dma"
        BY ReadCalls
      <3>2. heads[CurrentDrive] = TrackOf(want) /\ dor.motor = CurrentDrive
        BY <1>3, <2>1
      <3>3. InPhase(ReadSector[1], ReadCommand)'
        BY <2>3, <3>1 DEF InPhase
      <3> QED BY <1>3, <2>1, <2>2, <2>3, <3>2, <3>3 DEF Reading
    <2> QED BY <2>4 DEF Placed
  <1>13. CASE SeekAgain
    <2>1. k = 8 /\ Quiet /\ results = <<>> /\ senses = <<>>
      BY <1>1, <1>2, <1>3, <1>13 DEF SeekAgain, InPhase
    <2>2. /\ want' = want /\ nondma' = nondma /\ senses' = senses /\ results' = results
          /\ dor' = dor /\ CurrentDrive' = CurrentDrive /\ heads' = heads /\ Quiet'
          /\ todo' = Rest(FirstTurn, 2)
      BY <1>13, <2>1, Turns DEF SeekAgain, chip, Quiet
    <2>3. Seeking(2)'
      BY <1>3, <2>1, <2>2, TurnCalls DEF Seeking, InPhase
    <2> QED BY <2>3, <1>5
  <1>14. CASE SeekFailed
    <2>1. k = 8 /\ Quiet /\ results = <<>> /\ senses = <<>>
      BY <1>1, <1>2, <1>3, <1>14 DEF SeekFailed, InPhase
    <2>2. Idle'
      BY <1>3, <1>14, <2>1 DEF SeekFailed, chip, Quiet, Idle, Settled
    <2> QED BY <2>2 DEF Placed
  <1>15. CASE Positioned
    <2>1. exec # NoCommand /\ exec.op \in {"calibrate", "seek"}
      BY <1>15 DEF Positioned, NoCommand
    <2>2. k = 3 /\ irq = FALSE /\ FloppyDiskIRQ = 0 /\ exec = SeekCommand /\ senses = <<>> /\ results = <<>>
      BY <2>1, <1>2, <1>3 DEF InPhase, Ended, Seen, Quiet
    <2>3. PICK x \in {exec.track} \cup Misses :
            heads' = [heads EXCEPT ![exec.drive] = x] /\ senses' = Append(senses, x)
      BY <1>15 DEF Positioned
    <2>4. exec.drive = CurrentDrive
      BY <2>2 DEF SeekCommand
    <2>5. heads'[CurrentDrive] = x /\ senses' = <<x>>
      BY <2>2, <2>3, <2>4 DEF Kinds
    <2>6. /\ want' = want /\ nondma' = nondma /\ results' = results /\ exec' = NoCommand /\ irq' = TRUE
          /\ dor' = dor /\ CurrentDrive' = CurrentDrive /\ FloppyDiskIRQ' = 0 /\ todo' = todo
      BY <1>15, <2>2 DEF Positioned, driver
    <2>7. Seeking(3)'
      <3>1. FirstTurn[3] = "wait" /\ todo = Rest(FirstTurn, 3) /\ dor.motor = CurrentDrive
        BY <1>3, <2>2, TurnCalls DEF Seeking
      <3>2. Ended' /\ senses' = <<heads'[CurrentDrive']>> /\ results' = <<>>
        BY <2>2, <2>5, <2>6 DEF Ended
      <3> QED BY <1>3, <2>6, <3>1, <3>2 DEF Seeking, InPhase
    <2> QED BY <2>7, <1>5
  <1>16. CASE ReadDone
    <2>1. exec.op = "read"
      BY <1>16 DEF ReadDone
    <2>2. exec # NoCommand /\ exec # SeekCommand
      BY <2>1 DEF NoCommand, SeekCommand
    <2> QED BY <1>2, <1>3, <2>2 DEF InPhase, Ended, Seen, Quiet
  <1>17. CASE floppy_irq
    <2>1. irq
      BY <1>17 DEF floppy_irq
    <2>2. k = 3 /\ Ended /\ FloppyDiskIRQ = 0
      BY <2>1, <1>2, <1>3 DEF InPhase, Ended, Seen, Quiet
    <2>3. Ended' /\ exec' = exec
      BY <1>17, <2>2 DEF floppy_irq, Ended
    <2>4. /\ want' = want /\ nondma' = nondma /\ senses' = senses /\ results' = results
          /\ dor' = dor /\ CurrentDrive' = CurrentDrive /\ heads' = heads /\ todo' = todo
      BY <1>17 DEF floppy_irq
    <2>5. Seeking(3)'
      BY <1>3, <2>2, <2>3, <2>4, TurnCalls DEF Seeking, InPhase
    <2> QED BY <2>5, <1>5
  <1>18. /\ ~Do("disable") /\ ~Do("enable") /\ ~Do("motor_off") /\ ~Do("calibrate") /\ ~Do("read")
         /\ ~Do("specify_reset") /\ ~Do("specify") /\ ~Do("calibrated?") /\ ~Do("dma") /\ ~Do("return")
    BY <1>1, <1>2
  <1> QED
    BY <1>6, <1>7, <1>8, <1>9, <1>10, <1>11, <1>12, <1>13, <1>14, <1>15, <1>16, <1>17, <1>18
    DEF Driver, Controller, floppy_disable_controller, floppy_enable_controller,
        floppy_control_motor, SendCalibrate, SendRead, Send, floppy_drive_data, Calibrated, SetUpDma, Return

(* The registers of the channel have 16 bits. *)
LEMMA Bound == DmaLimit = 65536
PROOF
  BY SMT DEF DmaLimit

(* floppy_dma_initialize and dma_set_read: whatever the buffer, the channel is
   open towards the memory. *)
LEMMA SetUpChannel ==
  ASSUME Kinds, DmaKinds, SetUpDma
  PROVE  DmaKinds' /\ Channel'
PROOF
  <1> USE FloppyAssumption
  <1> DEFINE buffer == DMA_BUFFER
             low == buffer % DmaLimit
             set == dma_set_read(floppy_dma_initialize(dma, buffer), 2)
  <1>1. buffer \in Nat
    BY DEF Kinds
  <1>2. dma' = set /\ DMA_BUFFER' = buffer
    BY DEF SetUpDma, driver
  <1>3. PICK a, c \in Nat : \E h, m, o :
          dma = Registers(a, c, h, m, o) /\ a < DmaLimit /\ c < DmaLimit
    BY DEF DmaKinds
  <1>4. PICK h, m, o : dma = Registers(a, c, h, m, o)
    BY <1>3
  <1>5. CASE BufferIssue(buffer)
    <2>1. floppy_dma_initialize(dma, buffer) = dma
      BY <1>5, Zenon DEF floppy_dma_initialize
    <2>2. set = Registers(a, c, h, 0, DMA_MODE_READ_TRANSFER)
      BY <1>4, <2>1, ReadFields, Zenon
    <2> HIDE DEF set
    <2>3. dma' = Registers(a, c, h, 0, DMA_MODE_READ_TRANSFER)
      BY <1>2, <2>2
    <2>4. dma'.masked = 0 /\ dma'.mode = DMA_MODE_READ_TRANSFER
      BY <2>3, Fields
    <2>5. DmaKinds'
      BY <1>3, <2>3 DEF DmaKinds
    <2>6. BufferIssue(DMA_BUFFER)'
      BY <1>2, <1>5 DEF BufferIssue
    <2> QED BY <2>4, <2>5, <2>6 DEF Channel
  <1>6. CASE ~BufferIssue(buffer)
    <2>1. low \in Nat /\ low < DmaLimit /\ 511 < DmaLimit /\ 511 \in Nat /\ low = buffer % 65536
      BY <1>1, Bound
    <2>2. floppy_dma_initialize(dma, buffer) = Registers(buffer % 65536, 511, 0, 0, DMA_MODE_READ_TRANSFER)
      BY <1>1, <1>3, <1>4, <1>6, DmaEnd
    <2> HIDE DEF low
    <2>3. set = Registers(low, 511, 0, 0, DMA_MODE_READ_TRANSFER)
      <3>1. floppy_dma_initialize(dma, buffer) = Registers(low, 511, 0, 0, DMA_MODE_READ_TRANSFER)
        BY <2>1, <2>2
      <3>2. dma_set_read(Registers(low, 511, 0, 0, DMA_MODE_READ_TRANSFER), 2)
              = Registers(low, 511, 0, 0, DMA_MODE_READ_TRANSFER)
        BY ReadFields
      <3> QED BY ONLY <3>1, <3>2, Zenon
    <2> HIDE DEF set
    <2>4. dma' = Registers(low, 511, 0, 0, DMA_MODE_READ_TRANSFER)
      BY <1>2, <2>3
    <2>5. dma'.masked = 0 /\ dma'.mode = DMA_MODE_READ_TRANSFER /\ dma'.addr = low /\ dma'.count = 511
      BY <2>4, Fields
    <2>6. DmaKinds'
      BY <2>1, <2>4 DEF DmaKinds
    <2>7. low = DMA_BUFFER' % DmaLimit
      BY <1>2 DEF low
    <2> QED BY <2>5, <2>6, <2>7 DEF Channel
  <1> QED
    BY <1>5, <1>6

(* A read takes the address to 0 and closes the channel. *)
LEMMA ReadChannel ==
  ASSUME DmaKinds, ReadDone
  PROVE  DmaKinds'
PROOF
  <1>1. PICK a, c \in Nat : \E h, m, o :
          dma = Registers(a, c, h, m, o) /\ a < DmaLimit /\ c < DmaLimit
    BY DEF DmaKinds
  <1>2. PICK h, m, o : dma = Registers(a, c, h, m, o)
    BY <1>1
  <1>3. [dma EXCEPT !.addr = 0] = Registers(0, c, h, m, o)
    BY <1>2, Set_addr
  <1>4. [Registers(0, c, h, m, o) EXCEPT !.masked = 1] = Registers(0, c, h, 1, o)
    BY Set_masked
  <1>5. dma' = Registers(0, c, h, 1, o)
    <2>1. dma' = [[dma EXCEPT !.addr = 0] EXCEPT !.masked = 1]
      BY Zenon DEF ReadDone
    <2> QED BY <2>1, <1>3, <1>4, Zenon
  <1>6. 0 \in Nat /\ 0 < DmaLimit
    BY Bound
  <1> QED
    BY <1>1, <1>5, <1>6 DEF DmaKinds

(* A read that the driver has prepared ends with the sector in the buffer or
   with an error of the medium. *)
LEMMA ReadFills ==
  ASSUME Kinds, want \in Sectors, ~nondma, dor.motor = CurrentDrive,
         heads[CurrentDrive] = TrackOf(want), exec = ReadCommand, Channel, ReadDone
  PROVE  Filled'
PROOF
  <1> USE FloppyAssumption
  <1>1. /\ exec.drive = CurrentDrive /\ exec.head = HeadOf(want)
        /\ exec.track = TrackOf(want) /\ exec.sector = SectorOf(want)
    BY DEF ReadCommand
  <1>2. want \in Nat
    OBVIOUS
  <1>3. /\ SectorOf(want) \in 1..FLOPPY_SECTORS_PER_TRACK
        /\ SectorAt(TrackOf(want), HeadOf(want), SectorOf(want)) = want
    BY <1>2, ConvertExact
  <1>4. Transferable
    BY <1>1, <1>3 DEF Transferable, Channel
  <1>5. want' = want /\ CurrentDrive' = CurrentDrive /\ DMA_BUFFER' = DMA_BUFFER
    BY DEF ReadDone, driver
  <1>6. CASE moved' = ReadError
    <2>1. (moved = ReadError)'
      BY <1>6 DEF ReadError, NoTransfer
    <2> QED BY <2>1 DEF Filled
  <1>7. CASE moved' = [state |-> "done", drive |-> exec.drive,
                       lba |-> SectorAt(exec.track, exec.head, exec.sector),
                       addr |-> dma.addr, length |-> dma.count + 1]
    <2>1. /\ moved'.state = "done" /\ moved'.drive = exec.drive
          /\ moved'.lba = SectorAt(exec.track, exec.head, exec.sector)
          /\ moved'.addr = dma.addr /\ moved'.length = dma.count + 1
      BY <1>7
    <2>2. moved'.lba = want' /\ moved'.drive = CurrentDrive'
      BY <1>1, <1>3, <1>5, <2>1
    <2>3. ASSUME ~BufferIssue(DMA_BUFFER)
          PROVE  moved'.addr = DMA_BUFFER' % DmaLimit /\ moved'.length = 512
      <3>1. dma.addr = DMA_BUFFER % DmaLimit /\ dma.count = 511
        BY <2>3 DEF Channel
      <3>2. 511 + 1 = 512
        OBVIOUS
      <3> QED BY <1>5, <2>1, <3>1, <3>2
    <2>4. BufferIssue(DMA_BUFFER)' <=> BufferIssue(DMA_BUFFER)
      BY <1>5, Zenon DEF BufferIssue
    <2> QED BY <2>1, <2>2, <2>3, <2>4 DEF Filled
  <1> QED
    BY <1>4, <1>6, <1>7 DEF ReadDone

(* The steps of floppy_read after floppy_seek. *)
LEMMA ReadingStep ==
  ASSUME Kinds, DmaKinds, NEW k \in 1..16, Reading(k), Driver \/ Controller \/ floppy_irq
  PROVE  Placed'
PROOF
  <1> DEFINE call == ReadSector[k]
             Kept == /\ want' = want /\ nondma' = nondma /\ senses' = senses
                     /\ CurrentDrive' = CurrentDrive /\ heads' = heads
             Same == dor' = dor /\ moved' = moved /\ DMA_BUFFER' = DMA_BUFFER /\ dma' = dma
  <1>1. /\ todo # <<>> /\ \A c : Do(c) <=> call = c
        /\ Done <=> todo' = Rest(ReadSector, k + 1)
    <2>1. ReadSector \in Seq(Calls) /\ k \in 1..Len(ReadSector) /\ todo = Rest(ReadSector, k)
      BY ReadCalls DEF Reading
    <2> QED BY ONLY <2>1, At, Zenon
  <1>2. \/ k = 1 /\ call = "dma"
        \/ k = 2 /\ call = "read"
        \/ k = 3 /\ call = "wait"
        \/ k = 4 /\ call = "clear"
        \/ k \in {5, 6, 7, 8, 9, 10, 11} /\ call = "result"
        \/ k = 12 /\ call = "check_int"
        \/ k = 13 /\ call = "st0"
        \/ k = 14 /\ call = "cyl"
        \/ k = 15 /\ call = "motor_off"
        \/ k = 16 /\ call = "return"
    BY ReadAt, Zenon
  <1>3. /\ want \in Sectors /\ ~nondma /\ senses = <<>> /\ heads[CurrentDrive] = TrackOf(want)
        /\ dor.motor = (IF k = 16 THEN None ELSE CurrentDrive)
        /\ InPhase(call, ReadCommand)
    BY DEF Reading
  <1>4. /\ k = 2 \/ (k = 3 /\ exec # NoCommand) => Channel
        /\ 4 <= k \/ (k = 3 /\ exec = NoCommand) => Filled
    BY DEF Reading
  <1>5. /\ k <= 2 \/ (k = 3 /\ exec # NoCommand) => results = <<>>
        /\ k = 3 /\ exec = NoCommand => Len(results) = 7
        /\ k = 4 => Len(results) = 7
        /\ 5 <= k /\ k <= 12 => Len(results) = 12 - k
        /\ k = 13 => Len(results) = 1
        /\ 14 <= k => results = <<>>
    BY DEF Reading
  <1> HIDE DEF call
  <1>6. ASSUME NEW n \in 1..16, Reading(n)' PROVE Placed'
    BY <1>6 DEF Placed
  <1>7. ASSUME Kept, Same, Filled
        PROVE  Filled'
    BY <1>7 DEF Filled, BufferIssue
  <1>8. ASSUME Kept
        PROVE  /\ want' \in Sectors /\ ~nondma' /\ senses' = <<>>
               /\ heads'[CurrentDrive'] = TrackOf(want)'
    BY <1>3, <1>8 DEF TrackOf
  <1>9. CASE SetUpDma
    <2>1. k = 1 /\ Quiet /\ results = <<>>
      BY <1>1, <1>2, <1>3, <1>5, <1>9 DEF SetUpDma, InPhase
    <2>2. Kept /\ dor' = dor /\ Quiet' /\ results' = results /\ todo' = Rest(ReadSector, 2)
      BY <1>1, <1>9, <2>1 DEF SetUpDma, driver, chip, Quiet
    <2>3. Channel'
      BY <1>9, SetUpChannel
    <2>4. InPhase(ReadSector[2], ReadCommand)'
      BY <2>2, ReadCalls DEF InPhase
    <2>5. dor'.motor = CurrentDrive'
      BY <1>3, <2>1, <2>2
    <2>6. Reading(2)'
      BY ONLY <1>8, <2>1, <2>2, <2>3, <2>4, <2>5 DEF Reading
    <2> QED BY <2>6, <1>6
  <1>10. CASE SendRead
    <2>1. k = 2 /\ Quiet /\ results = <<>>
      BY <1>1, <1>2, <1>3, <1>5, <1>10 DEF SendRead, Send, InPhase
    <2>2. exec' = ReadCommand /\ ReadCommand' = ReadCommand
      BY <1>10, <2>1 DEF SendRead, Send, Ready, Quiet, ReadCommand, driver
    <2>3. ReadCommand # NoCommand
      BY DEF ReadCommand, NoCommand
    <2>4. /\ Kept /\ Same /\ results' = results /\ irq' = irq /\ FloppyDiskIRQ' = FloppyDiskIRQ
          /\ todo' = Rest(ReadSector, 3)
      BY <1>1, <1>10, <2>1 DEF SendRead, Send, driver
    <2>5. Channel'
      BY <1>4, <2>1, <2>4 DEF Channel, BufferIssue
    <2>6. InPhase(ReadSector[3], ReadCommand)'
      BY <2>1, <2>2, <2>4, ReadCalls DEF InPhase, Quiet
    <2>7. dor'.motor = CurrentDrive'
      BY <1>3, <2>1, <2>4
    <2>8. exec' # NoCommand
      BY <2>2, <2>3
    <2>9. Reading(3)'
      BY ONLY <1>8, <2>1, <2>4, <2>5, <2>6, <2>7, <2>8 DEF Reading
    <2> QED BY <2>9, <1>6
  <1>11. CASE IrqSeen
    <2>1. k = 3 /\ Ended /\ FloppyDiskIRQ = 1
      BY <1>1, <1>2, <1>3, <1>11 DEF IrqSeen, InPhase, Ended
    <2>2. Seen'
      BY <1>11, <2>1 DEF IrqSeen, Ended, Seen, driver, chip
    <2>3. Kept /\ Same /\ results' = results /\ todo' = Rest(ReadSector, 4)
      BY <1>1, <1>11, <2>1 DEF IrqSeen, driver, chip
    <2>4. Filled /\ Len(results) = 7 /\ dor.motor = CurrentDrive
      BY <1>3, <1>4, <1>5, <2>1 DEF Ended
    <2>5. InPhase(ReadSector[4], ReadCommand)'
      BY <2>2, ReadCalls DEF InPhase
    <2>6. Filled' /\ Len(results') = 7 /\ dor'.motor = CurrentDrive'
      BY <1>7, <2>3, <2>4
    <2>7. Reading(4)'
      BY ONLY <1>8, <2>3, <2>5, <2>6 DEF Reading
    <2> QED BY <2>7, <1>6
  <1>12. CASE ClearIrq
    <2>1. k = 4 /\ Seen
      BY <1>1, <1>2, <1>3, <1>12 DEF ClearIrq, InPhase
    <2>2. Quiet'
      BY <1>12, <2>1 DEF ClearIrq, Seen, Quiet, chip
    <2>3. Kept /\ Same /\ results' = results /\ todo' = Rest(ReadSector, 5)
      BY <1>1, <1>12, <2>1 DEF ClearIrq, chip
    <2>4. Filled /\ Len(results) = 7 /\ dor.motor = CurrentDrive
      BY <1>3, <1>4, <1>5, <2>1
    <2>5. InPhase(ReadSector[5], ReadCommand)'
      BY <2>2, ReadCalls DEF InPhase
    <2>6. Filled' /\ Len(results') = 7 /\ dor'.motor = CurrentDrive'
      BY <1>7, <2>3, <2>4
    <2>7. Reading(5)'
      BY ONLY <1>8, <2>3, <2>5, <2>6 DEF Reading
    <2> QED BY <2>7, <1>6
  <1>13. CASE floppy_read_data("st0") \/ floppy_read_data("cyl") \/ floppy_read_data("result")
    <2>1. PICK c \in {"st0", "cyl", "result"} : floppy_read_data(c)
      BY <1>13
    <2>2. k \in {5, 6, 7, 8, 9, 10, 11} \/ k = 13 \/ k = 14
      BY <1>1, <1>2, <2>1 DEF floppy_read_data
    <2>3. Quiet /\ Filled /\ dor.motor = CurrentDrive
      BY <1>2, <1>3, <1>4, <2>2 DEF InPhase
    <2>4. Kept /\ Same /\ Quiet' /\ todo' = Rest(ReadSector, k + 1)
      BY <1>1, <2>1, <2>3 DEF floppy_read_data, Quiet
    <2>5. Filled' /\ dor'.motor = CurrentDrive'
      BY <1>7, <2>3, <2>4
    <2>6. /\ results = <<>> => results' = <<>>
          /\ results # <<>> => Len(results') = Len(results) - 1 /\ results' \in Seq(Nat)
      BY <2>1 DEF floppy_read_data, Kinds
    <2>7. CASE k \in {5, 6, 7, 8, 9, 10, 11}
      <3>1. Len(results) = 12 - k /\ results # <<>>
        BY <1>5, <2>7
      <3>2. Len(results') = 12 - (k + 1)
        BY <2>6, <3>1
      <3>3. k + 1 \in 6..12 /\ k + 1 \in 1..16
        BY <2>7
      <3>4. ReadSector[k + 1] # "wait" /\ ReadSector[k + 1] # "clear"
        BY <3>3, ReadAt
      <3>5. InPhase(ReadSector[k + 1], ReadCommand)'
        BY <2>4, <3>4 DEF InPhase
      <3>6. Reading(k + 1)'
        <4>1. ~(k + 1 <= 2) /\ k + 1 # 2 /\ k + 1 # 3 /\ k + 1 # 4 /\ k + 1 # 13 /\ k + 1 # 16 /\ ~(14 <= k + 1)
          BY <3>3
        <4> QED BY ONLY <1>8, <2>4, <2>5, <3>2, <3>5, <4>1 DEF Reading
      <3> QED BY <3>3, <3>6, <1>6
    <2>8. CASE k = 13
      <3>1. Len(results') = 0 /\ results' \in Seq(Nat)
        <4>1. Len(results) = 1 /\ results # <<>>
          BY <1>5, <2>8
        <4> QED BY <2>6, <4>1
      <3>2. results' = <<>>
        BY <3>1
      <3>3. InPhase(ReadSector[14], ReadCommand)'
        BY <2>4, ReadCalls DEF InPhase
      <3>4. todo' = Rest(ReadSector, 14)
        BY <2>4, <2>8
      <3>5. Reading(14)'
        BY ONLY <1>8, <2>4, <2>5, <3>2, <3>3, <3>4 DEF Reading
      <3> QED BY <3>5, <1>6
    <2>9. CASE k = 14
      <3>1. results' = <<>> /\ todo' = Rest(ReadSector, 15)
        BY <1>5, <2>4, <2>6, <2>9
      <3>2. InPhase(ReadSector[15], ReadCommand)'
        BY <2>4, ReadCalls DEF InPhase
      <3>3. Reading(15)'
        BY ONLY <1>8, <2>4, <2>5, <3>1, <3>2 DEF Reading
      <3> QED BY <3>3, <1>6
    <2> QED BY <2>2, <2>7, <2>8, <2>9
  <1>14. CASE floppy_check_int
    <2>1. k = 12 /\ Quiet /\ Filled /\ Len(results) = 0 /\ dor.motor = CurrentDrive
      BY <1>1, <1>2, <1>3, <1>4, <1>5, <1>14 DEF floppy_check_int, InPhase
    <2>2. results = <<>>
      BY <2>1 DEF Kinds
    <2>3. results' = <<128>> /\ senses' = senses
      BY <1>3, <1>14, <2>1, <2>2 DEF floppy_check_int, Ready, Quiet
    <2>4. Kept /\ Same /\ Quiet' /\ todo' = Rest(ReadSector, 13)
      BY <1>1, <1>14, <2>1, <2>3 DEF floppy_check_int, driver, Quiet
    <2>5. Filled' /\ dor'.motor = CurrentDrive' /\ Len(results') = 1
      BY <1>7, <2>1, <2>3, <2>4
    <2>6. InPhase(ReadSector[13], ReadCommand)'
      BY <2>4, ReadCalls DEF InPhase
    <2>7. Reading(13)'
      BY ONLY <1>8, <2>4, <2>5, <2>6 DEF Reading
    <2> QED BY <2>7, <1>6
  <1>15. CASE floppy_control_motor("motor_off", MotorOff)
    <2>1. k = 15 /\ Quiet /\ Filled /\ results = <<>>
      BY <1>1, <1>2, <1>3, <1>4, <1>5, <1>15 DEF floppy_control_motor, InPhase
    <2>2. /\ Kept /\ moved' = moved /\ DMA_BUFFER' = DMA_BUFFER /\ Quiet' /\ results' = results
          /\ todo' = Rest(ReadSector, 16) /\ dor'.motor = None
      BY <1>1, <1>15, <2>1 DEF floppy_control_motor, MotorOff, driver, Quiet
    <2>3. Filled'
      BY <2>1, <2>2 DEF Filled, BufferIssue
    <2>4. InPhase(ReadSector[16], ReadCommand)'
      BY <2>2, ReadCalls DEF InPhase
    <2>5. Reading(16)'
      BY ONLY <1>8, <2>1, <2>2, <2>3, <2>4 DEF Reading
    <2> QED BY <2>5, <1>6
  <1>16. CASE Return
    <2>1. k = 16 /\ Quiet /\ results = <<>> /\ dor.motor = None
      BY <1>1, <1>2, <1>3, <1>5, <1>16 DEF Return, InPhase
    <2>2. todo' = <<>>
      <3>1. todo' = Rest(ReadSector, 16 + 1) /\ ReadSector \in Seq(Calls) /\ Len(ReadSector) = 16
        BY <1>1, <1>16, <2>1, ReadCalls DEF Return
      <3> QED BY <3>1, RestEnds
    <2>3. Settled' /\ dor' = dor
      BY <1>3, <1>16, <2>1 DEF Return, chip, Settled, Quiet
    <2>4. Idle'
      BY <2>1, <2>2, <2>3 DEF Idle
    <2> QED BY <2>4 DEF Placed
  <1>17. CASE ReadDone
    <2>1. exec # NoCommand
      BY <1>17 DEF ReadDone, NoCommand
    <2>2. k = 3 /\ irq = FALSE /\ FloppyDiskIRQ = 0 /\ exec = ReadCommand
      BY <2>1, <1>2, <1>3 DEF InPhase, Ended, Seen, Quiet
    <2>3. Channel /\ dor.motor = CurrentDrive
      BY <1>3, <1>4, <2>1, <2>2
    <2>4. Filled'
      BY <1>3, <1>17, <2>2, <2>3, ReadFills
    <2>5. Kept /\ dor' = dor /\ todo' = todo /\ exec' = NoCommand /\ irq' = TRUE /\ FloppyDiskIRQ' = 0
      BY <1>17, <2>2 DEF ReadDone, driver
    <2>6. Len(results') = 7
      BY <1>17 DEF ReadDone
    <2>7. InPhase(ReadSector[3], ReadCommand)'
      BY <2>5, ReadCalls DEF InPhase, Ended
    <2>8. todo' = Rest(ReadSector, 3) /\ dor'.motor = CurrentDrive'
      BY <2>2, <2>3, <2>5 DEF Reading
    <2>9. Reading(3)'
      BY ONLY <1>8, <2>4, <2>5, <2>6, <2>7, <2>8 DEF Reading
    <2> QED BY <2>9, <1>6
  <1>18. CASE Positioned
    <2>1. exec.op \in {"calibrate", "seek"}
      BY <1>18 DEF Positioned
    <2>2. exec # NoCommand /\ exec # ReadCommand
      BY <2>1 DEF NoCommand, ReadCommand
    <2> QED BY <1>2, <1>3, <2>2 DEF InPhase, Ended, Seen, Quiet
  <1>19. CASE floppy_irq
    <2>1. irq
      BY <1>19 DEF floppy_irq
    <2>2. k = 3 /\ Ended /\ FloppyDiskIRQ = 0
      BY <2>1, <1>2, <1>3 DEF InPhase, Ended, Seen, Quiet
    <2>3. Ended' /\ exec' = exec
      BY <1>19, <2>2 DEF floppy_irq, Ended
    <2>4. Kept /\ Same /\ results' = results /\ todo' = todo
      BY <1>19 DEF floppy_irq
    <2>5. exec' = NoCommand /\ Filled /\ Len(results) = 7 /\ dor.motor = CurrentDrive
      BY <1>3, <1>4, <1>5, <2>2, <2>3 DEF Ended
    <2>6. Filled' /\ Len(results') = 7 /\ dor'.motor = CurrentDrive'
      BY <1>7, <2>4, <2>5
    <2>7. InPhase(ReadSector[3], ReadCommand)'
      BY <2>3, ReadCalls DEF InPhase
    <2>8. todo' = Rest(ReadSector, 3)
      BY <2>2, <2>4 DEF Reading
    <2>9. Reading(3)'
      BY ONLY <1>8, <2>4, <2>5, <2>6, <2>7, <2>8 DEF Reading
    <2> QED BY <2>9, <1>6
  <1>20. /\ ~Do("disable") /\ ~Do("enable") /\ ~Do("motor_on") /\ ~Do("calibrate") /\ ~Do("seek")
         /\ ~Do("specify_reset") /\ ~Do("specify") /\ ~Do("calibrated?") /\ ~Do("found?")
    BY <1>1, <1>2
  <1> QED
    BY <1>9, <1>10, <1>11, <1>12, <1>13, <1>14, <1>15, <1>16, <1>17, <1>18, <1>19, <1>20
    DEF Driver, Controller, floppy_disable_controller, floppy_enable_controller,
        floppy_control_motor, SendCalibrate, SendSeek, Send, floppy_drive_data, Calibrated,
        SeekFound, SeekAgain, SeekFailed, Found

(* What the controller may be running. *)
LEMMA Running ==
  ASSUME Kinds, Placed
  PROVE  \/ exec = NoCommand
         \/ exec = CalibrateCommand
         \/ want \in Sectors /\ exec = SeekCommand
         \/ want \in Sectors /\ exec = ReadCommand
PROOF
  BY DEF Placed, Idle, Starting, Stopping, Seeking, Reading, Settled, InPhase, Quiet, Seen, Ended

(* Every step keeps the kinds of the variables. *)
LEMMA KindsStep ==
  ASSUME Kinds, Placed, Next
  PROVE  Kinds'
PROOF
  <1> USE FloppyAssumption
  <1>1. CASE \E lba \in Sectors : floppy_read(lba)
    BY <1>1 DEF floppy_read, Kinds, chip
  <1>2. CASE \E drive \in Drives : floppy_drive_set(drive)
    <2>1. PICK drive \in Drives : floppy_drive_set(drive)
      BY <1>2
    <2>2. CurrentDrive' \in Usable
      BY <2>1 DEF floppy_drive_set, Kinds, Usable
    <2> QED BY <2>1, <2>2 DEF floppy_drive_set, Kinds, chip
  <1>3. CASE floppy_disable_controller \/ floppy_enable_controller
    <2>1. results' \in Seq(Nat) /\ senses' \in Seq(Nat)
      <3>1. CASE floppy_disable_controller
        BY <3>1 DEF floppy_disable_controller
      <3>2. CASE floppy_enable_controller
        <4>1. results' = results /\ senses' = <<0, 0, 0, 0>>
          BY <3>2 DEF floppy_enable_controller
        <4> QED BY <4>1 DEF Kinds
      <3> QED BY <1>3, <3>1, <3>2
    <2>2. dor'.motor = None /\ dor'.gate \in BOOLEAN
      <3>1. \E g \in BOOLEAN : dor' = [motor |-> None, gate |-> g]
        BY <1>3 DEF floppy_disable_controller, floppy_enable_controller
      <3> QED BY <3>1
    <2>3. UNCHANGED <<driver, nondma, heads>>
      BY <1>3 DEF floppy_disable_controller, floppy_enable_controller
    <2> QED BY <2>1, <2>2, <2>3 DEF Kinds, driver
  <1>4. CASE floppy_control_motor("motor_on", MotorOn) \/ floppy_control_motor("motor_off", MotorOff)
    <2>1. dor' = MotorOn \/ dor' = MotorOff
      BY <1>4 DEF floppy_control_motor
    <2>2. dor'.motor \in {CurrentDrive, None} /\ dor'.gate \in BOOLEAN
      <3>1. \E m \in {CurrentDrive, None} : \E g \in BOOLEAN : dor' = [motor |-> m, gate |-> g]
        BY <2>1 DEF MotorOn, MotorOff
      <3> QED BY <3>1
    <2>3. UNCHANGED <<driver, nondma, heads, results, senses>>
      BY <1>4 DEF floppy_control_motor
    <2> QED BY <2>2, <2>3 DEF Kinds, driver
  <1>5. CASE SendCalibrate \/ SendSeek \/ SendRead
    BY <1>5 DEF SendCalibrate, SendSeek, SendRead, Send, Kinds, driver
  <1>6. CASE floppy_drive_data("specify_reset", 16) \/ floppy_drive_data("specify", 1)
    <2>1. nondma' \in BOOLEAN
      BY <1>6 DEF floppy_drive_data, Kinds
    <2> QED BY <1>6, <2>1 DEF floppy_drive_data, Kinds, driver
  <1>7. CASE floppy_check_int
    <2>1. results' \in Seq(Nat) /\ senses' \in Seq(Nat)
      <3>1. CASE UNCHANGED <<results, senses>>
        BY <3>1 DEF Kinds
      <3>2. CASE results' = <<128>> /\ UNCHANGED senses
        BY <3>2 DEF Kinds
      <3>3. CASE senses # <<>> /\ results' = <<32, Head(senses)>> /\ senses' = Tail(senses)
        <4>1. Head(senses) \in Nat /\ Tail(senses) \in Seq(Nat)
          BY <3>3 DEF Kinds
        <4> QED BY <3>3, <4>1
      <3> QED BY <1>7, <3>1, <3>2, <3>3 DEF floppy_check_int
    <2> QED BY <1>7, <2>1 DEF floppy_check_int, Kinds, driver
  <1>8. CASE \E call \in {"st0", "cyl", "result"} : floppy_read_data(call)
    <2>1. PICK call \in {"st0", "cyl", "result"} : floppy_read_data(call)
      BY <1>8
    <2>2. PICK byte \in (IF results = <<>> THEN {0} \cup Misses ELSE {Head(results)}) :
            cyl' = IF call = "cyl" THEN byte ELSE cyl
      BY <2>1 DEF floppy_read_data
    <2>3. byte \in Nat
      BY <2>2 DEF Kinds
    <2>4. cyl' \in Nat
      BY <2>2, <2>3 DEF Kinds
    <2>5. results' \in Seq(Nat)
      BY <2>1 DEF floppy_read_data, Kinds
    <2> QED BY <2>1, <2>4, <2>5 DEF floppy_read_data, Kinds
  <1>9. CASE IrqSeen \/ ClearIrq
    BY <1>9 DEF IrqSeen, ClearIrq, Kinds, driver, chip
  <1>10. CASE Calibrated
    <2>1. i' \in Nat /\ i' < MaxTries /\ cyl' \in Nat
      BY <1>10 DEF Calibrated, Kinds
    <2> QED BY <1>10, <2>1 DEF Calibrated, Kinds, chip
  <1>11. CASE SeekFound \/ SeekAgain \/ SeekFailed
    BY <1>11 DEF SeekFound, SeekAgain, SeekFailed, Kinds, chip
  <1>12. CASE SetUpDma \/ Return
    BY <1>12 DEF SetUpDma, Return, Kinds, driver, chip
  <1>13. CASE Positioned
    <2>1. exec.op \in {"calibrate", "seek"}
      BY <1>13 DEF Positioned
    <2>2. exec # NoCommand /\ exec # ReadCommand
      BY <2>1 DEF NoCommand, ReadCommand
    <2>3. exec.drive = CurrentDrive /\ exec.track \in Nat
      <3>1. CASE exec = CalibrateCommand
        BY <3>1 DEF CalibrateCommand
      <3>2. CASE want \in Sectors /\ exec = SeekCommand
        <4>1. TrackOf(want) \in Nat
          BY <3>2, ConvertExact
        <4> QED BY <3>2, <4>1 DEF SeekCommand
      <3> QED BY <2>2, <3>1, <3>2, Running
    <2>4. PICK x \in {exec.track} \cup Misses :
            heads' = [heads EXCEPT ![exec.drive] = x] /\ senses' = Append(senses, x)
      BY <1>13 DEF Positioned
    <2>5. x \in Nat
      BY <2>3, <2>4
    <2>6. heads' \in [Usable -> Nat] /\ senses' \in Seq(Nat)
      BY <2>3, <2>4, <2>5 DEF Kinds
    <2> QED BY <1>13, <2>6 DEF Positioned, Kinds, driver
  <1>14. CASE ReadDone
    BY <1>14 DEF ReadDone, Kinds, driver
  <1>15. CASE floppy_irq
    BY <1>15 DEF floppy_irq, Kinds
  <1> QED
    BY <1>1, <1>2, <1>3, <1>4, <1>5, <1>6, <1>7, <1>8, <1>9, <1>10, <1>11, <1>12, <1>13, <1>14, <1>15
    DEF Next, Driver, Controller

(* Every step keeps the registers of the channel within 16 bits. *)
LEMMA DmaStep ==
  ASSUME Kinds, DmaKinds, Next
  PROVE  DmaKinds'
PROOF
  <1>1. CASE SetUpDma
    BY <1>1, SetUpChannel
  <1>2. CASE ReadDone
    BY <1>2, ReadChannel
  <1>3. CASE dma' = dma
    BY <1>3 DEF DmaKinds
  <1> QED
    BY <1>1, <1>2, <1>3
    DEF Next, Driver, Controller, floppy_read, floppy_drive_set, floppy_disable_controller,
        floppy_enable_controller, floppy_control_motor, SendCalibrate, SendSeek, SendRead, Send,
        floppy_drive_data, floppy_check_int, floppy_read_data, IrqSeen, ClearIrq, Calibrated,
        SeekFound, SeekAgain, SeekFailed, Return, floppy_irq, Positioned

(* A call of the driver is under way unless it is idle. *)
LEMMA UnderWay ==
  ASSUME Placed, ~Idle
  PROVE  todo # <<>>
PROOF
  <1>1. \A p \in Seq(Calls) : \A k \in 1..Len(p) : Rest(p, k) # <<>>
    BY RestStep
  <1>2. CASE \E k \in 1..25 : Starting(k)
    <2>1. Initialize \in Seq(Calls) /\ Len(Initialize) = 26
      BY StartCalls
    <2>2. PICK k \in 1..25 : todo = Rest(Initialize, k)
      BY <1>2 DEF Starting
    <2>3. k \in 1..Len(Initialize)
      BY <2>1
    <2> QED BY ONLY <1>1, <2>1, <2>2, <2>3, Zenon
  <1>3. CASE \E k \in 1..2 : Stopping(k)
    BY <1>1, <1>3, StopCalls DEF Stopping
  <1>4. CASE \E k \in 1..8 : Seeking(k)
    BY <1>1, <1>4, TurnCalls DEF Seeking
  <1>5. CASE \E k \in 1..16 : Reading(k)
    BY <1>1, <1>5, ReadCalls DEF Reading
  <1> QED
    BY <1>2, <1>3, <1>4, <1>5 DEF Placed

(* A call of floppy_read or floppy_drive_set waits until the last one is over. *)
LEMMA PlacedStep ==
  ASSUME Kinds, DmaKinds, Placed, Next
  PROVE  Placed'
PROOF
  <1>1. CASE Idle
    BY <1>1, IdleStep
  <1>2. CASE ~Idle
    <2>1. todo # <<>>
      BY <1>2, UnderWay
    <2>2. Driver \/ Controller \/ floppy_irq
      BY <2>1 DEF Next, floppy_read, floppy_drive_set
    <2> QED BY <1>2, <2>2, StartingStep, StoppingStep, SeekingStep, ReadingStep DEF Placed
  <1> QED
    BY <1>1, <1>2

(* The invariant holds when floppy_initialize makes its first call. *)
LEMMA InvInit == Init => Inv
PROOF
  <1> SUFFICES ASSUME Init PROVE Inv
    OBVIOUS
  <1> USE FloppyAssumption
  <1>1. Kinds
    <2>1. CurrentDrive \in Usable
      BY DEF Init, Usable
    <2>2. heads \in [Usable -> Nat]
      <3>1. heads \in [Usable -> {0} \cup Misses] /\ {0} \cup Misses \subseteq Nat
        BY DEF Init
      <3> HIDE FloppyAssumption
      <3> QED BY <3>1
    <2>3. results \in Seq(Nat) /\ senses \in Seq(Nat)
      BY DEF Init
    <2>4. dor.motor = None /\ dor.gate \in BOOLEAN
      <3>1. dor = [motor |-> None, gate |-> FALSE]
        BY DEF Init
      <3> QED BY ONLY <3>1
    <2>5. i \in Nat /\ i < MaxTries /\ cyl \in Nat /\ DMA_BUFFER \in Buffers
      BY DEF Init
    <2> QED BY <2>1, <2>2, <2>3, <2>4, <2>5 DEF Init, Kinds
  <1>2. DmaKinds
    <2>1. 0 \in Nat /\ 0 < DmaLimit
      BY Bound
    <2> QED BY <2>1 DEF Init, DmaKinds
  <1>3. Starting(1)
    <2>1. todo = Rest(Initialize, 1)
      BY StartCalls, RestEnds DEF Init
    <2>2. Initialize[1] = "disable"
      BY StartCalls
    <2>3. Quiet
      BY DEF Init, Quiet
    <2>4. Len(results) = 0 /\ Len(senses) = 0
      BY DEF Init
    <2> QED BY <2>1, <2>2, <2>3, <2>4 DEF Starting, InPhase, Due, Bytes
  <1> QED
    BY <1>1, <1>2, <1>3 DEF Inv, Placed

(* It holds in every state. *)
LEMMA Invariance == Spec => []Inv
PROOF
  <1>1. Inv /\ [Next]_vars => Inv'
    <2> SUFFICES ASSUME Inv, [Next]_vars PROVE Inv'
      OBVIOUS
    <2>1. CASE Next
      BY <2>1, KindsStep, DmaStep, PlacedStep DEF Inv
    <2>2. CASE UNCHANGED vars
      <3>1. /\ todo' = todo /\ i' = i /\ cyl' = cyl /\ CurrentDrive' = CurrentDrive
            /\ DMA_BUFFER' = DMA_BUFFER /\ FloppyDiskIRQ' = FloppyDiskIRQ /\ want' = want
            /\ result' = result /\ dor' = dor /\ exec' = exec /\ results' = results
            /\ senses' = senses /\ irq' = irq /\ nondma' = nondma /\ heads' = heads
            /\ dma' = dma /\ moved' = moved
        BY <2>2 DEF vars, driver, chip
      <3>2. Kinds'
        BY <3>1 DEF Inv, Kinds
      <3>3. DmaKinds'
        BY <3>1 DEF Inv, DmaKinds
      <3>4. Idle => Idle'
        BY <3>1 DEF Idle, Settled, Quiet
      <3>5. ASSUME NEW k \in 1..25, Starting(k) PROVE Starting(k)'
        BY <3>1, <3>5 DEF Starting, InPhase, Quiet, Seen, Ended, Due, CalibrateCommand
      <3>6. ASSUME NEW k \in 1..2, Stopping(k) PROVE Stopping(k)'
        BY <3>1, <3>6 DEF Stopping, Settled, Quiet
      <3>7. ASSUME NEW k \in 1..8, Seeking(k) PROVE Seeking(k)'
        BY <3>1, <3>7 DEF Seeking, InPhase, Quiet, Seen, Ended, SeekCommand
      <3>8. ASSUME NEW k \in 1..16, Reading(k) PROVE Reading(k)'
        BY <3>1, <3>8 DEF Reading, InPhase, Quiet, Seen, Ended, ReadCommand, Channel, Filled
      <3> QED BY <3>2, <3>3, <3>4, <3>5, <3>6, <3>7, <3>8 DEF Inv, Placed
    <2> QED BY <2>1, <2>2
  <1> QED
    BY <1>1, InvInit, PTL DEF Spec

(* Numbers the lengths of the queues take. *)
LEMMA Few ==
  ASSUME NEW n
  PROVE  /\ n \in {0, 1, 2, 3, 4, 5, 6, 7} => n <= 7
         /\ n \in {0, 1, 2, 3, 4} => n <= 4
PROOF
  OBVIOUS

(* When a command is next, nothing runs, nothing is left over and everything has
   been fetched. *)
LEMMA BeforeCommand ==
  ASSUME Kinds, Placed, todo # <<>>, Head(todo) \in Commands \cup {"enable"}
  PROVE  Quiet /\ results = <<>>
PROOF
  <1>1. Head(todo) \in Commands \cup {"enable"}
    OBVIOUS
  <1>2. ASSUME NEW p \in Seq(Calls), NEW k \in 1..Len(p), todo = Rest(p, k)
        PROVE  Head(todo) = p[k]
    BY <1>2, RestStep
  <1>3. ASSUME Len(results) = 0 PROVE results = <<>>
    BY <1>3 DEF Kinds
  <1>4. CASE Idle \/ \E k \in 1..2 : Stopping(k)
    BY <1>4 DEF Idle, Stopping, Settled
  <1>5. CASE \E k \in 1..25 : Starting(k)
    <2>1. PICK k \in 1..25 : Starting(k)
      BY <1>5
    <2>2. k \in 1..Len(Initialize) /\ Initialize \in Seq(Calls)
      BY StartCalls
    <2>3. Head(todo) = Initialize[k]
      BY <1>2, <2>1, <2>2 DEF Starting
    <2> QED BY <1>1, <1>3, <2>1, <2>3 DEF Starting, InPhase, Bytes, Commands
  <1>6. CASE \E k \in 1..8 : Seeking(k)
    <2>1. PICK k \in 1..8 : Seeking(k)
      BY <1>6
    <2>2. k \in 1..Len(FirstTurn) /\ FirstTurn \in Seq(Calls)
      BY TurnCalls
    <2>3. Head(todo) = FirstTurn[k]
      BY <1>2, <2>1, <2>2 DEF Seeking
    <2>4. k \in {2, 5}
      BY <1>1, <2>3, SeekAt DEF Commands
    <2> QED BY <2>1, <2>4, TurnCalls DEF Seeking, InPhase
  <1>7. CASE \E k \in 1..16 : Reading(k)
    <2>1. PICK k \in 1..16 : Reading(k)
      BY <1>7
    <2>2. k \in 1..Len(ReadSector) /\ ReadSector \in Seq(Calls)
      BY ReadCalls
    <2>3. Head(todo) = ReadSector[k]
      BY <1>2, <2>1, <2>2 DEF Reading
    <2>4. k \in {2, 12}
      BY <1>1, <2>3, ReadAt DEF Commands
    <2>5. Quiet
      BY <2>1, <2>4, ReadCalls DEF Reading, InPhase
    <2>6. CASE k = 2
      BY <2>1, <2>5, <2>6 DEF Reading
    <2>7. CASE k = 12
      BY <1>3, <2>1, <2>5, <2>7 DEF Reading
    <2> QED BY <2>4, <2>6, <2>7
  <1> QED
    BY <1>4, <1>5, <1>6, <1>7 DEF Placed

(* The driver and the controller stay in step: every command finds the
   controller ready, no interrupt is left over from an earlier command when one
   that ends with an interrupt is sent, and every variable keeps its kind, for
   every set of drives, sectors and buffers, and however often the head misses. *)
THEOREM StayInStep == Spec => []InStep
PROOF
  <1>1. Inv => InStep
    <2> SUFFICES ASSUME Inv PROVE InStep
      OBVIOUS
    <2> USE FloppyAssumption
    <2>1. Kinds /\ DmaKinds /\ Placed
      BY DEF Inv
    <2>2. i \in 0..(MaxTries - 1)
      BY <2>1 DEF Kinds
    <2>3. dma.addr \in 0..(DmaLimit - 1) /\ dma.count \in 0..(DmaLimit - 1)
      <3>1. PICK a, c \in Nat : \E h, m, o :
              dma = Registers(a, c, h, m, o) /\ a < DmaLimit /\ c < DmaLimit
        BY <2>1 DEF DmaKinds
      <3>2. dma.addr = a /\ dma.count = c
        BY <3>1, Fields
      <3>3. DmaLimit \in Int
        BY Bound
      <3> QED BY <3>1, <3>2, <3>3
    <2>4. FloppyDiskIRQ \in {0, 1} /\ irq \in BOOLEAN
      <3>1. ASSUME NEW call, NEW c, InPhase(call, c) PROVE FloppyDiskIRQ \in {0, 1} /\ irq \in BOOLEAN
        BY <3>1 DEF InPhase, Quiet, Seen, Ended
      <3>2. ASSUME Settled PROVE FloppyDiskIRQ \in {0, 1} /\ irq \in BOOLEAN
        BY <3>2 DEF Settled, Quiet
      <3> QED BY <2>1, <3>1, <3>2 DEF Placed, Idle, Starting, Stopping, Seeking, Reading
    <2>5. Len(results) <= 7 /\ Len(senses) <= 4
      <3>1. CASE Idle \/ \E k \in 1..2 : Stopping(k)
        BY <3>1 DEF Idle, Stopping, Settled
      <3>2. CASE \E k \in 1..25 : Starting(k)
        <4>1. PICK k \in 1..25 : Starting(k)
          BY <3>2
        <4>2. Len(results) \in {0, 1, 2, 3, 4, 5, 6, 7}
          BY <4>1 DEF Starting, Bytes
        <4>3. Len(senses) \in {0, 1, 2, 3, 4}
          BY <4>1 DEF Starting, Due
        <4> QED BY ONLY <4>2, <4>3, Few, Zenon
      <3>3. CASE \E k \in 1..8 : Seeking(k)
        BY <3>3 DEF Seeking
      <3>4. CASE \E k \in 1..16 : Reading(k)
        <4>1. PICK k \in 1..16 : Reading(k)
          BY <3>4
        <4>2. Len(senses) \in {0, 1, 2, 3, 4}
          BY <4>1 DEF Reading
        <4>3. Len(results) \in {0, 1, 2, 3, 4, 5, 6, 7}
          <5>1. CASE 5 <= k /\ k <= 12
            <6>1. Len(results) = 12 - k
              BY <4>1, <5>1 DEF Reading
            <6>2. 12 - k \in {0, 1, 2, 3, 4, 5, 6, 7}
              BY <5>1
            <6> QED BY ONLY <6>1, <6>2, Zenon
          <5>2. CASE ~(5 <= k /\ k <= 12)
            <6>1. results = <<>> \/ Len(results) = 7 \/ Len(results) = 1
              BY <4>1, <5>2 DEF Reading
            <6> QED BY <6>1
          <5> QED BY <5>1, <5>2
        <4> QED BY ONLY <4>2, <4>3, Few, Zenon
      <3> QED BY <2>1, <3>1, <3>2, <3>3, <3>4 DEF Placed
    <2>6. TypeOK
      BY <2>1, <2>2, <2>3, <2>4, <2>5 DEF TypeOK, Kinds
    <2>7. CommandsTaken
      BY <2>1, BeforeCommand DEF CommandsTaken, Ready, Quiet
    <2>8. NoStaleInterrupt
      BY <2>1, BeforeCommand DEF NoStaleInterrupt, Quiet, Commands
    <2> QED BY <2>6, <2>7, <2>8 DEF InStep
  <1> QED
    BY <1>1, Invariance, PTL

(* The motor is off whenever no call is under way, unless the last one was a
   floppy_read whose seek failed. *)
THEOREM MotorOffBetween == Spec => []MotorStops
PROOF
  <1>1. Inv => MotorStops
    BY UnderWay DEF Inv, MotorStops, Idle
  <1> QED
    BY <1>1, Invariance, PTL

(* Whenever floppy_read is about to return the buffer and the medium was good,
   the controller has put the 512 bytes of the sector that was asked for there,
   from the drive that was chosen last: for every sector number and every buffer
   floppy_dma_initialize accepts, whatever went wrong before. *)
THEOREM ReadsRightSector == Spec => []RightSector
PROOF
  <1>1. Inv => RightSector
    <2> SUFFICES ASSUME Inv, Do("return") PROVE Filled
      BY DEF RightSector, Filled
    <2>1. Placed /\ todo # <<>> /\ Head(todo) = "return"
      BY DEF Inv, Do
    <2>2. ASSUME NEW p \in Seq(Calls), NEW k \in 1..Len(p), todo = Rest(p, k)
          PROVE  p[k] = "return"
      BY <2>1, <2>2, RestStep
    <2>3. ~Idle
      BY <2>1 DEF Idle
    <2>4. ASSUME NEW k \in 1..25, Starting(k) PROVE FALSE
      <3>1. k \in 1..Len(Initialize) /\ Initialize \in Seq(Calls)
        BY StartCalls
      <3>2. Initialize[k] = "return"
        BY <2>2, <2>4, <3>1 DEF Starting
      <3> QED BY <3>2, StartAt
    <2>5. ASSUME NEW k \in 1..2, Stopping(k) PROVE FALSE
      <3>1. k \in 1..Len(StopMotor) /\ StopMotor \in Seq(Calls)
        BY StopCalls
      <3>2. StopMotor[k] = "return"
        BY <2>2, <2>5, <3>1 DEF Stopping
      <3> QED BY <3>2, StopCalls
    <2>6. ASSUME NEW k \in 1..8, Seeking(k) PROVE FALSE
      <3>1. k \in 1..Len(FirstTurn) /\ FirstTurn \in Seq(Calls)
        BY TurnCalls
      <3>2. FirstTurn[k] = "return"
        BY <2>2, <2>6, <3>1 DEF Seeking
      <3> QED BY <3>2, SeekAt
    <2>7. ASSUME NEW k \in 1..16, Reading(k) PROVE Filled
      <3>1. k \in 1..Len(ReadSector) /\ ReadSector \in Seq(Calls)
        BY ReadCalls
      <3>2. ReadSector[k] = "return"
        BY <2>2, <2>7, <3>1 DEF Reading
      <3>3. k = 16
        BY <3>2, ReadAt
      <3> QED BY <2>7, <3>3 DEF Reading
    <2> QED BY <2>1, <2>3, <2>4, <2>5, <2>6, <2>7 DEF Placed
  <1> QED
    BY <1>1, Invariance, PTL
=============================================================================

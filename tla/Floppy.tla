------------------------------- MODULE Floppy -------------------------------
(***************************************************************************)
(* The floppy driver (arch/i386/fdc.c) and the DMA controller it programs  *)
(* (arch/i386/dma.c): initialising, choosing a drive, reading a sector.    *)
(*                                                                         *)
(* `todo' holds the calls that are still to be made, in order; a loop puts *)
(* its body in front again.  The bytes of a command go out in one step.    *)
(* The two controllers are hardware, modelled by what the driver relies    *)
(* on: a command is taken only when none is running and every result has   *)
(* been fetched, it ends with an interrupt if the gate in the DOR is open, *)
(* seeks may miss and reads may fail.                                      *)
(***************************************************************************)
EXTENDS Integers, Sequences

CONSTANTS
  Drives,       \* what floppy_drive_set is called with
  Sectors,      \* sectors that are read, numbered through the disk
  Buffers,      \* addresses malloc may return for DMA_BUFFER
  Misses,       \* cylinders the head may stop at by mistake
  MaxTries      \* turns of the loops of floppy_calibrate and floppy_seek

ASSUME FloppyAssumption ==
  /\ Drives \subseteq 0..255 /\ 0 \in Drives
  /\ Sectors \subseteq Nat /\ Buffers \subseteq Nat /\ Misses \subseteq Nat
  /\ MaxTries \in Nat \ {0}

FLOPPY_SECTORS_PER_TRACK == 18
DmaLimit == 2^16              \* the registers of the channel have 16 bits
DMA_MODE_READ_TRANSFER == 4   \* from the device to the memory
None == -1
Usable == Drives \cap (0..3)

VARIABLES
  todo,           \* calls to be made
  i,              \* the loop variable of floppy_calibrate and floppy_seek
  cyl,            \* the cylinder floppy_check_int read; like i, 0 out of scope
  CurrentDrive, DMA_BUFFER, FloppyDiskIRQ,
  want,           \* the sector floppy_read was called for
  result,         \* what it returned: "buffer" or "null"
  dor,            \* digital output register: drive whose motor is on, gate
  exec,           \* the command the controller runs, or NoCommand
  results,        \* bytes it has for the driver
  senses,         \* cylinders of interrupts that were not asked for yet
  irq,            \* its interrupt line
  nondma,         \* transfers without DMA, as set by SPECIFY
  heads,          \* drive -> cylinder its head is at
  dma,            \* registers of channel 2, and the flip-flop
  moved           \* the last transfer: sector, drive, address; or None

driver == <<i, cyl, CurrentDrive, DMA_BUFFER, FloppyDiskIRQ, want, result>>
chip   == <<dor, exec, results, senses, irq, nondma, heads>>
vars   == <<todo, driver, chip, dma, moved>>

-----------------------------------------------------------------------------
(* floppy_convert *)

(* Mutant of SectorOf: counted from 0. *)
SectorOf_from_zero(lba) == lba % FLOPPY_SECTORS_PER_TRACK

HeadOf(lba)   == (lba % (FLOPPY_SECTORS_PER_TRACK * 2)) \div FLOPPY_SECTORS_PER_TRACK
TrackOf(lba)  == lba \div (FLOPPY_SECTORS_PER_TRACK * 2)
SectorOf(lba) == (lba % FLOPPY_SECTORS_PER_TRACK) + 1

-----------------------------------------------------------------------------
(* Channel 2 of the first DMA controller.  A register is written in two    *)
(* halves; the flip-flop says which is next.                               *)

Registers(addr, count, high, masked, mode) ==
  [addr |-> addr, count |-> count, high |-> high, masked |-> masked, mode |-> mode]

Written(reg, byte, high) == IF high = 1 THEN (reg % 256) + 256 * byte ELSE 256 * (reg \div 256) + byte

AddrByte(d, byte)  == [d EXCEPT !.addr = Written(d.addr, byte, d.high), !.high = 1 - d.high]
CountByte(d, byte) == [d EXCEPT !.count = Written(d.count, byte, d.high), !.high = 1 - d.high]

(* DMA0_TEMP_REG is the master clear register when it is written. *)
dma_reset(d) == [d EXCEPT !.high = 0, !.masked = 1]

(* The register takes the channel in its low bits and the mask in bit 2; the
   code writes 1 << (channel - 1), which for channel 2 unmasks it. *)
dma_mask_channel(d, channel) ==
  LET value == 2^(channel - 1)
  IN  IF value % 4 = 2 THEN [d EXCEPT !.masked = (value \div 4) % 2] ELSE d

(* Returns at once for the controllers 0 and 1. *)
dma_reset_flipflop(d, n) == IF n < 2 THEN d ELSE [d EXCEPT !.high = 0]

dma_set_address(d, low, high) == AddrByte(AddrByte(d, low), high)
dma_set_count(d, low, high)   == CountByte(CountByte(d, low), high)

(* dma_unmask_all goes to the other controller. *)
dma_set_read(d, channel) ==
  [dma_mask_channel(d, channel) EXCEPT !.mode = DMA_MODE_READ_TRANSFER]

(* In this order, with the flip-flop in the state dma_reset left it in. *)
DmaProgram(d, buffer) ==
  LET d1 == dma_reset_flipflop(dma_mask_channel(dma_reset(d), 2), 1)
      d2 == dma_reset_flipflop(dma_set_address(d1, buffer % 256, (buffer \div 256) % 256), 1)
  IN  dma_set_read(dma_set_count(d2, 511 % 256, 511 \div 256), 2)

(* floppy_dma_initialize(buffer, 512): nothing is programmed for a buffer above
   16 MB or across a 64 KB boundary. *)
BufferIssue(buffer) == buffer \div 2^24 # 0 \/ ((buffer % 2^16) + 511) \div 2^16 # 0

floppy_dma_initialize(d, buffer) == IF BufferIssue(buffer) THEN d ELSE DmaProgram(d, buffer)

-----------------------------------------------------------------------------
(* The sequences of calls.                                                 *)

CheckInt == <<"check_int", "st0", "cyl">>

WaitIrq  == <<"wait", "clear">>

CalibrateTurn == <<"calibrate">> \o WaitIrq \o CheckInt \o <<"calibrated?">>
SeekTurn      == <<"seek">> \o WaitIrq \o CheckInt \o <<"found?">>

Reset == <<"disable", "enable">> \o WaitIrq
         \o CheckInt \o CheckInt \o CheckInt \o CheckInt
         \o <<"specify_reset", "motor_on">> \o CalibrateTurn

Initialize == Reset \o <<"specify">>

Fetch == <<"result", "result", "result", "result", "result", "result", "result">>

ReadSector == <<"dma", "read">> \o WaitIrq \o Fetch \o CheckInt
              \o <<"motor_off", "return">>

NoCommand  == [op |-> "none"]
NoTransfer == [state |-> "none", lba |-> None, drive |-> None, addr |-> 0, length |-> 0]
ReadError  == [NoTransfer EXCEPT !.state = "error"]

(* floppy_initialize has installed the handler and called malloc. *)
Init ==
  /\ todo = Initialize
  /\ i = 0 /\ cyl = 0
  /\ CurrentDrive = 0 /\ DMA_BUFFER \in Buffers /\ FloppyDiskIRQ = 0
  /\ want = None /\ result = "none"
  /\ dor = [motor |-> None, gate |-> FALSE]
  /\ exec = NoCommand /\ results = <<>> /\ senses = <<>> /\ irq = FALSE
  /\ nondma = TRUE
  /\ heads \in [Usable -> {0} \cup Misses]
  /\ dma = Registers(0, 0, 0, 1, 0)
  /\ moved = NoTransfer

Do(call) == todo # <<>> /\ Head(todo) = call
Done == todo' = Tail(todo)

-----------------------------------------------------------------------------
(* The driver.                                                             *)

floppy_read(lba) ==
  /\ todo = <<>>
  /\ todo' = <<"motor_on">> \o SeekTurn
  /\ want' = lba /\ result' = "none" /\ moved' = NoTransfer /\ i' = 0
  /\ UNCHANGED <<cyl, CurrentDrive, DMA_BUFFER, FloppyDiskIRQ, chip, dma>>

floppy_drive_set(drive) ==
  /\ todo = <<>>
  /\ CurrentDrive' = IF drive < 4 THEN drive ELSE CurrentDrive
  /\ UNCHANGED <<todo, i, cyl, DMA_BUFFER, FloppyDiskIRQ, want, result, chip, dma, moved>>

(* The controller forgets everything while it is disabled. *)
floppy_disable_controller ==
  /\ Do("disable") /\ Done
  /\ dor' = [motor |-> None, gate |-> FALSE]
  /\ exec' = NoCommand /\ results' = <<>> /\ senses' = <<>> /\ irq' = FALSE
  /\ UNCHANGED <<driver, nondma, heads, dma, moved>>

(* Out of reset it interrupts, with one status for each of four drives. *)
floppy_enable_controller ==
  /\ Do("enable") /\ Done
  /\ dor' = [motor |-> None, gate |-> TRUE]
  /\ senses' = <<0, 0, 0, 0>> /\ irq' = TRUE
  /\ UNCHANGED <<driver, exec, results, nondma, heads, dma, moved>>

(* Mutant of MotorOn: without FLOPPY_DOR_MASK_DMA. *)
MotorOn_no_gate == [motor |-> CurrentDrive, gate |-> FALSE]

(* What floppy_control_motor writes to the DOR; off also closes the gate. *)
MotorOn  == [motor |-> CurrentDrive, gate |-> TRUE]
MotorOff == [motor |-> None, gate |-> FALSE]

floppy_control_motor(call, value) ==
  /\ Do(call) /\ Done
  /\ dor' = value
  /\ UNCHANGED <<driver, exec, results, senses, irq, nondma, heads, dma, moved>>

Ready == exec = NoCommand /\ results = <<>>

(* floppy_send_command: bytes are lost when the controller wants none. *)
Send(call, command) ==
  /\ Do(call) /\ Done
  /\ exec' = IF Ready THEN command ELSE exec
  /\ UNCHANGED <<driver, dor, results, senses, irq, nondma, heads, dma, moved>>

SendCalibrate == Send("calibrate", [op |-> "calibrate", drive |-> CurrentDrive, track |-> 0])

SendSeek == Send("seek", [op |-> "seek", drive |-> CurrentDrive, track |-> TrackOf(want)])

SendRead == Send("read", [op |-> "read", drive |-> CurrentDrive, head |-> HeadOf(want),
                          track |-> TrackOf(want), sector |-> SectorOf(want)])

(* floppy_drive_data, with dma = 1: (loadt) << 1 | (dma==0) is the condition of
   ?:, so that the last byte is 0 for every loadt but 0, and bit 0 with it. *)
SpecifyByte(loadt) == IF 2 * loadt # 0 THEN 0 ELSE 1

floppy_drive_data(call, loadt) ==
  /\ Do(call) /\ Done
  /\ nondma' = IF Ready THEN SpecifyByte(loadt) % 2 = 1 ELSE nondma
  /\ UNCHANGED <<driver, dor, exec, results, senses, irq, heads, dma, moved>>

(* FDC_CMD_CHECK_INT: two bytes for an interrupt, one if there was none. *)
floppy_check_int ==
  /\ Do("check_int") /\ Done
  /\ IF ~Ready THEN UNCHANGED <<results, senses>>
     ELSE IF senses = <<>> THEN results' = <<128>> /\ UNCHANGED senses
     ELSE results' = <<32, Head(senses)>> /\ senses' = Tail(senses)
  /\ UNCHANGED <<driver, dor, exec, irq, nondma, heads, dma, moved>>

(* A read of the data register when there is nothing in it gives anything. *)
floppy_read_data(call) ==
  /\ Do(call) /\ Done
  /\ \E byte \in IF results = <<>> THEN {0} \cup Misses ELSE {Head(results)} :
       cyl' = IF call = "cyl" THEN byte ELSE cyl
  /\ results' = IF results = <<>> THEN results ELSE Tail(results)
  /\ UNCHANGED <<i, CurrentDrive, DMA_BUFFER, FloppyDiskIRQ, want, result,
                 dor, exec, senses, irq, nondma, heads, dma, moved>>

(* floppy_wait_irq: the loop, and the assignment after it. *)
IrqSeen ==
  /\ Do("wait") /\ FloppyDiskIRQ = 1
  /\ Done
  /\ UNCHANGED <<driver, chip, dma, moved>>

(* Mutant of ClearIrq: the flag stays. *)
ClearIrq_stays ==
  /\ Do("clear") /\ Done
  /\ UNCHANGED <<driver, chip, dma, moved>>

ClearIrq ==
  /\ Do("clear") /\ Done
  /\ FloppyDiskIRQ' = 0
  /\ UNCHANGED <<i, cyl, CurrentDrive, DMA_BUFFER, want, result, chip, dma, moved>>

(* Mutant of Calibrated: the motor is stopped after a failure only. *)
Calibrated_motor_on ==
  /\ Do("calibrated?")
  /\ IF cyl = 0 \/ i + 1 = MaxTries
     THEN todo' = (IF cyl = 0 THEN <<>> ELSE <<"motor_off">>) \o Tail(todo) /\ i' = 0 /\ cyl' = 0
     ELSE todo' = CalibrateTurn \o Tail(todo) /\ i' = i + 1 /\ UNCHANGED cyl
  /\ UNCHANGED <<CurrentDrive, DMA_BUFFER, FloppyDiskIRQ, want, result, chip, dma, moved>>

(* The end of a turn of the loop of floppy_calibrate. *)
Calibrated ==
  /\ Do("calibrated?")
  /\ IF cyl = 0 \/ i + 1 = MaxTries
     THEN todo' = <<"motor_off">> \o Tail(todo) /\ i' = 0 /\ cyl' = 0
     ELSE todo' = CalibrateTurn \o Tail(todo) /\ i' = i + 1 /\ UNCHANGED cyl
  /\ UNCHANGED <<CurrentDrive, DMA_BUFFER, FloppyDiskIRQ, want, result, chip, dma, moved>>

Found == Do("found?") /\ cyl = TrackOf(want)

(* The head is where it should be: floppy_seek returns 0. *)
SeekFound ==
  /\ Found
  /\ todo' = ReadSector /\ i' = 0 /\ cyl' = 0
  /\ UNCHANGED <<CurrentDrive, DMA_BUFFER, FloppyDiskIRQ, want, result, chip, dma, moved>>

SeekAgain ==
  /\ Do("found?") /\ ~Found /\ i + 1 < MaxTries
  /\ todo' = SeekTurn /\ i' = i + 1
  /\ UNCHANGED <<cyl, CurrentDrive, DMA_BUFFER, FloppyDiskIRQ, want, result, chip, dma, moved>>

(* floppy_read returns 0 and leaves the motor on. *)
SeekFailed ==
  /\ Do("found?") /\ ~Found /\ i + 1 = MaxTries
  /\ todo' = <<>> /\ i' = 0 /\ cyl' = 0 /\ result' = "null"
  /\ UNCHANGED <<CurrentDrive, DMA_BUFFER, FloppyDiskIRQ, want, chip, dma, moved>>

(* What floppy_dma_initialize returns is not looked at. *)
SetUpDma ==
  /\ Do("dma") /\ Done
  /\ dma' = dma_set_read(floppy_dma_initialize(dma, DMA_BUFFER), 2)
  /\ UNCHANGED <<driver, chip, moved>>

Return ==
  /\ Do("return") /\ Done
  /\ result' = "buffer" /\ cyl' = 0
  /\ UNCHANGED <<i, CurrentDrive, DMA_BUFFER, FloppyDiskIRQ, want, chip, dma, moved>>

floppy_irq ==
  /\ irq /\ dor.gate
  /\ irq' = FALSE
  /\ FloppyDiskIRQ' = 1
  /\ UNCHANGED <<todo, i, cyl, CurrentDrive, DMA_BUFFER, want, result,
                 dor, exec, results, senses, nondma, heads, dma, moved>>

-----------------------------------------------------------------------------
(* The controller.                                                         *)

(* The end of a calibrate or a seek, perhaps at another cylinder. *)
Positioned ==
  /\ exec.op \in {"calibrate", "seek"}
  /\ \E x \in {exec.track} \cup Misses :
       /\ heads' = [heads EXCEPT ![exec.drive] = x]
       /\ senses' = Append(senses, x)
  /\ exec' = NoCommand /\ irq' = TRUE
  /\ UNCHANGED <<todo, driver, dor, results, nondma, dma, moved>>

(* The sector with a given place, counted through the disk. *)
SectorAt(track, head, sector) ==
  (track * 2 + head) * FLOPPY_SECTORS_PER_TRACK + sector - 1

Transferable ==
  /\ dor.motor = exec.drive /\ heads[exec.drive] = exec.track
  /\ exec.sector \in 1..FLOPPY_SECTORS_PER_TRACK
  /\ ~nondma /\ dma.masked = 0 /\ dma.mode = DMA_MODE_READ_TRANSFER

(* The end of a read: with the data moved, without it because the medium is
   bad, or without it because of the driver.  The page register of the channel,
   the upper bits of the address, is still 0; where the address stands after
   the transfer is not kept. *)
ReadDone ==
  /\ exec.op = "read"
  /\ \/ Transferable /\ moved' = [state |-> "done", drive |-> exec.drive,
                                  lba |-> SectorAt(exec.track, exec.head, exec.sector),
                                  addr |-> dma.addr, length |-> dma.count + 1]
     \/ Transferable /\ moved' = ReadError
     \/ ~Transferable /\ moved' = NoTransfer
  /\ dma' = [dma EXCEPT !.addr = 0, !.masked = 1]
  /\ results' = <<0, 0, 0, 0, 0, 0, 0>>
  /\ exec' = NoCommand /\ irq' = TRUE
  /\ UNCHANGED <<todo, driver, dor, senses, nondma, heads>>

-----------------------------------------------------------------------------
Driver ==
  \/ floppy_disable_controller \/ floppy_enable_controller
  \/ floppy_control_motor("motor_on", MotorOn)
  \/ floppy_control_motor("motor_off", MotorOff)
  \/ SendCalibrate \/ SendSeek \/ SendRead
  \/ floppy_drive_data("specify_reset", 16) \/ floppy_drive_data("specify", 1)
  \/ floppy_check_int \/ \E call \in {"st0", "cyl", "result"} : floppy_read_data(call)
  \/ IrqSeen \/ ClearIrq \/ Calibrated \/ SeekFound \/ SeekAgain \/ SeekFailed
  \/ SetUpDma \/ Return

Controller == Positioned \/ ReadDone

Next ==
  \/ \E lba \in Sectors : floppy_read(lba)
  \/ \E drive \in Drives : floppy_drive_set(drive)
  \/ Driver \/ Controller \/ floppy_irq

Spec == Init /\ [][Next]_vars

(* The driver runs on, commands end, and the interrupt is taken. *)
FairSpec ==
  Spec /\ WF_vars(Driver) /\ WF_vars(Controller) /\ WF_vars(floppy_irq)

-----------------------------------------------------------------------------
(* Properties.                                                             *)

(* The kinds of values the variables hold; the loops make at most MaxTries
   turns. *)
TypeOK ==
  /\ i \in 0..(MaxTries - 1) /\ CurrentDrive \in Usable
  /\ FloppyDiskIRQ \in {0, 1} /\ irq \in BOOLEAN /\ nondma \in BOOLEAN
  /\ want \in Sectors \cup {None} /\ result \in {"none", "buffer", "null"}
  /\ dor.motor \in Usable \cup {None} /\ dor.gate \in BOOLEAN
  /\ Len(results) <= 7 /\ Len(senses) <= 4
  /\ dma.addr \in 0..(DmaLimit - 1) /\ dma.count \in 0..(DmaLimit - 1)

Commands == {"calibrate", "seek", "read", "specify", "specify_reset", "check_int"}

(* Every command the driver sends finds the controller ready for one: what the
   command before it had to say has been fetched to the last byte. *)
CommandsTaken == todo # <<>> /\ Head(todo) \in Commands => Ready

(* When a command that ends with an interrupt is sent, no earlier interrupt is
   left over: floppy_wait_irq waits for the end of its own command. *)
NoStaleInterrupt ==
  todo # <<>> /\ Head(todo) \in {"enable", "calibrate", "seek", "read"} =>
    FloppyDiskIRQ = 0 /\ (Head(todo) = "enable" \/ ~irq)

(* Driver and controller stay in step through every sequence of commands, missed
   tracks and failed reads: no command is sent too early, no interrupt is taken
   for that of another command, and the loops end after MaxTries turns. *)
InStep == TypeOK /\ CommandsTaken /\ NoStaleInterrupt

(* When floppy_read is about to return the buffer, the controller has filled it
   with the 512 bytes of the sector that was asked for, from the current drive,
   unless it reported an error, which floppy_read does not look at.  As the page
   register is never written, only the lower half of the address is right; and
   nothing is programmed for a buffer that floppy_dma_initialize refuses. *)
RightSector ==
  Do("return") /\ moved # ReadError /\ ~BufferIssue(DMA_BUFFER) =>
    /\ moved.state = "done" /\ moved.lba = want /\ moved.drive = CurrentDrive
    /\ moved.addr = DMA_BUFFER % DmaLimit /\ moved.length = 512

(* The motor is off between calls, except after a seek that failed. *)
MotorStops == todo = <<>> /\ result # "null" => dor.motor = None

(* Every call returns: no interrupt is waited for with the gate closed, and no
   loop goes on for ever. *)
Returns == todo # <<>> ~> todo = <<>>
=============================================================================

----------------------------- MODULE Interrupts -----------------------------
(***************************************************************************)
(* Interrupt delivery: the gates and the common entry code (irq/idt.c,     *)
(* irq/interrupt-entry.S), isr_handler and irq_handler (irq/interrupt.c),  *)
(* the two interrupt controllers (pic.c), the timer and sleep (pit.c), the *)
(* lock of the allocator, which is the interrupt flag (heap_lock and       *)
(* heap_unlock of mem/heap.c), and when interrupts come on during boot     *)
(* (kernel_main).                                                          *)
(*                                                                         *)
(* The processor runs the top of `stack'.  Its bottom is kernel_main; every *)
(* interrupt pushes a context and its iret pops it.  An interrupt that is  *)
(* accepted found the flag on, so iret always turns it on again.           *)
(*                                                                         *)
(* The controllers and the keyboard controller are hardware, modelled by   *)
(* what the code relies on: a request is latched in irr, accepting it sets *)
(* its bit in isr (for the slave's lines also bit 2 of the master), bits   *)
(* in isr hold back lines of the same or a lower priority, and an end of   *)
(* interrupt clears the bit of highest priority.                           *)
(***************************************************************************)
EXTENDS Integers, Sequences

CONSTANTS
  Lines,         \* lines devices are on; 0 is the timer, 1 the keyboard
  Glitches,      \* lines that may drop a request again: spurious interrupts
  Keys,          \* keys pressed: "plain", "heap" (2), "malloc" (3), "fault" (1)
  MaxSleep,      \* bound: longest sleep, in ticks
  MaxDepth,      \* bound: contexts on the stack
  KeysInBoot     \* whether a key may be pressed before keyboard_install

ASSUME InterruptsAssumption ==
  /\ Lines \subseteq 0..15 \ {2} /\ {0, 1} \subseteq Lines
  /\ Glitches \subseteq Lines
  /\ Keys \subseteq {"plain", "heap", "malloc", "fault"}
  /\ MaxSleep \in Nat /\ MaxDepth \in Nat \ {0}
  /\ KeysInBoot \in BOOLEAN

VARIABLES
  irr, isr,     \* requested lines, lines in service
  iflag,        \* the interrupt flag
  stack,        \* contexts: its line, Main or Exception, and where it is
  irq_routines, \* lines with a handler
  left,         \* how far timer_ticks is below eticks of the current sleep, or 0
  obf           \* the keyboard controller holds a byte that was not read

vars == <<irr, isr, iflag, stack, irq_routines, left, obf>>

(* What runs when it is not the handler of a line. *)
Main == -1
Exception == -2

Context(who, at) == [irq |-> who, pc |-> at]
Depth == Len(stack)
Top == stack[Depth]
At(at) == Top.pc = at
Goto(at) == stack' = [stack EXCEPT ![Depth].pc = at]

(* Boot with interrupts off; pit_install has been called, keyboard_install
   not yet. *)
Init ==
  /\ irr = {} /\ isr = {}
  /\ iflag = FALSE
  /\ stack = <<Context(Main, "boot")>>
  /\ irq_routines = {0}
  /\ left = 0
  /\ obf = FALSE

-----------------------------------------------------------------------------
(* Hardware.                                                               *)

Master(S) == S \cap 0..7
Slave(S)  == S \cap 8..15

(* The line of the master a request comes in on. *)
MasterLine(q) == IF q < 8 THEN q ELSE 2

(* Nothing in service holds line q back. *)
Deliverable(q) ==
  /\ \A b \in Master(isr) : MasterLine(q) < b
  /\ q >= 8 => \A b \in Slave(isr) : q < b

(* 0, 1, then 8 to 15, then 3 to 7. *)
Priority(q) == IF q < 8 THEN 16 * q ELSE 32 + q

(* A tick comes after the handler of the one before has returned: a period is
   10 ms.  The timer is running since pit_install. *)
TimerRaise ==
  /\ 0 \notin irr /\ \A d \in 1..Depth : stack[d].irq # 0
  /\ irr' = irr \cup {0}
  /\ UNCHANGED <<isr, iflag, stack, irq_routines, left, obf>>

(* The keyboard controller requests an interrupt when its output buffer fills;
   what is typed before the byte is read has to wait. *)
KeyRaise ==
  /\ ~obf
  /\ KeysInBoot \/ 1 \in irq_routines
  /\ obf' = TRUE
  /\ irr' = irr \cup {1}
  /\ UNCHANGED <<isr, iflag, stack, irq_routines, left>>

DeviceRaise(q) ==
  /\ q \notin irr
  /\ irr' = irr \cup {q}
  /\ UNCHANGED <<isr, iflag, stack, irq_routines, left, obf>>

(* A processor in hlt goes on behind it after the interrupt: sleep tests again. *)
Interrupted == [stack EXCEPT ![Depth].pc = IF @ = "asleep" THEN "check" ELSE @]

(* Mutant of Enter: a trap gate, which leaves the flag alone. *)
Enter_trap_gate(who, at) ==
  /\ stack' = Append(Interrupted, Context(who, at))
  /\ iflag' = iflag

(* The gates of idt_initialize are interrupt gates: they turn the flag off. *)
Enter(who, at) ==
  /\ stack' = Append(Interrupted, Context(who, at))
  /\ iflag' = FALSE

InService(q) == {q, MasterLine(q)}

(* The processor takes the request of highest priority. *)
Accept(q) ==
  /\ iflag /\ Depth < MaxDepth
  /\ q \in irr /\ Deliverable(q)
  /\ \A p \in irr : Deliverable(p) => Priority(q) <= Priority(p)
  /\ irr' = irr \ {q}
  /\ isr' = isr \cup InService(q)
  /\ Enter(q, "entry")
  /\ UNCHANGED <<irq_routines, left, obf>>

(* A request that is gone when it should be accepted comes in as the lowest
   line of its controller, with no bit of that controller in service. *)
Spurious(q) ==
  /\ iflag /\ Depth < MaxDepth
  /\ Deliverable(q)
  /\ isr' = IF q < 8 THEN isr ELSE isr \cup {2}
  /\ Enter(IF q < 8 THEN 7 ELSE 15, "entry")
  /\ UNCHANGED <<irr, irq_routines, left, obf>>

-----------------------------------------------------------------------------
(* irq_handler, run by the context on top.                                 *)

(* The bits of highest priority of a controller: one, or none. *)
Highest(S) == {b \in S : \A c \in S : b <= c}

pic_eoi_master(S) == S \ Highest(Master(S))
pic_eoi_slave(S)  == S \ Highest(Slave(S))

IsSpurious(q) == q \in {7, 15} /\ q \notin isr

SpuriousReturn ==
  /\ At("entry") /\ IsSpurious(Top.irq)
  /\ isr' = IF Top.irq = 7 THEN isr ELSE pic_eoi_master(isr)
  /\ Goto("iret")
  /\ UNCHANGED <<irr, iflag, irq_routines, left, obf>>

Dispatch ==
  /\ At("entry") /\ ~IsSpurious(Top.irq)
  /\ Goto(IF Top.irq \in irq_routines THEN "body" ELSE "eoi")
  /\ UNCHANGED <<irr, isr, iflag, irq_routines, left, obf>>

(* Mutant of pit_handler: the tick is not counted. *)
pit_handler_uncounted ==
  /\ At("body") /\ Top.irq = 0
  /\ Goto("eoi")
  /\ UNCHANGED <<irr, isr, iflag, irq_routines, left, obf>>

(* One tick less to go for the sleep that runs, if any: `left' shrinks exactly
   as timer_ticks grows. *)
pit_handler ==
  /\ At("body") /\ Top.irq = 0
  /\ left' = IF left > 0 THEN left - 1 ELSE 0
  /\ Goto("eoi")
  /\ UNCHANGED <<irr, isr, iflag, irq_routines, obf>>

(* keyboard_handler reads the byte; some keys call into the memory system, 3
   with the lock and 2 without. *)
keyboard_handler ==
  /\ At("body") /\ Top.irq = 1
  /\ obf' = FALSE
  /\ \E key \in Keys \ {"fault"} :
       Goto(CASE key = "plain"  -> "eoi"
              [] key = "heap"   -> "heap"
              [] key = "malloc" -> "lock")
  /\ UNCHANGED <<irr, isr, iflag, irq_routines, left>>

(* Key 1 reads an address that is not mapped.  isr_handler runs page_fault,
   then hlt, which only an interrupt could end. *)
KeyFault ==
  /\ At("body") /\ Top.irq = 1 /\ "fault" \in Keys
  /\ obf' = FALSE
  /\ Enter(Exception, "hlt")
  /\ UNCHANGED <<irr, isr, irq_routines, left>>

(* isr_handler's hlt, interrupts off. *)
Halted ==
  /\ At("hlt")
  /\ UNCHANGED vars

(* Key 2: heap_alloc, with no lock around it. *)
HeapDone ==
  /\ At("heap")
  /\ Goto("eoi")
  /\ UNCHANGED <<irr, isr, iflag, irq_routines, left, obf>>

(* Mutants of Eoi: the slave is left out; the master is told of the slave's
   interrupts only. *)
Eoi_master_only ==
  /\ At("eoi")
  /\ isr' = pic_eoi_master(isr)
  /\ Goto("iret")
  /\ UNCHANGED <<irr, iflag, irq_routines, left, obf>>

Eoi_slave_lines_only ==
  /\ At("eoi")
  /\ isr' = IF 8 <= Top.irq THEN pic_eoi_master(pic_eoi_slave(isr)) ELSE isr
  /\ Goto("iret")
  /\ UNCHANGED <<irr, iflag, irq_routines, left, obf>>

Eoi ==
  /\ At("eoi")
  /\ isr' = pic_eoi_master(IF 8 <= Top.irq THEN pic_eoi_slave(isr) ELSE isr)
  /\ Goto("iret")
  /\ UNCHANGED <<irr, iflag, irq_routines, left, obf>>

Iret ==
  /\ At("iret")
  /\ stack' = SubSeq(stack, 1, Depth - 1)
  /\ iflag' = TRUE
  /\ UNCHANGED <<irr, isr, irq_routines, left, obf>>

-----------------------------------------------------------------------------
(* liballoc_lock and liballoc_unlock around a section of malloc or free, in *)
(* kernel_main or in keyboard_handler.                                     *)

(* Mutant of Lock: the flag is left as it is. *)
Lock_open ==
  /\ At("lock")
  /\ Goto("section")
  /\ UNCHANGED <<irr, isr, iflag, irq_routines, left, obf>>

Lock ==
  /\ At("lock")
  /\ iflag' = FALSE
  /\ Goto("section")
  /\ UNCHANGED <<irr, isr, irq_routines, left, obf>>

Unlock ==
  /\ At("section")
  /\ iflag' = TRUE
  /\ Goto(IF Top.irq = Main THEN "idle" ELSE "eoi")
  /\ UNCHANGED <<irr, isr, irq_routines, left, obf>>

-----------------------------------------------------------------------------
(* kernel_main                                                             *)

TurnOn ==
  /\ At("boot")
  /\ iflag' = TRUE
  /\ Goto("install")
  /\ UNCHANGED <<irr, isr, irq_routines, left, obf>>

keyboard_install ==
  /\ At("install")
  /\ irq_routines' = irq_routines \cup {1}
  /\ Goto("idle")
  /\ UNCHANGED <<irr, isr, iflag, left, obf>>

(* kmalloc and kfree calls of the boot path, or a driver's sleep. *)
Choose ==
  /\ At("idle")
  /\ \/ Goto("lock") /\ UNCHANGED left
     \/ \E n \in 1..MaxSleep : Goto("check") /\ left' = n
  /\ UNCHANGED <<irr, isr, iflag, irq_routines, obf>>

(* The loop of sleep: the test, and the hlt that any interrupt ends.  A tick
   may come between the two. *)
SleepTest ==
  /\ At("check")
  /\ Goto(IF left > 0 THEN "before_hlt" ELSE "idle")
  /\ UNCHANGED <<irr, isr, iflag, irq_routines, left, obf>>

Hlt ==
  /\ At("before_hlt")
  /\ Goto("asleep")
  /\ UNCHANGED <<irr, isr, iflag, irq_routines, left, obf>>

-----------------------------------------------------------------------------
(* What the context on top does next. *)
Step ==
  \/ SpuriousReturn \/ Dispatch \/ pit_handler \/ keyboard_handler \/ KeyFault
  \/ HeapDone \/ Eoi \/ Iret \/ Lock \/ Unlock
  \/ TurnOn \/ keyboard_install \/ SleepTest \/ Hlt

Next ==
  \/ Step \/ Choose \/ Halted
  \/ TimerRaise \/ KeyRaise \/ \E q \in Lines \ {0, 1} : DeviceRaise(q)
  \/ \E q \in Lines : Accept(q)
  \/ \E q \in Glitches : Spurious(q)

Spec == Init /\ [][Next]_vars

(* The timer keeps ticking; the processor takes timer and keyboard interrupts
   that are pending whenever its flag is on; devices are slower than it, so
   that every context runs on when it is on top again and again. *)
Fairness ==
  /\ WF_vars(TimerRaise)
  /\ \A q \in {0, 1} : SF_vars(Accept(q))
  /\ \A d \in 1..MaxDepth : SF_vars(Depth = d /\ Step)

FairSpec == Spec /\ Fairness

-----------------------------------------------------------------------------
(* Properties.                                                             *)

Positions ==
  {"entry", "body", "heap", "lock", "section", "eoi", "iret", "hlt",
   "boot", "install", "idle", "check", "before_hlt", "asleep"}

(* The kinds of values the variables hold; kernel_main is at the bottom of the
   stack and nowhere else. *)
TypeOK ==
  /\ irr \subseteq Lines /\ isr \subseteq 0..15
  /\ iflag \in BOOLEAN /\ obf \in BOOLEAN
  /\ irq_routines \subseteq Lines
  /\ left \in 0..MaxSleep
  /\ Depth >= 1 /\ stack[1].irq = Main
  /\ \A d \in 2..Depth : stack[d].irq # Main /\ stack[d].pc \in Positions

(* The allocator and the kernel heap are entered by one context at a time:
   malloc in kernel_main, malloc and the unlocked heap_alloc in
   keyboard_handler.  liballoc_unlock turns interrupts on inside a handler, and
   still no second one gets in. *)
AllocExclusive ==
  \A d, e \in 1..Depth :
    {stack[d].pc, stack[e].pc} \subseteq {"section", "heap"} => d = e

(* Before its end of interrupt a handler is not entered again for the same
   line, even when it has turned interrupts on. *)
NoReentry ==
  \A d, e \in 2..Depth :
    d # e /\ stack[d].irq = stack[e].irq => "iret" \in {stack[d].pc, stack[e].pc}

(* The bits a context still has to clear. *)
Owes(c) ==
  CASE c.irq \in {Main, Exception} \/ c.pc = "iret" -> {}
    [] c.pc = "entry" /\ IsSpurious(c.irq) -> IF c.irq = 7 THEN {} ELSE {2}
    [] OTHER -> InService(c.irq)

(* irq_handler's ends of interrupt are exact: the bits in service are those of
   the contexts that have not sent theirs.  An unspecific end of interrupt
   never hits a bit of another context, and none is forgotten. *)
InServiceExact == isr = UNION {Owes(stack[d]) : d \in 1..Depth}

(* Handlers and the controllers' bits in service agree: every handler that was
   entered is counted once, until its own end of interrupt, however handlers of
   both controllers and spurious ones nest above kernel_main. *)
ServiceExact == TypeOK /\ NoReentry /\ InServiceExact

Faulted == Top.irq = Exception

(* sleep returns, unless the machine stops for good: a tick that comes between
   its test and its hlt only costs one more period. *)
Sleeping == stack[1].pc \in {"check", "before_hlt", "asleep"}
SleepEnds == Sleeping ~> ~Sleeping \/ Faulted

(* A byte the keyboard controller holds is read, unless the machine stops. *)
KeysRead == obf ~> ~obf \/ Faulted

(* An exception stops the machine for good: isr_handler's hlt is never left,
   because the gate turned interrupts off. *)
FaultHalts == [][Faulted => stack' = stack]_vars
=============================================================================

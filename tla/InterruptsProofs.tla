-------------------------- MODULE InterruptsProofs --------------------------
(***************************************************************************)
(* Interrupts, for every set of lines, keys and devices: the allocator is  *)
(* entered by one context at a time; handlers and the bits in service      *)
(* agree; a machine that an exception has stopped stays stopped.           *)
(*                                                                         *)
(* Inv says more than the first property: a context that is                *)
(* between its gate and its handler's first sti, or in a locked section,   *)
(* is on top of the stack and interrupts are off.  It is about places in   *)
(* the code where nothing is locked, because heap_alloc (key 2) relies on  *)
(* the gate alone.  The one exception is a machine that an exception has   *)
(* stopped, with keyboard_handler left behind in its body.                 *)
(***************************************************************************)
EXTENDS Interrupts, SequenceTheorems, TLAPS

Contexts == [irq : Int, pc : Positions]
Guarded == {"entry", "body", "section", "heap"}
MainPlaces == {"boot", "install", "idle", "lock", "section",
               "check", "before_hlt", "asleep"}

(* The stack is a sequence of contexts with kernel_main at the bottom. *)
StackOK ==
  /\ stack \in Seq(Contexts) /\ Len(stack) >= 1
  /\ stack[1].irq = Main /\ stack[1].pc \in MainPlaces

(* A context at a guarded place is on top, and interrupts are off. *)
GuardedOnTop ==
  \A d \in 1..Len(stack) : stack[d].pc \in Guarded => d = Len(stack) /\ ~iflag

(* isr_handler has executed its hlt. *)
Stopped ==
  /\ stack[Len(stack)].irq = Exception /\ stack[Len(stack)].pc = "hlt" /\ ~iflag
  /\ \A d \in 1..Len(stack) : ~(stack[d].pc \in {"section", "heap"})

Inv == StackOK /\ iflag \in BOOLEAN /\ (GuardedOnTop \/ Stopped)

(* What a gate leaves below the new context: the same stack, and a processor
   that was in hlt at the test of sleep. *)
LEMMA InterruptedStack ==
  ASSUME StackOK
  PROVE  /\ Interrupted \in Seq(Contexts) /\ Len(Interrupted) = Len(stack)
         /\ Interrupted[1].irq = Main /\ Interrupted[1].pc \in MainPlaces
         /\ \A d \in 1..Len(stack) :
              /\ Interrupted[d].pc \in Guarded => Interrupted[d].pc = stack[d].pc
              /\ Interrupted[d].irq = stack[d].irq
              /\ stack[d].pc # "asleep" => Interrupted[d].pc = stack[d].pc
<1> DEFINE n == Len(stack)
           pc == IF stack[n].pc = "asleep" THEN "check" ELSE stack[n].pc
           c  == [irq |-> stack[n].irq, pc |-> pc]
<1>1. stack \in Seq(Contexts) /\ n \in Nat /\ n >= 1 /\ n \in 1..n
  BY DEF StackOK
<1>2. stack[n] \in Contexts /\ pc \in Positions
  <2>1. stack[n] \in Contexts
    BY <1>1
  <2>2. stack[n].pc \in Positions
    BY <2>1 DEF Contexts
  <2>3. "check" \in Positions
    BY DEF Positions
  <2> QED  BY <2>1, <2>2, <2>3
<1>3. c \in Contexts /\ [stack[n] EXCEPT !.pc = pc] = c
  <2> HIDE DEF pc
  <2> QED  BY <1>2 DEF Contexts
<1>4. Interrupted = [stack EXCEPT ![n] = c]
  BY <1>1, <1>3 DEF Interrupted, Depth
<1>5. c.pc = pc /\ c.irq = stack[n].irq
  OBVIOUS
<1>6. /\ c.pc \in Guarded => c.pc = stack[n].pc
      /\ stack[n].pc # "asleep" => c.pc = stack[n].pc
  BY <1>5 DEF Guarded
<1>7. n = 1 => c.irq = Main /\ c.pc \in MainPlaces
  BY <1>5 DEF StackOK, MainPlaces
<1> HIDE DEF c, n
<1>8. /\ Interrupted \in Seq(Contexts) /\ Len(Interrupted) = n
      /\ Interrupted[n] = c
      /\ \A d \in 1..n : d # n => Interrupted[d] = stack[d]
  <2>1. n = Len(stack)
    BY DEF n
  <2> QED  BY <1>1, <1>3, <1>4, <2>1
<1>9. Interrupted[1].irq = Main /\ Interrupted[1].pc \in MainPlaces
  BY <1>1, <1>7, <1>8 DEF StackOK
<1>10. \A d \in 1..n :
         /\ Interrupted[d].pc \in Guarded => Interrupted[d].pc = stack[d].pc
         /\ Interrupted[d].irq = stack[d].irq
         /\ stack[d].pc # "asleep" => Interrupted[d].pc = stack[d].pc
  BY <1>5, <1>6, <1>8
<1> QED  BY <1>8, <1>9, <1>10 DEF n

(* A gate pushes a context. *)
LEMMA EnterStack ==
  ASSUME StackOK, NEW who \in Int, NEW at \in Positions, Enter(who, at)
  PROVE  /\ StackOK' /\ Len(stack') = Len(stack) + 1 /\ iflag' = FALSE
         /\ stack'[Len(stack')].irq = who /\ stack'[Len(stack')].pc = at
         /\ \A d \in 1..Len(stack) :
              /\ stack'[d].pc \in Guarded => stack'[d].pc = stack[d].pc
              /\ stack'[d].irq = stack[d].irq
              /\ stack[d].pc # "asleep" => stack'[d].pc = stack[d].pc
<1> DEFINE S == Interrupted
<1>1. /\ S \in Seq(Contexts) /\ Len(S) = Len(stack)
      /\ S[1].irq = Main /\ S[1].pc \in MainPlaces
      /\ \A d \in 1..Len(stack) :
           /\ S[d].pc \in Guarded => S[d].pc = stack[d].pc
           /\ S[d].irq = stack[d].irq
           /\ stack[d].pc # "asleep" => S[d].pc = stack[d].pc
  BY InterruptedStack
<1>2. stack' = Append(S, [irq |-> who, pc |-> at]) /\ iflag' = FALSE
  BY DEF Enter, Context
<1>3. Len(stack) \in Nat /\ Len(stack) >= 1
  BY DEF StackOK
<1> HIDE DEF S
<1>4. [irq |-> who, pc |-> at] \in Contexts
  BY DEF Contexts
<1>5. /\ stack' \in Seq(Contexts) /\ Len(stack') = Len(stack) + 1
      /\ stack'[Len(stack) + 1] = [irq |-> who, pc |-> at]
      /\ \A d \in 1..Len(stack) : stack'[d] = S[d]
  BY <1>1, <1>2, <1>3, <1>4
<1> QED  BY <1>1, <1>2, <1>3, <1>5 DEF StackOK

(* An interrupt is accepted, or a spurious one comes in, with the flag on. *)
LEMMA GateStep ==
  ASSUME Inv, iflag, NEW who \in Int, NEW at \in Positions, Enter(who, at)
  PROVE  Inv'
<1>1. /\ StackOK' /\ Len(stack') = Len(stack) + 1 /\ iflag' = FALSE
      /\ \A d \in 1..Len(stack) :
           stack'[d].pc \in Guarded => stack'[d].pc = stack[d].pc
  BY EnterStack DEF Inv
<1>2. Len(stack) \in Nat
  BY DEF Inv, StackOK
<1>3. \A d \in 1..Len(stack) : ~(stack[d].pc \in Guarded)
  BY DEF Inv, GuardedOnTop, Stopped
<1>4. ~iflag' /\ iflag' \in BOOLEAN
  BY <1>1
<1>5. \A d \in 1..Len(stack') : d # Len(stack') => ~(stack'[d].pc \in Guarded)
  BY <1>1, <1>2, <1>3
<1>6. GuardedOnTop'
  BY <1>4, <1>5 DEF GuardedOnTop
<1> QED  BY <1>1, <1>4, <1>6 DEF Inv

(* The context on top goes on to `at'. *)
LEMMA GotoStack ==
  ASSUME StackOK, NEW at \in Positions, Goto(at), Len(stack) = 1 => at \in MainPlaces
  PROVE  /\ StackOK' /\ Len(stack') = Len(stack)
         /\ stack'[Len(stack)].pc = at
         /\ stack'[Len(stack)].irq = stack[Len(stack)].irq
         /\ \A d \in 1..Len(stack) : d # Len(stack) => stack'[d] = stack[d]
<1> DEFINE n == Len(stack)
           c == [irq |-> stack[n].irq, pc |-> at]
<1>1. stack \in Seq(Contexts) /\ n \in Nat /\ n >= 1 /\ n \in 1..n
  BY DEF StackOK
<1>2. stack[n] \in Contexts
  BY <1>1
<1>3. c \in Contexts /\ [stack[n] EXCEPT !.pc = at] = c /\ c.pc = at /\ c.irq = stack[n].irq
  BY <1>2 DEF Contexts
<1>4. stack' = [stack EXCEPT ![n] = c]
  BY <1>1, <1>3 DEF Goto, Depth
<1> HIDE DEF c
<1>5. /\ stack' \in Seq(Contexts) /\ Len(stack') = n
      /\ stack'[n] = c
      /\ \A d \in 1..n : d # n => stack'[d] = stack[d]
  BY <1>1, <1>3, <1>4
<1>6. stack'[1].irq = Main /\ stack'[1].pc \in MainPlaces
  BY <1>1, <1>3, <1>5 DEF StackOK
<1> QED  BY <1>1, <1>3, <1>5, <1>6 DEF StackOK

(* The same with the invariant: going to a guarded place needs the flag off,
   and turning the flag on needs to leave it. *)
LEMMA GotoStep ==
  ASSUME Inv, GuardedOnTop, NEW at \in Positions, Goto(at), iflag' \in BOOLEAN,
         Len(stack) = 1 => at \in MainPlaces,
         at \in Guarded => ~iflag'
  PROVE  Inv'
<1>1. /\ StackOK' /\ Len(stack') = Len(stack) /\ stack'[Len(stack)].pc = at
      /\ \A d \in 1..Len(stack) : d # Len(stack) => stack'[d] = stack[d]
  BY GotoStack DEF Inv
<1>2. \A d \in 1..Len(stack) : d # Len(stack) => ~(stack[d].pc \in Guarded)
  BY DEF GuardedOnTop
<1> QED  BY <1>1, <1>2 DEF Inv, GuardedOnTop

(* A machine that has stopped takes no step of its own. *)
LEMMA TopPlace ==
  ASSUME Inv, NEW at \in Positions, At(at), at # "hlt"
  PROVE  GuardedOnTop /\ (Len(stack) = 1 => at \in MainPlaces)
  BY DEF Inv, StackOK, Stopped, At, Top, Depth

(* iret removes the context on top, which is not kernel_main. *)
LEMMA IretStack ==
  ASSUME Inv, Iret
  PROVE  /\ GuardedOnTop /\ Len(stack) \in Nat /\ Len(stack) > 1 /\ iflag' = TRUE
         /\ StackOK' /\ Len(stack') = Len(stack) - 1
         /\ \A d \in 1..(Len(stack) - 1) : stack'[d] = stack[d]
<1> DEFINE n == Len(stack)
<1>1. GuardedOnTop /\ stack \in Seq(Contexts) /\ n \in Nat /\ n >= 1 /\ n # 1
  <2>1. At("iret") /\ "iret" \in Positions /\ "iret" # "hlt"
    BY DEF Iret, Positions
  <2>2. GuardedOnTop /\ (Len(stack) = 1 => "iret" \in MainPlaces)
    BY <2>1, TopPlace
  <2>3. ~("iret" \in MainPlaces)
    BY DEF MainPlaces
  <2> QED  BY <2>2, <2>3 DEF Inv, StackOK
<1>2. stack' = SubSeq(stack, 1, n - 1) /\ iflag' = TRUE
  BY DEF Iret, Depth
<1>3. /\ stack' \in Seq(Contexts) /\ Len(stack') = n - 1
      /\ \A d \in 1..(n - 1) : stack'[d] = stack[d]
  <2>1. n - 1 \in Int /\ 1 \in Int /\ \A i \in 1..(n - 1) : stack[i] \in Contexts
    BY <1>1
  <2>2. /\ stack' \in Seq(Contexts)
        /\ Len(stack') = IF 1 <= n - 1 THEN n - 1 - 1 + 1 ELSE 0
        /\ \A i \in 1..(n - 1 - 1 + 1) : stack'[i] = stack[1 + i - 1]
    <3> HIDE DEF n
    <3> QED  BY <1>2, <2>1, SubSeqProperties
  <2>3. /\ n - 1 - 1 + 1 = n - 1 /\ 1 <= n - 1
        /\ \A i \in 1..(n - 1) : 1 + i - 1 = i
    <3>1. n \in Nat /\ n >= 1 /\ n # 1
      BY <1>1
    <3> HIDE DEF n
    <3> QED  BY <3>1
  <2> HIDE DEF n
  <2> QED  BY <2>2, <2>3
<1>4. StackOK'
  BY <1>1, <1>3 DEF Inv, StackOK
<1> QED  BY <1>1, <1>2, <1>3, <1>4

(* The contexts below are at no guarded place. *)
LEMMA IretStep ==
  ASSUME Inv, Iret
  PROVE  Inv'
<1>1. /\ GuardedOnTop /\ Len(stack) \in Nat /\ Len(stack) > 1 /\ iflag' = TRUE
      /\ StackOK' /\ Len(stack') = Len(stack) - 1
      /\ \A d \in 1..(Len(stack) - 1) : stack'[d] = stack[d]
  BY IretStack
<1>2. \A d \in 1..(Len(stack) - 1) : ~(stack[d].pc \in Guarded)
  BY <1>1 DEF GuardedOnTop
<1> QED  BY <1>1, <1>2 DEF Inv, GuardedOnTop

(* The invariant does not depend on requests, bits in service or handlers. *)
LEMMA SameStack ==
  ASSUME Inv, UNCHANGED <<stack, iflag>>
  PROVE  Inv'
  BY DEF Inv, StackOK, GuardedOnTop, Stopped

(* A context that is in its handler's entry, body, or a section keeps the flag
   off until it leaves it. *)
LEMMA FlagOff ==
  ASSUME Inv, NEW at \in Guarded, At(at)
  PROVE  ~iflag
  BY DEF Inv, StackOK, GuardedOnTop, Stopped, At, Top, Depth, Guarded

(* Every step of a context preserves the invariant. *)
LEMMA StepInv ==
  ASSUME Inv, Step
  PROVE  Inv'
<1> USE DEF Guarded, Positions, MainPlaces
<1>1. CASE SpuriousReturn
  <2>1. At("entry") /\ Goto("iret") /\ iflag' = iflag
    BY <1>1 DEF SpuriousReturn
  <2> QED  BY <2>1, TopPlace, GotoStep DEF Inv
<1>2. CASE Dispatch
  <2>1. At("entry") /\ iflag' = iflag /\ (Goto("body") \/ Goto("eoi"))
    BY <1>2 DEF Dispatch
  <2>2. ~iflag
    BY <2>1, FlagOff
  <2> QED  BY <2>1, <2>2, TopPlace, GotoStep DEF Inv
<1>3. CASE pit_handler
  <2>1. At("body") /\ Goto("eoi") /\ iflag' = iflag
    BY <1>3 DEF pit_handler
  <2> QED  BY <2>1, TopPlace, GotoStep DEF Inv
<1>4. CASE keyboard_handler
  <2>1. At("body") /\ iflag' = iflag /\ (Goto("eoi") \/ Goto("heap") \/ Goto("lock"))
    BY <1>4, InterruptsAssumption DEF keyboard_handler
  <2>2. ~iflag
    BY <2>1, FlagOff
  <2> QED  BY <2>1, <2>2, TopPlace, GotoStep DEF Inv
<1>5. CASE KeyFault
  <2>1. At("body") /\ Enter(Exception, "hlt")
    BY <1>5 DEF KeyFault
  <2>2. GuardedOnTop /\ StackOK /\ Exception \in Int
    BY <2>1, TopPlace DEF Inv, Exception
  <2>3. /\ StackOK' /\ Len(stack') = Len(stack) + 1 /\ iflag' = FALSE
        /\ stack'[Len(stack')].irq = Exception /\ stack'[Len(stack')].pc = "hlt"
        /\ \A d \in 1..Len(stack) :
             stack'[d].pc \in Guarded => stack'[d].pc = stack[d].pc
    BY <2>1, <2>2, EnterStack
  <2>4. Len(stack) \in Nat /\ stack[Len(stack)].pc = "body"
    BY <2>1, <2>2 DEF StackOK, At, Top, Depth
  <2>5. \A d \in 1..Len(stack) : ~(stack'[d].pc \in {"section", "heap"})
    BY <2>2, <2>3, <2>4 DEF GuardedOnTop
  <2>6. \A d \in 1..Len(stack') : ~(stack'[d].pc \in {"section", "heap"})
    BY <2>3, <2>4, <2>5
  <2> QED  BY <2>3, <2>6 DEF Inv, Stopped
<1>6. CASE HeapDone
  <2>1. At("heap") /\ Goto("eoi") /\ iflag' = iflag
    BY <1>6 DEF HeapDone
  <2> QED  BY <2>1, TopPlace, GotoStep DEF Inv
<1>7. CASE Eoi
  <2>1. At("eoi") /\ Goto("iret") /\ iflag' = iflag
    BY <1>7 DEF Eoi
  <2> QED  BY <2>1, TopPlace, GotoStep DEF Inv
<1>8. CASE Iret
  BY <1>8, IretStep
<1>9. CASE Lock
  <2>1. At("lock") /\ Goto("section") /\ iflag' = FALSE
    BY <1>9 DEF Lock
  <2> QED  BY <2>1, TopPlace, GotoStep DEF Inv
<1>10. CASE Unlock
  <2>1. At("section") /\ iflag' = TRUE
    BY <1>10 DEF Unlock
  <2>2. GuardedOnTop /\ StackOK
    BY <2>1, TopPlace DEF Inv
  <2>3. Goto("idle") \/ (Goto("eoi") /\ Top.irq # Main)
    BY <1>10 DEF Unlock
  <2>4. Len(stack) = 1 => Top.irq = Main
    BY <2>2 DEF StackOK, Top, Depth
  <2> QED  BY <2>1, <2>2, <2>3, <2>4, GotoStep DEF Inv
<1>11. CASE TurnOn
  <2>1. At("boot") /\ Goto("install") /\ iflag' = TRUE
    BY <1>11 DEF TurnOn
  <2> QED  BY <2>1, TopPlace, GotoStep DEF Inv
<1>12. CASE keyboard_install
  <2>1. At("install") /\ Goto("idle") /\ iflag' = iflag
    BY <1>12 DEF keyboard_install
  <2> QED  BY <2>1, TopPlace, GotoStep DEF Inv
<1>13. CASE SleepTest
  <2>1. At("check") /\ iflag' = iflag /\ (Goto("before_hlt") \/ Goto("idle"))
    BY <1>13 DEF SleepTest
  <2> QED  BY <2>1, TopPlace, GotoStep DEF Inv
<1>14. CASE Hlt
  <2>1. At("before_hlt") /\ Goto("asleep") /\ iflag' = iflag
    BY <1>14 DEF Hlt
  <2> QED  BY <2>1, TopPlace, GotoStep DEF Inv
<1> QED
  BY <1>1, <1>2, <1>3, <1>4, <1>5, <1>6, <1>7, <1>8, <1>9, <1>10, <1>11, <1>12,
     <1>13, <1>14 DEF Step

(* Every step of the system preserves the invariant. *)
LEMMA NextInv ==
  ASSUME Inv, [Next]_vars
  PROVE  Inv'
<1>1. CASE Step
  BY <1>1, StepInv
<1>2. CASE Choose
  <2>1. At("idle") /\ iflag' = iflag /\ (Goto("lock") \/ Goto("check"))
    BY <1>2 DEF Choose
  <2> QED  BY <2>1, TopPlace, GotoStep DEF Inv, Guarded, Positions, MainPlaces
<1>3. CASE TimerRaise \/ KeyRaise \/ \E q \in Lines \ {0, 1} : DeviceRaise(q)
  BY <1>3, SameStack DEF TimerRaise, KeyRaise, DeviceRaise
<1>4. CASE \E q \in Lines : Accept(q)
  <2>1. PICK q \in Lines : Accept(q)
    BY <1>4
  <2>2. q \in Int /\ iflag /\ Enter(q, "entry")
    BY <2>1, InterruptsAssumption DEF Accept
  <2> QED  BY <2>2, GateStep DEF Positions
<1>5. CASE \E q \in Glitches : Spurious(q)
  <2>1. PICK q \in Glitches : Spurious(q)
    BY <1>5
  <2>2. iflag /\ (Enter(7, "entry") \/ Enter(15, "entry"))
    BY <2>1 DEF Spurious
  <2> QED  BY <2>2, GateStep DEF Positions
<1>6. CASE Halted \/ UNCHANGED vars
  BY <1>6, SameStack DEF Halted, vars
<1> QED
  BY <1>1, <1>2, <1>3, <1>4, <1>5, <1>6 DEF Next

(* At boot the stack holds kernel_main alone. *)
LEMMA InitInv ==
  ASSUME Init
  PROVE  Inv /\ Len(stack) = 1
<1> DEFINE c == [irq |-> Main, pc |-> "boot"]
<1>1. c \in Contexts /\ c.irq = Main /\ c.pc = "boot"
  BY DEF Contexts, Positions, Main
<1>2. stack = <<c>> /\ iflag = FALSE
  BY DEF Init, Context
<1> HIDE DEF c
<1>3. stack \in Seq(Contexts) /\ Len(stack) = 1 /\ stack[1] = c
  BY <1>1, <1>2
<1>4. StackOK
  BY <1>1, <1>3 DEF StackOK, MainPlaces
<1>5. GuardedOnTop
  BY <1>1, <1>2, <1>3 DEF GuardedOnTop, Guarded
<1> QED  BY <1>2, <1>3, <1>4, <1>5 DEF Inv

(* malloc, free and heap_alloc are never entered by two contexts, whatever the
   lines, keys and devices are and however deep interrupts nest. *)
THEOREM Exclusion == Spec => []AllocExclusive
<1>1. Init => Inv
  BY InitInv
<1>2. Inv /\ [Next]_vars => Inv'
  BY NextInv
<1>3. Inv => AllocExclusive
  BY DEF Inv, StackOK, GuardedOnTop, Stopped, AllocExclusive, Depth, Guarded
<1> QED
  BY <1>1, <1>2, <1>3, PTL DEF Spec
-----------------------------------------------------------------------------
(* Handlers and the bits in service.                                       *)

HandlerPlaces == {"entry", "body", "heap", "lock", "section", "eoi", "iret"}

(* keyboard_handler has returned from malloc, which turned interrupts on, and
   its end of interrupt is still to come. *)
KeyEoi(c) == c.irq = 1 /\ c.pc = "eoi"

(* Above kernel_main there are handlers; only keyboard_handler calls the
   allocator; an exception is on top, with interrupts off. *)
Shape ==
  \A d \in 2..Len(stack) :
    \/ /\ stack[d].irq \in 0..15 /\ stack[d].pc \in HandlerPlaces
       /\ stack[d].pc \in {"body", "heap", "lock", "section"} => stack[d].irq \in {0, 1}
       /\ stack[d].pc \in {"heap", "lock", "section"} => stack[d].irq = 1
    \/ stack[d].irq = Exception /\ stack[d].pc = "hlt" /\ d = Len(stack) /\ ~iflag

(* Of the first m contexts, every handler has sent its end of interrupt, except
   for at most one, of the keyboard. *)
Quiet(m) ==
  /\ \A d \in 2..m : stack[d].pc = "iret" \/ KeyEoi(stack[d])
  /\ \A d, e \in 2..m : KeyEoi(stack[d]) /\ KeyEoi(stack[e]) => d = e
KeyIn(m) == \E d \in 2..m : KeyEoi(stack[d])
KeyBit(m) == IF KeyIn(m) THEN {1} ELSE {}

(* The two parts of ServiceExact that say something of the bits in service. *)
BitsExact == NoReentry /\ InServiceExact

(* What is in service is what the context on top owes, and the keyboard's bit
   when a handler of it was interrupted; only the timer, or a spurious line 7,
   comes in over it. *)
ServiceInv ==
  /\ Quiet(Len(stack) - 1)
  /\ isr = KeyBit(Len(stack) - 1) \cup Owes(stack[Len(stack)])
  /\ KeyIn(Len(stack) - 1) =>
       \/ stack[Len(stack)].pc = "iret"
       \/ stack[Len(stack)].irq = 0
       \/ stack[Len(stack)].irq = 7 /\ stack[Len(stack)].pc = "entry" /\ 7 \notin isr
  /\ iflag => \/ Len(stack) = 1
              \/ stack[Len(stack)].pc = "iret"
              \/ KeyEoi(stack[Len(stack)])

FullInv ==
  /\ Inv /\ Shape /\ irq_routines \subseteq {0, 1}
  /\ ServiceInv \/ (Faulted /\ BitsExact)

(* What a context owes, by the kind of context it is. *)
LEMMA OwesCases ==
  ASSUME NEW c
  PROVE  /\ c.irq = Main \/ c.irq = Exception \/ c.pc = "iret" => Owes(c) = {}
         /\ c.irq \in 0..15 /\ c.pc \in HandlerPlaces \ {"entry", "iret"}
              => Owes(c) = InService(c.irq)
         /\ c.irq \in 0..15 /\ c.pc = "entry" /\ ~IsSpurious(c.irq)
              => Owes(c) = InService(c.irq)
         /\ c.irq = 7 /\ c.pc = "entry" /\ 7 \notin isr => Owes(c) = {}
         /\ c.irq = 15 /\ c.pc = "entry" /\ 15 \notin isr => Owes(c) = {2}
         /\ KeyEoi(c) => Owes(c) = {1}
<1>1. c.irq = Main \/ c.irq = Exception \/ c.pc = "iret" => Owes(c) = {}
  BY DEF Owes, IsSpurious, Main, Exception
<1>2. c.irq \in 0..15 => ~(c.irq \in {Main, Exception})
  BY DEF Main, Exception
<1>3. c.irq \in 0..15 /\ c.pc \in HandlerPlaces \ {"entry", "iret"}
        => Owes(c) = InService(c.irq)
  BY <1>2 DEF Owes
<1>4. c.irq \in 0..15 /\ c.pc = "entry" /\ ~IsSpurious(c.irq)
        => Owes(c) = InService(c.irq)
  BY <1>2 DEF Owes
<1>5. c.irq = 7 /\ c.pc = "entry" /\ 7 \notin isr => Owes(c) = {}
  BY <1>2 DEF Owes, IsSpurious
<1>6. c.irq = 15 /\ c.pc = "entry" /\ 15 \notin isr => Owes(c) = {2}
  BY <1>2 DEF Owes, IsSpurious
<1>7. KeyEoi(c) => Owes(c) = {1}
  BY <1>3 DEF KeyEoi, HandlerPlaces, InService, MasterLine
<1> QED  BY <1>1, <1>3, <1>4, <1>5, <1>6, <1>7

(* The stack's handlers agree with the bits in service. *)
LEMMA ServiceInvExact ==
  ASSUME Inv, Shape, ServiceInv
  PROVE  BitsExact
<1> DEFINE n == Len(stack)
<1>1. n \in Nat /\ n >= 1 /\ stack[1].irq = Main
  BY DEF Inv, StackOK
<1>2. \A d \in 2..n - 1 : Owes(stack[d]) = (IF KeyEoi(stack[d]) THEN {1} ELSE {})
  BY OwesCases DEF ServiceInv, Quiet
<1>3. Owes(stack[1]) = {}
  BY <1>1, OwesCases
<1>4. InServiceExact
  <2>1. isr = KeyBit(n - 1) \cup Owes(stack[n])
    BY DEF ServiceInv
  <2>2. UNION {Owes(stack[d]) : d \in 1..n} = KeyBit(n - 1) \cup Owes(stack[n])
    <3> HIDE DEF n
    <3>1. ASSUME NEW b, b \in KeyBit(n - 1) \cup Owes(stack[n])
          PROVE  \E d \in 1..n : b \in Owes(stack[d])
      BY <1>1, <1>2, <3>1 DEF KeyBit, KeyIn
    <3>2. ASSUME NEW d \in 1..n, NEW b \in Owes(stack[d])
          PROVE  b \in KeyBit(n - 1) \cup Owes(stack[n])
      <4>1. CASE d = 1
        BY <4>1, <1>3
      <4>2. CASE d = n
        BY <4>2
      <4>3. CASE d \in 2..n - 1
        BY <4>3, <1>2 DEF KeyBit, KeyIn
      <4> QED  BY <1>1, <4>1, <4>2, <4>3
    <3> QED  BY <3>1, <3>2
  <2> QED  BY <2>1, <2>2 DEF InServiceExact, Depth
<1>5. NoReentry
  <2> SUFFICES ASSUME NEW d \in 2..n, NEW e \in 2..n, d # e, stack[d].irq = stack[e].irq,
                      stack[d].pc # "iret", stack[e].pc # "iret"
               PROVE  FALSE
    BY DEF NoReentry, Depth
  <2>1. \A k \in 2..n - 1 : stack[k].pc = "iret" \/ KeyEoi(stack[k])
    BY DEF ServiceInv, Quiet
  <2>2. \A k \in 2..n - 1 : KeyEoi(stack[k]) =>
          stack[n].pc = "iret" \/ stack[n].irq = 0 \/ stack[n].irq = 7
    BY DEF ServiceInv, KeyIn
  <2>3. \A k \in 2..n - 1 : KeyEoi(stack[k]) => stack[k].irq = 1
    BY DEF KeyEoi
  <2>4. \A k, j \in 2..n - 1 : KeyEoi(stack[k]) /\ KeyEoi(stack[j]) => k = j
    BY DEF ServiceInv, Quiet
  <2> HIDE DEF n
  <2>5. CASE d \in 2..n - 1 /\ e \in 2..n - 1
    BY <2>1, <2>4, <2>5
  <2>6. CASE d \in 2..n - 1 /\ e = n
    BY <2>1, <2>2, <2>3, <2>6
  <2>7. CASE e \in 2..n - 1 /\ d = n
    BY <2>1, <2>2, <2>3, <2>7
  <2> QED  BY <1>1, <2>5, <2>6, <2>7
<1> QED  BY <1>4, <1>5 DEF BitsExact

(* With interrupts on, everything but the keyboard's bit is out of service. *)
LEMMA FlagOn ==
  ASSUME FullInv, iflag
  PROVE  Quiet(Len(stack)) /\ isr = KeyBit(Len(stack)) /\ Shape /\ Inv
<1> DEFINE n == Len(stack)
<1>1. n \in Nat /\ n >= 1 /\ stack[1].irq = Main
  BY DEF FullInv, Inv, StackOK
<1>2. ServiceInv
  <2>1. n >= 2 => stack[n].irq # Exception
    BY <1>1, SMTT(40) DEF FullInv, Shape, Exception
  <2>2. stack[1].irq # Exception
    BY <1>1 DEF Exception, Main
  <2> QED  BY <1>1, <2>1, <2>2 DEF FullInv, Faulted, Top, Depth
<1>3. CASE n = 1
  <2>1. KeyBit(1) = {} /\ KeyBit(1 - 1) = {} /\ Quiet(1)
    BY DEF KeyBit, KeyIn, Quiet
  <2> QED  BY <1>1, <1>2, <1>3, <2>1, OwesCases DEF ServiceInv, FullInv
<1>4. CASE n # 1 /\ stack[n].pc = "iret"
  <2>1. ~KeyEoi(stack[n])
    BY <1>4 DEF KeyEoi
  <2>2. Quiet(n) /\ (KeyIn(n) <=> KeyIn(n - 1))
    <3>1. Quiet(n - 1)
      BY <1>2 DEF ServiceInv
    <3> HIDE DEF n
    <3> QED  BY <1>1, <1>4, <2>1, <3>1 DEF Quiet, KeyIn
  <2> QED  BY <1>2, <1>4, <2>2, OwesCases DEF ServiceInv, FullInv, KeyBit
<1>5. CASE n # 1 /\ KeyEoi(stack[n])
  <2>1. stack[n].pc # "iret" /\ stack[n].irq = 1
    BY <1>5 DEF KeyEoi
  <2>2. ~KeyIn(n - 1) /\ Quiet(n - 1)
    BY <1>2, <2>1 DEF ServiceInv
  <2>3. Quiet(n) /\ KeyIn(n)
    <3> HIDE DEF n
    <3> QED  BY <1>1, <1>5, <2>2 DEF Quiet, KeyIn
  <2> QED  BY <1>2, <1>5, <2>2, <2>3, OwesCases DEF ServiceInv, FullInv, KeyBit
<1> QED  BY <1>2, <1>3, <1>4, <1>5 DEF ServiceInv
(* Contexts that stay where they are stay quiet. *)
LEMMA SameBelow ==
  ASSUME NEW CONSTANT m \in Int,
         \A d \in 2..m : stack'[d].irq = stack[d].irq /\ stack'[d].pc = stack[d].pc
  PROVE  /\ Quiet(m)' <=> Quiet(m)
         /\ KeyIn(m)' <=> KeyIn(m)
         /\ KeyBit(m)' = KeyBit(m)
<1>1. \A d \in 2..m : KeyEoi(stack'[d]) <=> KeyEoi(stack[d])
  BY DEF KeyEoi
<1>2. KeyIn(m)' <=> KeyIn(m)
  BY <1>1 DEF KeyIn
<1> QED  BY <1>1, <1>2 DEF Quiet, KeyBit

(* A gate over a machine with interrupts on. *)
LEMMA GateQuiet ==
  ASSUME FullInv, iflag, NEW who \in 0..15, Enter(who, "entry")
  PROVE  /\ Shape' /\ Quiet(Len(stack) - 1)' /\ KeyBit(Len(stack) - 1)' = isr
         /\ isr = {} \/ isr = {1}
         /\ KeyIn(Len(stack) - 1)' => isr = {1}
         /\ stack'[Len(stack')].irq = who /\ stack'[Len(stack')].pc = "entry"
         /\ ~iflag'
<1> DEFINE n == Len(stack)
<1>1. Quiet(n) /\ isr = KeyBit(n) /\ Shape /\ Inv
  BY FlagOn
<1>2. /\ n \in Nat /\ n >= 1 /\ Len(stack') = n + 1 /\ iflag' = FALSE
      /\ stack'[n + 1].irq = who /\ stack'[n + 1].pc = "entry"
      /\ \A d \in 1..n : /\ stack'[d].irq = stack[d].irq
                         /\ stack[d].pc # "asleep" => stack'[d].pc = stack[d].pc
  <2>1. StackOK /\ who \in Int /\ "entry" \in Positions
    BY <1>1 DEF Inv, Positions
  <2>2. n \in Nat /\ n >= 1
    BY <2>1 DEF StackOK
  <2>3. /\ Len(stack') = n + 1 /\ iflag' = FALSE
        /\ stack'[Len(stack')].irq = who /\ stack'[Len(stack')].pc = "entry"
        /\ \A d \in 1..n : /\ stack'[d].irq = stack[d].irq
                           /\ stack[d].pc # "asleep" => stack'[d].pc = stack[d].pc
    BY <2>1, EnterStack
  <2> QED  BY <2>2, <2>3
<1>3. \A d \in 2..n : stack[d].pc # "asleep" /\ stack[d].irq # Exception
  BY <1>1, SMTT(40) DEF Shape, HandlerPlaces, Exception
<1>4. \A d \in 2..n : stack'[d].irq = stack[d].irq /\ stack'[d].pc = stack[d].pc
  BY <1>2, <1>3
<1>5. Shape'
  <2> SUFFICES ASSUME NEW d \in 2..n + 1
               PROVE  /\ stack'[d].irq \in 0..15 /\ stack'[d].pc \in HandlerPlaces
                      /\ stack'[d].pc \in {"body", "heap", "lock", "section"}
                           => stack'[d].irq \in {0, 1}
                      /\ stack'[d].pc \in {"heap", "lock", "section"} => stack'[d].irq = 1
    BY <1>2 DEF Shape
  <2>1. CASE d = n + 1
    BY <1>2, <2>1 DEF HandlerPlaces
  <2>2. CASE d \in 2..n
    BY <1>1, <1>3, <1>4, <2>2 DEF Shape
  <2> QED  BY <1>2, <2>1, <2>2
<1>6. PICK m \in Int : m = n
  BY <1>2
<1>7. /\ Quiet(m)' /\ (KeyIn(m)' <=> KeyIn(m)) /\ KeyBit(m)' = KeyBit(m)
  BY <1>1, <1>4, <1>6, SameBelow
<1>8. m = Len(stack') - 1 /\ m = Len(stack)
  BY <1>2, <1>6
<1>9. KeyIn(m) => KeyBit(m) = {1}
  BY DEF KeyBit
<1>10. Quiet(Len(stack) - 1)' /\ KeyBit(Len(stack) - 1)' = isr
       /\ (KeyIn(Len(stack) - 1)' => isr = {1})
  BY <1>1, <1>7, <1>8, <1>9
<1>11. isr = {} \/ isr = {1}
  BY <1>1 DEF KeyBit
<1>12. stack'[Len(stack')].irq = who /\ stack'[Len(stack')].pc = "entry" /\ ~iflag'
  BY <1>2
<1> QED  BY <1>5, <1>10, <1>11, <1>12

(* An interrupt is accepted: over a keyboard handler that awaits its end of
   interrupt only the timer's priority is high enough. *)
LEMMA AcceptService ==
  ASSUME FullInv, NEW q \in Lines, Accept(q)
  PROVE  Shape' /\ ServiceInv'
<1>1. q \in 0..15 /\ iflag /\ Enter(q, "entry") /\ Deliverable(q)
      /\ isr' = isr \cup InService(q)
  BY InterruptsAssumption DEF Accept
<1>2. /\ Shape' /\ Quiet(Len(stack) - 1)' /\ KeyBit(Len(stack) - 1)' = isr
      /\ isr = {} \/ isr = {1}
      /\ KeyIn(Len(stack) - 1)' => isr = {1}
      /\ stack'[Len(stack')].irq = q /\ stack'[Len(stack')].pc = "entry"
      /\ ~iflag'
  BY <1>1, GateQuiet
<1>3. isr = {1} => q = 0
  BY <1>1 DEF Deliverable, Master, MasterLine
<1>4. ~IsSpurious(q)'
  BY <1>1 DEF IsSpurious, InService
<1>5. Owes(stack[Len(stack)])' = InService(q)
  BY <1>1, <1>2, <1>4, SMTT(40) DEF Owes, Main, Exception
<1> QED  BY <1>1, <1>2, <1>3, <1>5 DEF ServiceInv

(* A spurious interrupt comes in as line 7 of the master with no bit set for
   it, or as line 15 with the master's bit for the slave. *)
LEMMA SpuriousService ==
  ASSUME FullInv, NEW q \in Glitches, Spurious(q)
  PROVE  Shape' /\ ServiceInv'
<1>1. q \in 0..15 /\ iflag /\ Deliverable(q)
  BY InterruptsAssumption DEF Spurious
<1>2. CASE q < 8
  <2>1. Enter(7, "entry") /\ isr' = isr
    BY <1>2 DEF Spurious
  <2>2. /\ Shape' /\ Quiet(Len(stack) - 1)' /\ KeyBit(Len(stack) - 1)' = isr
        /\ isr = {} \/ isr = {1}
        /\ stack'[Len(stack')].irq = 7 /\ stack'[Len(stack')].pc = "entry"
        /\ ~iflag'
    BY <1>1, <2>1, GateQuiet
  <2>3. 7 \notin isr'
    BY <2>1, <2>2
  <2>4. Owes(stack[Len(stack)])' = {}
    BY <2>2, <2>3 DEF Owes, IsSpurious, Main, Exception
  <2> QED  BY <2>1, <2>2, <2>3, <2>4 DEF ServiceInv
<1>3. CASE q >= 8
  <2>1. Enter(15, "entry") /\ isr' = isr \cup {2}
    BY <1>1, <1>3 DEF Spurious
  <2>2. /\ Shape' /\ Quiet(Len(stack) - 1)' /\ KeyBit(Len(stack) - 1)' = isr
        /\ isr = {} \/ isr = {1}
        /\ KeyIn(Len(stack) - 1)' => isr = {1}
        /\ stack'[Len(stack')].irq = 15 /\ stack'[Len(stack')].pc = "entry"
        /\ ~iflag'
    BY <1>1, <2>1, GateQuiet
  <2>3. isr # {1}
    BY <1>1, <1>3 DEF Deliverable, Master, MasterLine
  <2>4. 15 \notin isr'
    BY <2>1, <2>2
  <2>5. Owes(stack[Len(stack)])' = {2}
    BY <2>2, <2>4 DEF Owes, IsSpurious, Main, Exception
  <2> QED  BY <2>1, <2>2, <2>3, <2>5 DEF ServiceInv
<1> QED  BY <1>1, <1>2, <1>3

(* A context that is not an exception runs with the stronger half. *)
LEMMA Running ==
  ASSUME FullInv, NEW at, At(at), at # "hlt"
  PROVE  /\ ServiceInv /\ Inv /\ Shape /\ stack[Len(stack)].pc = at
         /\ Len(stack) \in Nat /\ Len(stack) >= 1
         /\ Len(stack) # 1 => /\ stack[Len(stack)].irq \in 0..15 /\ at \in HandlerPlaces
                              /\ at \in {"heap", "lock", "section"}
                                   => stack[Len(stack)].irq = 1
         /\ Len(stack) = 1 => stack[1].irq = Main /\ at \in MainPlaces
<1>1. Inv /\ Shape /\ stack[Len(stack)].pc = at /\ StackOK
  BY DEF FullInv, Inv, At, Top, Depth
<1>2. Len(stack) \in Nat /\ Len(stack) >= 1 /\ stack[1].irq = Main /\ stack[1].pc \in MainPlaces
  BY <1>1 DEF StackOK
<1>3. Len(stack) # 1 =>
        /\ stack[Len(stack)].irq \in 0..15 /\ at \in HandlerPlaces
        /\ at \in {"heap", "lock", "section"} => stack[Len(stack)].irq = 1
  <2>1. Len(stack) # 1 => Len(stack) \in 2..Len(stack)
    BY <1>2
  <2> QED  BY <1>1, <2>1 DEF Shape
<1>4. stack[Len(stack)].irq # Exception
  BY <1>2, <1>3 DEF Exception, Main
<1> QED  BY <1>1, <1>2, <1>3, <1>4 DEF FullInv, Faulted, Top, Depth

(* The context on top goes on: what lies below it stays quiet. *)
LEMMA GotoQuiet ==
  ASSUME FullInv, NEW from, At(from), from # "hlt",
         NEW at \in Positions, Goto(at), iflag' \in BOOLEAN,
         Len(stack) = 1 => at \in MainPlaces,
         Len(stack) # 1 => at \in HandlerPlaces,
         Len(stack) # 1 /\ at \in {"body", "heap", "lock", "section"}
           => stack[Len(stack)].irq \in {0, 1},
         Len(stack) # 1 /\ at \in {"heap", "lock", "section"} => stack[Len(stack)].irq = 1
  PROVE  /\ Shape' /\ Quiet(Len(stack) - 1)' /\ Len(stack') = Len(stack)
         /\ KeyIn(Len(stack) - 1)' <=> KeyIn(Len(stack) - 1)
         /\ KeyBit(Len(stack) - 1)' = KeyBit(Len(stack) - 1)
         /\ stack'[Len(stack')].irq = stack[Len(stack)].irq
         /\ stack'[Len(stack')].pc = at
<1> DEFINE n == Len(stack)
<1>1. /\ ServiceInv /\ Inv /\ Shape /\ n \in Nat /\ n >= 1
      /\ n # 1 => stack[n].irq \in 0..15
  BY Running
<1>2. /\ Len(stack') = n /\ stack'[n].pc = at /\ stack'[n].irq = stack[n].irq
      /\ \A d \in 1..n : d # n => stack'[d] = stack[d]
  BY <1>1, GotoStack DEF Inv
<1>3. Shape'
  <2> SUFFICES ASSUME NEW d \in 2..n
               PROVE  /\ stack'[d].irq \in 0..15 /\ stack'[d].pc \in HandlerPlaces
                      /\ stack'[d].pc \in {"body", "heap", "lock", "section"}
                           => stack'[d].irq \in {0, 1}
                      /\ stack'[d].pc \in {"heap", "lock", "section"} => stack'[d].irq = 1
    BY <1>2 DEF Shape
  <2>1. CASE d = n
    <3>1. n # 1 /\ Len(stack) # 1
      BY <2>1
    <3> QED  BY <1>1, <1>2, <2>1, <3>1
  <2>2. CASE d # n
    BY <1>1, <1>2, <2>2 DEF Shape
  <2> QED  BY <2>1, <2>2
<1>4. PICK m \in Int : m = n - 1
  BY <1>1
<1>5. m = Len(stack') - 1 /\ m = Len(stack) - 1
  BY <1>2, <1>4
<1>6. Quiet(m)
  BY <1>1, <1>5 DEF ServiceInv
<1>7. \A d \in 2..m : stack'[d].irq = stack[d].irq /\ stack'[d].pc = stack[d].pc
  BY <1>1, <1>2, <1>4
<1>8. Quiet(m)' /\ (KeyIn(m)' <=> KeyIn(m)) /\ KeyBit(m)' = KeyBit(m)
  BY <1>6, <1>7, SameBelow
<1>9. /\ Quiet(Len(stack) - 1)'
      /\ KeyIn(Len(stack) - 1)' <=> KeyIn(Len(stack) - 1)
      /\ KeyBit(Len(stack) - 1)' = KeyBit(Len(stack) - 1)
  BY <1>5, <1>8
<1> QED  BY <1>2, <1>3, <1>9
(* A step of kernel_main itself: nothing is in service. *)
LEMMA MainStep ==
  ASSUME FullInv, NEW from, At(from), from # "hlt", Len(stack) = 1,
         NEW at \in Positions, at \in MainPlaces, Goto(at), iflag' \in BOOLEAN,
         isr' = isr
  PROVE  Shape' /\ ServiceInv'
<1>1. ServiceInv /\ stack[1].irq = Main
  BY Running
<1>2. /\ Shape' /\ Quiet(Len(stack) - 1)' /\ Len(stack') = Len(stack)
      /\ KeyIn(Len(stack) - 1)' <=> KeyIn(Len(stack) - 1)
      /\ KeyBit(Len(stack) - 1)' = KeyBit(Len(stack) - 1)
      /\ stack'[Len(stack')].irq = stack[Len(stack)].irq
  BY GotoQuiet
<1>3. ~KeyIn(Len(stack) - 1) /\ KeyBit(Len(stack) - 1) = {}
  BY DEF KeyIn, KeyBit
<1>4. Owes(stack[Len(stack)]) = {}
  BY <1>1, OwesCases
<1>5. Owes(stack[Len(stack)])' = {}
  BY <1>1, <1>2 DEF Owes, IsSpurious, Main, Exception
<1>6. isr = {}
  BY <1>1, <1>3, <1>4 DEF ServiceInv
<1> QED  BY <1>2, <1>3, <1>5, <1>6 DEF ServiceInv

(* A handler goes on between its entry and its end of interrupt. *)
LEMMA HandlerStep ==
  ASSUME FullInv, NEW from, At(from), from \in HandlerPlaces \ {"iret"}, Len(stack) # 1,
         NEW at \in {"body", "heap", "lock", "section", "eoi"}, Goto(at), isr' = isr,
         from = "entry" => ~IsSpurious(stack[Len(stack)].irq),
         at # "eoi" => stack[Len(stack)].irq \in {0, 1},
         at \in {"heap", "lock", "section"} => stack[Len(stack)].irq = 1,
         iflag' \in BOOLEAN,
         iflag' => at = "eoi" /\ stack[Len(stack)].irq = 1
  PROVE  Shape' /\ ServiceInv'
<1> DEFINE q == stack[Len(stack)].irq
<1>1. ServiceInv /\ q \in 0..15 /\ stack[Len(stack)].pc = from /\ from # "hlt"
  <2>1. from # "hlt"
    BY DEF HandlerPlaces
  <2> QED  BY <2>1, Running
<1>2. /\ Shape' /\ Quiet(Len(stack) - 1)' /\ Len(stack') = Len(stack)
      /\ KeyIn(Len(stack) - 1)' <=> KeyIn(Len(stack) - 1)
      /\ KeyBit(Len(stack) - 1)' = KeyBit(Len(stack) - 1)
      /\ stack'[Len(stack')].irq = q /\ stack'[Len(stack')].pc = at
  <2>1. at \in Positions /\ at \in HandlerPlaces
    BY DEF Positions, HandlerPlaces
  <2>2. at \in {"body", "heap", "lock", "section"} => at # "eoi"
    OBVIOUS
  <2> QED  BY <1>1, <2>1, <2>2, GotoQuiet
<1>3. Owes(stack[Len(stack)]) = InService(q)
  BY <1>1, OwesCases
<1>4. Owes(stack[Len(stack)])' = InService(q)
  <2>1. q # Main /\ q # Exception
    BY <1>1, SMTT(40) DEF Main, Exception
  <2>2. at # "iret" /\ at # "entry"
    OBVIOUS
  <2> HIDE DEF q
  <2>3. PICK e : e = stack'[Len(stack')]
    OBVIOUS
  <2>4. e.irq = q /\ e.pc = at
    BY <1>2, <2>3
  <2>5. Owes(e)' = InService(q)
    BY <2>1, <2>2, <2>4 DEF Owes
  <2> QED  BY <2>3, <2>5
<1>5. KeyIn(Len(stack) - 1) => q = 0
  <2>1. from = "entry" /\ q = 7 => 7 \in isr
    BY DEF IsSpurious
  <2> QED  BY <1>1, <2>1 DEF ServiceInv
<1>6. isr = KeyBit(Len(stack) - 1) \cup InService(q)
  BY <1>1, <1>3 DEF ServiceInv
<1>7. iflag' => KeyEoi(stack'[Len(stack')])
  BY <1>2 DEF KeyEoi
<1> HIDE DEF q
<1> QED  BY <1>2, <1>4, <1>5, <1>6, <1>7 DEF ServiceInv

(* The handler clears what it owes and returns. *)
LEMMA ReturnStep ==
  ASSUME FullInv, NEW from, At(from), from \in HandlerPlaces, Len(stack) # 1,
         Goto("iret"), isr' = KeyBit(Len(stack) - 1), iflag' \in BOOLEAN
  PROVE  Shape' /\ ServiceInv'
<1>1. /\ Shape' /\ Quiet(Len(stack) - 1)' /\ Len(stack') = Len(stack)
      /\ KeyIn(Len(stack) - 1)' <=> KeyIn(Len(stack) - 1)
      /\ KeyBit(Len(stack) - 1)' = KeyBit(Len(stack) - 1)
      /\ stack'[Len(stack')].pc = "iret"
  <2>1. from # "hlt" /\ "iret" \in Positions /\ "iret" \in HandlerPlaces
    BY DEF Positions, HandlerPlaces
  <2> QED  BY <2>1, GotoQuiet
<1>2. Owes(stack[Len(stack)])' = {}
  BY <1>1 DEF Owes
<1> QED  BY <1>1, <1>2 DEF ServiceInv

(* An end of interrupt to the master with one bit set, or the timer's and the
   keyboard's. *)
LEMMA EoiMaster ==
  /\ \A q \in 0..7 : pic_eoi_master({q}) = {}
  /\ pic_eoi_master({0, 1}) = {1}
<1>1. ASSUME NEW q \in 0..7  PROVE pic_eoi_master({q}) = {}
  <2>1. Master({q}) = {q}
    BY DEF Master
  <2>2. Highest({q}) = {q}
    BY DEF Highest
  <2> QED  BY <2>1, <2>2 DEF pic_eoi_master
<1>2. pic_eoi_master({0, 1}) = {1}
  <2>1. Master({0, 1}) = {0, 1}
    <3>1. \A b : b \in {0, 1} => b \in 0..7
      OBVIOUS
    <3> QED  BY <3>1 DEF Master
  <2>2. Highest({0, 1}) = {0}
    <3>1. \A b : b \in Highest({0, 1}) <=> b = 0
      BY DEF Highest
    <3> QED  BY <3>1
  <2> QED  BY <2>1, <2>2 DEF pic_eoi_master
<1> QED  BY <1>1, <1>2

(* To both controllers, with a slave's line in service alone. *)
LEMMA EoiSlave ==
  ASSUME NEW q \in 8..15
  PROVE  pic_eoi_master(pic_eoi_slave({q, 2})) = {}
<1>1. Slave({q, 2}) = {q}
  <2>1. \A b : b \in {q, 2} /\ b \in 8..15 <=> b = q
    OBVIOUS
  <2> QED  BY <2>1 DEF Slave
<1>2. Highest({q}) = {q}
  BY DEF Highest
<1>3. pic_eoi_slave({q, 2}) = {2}
  <2>1. \A b : b \in {q, 2} /\ b # q <=> b = 2
    OBVIOUS
  <2> QED  BY <1>1, <1>2, <2>1 DEF pic_eoi_slave
<1> QED  BY <1>3, EoiMaster

(* The end of interrupt hits the bits of its own line and no other. *)
LEMMA EoiService ==
  ASSUME FullInv, Eoi
  PROVE  Shape' /\ ServiceInv'
<1> DEFINE q == stack[Len(stack)].irq
<1>1. At("eoi") /\ Goto("iret") /\ iflag' = iflag
      /\ isr' = pic_eoi_master(IF 8 <= q THEN pic_eoi_slave(isr) ELSE isr)
  BY DEF Eoi, Top, Depth
<1>2. ServiceInv /\ Inv /\ Len(stack) # 1 /\ q \in 0..15 /\ stack[Len(stack)].pc = "eoi"
  <2>1. ~("eoi" \in MainPlaces)
    BY DEF MainPlaces
  <2> QED  BY <1>1, <2>1, Running
<1>3. isr = KeyBit(Len(stack) - 1) \cup InService(q) /\ (KeyIn(Len(stack) - 1) => q = 0)
  <2>1. "eoi" \in HandlerPlaces \ {"entry", "iret"}
    BY DEF HandlerPlaces
  <2> QED  BY <1>2, <2>1, OwesCases DEF ServiceInv
<1> HIDE DEF q
<1>4. isr' = KeyBit(Len(stack) - 1)
  <2>1. CASE KeyIn(Len(stack) - 1)
    <3>1. isr = {0, 1} /\ KeyBit(Len(stack) - 1) = {1}
      BY <1>3, <2>1 DEF KeyBit, InService, MasterLine
    <3>2. isr' = pic_eoi_master(isr)
      BY <1>1, <1>3, <2>1
    <3> QED  BY <3>1, <3>2, EoiMaster
  <2>2. CASE ~KeyIn(Len(stack) - 1) /\ q < 8
    <3>1. isr = {q} /\ KeyBit(Len(stack) - 1) = {} /\ q \in 0..7
      BY <1>2, <1>3, <2>2 DEF KeyBit, InService, MasterLine
    <3>2. isr' = pic_eoi_master(isr)
      BY <1>1, <1>2, <2>2
    <3> QED  BY <3>1, <3>2, EoiMaster
  <2>3. CASE ~KeyIn(Len(stack) - 1) /\ q >= 8
    <3>1. isr = {q, 2} /\ KeyBit(Len(stack) - 1) = {} /\ q \in 8..15
      BY <1>2, <1>3, <2>3 DEF KeyBit, InService, MasterLine
    <3> QED  BY <1>1, <2>3, <3>1, EoiSlave
  <2> QED  BY <1>2, <2>1, <2>2, <2>3
<1> QED  BY <1>1, <1>2, <1>4, ReturnStep DEF HandlerPlaces, Inv

(* A spurious interrupt of the slave ends the master's bit for it. *)
LEMMA SpuriousReturnService ==
  ASSUME FullInv, SpuriousReturn
  PROVE  Shape' /\ ServiceInv'
<1> DEFINE q == stack[Len(stack)].irq
<1>1. At("entry") /\ Goto("iret") /\ iflag' = iflag /\ IsSpurious(q)
      /\ isr' = IF q = 7 THEN isr ELSE pic_eoi_master(isr)
  BY DEF SpuriousReturn, Top, Depth
<1>2. ServiceInv /\ Inv /\ Len(stack) # 1 /\ stack[Len(stack)].pc = "entry"
  <2>1. ~("entry" \in MainPlaces)
    BY DEF MainPlaces
  <2> QED  BY <1>1, <2>1, Running
<1>3. isr = KeyBit(Len(stack) - 1) \cup Owes(stack[Len(stack)])
  BY <1>2 DEF ServiceInv
<1>4. isr' = KeyBit(Len(stack) - 1)
  <2>1. CASE q = 7
    <3>1. Owes(stack[Len(stack)]) = {}
      BY <1>1, <1>2, <2>1, OwesCases DEF IsSpurious
    <3> QED  BY <1>1, <1>3, <2>1, <3>1
  <2>2. CASE q # 7
    <3>1. q = 15 /\ 15 \notin isr
      BY <1>1, <2>2 DEF IsSpurious
    <3>2. Owes(stack[Len(stack)]) = {2}
      BY <1>2, <3>1, OwesCases
    <3>3. ~KeyIn(Len(stack) - 1)
      BY <1>2, <3>1 DEF ServiceInv
    <3>4. isr = {2} /\ KeyBit(Len(stack) - 1) = {}
      BY <1>3, <3>2, <3>3 DEF KeyBit
    <3>5. pic_eoi_master({2}) = {}
      BY EoiMaster
    <3> QED  BY <1>1, <2>2, <3>4, <3>5
  <2> QED  BY <2>1, <2>2
<1> QED  BY <1>1, <1>2, <1>4, ReturnStep DEF HandlerPlaces, Inv

(* iret gives the stack back to a context that was interrupted with interrupts
   on: kernel_main, a handler that has sent its end of interrupt, or the
   keyboard's, which then is the only one of its kind. *)
LEMMA IretService ==
  ASSUME FullInv, Iret
  PROVE  Shape' /\ ServiceInv'
<1> DEFINE n == Len(stack)
<1>1. At("iret") /\ isr' = isr
  BY DEF Iret
<1>2. ServiceInv /\ Inv /\ Shape /\ stack[n].pc = "iret" /\ stack[1].irq = Main
  BY <1>1, Running DEF Inv, StackOK
<1>3. /\ n \in Nat /\ n > 1 /\ iflag' = TRUE /\ Len(stack') = n - 1
      /\ \A d \in 1..(n - 1) : stack'[d] = stack[d]
  BY <1>2, IretStack
<1>4. isr = KeyBit(n - 1) /\ Quiet(n - 1)
  BY <1>2, OwesCases DEF ServiceInv
<1>5. Shape'
  <2> SUFFICES ASSUME NEW d \in 2..(n - 1)
               PROVE  /\ stack[d].irq \in 0..15 /\ stack[d].pc \in HandlerPlaces
                      /\ stack[d].pc \in {"body", "heap", "lock", "section"}
                           => stack[d].irq \in {0, 1}
                      /\ stack[d].pc \in {"heap", "lock", "section"} => stack[d].irq = 1
    BY <1>3 DEF Shape
  <2>1. d \in 2..n /\ d # n
    BY <1>3
  <2> QED  BY <1>2, <2>1 DEF Shape
<1>6. PICK m \in Int : m = n - 2
  <2>1. n - 2 \in Int
    BY <1>3
  <2> QED  BY <2>1
<1>7. m = Len(stack') - 1 /\ m + 1 = n - 1 /\ m >= 0 /\ m + 1 = Len(stack')
      /\ stack'[m + 1] = stack[m + 1]
  BY <1>3, <1>6
<1>8. Quiet(m)' /\ (KeyIn(m)' <=> KeyIn(m)) /\ KeyBit(m)' = KeyBit(m)
  <2>1. Quiet(m)
    BY <1>4, <1>7 DEF Quiet
  <2>2. \A d \in 2..m : stack'[d].irq = stack[d].irq /\ stack'[d].pc = stack[d].pc
    BY <1>3, <1>7
  <2> QED  BY <2>1, <2>2, SameBelow
<1> HIDE DEF n
<1>9. Quiet(m + 1) /\ isr = KeyBit(m + 1)
  BY <1>4, <1>7
<1>10. CASE m = 0
  <2>1. KeyBit(0) = {} /\ KeyBit(1) = {} /\ ~KeyIn(0)
    BY DEF KeyBit, KeyIn
  <2>2. Owes(stack[Len(stack)])' = {}
    BY <1>2, <1>7, <1>10 DEF Owes, IsSpurious, Main, Exception
  <2>3. Len(stack') = 1 /\ isr' = {} /\ Quiet(Len(stack) - 1)'
        /\ ~KeyIn(Len(stack) - 1)' /\ KeyBit(Len(stack) - 1)' = {}
    BY <1>1, <1>7, <1>8, <1>9, <1>10, <2>1
  <2> QED  BY <1>5, <2>2, <2>3 DEF ServiceInv
<1>11. CASE m > 0 /\ KeyEoi(stack[m + 1])
  <2>1. KeyIn(m + 1) /\ ~KeyIn(m)
    BY <1>9, <1>11 DEF Quiet, KeyIn
  <2>2. isr = {1} /\ KeyBit(m) = {}
    BY <1>9, <2>1 DEF KeyBit
  <2>3. KeyEoi(stack'[Len(stack')])
    BY <1>7, <1>11
  <2>4. Owes(stack[Len(stack)])' = {1}
    BY <2>3 DEF Owes, KeyEoi, Main, Exception, InService, MasterLine
  <2> QED  BY <1>1, <1>5, <1>7, <1>8, <2>1, <2>2, <2>3, <2>4 DEF ServiceInv
<1>12. CASE m > 0 /\ ~KeyEoi(stack[m + 1])
  <2>1. stack[m + 1].pc = "iret"
    BY <1>9, <1>12 DEF Quiet
  <2>2. KeyIn(m + 1) <=> KeyIn(m)
    BY <1>7, <1>12 DEF KeyIn
  <2>3. isr = KeyBit(m)
    BY <1>9, <2>2 DEF KeyBit
  <2>4. stack'[Len(stack')].pc = "iret"
    BY <1>7, <2>1
  <2>5. Owes(stack[Len(stack)])' = {}
    BY <2>4 DEF Owes
  <2> QED  BY <1>1, <1>5, <1>7, <1>8, <2>3, <2>4, <2>5 DEF ServiceInv
<1> QED  BY <1>7, <1>10, <1>11, <1>12
(* An exception in keyboard_handler: the bits in service stay as they are. *)
LEMMA KeyFaultService ==
  ASSUME FullInv, KeyFault
  PROVE  Shape' /\ Faulted' /\ BitsExact'
<1> DEFINE n == Len(stack)
<1>1. At("body") /\ Enter(Exception, "hlt") /\ isr' = isr
  BY DEF KeyFault
<1>2. ServiceInv /\ Inv /\ Shape /\ stack[n].pc = "body" /\ n \in Nat /\ n >= 1
      /\ n # 1 /\ stack[1].irq = Main /\ stack[n].irq \in 0..15
  <2>1. ~("body" \in MainPlaces)
    BY DEF MainPlaces
  <2> QED  BY <1>1, <2>1, Running DEF Inv, StackOK
<1>3. BitsExact
  BY <1>2, ServiceInvExact
<1>4. /\ Len(stack') = n + 1 /\ iflag' = FALSE
      /\ stack'[n + 1].irq = Exception /\ stack'[n + 1].pc = "hlt"
      /\ \A d \in 1..n : /\ stack'[d].irq = stack[d].irq
                         /\ stack[d].pc # "asleep" => stack'[d].pc = stack[d].pc
  <2>1. StackOK /\ Exception \in Int /\ "hlt" \in Positions
    BY <1>2 DEF Inv, Positions, Exception
  <2>2. /\ Len(stack') = n + 1 /\ iflag' = FALSE
        /\ stack'[Len(stack')].irq = Exception /\ stack'[Len(stack')].pc = "hlt"
        /\ \A d \in 1..n : /\ stack'[d].irq = stack[d].irq
                           /\ stack[d].pc # "asleep" => stack'[d].pc = stack[d].pc
    BY <1>1, <2>1, EnterStack
  <2> QED  BY <2>2
<1>5. \A d \in 2..n :
        /\ stack[d].irq \in 0..15 /\ stack[d].pc \in HandlerPlaces
        /\ stack[d].pc \in {"body", "heap", "lock", "section"} => stack[d].irq \in {0, 1}
        /\ stack[d].pc \in {"heap", "lock", "section"} => stack[d].irq = 1
  BY <1>2 DEF Shape, HandlerPlaces
<1>6. \A d \in 2..n : stack'[d].irq = stack[d].irq /\ stack'[d].pc = stack[d].pc
  BY <1>4, <1>5 DEF HandlerPlaces
<1>7. Shape'
  <2> SUFFICES ASSUME NEW d \in 2..n + 1
               PROVE  \/ /\ stack'[d].irq \in 0..15 /\ stack'[d].pc \in HandlerPlaces
                         /\ stack'[d].pc \in {"body", "heap", "lock", "section"}
                              => stack'[d].irq \in {0, 1}
                         /\ stack'[d].pc \in {"heap", "lock", "section"}
                              => stack'[d].irq = 1
                      \/ /\ stack'[d].irq = Exception /\ stack'[d].pc = "hlt"
                         /\ d = n + 1 /\ ~iflag'
    BY <1>4 DEF Shape
  <2>1. CASE d = n + 1
    BY <1>4, <2>1
  <2>2. CASE d \in 2..n
    BY <1>5, <1>6, <2>2
  <2> QED  BY <1>2, <2>1, <2>2
<1>8. Faulted'
  BY <1>4 DEF Faulted, Top, Depth
<1>9. NoReentry'
  <2>1. \A d \in 2..n : stack'[d].irq # stack'[n + 1].irq
    <3>1. \A d \in 2..n : stack'[d].irq \in 0..15
      BY <1>5, <1>6
    <3>2. \A q \in 0..15 : q # Exception
      BY DEF Exception
    <3> QED  BY <1>4, <3>1, <3>2
  <2>2. \A d, e \in 2..n : d # e /\ stack'[d].irq = stack'[e].irq =>
          "iret" \in {stack'[d].pc, stack'[e].pc}
    BY <1>3, <1>6 DEF BitsExact, NoReentry, Depth
  <2> SUFFICES ASSUME NEW d \in 2..n + 1, NEW e \in 2..n + 1, d # e,
                      stack'[d].irq = stack'[e].irq
               PROVE  "iret" \in {stack'[d].pc, stack'[e].pc}
    BY <1>4 DEF NoReentry, Depth
  <2> HIDE DEF n
  <2> QED  BY <1>2, <2>1, <2>2
<1>10. InServiceExact'
  <2>1. isr = UNION {Owes(stack[d]) : d \in 1..n}
    BY <1>3 DEF BitsExact, InServiceExact, Depth
  <2>2. \A d \in 2..n : Owes(stack[d])' = Owes(stack[d])
    BY <1>1, <1>6 DEF Owes, IsSpurious, InService, MasterLine
  <2>3. 1 \in 1..n /\ stack'[1].irq = Main
    BY <1>2, <1>4
  <2>4. Owes(stack[1]) = {} /\ Owes(stack[1])' = {}
    BY <1>2, <2>3 DEF Owes, IsSpurious, Main, Exception
  <2>5. PICK m \in Nat : m = n
    BY <1>2
  <2>6. Owes(stack[m + 1])' = {}
    BY <1>4, <2>5 DEF Owes, IsSpurious, Main, Exception
  <2>7. \A d \in 1..m : Owes(stack[d])' = Owes(stack[d])
    <3> SUFFICES ASSUME NEW d \in 1..m  PROVE Owes(stack[d])' = Owes(stack[d])
      OBVIOUS
    <3>1. d = 1 \/ d \in 2..m
      OBVIOUS
    <3>2. CASE d = 1
      BY <2>4, <3>2
    <3>3. CASE d \in 2..m
      BY <2>2, <2>5, <3>3
    <3> QED  BY <3>1, <3>2, <3>3
  <2>8. isr' = UNION {Owes(stack[d])' : d \in 1..m + 1}
    <3>1. isr' = UNION {Owes(stack[d]) : d \in 1..m}
      BY <1>1, <2>1, <2>5
    <3>2. \A b : b \in UNION {Owes(stack[d]) : d \in 1..m}
                   <=> \E d \in 1..m : b \in Owes(stack[d])
      OBVIOUS
    <3>3. \A b : b \in UNION {Owes(stack[d])' : d \in 1..m + 1}
                   <=> \E d \in 1..m + 1 : b \in Owes(stack[d])'
      OBVIOUS
    <3>4. \A b : (\E d \in 1..m + 1 : b \in Owes(stack[d])')
                   <=> (\E d \in 1..m : b \in Owes(stack[d]))
      BY <2>6, <2>7
    <3> QED  BY <3>1, <3>2, <3>3, <3>4
  <2>9. Len(stack') = m + 1
    BY <1>4, <2>5
  <2> QED  BY <2>8, <2>9 DEF InServiceExact, Depth
<1> QED  BY <1>7, <1>8, <1>9, <1>10 DEF BitsExact

(* Every step of a context keeps handlers and bits in service together. *)
LEMMA StepService ==
  ASSUME FullInv, Step
  PROVE  Shape' /\ (ServiceInv' \/ (Faulted' /\ BitsExact'))
<1> USE DEF Positions, MainPlaces, HandlerPlaces
<1>1. CASE SpuriousReturn
  BY <1>1, SpuriousReturnService
<1>2. CASE Eoi
  BY <1>2, EoiService
<1>3. CASE Iret
  BY <1>3, IretService
<1>4. CASE KeyFault
  BY <1>4, KeyFaultService
<1>5. CASE Dispatch
  <2>1. /\ At("entry") /\ isr' = isr /\ iflag' = iflag
        /\ ~IsSpurious(stack[Len(stack)].irq)
        /\ Goto("eoi") \/ (Goto("body") /\ stack[Len(stack)].irq \in {0, 1})
    BY <1>5 DEF Dispatch, Top, Depth, FullInv
  <2>2. Len(stack) # 1 /\ Inv
    BY <2>1, Running
  <2>3. ~iflag' /\ iflag' \in BOOLEAN
    BY <2>1, <2>2, FlagOff DEF Inv, Guarded
  <2> QED  BY <2>1, <2>2, <2>3, HandlerStep
<1>6. CASE pit_handler
  <2>1. At("body") /\ isr' = isr /\ iflag' = iflag /\ Goto("eoi")
    BY <1>6 DEF pit_handler
  <2>2. Len(stack) # 1 /\ Inv
    BY <2>1, Running
  <2>3. ~iflag' /\ iflag' \in BOOLEAN
    BY <2>1, <2>2, FlagOff DEF Inv, Guarded
  <2> QED  BY <2>1, <2>2, <2>3, HandlerStep
<1>7. CASE keyboard_handler
  <2>1. /\ At("body") /\ isr' = isr /\ iflag' = iflag /\ stack[Len(stack)].irq = 1
        /\ Goto("eoi") \/ Goto("heap") \/ Goto("lock")
    BY <1>7, InterruptsAssumption DEF keyboard_handler, Top, Depth
  <2>2. Len(stack) # 1 /\ Inv
    BY <2>1, Running
  <2>3. ~iflag' /\ iflag' \in BOOLEAN
    BY <2>1, <2>2, FlagOff DEF Inv, Guarded
  <2> QED  BY <2>1, <2>2, <2>3, HandlerStep
<1>8. CASE HeapDone
  <2>1. At("heap") /\ isr' = isr /\ iflag' = iflag /\ Goto("eoi")
    BY <1>8 DEF HeapDone
  <2>2. Len(stack) # 1 /\ Inv
    BY <2>1, Running
  <2>3. ~iflag' /\ iflag' \in BOOLEAN
    BY <2>1, <2>2, FlagOff DEF Inv, Guarded
  <2> QED  BY <2>1, <2>2, <2>3, HandlerStep
<1>9. CASE Lock
  <2>1. At("lock") /\ isr' = isr /\ iflag' = FALSE /\ Goto("section")
    BY <1>9 DEF Lock
  <2>2. CASE Len(stack) = 1
    BY <2>1, <2>2, MainStep
  <2>3. CASE Len(stack) # 1
    <3>1. stack[Len(stack)].irq = 1
      BY <2>1, <2>3, Running
    <3>2. ~iflag' /\ iflag' \in BOOLEAN
      BY <2>1
    <3> QED  BY <2>1, <2>3, <3>1, <3>2, HandlerStep
  <2> QED  BY <2>2, <2>3
<1>10. CASE Unlock
  <2>1. /\ At("section") /\ isr' = isr /\ iflag' = TRUE
        /\ Goto(IF stack[Len(stack)].irq = Main THEN "idle" ELSE "eoi")
    BY <1>10 DEF Unlock, Top, Depth
  <2>2. CASE Len(stack) = 1
    <3>1. stack[Len(stack)].irq = Main
      BY <2>1, <2>2, Running
    <3> QED  BY <2>1, <2>2, <3>1, MainStep
  <2>3. CASE Len(stack) # 1
    <3>1. stack[Len(stack)].irq = 1 /\ 1 # Main
      BY <2>1, <2>3, Running DEF Main
    <3>2. Goto("eoi") /\ iflag' \in BOOLEAN
      BY <2>1, <3>1
    <3> QED  BY <2>1, <2>3, <3>1, <3>2, HandlerStep
  <2> QED  BY <2>2, <2>3
<1>11. CASE TurnOn
  <2>1. At("boot") /\ isr' = isr /\ iflag' = TRUE /\ Goto("install")
    BY <1>11 DEF TurnOn
  <2>2. Len(stack) = 1
    BY <2>1, Running
  <2> QED  BY <2>1, <2>2, MainStep
<1>12. CASE keyboard_install
  <2>1. At("install") /\ isr' = isr /\ iflag' = iflag /\ Goto("idle")
    BY <1>12 DEF keyboard_install
  <2>2. Len(stack) = 1
    BY <2>1, Running
  <2> QED  BY <2>1, <2>2, MainStep DEF FullInv, Inv
<1>13. CASE SleepTest
  <2>1. At("check") /\ isr' = isr /\ iflag' = iflag /\ (Goto("before_hlt") \/ Goto("idle"))
    BY <1>13 DEF SleepTest
  <2>2. Len(stack) = 1
    BY <2>1, Running
  <2> QED  BY <2>1, <2>2, MainStep DEF FullInv, Inv
<1>14. CASE Hlt
  <2>1. At("before_hlt") /\ isr' = isr /\ iflag' = iflag /\ Goto("asleep")
    BY <1>14 DEF Hlt
  <2>2. Len(stack) = 1
    BY <2>1, Running
  <2> QED  BY <2>1, <2>2, MainStep DEF FullInv, Inv
<1> QED
  BY <1>1, <1>2, <1>3, <1>4, <1>5, <1>6, <1>7, <1>8, <1>9, <1>10, <1>11, <1>12,
     <1>13, <1>14 DEF Step

(* A step that leaves the stack, the flag and the bits in service alone. *)
LEMMA SameService ==
  ASSUME FullInv, UNCHANGED <<stack, iflag, isr>>
  PROVE  Shape' /\ (ServiceInv' \/ (Faulted' /\ BitsExact'))
<1>1. Shape'
  BY DEF FullInv, Shape
<1>2. CASE ServiceInv
  <2>1. ServiceInv'
    BY <1>2 DEF ServiceInv, Quiet, KeyIn, KeyBit, KeyEoi, Owes, IsSpurious, InService,
                MasterLine
  <2> QED  BY <1>1, <2>1
<1>3. CASE Faulted /\ BitsExact
  <2>1. Faulted' /\ NoReentry' /\ InServiceExact'
    BY <1>3 DEF Faulted, Top, Depth, BitsExact, NoReentry, InServiceExact, Owes,
                IsSpurious, InService, MasterLine
  <2> QED  BY <1>1, <2>1 DEF BitsExact
<1> QED  BY <1>2, <1>3 DEF FullInv

(* Every step of the system preserves the full invariant. *)
LEMMA NextFull ==
  ASSUME FullInv, [Next]_vars
  PROVE  FullInv'
<1>1. Inv'
  BY NextInv DEF FullInv
<1>2. (irq_routines \subseteq {0, 1})'
  <2>1. irq_routines' = irq_routines \/ irq_routines' = irq_routines \cup {1}
    BY DEF Next, Step, SpuriousReturn, Dispatch, pit_handler, keyboard_handler, KeyFault,
           HeapDone, Eoi, Iret, Lock, Unlock, TurnOn, keyboard_install, SleepTest, Hlt,
           Choose, Halted, TimerRaise, KeyRaise, DeviceRaise, Accept, Spurious, vars
  <2> QED  BY <2>1 DEF FullInv
<1>3. Shape' /\ (ServiceInv' \/ (Faulted' /\ BitsExact'))
  <2>1. CASE Step
    BY <2>1, StepService
  <2>2. CASE Choose
    <3>1. At("idle") /\ isr' = isr /\ iflag' = iflag /\ (Goto("lock") \/ Goto("check"))
      BY <2>2 DEF Choose
    <3>2. Len(stack) = 1
      BY <3>1, Running DEF HandlerPlaces
    <3> QED  BY <3>1, <3>2, MainStep DEF FullInv, Inv, Positions, MainPlaces
  <2>3. CASE TimerRaise \/ KeyRaise \/ \E q \in Lines \ {0, 1} : DeviceRaise(q)
    BY <2>3, SameService DEF TimerRaise, KeyRaise, DeviceRaise
  <2>4. CASE \E q \in Lines : Accept(q)
    BY <2>4, AcceptService
  <2>5. CASE \E q \in Glitches : Spurious(q)
    BY <2>5, SpuriousService
  <2>6. CASE Halted \/ UNCHANGED vars
    BY <2>6, SameService DEF Halted, vars
  <2> QED  BY <2>1, <2>2, <2>3, <2>4, <2>5, <2>6 DEF Next
<1> QED  BY <1>1, <1>2, <1>3 DEF FullInv

(* At boot nothing is in service. *)
LEMMA InitFull ==
  ASSUME Init
  PROVE  FullInv
<1>1. Inv /\ Len(stack) = 1 /\ stack[1].irq = Main
  BY InitInv DEF Inv, StackOK
<1>2. isr = {} /\ irq_routines = {0} /\ iflag = FALSE
  BY DEF Init
<1>3. Shape /\ Quiet(0) /\ ~KeyIn(0) /\ KeyBit(0) = {}
  BY <1>1 DEF Shape, Quiet, KeyIn, KeyBit
<1>4. Owes(stack[1]) = {}
  BY <1>1, OwesCases
<1>5. ServiceInv
  BY <1>1, <1>2, <1>3, <1>4 DEF ServiceInv
<1> QED  BY <1>1, <1>2, <1>3, <1>5 DEF FullInv

(* The values of the variables besides the stack. *)
Bounded ==
  /\ irr \subseteq Lines /\ isr \subseteq 0..15
  /\ iflag \in BOOLEAN /\ obf \in BOOLEAN
  /\ irq_routines \subseteq Lines
  /\ left \in 0..MaxSleep

(* Every step keeps them. *)
LEMMA NextBounded ==
  ASSUME FullInv, Bounded, [Next]_vars
  PROVE  Bounded'
<1>1. iflag' \in BOOLEAN
  BY NextInv DEF FullInv, Inv
<1>2. (obf \in BOOLEAN)'
  BY DEF Bounded, Next, Step, SpuriousReturn, Dispatch, pit_handler, keyboard_handler,
         KeyFault, HeapDone, Eoi, Iret, Lock, Unlock, TurnOn, keyboard_install,
         SleepTest, Hlt, Choose, Halted, TimerRaise, KeyRaise, DeviceRaise, Accept,
         Spurious, vars
<1>3. (irr \subseteq Lines /\ irq_routines \subseteq Lines)'
  BY InterruptsAssumption
     DEF Bounded, Next, Step, SpuriousReturn, Dispatch, pit_handler, keyboard_handler,
         KeyFault, HeapDone, Eoi, Iret, Lock, Unlock, TurnOn, keyboard_install,
         SleepTest, Hlt, Choose, Halted, TimerRaise, KeyRaise, DeviceRaise, Accept,
         Spurious, vars
<1>4. (left \in 0..MaxSleep)'
  <2>1. \/ left' = left \/ left' \in 1..MaxSleep
        \/ left' = IF left > 0 THEN left - 1 ELSE 0
    BY DEF Next, Step, SpuriousReturn, Dispatch, pit_handler, keyboard_handler,
           KeyFault, HeapDone, Eoi, Iret, Lock, Unlock, TurnOn, keyboard_install,
           SleepTest, Hlt, Choose, Halted, TimerRaise, KeyRaise, DeviceRaise, Accept,
           Spurious, vars
  <2> QED  BY <2>1, InterruptsAssumption DEF Bounded
<1>5. (isr \subseteq 0..15)'
  <2>1. \/ isr' \subseteq isr \/ isr' = isr \cup {2}
        \/ \E q \in Lines : isr' = isr \cup InService(q)
    BY DEF Next, Step, SpuriousReturn, Dispatch, pit_handler, keyboard_handler,
           KeyFault, HeapDone, Eoi, Iret, Lock, Unlock, TurnOn, keyboard_install,
           SleepTest, Hlt, Choose, Halted, TimerRaise, KeyRaise, DeviceRaise, Accept,
           Spurious, vars, pic_eoi_master, pic_eoi_slave
  <2>2. \A q \in Lines : InService(q) \subseteq 0..15
    BY InterruptsAssumption DEF InService, MasterLine
  <2>3. 2 \in 0..15
    OBVIOUS
  <2> QED  BY <2>1, <2>2, <2>3 DEF Bounded
<1> QED  BY <1>1, <1>2, <1>3, <1>4, <1>5 DEF Bounded

(* The variables hold what TypeOK says: kernel_main is at the bottom of the
   stack and nowhere else, however interrupts nest. *)
LEMMA TypeCorrect == Spec => []TypeOK
<1>1. Init => FullInv /\ Bounded
  <2>1. Init => irr \subseteq Lines /\ isr \subseteq 0..15 /\ irq_routines \subseteq Lines
                /\ left \in 0..MaxSleep
    BY InterruptsAssumption DEF Init
  <2>2. Init => Bounded
    BY <2>1 DEF Init, Bounded
  <2> QED  BY <2>2, InitFull
<1>2. FullInv /\ Bounded /\ [Next]_vars => FullInv' /\ Bounded'
  BY NextFull, NextBounded
<1>3. FullInv /\ Bounded => TypeOK
  <2> SUFFICES ASSUME FullInv, Bounded  PROVE TypeOK
    OBVIOUS
  <2>1. StackOK /\ Shape
    BY DEF FullInv, Inv
  <2>2. Main \notin 0..15 /\ Main # Exception
    BY DEF Main, Exception
  <2>3. \A d \in 2..Len(stack) : stack[d].irq # Main /\ stack[d].pc \in Positions
    <3>1. "hlt" \in Positions /\ HandlerPlaces \subseteq Positions
      BY DEF HandlerPlaces, Positions
    <3> QED  BY <2>1, <2>2, <3>1 DEF Shape
  <2> QED  BY <2>1, <2>3 DEF TypeOK, Bounded, StackOK, Depth
<1> QED  BY <1>1, <1>2, <1>3, PTL DEF Spec

(* irq_handler's ends of interrupt are exact and no handler is entered again
   before its own, for every set of lines and glitches and whenever keys come:
   malloc turns interrupts on inside keyboard_handler, and only the timer and a
   spurious line 7 get in. *)
THEOREM Service == Spec => []ServiceExact
<1>1. Init => FullInv
  BY InitFull
<1>2. FullInv /\ [Next]_vars => FullInv'
  BY NextFull
<1>3. FullInv => NoReentry /\ InServiceExact
  BY ServiceInvExact DEF FullInv, BitsExact
<1>4. FullInv /\ TypeOK => ServiceExact
  BY <1>3 DEF ServiceExact
<1> QED  BY <1>1, <1>2, <1>4, TypeCorrect, PTL DEF Spec

(* The hlt of isr_handler is never left, because the gate turned interrupts
   off and nothing turns them on again. *)
THEOREM FaultForever == Spec => FaultHalts
<1>1. ASSUME FullInv, [Next]_vars  PROVE [Faulted => stack' = stack]_vars
  <2> SUFFICES ASSUME Faulted, stack' # stack, Next  PROVE FALSE
    BY <1>1 DEF vars
  <2>1. StackOK /\ Shape /\ stack[Len(stack)].irq = Exception
    BY <1>1 DEF FullInv, Inv, Faulted, Top, Depth
  <2>2. Len(stack) \in Nat /\ Len(stack) >= 1 /\ stack[1].irq # Exception
    BY <2>1 DEF StackOK, Main, Exception
  <2>3. Len(stack) \in 2..Len(stack)
    BY <2>1, <2>2
  <2>4. Exception \notin 0..15
    BY DEF Exception
  <2>5. Top.pc = "hlt" /\ ~iflag
    BY <2>1, <2>3, <2>4 DEF Shape, Top, Depth
  <2>6. ~Step /\ ~Choose
    BY <2>5 DEF Step, Choose, SpuriousReturn, Dispatch, pit_handler, keyboard_handler,
                KeyFault, HeapDone, Eoi, Iret, Lock, Unlock, TurnOn, keyboard_install,
                SleepTest, Hlt, At
  <2>7. ~(\E q \in Lines : Accept(q)) /\ ~(\E q \in Glitches : Spurious(q))
    BY <2>5 DEF Accept, Spurious
  <2> QED  BY <2>6, <2>7 DEF Next, Halted, TimerRaise, KeyRaise, DeviceRaise, vars
<1>2. Init => FullInv
  BY InitFull
<1>3. FullInv /\ [Next]_vars => FullInv'
  BY NextFull
<1>4. FullInv /\ [Next]_vars => [Faulted => stack' = stack]_vars
  BY <1>1
<1> QED  BY <1>2, <1>3, <1>4, PTL DEF Spec, FaultHalts
=============================================================================

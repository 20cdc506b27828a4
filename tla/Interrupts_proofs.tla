------------------------- MODULE Interrupts_proofs -------------------------
(***************************************************************************)
(* Proofs about the setup and the service of interrupts, for controllers   *)
(* of any size, any devices and handlers and any masks of the boot loader. *)
(***************************************************************************)
EXTENDS Interrupts, NatLemmas, TLAPS

(* What idt_init has done when it is at statement boot. *)
BootInv ==
  /\ boot > 1 => "exceptions" \in idt_table
  /\ boot > 2 => remapped
  /\ boot > 4 => "irqs" \in idt_table
  /\ loaded <=> boot > 5

(* Interrupts are on only between services, after idt_init. *)
FlagInv ==
  /\ interrupts => mode = "running" /\ Booted /\ frame.step = "none"
  /\ frame.step # "none" => Booted
  /\ frame.step = "none" => frame = NoFrame
  /\ call.step # "none" => Booted

(* What is in service is what the service under way began. *)
ServiceInv ==
  isr = IF frame.step \notin {"handler", "eoi"} THEN {}
        ELSE (IF frame.spurious THEN {} ELSE {frame.irq}) \union Through(frame.irq)

(* From the statement "clear" on, what is not masked has a handler; a      *)
(* change of the masks under way knows the masks of its controller.        *)
MaskInv ==
  /\ boot > 3 => \A l \in Lines \ imr : irq_handlertable[l] # NULL
  /\ call.step = "write" => call.port = imr \intersect Chip(call.line)
  /\ call.step # "none" /\ ~ call.mask => irq_handlertable[call.line] # NULL

IInv == TypeOK /\ BootInv /\ FlagInv /\ ServiceInv /\ MaskInv /\ NoReset /\ HandlerThere

-----------------------------------------------------------------------------
(* Lines and requests.                                                     *)

(* idt_init has six statements. *)
LEMMA Statements ==
  /\ Len(idt_init) = 6
  /\ idt_init[1] = "exceptions" /\ idt_init[2] = "remap" /\ idt_init[3] = "clear"
  /\ idt_init[4] = "irqs" /\ idt_init[5] = "lidt" /\ idt_init[6] = "sti"
BY DEF idt_init

(* The lines are those of the master and those of the slave. *)
LEMMA LinesType ==
  /\ Lines \subseteq Nat /\ Devices \subseteq Lines
  /\ 0 \in Lines /\ CASCADE \in Master /\ HALF - 1 \in Lines /\ 2 * HALF - 1 \in Lines
  /\ Master \subseteq Lines /\ Slave \subseteq Lines
  /\ \A l \in Lines : (l \in Slave <=> l >= HALF) /\ (l \in Master <=> l < HALF)
BY InterruptAssumption DEF Lines, Master, Slave, CASCADE

(* The least line of a nonempty set of lines is in the set. *)
LEMMA MinLine ==
  ASSUME NEW S \in SUBSET Lines, S # {}
  PROVE  Min(S) \in S
<1>1. \E x \in S : \A y \in S : x <= y
  BY LeastNatural, LinesType
<1>2. QED
  BY <1>1 DEF Min

(* The line a request is accepted for is not masked, and is none that the  *)
(* slave is connected to: the devices are elsewhere.                       *)
LEMMA ChosenIsRequested ==
  ASSUME irr \subseteq Devices, MasterPassed # {}
  PROVE  Chosen \in Lines \ imr /\ Chosen \in irr
<1> DEFINE m == Min(MasterPassed)
<1>1. m \in MasterPassed
  BY MinLine, LinesType DEF MasterPassed, Passed
<1>2. m \in Lines \ imr
  BY <1>1, LinesType DEF MasterPassed, Passed
<1>3. CASE m = CASCADE
  <2>1. CASCADE \notin irr
    BY InterruptAssumption
  <2>2. SlavePassed # {}
    BY <1>1, <1>3, <2>1 DEF MasterPassed, Passed
  <2>3. Min(SlavePassed) \in SlavePassed
    BY <2>2, MinLine, LinesType DEF SlavePassed, Passed
  <2>4. Chosen = Min(SlavePassed)
    BY <1>3 DEF Chosen
  <2>5. QED
    BY <2>3, <2>4, LinesType DEF SlavePassed, Passed
<1>4. CASE m # CASCADE
  <2>1. m \in irr
    BY <1>1, <1>4 DEF MasterPassed, Passed
  <2>2. Chosen = m
    BY <1>4 DEF Chosen
  <2>3. QED
    BY <1>2, <2>1, <2>2
<1>5. QED
  BY <1>3, <1>4

(* The EOI of a service ends exactly what the service began. *)
LEMMA EoiEndsService ==
  ASSUME NEW irq \in Lines, isr = {irq} \union Through(irq) \/ isr = Through(irq)
  PROVE  isr \ (Ended(Master) \union (IF irq >= HALF THEN Ended(Slave) ELSE {})) = {}
<1>1. CASE irq \in Slave
  <2>1. irq >= HALF /\ irq \notin Master /\ CASCADE \notin Slave /\ Through(irq) = {CASCADE}
    BY <1>1, LinesType DEF Through, Slave
  <2>2. isr \intersect Master = {CASCADE} /\ isr \intersect Slave \subseteq {irq}
    BY <1>1, <2>1, LinesType
  <2>3. Ended(Master) = {CASCADE}
    BY <2>2, LinesType DEF Ended
  <2>4. irq \in isr => irq \in Ended(Slave)
    BY <1>1, <2>2, LinesType DEF Ended
  <2>5. QED
    BY <2>1, <2>3, <2>4
<1>2. CASE irq \notin Slave
  <2>1. irq \in Master /\ Through(irq) = {}
    BY <1>2, LinesType DEF Through, Slave
  <2>2. isr \subseteq {irq} /\ (irq \in isr => irq \in Ended(Master))
    BY <2>1, LinesType DEF Ended
  <2>3. QED
    BY <2>2
<1>3. QED
  BY <1>1, <1>2

-----------------------------------------------------------------------------
(* The invariant.                                                          *)

(* The boot loader's state satisfies the invariant. *)
LEMMA InitInv == Init => IInv
<1> SUFFICES ASSUME Init PROVE IInv
  OBVIOUS
<1> USE DEF Init
<1>1. TypeOK
  <2>1. imr \subseteq Lines /\ irr \subseteq Devices /\ isr \subseteq Lines
    OBVIOUS
  <2>2. raised \in [Devices -> 0 .. MaxRaises]
    BY InterruptAssumption
  <2>3. irq_handlertable \in [Lines -> Handlers \union {NULL}]
    OBVIOUS
  <2>4. boot \in 1 .. Len(idt_init) + 1
    BY Statements
  <2>5. call \in [step : {"none", "read", "write"}, line : Lines, mask : BOOLEAN,
                  port : SUBSET Lines]
    BY LinesType DEF Idle
  <2>6. frame \in [step : {"none", "handler", "eoi", "iret"}, irq : Lines,
                   spurious : BOOLEAN]
    BY LinesType DEF NoFrame
  <2>7. QED
    BY <2>1, <2>2, <2>3, <2>4, <2>5, <2>6 DEF TypeOK
<1>2. BootInv /\ FlagInv /\ ServiceInv /\ MaskInv /\ NoReset /\ HandlerThere
  BY DEF BootInv, FlagInv, ServiceInv, MaskInv, NoReset, HandlerThere, Idle, NoFrame
<1>3. QED
  BY <1>1, <1>2 DEF IInv

(* Every statement of idt_init keeps the invariant. *)
LEMMA InitIdtStep == IInv /\ InitIdt => IInv'
<1> SUFFICES ASSUME IInv, InitIdt PROVE IInv'
  OBVIOUS
<1> USE DEF IInv, controllers
<1>1. PICK step \in {"exceptions", "remap", "clear", "irqs", "lidt", "sti"} :
        /\ Statement(step)
        /\ \/ step \in {"exceptions", "irqs"} /\ SetEntries(step)
           \/ step = "remap" /\ irq_remap
           \/ step = "clear" /\ irq_clear
           \/ step = "lidt" /\ lidt
           \/ step = "sti" /\ sti
  BY DEF InitIdt, SetEntries, irq_remap, irq_clear, lidt, sti
<1>2. /\ boot \in 1 .. 6 /\ boot' = boot + 1 /\ mode = "running" /\ mode' = mode
      /\ frame = NoFrame /\ call.step = "none" /\ call' = call /\ frame' = frame
      /\ ~ interrupts
      /\ irq_handlertable' = irq_handlertable /\ raised' = raised
      /\ boot = 1 <=> step = "exceptions"
      /\ boot = 2 <=> step = "remap"
      /\ boot = 3 <=> step = "clear"
      /\ boot = 4 <=> step = "irqs"
      /\ boot = 5 <=> step = "lidt"
      /\ boot = 6 <=> step = "sti"
  BY <1>1, Statements DEF Statement, Booted, TypeOK, FlagInv
<1>3. TypeOK'
  <2>1. imr' \subseteq Lines /\ irr' \subseteq Devices /\ isr' \subseteq Lines
    BY <1>1 DEF TypeOK, SetEntries, irq_remap, irq_clear, lidt, sti
  <2>2. remapped' \in BOOLEAN /\ interrupts' \in BOOLEAN /\ loaded' \in BOOLEAN
    BY <1>1 DEF TypeOK, SetEntries, irq_remap, irq_clear, lidt, sti
  <2>3. idt_table' \subseteq {"exceptions", "irqs"}
    BY <1>1, ZenonT(60) DEF TypeOK, SetEntries, irq_remap, irq_clear, lidt, sti
  <2>4. boot' \in 1 .. Len(idt_init)' + 1
    BY <1>2 DEF idt_init
  <2>5. QED
    BY <1>2, <2>1, <2>2, <2>3, <2>4 DEF TypeOK
<1>4. BootInv'
  BY <1>1, <1>2 DEF BootInv, SetEntries, irq_remap, irq_clear, lidt, sti
<1>5. FlagInv'
  BY <1>1, <1>2, Statements DEF FlagInv, Booted, SetEntries, irq_remap, irq_clear, lidt, sti,
     NoFrame
<1>6. ServiceInv'
  BY <1>1, <1>2 DEF ServiceInv, SetEntries, irq_remap, irq_clear, lidt, sti, NoFrame
<1>7. MaskInv'
  BY <1>1, <1>2 DEF MaskInv, SetEntries, irq_remap, irq_clear, lidt, sti
<1>8. NoReset' /\ HandlerThere'
  BY <1>2 DEF NoReset, HandlerThere, NoFrame
<1>9. QED
  BY <1>3, <1>4, <1>5, <1>6, <1>7, <1>8

(* Every call of the kernel keeps the invariant: a handler is there before *)
(* its line is enabled, and the masks have not changed between the read    *)
(* and the write of a controller.                                          *)
LEMMA KernelStep ==
  ASSUME IInv,
         \/ \E line \in Asked, handler \in Handlers, enable \in BOOLEAN :
              idt_setirqhandler(line, handler, enable)
         \/ \E line \in Asked \intersect Lines : irq_setmask(line)
         \/ ReadPort
         \/ WritePort
  PROVE  IInv'
<1> USE DEF IInv, controllers, processor
<1>1. /\ mode = "running" /\ Booted /\ frame = NoFrame /\ boot' = boot /\ frame' = frame
      /\ UNCHANGED <<raised, mode, interrupts, loaded, idt_table, irr, isr, remapped>>
  BY DEF idt_setirqhandler, irq_setmask, ReadPort, WritePort, Kernel
<1>2. BootInv' /\ ServiceInv' /\ NoReset' /\ HandlerThere' /\ FlagInv'
  BY <1>1 DEF BootInv, ServiceInv, NoReset, HandlerThere, FlagInv, NoFrame, Booted
<1>3. CASE \E line \in Asked, handler \in Handlers, enable \in BOOLEAN :
             idt_setirqhandler(line, handler, enable)
  <2>1. PICK line \in Asked, handler \in Handlers, enable \in BOOLEAN :
          idt_setirqhandler(line, handler, enable)
    BY <1>3
  <2>2. CASE line \notin Lines
    <3>1. irq_handlertable' = irq_handlertable /\ call' = call /\ imr' = imr
      BY <2>1, <2>2 DEF idt_setirqhandler
    <3>2. TypeOK' /\ MaskInv'
      BY <1>1, <3>1 DEF TypeOK, MaskInv
    <3>3. QED
      BY <1>2, <3>2
  <2>3. CASE line \in Lines
    <3>1. /\ call.step = "none" /\ imr' = imr
          /\ irq_handlertable' = [irq_handlertable EXCEPT ![line] = handler]
          /\ \/ call' = call
             \/ call' = [Idle EXCEPT !.step = "read", !.line = line]
      BY <2>1, <2>3 DEF idt_setirqhandler, Kernel
    <3>2. TypeOK'
      BY <1>1, <2>3, <3>1, ZenonT(60) DEF TypeOK, Idle
    <3>3. \A l \in Lines : irq_handlertable'[l] # NULL <=>
                             l = line \/ irq_handlertable[l] # NULL
      BY <2>3, <3>1, InterruptAssumption DEF TypeOK
    <3>4. MaskInv'
      BY <1>1, <2>3, <3>1, <3>3 DEF MaskInv, Idle
    <3>5. QED
      BY <1>2, <3>2, <3>4
  <2>4. QED
    BY <1>2, <2>2, <2>3
<1>4. CASE \E line \in Asked \intersect Lines : irq_setmask(line)
  BY <1>1, <1>2, <1>4, ZenonT(60) DEF irq_setmask, Kernel, TypeOK, MaskInv, Idle
<1>5. CASE ReadPort
  BY <1>1, <1>2, <1>5, ZenonT(60) DEF ReadPort, Kernel, TypeOK, MaskInv
<1>6. CASE WritePort
  <2>1. call.line \in Lines /\ Chip(call.line) \subseteq Lines
    BY LinesType DEF TypeOK, Chip
  <2>2. TypeOK'
    <3>1. imr' \subseteq Lines
      BY <1>6, <2>1 DEF WritePort, TypeOK
    <3>2. QED
      BY <1>1, <1>6, <3>1, LinesType DEF WritePort, TypeOK, Idle
  <2>3. \A l \in Lines \ imr' : l \notin imr \/ (l = call.line /\ ~ call.mask)
    BY <1>6, <2>1 DEF WritePort, Kernel, MaskInv
  <2>4. MaskInv'
    BY <1>1, <1>6, <2>3 DEF WritePort, Kernel, MaskInv, Idle
  <2>5. QED
    BY <1>2, <2>2, <2>4
<1>7. QED
  BY <1>3, <1>4, <1>5, <1>6, SMTT(30)

(* Every step of a device, a controller or the processor keeps it. *)
LEMMA RequestStep ==
  ASSUME IInv, (\E device \in Devices : Raise(device)) \/ Accept \/ Spurious
  PROVE  IInv'
<1> USE DEF IInv, controllers, processor
<1>1. CASE \E device \in Devices : Raise(device)
  <2>1. PICK device \in Devices : Raise(device)
    BY <1>1
  <2>2. irr' \subseteq Devices /\ raised' \in [Devices -> 0 .. MaxRaises]
    BY <2>1, InterruptAssumption, SMTT(30) DEF Raise, TypeOK
  <2>3. UNCHANGED <<imr, isr, remapped, mode, interrupts, loaded, idt_table,
                    irq_handlertable, boot, call, frame>>
    BY <2>1 DEF Raise
  <2>4. TypeOK'
    BY <2>2, <2>3 DEF TypeOK
  <2>5. BootInv' /\ FlagInv' /\ ServiceInv' /\ MaskInv' /\ NoReset' /\ HandlerThere'
    BY <2>3 DEF BootInv, FlagInv, ServiceInv, MaskInv, NoReset, HandlerThere, Booted
  <2>6. QED
    BY <2>4, <2>5
<1>2. CASE Accept \/ Spurious
  <2> DEFINE Last == IF Chosen \in Slave THEN 2 * HALF - 1 ELSE HALF - 1
             Begins(irq, spurious) ==
               /\ Enter(irq, spurious)
               /\ irq = IF spurious THEN Last ELSE Chosen
               /\ isr' = (isr \union (IF spurious THEN {} ELSE {irq})) \union Through(Chosen)
  <2>1. PICK irq \in {Chosen, Last}, spurious \in BOOLEAN : Begins(irq, spurious)
    <3>1. Accept => Begins(Chosen, FALSE)
      BY DEF Accept
    <3>2. Spurious => Begins(Last, TRUE)
      BY DEF Spurious
    <3> HIDE DEF Begins
    <3>3. QED
      BY <1>2, <3>1, <3>2
  <2>2. /\ mode = "running" /\ interrupts /\ MasterPassed # {}
        /\ interrupts' = FALSE
        /\ frame' = [step |-> "handler", irq |-> irq, spurious |-> spurious]
        /\ irr' = irr \ {Chosen}
        /\ UNCHANGED <<imr, remapped, raised, loaded, idt_table, irq_handlertable, boot, call>>
    BY <2>1 DEF Enter
  <2>3. Chosen \in Lines \ imr /\ irq \in Lines
    BY <2>1, <2>2, ChosenIsRequested, LinesType DEF TypeOK
  <2>4. Booted /\ boot > 6 /\ frame.step = "none" /\ isr = {}
    BY <2>2, Statements DEF FlagInv, ServiceInv, Booted
  <2>5. mode' = "running"
    BY <2>1, <2>2, <2>4 DEF Enter, BootInv, TypeOK
  <2>6. Through(irq) = Through(Chosen)
    BY <2>1, <2>3, LinesType, InterruptAssumption DEF Through, Slave, Lines, Master, CASCADE
  <2>7. TypeOK'
    BY <2>1, <2>2, <2>3, <2>4, <2>5, LinesType, ZenonT(60) DEF TypeOK, Through
  <2>8. ServiceInv'
    BY <2>1, <2>2, <2>4, <2>6 DEF ServiceInv, Through
  <2>9. HandlerThere'
    <3>1. ~ spurious => irq \in Lines \ imr
      BY <2>1, <2>3
    <3>2. boot > 3
      BY <2>4 DEF TypeOK
    <3>3. ~ spurious => irq_handlertable[irq] # NULL
      BY <3>1, <3>2 DEF MaskInv
    <3>4. QED
      BY <2>2, <3>3 DEF HandlerThere
  <2>10. BootInv' /\ FlagInv' /\ MaskInv' /\ NoReset'
    BY <2>2, <2>4, <2>5 DEF BootInv, FlagInv, MaskInv, NoReset, Booted
  <2>11. QED
    BY <2>7, <2>8, <2>9, <2>10
<1>3. QED
  BY <1>1, <1>2

(* Every step of irq_master and handle_irqint keeps it. *)
LEMMA ServiceStep == IInv /\ Service => IInv'
<1> SUFFICES ASSUME IInv, Service PROVE IInv'
  OBVIOUS
<1> USE DEF IInv
<1> DEFINE Goes(next) ==
        /\ \/ frame.step = "handler" /\ next = "eoi"
           \/ frame.step = "eoi" /\ next = "iret"
           \/ frame.step = "iret" /\ next = "none"
        /\ mode = "running" /\ mode' = mode
        /\ frame' = IF next = "none" THEN NoFrame ELSE [frame EXCEPT !.step = next]
        /\ UNCHANGED <<imr, irr, remapped, raised, loaded, idt_table, irq_handlertable,
                       boot, call>>
        /\ interrupts' = IF next = "none" THEN TRUE ELSE interrupts
        /\ isr' = IF next = "iret"
                  THEN isr \ (Ended(Master) \union
                              (IF frame.irq >= HALF THEN Ended(Slave) ELSE {}))
                  ELSE isr
<1>1. PICK next \in {"eoi", "iret", "none"} : Goes(next)
  <2>1. CallHandler => Goes("eoi")
    BY DEF CallHandler, Serve, TypeOK
  <2>2. irq_sendeoi => Goes("iret")
    BY DEF irq_sendeoi, Serve, TypeOK
  <2>3. iret => Goes("none")
    BY DEF iret, Serve
  <2> HIDE DEF Goes
  <2>4. QED
    BY <2>1, <2>2, <2>3 DEF Service
<1>2. Booted /\ ~ interrupts /\ frame.irq \in Lines
  BY <1>1 DEF FlagInv, TypeOK
<1>3. next = "iret" => isr' = {}
  BY <1>1, <1>2, EoiEndsService DEF ServiceInv
<1>4. TypeOK'
  <2>1. frame' \in [step : {"none", "handler", "eoi", "iret"}, irq : Lines, spurious : BOOLEAN]
    BY <1>1, LinesType DEF TypeOK, NoFrame
  <2>2. isr' \subseteq Lines /\ interrupts' \in BOOLEAN
    BY <1>1, <1>3 DEF TypeOK
  <2>3. QED
    BY <1>1, <2>1, <2>2 DEF TypeOK
<1>5. ServiceInv'
  BY <1>1, <1>3 DEF ServiceInv, NoFrame, TypeOK
<1>6. BootInv' /\ FlagInv' /\ MaskInv' /\ NoReset' /\ HandlerThere'
  BY <1>1, <1>2 DEF BootInv, FlagInv, MaskInv, NoReset, HandlerThere, NoFrame, Booted, TypeOK
<1>7. QED
  BY <1>4, <1>5, <1>6

(* Every step keeps the invariant. *)
LEMMA StepInv == IInv /\ [Next]_vars => IInv'
<1> SUFFICES ASSUME IInv, [Next]_vars PROVE IInv'
  OBVIOUS
<1>1. CASE UNCHANGED vars
  BY <1>1 DEF IInv, vars, controllers, processor, TypeOK, BootInv, FlagInv, ServiceInv,
     MaskInv, NoReset, HandlerThere, Booted
<1>2. CASE Return \/ Exception
  <2>1. /\ UNCHANGED <<imr, irr, isr, remapped, raised, loaded, idt_table,
                        irq_handlertable, boot, call, frame>>
        /\ interrupts' = FALSE
        /\ mode' \in {"stopped", "halted", "reset"}
    BY <1>2 DEF Return, Exception, controllers
  <2>2. loaded => mode' # "reset"
    <3>1. boot \in 1 .. 7
      BY Statements DEF IInv, TypeOK
    <3>2. loaded => "exceptions" \in idt_table
      BY <3>1 DEF IInv, BootInv
    <3>3. QED
      BY <1>2, <3>2 DEF Return, Exception
  <2>3. TypeOK'
    BY <2>1, ZenonT(60) DEF IInv, TypeOK
  <2>4. BootInv' /\ FlagInv' /\ ServiceInv' /\ MaskInv' /\ NoReset' /\ HandlerThere'
    BY <2>1, <2>2 DEF IInv, BootInv, FlagInv, ServiceInv, MaskInv, NoReset, HandlerThere, Booted
  <2>5. QED
    BY <2>3, <2>4 DEF IInv
<1>4. QED
  BY <1>1, <1>2, InitIdtStep, KernelStep, RequestStep, ServiceStep DEF Next

(* Every variable keeps its type. *)
THEOREM TypeCorrect == Spec => []TypeOK
<1>1. IInv => TypeOK
  BY DEF IInv
<1>2. QED
  BY <1>1, InitInv, StepInv, PTL DEF Spec

(* Once lidt is executed no exception and no request is without an entry:  *)
(* the processor is never reset.                                           *)
THEOREM NeverReset == Spec => []NoReset
<1>1. IInv => NoReset
  BY DEF IInv
<1>2. QED
  BY <1>1, InitInv, StepInv, PTL DEF Spec

(* While interrupts are on no line is in service: irq_sendeoi has ended    *)
(* exactly what each request began.                                        *)
THEOREM ServicesEnd == Spec => []NothingInService
<1>1. IInv => NothingInService
  BY DEF IInv, FlagInv, ServiceInv, NothingInService
<1>2. QED
  BY <1>1, InitInv, StepInv, PTL DEF Spec

(* An accepted request finds the handler that idt_setirqhandler installed. *)
THEOREM HandlerFound == Spec => []HandlerThere
<1>1. IInv => HandlerThere
  BY DEF IInv
<1>2. QED
  BY <1>1, InitInv, StepInv, PTL DEF Spec

=============================================================================

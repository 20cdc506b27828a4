----------------------------- MODULE Interrupts -----------------------------
(***************************************************************************)
(* Interrupts: idt_init, the installation of handlers and the service of a *)
(* request (src/kernel/arch/idt.c, irq.c and int_handlers.asm), together   *)
(* with the two 8259 interrupt controllers they program and the processor. *)
(* Controllers, devices and processor are not part of the repository; they *)
(* do here what the code takes for granted: edge triggered requests, fixed *)
(* priorities, an EOI that ends the most important service under way.      *)
(*                                                                         *)
(* A line below HALF is a line of the master, the others of the slave,     *)
(* which is connected to line CASCADE of the master.                       *)
(***************************************************************************)
EXTENDS Integers, Sequences, FiniteSetsExt

CONSTANTS
  HALF,         (* The lines of one controller: 8.                           *)
  Devices,      (* The lines that have a device.                             *)
  Asked,        (* The lines the kernel installs handlers for.               *)
  Handlers,     (* The functions it installs.                                *)
  NULL,         (* No function.                                              *)
  MaxRaises     (* Bound: the requests of each device.                       *)

CASCADE == 2

ASSUME InterruptAssumption ==
  /\ HALF \in Nat /\ HALF > CASCADE + 1
  /\ Devices \subseteq 0 .. 2 * HALF - 1 /\ CASCADE \notin Devices
  /\ Asked \subseteq Nat
  /\ NULL \notin Handlers
  /\ MaxRaises \in Nat

Lines == 0 .. 2 * HALF - 1
Master == 0 .. HALF - 1
Slave == Lines \ Master
Chip(line) == IF line \in Master THEN Master ELSE Slave

VARIABLES
  (* The controllers. *)
  imr,                 (* The lines that are masked.                         *)
  irr,                 (* The lines with a request not yet accepted.         *)
  isr,                 (* The lines in service.                              *)
  remapped,            (* Requests come as the vectors from 0x20 on.         *)
  raised,              (* For each device how many requests it made.         *)
  (* The processor. *)
  mode,                (* "running"; "stopped" once kmain has returned;      *)
                       (* "halted" by handle_exception; or "reset".          *)
  interrupts,          (* The interrupt flag.                                *)
  loaded,              (* lidt was executed.                                 *)
  (* The kernel. *)
  idt_table,           (* The entries that are set.                          *)
  irq_handlertable,
  boot,                (* How far idt_init is.                               *)
  call,                (* The change of a mask under way in the kernel.      *)
  frame                (* The interrupt under way.                           *)

controllers == <<imr, irr, isr, remapped>>
processor == <<mode, interrupts, loaded>>
vars == <<controllers, raised, processor, idt_table, irq_handlertable, boot,
          call, frame>>

Idle == [step |-> "none", line |-> 0, mask |-> FALSE, port |-> {}]
NoFrame == [step |-> "none", irq |-> 0, spurious |-> FALSE]

(* The boot loader leaves any lines masked; interrupts are off. *)
Init ==
  /\ imr \in SUBSET Lines
  /\ irr = {} /\ isr = {}
  /\ remapped = FALSE
  /\ raised = [d \in Devices |-> 0]
  /\ mode = "running"
  /\ interrupts = FALSE
  /\ loaded = FALSE
  /\ idt_table = {}
  /\ irq_handlertable = [l \in Lines |-> NULL]
  /\ boot = 1
  /\ call = Idle
  /\ frame = NoFrame

-----------------------------------------------------------------------------
(* idt_init.                                                               *)

(* Interrupts are on before the lines of the boot loader are masked. *)
EarlyOn == <<"exceptions", "remap", "irqs", "lidt", "sti", "clear">>

(* The table is in use before the exceptions are in it. *)
EarlyTable == <<"lidt", "exceptions", "remap", "clear", "irqs", "sti">>

idt_init == <<"exceptions", "remap", "clear", "irqs", "lidt", "sti">>

Booted == boot > Len(idt_init)

(* The next statement of idt_init is "step". *)
Statement(step) ==
  /\ mode = "running" /\ frame = NoFrame
  /\ ~ Booted /\ idt_init[boot] = step /\ boot' = boot + 1
  /\ UNCHANGED <<raised, mode, irq_handlertable, call, frame>>

SetEntries(group) ==
  /\ Statement(group)
  /\ idt_table' = idt_table \union {group}
  /\ UNCHANGED <<controllers, interrupts, loaded>>

(* The masks are read before and written back after. *)
irq_remap ==
  /\ Statement("remap")
  /\ irr' = {} /\ isr' = {} /\ remapped' = TRUE
  /\ UNCHANGED <<imr, interrupts, loaded, idt_table>>

irq_clear ==
  /\ Statement("clear")
  /\ imr' = Lines
  /\ UNCHANGED <<irr, isr, remapped, interrupts, loaded, idt_table>>

lidt ==
  /\ Statement("lidt")
  /\ loaded' = TRUE
  /\ UNCHANGED <<controllers, interrupts, idt_table>>

sti ==
  /\ Statement("sti")
  /\ interrupts' = TRUE
  /\ UNCHANGED <<controllers, loaded, idt_table>>

-----------------------------------------------------------------------------
(* Calls of the kernel, with interrupts on.                                *)

Kernel(step) ==
  /\ mode = "running" /\ Booted /\ frame = NoFrame
  /\ call.step = step
  /\ UNCHANGED <<raised, processor, idt_table, boot, frame>>

(* A line that does not exist gets a handler too. *)
SetAnyHandler(line, handler, enable) ==
  /\ Kernel("none") /\ UNCHANGED controllers
  /\ irq_handlertable' = [irq_handlertable EXCEPT ![line] = handler]
  /\ call' = IF enable THEN [Idle EXCEPT !.step = "read", !.line = line] ELSE call

(* A line that does not exist is refused. *)
idt_setirqhandler(line, handler, enable) ==
  /\ Kernel("none") /\ UNCHANGED controllers
  /\ IF line \notin Lines
     THEN UNCHANGED <<irq_handlertable, call>>
     ELSE /\ irq_handlertable' = [irq_handlertable EXCEPT ![line] = handler]
          /\ call' = IF enable THEN [Idle EXCEPT !.step = "read", !.line = line]
                               ELSE call

irq_setmask(line) ==
  /\ Kernel("none") /\ UNCHANGED <<controllers, irq_handlertable>>
  /\ call' = [Idle EXCEPT !.step = "read", !.line = line, !.mask = TRUE]

(* irq_setmask and irq_clearmask read the masks of a controller ... *)
ReadPort ==
  /\ Kernel("read") /\ UNCHANGED <<controllers, irq_handlertable>>
  /\ call' = [call EXCEPT !.step = "write", !.port = imr \intersect Chip(call.line)]

(* ... and write them back with one changed. *)
WritePort ==
  /\ Kernel("write") /\ UNCHANGED <<irr, isr, remapped, irq_handlertable>>
  /\ LET port == IF call.mask THEN call.port \union {call.line}
                              ELSE call.port \ {call.line}
     IN  imr' = (imr \ Chip(call.line)) \union port
  /\ call' = Idle

(* kmain returns to _start, which turns interrupts off for good. *)
Return ==
  /\ mode = "running" /\ Booted /\ frame = NoFrame /\ call = Idle
  /\ mode' = "stopped" /\ interrupts' = FALSE
  /\ UNCHANGED <<controllers, raised, loaded, idt_table, irq_handlertable, boot,
                 call, frame>>

-----------------------------------------------------------------------------
(* Controllers and processor.                                              *)

(* The requests of a controller that its masks and services let through. *)
Passed(chip, requests) ==
  {l \in requests \intersect chip : l \notin imr /\ \A k \in isr \intersect chip : l < k}

SlavePassed == Passed(Slave, irr)
MasterPassed ==
  Passed(Master, irr \union (IF SlavePassed = {} THEN {} ELSE {CASCADE}))

(* The line the processor is interrupted for. *)
Chosen == IF Min(MasterPassed) = CASCADE THEN Min(SlavePassed) ELSE Min(MasterPassed)

(* A service of a line of the slave is one of the cascade line too. *)
Through(line) == IF line \in Slave THEN {CASCADE} ELSE {}

Raise(device) ==
  /\ mode = "running"
  /\ device \notin irr
  /\ raised[device] < MaxRaises
  /\ raised' = [raised EXCEPT ![device] = @ + 1]
  /\ irr' = irr \union {device}
  /\ UNCHANGED <<imr, isr, remapped, processor, idt_table, irq_handlertable, boot,
                 call, frame>>

(* The processor enters the table; without an entry it is reset. *)
Enter(irq, spurious) ==
  /\ mode = "running" /\ interrupts /\ MasterPassed # {}
  /\ interrupts' = FALSE
  /\ mode' = IF loaded /\ remapped /\ "irqs" \in idt_table THEN mode ELSE "reset"
  /\ frame' = [step |-> "handler", irq |-> irq, spurious |-> spurious]
  /\ irr' = irr \ {Chosen}
  /\ UNCHANGED <<imr, remapped, raised, loaded, idt_table, irq_handlertable, boot, call>>

Accept ==
  /\ Enter(Chosen, FALSE)
  /\ isr' = isr \union {Chosen} \union Through(Chosen)

(* The request is gone when the processor asks for it: the controller      *)
(* answers with its last line and puts nothing in service.                 *)
Spurious ==
  /\ Enter(IF Chosen \in Slave THEN 2 * HALF - 1 ELSE HALF - 1, TRUE)
  /\ isr' = isr \union Through(Chosen)

(* A non-specific EOI. *)
Ended(chip) == {l \in isr \intersect chip : \A k \in isr \intersect chip : l <= k}

-----------------------------------------------------------------------------
(* irq_master and handle_irqint, with interrupts off.                      *)

Serve(step, next) ==
  /\ mode = "running" /\ frame.step = step
  /\ frame' = IF next = "none" THEN NoFrame ELSE [frame EXCEPT !.step = next]
  /\ UNCHANGED <<imr, irr, remapped, raised, mode, loaded, idt_table,
                 irq_handlertable, boot, call>>

(* A handler, if there is one, leaves controllers and processor alone. *)
CallHandler ==
  /\ Serve("handler", "eoi")
  /\ UNCHANGED <<isr, interrupts>>

(* Only the controller of the line is told. *)
EoiOneChip ==
  /\ Serve("eoi", "iret")
  /\ isr' = isr \ Ended(Chip(frame.irq))
  /\ UNCHANGED interrupts

(* Line 8 is taken for one of the master. *)
EoiOneLate ==
  /\ Serve("eoi", "iret")
  /\ isr' = isr \ (Ended(Master) \union (IF frame.irq > HALF THEN Ended(Slave) ELSE {}))
  /\ UNCHANGED interrupts

irq_sendeoi ==
  /\ Serve("eoi", "iret")
  /\ isr' = isr \ (Ended(Master) \union (IF frame.irq >= HALF THEN Ended(Slave) ELSE {}))
  /\ UNCHANGED interrupts

iret ==
  /\ Serve("iret", "none")
  /\ interrupts' = TRUE
  /\ UNCHANGED isr

(* handle_exception halts; without an entry the processor is reset. *)
Exception ==
  /\ mode = "running"
  /\ mode' = IF loaded /\ "exceptions" \in idt_table THEN "halted" ELSE "reset"
  /\ interrupts' = FALSE
  /\ UNCHANGED <<controllers, raised, loaded, idt_table, irq_handlertable, boot,
                 call, frame>>

-----------------------------------------------------------------------------
InitIdt ==
  \/ SetEntries("exceptions")
  \/ irq_remap
  \/ irq_clear
  \/ SetEntries("irqs")
  \/ lidt
  \/ sti

Service == CallHandler \/ irq_sendeoi \/ iret

Next ==
  \/ InitIdt
  \/ \E line \in Asked, handler \in Handlers, enable \in BOOLEAN :
       idt_setirqhandler(line, handler, enable)
  \/ \E line \in Asked \intersect Lines : irq_setmask(line)
  \/ ReadPort
  \/ WritePort
  \/ Return
  \/ \E device \in Devices : Raise(device)
  \/ Accept
  \/ Spurious
  \/ Service
  \/ Exception

(* The processor goes on with a service, and asks for a request between    *)
(* any two instructions while the interrupt flag is set.                   *)
Fairness == WF_vars(Accept) /\ WF_vars(Service)

Spec == Init /\ [][Next]_vars /\ Fairness

-----------------------------------------------------------------------------
(* Properties.                                                             *)

TypeOK ==
  /\ imr \subseteq Lines /\ irr \subseteq Devices /\ isr \subseteq Lines
  /\ remapped \in BOOLEAN
  /\ raised \in [Devices -> 0 .. MaxRaises]
  /\ mode \in {"running", "stopped", "halted", "reset"}
  /\ interrupts \in BOOLEAN /\ loaded \in BOOLEAN
  /\ idt_table \subseteq {"exceptions", "irqs"}
  /\ irq_handlertable \in [Lines -> Handlers \union {NULL}]
  /\ boot \in 1 .. Len(idt_init) + 1
  /\ call \in [step : {"none", "read", "write"}, line : Lines, mask : BOOLEAN,
               port : SUBSET Lines]
  /\ frame \in [step : {"none", "handler", "eoi", "iret"}, irq : Lines,
                spurious : BOOLEAN]

(* Whenever the table of idt_init is in use, every exception and every     *)
(* request finds its entry.                                                *)
NoReset == loaded => mode # "reset"

(* While interrupts are on no line is in service: each service, a spurious *)
(* one and one of the slave too, has ended exactly what it began, and      *)
(* blocks no later request.                                                *)
NothingInService == interrupts => isr = {}

(* A request of a device is not given away: when it is accepted a handler  *)
(* is there, although lines had been unmasked by the boot loader and the   *)
(* kernel installs handlers while requests come in.                        *)
HandlerThere ==
  frame.step = "handler" /\ ~ frame.spurious => irq_handlertable[frame.irq] # NULL

(* A request waits that no mask holds back. *)
Waits(line) ==
  /\ mode = "running" /\ Booted
  /\ line \in irr /\ line \notin imr

(* A request that no mask, the one of the cascade line included, holds     *)
(* back is accepted, unless the kernel stops or masks it.                  *)
RequestsServed ==
  \A d \in Devices : []<> ~ (Waits(d) /\ Through(d) \intersect imr = {})

(* A request of a line the kernel has enabled by idt_setirqhandler is      *)
(* accepted.                                                               *)
EnabledLinesServed == \A d \in Devices : []<> ~ Waits(d)

=============================================================================

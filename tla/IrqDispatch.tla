----------------------------- MODULE IrqDispatch -----------------------------
(***************************************************************************)
(* The way a device interrupt reaches its handler: IRQ_HANDLERS and        *)
(* irq_handler of src/interrupt.rs, the IOAPIC programming of              *)
(* src/arch/x86_64/apic.rs that set_handler does (ioapic_init, enable_irq  *)
(* and the register arithmetic under them), and the vector entry point    *)
(* interrupt_handler of src/lib.rs.                                        *)
(*                                                                         *)
(* The dispatch state is a record: handlers, IrqHandler::handlers as a     *)
(* partial function from the irqs that have a handler (an absent irq is    *)
(* None), and redir, the low word of each IOAPIC redirection entry.  The   *)
(* high words hold the destination APIC, which the code always writes as  *)
(* 0; the model does not keep them.                                       *)
(***************************************************************************)
EXTENDS Integers, TLC

CONSTANT IoapicPins  \* redirection entries: (IOAPICVER >> 16) + 1, 24 on QEMU

VECTOR_IRQ_BASE == 48

(* the Interruptable objects: interrupt::Timer and a VirtioNet by its id, *)
(* and what a vector may run instead                                       *)
TimerHandler == [kind |-> "timer", id |-> 0]
NetHandler(id) == [kind |-> "net", id |-> id]
NoHandler == [kind |-> "none", id |-> 0]
Exception == [kind |-> "exception", id |-> 0]
MaskBit == 65536     \* 1 << 16 in a redirection entry's low word

(* ioapic_init: every entry the IOAPIC reports is masked *)
IoapicInit == [pin \in 0 .. IoapicPins - 1 |-> MaskBit]

(***************************************************************************)
(* ioapic_reg_low(n) is (0x10 + n * 2) as u8, computed on the u8 n: a      *)
(* debug build panics when that arithmetic overflows, a release build     *)
(* wraps.  ioapic_reg_high(n) is one more, an odd register, which is      *)
(* always a high word.                                                     *)
(***************************************************************************)
\* Mutant: the entry index not doubled.
RegLowNotDoubled(n) == (16 + n) % 256

RegLow(n) == (16 + ((2 * n) % 256)) % 256

RegLowOverflows(n) == 16 + 2 * n > 255

(* ioapic_write to an even register from 0x10 on: the low word of entry    *)
(* (reg - 0x10) / 2, when the IOAPIC has that entry; other writes do not  *)
(* change a low word.                                                      *)
IoapicWriteLow(redir, reg, data) ==
  IF reg >= 16 /\ (reg - 16) % 2 = 0 /\ (reg - 16) \div 2 \in DOMAIN redir
  THEN [redir EXCEPT ![(reg - 16) \div 2] = data]
  ELSE redir

(* enable_irq: high word 0, then the low word VECTOR_IRQ_BASE + irq, unmasked *)
EnableIrq(redir, irq) == IoapicWriteLow(redir, RegLow(irq), VECTOR_IRQ_BASE + irq)

(* IrqHandler::set_handler: the entry for the handler's irq is replaced,  *)
(* then the irq is enabled.                                                *)
SetHandler(d, h, irq) ==
  [handlers |-> (irq :> h) @@ d.handlers, redir |-> EnableIrq(d.redir, irq)]

(* an entry raises its vector only while its mask bit, the 1 << 16 that  *)
(* ioapic_init writes, is clear                                            *)
Delivers(redir, pin) == pin \in DOMAIN redir /\ (redir[pin] \div MaskBit) % 2 = 0

Vector(redir, pin) == redir[pin] % 256

(***************************************************************************)
(* interrupt_handler(intvec) of lib.rs: vectors up to 20 are exceptions   *)
(* and panic, 48 and above call irq_handler(intvec - 48), which acks and  *)
(* runs the irq's handler if get_handler finds one.                       *)
(***************************************************************************)
HandlerOf(d, vector) ==
  CASE vector <= 20 -> Exception
    [] vector >= VECTOR_IRQ_BASE /\ vector - VECTOR_IRQ_BASE \in DOMAIN d.handlers
                   -> d.handlers[vector - VECTOR_IRQ_BASE]
    [] OTHER       -> NoHandler

(* the handler that runs when a device raises IOAPIC pin `pin` *)
PinHandler(d, pin) == IF Delivers(d.redir, pin) THEN HandlerOf(d, Vector(d.redir, pin)) ELSE NoHandler

=============================================================================

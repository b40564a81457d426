-------------------------- MODULE InterruptControl --------------------------
(***************************************************************************)
(* What the CPU promises about interrupts, without registers or memory:    *)
(* whether interrupts are off, being turned on by EI, or on; which request *)
(* is pending; whether the CPU is halted; and where the program is.        *)
(***************************************************************************)
EXTENDS Naturals, Sequences

CONSTANT Vector     \* the numbers requestInterrupt is called with

VARIABLES pc, enable, pending, halted

controlVars == <<pc, enable, pending, halted>>

\* One slot: the vector of the last request, if it is not served.
Requests == {<<vector>> : vector \in Vector}

ControlInit == pc = 0 /\ enable = "off" /\ pending = <<>> /\ halted = FALSE

Servable == pending # <<>> /\ enable # "off"

\* The enable once the cycle after EI has begun.
Settled == IF enable = "arming" THEN "on" ELSE enable

Request == pending' \in Requests /\ UNCHANGED <<pc, enable, halted>>

\* A servable request is taken before anything else, calls the routine of its
\* vector, wakes a halted CPU, and shuts the door behind it.
Serve ==
  /\ Servable
  /\ pc' = 8 * Head(pending)
  /\ enable' = "off" /\ pending' = <<>> /\ halted' = FALSE

\* An instruction runs only when there is nothing to serve and the CPU is not
\* halted; it may be one that turns interrupts on or off, or HLT, or one that
\* makes a device request an interrupt.  Where it leaves pc is open.
Instruction ==
  /\ ~Servable /\ ~halted
  /\ \/ enable' = Settled /\ halted' = FALSE /\ pending' \in Requests
     \/ enable' = Settled /\ halted' \in BOOLEAN /\ UNCHANGED pending
     \/ enable' \in {"arming", "off"} /\ halted' = FALSE /\ UNCHANGED pending

\* A reset forgets the request and turns interrupts off, unless EI was the
\* last instruction: then they are on in the next cycle all the same.
Reset ==
  /\ pc' = 0
  /\ enable' = IF enable = "arming" THEN "arming" ELSE "off"
  /\ pending' = <<>> /\ halted' = FALSE

ControlNext == Request \/ Serve \/ Instruction \/ Reset

ControlSafety == ControlInit /\ [][ControlNext]_controlVars

\* Nothing that can be served waits for ever.
ControlSpec == ControlSafety /\ []<>~Servable
=============================================================================

---------------------------- MODULE VmExitsProofs ----------------------------
(***************************************************************************)
(* The exits of a processor, for any instructions, controls, MSRs and XCR0 *)
(* values: what the guest is owed, what an instruction has done, and whose *)
(* registers are loaded, at each point of an exit.                         *)
(***************************************************************************)
EXTENDS VmExits, TLAPS

\* The event owed is in delivery, cut short by the exit, or about to be injected.
EventInv ==
    /\ mode \in {"guest", "exit", "handler"} => vectoring = owed
    /\ mode = "resume" => entry.event = owed
    /\ mode = "resume" /\ entry.event # None =>
        /\ entry.code <=> entry.event \in WithCode
        /\ entry.length <=> entry.event \in Software

\* An instruction that has been emulated is gone, and nothing has retired since.
EffectInv ==
    /\ mode = "guest" /\ effects = 1 => insn = None /\ vectoring = None /\ ~stepped
    /\ mode \in {"exit", "handler"} => effects = 0
    /\ mode \in {"resume", "vmxoff", "left"} => (skip <=> effects = 1)
    /\ mode = "resume" /\ skip => entry.event = None
    /\ mode \in {"exit", "handler"} /\ reason = "instruction" =>
        insn \in Instructions /\ vectoring = None

\* Which registers have a host value follows the steps out of the guest and back.
RegisterInv ==
    /\ GuestHasItsRegisters
    /\ mode = "exit" => host = LostByExit
    /\ mode \in {"handler", "resume"} => host = LostByExit \cup UsedByHandler
    /\ mode = "vmxoff" =>
        host = (LostByExit \cup UsedByHandler) \ (RestoreRegisters \cup {"cr3"})
    /\ mode = "left" =>
        host = {"selectors", "rflags"} \cup (changed \cap LeftByVmxoff)

\* An instruction that is being handled is one that exits.
ExitInv == mode \in {"exit", "handler"} /\ reason = "instruction" => Exits(insn)

\* What has been saved can be restored, unless XCR0 has changed since.
FrameInv ==
    /\ mode = "handler" => frame \subseteq xcr0
    /\ mode = "resume" /\ ~(frame \subseteq xcr0) =>
        /\ insn \in Instructions /\ insn.kind = "xsetbv"
        /\ xcr0 = MaskOf[insn.arg]
    /\ RootFaultsKnown

Inv == TypeOK /\ EventInv /\ EffectInv /\ ExitInv /\ RegisterInv /\ FrameInv

LEMMA InitInv == Init => Inv
<1> SUFFICES ASSUME Init PROVE Inv
  OBVIOUS
<1>1. TypeOK
  <2>1. xcr0 \subseteq Supported
    BY VmExitsAssumption DEF Init
  <2>2. entry \in [event : Events \cup {None}, code : BOOLEAN, length : BOOLEAN]
    BY DEF Init, NoEntry
  <2>3. /\ mode \in {"guest"} /\ reason \in Reasons /\ effects \in 0 .. 1
        /\ insn \in {None} /\ vectoring \in {None} /\ owed \in {None}
    BY DEF Init, Reasons
  <2>4. /\ skip \in BOOLEAN /\ trap \in BOOLEAN /\ stepped \in BOOLEAN
        /\ open \in BOOLEAN /\ (open => trap)
    BY DEF Init
  <2>5. /\ frame \subseteq Supported /\ host \subseteq LoadedByExit \cup UsedByHandler
        /\ changed \subseteq Captured
    BY DEF Init, Captured
  <2> QED
    BY <2>1, <2>2, <2>3, <2>4, <2>5 DEF TypeOK
<1>2. EventInv /\ EffectInv /\ ExitInv /\ RegisterInv /\ FrameInv
  BY DEF Init, EventInv, EffectInv, ExitInv, RegisterInv, GuestHasItsRegisters, FrameInv,
         RootFaultsKnown
<1> QED
  BY <1>1, <1>2 DEF Inv

\* The steps that leave the registers alone.
LEMMA RegistersKept ==
  ASSUME RegisterInv, UNCHANGED <<host, changed>>,
         \/ mode' = mode
         \/ mode = "handler" /\ mode' = "resume"
         \/ mode' = "stopped"
  PROVE  RegisterInv'
<1>1. LostByExit' = LostByExit
  BY DEF LostByExit
<1>2. GuestHasItsRegisters'
  BY DEF RegisterInv, GuestHasItsRegisters
<1> QED
  BY <1>1, <1>2 DEF RegisterInv

LEMMA StutterStep ==
  ASSUME Inv, UNCHANGED vars
  PROVE  Inv'
<1> USE DEF vars, cpuVars, eventVars, stepVars, regVars
<1>1. RegisterInv'
  BY RegistersKept DEF Inv
<1>2. ExitInv'
  BY DEF Inv, ExitInv, Exits
<1>3. TypeOK' /\ EventInv' /\ EffectInv'
  BY DEF Inv, TypeOK, EventInv, EffectInv
<1>4. FrameInv'
  BY DEF Inv, FrameInv, RootFaultsKnown
<1> QED
  BY <1>1, <1>2, <1>3, <1>4 DEF Inv

(* The guest.                                                               *)

LEMMA FetchStep ==
  ASSUME Inv, Fetch
  PROVE  Inv'
<1> USE DEF eventVars, stepVars, regVars, Running
<1>1. TypeOK'
  BY DEF Inv, TypeOK, Fetch
<1>2. EventInv' /\ EffectInv' /\ ExitInv' /\ FrameInv'
  BY DEF Inv, EventInv, EffectInv, ExitInv, FrameInv, RootFaultsKnown, Fetch
<1>3. RegisterInv'
  BY RegistersKept DEF Inv, Fetch
<1> QED
  BY <1>1, <1>2, <1>3 DEF Inv

LEMMA RaiseStep ==
  ASSUME Inv, NEW e \in Raised, Raise(e)
  PROVE  Inv'
<1> USE DEF stepVars, regVars, Running
<1>1. TypeOK'
  BY DEF Inv, TypeOK, Raise, Events
<1>2. EventInv' /\ EffectInv' /\ ExitInv' /\ FrameInv'
  BY DEF Inv, EventInv, EffectInv, ExitInv, FrameInv, RootFaultsKnown, Raise
<1>3. RegisterInv'
  BY RegistersKept DEF Inv, Raise
<1> QED
  BY <1>1, <1>2, <1>3 DEF Inv

LEMMA RetireStep ==
  ASSUME Inv, Deliver \/ Execute
  PROVE  Inv'
<1> USE DEF cpuVars, eventVars, regVars, Running
<1>1. TypeOK'
  <2>1. Deliver => TypeOK'
    BY DEF Inv, TypeOK, Deliver
  <2>2. ASSUME Execute PROVE TypeOK'
    <3>1. changed' \subseteq Captured
      BY <2>2, VmExitsAssumption DEF Inv, TypeOK, Execute
    <3> QED
      BY <2>2, <3>1 DEF Inv, TypeOK, Execute
  <2> QED
    BY <2>1, <2>2
<1>2. effects = 0
  BY DEF Inv, TypeOK, EffectInv, Deliver, Execute
<1>3. EventInv' /\ EffectInv' /\ ExitInv' /\ FrameInv'
  BY <1>2
  DEF Inv, EventInv, EffectInv, ExitInv, FrameInv, RootFaultsKnown, Deliver, Execute
<1>4. RegisterInv'
  <2>1. CASE Deliver
    BY <2>1, RegistersKept DEF Inv, Deliver
  <2>2. CASE Execute
    <3>1. mode = "guest" /\ mode' = "guest" /\ host' \subseteq host
          /\ changed \subseteq changed'
      BY <2>2 DEF Execute
    <3>2. GuestHasItsRegisters'
      BY <3>1 DEF Inv, RegisterInv, GuestHasItsRegisters
    <3> QED
      BY <3>1, <3>2 DEF RegisterInv
  <2> QED
    BY <2>1, <2>2
<1> QED
  BY <1>1, <1>3, <1>4 DEF Inv

\* An exit leaves an instruction without effect behind.
LEMMA ExitStep ==
  ASSUME Inv, AccessExit \/ InstructionExit \/ TrapExit
  PROVE  Inv'
<1> USE DEF Running, TrapPending
<1>1. PICK why \in Reasons :
        /\ VmExit(why) /\ mode = "guest"
        /\ why = "instruction" => insn # None /\ vectoring = None /\ Exits(insn)
  BY DEF AccessExit, InstructionExit, TrapExit, Reasons
<1>2. /\ mode' = "exit" /\ reason' = why /\ skip' = FALSE
      /\ entry' = [entry EXCEPT !.event = None]
      /\ host' = host \cup LostByExit
      /\ UNCHANGED <<insn, effects, vectoring, owed, trap, stepped, open, xcr0, frame,
                     changed>>
  BY <1>1 DEF VmExit, stepVars
<1>3. TypeOK'
  BY <1>1, <1>2 DEF Inv, TypeOK, LostByExit
<1>4. effects = 0
  <2>1. insn # None \/ vectoring # None \/ stepped
    BY DEF AccessExit, InstructionExit, TrapExit
  <2>2. effects \in {0, 1}
    BY DEF Inv, TypeOK
  <2> QED
    BY <1>1, <2>1, <2>2 DEF Inv, EffectInv
<1>5. EventInv' /\ EffectInv' /\ FrameInv'
  BY <1>1, <1>2, <1>4 DEF Inv, TypeOK, EventInv, EffectInv, FrameInv, RootFaultsKnown
<1>6. RegisterInv'
  <2>1. host \subseteq changed \cap {"debug"}
    BY <1>1 DEF Inv, RegisterInv, GuestHasItsRegisters
  <2>2. "debug" \in changed => "debug" \in LostByExit
    BY DEF LostByExit, LoadedByExit, Captured
  <2>3. host' = LostByExit
    BY <1>2, <2>1, <2>2
  <2>4. LostByExit' = LostByExit
    BY <1>2 DEF LostByExit
  <2> QED
    BY <1>2, <2>3, <2>4 DEF RegisterInv, GuestHasItsRegisters
<1>7. ExitInv'
  BY <1>1, <1>2 DEF ExitInv, Exits
<1> QED
  BY <1>3, <1>5, <1>6, <1>7 DEF Inv

(* The handler.                                                             *)

LEMMA EntryStep ==
  ASSUME Inv, AsmVmexitHandler
  PROVE  Inv'
<1> USE DEF cpuVars, eventVars, stepVars
<1>1. TypeOK'
  BY DEF Inv, TypeOK, AsmVmexitHandler
<1>2. EventInv' /\ EffectInv' /\ ExitInv' /\ FrameInv'
  BY DEF Inv, EventInv, EffectInv, ExitInv, FrameInv, RootFaultsKnown, AsmVmexitHandler
<1>3. RegisterInv'
  BY DEF Inv, RegisterInv, GuestHasItsRegisters, LostByExit, AsmVmexitHandler
<1> QED
  BY <1>1, <1>2, <1>3 DEF Inv

\* The VM-entry fields at the end of a handler that injects nothing ...
LEMMA Reinjected ==
  ASSUME Inv
  PROVE  LET e == ReinjectEventFromIdtVectoring(ClearPendingInjection)
         IN  /\ e \in [event : Events \cup {None}, code : BOOLEAN, length : BOOLEAN]
             /\ e.event = vectoring
             /\ e.event # None => /\ e.code <=> e.event \in WithCode
                                  /\ e.length <=> e.event \in Software
  BY DEF Inv, TypeOK, ReinjectEventFromIdtVectoring, ClearPendingInjection, NoEntry

\* ... and of one that injects a fault.
LEMMA Injected ==
  ASSUME NEW e \in WithCode
  PROVE  LET f == ReinjectEventFromIdtVectoring(InjectInterruption(e))
         IN  /\ f \in [event : Events \cup {None}, code : BOOLEAN, length : BOOLEAN]
             /\ f.event = e
             /\ f.code = TRUE /\ f.length = FALSE
             /\ e \notin Software
  BY VmExitsAssumption
  DEF ReinjectEventFromIdtVectoring, InjectInterruption, WithCode, Events, Software

\* What XSETBV is emulated with is supported.
LEMMA AcceptedMask ==
  ASSUME NEW i, Accepted(i), i.kind = "xsetbv"
  PROVE  MaskOf[i.arg] \subseteq Supported
  BY DEF Accepted, EmulateXsetbv

LEMMA EmulatedStep ==
  ASSUME Inv, HandleInstruction
  PROVE  Inv'
<1> USE DEF stepVars, Finish
<1>1. /\ insn \in Instructions /\ effects = 0 /\ vectoring = None
  BY DEF Inv, EffectInv, HandleInstruction
<1>2. /\ mode' = "resume" /\ skip' = TRUE /\ effects' = 1
      /\ entry' = ReinjectEventFromIdtVectoring(ClearPendingInjection)
      /\ xcr0' = IF insn.kind = "xsetbv" THEN MaskOf[insn.arg] ELSE xcr0
      /\ UNCHANGED <<insn, vectoring, owed, reason, trap, stepped, open, frame, host,
                     changed>>
  BY <1>1 DEF HandleInstruction
<1>3. xcr0' \subseteq Supported
  BY <1>1, <1>2, AcceptedMask DEF Inv, TypeOK, HandleInstruction
<1>4. TypeOK'
  BY <1>2, <1>3, Reinjected DEF Inv, TypeOK
<1>5. EventInv'
  BY <1>2, Reinjected DEF Inv, EventInv, HandleInstruction
<1>6. EffectInv' /\ ExitInv' /\ FrameInv'
  BY <1>1, <1>2, Reinjected
  DEF Inv, EffectInv, ExitInv, FrameInv, RootFaultsKnown, HandleInstruction
<1>7. RegisterInv'
  BY <1>2, RegistersKept DEF Inv, HandleInstruction
<1> QED
  BY <1>4, <1>5, <1>6, <1>7 DEF Inv

LEMMA InjectStep ==
  ASSUME Inv, RefuseInstruction \/ BlockAccess
  PROVE  Inv'
<1> USE DEF stepVars, regVars, Finish
<1>1. PICK e \in WithCode :
        /\ mode = "handler"
        /\ mode' = "resume" /\ skip' = FALSE /\ owed' = e
        /\ entry' = ReinjectEventFromIdtVectoring(InjectInterruption(e))
        /\ UNCHANGED <<insn, effects, vectoring, reason, trap, stepped, open, xcr0,
                       frame, host, changed>>
  BY DEF RefuseInstruction, BlockAccess, WithCode
<1>2. TypeOK'
  BY <1>1, Injected DEF Inv, TypeOK, Events
<1>3. EventInv'
  BY <1>1, Injected DEF EventInv
<1>4. EffectInv' /\ ExitInv' /\ RegisterInv' /\ FrameInv'
  BY <1>1, RegistersKept DEF Inv, EffectInv, ExitInv, FrameInv, RootFaultsKnown
<1> QED
  BY <1>2, <1>3, <1>4 DEF Inv

LEMMA AccessStep ==
  ASSUME Inv, AllowAccess \/ HandleTrap
  PROVE  Inv'
<1> USE DEF regVars, Finish
<1>1. /\ mode = "handler"
      /\ mode' = "resume" /\ skip' = FALSE
      /\ entry' = ReinjectEventFromIdtVectoring(ClearPendingInjection)
      /\ trap' \in BOOLEAN /\ open' = trap'
      /\ UNCHANGED <<insn, effects, vectoring, owed, reason, stepped, xcr0, frame, host,
                     changed>>
  BY DEF AllowAccess, HandleTrap
<1>2. TypeOK'
  BY <1>1, Reinjected DEF Inv, TypeOK
<1>3. EventInv'
  BY <1>1, Reinjected DEF Inv, EventInv
<1>4. EffectInv' /\ ExitInv' /\ RegisterInv' /\ FrameInv'
  BY <1>1, RegistersKept DEF Inv, EffectInv, ExitInv, FrameInv, RootFaultsKnown
<1> QED
  BY <1>2, <1>3, <1>4 DEF Inv

\* The handler's own faults are the ones that are known.
LEMMA FaultStep ==
  ASSUME Inv, FaultInRoot \/ XrstorFaults
  PROVE  Inv'
<1> USE DEF cpuVars, eventVars, stepVars, regVars
<1>1. TypeOK'
  BY DEF Inv, TypeOK, FaultInRoot, XrstorFaults
<1>2. EventInv' /\ EffectInv' /\ ExitInv' /\ RegisterInv'
  BY RegistersKept DEF Inv, EventInv, EffectInv, ExitInv, FaultInRoot, XrstorFaults
<1>3. ASSUME FaultInRoot PROVE FrameInv'
  <2>1. insn \in Instructions /\ mode' = "stopped" /\ UNCHANGED <<insn, frame, xcr0>>
    BY <1>3 DEF Inv, EffectInv, FaultInRoot
  <2>2. CASE insn \in Refused
    <3>1. insn.kind \in {"rdmsr", "wrmsr"}
      BY <2>2, VmExitsAssumption
    <3>2. IsValidMsr(insn.arg)
      BY <1>3, <3>1 DEF FaultInRoot, Accepted
    <3>3. Exits(insn)
      BY <1>3 DEF Inv, ExitInv, FaultInRoot
    <3>4. insn.arg \in Synthetic \/ "msr bitmap" \notin Controls
      BY <3>1, <3>2, <3>3 DEF Exits, IsValidMsr, IsHyperVSyntheticMsr
    <3> QED
      BY <2>1, <2>2, <3>4 DEF FrameInv, RootFaultsKnown
  <2>3. CASE insn \notin Refused
    <3>1. /\ insn.kind = "xsetbv"
          /\ EmulateXsetbv(insn.arg) /\ ~LegalXcr0(MaskOf[insn.arg])
      BY <1>3, <2>3 DEF FaultInRoot, FaultsInRoot, Accepted
    <3>2. \/ \E f \in Features : MaskOf[insn.arg] \cap f \notin {{}, f}
          \/ MaskOf[insn.arg] \cap Avx512 # {} /\ "avx" \notin MaskOf[insn.arg]
      BY <3>1 DEF EmulateXsetbv, LegalXcr0
    <3> QED
      BY <2>1, <3>1, <3>2 DEF FrameInv, RootFaultsKnown
  <2> QED
    BY <2>2, <2>3
<1>4. ASSUME XrstorFaults PROVE FrameInv'
  <2>1. mode' = "stopped" /\ UNCHANGED <<insn, frame>>
    BY <1>4 DEF XrstorFaults
  <2>2. insn.kind = "xsetbv" /\ ~(frame \subseteq MaskOf[insn.arg])
    BY <1>4 DEF Inv, FrameInv, XrstorFaults
  <2>3. RootFaultsKnown'
    BY <2>1, <2>2 DEF RootFaultsKnown
  <2> QED
    BY <2>1, <2>3 DEF FrameInv
<1> QED
  BY <1>1, <1>2, <1>3, <1>4 DEF Inv

LEMMA ResumeStep ==
  ASSUME Inv, VmResume
  PROVE  Inv'
<1>1. /\ mode = "resume" /\ mode' = "guest" /\ frame' = {}
      /\ host' = host \ (PoppedByHandler \cup LoadedByEntry)
      /\ insn' = IF skip \/ entry.event # None THEN None ELSE insn
      /\ vectoring' = entry.event
      /\ stepped' = FALSE /\ reason' = "none"
      /\ UNCHANGED <<effects, skip, entry, owed, trap, open, xcr0, changed>>
  BY DEF VmResume
<1>2. TypeOK'
  BY <1>1 DEF Inv, TypeOK, Reasons
<1>3. EventInv'
  BY <1>1 DEF Inv, EventInv
<1>4. EffectInv' /\ ExitInv'
  BY <1>1 DEF Inv, TypeOK, EffectInv, ExitInv
<1>5. RegisterInv'
  <2>1. host = LostByExit \cup UsedByHandler
    BY <1>1 DEF Inv, RegisterInv
  <2>2. CASE {"save debug", "load debug"} \subseteq Controls
    <3>1. host' = {}
      BY <1>1, <2>1, <2>2 DEF LostByExit, UsedByHandler, PoppedByHandler, LoadedByEntry
    <3> QED
      BY <1>1, <3>1 DEF RegisterInv, GuestHasItsRegisters
  <2>3. CASE ~({"save debug", "load debug"} \subseteq Controls)
    <3>1. host' = LostByExit \cap {"debug"}
      BY <1>1, <2>1, <2>3 DEF LostByExit, UsedByHandler, PoppedByHandler, LoadedByEntry
    <3>2. host' \subseteq changed' \cap {"debug"}
      BY <1>1, <3>1 DEF LostByExit, Captured
    <3> QED
      BY <1>1, <2>3, <3>2 DEF RegisterInv, GuestHasItsRegisters
  <2> QED
    BY <2>2, <2>3
<1>6. FrameInv'
  BY <1>1 DEF Inv, TypeOK, FrameInv, RootFaultsKnown
<1> QED
  BY <1>2, <1>3, <1>4, <1>5, <1>6 DEF Inv

(* Leaving VMX operation.                                                   *)

LEMMA LeaveStep ==
  ASSUME Inv, VmxVmxoff \/ AsmVmxoffHandler \/ ReturnFromVmcall
  PROVE  Inv'
<1> USE DEF cpuVars, eventVars, stepVars
<1>1. CASE VmxVmxoff
  <2>1. effects = 0
    BY <1>1 DEF Inv, EffectInv, VmxVmxoff
  <2>2. TypeOK'
    BY <1>1, <2>1 DEF Inv, TypeOK, VmxVmxoff, ClearPendingInjection, NoEntry
  <2>3. EventInv' /\ EffectInv' /\ ExitInv' /\ FrameInv'
    BY <1>1, <2>1
    DEF Inv, EventInv, EffectInv, ExitInv, FrameInv, RootFaultsKnown, VmxVmxoff
  <2>4. RegisterInv'
    BY <1>1 DEF Inv, RegisterInv, GuestHasItsRegisters, LostByExit, VmxVmxoff
  <2> QED
    BY <2>2, <2>3, <2>4 DEF Inv
<1>2. CASE AsmVmxoffHandler
  <2>1. TypeOK'
    BY <1>2 DEF Inv, TypeOK, AsmVmxoffHandler
  <2>2. /\ mode = "vmxoff" /\ mode' = "left" /\ changed' = changed
        /\ host' = host \ (PoppedByHandler \cup {"rsp", "rip"})
    BY <1>2 DEF AsmVmxoffHandler
  <2>3. host = (LostByExit \cup UsedByHandler) \ (RestoreRegisters \cup {"cr3"})
    BY <2>2 DEF Inv, RegisterInv
  <2>4. host' = {"selectors", "rflags"} \cup (changed' \cap LeftByVmxoff)
    BY <2>2, <2>3
    DEF LostByExit, LoadedByExit, Captured, UsedByHandler, PoppedByHandler,
        RestoreRegisters, LeftByVmxoff
  <2>5. RegisterInv'
    BY <2>2, <2>4 DEF RegisterInv, GuestHasItsRegisters
  <2>6. EventInv' /\ EffectInv' /\ ExitInv' /\ FrameInv'
    BY <1>2
    DEF Inv, EventInv, EffectInv, ExitInv, FrameInv, RootFaultsKnown, AsmVmxoffHandler
  <2> QED
    BY <2>1, <2>5, <2>6 DEF Inv
<1>3. CASE ReturnFromVmcall
  <2>1. TypeOK'
    BY <1>3 DEF Inv, TypeOK, ReturnFromVmcall
  <2>2. EventInv' /\ EffectInv' /\ ExitInv' /\ FrameInv'
    BY <1>3
    DEF Inv, EventInv, EffectInv, ExitInv, FrameInv, RootFaultsKnown, ReturnFromVmcall
  <2>3. RegisterInv'
    BY <1>3 DEF Inv, RegisterInv, GuestHasItsRegisters, LeftByVmxoff, ReturnFromVmcall
  <2> QED
    BY <2>1, <2>2, <2>3 DEF Inv
<1> QED
  BY <1>1, <1>2, <1>3

LEMMA NextStep == Inv /\ [Next]_vars => Inv'
<1> SUFFICES ASSUME Inv, [Next]_vars PROVE Inv'
  OBVIOUS
<1>1. CASE Guest
  BY <1>1, FetchStep, RetireStep, ExitStep DEF Guest
<1>2. CASE Handler
  BY <1>2, EntryStep, EmulatedStep, InjectStep, AccessStep, FaultStep, ResumeStep,
     LeaveStep
  DEF Handler
<1>3. CASE \E e \in Raised : Raise(e)
  BY <1>3, RaiseStep
<1> QED
  BY <1>1, <1>2, <1>3, StutterStep DEF Next

LEMMA InvHolds == Spec => []Inv
  BY InitInv, NextStep, PTL DEF Spec

\* The state of a processor and of its exit keeps its shape.
THEOREM StateIsTyped == Spec => []TypeOK
<1>1. Inv => TypeOK
  BY DEF Inv
<1> QED
  BY <1>1, InvHolds, PTL

\* In the guest, the event in delivery is the one it is owed, through any number of
\* exits during its delivery, and VM entry gets the fields of the event it injects
\* (EventInjection.cpp:67-89, 138-157, VmexitHandler.cpp:253-260).
THEOREM EventsStayOwed == Spec => []EventOwed
<1>1. Inv => EventOwed
  BY DEF Inv, EventInv, EventOwed
<1> QED
  BY <1>1, InvHolds, PTL

\* An instruction is emulated and skipped, or it is executed or faults, and never
\* both (VmexitHandler.cpp:126-257).
THEOREM InstructionsOnce == Spec => []InstructionOnce
<1>1. Inv => InstructionOnce
  BY DEF Inv, TypeOK, EffectInv, ExitInv, InstructionOnce
<1> QED
  BY <1>1, InvHolds, PTL

\* Which registers have a host value when the guest runs again (DR7 and DEBUGCTL at
\* most) and after VMXOFF (selectors, and what the guest has loaded since the launch
\* into those that VMXOFF leaves alone), whatever the guest does (Vmx.cpp:267-415,
\* 429-455, AsmVmexitHandler.asm:28-202, VmxHelper.cpp:439-462).
THEOREM RegistersReturn == Spec => []GuestHasItsRegisters
<1>1. Inv => GuestHasItsRegisters
  BY DEF Inv, RegisterInv, GuestHasItsRegisters
<1> QED
  BY <1>1, InvHolds, PTL

\* Whatever the processor refuses: a fault in root mode comes from an access to a
\* synthetic MSR, or from an XCR0 that breaks a rule EmulateXsetbv does not check
\* (VmexitHandler.cpp:45-98, RegistersHandler.cpp:143-196).
THEOREM RootFaultsAreKnown == Spec => []RootFaultsKnown
<1>1. Inv => RootFaultsKnown
  BY DEF Inv, FrameInv
<1> QED
  BY <1>1, InvHolds, PTL
=============================================================================

-------------------------- MODULE DeviceControlProofs --------------------------
(***************************************************************************)
(* What a broadcast leaves behind, for any clients, processors, addresses  *)
(* and frames: processors agree, and the status tells what was done.       *)
(*                                                                         *)
(* Neither is inductive: half of a broadcast is a state in which           *)
(* processors differ.  Half says how.                                      *)
(***************************************************************************)
EXTENDS DeviceControl, TLAPS

\* A broadcast is its caller's, has a processor, and asks for a kernel page.
CallInv ==
    /\ \A k \in Clients :
         /\ pc[k] = "broadcast" <=> caller = k
         /\ pc[k] \in {"driver", "waiting", "broadcast"} => ask[k] \in Asks
         /\ pc[k] \in {"waiting", "broadcast"} => ask[k].va \in KernelPages
    /\ caller = None => todo = {}
    /\ caller # None => home \in Cpus

\* All processors do the same for an address.
Agreed(va) ==
    \A c, d \in Cpus :
        /\ va \in Protected(c) <=> va \in Protected(d)
        /\ va \in Protected(c) => guard[c][va].perms = guard[d][va].perms

\* A broadcast has protected an address on the processors it is done with.
HalfProtected(va, perms) ==
    /\ \A c \in todo : va \notin Protected(c)
    /\ \A c \in Cpus \ todo : va \in Protected(c) /\ guard[c][va].perms = perms

Asked(va, op) == caller # None /\ ask[caller].va = va /\ ask[caller].op = op

Half ==
    \A va \in KernelPages :
        /\ Asked(va, "unprotect") => \A c \in Cpus \ todo : va \notin Protected(c)
        /\ Asked(va, "protect") /\ va \notin denied =>
             \/ Agreed(va) /\ \A c \in Cpus : va \in Protected(c)
             \/ HalfProtected(va, ask[caller].perms)
        /\ caller = None \/ ask[caller].va # va => va \in denied \/ Agreed(va)

\* A record holds the frame of its address.
FramesHeld == \A c \in Cpus : \A va \in Protected(c) \ moved :
                  guard[c][va].frame = mapped[va]

\* Success is the caller's processor's.
HomeInv ==
    /\ caller # None /\ ask[caller].op = "protect" /\ home \notin todo
    /\ status[caller] = "success"
    => ask[caller].va \in Protected(home)

Inv == TypeOK /\ CallInv /\ Half /\ FramesHeld /\ HomeInv

LEMMA InitInv == Init => Inv
  BY DeviceAssumption
  DEF Init, Inv, TypeOK, CallInv, Half, Asked, Agreed, FramesHeld, HomeInv, Protected

(* Steps of a client's thread leave guards and frames alone.                *)

LEMMA ThreadType ==
  ASSUME Inv, NEW k \in Clients, ProtectAddressRange(k) \/ Thread(k)
  PROVE  TypeOK'
<1> USE DEF Inv, TypeOK
<1>1. ProtectAddressRange(k) => TypeOK'
  BY DEF ProtectAddressRange, ipiVars
<1>2. NovaDeviceControl(k) => TypeOK'
  BY DEF NovaDeviceControl, ipiVars
<1>3. KeIpiGenericCall(k) => TypeOK'
  BY DEF KeIpiGenericCall
<1>4. EndOfCall(k) => TypeOK'
  BY DEF EndOfCall
<1>5. IoCompleteRequest(k) => TypeOK'
  BY DEF IoCompleteRequest, ipiVars
<1>6. Exit(k) => TypeOK'
  BY DEF Exit, ipiVars
<1> QED
  BY <1>1, <1>2, <1>3, <1>4, <1>5, <1>6 DEF Thread

\* Outside a broadcast.
LEMMA ThreadStep ==
  ASSUME Inv, NEW k \in Clients,
         \/ ProtectAddressRange(k) \/ NovaDeviceControl(k)
         \/ IoCompleteRequest(k) \/ Exit(k)
  PROVE  Inv'
<1>1. TypeOK'
  BY ThreadType DEF Thread
<1>2. /\ pc[k] # "broadcast" /\ pc'[k] # "broadcast"
      /\ \A j \in Clients \ {k} :
           pc'[j] = pc[j] /\ ask'[j] = ask[j] /\ status'[j] = status[j]
      /\ UNCHANGED <<caller, home, todo, mapped, guard, denied, moved>>
  BY DEF Inv, TypeOK, ProtectAddressRange, NovaDeviceControl, IoCompleteRequest,
         Exit, ipiVars
<1>3. /\ pc'[k] \in {"driver", "waiting"} => ask'[k] \in Asks
      /\ pc'[k] = "waiting" => ask'[k].va \in KernelPages
  BY DEF Inv, TypeOK, CallInv, ProtectAddressRange, NovaDeviceControl,
         IoCompleteRequest, Exit, Acceptable
<1>4. CallInv'
  BY <1>2, <1>3, DeviceAssumption DEF Inv, TypeOK, CallInv
<1>5. caller # None => /\ caller \in Clients \ {k}
                       /\ ask'[caller] = ask[caller]
                       /\ status'[caller] = status[caller]
  BY <1>2 DEF Inv, TypeOK, CallInv
<1>6. Half' /\ FramesHeld' /\ HomeInv'
  BY <1>2, <1>5
  DEF Inv, Half, Asked, Agreed, HalfProtected, FramesHeld, HomeInv, Protected
<1> QED
  BY <1>1, <1>4, <1>6 DEF Inv

\* Before it, all agree; nobody is done yet.
LEMMA BroadcastBegins ==
  ASSUME Inv, NEW k \in Clients, KeIpiGenericCall(k)
  PROVE  Inv'
<1>1. TypeOK'
  BY ThreadType DEF Thread
<1>2. CallInv'
  BY DeviceAssumption DEF Inv, TypeOK, CallInv, KeIpiGenericCall
<1>3. Half'
  <2>1. \A va \in KernelPages : va \in denied \/ Agreed(va)
    BY DEF Inv, Half, KeIpiGenericCall
  <2> QED
    BY <2>1 DEF Half, Asked, Agreed, HalfProtected, Protected, KeIpiGenericCall
<1>4. FramesHeld' /\ HomeInv'
  BY <1>2 DEF Inv, FramesHeld, HomeInv, Protected, KeIpiGenericCall
<1> QED
  BY <1>1, <1>2, <1>3, <1>4 DEF Inv

\* At its end all agree again.
LEMMA BroadcastEnds ==
  ASSUME Inv, NEW k \in Clients, EndOfCall(k)
  PROVE  Inv'
<1>1. TypeOK'
  BY ThreadType DEF Thread
<1>2. caller = k /\ ask[k] \in Asks
  BY DEF Inv, CallInv, EndOfCall
<1>3. CallInv'
  BY <1>2, DeviceAssumption DEF Inv, TypeOK, CallInv, EndOfCall
<1>4. \A va \in KernelPages : va \in denied \/ Agreed(va)
  <2>1. ask[k].op \in {"protect", "unprotect"}
    BY <1>2 DEF Asks
  <2> QED
    BY <1>2, <2>1, DeviceAssumption
    DEF Inv, Half, Asked, Agreed, HalfProtected, EndOfCall
<1>5. Half' /\ FramesHeld' /\ HomeInv'
  BY <1>4 DEF Inv, Half, Asked, Agreed, FramesHeld, HomeInv, Protected, EndOfCall
<1> QED
  BY <1>1, <1>3, <1>5 DEF Inv

(* The processors.                                                          *)

\* A worker runs for a caller, who asked for a kernel page.
LEMMA WorkerCaller ==
  ASSUME Inv, NEW c \in Cpus, Worker(c)
  PROVE  /\ caller \in Clients /\ caller # None
         /\ ask[caller] \in Asks /\ ask[caller].va \in KernelPages
         /\ home \in Cpus
<1>1. c \in todo
  BY DEF Worker, HookPageByVmcall, UnhookPageByVmcall
<1> QED
  BY <1>1 DEF Inv, TypeOK, CallInv

LEMMA HookStep ==
  ASSUME Inv, NEW c \in Cpus, HookPageByVmcall(c)
  PROVE  Inv'
<1> DEFINE a == ask[caller]
           Leaves == /\ a.va \in Protected(c)
                     /\ Result(c, "success")
                     /\ UNCHANGED <<guard, denied>>
           Installs == /\ a.va \notin Protected(c)
                       /\ mapped[a.va] # None
                       /\ guard' = [guard EXCEPT ![c][a.va] =
                                       [frame |-> mapped[a.va], perms |-> a.perms]]
                       /\ Result(c, "success")
                       /\ UNCHANGED denied
           Denies == /\ a.va \notin Protected(c)
                     /\ denied' = denied \cup {a.va}
                     /\ Result(c, "unsuccessful")
                     /\ UNCHANGED guard
<1>1. /\ caller \in Clients /\ caller # None
      /\ a \in Asks /\ a.op = "protect" /\ a.va \in KernelPages /\ home \in Cpus
  BY WorkerCaller DEF Worker, HookPageByVmcall
<1>2. /\ a.perms \in Permissions
      /\ c \in todo /\ todo' = todo \ {c} /\ todo \subseteq Cpus
      /\ UNCHANGED <<pc, ask, caller, home, mapped, moved>>
  BY <1>1 DEF Asks, HookPageByVmcall, Inv, TypeOK
<1>3. Leaves \/ Installs \/ Denies
  BY DEF HookPageByVmcall, IsHookExists
<1>4. TypeOK'
  <2>1. status' \in [Clients -> {"success", "invalid", "unsuccessful"}]
    BY <1>1, <1>3 DEF Inv, TypeOK, Result
  <2>2. guard' \in [Cpus -> [KernelPages -> Records \cup {None}]]
    <3>1. CASE UNCHANGED guard
      BY <3>1 DEF Inv, TypeOK
    <3>2. CASE Installs
      <4>1. [frame |-> mapped[a.va], perms |-> a.perms] \in Records
        BY <3>2, <1>1, <1>2 DEF Inv, TypeOK, Records
      <4> QED
        BY <3>2, <4>1, <1>1 DEF Inv, TypeOK
    <3> QED
      BY <3>1, <3>2, <1>3
  <2>3. denied' \subseteq KernelPages
    BY <1>1, <1>3 DEF Inv, TypeOK
  <2> QED
    BY <1>2, <2>1, <2>2, <2>3 DEF Inv, TypeOK
<1>5. CallInv'
  BY <1>1, <1>2 DEF Inv, CallInv
<1>6. \A d \in Cpus, va \in KernelPages : d # c \/ va # a.va =>
        /\ guard'[d][va] = guard[d][va]
        /\ va \in Protected(d)' <=> va \in Protected(d)
  BY <1>1, <1>3 DEF Inv, TypeOK, Protected
<1>7. a.va \in Protected(c) =>
        guard'[c][a.va] = guard[c][a.va] /\ a.va \in Protected(c)'
  BY <1>3 DEF Protected
<1>8. Installs => /\ guard'[c][a.va] = [frame |-> mapped[a.va], perms |-> a.perms]
                  /\ a.va \in Protected(c)'
  <2> SUFFICES ASSUME Installs
               PROVE  /\ guard'[c][a.va] =
                            [frame |-> mapped[a.va], perms |-> a.perms]
                      /\ a.va \in Protected(c)'
    OBVIOUS
  <2>1. /\ mapped[a.va] \in Frames
        /\ guard'[c][a.va] = [frame |-> mapped[a.va], perms |-> a.perms]
    BY <1>1 DEF Inv, TypeOK
  <2>2. guard'[c][a.va] # None
    BY <1>2, <2>1, DeviceAssumption
  <2> QED
    BY <1>1, <2>1, <2>2 DEF Protected
<1>9. denied \subseteq denied' /\ denied' \subseteq denied \cup {a.va}
  BY <1>3
<1>10. Half'
  <2> SUFFICES ASSUME NEW va \in KernelPages
               PROVE  /\ Asked(va, "unprotect")' =>
                           \A d \in Cpus \ todo' : va \notin Protected(d)'
                      /\ Asked(va, "protect")' /\ va \notin denied' =>
                           \/ Agreed(va)' /\ \A d \in Cpus : va \in Protected(d)'
                           \/ HalfProtected(va, a.perms)'
                      /\ caller = None \/ a.va # va => va \in denied' \/ Agreed(va)'
    BY <1>2 DEF Half
  <2>1. CASE va # a.va
    <3>1. va \in denied \/ Agreed(va)
      BY <2>1 DEF Inv, Half
    <3>2. va \in denied' \/ Agreed(va)'
      BY <2>1, <3>1, <1>6, <1>9 DEF Agreed
    <3> QED
      BY <2>1, <3>2, <1>2 DEF Asked
  <2>2. CASE va = a.va /\ va \in denied'
    BY <1>1, <1>2, <2>2 DEF Asked
  <2>3. CASE va = a.va /\ va \notin denied'
    <3>1. \/ Agreed(va) /\ \A d \in Cpus : va \in Protected(d)
          \/ HalfProtected(va, a.perms)
      BY <2>3, <1>1, <1>9 DEF Inv, Half, Asked
    <3>2. CASE va \in Protected(c)
      <4>1. Agreed(va) /\ \A d \in Cpus : va \in Protected(d)
        BY <3>1, <3>2, <1>2 DEF HalfProtected
      <4>2. \A d \in Cpus : /\ guard'[d][va] = guard[d][va]
                            /\ va \in Protected(d)'
        BY <2>3, <3>2, <4>1, <1>6, <1>7
      <4>3. Agreed(va)'
        BY <4>1, <4>2 DEF Agreed
      <4> QED
        BY <2>3, <4>2, <4>3, <1>1, <1>2 DEF Asked
    <3>3. CASE va \notin Protected(c)
      <4>1. HalfProtected(va, a.perms)
        BY <3>1, <3>3
      <4>2. va \in Protected(c)' /\ guard'[c][va].perms = a.perms
        BY <2>3, <3>3, <1>3, <1>8
      <4>3. HalfProtected(va, a.perms)'
        BY <2>3, <4>1, <4>2, <1>2, <1>6 DEF HalfProtected
      <4> QED
        BY <2>3, <4>3, <1>1, <1>2 DEF Asked
    <3> QED
      BY <3>2, <3>3
  <2> QED
    BY <2>1, <2>2, <2>3
<1>11. FramesHeld'
  <2> SUFFICES ASSUME NEW d \in Cpus, NEW va \in KernelPages,
                      va \in Protected(d)', va \notin moved
               PROVE  guard'[d][va].frame = mapped[va]
    BY <1>2 DEF FramesHeld, Protected
  <2>1. CASE d # c \/ va # a.va \/ va \in Protected(c)
    BY <2>1, <1>6, <1>7 DEF Inv, FramesHeld
  <2>2. CASE d = c /\ va = a.va /\ va \notin Protected(c)
    <3>1. Installs \/ (Denies /\ va \notin Protected(d)')
      BY <2>2, <1>3 DEF Protected
    <3> QED
      BY <2>2, <3>1, <1>8
  <2> QED
    BY <2>1, <2>2
<1>12. HomeInv'
  <2>1. CASE home # c
    BY <2>1, <1>1, <1>2, <1>3, <1>6 DEF Inv, HomeInv, Result, TypeOK
  <2>2. CASE home = c
    <3>1. CASE Leaves
      BY <3>1, <2>2, <1>1, <1>2, <1>7 DEF HomeInv
    <3>2. CASE Installs
      BY <3>2, <2>2, <1>1, <1>2, <1>8 DEF HomeInv
    <3>3. CASE Denies
      <4>1. status'[caller] = "unsuccessful"
        BY <3>3, <2>2, <1>1 DEF Inv, TypeOK, Result
      <4> QED
        BY <4>1, <1>2 DEF HomeInv
    <3> QED
      BY <3>1, <3>2, <3>3, <1>3
  <2> QED
    BY <2>1, <2>2
<1> QED
  BY <1>4, <1>5, <1>10, <1>11, <1>12 DEF Inv

LEMMA UnhookStep ==
  ASSUME Inv, NEW c \in Cpus, UnhookPageByVmcall(c)
  PROVE  Inv'
<1> DEFINE va == ask[caller].va
<1>1. /\ caller \in Clients /\ caller # None
      /\ ask[caller] \in Asks /\ ask[caller].op = "unprotect"
      /\ va \in KernelPages /\ home \in Cpus
  BY WorkerCaller DEF Worker, UnhookPageByVmcall
<1>2. /\ c \in todo /\ todo' = todo \ {c}
      /\ guard' = [guard EXCEPT ![c][va] = None]
      /\ Result(c, "success") \/ Result(c, "unsuccessful")
      /\ denied' = IF todo' = {} THEN denied \ {va} ELSE denied
      /\ moved' = IF todo' = {} THEN moved \ {va} ELSE moved
      /\ UNCHANGED <<pc, ask, caller, home, mapped>>
  BY DEF UnhookPageByVmcall
<1>3. TypeOK'
  <2>1. status' \in [Clients -> {"success", "invalid", "unsuccessful"}]
    BY <1>1, <1>2 DEF Inv, TypeOK, Result
  <2>2. guard' \in [Cpus -> [KernelPages -> Records \cup {None}]]
    BY <1>1, <1>2 DEF Inv, TypeOK
  <2> QED
    BY <1>2, <2>1, <2>2 DEF Inv, TypeOK
<1>4. CallInv'
  BY <1>1, <1>2 DEF Inv, CallInv
<1>5. /\ va \notin Protected(c)'
      /\ \A d \in Cpus, p \in KernelPages : d # c \/ p # va =>
           /\ guard'[d][p] = guard[d][p]
           /\ p \in Protected(d)' <=> p \in Protected(d)
  BY <1>1, <1>2 DEF Inv, TypeOK, Protected
<1>6. \A d \in Cpus \ todo' : va \notin Protected(d)'
  BY <1>1, <1>2, <1>5 DEF Inv, Half, Asked
<1>7. Half'
  <2>1. \A p \in KernelPages \ {va} : p \in denied' \/ Agreed(p)'
    BY <1>2, <1>5 DEF Inv, Half, Agreed
  <2> QED
    BY <2>1, <1>1, <1>2, <1>6 DEF Half, Asked
<1>8. FramesHeld'
  <2> SUFFICES ASSUME NEW d \in Cpus, NEW p \in KernelPages,
                      p \in Protected(d)', p \notin moved'
               PROVE  guard'[d][p].frame = mapped[p]
    BY <1>2 DEF FramesHeld, Protected
  <2>1. CASE p = va
    <3>1. d # c /\ todo' # {}
      BY <2>1, <1>5, <1>6
    <3> QED
      BY <2>1, <3>1, <1>2, <1>5 DEF Inv, FramesHeld
  <2>2. CASE p # va
    BY <2>2, <1>2, <1>5 DEF Inv, FramesHeld
  <2> QED
    BY <2>1, <2>2
<1>9. HomeInv'
  BY <1>1, <1>2 DEF HomeInv
<1> QED
  BY <1>3, <1>4, <1>7, <1>8, <1>9 DEF Inv

LEMMA RemapStep ==
  ASSUME Inv, NEW va \in KernelPages, Remap(va)
  PROVE  Inv'
<1>1. TypeOK'
  BY DEF Inv, TypeOK, Remap, clientVars, ipiVars
<1>2. UNCHANGED <<pc, ask, status, caller, home, todo, guard, denied>>
  BY DEF Remap, clientVars, ipiVars
<1>3. CallInv' /\ Half' /\ HomeInv'
  BY <1>2 DEF Inv, CallInv, Half, Asked, Agreed, HalfProtected, HomeInv, Protected
<1>4. FramesHeld'
  BY <1>2
  DEF Inv, TypeOK, FramesHeld, Protected, ProtectedSomewhere, Remap
<1> QED
  BY <1>1, <1>3, <1>4 DEF Inv

LEMMA StutterStep == ASSUME Inv, UNCHANGED vars PROVE Inv'
  BY DEF Inv, vars, clientVars, ipiVars, TypeOK, CallInv, Half, Asked, Agreed,
         HalfProtected, FramesHeld, HomeInv, Protected

LEMMA NextStep == Inv /\ [Next]_vars => Inv'
<1> SUFFICES ASSUME Inv, [Next]_vars PROVE Inv'
  OBVIOUS
<1>1. CASE \E k \in Clients : ProtectAddressRange(k) \/ Thread(k)
  BY <1>1, ThreadStep, BroadcastBegins, BroadcastEnds DEF Thread
<1>2. CASE \E c \in Cpus : Worker(c)
  BY <1>2, HookStep, UnhookStep DEF Worker
<1>3. CASE \E va \in KernelPages : Remap(va)
  BY <1>3, RemapStep
<1> QED
  BY <1>1, <1>2, <1>3, StutterStep DEF Next

LEMMA InvHolds == Spec => []Inv
  BY InitInv, NextStep, PTL DEF Spec

\* Between broadcasts all processors protect the same addresses with the same
\* permissions, but for what one of them could not protect; and a record holds the
\* frame that its address has, unless the address has moved (DeviceControl.cpp:34-69).
THEOREM ProcessorsAgree == Spec => []Uniform
<1>1. Inv => Uniform
  BY DEF Inv, Half, Agreed, FramesHeld, Uniform
<1> QED
  BY <1>1, InvHolds, PTL

\* The status of a broadcast means what it says for the processor of its caller
\* (DeviceControl.cpp:39-69).
THEOREM StatusTells == Spec => []Outcome
<1>1. Inv => Outcome
  <2> SUFFICES ASSUME Inv, caller # None, todo = {} PROVE Outcome
    BY DEF Outcome
  <2>1. /\ caller \in Clients /\ home \in Cpus
        /\ ask[caller] \in Asks /\ ask[caller].va \in KernelPages
    BY DEF Inv, TypeOK, CallInv
  <2>2. CASE ask[caller].op = "unprotect"
    BY <2>1, <2>2 DEF Inv, Half, Asked, Outcome, ProtectedSomewhere
  <2>3. CASE ask[caller].op = "protect"
    BY <2>1, <2>3 DEF Inv, Half, HomeInv, Asked, HalfProtected, Outcome
  <2> QED
    BY <2>1, <2>2, <2>3 DEF Asks
<1> QED
  BY <1>1, InvHolds, PTL
=============================================================================

------------------------------ MODULE PageGuard ------------------------------
(***************************************************************************)
(* What the hooks of Ept.cpp promise to the guest, whatever the tables,    *)
(* records, blocks and TLBs behind it: on every processor each page has    *)
(* the rights that were asked for it, and an access gets those, except     *)
(* that an instruction of the kernel image opens a page it is refused,     *)
(* until the instruction ends.                                             *)
(*                                                                         *)
(* There is room for one open page: opening another one leaves the first   *)
(* with all its rights.  Nothing is promised once it is broken.            *)
(***************************************************************************)
CONSTANTS
    Cpus,
    Pages,
    Mapped,         \* the pages that accesses can reach
    Kinds,          \* the kinds of access
    Instructions,   \* records of an image and the accesses it needs
    Nil

VARIABLES
    guard,    \* cpu -> page -> the rights asked for
    rights,   \* cpu -> page -> the accesses that succeed
    window,   \* cpu -> the open page that is to be closed, or Nil
    insn,     \* cpu -> the instruction in flight, or Nil
    broken    \* whether the promise has ended

vars == <<guard, rights, window, insn, broken>>

Init ==
    /\ guard = [c \in Cpus |-> [p \in Pages |-> IF p \in Mapped THEN Kinds ELSE {}]]
    /\ rights = guard
    /\ window = [c \in Cpus |-> Nil]
    /\ insn = [c \in Cpus |-> Nil]
    /\ broken \in BOOLEAN

Quiet(c) == insn[c] = Nil /\ window[c] = Nil

Ask(c, p, kinds) == guard' = [guard EXCEPT ![c][p] = kinds]
Grant(c, p, kinds) == rights' = [rights EXCEPT ![c][p] = kinds]

\* The rights of a page change at once, with what was asked.
Protect(c, p, kinds) ==
    /\ Quiet(c)
    /\ guard[c][p] = Kinds
    /\ Ask(c, p, kinds)
    /\ Grant(c, p, kinds)
    /\ UNCHANGED <<window, insn>>

Unprotect(c, p) ==
    /\ Quiet(c)
    /\ Ask(c, p, Kinds)
    /\ Grant(c, p, Kinds)
    /\ UNCHANGED <<window, insn>>

Fetch(c) ==
    /\ Quiet(c)
    /\ \E i \in Instructions : insn' = [insn EXCEPT ![c] = i]
    /\ UNCHANGED <<guard, rights, window>>

\* The instruction retires, is refused, or is interrupted.
Leave(c) ==
    /\ insn[c] # Nil
    /\ insn' = [insn EXCEPT ![c] = Nil]
    /\ UNCHANGED <<guard, rights, window>>

\* An emulated instruction of the image leaves its window to the next one.
Emulate(c) ==
    /\ window[c] # Nil /\ insn[c] # Nil /\ insn[c].kernel
    /\ \A a \in insn[c].acc : a[2] \in rights[c][a[1]]
    /\ \E i \in Instructions : i.kernel /\ insn' = [insn EXCEPT ![c] = i]
    /\ UNCHANGED <<guard, rights, window>>

\* The image opens a page that it was refused.
Open(c, p) ==
    /\ insn[c] # Nil /\ insn[c].kernel
    /\ \E a \in insn[c].acc : a[1] = p /\ a[2] \notin rights[c][p]
    /\ p \in Mapped
    /\ Grant(c, p, Kinds)
    /\ window' = [window EXCEPT ![c] = p]
    /\ UNCHANGED <<guard, insn>>

\* The page is closed before another instruction or vmcall.
Close(c) ==
    /\ insn[c] = Nil /\ window[c] # Nil
    /\ Grant(c, window[c], guard[c][window[c]])
    /\ window' = [window EXCEPT ![c] = Nil]
    /\ UNCHANGED <<guard, insn>>

Break == broken'

Step(c) ==
    \/ \E p \in Mapped, kinds \in SUBSET Kinds : Protect(c, p, kinds)
    \/ \E p \in Mapped : Unprotect(c, p) \/ Open(c, p)
    \/ Fetch(c) \/ Leave(c) \/ Emulate(c) \/ Close(c)

Next == Break \/ (~broken /\ UNCHANGED broken /\ \E c \in Cpus : Step(c))

Spec == Init /\ [][Next]_vars
=============================================================================

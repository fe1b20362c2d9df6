------------------------------ MODULE MCVmExits ------------------------------
(* The exits that the handler has a case for; MSRs that refuse an access in  *)
(* each way, and masks of XCR0 that differ in what is checked, and by whom.  *)
EXTENDS VmExits

Of(kind, args) == {[kind |-> kind, arg |-> a] : a \in args}

PassedOn == {"hypercall msr", "vp index", "eoi", "crash", "hypercall msr, bad value"}

EveryInstruction ==
    UNION {Of(k, {"-"}) : k \in {"plain", "cpuid", "invd", "hlt", "vmx", "vmcall",
                                 "hypercall", "vmxoff"}}
    \cup Of("load", {"cr4", "gdtr", "debug"})
    \cup Of("cr", {"3", "8"})
    \cup Of("rdmsr", {"pat", "unknown", "hypercall msr", "eoi", "crash"})
    \cup Of("wrmsr", {"pat", "unknown", "hypercall msr", "vp index",
                      "hypercall msr, bad value"})
    \cup Of("xsetbv", {"base", "avx", "holes", "bounds", "noAvx", "noSse", "big",
                       "another xcr"})

Refusals ==
    Of("rdmsr", {"unknown", "eoi", "crash"})
    \cup Of("wrmsr", {"unknown", "vp index", "hypercall msr, bad value"})

Masks == [base   |-> {"x87", "sse"},
          avx    |-> {"x87", "sse", "avx"},
          holes  |-> {"x87", "sse", "avx", "zmm"},
          bounds |-> {"x87", "sse", "bndregs"},
          noAvx  |-> {"x87", "sse", "opmask", "zmm", "hi16"},
          noSse  |-> {"x87", "avx"},
          big    |-> {"x87", "sse", "large"}]

Components == {"x87", "sse", "avx", "large"} \cup UNION Features
=============================================================================

------------------------------- MODULE MCKsyms -------------------------------
(***************************************************************************)
(* Instances of Ksyms and KernelProto for TLC: an entry point, a subprogram*)
(* and any of the names the script knows defined and called, on one kernel;*)
(* and one program on kernels whose BTF has the function it calls in       *)
(* vmlinux, in modules or in both, with types of all kinds.                *)
(***************************************************************************)
EXTENDS KernelProto

TheProgs == {"bpf_prog", "subprog"}
TheEntries == {"bpf_prog"}
TheKfuncs == {"bpf_kfunc"}

Helpers == {"bpf_arena_memcmp", "bpf_arena_memcpy"}

Of(definable, callable, parens) ==
    [defines : {{"bpf_prog"} \union d : d \in SUBSET definable},
     paren   : parens,
     calls   : SUBSET callable,
     terms   : SUBSET Terminators]

PlainModules ==
    {m \in Of(Helpers \union {"subprog"},
              {"bpf_kfunc", "memcmp", "memcpy", "llvm.memcpy", "llvm.trap", "bpf_arena_memcpy"}, {{}}) :
        Plain(m)}

\* A library that brings its own memcpy, and copies.
CopyModules == Of({"memcpy"}, {"llvm.memcpy"}, {{}})

\* A subprogram with a tuple among its type arguments.
TupleModules == Of({"subprog"}, {"subprog"}, {{}, {"subprog"}})

------------------------------------------------------------------------------
(* BTF. *)

Type(kind, type) == [kind |-> kind, type |-> type, params |-> <<>>]
Proto(ret, params) == [kind |-> "FUNC_PROTO", type |-> ret, params |-> params]
Func(name, type) == [name |-> name, type |-> type]
File(types, funcs) == [types |-> types, funcs |-> funcs]

\* 1-12 of vmlinux: types of every kind; 21-29: pointers to pointers, nine deep;
\* 30-36: prototypes.
VmlinuxTypes ==
    (1 :> Type("INT", 0)) @@ (2 :> Type("TYPEDEF", 1)) @@ (3 :> Type("STRUCT", 0))
        @@ (4 :> Type("CONST", 3)) @@ (5 :> Type("PTR", 4)) @@ (6 :> Type("FWD", 0))
        @@ (7 :> Type("PTR", 6)) @@ (8 :> Type("PTR", 0)) @@ (9 :> Type("ENUM64", 0))
        @@ (10 :> Type("UNION", 0)) @@ (11 :> Type("ARRAY", 10)) @@ (12 :> Type("PTR", 11))
        @@ [i \in 21..29 |-> Type("PTR", IF i = 29 THEN 1 ELSE i + 1)]
        @@ (30 :> Proto(1, <<8, 2>>)) @@ (31 :> Type("PTR", 30))
        @@ (32 :> Proto(5, <<31, 7, 9, 12>>)) @@ (33 :> Proto(0, <<1, 2>>))
        @@ (34 :> Proto(0, <<8, 8, 2>>)) @@ (35 :> Proto(0, <<23>>)) @@ (36 :> Proto(21, <<>>))
        @@ (37 :> Proto(1, <<8, 8, 2>>)) @@ (38 :> Type("VAR", 1))

Libc == <<Func("memcmp", 37), Func("bpf_throw", 33), Func("bpf_arena_memcpy", 34)>>
Vmlinux(own) == File(VmlinuxTypes, own \o Libc)

\* A module with types of its own, and one that was not linked against vmlinux.
SplitTypes ==
    (101 :> Type("STRUCT", 0)) @@ (102 :> Type("PTR", 101)) @@ (103 :> Proto(102, <<5, 2, 102>>))
        @@ (104 :> Proto(2, <<1, 2>>))
OwnTypes == (1 :> Type("ENUM", 0)) @@ (2 :> Type("PTR", 1)) @@ (5 :> Proto(2, <<1>>))

Arg(type, commas) == [type |-> type, commas |-> commas]
Signature(ret, args) == [plain |-> TRUE, ret |-> ret, args |-> args]

IntsSig == Signature("i32", <<Arg("i32", 0), Arg("i64", 0)>>)
Signatures(kfunc) ==
    ("bpf_kfunc" :> kfunc)
        @@ [n \in Names |->
                CASE n = "bpf_throw" -> Signature("void", <<Arg("i64", 0)>>)
                  [] n = "_Unwind_Resume" -> Signature("void", <<Arg("ptr", 0)>>)
                  [] OTHER -> Signature("void", <<Arg("ptr", 0), Arg("ptr", 0), Arg("i64", 0)>>)]

Built(kfunc, file) == [files |-> file, signatures |-> Signatures(kfunc)]
Kfunc(type) == <<Func("bpf_kfunc", type)>>

PlainBuild == Built(IntsSig, <<Vmlinux(Kfunc(32))>>)

TheBuilds ==
    {PlainBuild}
    \union {Built(IntsSig, <<Vmlinux(Kfunc(type))>>) : type \in {33, 35, 36}}
    \union {Built(sig, <<Vmlinux(<<>>), File(SplitTypes, Kfunc(type)), File(OwnTypes, own)>>) :
              sig \in {IntsSig, Signature("void", <<Arg("i32", 0), Arg("i64", 0)>>),
                       Signature("i32", <<Arg("i32", 0), Arg("i64", 1)>>),
                       [IntsSig EXCEPT !.plain = FALSE]},
              type \in {33, 103, 104}, own \in {<<>>, Kfunc(5)}}
    \union {Built(IntsSig, <<Vmlinux(<<>>), File(OwnTypes, Kfunc(5)), File(SplitTypes, Kfunc(103))>>)}

\* Every module on one kernel, one on every kernel.
KernelInit ==
    /\ ProtoInit
    /\ \/ build = PlainBuild /\ dumped = {1}
       \/ calls = {"bpf_kfunc", "llvm.memcpy"} /\ terms = {} /\ {f.sym : f \in defs} = {"bpf_prog"}

KernelSpec == KernelInit /\ [][ProtoNext]_protoVars /\ WF_protoVars(ProtoNext)
==============================================================================

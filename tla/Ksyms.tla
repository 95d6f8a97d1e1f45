-------------------------------- MODULE Ksyms --------------------------------
(***************************************************************************)
(* The symbols of one LLVM module on its way through add_ksyms.py, which   *)
(* rules.mk runs twice with LLVM's simplifycfg in between.  Each run tags  *)
(* the functions the module declares as kernel functions, lowers what LLVM *)
(* would turn into calls of names the kernel does not have, and removes    *)
(* the terminators BPF does not have.                                      *)
(*                                                                         *)
(* The script is a sequence of substitutions over the text of the module;  *)
(* each is an action.  Two things it holds besides the text matter:        *)
(* defined, the names it found defined before it renamed any, and the debug*)
(* info and declarations it makes, which are appended when it writes the   *)
(* file and which no substitution of the same run sees.                    *)
(*                                                                         *)
(* A declaration is a record: sym, the name it has; id, which run made it, *)
(* and under which name; ksym, is it in section .ksyms; sp, the name in its*)
(* DISubprogram, which becomes the name in BTF; spNew, was the DISubprogram*)
(* made in this run.  A definition is a record: sym; sp; internal, has it  *)
(* internal linkage; static, does its DISubprogram say so; paren, is there *)
(* a parenthesis in the name there, as in that of a generic Rust function  *)
(* of a tuple.                                                             *)
(***************************************************************************)
EXTENDS Naturals

CONSTANTS
    Kfuncs,         \* kernel functions the program calls
    Progs,          \* functions of the program's own
    Entries,        \* those of them that internalize keeps
    Modules,        \* the modules opt makes: what each defines, which names there
                    \* hold a parenthesis, what it calls, which terminators it has
    TrapToThrow     \* is TRAP_TO_BPF_THROW set?

Mem == {"llvm.memcpy", "llvm.memmove"}
Trap == "llvm.trap"
Intrinsics == Mem \union {Trap}

\* The names add_ksyms.py knows.
libcall_renames == [memcmp |-> "bpf_arena_memcmp", memcpy |-> "bpf_arena_memcpy"]
Libcalls == DOMAIN libcall_renames
Personality == "rust_eh_personality"

Names == Kfuncs \union Progs \union Libcalls \union {libcall_renames[l] : l \in Libcalls}
            \union {"bpf_throw", "_Unwind_Resume", Personality}

Terminators == {"resume", "invoke", "unreachable"}

None == "none"

ASSUME KsymsAssumption ==
    /\ TrapToThrow \in BOOLEAN
    /\ None \notin Names
    /\ \A m \in Modules :
          /\ m.defines \subseteq Names
          /\ m.calls \subseteq Names \union Intrinsics
          /\ m.terms \subseteq Terminators

VARIABLES
    run,        \* 1 or 2: which of the two runs
    pc,         \* the substitution the script does next
    defs,       \* the functions the text defines
    decls,      \* the functions the text declares
    calls,      \* the names called
    terms,      \* the terminators BPF does not have that occur
    defined,    \* defined_syms
    extra       \* extra_decls

vars == <<run, pc, defs, decls, calls, terms, defined, extra>>

\* What opt -O2 hands over: every name is defined or declared once, and the
\* declarations carry no section and no debug info.
Definition(m, n) ==
    [sym |-> n, sp |-> n, internal |-> n \notin Entries, static |-> FALSE,
     paren |-> n \in m.paren]

Declaration(n) ==
    [sym |-> n, id |-> <<0, n>>, ksym |-> FALSE, sp |-> None, spNew |-> FALSE]

\* Mutant: intrinsics are not told from functions.
DeclaredWithIntrinsics(m) == m.calls \ m.defines

Declared(m) ==
    ((m.calls \ Intrinsics)
        \union (IF m.terms \intersect {"resume", "invoke"} # {} THEN {Personality} ELSE {}))
    \ m.defines

\* The modules in which the names the script introduces are not in use already:
\* arena helpers may be defined, and copies are either intrinsics or libcalls.
\* The personality is no function to call.
Introduced == {libcall_renames[l] : l \in Libcalls} \union {"bpf_throw", "_Unwind_Resume"}

Plain(m) ==
    /\ m.defines \intersect (Libcalls \union {"bpf_throw", "_Unwind_Resume"}) = {}
    /\ m.calls \intersect Introduced \subseteq m.defines
    /\ Personality \notin m.calls
    /\ "memcpy" \in m.calls => m.calls \intersect Mem = {}

Init ==
    \E m \in Modules :
        /\ run = 1 /\ pc = "tag"
        /\ defs = {Definition(m, n) : n \in m.defines}
        /\ decls = {Declaration(n) : n \in Declared(m)}
        /\ calls = m.calls /\ terms = m.terms
        /\ defined = {} /\ extra = {}

Step(from, to) == pc = from /\ pc' = to

\* A declaration the script makes in this run.
Made(n) == [sym |-> n, id |-> <<run, n>>, ksym |-> TRUE, sp |-> n, spNew |-> TRUE]

------------------------------------------------------------------------------
(* One run of the script. *)

\* Every declaration that does not end in a section is tagged.
Tag ==
    /\ Step("tag", "mem")
    /\ decls' = {IF d.ksym \/ d.sym = Personality THEN d
                 ELSE [d EXCEPT !.ksym = TRUE, !.sp = d.sym, !.spNew = TRUE] : d \in decls}
    /\ defined' = {f.sym : f \in defs}
    /\ UNCHANGED <<run, defs, calls, terms, extra>>

\* Mutants: the declaration is made though the module defines the helper; the
\* calls are left.
DeclareAlways(n) == {Made(n)}

\* A declaration of a helper is wanted unless the module defines it.
DeclareHelper(n) == IF n \in defined THEN {} ELSE {Made(n)}

KeepMemCalls ==
    /\ Step("mem", "rename")
    /\ IF calls \intersect Mem = {}
       THEN UNCHANGED <<calls, extra>>
       ELSE /\ calls' = calls \union {"bpf_arena_memcpy"}
            /\ extra' = extra \union DeclareHelper("bpf_arena_memcpy")
    /\ UNCHANGED <<run, defs, decls, terms, defined>>

\* llvm.memcpy and llvm.memmove become calls of bpf_arena_memcpy.
LowerMem ==
    /\ Step("mem", "rename")
    /\ IF calls \intersect Mem = {}
       THEN UNCHANGED <<calls, extra>>
       ELSE /\ calls' = (calls \ Mem) \union {"bpf_arena_memcpy"}
            /\ extra' = extra \union DeclareHelper("bpf_arena_memcpy")
    /\ UNCHANGED <<run, defs, decls, terms, defined>>

NewName(n) == IF n \in Libcalls THEN libcall_renames[n] ELSE n

\* Mutant: only the symbol is renamed.
SymbolOnly(r) == [r EXCEPT !.sym = NewName(@)]

\* The symbol, and the name in its debug info when that is in the text already.
Renamed(r) == [r EXCEPT !.sym = NewName(@), !.sp = NewName(@)]

RenameLibcalls ==
    /\ Step("rename", "trap")
    /\ defs' = {Renamed(f) : f \in defs}
    /\ decls' = {IF d.spNew THEN [d EXCEPT !.sym = NewName(@)] ELSE Renamed(d) : d \in decls}
    /\ calls' = {NewName(n) : n \in calls}
    /\ UNCHANGED <<run, terms, defined, extra>>

\* llvm.trap becomes bpf_throw, when that is asked for.
LowerTrap ==
    /\ Step("trap", "drop")
    /\ IF TrapToThrow /\ Trap \in calls
       THEN /\ calls' = (calls \ {Trap}) \union {"bpf_throw"}
            /\ extra' = extra \union {Made("bpf_throw")}
       ELSE UNCHANGED <<calls, extra>>
    /\ UNCHANGED <<run, defs, decls, terms, defined>>

\* The renames can leave a declaration of a name the module defines.
DropDefinedDeclares ==
    /\ Step("drop", "resume")
    /\ decls' = {d \in decls : d.sym \notin defined}
    /\ UNCHANGED <<run, defs, calls, terms, defined, extra>>

\* resume becomes a call of _Unwind_Resume that does not return.
LowerResume ==
    /\ Step("resume", "static")
    /\ IF "resume" \in terms
       THEN /\ terms' = (terms \ {"resume"}) \union {"unreachable"}
            /\ calls' = calls \union {"_Unwind_Resume"}
            /\ extra' = extra \union {Made("_Unwind_Resume")}
       ELSE UNCHANGED <<terms, calls, extra>>
    /\ UNCHANGED <<run, defs, decls, defined>>

\* The DISubprogram of f is found and marked: its fields are matched up to the
\* first closing parenthesis.
Marked(f) == f.internal /\ ~f.paren

MarkStatic ==
    /\ Step("static", "terms")
    /\ defs' = {[f EXCEPT !.static = @ \/ Marked(f)] : f \in defs}
    /\ UNCHANGED <<run, decls, calls, terms, defined, extra>>

\* Mutant: unreachable is left for LLVM.
KeepUnreachable ==
    /\ Step("terms", "write")
    /\ terms' = terms \ {"invoke"}
    /\ UNCHANGED <<run, defs, decls, calls, defined, extra>>

\* invoke becomes call and br, unreachable becomes ret.
LowerTerminators ==
    /\ Step("terms", "write")
    /\ terms' = terms \ {"invoke", "unreachable"}
    /\ UNCHANGED <<run, defs, decls, calls, defined, extra>>

\* The declarations and the debug info made in this run are added, and the file
\* is written.
WriteOut ==
    /\ Step("write", "assemble")
    /\ decls' = {[d EXCEPT !.spNew = FALSE] : d \in decls \union extra}
    /\ extra' = {}
    /\ UNCHANGED <<run, defs, calls, terms, defined>>

------------------------------------------------------------------------------
(* Between and after the runs. *)

\* llvm-as accepts a module in which every name is introduced once.
WellFormed ==
    /\ \A d, e \in decls : d.sym = e.sym => d = e
    /\ \A f, g \in defs : f.sym = g.sym => f = g
    /\ \A d \in decls, f \in defs : d.sym # f.sym

\* opt -passes=simplifycfg drops the blocks nothing branches to any more, and the
\* calls in them; it can prove that a block is not left, and end it with
\* unreachable.
SimplifyCfg ==
    /\ run = 1 /\ WellFormed /\ Step("assemble", "tag")
    /\ run' = 2
    /\ calls' \in SUBSET calls
    /\ terms' \in {terms, terms \union {"unreachable"}}
    /\ UNCHANGED <<defs, decls, defined, extra>>

\* llvm-as reads the module for llc.
Assemble ==
    /\ run = 2 /\ WellFormed /\ Step("assemble", "done")
    /\ UNCHANGED <<run, defs, decls, calls, terms, defined, extra>>

add_ksyms ==
    \/ Tag \/ LowerMem \/ RenameLibcalls \/ LowerTrap \/ DropDefinedDeclares
    \/ LowerResume \/ MarkStatic \/ LowerTerminators \/ WriteOut

Next == add_ksyms \/ SimplifyCfg \/ Assemble

Spec == Init /\ [][Next]_vars /\ WF_vars(Next)

------------------------------------------------------------------------------
(* Properties. *)

Functions == [sym : Names, sp : Names \union {None}, internal : BOOLEAN, static : BOOLEAN,
              paren : BOOLEAN]
Declarations == [sym : Names, id : {0, 1, 2} \X Names, ksym : BOOLEAN,
                 sp : Names \union {None}, spNew : BOOLEAN]

TypeOK ==
    /\ run \in {1, 2}
    /\ pc \in {"tag", "mem", "rename", "trap", "drop", "resume", "static", "terms", "write",
               "assemble", "done"}
    /\ defs \subseteq Functions
    /\ decls \subseteq Declarations /\ extra \subseteq Declarations
    /\ calls \subseteq Names \union Intrinsics
    /\ terms \subseteq Terminators
    /\ defined \subseteq Names

\* What each run writes introduces every name once: no declaration is made or kept
\* for a name the module defines, or made for one it declares (add_ksyms.py
\* 373-376, "Never emit or keep external declares for names the module defines").
NoClash == pc = "assemble" => WellFormed

\* What llc is given binds every call: to a definition, or to a declaration in
\* .ksyms whose name in BTF is the name of the symbol, without which libbpf does
\* not resolve it (add_ksyms.py 406-412).  The debug info of a renamed libcall is
\* made by the first run and renamed by the second only.
CallsResolve ==
    pc = "done" =>
        \A n \in calls \ Intrinsics :
            \/ \E f \in defs : f.sym = n
            \/ \E d \in decls : d.sym = n /\ d.ksym /\ d.sp = n

\* The second run over its own output declares nothing (add_ksyms.py 342-347 and
\* 385-485; rules.mk 459 and 463).
SecondRunAddsNothing == \A d \in decls \union extra : d.id[1] < 2

\* Nothing BPF does not have is left, also of what simplifycfg brought in
\* (add_ksyms.py 414-577).
NothingLeft ==
    pc = "done" =>
        /\ terms = {}
        /\ calls \intersect (Mem \union Libcalls) = {}
        /\ TrapToThrow => Trap \notin calls

\* Every internal function has static linkage in BTF (add_ksyms.py 492-494, "Add
\* DISPFlagLocalToUnit to every DISubprogram attached to a `define internal`
\* function so LLC emits linkage=static in BTF").
InternalIsStatic == pc = "done" => \A f \in defs : f.internal => f.static
==============================================================================

----------------------------- MODULE KernelProto -----------------------------
(***************************************************************************)
(* The prototypes add_ksyms.py gives the kernel functions it declares.     *)
(* Each is looked up by name in the BTF of the kernel, dumped file by file *)
(* with bpftool, and mirrored kind by kind; a function that is not found   *)
(* gets the prototype its declaration in the module suggests.  libbpf then *)
(* compares what LLVM makes of it with the kernel's own.                   *)
(*                                                                         *)
(* A type in BTF is a record: kind; type, the id it refers to (what a      *)
(* pointer points at, an array is of, a function returns), 0 being void;   *)
(* and params, ids.  A module file has the types that are not in vmlinux,  *)
(* under ids that go on from there.  What the script makes of a type is a  *)
(* tree of [kind, of]; sizes, signs and names do not matter to libbpf.     *)
(*                                                                         *)
(* The script loads the BTF in each run, but only the first declares       *)
(* anything (SecondRunAddsNothing).                                        *)
(***************************************************************************)
EXTENDS Ksyms, Sequences, SequencesExt

CONSTANT
    Builds      \* kernels, and programs for them: files, of KSYM_BTF_FILES, each with
                \* types (by id) and funcs (a sequence of [name, type]); and
                \* signatures, of what the module may declare, by name

\* Types have ids from one on, 0 being void; the type of a function is a prototype, in
\* the same file or in vmlinux, the first.
ASSUME BuildsAssumption ==
    \A b \in Builds :
        /\ b.files \in Seq(Range(b.files)) /\ b.files # <<>>
        /\ \A f \in DOMAIN b.files :
              LET types == b.files[f].types
                  funcs == b.files[f].funcs IN
              /\ DOMAIN types \subseteq Nat \ {0}
              /\ \A tid \in DOMAIN types : types[tid].type \in Nat /\ types[tid].params \in Seq(Nat)
              /\ funcs \in Seq(Range(funcs))
              /\ \A func \in Range(funcs) :
                    /\ func.type \in Nat
                    /\ \/ /\ func.type \in DOMAIN types
                          /\ types[func.type].kind = "FUNC_PROTO"
                       \/ /\ func.type \in DOMAIN b.files[1].types \ DOMAIN types
                          /\ b.files[1].types[func.type].kind = "FUNC_PROTO"
        /\ \A name \in Names : b.signatures[name].args \in Seq(Range(b.signatures[name].args))

VARIABLES
    build,      \* the kernel and the program
    dumped      \* the files bpftool could dump, by one of the two attempts

protoVars == <<vars, build, dumped>>

files == build.files

ProtoInit ==
    /\ Init
    /\ build \in Builds
    /\ dumped \in SUBSET DOMAIN files

ProtoNext == Next /\ UNCHANGED <<build, dumped>>

ProtoSpec == ProtoInit /\ [][ProtoNext]_protoVars /\ WF_protoVars(ProtoNext)

------------------------------------------------------------------------------
(* KernelBtf. *)

MODS == {"TYPEDEF", "CONST", "VOLATILE", "RESTRICT", "TYPE_TAG"}
NoNode == [kind |-> "VOID", type |-> 0, params |-> <<>>]

NodeIn(f, base, tid) ==
    IF tid \in DOMAIN files[f].types THEN files[f].types[tid]
    ELSE IF tid \in DOMAIN files[base].types THEN files[base].types[tid]
    ELSE NoNode

\* maps[0]: the first file that could be dumped.
First == CHOOSE f \in dumped : \A g \in dumped : f <= g

\* Mutant: ids are those of one file.
OwnNode(f, tid) == NodeIn(f, f, tid)

node(f, tid) == NodeIn(f, First, tid)

\* How many modifiers are followed.  libbpf follows more, but what is behind more does
\* not fit (Fits).
MaxMods == 33

Skip(f, base, tid) ==
    LET behind[k \in 0..MaxMods] ==
            IF k = 0 THEN tid
            ELSE LET t == behind[k - 1]
                     n == NodeIn(f, base, t) IN
                 IF n.kind \in MODS THEN n.type ELSE t
    IN  behind[MaxMods]

resolve(f, tid) == Skip(f, First, tid)

Has(f, name) == \E i \in DOMAIN files[f].funcs : files[f].funcs[i].name = name
TypeIn(f, name) == files[f].funcs[SelectInSeq(files[f].funcs, LAMBDA x : x.name = name)].type

\* The file a name is found in first, if there is one among these.
FileOf(name, among) ==
    LET having == {f \in among : Has(f, name)} IN
    IF having = {} THEN 0 ELSE CHOOSE f \in having : \A g \in having : f <= g

\* Is there a prototype to mirror?
proto_of(name) ==
    LET f == FileOf(name, dumped) IN
    f # 0 /\ node(f, resolve(f, TypeIn(f, name))).kind = "FUNC_PROTO"

------------------------------------------------------------------------------
(* Prototypes. *)

Di(kind, of) == [kind |-> kind, of |-> of]
Void == Di("VOID", <<>>)

MaxDepth == 8

Mirrored == {"INT", "FLOAT", "STRUCT", "UNION", "ENUM", "ENUM64", "FWD", "PTR", "ARRAY", "FUNC_PROTO"}

\* The types a type is made of.
Parts(n) ==
    IF n.kind \in {"PTR", "ARRAY"} THEN <<n.type>>
    ELSE IF n.kind = "FUNC_PROTO" THEN <<n.type>> \o n.params
    ELSE <<>>

\* left: how many levels of a type are still mirrored.
MirrorOf(f) ==
    LET mirror[left \in 0..(MaxDepth + 1)] ==
            [tid \in Nat |->
                LET n == node(f, resolve(f, tid)) IN
                IF left = 0 \/ tid = 0 \/ n.kind \notin Mirrored THEN Void
                ELSE Di(n.kind, [i \in DOMAIN Parts(n) |-> mirror[left - 1][Parts(n)[i]]])]
    IN  mirror

di_from_kernel(f, tid) == MirrorOf(f)[MaxDepth + 1][tid]

IR_INT_BITS == {"i1", "i8", "i16", "i32", "i64", "i128"}

one(ir) ==
    CASE ir \in IR_INT_BITS -> Di("INT", <<>>)
      [] ir = "ptr" -> Di("PTR", <<Void>>)
      [] ir \in {"float", "double"} -> Di("FLOAT", <<>>)
      [] OTHER -> Void

\* Mutant: the return type is left out.
ArgumentsOnly(sig) == Di("FUNC_PROTO", [i \in DOMAIN sig.args |-> one(sig.args[i].type)])

\* The arguments are what is between commas, also those of an attribute such as
\* range(i64 1, 0).  In front of an attribute the pattern does not know, it finds
\* nothing, and void() is left.
di_from_ir_sig(sig) ==
    LET pieces(a) == <<one(a.type)>> \o [i \in 1..a.commas |-> Void] IN
    Di("FUNC_PROTO",
       IF sig.plain
       THEN <<one(sig.ret)>> \o FlattenSeq([i \in DOMAIN sig.args |-> pieces(sig.args[i])])
       ELSE <<Void>>)

make_proto(name) ==
    IF proto_of(name)
    THEN LET f == FileOf(name, dumped) IN di_from_kernel(f, TypeIn(f, name))
    ELSE di_from_ir_sig(build.signatures[name])

------------------------------------------------------------------------------
(* libbpf, which has all files and knows which is vmlinux. *)

KernelType(f, tid) == NodeIn(f, 1, Skip(f, 1, tid))

Alike(k, l) == k = l \/ {k, l} = {"ENUM", "ENUM64"}

\* It does not know floats.
Comparable == (Mirrored \ {"FLOAT"}) \union {"VOID"}

Matches(local, n) ==
    Alike(local.kind, n.kind) /\ n.kind \in Comparable /\ Len(local.of) = Len(Parts(n))

\* No prototype the script makes has as many levels.
Levels == MaxDepth + 2

\* What two types are made of, when they match: a type of the program's and one of the
\* kernel's each.
PairsIn(f, p) ==
    LET n == KernelType(f, p[2]) IN
    IF Matches(p[1], n) THEN {<<p[1].of[i], Parts(n)[i]>> : i \in DOMAIN Parts(n)} ELSE {}

\* What is compared, to a number of levels.
Compared(local, f, tid) ==
    LET pairs[level \in 0..Levels] ==
            IF level = 0 THEN {<<local, tid>>}
            ELSE LET before == pairs[level - 1] IN before \union UNION {PairsIn(f, p) : p \in before}
    IN  pairs

\* bpf_core_types_are_compat().
Compatible(local, f, tid) ==
    \A p \in Compared(local, f, tid)[Levels] : Matches(p[1], KernelType(f, p[2]))

\* Does libbpf take this prototype for the kernel's function name?
Resolves(proto, name) ==
    LET f == FileOf(name, DOMAIN files) IN Compatible(proto, f, TypeIn(f, name))

------------------------------------------------------------------------------
(* Properties. *)

\* What a type is made of, level by level.
TypesIn(f, tid) ==
    LET types[depth \in 0..(MaxDepth + 1)] ==
            IF depth = 0 THEN {tid}
            ELSE UNION {Range(Parts(KernelType(f, t))) : t \in types[depth - 1]}
    IN  types

\* Nothing of a type lies below the depth the mirror ends at, or is a float, which no
\* mirror would do for.
Fits(f, tid) ==
    \A depth \in 0..(MaxDepth + 1) : \A t \in TypesIn(f, tid)[depth] :
        LET kind == KernelType(f, t).kind IN
        kind \in Comparable /\ (depth > MaxDepth => kind = "VOID")

\* What is declared for the kernel to provide, under the name it was looked up by:
\* a libcall is looked up before it is renamed.
Extern(d) == pc = "done" /\ d.ksym /\ d.id[2] = d.sym /\ FileOf(d.sym, DOMAIN files) # 0

\* The prototype of a function of vmlinux or a module is one libbpf takes, whatever
\* other files could not be dumped, through types that are in the file, in vmlinux,
\* or behind modifiers, unless it goes deeper than the mirror (add_ksyms.py
\* 13-18, "its proto is MIRRORED kind-by-kind ... compatible by construction").
MirrorResolves ==
    \A d \in decls :
        LET f == FileOf(d.sym, DOMAIN files) IN
        Extern(d) /\ {1, f} \subseteq dumped /\ Fits(f, TypeIn(f, d.sym))
            => Resolves(make_proto(d.sym), d.sym)

\* A scalar or void* of the kernel's, declared as such.
Simple(ir, f, tid) ==
    LET n == KernelType(f, tid) IN
    \/ ir = "void" /\ n.kind = "VOID"
    \/ ir \in IR_INT_BITS /\ n.kind = "INT"
    \/ ir = "ptr" /\ n.kind = "PTR" /\ KernelType(f, n.type).kind = "VOID"

\* The kernel's prototype of name has nothing else, and no attribute is in the way.
Scalars(name) ==
    LET f == FileOf(name, DOMAIN files)
        n == KernelType(f, TypeIn(f, name))
        sig == build.signatures[name] IN
    /\ sig.plain /\ Len(sig.args) = Len(n.params)
    /\ Simple(sig.ret, f, n.type)
    /\ \A i \in DOMAIN n.params : sig.args[i].commas = 0 /\ Simple(sig.args[i].type, f, n.params[i])

\* The prototype of a function of scalars is one libbpf takes also when no BTF that
\* has it could be dumped (add_ksyms.py 18-20, "fall back to a proto derived from
\* the IR signature ..., which is correct for scalar-only kfuncs", 258-260).
ScalarsResolve ==
    \A d \in decls :
        Extern(d) /\ FileOf(d.sym, dumped) = 0 /\ Scalars(d.sym)
            => Resolves(make_proto(d.sym), d.sym)
==============================================================================

------------------------------ MODULE PostLink ------------------------------
(***************************************************************************)
(* From field accesses in the source to the fields a kernel hands out:     *)
(* FieldAccess (btf, btf-macros and rustc) makes the module, FieldReloc    *)
(* (bpf-postproc) turns its calls into access indexes, LLVM makes CO-RE    *)
(* relocations of them, BtfFixup (btf_fixup.py) then renames types and     *)
(* sorts members, llc emits BTF, and libbpf looks up what each relocation  *)
(* names in the BTF of the kernel it loads for.                            *)
(*                                                                         *)
(* add_ksyms.py, which runs before btf_fixup.py, changes nothing here: the *)
(* debug info it makes is that of declarations.                            *)
(***************************************************************************)
EXTENDS FieldReloc, BtfFixup, FieldAccess

CONSTANTS
    Programs,   \* each with its probes, accesses, nodes of other types and
                \* functions, and other calls
    Essential,  \* each name of a declared struct without its flavor
    Kernels     \* for each kernel the fields it has, each a [struct, path]

\* Each field of a path is declared in the type of the one before, or rustc refuses it.
WellTyped(a) ==
    /\ a.root \in Structs
    /\ a.path \in Seq(Range(a.path)) /\ a.path # <<>>
    /\ \A k \in DOMAIN a.path :
          LET s == DeclaredIn(a.root, a.path)[k] IN
          s \in Structs /\ FieldIndex(s, a.path[k]) # 0

\* A call that is none of an access: of another function, malformed, or in a function
\* whose first parameter is no pointer.
Other(c, g) ==
    \/ ~IsPolyfill(c)
    \/ c.nargs # 2
    \/ c.scope = null
    \/ /\ KindIn(g, c.scope) = "subprogram"
       /\ LET types == ItemsIn(g, g[c.scope].types) IN
          2 \in DOMAIN types => KindIn(g, types[2]) # "derived"

\* Programs are made of sequences; only detect() probes, and what is required is under
\* it.
ASSUME ProgramsAssumption ==
    \A p \in Programs :
        /\ p.probes \in Seq(Range(p.probes))
        /\ \A a \in Range(p.probes) : a.op = "probe" /\ WellTyped(a)
        /\ p.accesses \in Seq(Range(p.accesses))
        /\ \A a \in Range(p.accesses) : a.op \in {"exists", "get", "required"} /\ WellTyped(a)
        /\ p.calls \in Seq(Range(p.calls))
        /\ \A c \in Range(p.calls) :
              /\ c.op = "call" /\ c.source.op \in {"exists", "get"}
              /\ Other(c, p.nodes ++ Primitives)

\* The names of structs and fields, which are those of the kernel, are allowed in BTF;
\* only carriers have the prefix.
ASSUME NamesAssumption ==
    \A s \in Structs :
        /\ s \notin DOMAIN Sanitized \union DOMAIN WithoutPrefix
        /\ \A f \in Range(Fields[s]) : f.name \notin DOMAIN Sanitized
        /\ CarrierName(s) \in DOMAIN WithoutPrefix /\ WithoutPrefix[CarrierName(s)] = s

\* No two variables in a list are of the same argument.
ArgumentsOnce(g, list) ==
    \A v, w \in {i \in Range(list) : KindIn(g, i) = "variable"} :
        g[v].arg = g[w].arg => g[v].arg = 0 \/ v = w

\* The debug info that rustc writes: what a node refers to is there, and has a number
\* below those of new nodes; only structs, unions and variants have members; a list
\* of variables has each argument once and is no list of types.
WellFormed(g) ==
    \A id \in DOMAIN g :
        LET node == g[id] IN
        /\ IsNode(node)
        /\ id # null /\ id[1] \notin {"param", "retained"}
        /\ node.kind = "tuple" =>
              /\ Range(node.items) \subseteq DOMAIN g \union {null}
              /\ ArgumentsOnce(g, node.items)
        /\ node.kind = "composite" =>
              /\ node.elements \in DOMAIN g \union {null}
              /\ node.tag \notin COMPOSITE_TAGS =>
                    \A m \in Range(ItemsIn(g, node.elements)) :
                        KindIn(g, m) = "derived" => g[m].tag # "member"
        /\ node.kind = "subprogram" =>
              /\ {node.types, node.retained} \subseteq DOMAIN g \union {null}
              /\ \A sp \in DOMAIN g :
                    g[sp].kind = "subprogram" /\ KindIn(g, node.types) = "tuple" =>
                        g[sp].retained # node.types

\* The type behind a derived type, and the scope around a block, are there.
Leads(g) ==
    \A id \in DOMAIN g :
        /\ g[id].kind = "derived" => g[id].base \in DOMAIN g \union {null}
        /\ g[id].kind = "block" => g[id].scope \in DOMAIN g \union {null}

\* The nodes of other types and functions are none of those of the accesses, and refer
\* to each other and to primitive types.
ASSUME NodesAssumption ==
    \A p \in Programs :
        /\ WellFormed(p.nodes ++ Primitives) /\ Leads(p.nodes ++ Primitives)
        /\ DOMAIN p.nodes \intersect DOMAIN AccessNodes(Range(p.probes \o p.accesses)) = {}

VARIABLE kernel     \* the kernel the program is loaded for

vars == <<stage, md, code, at, visited, extra, kernel>>

NoKernel == {}

Init ==
    \E p \in Programs :
        /\ stage = "reloc"
        /\ md = p.nodes ++ AccessNodes(Range(p.probes \o p.accesses))
        /\ code = Calls(p.probes, p.accesses) \o p.calls
        /\ at = 1
        /\ visited = {} /\ extra = <<>>
        /\ kernel = NoKernel

------------------------------------------------------------------------------
(* LLVM, libbpf and the kernel, as the pipeline uses them. *)

\* opt makes one relocation of a query and the accesses below it: the type of the
\* root, and the index of each member on the way.
opt ==
    /\ stage = "opt"
    /\ stage' = "fixup"
    /\ code' = [i \in DOMAIN code |->
                  IF code[i].op = "info"
                  THEN [op |-> "reloc", kind |-> code[i].kind, type |-> code[i].steps[1].type,
                        indexes |-> [k \in DOMAIN code[i].steps |-> code[i].steps[k].index],
                        source |-> code[i].source, after |-> code[i].after]
                  ELSE code[i]]
    /\ UNCHANGED <<md, at, visited, extra, kernel>>

Relocs == {i \in DOMAIN code : code[i].op = "reloc"}

\* The member an index path ends at, and the names on the way, in the BTF made
\* from md.
Names(type, indexes) ==
    LET member[k \in DOMAIN indexes] ==
            elements(IF k = 1 THEN type ELSE UnderlyingComposite(member[k - 1]))[indexes[k]]
    IN  [k \in DOMAIN indexes |-> md[member[k]].name]

KernelName(name) == IF name \in DOMAIN Essential THEN Essential[name] ELSE name

\* The field of the kernel a relocation names.
Target(i) ==
    [struct |-> KernelName(md[code[i].type].name), path |-> Names(code[i].type, code[i].indexes)]

Has(k, i) == Target(i) \in k

\* Is the instruction reached when the queries before it are answered by k?
Reached(k, i) == \A q \in code[i].after : Has(k, q)

\* libbpf poisons an offset of a field that is not there, and the kernel takes no
\* program that reaches it.
Loads(k) == \A i \in Relocs : code[i].kind = 0 /\ Reached(k, i) => Has(k, i)

\* btf_check_* in the kernel.
Nondecreasing(items) ==
    \A j, k \in MemberSlots(items) : j < k => md[items[j]].offset <= md[items[k]].offset

\* The name BTFDebug gives argument k of sp: of the last variable for it.
ArgName(sp, k) ==
    LET variables == Items(md[sp].retained)
        slots == {i \in DOMAIN variables :
                    Kind(variables[i]) = "variable" /\ md[variables[i]].arg = k} IN
    IF slots = {} THEN Unnamed ELSE md[variables[Max(slots)]].name

BtfAccepted ==
    \A id \in DOMAIN md :
        /\ HasName(md[id]) => md[id].name \notin DOMAIN Sanitized
        /\ Kind(id) = "basic" => md[id].encoding \in BTF_ENCODINGS
        /\ Kind(id) = "composite" => Nondecreasing(elements(id))
        /\ Kind(id) = "subprogram" /\ md[id].definition =>
              \A k \in DOMAIN parameter_types(id) :
                  parameter_types(id)[k] # null => ArgName(id, k) # Unnamed

Load ==
    /\ stage = "llc"
    /\ kernel' \in Kernels
    /\ stage' = IF BtfAccepted /\ Loads(kernel') THEN "loaded" ELSE "rejected"
    /\ UNCHANGED <<md, code, at, visited, extra>>

Next ==
    \/ RelocNext /\ UNCHANGED <<visited, extra, kernel>>
    \/ opt
    \/ FixupNext /\ UNCHANGED <<at, kernel>>
    \/ Load

Spec == Init /\ [][Next]_vars

------------------------------------------------------------------------------
(* Properties. *)

Fixing == {"encodings", "members", "parameters"}

TypeOK ==
    /\ stage \in {"reloc", "opt", "fixup", "llc", "loaded", "rejected", "failed"} \union Fixing
    /\ LET nodes == md ++ extra IN
       \A id \in DOMAIN nodes :
          /\ IsNode(nodes[id])
          /\ nodes[id].kind = "tuple" => Range(nodes[id].items) \subseteq DOMAIN nodes \union {null}
          /\ nodes[id].kind = "subprogram" => nodes[id].retained \in DOMAIN nodes \union {null}
    /\ \A i \in DOMAIN code : code[i].op \in {"call", "info", "reloc"}
    /\ at \in 1..(Len(code) + 1)
    /\ visited \subseteq DOMAIN md
    /\ kernel \in Kernels \union {NoKernel}

\* What the source asked for a field of the kernel.
Asked(i) == [struct |-> KernelName(code[i].source.root), path |-> code[i].source.path]

\* Each relocation names the field its access names in the source, by the names
\* of the kernel: after the path went through types and back (field_reloc.rs
\* 217-283), its fields through indexes (287-305), its struct through a carrier
\* (307-316), and the members were sorted (btf_fixup.py 184-191).
RelocsNameTheSource ==
    stage \in {"llc", "loaded", "rejected"} =>
        \A i \in Relocs :
            /\ Target(i) = Asked(i)
            /\ code[i].kind = IF code[i].source.op \in {"exists", "probe"} THEN 2 ELSE 0

\* A module that is written holds no call of a polyfill: all are lowered or none
\* (field_reloc.rs 82-107, main.rs 88-93).
NothingHalfLowered ==
    stage \notin {"reloc", "failed"} => \A i \in DOMAIN code : ~IsPolyfill(code[i])

\* The kernel takes the BTF of what btf_fixup.py wrote (btf_fixup.py 5-50).
KernelTakesBtf == stage \in {"llc", "loaded", "rejected"} => BtfAccepted

\* No pass loses a node from a list, and what is no member keeps its slot (btf_fixup.py
\* 28-30, "anything else in the list (methods, template parameters, inheritance)
\* keeps its slot").
ListKept(id) ==
    LET old == md[id].items
        new == md'[id].items IN
    /\ Len(new) >= Len(old) /\ Range(old) \subseteq Range(new)
    /\ \A k \in DOMAIN old : ~IsMember(old[k]) => new[k] = old[k]

ListsKept == [][\A id \in DOMAIN md : Kind(id) = "tuple" => ListKept(id)]_vars

\* An argument that the source names keeps that name: no variable made for it comes
\* in between, also when functions share a list (btf_fixup.py 223-234, 49-50, "for
\* every argument that lacks one").
ArgumentNamesKept ==
    [][\A sp \in DOMAIN md : Kind(sp) = "subprogram" =>
          \A k \in DOMAIN parameter_types(sp) :
              ArgName(sp, k) # Unnamed =>
                  ArgName(sp, k)' =
                      IF stage = "fixup" THEN sanitize(ArgName(sp, k)) ELSE ArgName(sp, k)]_vars

\* What a profile promises: where its probes are answered yes, the kernel has the
\* fields its views read.
Promise(k) ==
    (\A i \in Relocs : code[i].source.op = "probe" => Asked(i) \in k)
        => \A i \in Relocs : code[i].source.op = "required" => Asked(i) \in k

\* A program that gets fields in required views only loads on every kernel for
\* which its profile keeps its promise, the fields being there or not (btf lib.rs
\* 67-71, 97-100; btf-macros lib.rs 152-162).
RequiredLoads ==
    /\ stage \in {"loaded", "rejected"}
    /\ Promise(kernel)
    /\ \A i \in Relocs : code[i].source.op # "get"
    => stage = "loaded"
==============================================================================

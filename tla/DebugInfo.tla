------------------------------ MODULE DebugInfo ------------------------------
(***************************************************************************)
(* The debug-info graph of one LLVM module, as the post-processors see it: *)
(* md maps the id of a node to its body.  bpf-postproc reads and writes    *)
(* operands through llvm.rs, btf_fixup.py the same operands as text; an id *)
(* stands for the address in the one and for !<n> in the other.            *)
(*                                                                         *)
(*   composite    name, tag, elements (a tuple)                            *)
(*   derived      name, tag (member, pointer_type, ...), base, offset      *)
(*   basic        name, encoding                                           *)
(*   subprogram   name, definition, types (a tuple: the result, then the   *)
(*                parameters), retained (a tuple)                          *)
(*   variable     name, arg, scope                                         *)
(*   block        scope                                                    *)
(*   tuple        items                                                    *)
(*   subrange     the length of an array; left out                         *)
(*                                                                         *)
(* The DISubroutineType between a subprogram and its types is left out.    *)
(***************************************************************************)
EXTENDS Naturals, SequencesExt

VARIABLES
    stage,      \* the step of the pipeline the module is in
    md,         \* the metadata nodes
    code        \* the calls of field-info polyfills, and what becomes of them

\* A reference to nothing, and the name of a node without one.
null == <<>>
Unnamed == ""

\* In a graph g.
KindIn(g, id) == IF id \in DOMAIN g THEN g[id].kind ELSE "none"

Kind(id) == KindIn(md, id)

Composite(name, tag, elements) ==
    [kind |-> "composite", name |-> name, tag |-> tag, elements |-> elements]
Derived(name, tag, base, offset) ==
    [kind |-> "derived", name |-> name, tag |-> tag, base |-> base, offset |-> offset]
Basic(name, encoding) == [kind |-> "basic", name |-> name, encoding |-> encoding]
Subprogram(name, definition, types, retained) ==
    [kind |-> "subprogram", name |-> name, definition |-> definition, types |-> types,
     retained |-> retained]
Variable(name, arg, scope) ==
    [kind |-> "variable", name |-> name, arg |-> arg, scope |-> scope]
Block(scope) == [kind |-> "block", scope |-> scope]
TupleNode(items) == [kind |-> "tuple", items |-> items]
Subrange == [kind |-> "subrange"]

\* A graph of one node, and two graphs in one.
Node(id, body) == [i \in {id} |-> body]
f ++ g == [id \in DOMAIN f \union DOMAIN g |-> IF id \in DOMAIN f THEN f[id] ELSE g[id]]

\* Does node have the fields of its kind?
IsNode(node) ==
    \/ /\ node.kind = "composite"
       /\ node = Composite(node.name, node.tag, node.elements)
    \/ /\ node.kind = "derived"
       /\ node = Derived(node.name, node.tag, node.base, node.offset) /\ node.offset \in Nat
    \/ node.kind = "basic" /\ node = Basic(node.name, node.encoding)
    \/ /\ node.kind = "subprogram"
       /\ node = Subprogram(node.name, node.definition, node.types, node.retained)
    \/ node.kind = "variable" /\ node = Variable(node.name, node.arg, node.scope)
    \/ node.kind = "block" /\ node = Block(node.scope)
    \/ /\ node.kind = "tuple"
       /\ node = TupleNode(node.items) /\ node.items \in Seq(Range(node.items))
    \/ node = Subrange

\* What the elements, types or retained field of a node refers to.
ItemsIn(g, id) == IF KindIn(g, id) = "tuple" THEN g[id].items ELSE <<>>

Items(id) == ItemsIn(md, id)

elements(c) == Items(md[c].elements)

base_type(d) == md[d].base

\* The result comes first in the types of a function.
parameter_types(sp) == LET types == Items(md[sp].types) IN
                       IF types = <<>> THEN <<>> ELSE Tail(types)

Named(id, name) == Kind(id) = "derived" /\ md[id].name = name

\* The composite below the typedefs, members and pointers in front of it, or none.
UnderlyingComposite(id) ==
    LET under[i \in DOMAIN md \union {null}] ==
            IF Kind(i) = "derived" THEN under[base_type(i)] ELSE i
    IN  IF Kind(under[id]) = "composite" THEN under[id] ELSE null
==============================================================================

----------------------------- MODULE FieldAccess -----------------------------
(***************************************************************************)
(* What the crates btf and btf-macros make of the field accesses of a      *)
(* program: the calls of polyfills, and the debug info of the types around *)
(* them, which is all that says which field is meant.  #[btf] turns each   *)
(* struct declaration into a carrier, which has the declared fields, and   *)
(* one marker type per field; an access names its field in the type of its *)
(* second argument, a chain of FieldPath from the last field to RootPath.  *)
(*                                                                         *)
(* An access is a record: root, a declared struct; path, the names of the  *)
(* fields below it; op, what is asked: "exists"; "get" in an ordinary view *)
(* (get, as_ptr and as_mut_ptr make the same call); "required", get in a   *)
(* view of the profile; or "probe", exists asked by its detect().          *)
(***************************************************************************)
EXTENDS DebugInfo, FiniteSets

CONSTANTS
    Fields,     \* for each #[btf] struct its fields: a sequence of [name, type]
    Size,       \* the size of each primitive type
    Pointers,   \* for each pointer type what it points to
    Arrays      \* for each array type its element type and length: [of, n]

Structs == DOMAIN Fields
Types == Structs \union DOMAIN Size \union DOMAIN Pointers \union DOMAIN Arrays

\* Rust's names: carriers have a prefix, markers a number, generics parameters.
CarrierName(s) == "__BtfCarrierFor" \o s

carrier(s) == <<"carrier", s>>
basic(leaf) == <<"basic", leaf>>
pointer(id) == <<"pointer", id>>
array(type) == <<"array", type>>

\* The nodes of one struct type whose fields are [name, type, offset].
StructNodes(id, name, fields) ==
    LET list == <<"elements", id>>
        member(k) == <<"member", id, k>> IN
    Node(id, Composite(name, "structure_type", list))
        ++ Node(list, TupleNode([k \in DOMAIN fields |-> member(k)]))
        ++ [m \in {member(k) : k \in DOMAIN fields} |->
                LET f == fields[m[3]] IN Derived(f.name, "member", f.type, f.offset)]

\* What stands for a type in the declaration of a field: a struct is its carrier.
TypeId(type) ==
    CASE type \in Structs -> carrier(type)
      [] type \in DOMAIN Pointers -> pointer(<<"type", type>>)
      [] type \in DOMAIN Arrays -> array(type)
      [] OTHER -> basic(type)

Sum(s) == FoldLeft(LAMBDA a, b : a + b, 0, s)

SizeOf ==
    LET size[type \in Types] ==
            CASE type \in Structs -> Sum([k \in DOMAIN Fields[type] |-> size[Fields[type][k].type]])
              [] type \in DOMAIN Pointers -> 8
              [] type \in DOMAIN Arrays -> Arrays[type].n * size[Arrays[type].of]
              [] OTHER -> Size[type]
    IN  size

PointerNode(pointee) == Derived("*const T", "pointer_type", pointee, 0)

\* The nodes of a pointer, which is to the carrier of a struct, or an array; of an
\* array without its element type.
TypeNodes(type) ==
    IF type \in DOMAIN Pointers
    THEN Node(TypeId(type), PointerNode(TypeId(Pointers[type])))
    ELSE LET range == <<"subrange", type>>
             list == <<"elements", array(type)>> IN
         Node(array(type), Composite(Unnamed, "array_type", list))
            ++ Node(list, TupleNode(<<range>>))
            ++ Node(range, Subrange)

\* A carrier is #[repr(C)]: its fields follow each other as declared.
Offset(s) ==
    LET offset[k \in DOMAIN Fields[s]] ==
            IF k = 1 THEN 0 ELSE offset[k - 1] + SizeOf[Fields[s][k - 1].type]
    IN  offset

\* Fields are listed, and have a name and a type; a type is of one kind, and no part of
\* itself.  The helpers take a u32, and markers have a u8.
ASSUME LayoutAssumption ==
    /\ \A s \in Structs :
          /\ Fields[s] \in Seq(Range(Fields[s]))
          /\ \A f \in Range(Fields[s]) : f.name # Unnamed /\ f.type \in Types
    /\ Structs \intersect (DOMAIN Pointers \union DOMAIN Arrays) = {}
    /\ DOMAIN Pointers \intersect DOMAIN Arrays = {}
    /\ \A type \in DOMAIN Pointers : Pointers[type] \in Types
    /\ \A type \in Types : SizeOf[type] \in Nat
    /\ {"u8", "u32"} \subseteq DOMAIN Size

CarrierNodes(s) ==
    StructNodes(carrier(s), CarrierName(s),
        [k \in DOMAIN Fields[s] |->
            [name |-> Fields[s][k].name, type |-> TypeId(Fields[s][k].type),
             offset |-> Offset(s)[k]]])

marker(s, k) == <<"marker", s, k>>

\* A marker has one field, of the name of the field it stands for.
MarkerNodes(s, k) ==
    StructNodes(marker(s, k), "__BtfFieldFor",
                <<[name |-> Fields[s][k].name, type |-> basic("u8"), offset |-> 0]>>)

FieldIndex(s, name) == SelectInSeq(Fields[s], LAMBDA f : f.name = name)

\* The structs the fields of a path are declared in: each is the type of the field
\* before.
DeclaredIn(root, path) ==
    LET type(s, name) == Fields[s][FieldIndex(s, name)].type
        struct[k \in DOMAIN path] == IF k = 1 THEN root ELSE type(struct[k - 1], path[k - 1])
    IN  struct

PathId(root, path) == IF path = <<>> THEN <<"RootPath">> ELSE <<"FieldPath", root, path>>

\* FieldPath<Parent, Field>, down to RootPath.
PathNodes(root, path) ==
    IF path = <<>>
    THEN StructNodes(PathId(root, path), "RootPath",
                     <<[name |-> "_private", type |-> basic("u8"), offset |-> 0]>>)
    ELSE LET s == DeclaredIn(root, path)[Len(path)] IN
         StructNodes(PathId(root, path), "FieldPath<P, F>",
            <<[name |-> "parent", type |-> PathId(root, Front(path)), offset |-> 0],
              [name |-> "field", type |-> marker(s, FieldIndex(s, Last(path))), offset |-> 1]>>)

helper(callee, root, path) == <<"helper", callee, root, path>>
block(h) == <<"block", h>>

\* The instance of btf_field_byte_offset or btf_field_exists for one carrier and
\* path.  The polyfill is called in a block of it; both are inlined.
HelperNodes(callee, root, path) ==
    LET h == helper(callee, root, path)
        types == <<"types", h>>
        retained == <<"variables", h>> IN
    Node(h, Subprogram("btf_field<C, P>", TRUE, types, retained))
        ++ Node(block(h), Block(h))
        ++ Node(types, TupleNode(<<basic("u32"), pointer(carrier(root)), pointer(PathId(root, path))>>))
        ++ Node(retained, TupleNode(<<<<"variable", h, 1>>, <<"variable", h, 2>>>>))
        ++ Node(<<"variable", h, 1>>, Variable("base", 1, h))
        ++ Node(<<"variable", h, 2>>, Variable("path", 2, h))
        ++ [p \in {pointer(carrier(root)), pointer(PathId(root, path))} |->
                PointerNode(p[2])]

Callee(op) == IF op \in {"exists", "probe"} THEN "__btf_field_exists" ELSE "__btf_field_byte_offset"

Merged(S) ==
    [id \in UNION {DOMAIN f : f \in S} |-> (CHOOSE f \in S : id \in DOMAIN f)[id]]

Primitives == [id \in {basic(leaf) : leaf \in DOMAIN Size} |-> Basic(id[2], "unsigned")]

\* The debug info of a program with these accesses.
AccessNodes(accesses) ==
    Merged({CarrierNodes(s) : s \in Structs}
        \union {TypeNodes(type) : type \in DOMAIN Pointers \union DOMAIN Arrays}
        \union (UNION {{MarkerNodes(s, k) : k \in DOMAIN Fields[s]} : s \in Structs})
        \union (UNION {{PathNodes(a.root, prefix) : prefix \in Prefixes(a.path)} : a \in accesses})
        \union {HelperNodes(Callee(a.op), a.root, a.path) : a \in accesses}
        \union {Primitives})

Call(a, after) ==
    [op |-> "call", callee |-> Callee(a.op), nargs |-> 2,
     scope |-> block(helper(Callee(a.op), a.root, a.path)),
     source |-> a, after |-> after]

\* Mutant: detect() is content with its first probe.
FirstProbe(probes) == {1} \intersect DOMAIN probes

\* What detect() wants answered yes.
AllProbes(probes) == DOMAIN probes

\* The calls of a program: detect() asks its probes one after the other, and what
\* is required is under it.
Calls(probes, accesses) ==
    [i \in DOMAIN probes |-> Call(probes[i], 1..(i - 1))]
        \o [i \in DOMAIN accesses |->
                Call(accesses[i],
                     IF accesses[i].op = "required" THEN AllProbes(probes) ELSE {})]
==============================================================================

------------------------------ MODULE FieldView ------------------------------
(***************************************************************************)
(* A program that holds a kernel object and looks at its fields through    *)
(* the views of the crates btf and btf-macros.  A view is a base pointer;  *)
(* the root type, the type it is at, the path of fields in between and the *)
(* mode are types only, and decide which operations there are: what rustc  *)
(* refuses for a missing impl or bound is a guard here.                    *)
(*                                                                         *)
(* The kernel the program runs on is chosen first and never changes.       *)
(* libbpf answers each query in its BTF when it loads the program: exists  *)
(* by a constant, an offset by the offset there; an instruction with the   *)
(* offset of a field that is not there is poisoned.                        *)
(***************************************************************************)
EXTENDS Naturals, Sequences, SequencesExt

CONSTANTS
    Schemas,    \* for each #[btf] struct: fields, the type of each by name, and the
                \* bindings module it is flavored for
    Profiles,   \* for each btf_profile!: module, and probes, a sequence of
                \* [root, path]
    Essential,  \* the kernel's struct for each schema: its name without the flavor
    Kernels,    \* for each kernel its structs, and the offset of each field
    Object,     \* the address of the object
    NoModule    \* of a schema without flavor

Null == 0
FieldNames == UNION {DOMAIN Schemas[s].fields : s \in DOMAIN Schemas}

ASSUME FieldViewAssumption ==
    /\ Object \in Nat \ {Null}
    /\ \A s \in DOMAIN Schemas : Essential[s] \in UNION {DOMAIN k : k \in Kernels}
    /\ \A k \in Kernels : \A s \in DOMAIN k : \A f \in DOMAIN k[s] : k[s][f] \in Nat
    /\ \A p \in DOMAIN Profiles :
          /\ Profiles[p].module # NoModule
          /\ Len(Profiles[p].probes) > 0
          /\ \A i \in DOMAIN Profiles[p].probes :
                Profiles[p].probes[i].path \in Seq(STRING) \ {<<>>}

VARIABLES
    kernel,     \* the kernel the program runs on
    witnesses,  \* the profiles detect() gave a witness of
    view,       \* the view the program holds
    last        \* the last terminal operation: its op, the view it was on, and what
                \* libbpf made of its query

vars == <<kernel, witnesses, view, last>>

(* Modes. *)
Optional == <<"Optional">>
Probe == <<"Probe">>
Required(p) == <<"Required", p>>
Modes == {Optional, Probe} \union {Required(p) : p \in DOMAIN Profiles}

InModule(s, module) == Schemas[s].module = module

\* Mutant: Probe implements AccessMode as Optional does.
AnyMode(mode, root) == TRUE

\* What a mode needs to have get.
AccessMode(mode, root) ==
    \/ mode = Optional
    \/ \E p \in DOMAIN Profiles : mode = Required(p) /\ InModule(root, Profiles[p].module)

\* Paths through a leaf, a pointer or an array go no further: its view is Field.
Aggregate(type) == type \in DOMAIN Schemas

NoView == [root |-> "none"]
Holds == view # NoView

------------------------------------------------------------------------------
(* Queries, as libbpf answers them. *)

\* The types along a path from root: after none of its fields, the first, ...
TypesAlong(root, path) ==
    LET type[i \in 0..Len(path)] ==
            IF i = 0 THEN root ELSE Schemas[type[i - 1]].fields[path[i]]
    IN  type

\* The type the path ends at.
TypeAt(root, path) == TypesAlong(root, path)[Len(path)]

FieldsOf(k, s) == IF Essential[s] \in DOMAIN k THEN k[Essential[s]] ELSE <<>>

Exists(k, root, path) ==
    \A i \in DOMAIN path : path[i] \in DOMAIN FieldsOf(k, TypesAlong(root, path)[i - 1])

\* The sum of the offsets of the fields on the way.
ByteOffset(k, root, path) ==
    LET upto[i \in 0..Len(path)] ==
            IF i = 0 THEN 0
            ELSE upto[i - 1] + FieldsOf(k, TypesAlong(root, path)[i - 1])[path[i]]
    IN  upto[Len(path)]

btf_field_exists(v) == Exists(kernel, v.root, v.path)
btf_field_byte_offset(v) == ByteOffset(kernel, v.root, v.path)

------------------------------------------------------------------------------
(* Views.  written is the path as the source writes it, which nothing reads. *)

Field(root, mode, base) ==
    [root |-> root, value |-> root, path |-> <<>>, mode |-> mode, base |-> base,
     written |-> <<>>]

__btf_root(root, mode) == Field(root, mode, Object)
__btf_probe(root) == Field(root, Probe, Null)

\* Mutant: the view stays at the type it was at.
SameType(v, f) == v.value

NextType(v, f) == Schemas[v.value].fields[f]

\* Mutant: the accessor goes to the field it extends.
AdvancesBase(v, f) ==
    [v EXCEPT !.path = Append(@, f), !.value = NextType(v, f), !.written = Append(@, f),
              !.base = IF btf_field_exists(v) THEN @ + btf_field_byte_offset(v) ELSE @]

\* An accessor appends the marker of its field; base and mode stay.
__btf_field(v, f) ==
    [v EXCEPT !.path = Append(@, f), !.value = NextType(v, f), !.written = Append(@, f)]

\* The accessors of a struct start a path at its address; those of a view go on.
Accessor(root, f) ==
    /\ view' = __btf_field(__btf_root(root, Optional), f)
    /\ UNCHANGED <<kernel, witnesses, last>>

ViewAccessor(f) ==
    /\ Holds /\ Aggregate(view.value) /\ f \in DOMAIN Schemas[view.value].fields
    /\ view' = __btf_field(view, f)
    /\ UNCHANGED <<kernel, witnesses, last>>

\* The root of a query, as detect() makes it; it is hidden, but public.
ProbeRoot(root) ==
    /\ view' = __btf_probe(root)
    /\ UNCHANGED <<kernel, witnesses, last>>

------------------------------------------------------------------------------
(* Profiles. *)

\* Mutant: the first discriminator decides.
FirstProbe(p) == {Profiles[p].probes[1]}

Discriminators(p) == Range(Profiles[p].probes)

\* Each discriminator as the chain of accessors the macro writes.
ProbeView(probe) ==
    LET chain[i \in 0..Len(probe.path)] ==
            IF i = 0 THEN __btf_probe(probe.root) ELSE __btf_field(chain[i - 1], probe.path[i])
    IN  chain[Len(probe.path)]

detect(p) ==
    /\ witnesses' = IF \A probe \in Discriminators(p) : btf_field_exists(ProbeView(probe))
                    THEN witnesses \union {p} ELSE witnesses
    /\ UNCHANGED <<kernel, view, last>>

\* Mutant: no Root: InModule<Self::Module>.
AnyRoot(p, root) == p \in witnesses

Selects(p, root) == p \in witnesses /\ InModule(root, Profiles[p].module)

\* Profile::view: no query, the witness is enough.
ProfileView(p, root) ==
    /\ Selects(p, root)
    /\ view' = __btf_root(root, Required(p))
    /\ UNCHANGED <<kernel, witnesses, last>>

------------------------------------------------------------------------------
(* Terminal operations. *)

Terminal(op, shape) ==
    /\ last' = [op |-> op, view |-> view, shape |-> shape,
                there |-> btf_field_exists(view),
                address |-> IF op = "exists" \/ ~btf_field_exists(view) THEN Null
                            ELSE view.base + btf_field_byte_offset(view)]
    /\ UNCHANGED <<kernel, witnesses, view>>

\* Views of aggregates have it too.
exists == Holds /\ Terminal("exists", "bool")

\* Views of values have the others.
OfValue == Holds /\ ~Aggregate(view.value)

\* An ordinary view wraps the address in Some, without a query.
get ==
    /\ OfValue /\ AccessMode(view.mode, view.root)
    /\ Terminal("get", IF view.mode = Optional THEN "Some" ELSE "reference")

\* as_mut_ptr is as_ptr and a cast.
as_ptr == OfValue /\ Terminal("as_ptr", "pointer")

NoOperation ==
    [op |-> "none", view |-> NoView, shape |-> "none", there |-> FALSE, address |-> Null]

Init ==
    /\ kernel \in Kernels
    /\ witnesses = {}
    /\ view = NoView
    /\ last = NoOperation

Next ==
    \/ \E p \in DOMAIN Profiles : detect(p)
    \/ \E p \in DOMAIN Profiles, root \in DOMAIN Schemas : ProfileView(p, root)
    \/ \E root \in DOMAIN Schemas : \E f \in DOMAIN Schemas[root].fields : Accessor(root, f)
    \/ \E root \in DOMAIN Schemas : ProbeRoot(root)
    \/ \E f \in FieldNames : ViewAccessor(f)
    \/ exists
    \/ get
    \/ as_ptr

Spec == Init /\ [][Next]_vars

------------------------------------------------------------------------------
(* Properties. *)

ViewOK(v) ==
    \/ v = NoView
    \/ /\ v.root \in DOMAIN Schemas
       /\ v.path \in Seq(FieldNames)
       /\ v.value = TypeAt(v.root, v.path)
       /\ v.mode \in Modes
       /\ v.base \in Nat

TypeOK ==
    /\ kernel \in Kernels
    /\ witnesses \subseteq DOMAIN Profiles
    /\ ViewOK(view) /\ ViewOK(last.view)
    /\ last.op \in {"none", "exists", "get", "as_ptr"}
    /\ last.shape \in {"none", "bool", "Some", "reference", "pointer"}
    /\ last.there \in BOOLEAN /\ last.address \in Nat

Reads == last.op \in {"get", "as_ptr"}

\* What whoever writes btf_profile! answers for: a kernel that has the
\* discriminators has every field of the module's schemas, and of those embedded
\* in them, flavored or not.
KeepsPromise(p) ==
    (\A i \in DOMAIN Profiles[p].probes :
        Exists(kernel, Profiles[p].probes[i].root, Profiles[p].probes[i].path))
    => \E S \in SUBSET DOMAIN Schemas :
          /\ \A s \in DOMAIN Schemas : InModule(s, Profiles[p].module) => s \in S
          /\ \A s \in S : \A f \in DOMAIN Schemas[s].fields :
                /\ f \in DOMAIN FieldsOf(kernel, s)
                /\ Aggregate(Schemas[s].fields[f]) => Schemas[s].fields[f] \in S

\* What is read in a view of a profile is there, without a query, wherever the
\* profile keeps its promise and however the view was come by (btf lib.rs 67-71,
\* 97-118, 439-452; btf-macros lib.rs 113-118, "when they all hold, every flavored
\* schema in the same module may use non-optional terminal operations").
RequiredReadsExist ==
    \A p \in DOMAIN Profiles :
        Reads /\ last.view.mode = Required(p) /\ KeepsPromise(p) => last.there

\* A query is about the whole path the source writes from the root, and an address
\* is that of this field in the object, however many accessors came before
\* (btf lib.rs 294-309, "Adjusting it in each accessor would turn a nested
\* expression into separate relocations rather than one full path").
AddressIsField ==
    last.op # "none" =>
        /\ last.there = Exists(kernel, last.view.root, last.view.written)
        /\ Reads /\ last.there /\ last.view.mode # Probe =>
              last.address = Object + ByteOffset(kernel, last.view.root, last.view.written)

\* No reference is made of the null pointer a probe starts at (btf lib.rs 59-62,
\* "prevents the detector from accidentally materializing a reference from the
\* null pointer", and 132-134).
NullNotReferenced == last.op = "get" => last.view.base = Object

\* get in an ordinary view of a field that is not there gives None (btf lib.rs
\* 379, "Ordinary views return Option<&Value> after an existence query").
OrdinaryGetAsks == last.op = "get" /\ last.shape = "Some" => last.there
==============================================================================

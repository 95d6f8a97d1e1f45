------------------------------ MODULE BtfFixup ------------------------------
(***************************************************************************)
(* btf_fixup.py: four passes over the debug info of a module, after which  *)
(* the BTF that llc derives from it is one the kernel takes.  The passes   *)
(* run one after the other; the script looks up nodes in md, and the       *)
(* variables it makes for parameters, extra, are only added when it writes *)
(* the file.                                                               *)
(*                                                                         *)
(* The numbers of new nodes, next_id upwards, are ids that say what they   *)
(* are for.  Subprograms are visited in any order: the order of nodes in   *)
(* the file means nothing.                                                 *)
(***************************************************************************)
EXTENDS DebugInfo

CONSTANT Sanitized      \* for each name BTF does not allow, what sanitize makes of it

VARIABLES
    visited,    \* the subprograms pass 4 has seen
    extra       \* the nodes it has made

COMPOSITE_TAGS == {"structure_type", "class_type", "union_type", "variant_part", "variant"}
BTF_ENCODINGS == {"boolean", "signed", "signed_char", "unsigned", "unsigned_char", "float"}

\* sanitize keeps what BTF allows, and what it makes is allowed; an empty name is left
\* as it is.
ASSUME SanitizedAssumption ==
    /\ \A n \in DOMAIN Sanitized : Sanitized[n] \notin DOMAIN Sanitized \union {Unnamed}
    /\ {Unnamed, "param"} \intersect DOMAIN Sanitized = {}

sanitize(name) == IF name \in DOMAIN Sanitized THEN Sanitized[name] ELSE name

HasName(node) == node.kind \in {"composite", "derived", "basic", "subprogram", "variable"}

\* 1. Names.
SanitizeNames ==
    /\ stage = "fixup"
    /\ stage' = "encodings"
    /\ md' = [id \in DOMAIN md |->
                IF HasName(md[id]) THEN [md[id] EXCEPT !.name = sanitize(@)] ELSE md[id]]
    /\ UNCHANGED <<code, visited, extra>>

Recoded(encoding) == IF encoding \in BTF_ENCODINGS THEN encoding ELSE "unsigned"

\* 2. Encodings.
RecodeBasicTypes ==
    /\ stage = "encodings"
    /\ stage' = "members"
    /\ md' = [id \in DOMAIN md |->
                IF Kind(id) = "basic" THEN [md[id] EXCEPT !.encoding = Recoded(@)] ELSE md[id]]
    /\ UNCHANGED <<code, visited, extra>>

IsMember(id) == Kind(id) = "derived" /\ md[id].tag = "member"

\* Mutants: members with equal offsets change places; base classes are sorted too.
Earlier(items, j, k) ==
    \/ md[items[j]].offset < md[items[k]].offset
    \/ md[items[j]].offset = md[items[k]].offset /\ j > k

DerivedSlots(items) == {k \in DOMAIN items : Kind(items[k]) = "derived"}

\* Is the member in slot j sorted in front of the one in slot k?
Before(items, j, k) ==
    \/ md[items[j]].offset < md[items[k]].offset
    \/ md[items[j]].offset = md[items[k]].offset /\ j < k

\* The slots that hold members.
MemberSlots(items) == {k \in DOMAIN items : IsMember(items[k])}

\* Members go into the slots of members in the order of their offsets.
Ordered(items) ==
    LET slots == MemberSlots(items)
        rank(j) == Cardinality({i \in slots : Before(items, i, j)})
        place(k) == Cardinality({i \in slots : i < k})
    IN  [k \in DOMAIN items |->
            IF k \in slots THEN items[CHOOSE j \in slots : rank(j) = place(k)] ELSE items[k]]

MemberLists ==
    {md[c].elements : c \in {id \in DOMAIN md : Kind(id) = "composite" /\ md[id].tag \in COMPOSITE_TAGS}}

\* 3. Members.
SortMembers ==
    /\ stage = "members"
    /\ stage' = "parameters"
    /\ md' = [id \in DOMAIN md |->
                IF Kind(id) = "tuple" /\ id \in MemberLists
                THEN TupleNode(Ordered(md[id].items))
                ELSE md[id]]
    /\ UNCHANGED <<code, visited, extra>>

\* Mutants: no variable counts; one without a name counts.
HaveNone(items) == {}

HaveUnnamed(items) == {md[v].arg : v \in {i \in Range(items) : Kind(i) = "variable"}} \ {0}

\* The arguments that variables in items name.
Have(items) ==
    {md[v].arg : v \in {i \in Range(items) : Kind(i) = "variable" /\ md[i].name # Unnamed}} \ {0}

\* The arguments of a subprogram that lack a name.
Lacking(sp) ==
    LET args == parameter_types(sp) IN
    {k \in DOMAIN args : args[k] # null} \ Have(Items(md[sp].retained))

param(sp, k) == <<"param", sp, k>>
new_retained(sp) == <<"retained", sp>>

\* 4. Parameters: of one subprogram.
NameParameters(sp) ==
    LET lacking == Lacking(sp)
        added == [i \in 1..Cardinality(lacking) |->
                    param(sp, CHOOSE k \in lacking : Cardinality({j \in lacking : j < k}) = i - 1)]
        items == Items(md[sp].retained) \o added
        retained == md[sp].retained
    IN
    /\ stage = "parameters"
    /\ Kind(sp) = "subprogram" /\ md[sp].definition /\ sp \notin visited
    /\ visited' = visited \union {sp}
    /\ IF lacking = {}
       THEN UNCHANGED <<md, extra>>
       ELSE /\ extra' = [v \in Range(added) |-> Variable("param", v[3], sp)] ++ extra
                            ++ (IF Kind(retained) = "tuple" THEN <<>>
                                ELSE Node(new_retained(sp), TupleNode(items)))
            /\ md' = IF Kind(retained) = "tuple"
                     THEN [md EXCEPT ![retained] = TupleNode(items)]
                     ELSE [md EXCEPT ![sp].retained = new_retained(sp)]
    /\ UNCHANGED <<stage, code>>

\* Mutant: what was made is left out.
WriteWithout ==
    /\ stage = "parameters"
    /\ \A sp \in DOMAIN md : Kind(sp) = "subprogram" /\ md[sp].definition => sp \in visited
    /\ stage' = "llc"
    /\ extra' = <<>>
    /\ UNCHANGED <<md, code, visited>>

\* The file is written, with what was made.
WriteFixed ==
    /\ stage = "parameters"
    /\ \A sp \in DOMAIN md : Kind(sp) = "subprogram" /\ md[sp].definition => sp \in visited
    /\ stage' = "llc"
    /\ md' = md ++ extra
    /\ extra' = <<>>
    /\ UNCHANGED <<code, visited>>

FixupNext ==
    \/ SanitizeNames \/ RecodeBasicTypes \/ SortMembers
    \/ \E sp \in DOMAIN md : NameParameters(sp)
    \/ WriteFixed
==============================================================================

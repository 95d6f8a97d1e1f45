------------------------------ MODULE FieldReloc ------------------------------
(***************************************************************************)
(* bpf-postproc: each call of a field-info polyfill is replaced by the     *)
(* access of a field, step by step, and one field-info query.  Which field *)
(* is meant is written nowhere but in the types of the parameters of the   *)
(* helper the call was inlined from.                                       *)
(*                                                                         *)
(* An element of code is either a call                                     *)
(*   op = "call", callee, nargs, scope (of its debug location)             *)
(* or, after this pass, a query                                            *)
(*   op = "info", kind, steps: a sequence of [type, index]                 *)
(* Members are counted from one.  Both have the fields                     *)
(*   source: the root and the field names the program wrote                *)
(*   after: the queries that must have answered yes for it to be reached   *)
(* which the pass does not know.                                           *)
(***************************************************************************)
EXTENDS DebugInfo

CONSTANT WithoutPrefix  \* for each name with the carrier prefix, the rest of it

VARIABLE at             \* the instruction the pass looks at

field_info_kind ==
    [polyfill \in {"__btf_field_byte_offset", "__btf_field_exists"} |->
        IF polyfill = "__btf_field_byte_offset" THEN 0 ELSE 2]

IsPolyfill(instr) == instr.op = "call" /\ instr.callee \in DOMAIN field_info_kind

\* The subprogram around a location, or none.
HelperOf(scope) ==
    LET around[s \in DOMAIN md \union {null}] ==
            IF Kind(s) = "block" THEN around[md[s].scope] ELSE s
    IN  IF Kind(around[scope]) = "subprogram" THEN around[scope] ELSE null

\* What parameter k of the helper points to.
Pointee(helper, k) ==
    LET params == parameter_types(helper) IN
    IF /\ k \in DOMAIN params
       /\ Kind(params[k]) = "derived"
       /\ md[params[k]].tag = "pointer_type"
    THEN base_type(params[k])
    ELSE null

\* The last member of that name, or none.
MemberCalled(c, name) ==
    LET i == SelectLastInSeq(elements(c), LAMBDA e : Named(e, name)) IN
    IF i = 0 THEN null ELSE elements(c)[i]

\* The name of the first member that has one.
MarkedField(c) ==
    LET i == SelectInSeq(elements(c),
                         LAMBDA e : Kind(e) = "derived" /\ md[e].name # Unnamed) IN
    IF i = 0 THEN Unnamed ELSE md[elements(c)[i]].name

\* The walk meets the last field first; the names are reversed at its end.
RootFirst(before, name) == Append(before, name)

\* The composite a member of that name has for type, or none.
TypeOfMember(c, name) ==
    IF null \in {c, MemberCalled(c, name)} THEN null
    ELSE UnderlyingComposite(base_type(MemberCalled(c, name)))

IsFieldPath(c) == null \notin {MemberCalled(c, "parent"), MemberCalled(c, "field")}

\* The names along a path type, from field to parent.  What is no path gives an unnamed
\* field.
FieldNames(path) ==
    LET node[k \in Nat] ==
            IF k = 0 THEN UnderlyingComposite(path) ELSE TypeOfMember(node[k - 1], "parent")
        name(c) == LET marker == TypeOfMember(c, "field") IN
                   IF marker = null THEN Unnamed ELSE MarkedField(marker)
        names[k \in Nat] ==
            IF node[k] = null THEN <<Unnamed>>
            ELSE IF IsFieldPath(node[k]) THEN RootFirst(names[k + 1], name(node[k]))
            ELSE <<>>
    IN  names[0]

\* The accesses that lead from a carrier along names; index 0 where there is no
\* such field, type null where the field before is no composite.
StepsFrom(carrier, names) ==
    LET first(c, name) == SelectInSeq(elements(c), LAMBDA e : Named(e, name))
        step(c, name) == [type |-> c, index |-> IF c = null THEN 0 ELSE first(c, name)]
        steps[k \in 1..Len(names)] ==
            IF k = 1
            THEN step(carrier, names[1])
            ELSE LET s == steps[k - 1] IN
                 step(IF s.index = 0 THEN null
                      ELSE UnderlyingComposite(base_type(elements(s.type)[s.index])),
                      names[k])
    IN  [k \in 1..Len(names) |-> steps[k]]

\* The accesses a call stands for; none when it is malformed.
StepsOf(call) ==
    LET helper == HelperOf(call.scope) IN
    IF call.nargs # 2 \/ helper = null
    THEN <<>>
    ELSE LET carrier == Pointee(helper, 1)
             names == FieldNames(Pointee(helper, 2)) IN
         IF Kind(carrier) # "composite" \/ Unnamed \in Range(names)
         THEN <<>>
         ELSE StepsFrom(carrier, names)

Resolves(call) ==
    LET steps == StepsOf(call) IN
    steps # <<>> /\ \A k \in DOMAIN steps : steps[k].index # 0

\* The types on the way get their kernel names back.
Restored(steps) ==
    [id \in DOMAIN md |->
        IF /\ \E k \in DOMAIN steps : steps[k].type = id
           /\ Kind(id) = "composite"
           /\ md[id].name \in DOMAIN WithoutPrefix
        THEN [md[id] EXCEPT !.name = WithoutPrefix[@]]
        ELSE md[id]]

\* The chain of accesses built in place of a call, and the query at its end.
FieldInfo(call, steps) ==
    [op |-> "info", kind |-> field_info_kind[call.callee], steps |-> steps,
     source |-> call.source, after |-> call.after]

------------------------------------------------------------------------------

\* Mutant: the instruction behind one that is erased is passed over.
SkipsOne(i) == IF IsPolyfill(code[i]) THEN i + 2 ELSE i + 1

\* Functions, blocks and instructions in their order.  The calls are found before any
\* is replaced, so what is built or erased is nothing to the iterators.
Following(i) == i + 1

Looking == stage = "reloc" /\ at \in DOMAIN code

PassOver ==
    /\ Looking /\ ~IsPolyfill(code[at])
    /\ at' = Following(at)
    /\ UNCHANGED <<stage, md, code>>

lower_polyfill ==
    /\ Looking /\ IsPolyfill(code[at]) /\ Resolves(code[at])
    /\ LET steps == StepsOf(code[at]) IN
       /\ md' = Restored(steps)
       /\ code' = [code EXCEPT ![at] = FieldInfo(@, steps)]
    /\ at' = Following(at)
    /\ UNCHANGED stage

\* Mutant: the pass goes on with the next call.
GoOn ==
    /\ Looking /\ IsPolyfill(code[at]) /\ ~Resolves(code[at])
    /\ at' = Following(at)
    /\ UNCHANGED <<stage, md, code>>

\* The first call that cannot be lowered ends the program; nothing is written.
GiveUp ==
    /\ Looking /\ IsPolyfill(code[at]) /\ ~Resolves(code[at])
    /\ stage' = "failed"
    /\ UNCHANGED <<md, code, at>>

\* The module is written, or cannot be.
WriteModule ==
    /\ stage = "reloc" /\ at \notin DOMAIN code
    /\ stage' \in {"opt", "failed"}
    /\ UNCHANGED <<md, code, at>>

RelocNext == PassOver \/ lower_polyfill \/ GiveUp \/ WriteModule
==============================================================================

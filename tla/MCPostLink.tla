----------------------------- MODULE MCPostLink -----------------------------
(***************************************************************************)
(* Instances of PostLink for TLC: two schemas of one kernel struct, one of *)
(* them flavored, with a struct inside, a pointer to its own kind and an   *)
(* array in different places; Rust types with members out of order, base   *)
(* classes and methods among them; and functions whose variables name all, *)
(* some or none of their arguments.                                        *)
(***************************************************************************)
EXTENDS PostLink

TheFields ==
    [task |-> <<[name |-> "parent", type |-> "*const task"], [name |-> "pid", type |-> "u32"],
                [name |-> "se", type |-> "se"]>>,
     task___new |-> <<[name |-> "cpus", type |-> "[u32; 2]"], [name |-> "se", type |-> "se"],
                      [name |-> "pid", type |-> "u32"],
                      [name |-> "parent", type |-> "*const task___new"]>>,
     se |-> <<[name |-> "on", type |-> "unit"], [name |-> "weight", type |-> "u32"]>>]
TheSize == [u8 |-> 1, u32 |-> 4, unit |-> 0]
ThePointers == ("*const task" :> "task") @@ ("*const task___new" :> "task___new")
TheArrays == ("[u32; 2]" :> [of |-> "u32", n |-> 2])
TheEssential == [task |-> "task", task___new |-> "task", se |-> "se"]
TheWithoutPrefix == [n \in {CarrierName(s) : s \in Structs} |->
                        CHOOSE s \in Structs : CarrierName(s) = n]
TheSanitized ==
    [n \in {"FieldPath<P, F>", "btf_field<C, P>", "*const T", "Formatter<'_>", "new<T>"} |->
        CASE n = "FieldPath<P, F>" -> "FieldPath_P__F_"
          [] n = "btf_field<C, P>" -> "btf_field_C__P_"
          [] n = "*const T" -> "_const_T"
          [] n = "Formatter<'_>" -> "Formatter____"
          [] n = "new<T>" -> "new_T_"]

InTask(path) == [struct |-> "task", path |-> path]
AllFields == {InTask(<<"parent">>), InTask(<<"pid">>), InTask(<<"se">>), InTask(<<"se", "on">>),
              InTask(<<"se", "weight">>)}
TheKernels == {AllFields, AllFields \ {InTask(<<"se", "weight">>)}, {InTask(<<"se">>)}}

Access(op, root, path) == [op |-> op, root |-> root, path |-> path]
Paths == {<<"parent">>, <<"pid">>, <<"se">>, <<"se", "weight">>}

(* Other types and functions. *)
u32 == <<"basic", "u32">>
rust(name) == <<"rust", name>>
utf == (basic("char") :> Basic("char", "UTF"))

\* A struct of two members, with a base class and a method: in which slots, and at
\* which offsets the members are.
Formatter(order, offsets) ==
    LET item == [buf |-> <<"rust", "buf">>, options |-> <<"rust", "options">>,
                 base |-> <<"rust", "base">>, new |-> <<"rust", "new">>] IN
    (rust("Formatter") :> Composite("Formatter<'_>", "structure_type", rust("list")))
        @@ (rust("list") :> TupleNode([k \in DOMAIN order |-> item[order[k]]]))
        @@ (rust("buf") :> Derived("buf", "member", basic("char"), offsets[1]))
        @@ (rust("options") :> Derived("options", "member", u32, offsets[2]))
        @@ (rust("base") :> Derived("base", "inheritance", u32, 4))
        @@ (rust("new") :> Subprogram("new<T>", FALSE, null, null))

Formatters ==
    {Formatter(order, offsets) :
        order \in {<<"options", "buf">>, <<"options", "base", "buf", "new">>,
                   <<"new", "buf", "base", "options">>},
        offsets \in {<<0, 8>>, <<8, 0>>, <<8, 8>>}}

\* A function of two arguments, and what its variables name of them.  Without any
\* it refers to the empty tuple, as every other such function, or to none.
Function(f, args, variables) ==
    LET variable(v) == <<"variable", rust(f), v.arg>> IN
    (rust(f) :> Subprogram(f, TRUE, <<"types", rust(f)>>,
                           IF variables = <<>> THEN <<"empty">>
                           ELSE IF variables = <<null>> THEN null
                           ELSE <<"variables", rust(f)>>))
        @@ (<<"types", rust(f)>> :> TupleNode(<<null>> \o args))
        @@ (<<"empty">> :> TupleNode(<<>>))
        @@ (IF variables \in {<<>>, <<null>>} THEN <<>>
            ELSE <<"variables", rust(f)>> :> TupleNode([k \in DOMAIN variables |-> variable(variables[k])])
                  @@ [v \in {variable(variables[k]) : k \in DOMAIN variables} |->
                        LET k == CHOOSE k \in DOMAIN variables : variable(variables[k]) = v IN
                        Variable(variables[k].name, variables[k].arg, rust(f))])

Var(name, arg) == [name |-> name, arg |-> arg]
Functions ==
    {Function("f", args, vf) @@ Function("g", <<u32>>, vg) :
        args \in {<<u32, u32>>, <<u32, null>>},
        vf \in {<<>>, <<null>>, <<Var("x", 1)>>, <<Var("", 1), Var("y", 2)>>, <<Var("local", 0)>>},
        vg \in {<<>>, <<Var("z", 1)>>}}

(* Other calls: of a kernel function; a polyfill the program declares and calls
   with one argument; one in a function of its own; one without debug info. *)
OtherCall(callee, nargs, scope) ==
    [op |-> "call", callee |-> callee, nargs |-> nargs, scope |-> scope,
     source |-> Access("exists", "task", <<"pid">>), after |-> {}]
OtherCalls ==
    {OtherCall("bpf_kfunc", 1, rust("f")), OtherCall("__btf_field_exists", 1, rust("f")),
     OtherCall("__btf_field_exists", 2, rust("f")), OtherCall("__btf_field_exists", 2, null)}

PlainFunctions == {Function("f", <<u32, u32>>, <<Var("x", 1)>>)}
PlainFormatters == {Formatter(<<"options", "buf">>, <<0, 8>>)}

Programs1(probes, accesses, formatters, functions, calls) ==
    [probes : probes, accesses : accesses, calls : calls,
     nodes : {utf @@ t @@ f : t \in formatters, f \in functions}]

Probe(path) == Access("probe", "task___new", path)
\* Each access, alone and after another of the other schema; each Rust type and
\* function, with one access; each other call.
RequiredPrograms ==
    Programs1({<<Probe(<<"pid">>), Probe(<<"se", "weight">>)>>},
              {<<Access("exists", "task", p), Access("required", "task___new", q)>> :
                    p \in Paths, q \in Paths},
              PlainFormatters, PlainFunctions, {<<>>})
    \union Programs1({<<>>}, {<<Access("get", "task", p), Access("exists", r, q)>> :
                                p \in Paths, q \in Paths, r \in {"task", "task___new"}},
                     PlainFormatters, PlainFunctions, {<<>>})
OtherPrograms ==
    Programs1({<<>>}, {<<>>, <<Access("get", "task", <<"se", "weight">>)>>},
              Formatters, Functions, {<<>>})
    \union Programs1({<<>>}, {<<Access("get", "task", <<"se", "weight">>)>>},
                     PlainFormatters, PlainFunctions, {<<c>> : c \in OtherCalls})
ThePrograms == RequiredPrograms \union OtherPrograms
==============================================================================

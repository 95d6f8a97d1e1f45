----------------------------- MODULE MCLinkRounds -----------------------------
(***************************************************************************)
(* Instances of LinkRounds for TLC: every way to spread two functions over *)
(* two objects and let them refer to each other and to a kernel function,  *)
(* and chains of functions of as many objects; and a program that calls    *)
(* the __multi3 linked to it, with digits to base three.                   *)
(***************************************************************************)
EXTENDS LinkRounds, Multi3, TLC

Chain == <<"f1", "f2", "f3", "f4", "f5", "f6">>
ChainSet == Range(Chain)
TheSymbols == {"prog", "kfunc", Multi3Symbol} \union ChainSet

Refs(r) == r @@ [s \in TheSymbols |-> {}]
Program(objects, refs) == [main |-> {"prog"}, objects |-> objects, refs |-> Refs(refs)]

Small ==
    {Program(objects, [prog |-> p, f1 |-> r1, f2 |-> r2]) :
        objects \in [{"a", "b"} -> SUBSET {"f1", "f2"}],
        p \in SUBSET {"f1", "f2"}, r1 \in SUBSET {"f2", "kfunc"}, r2 \in SUBSET {"f1", "kfunc"}}

\* Each function of the chain is in an object of its own and refers to the next.
Chains ==
    {Program([o \in 1..n |-> {Chain[o]}],
             [s \in {"prog"} \union {Chain[i] : i \in 1..(n - 1)} |->
                 {Chain[IF s = "prog" THEN 1 ELSE 1 + CHOOSE i \in 1..n : Chain[i] = s]}]) :
        n \in {3, 5, 6}}

Twice == Program([o \in {"a"} |-> {Multi3Symbol}], [prog |-> {Multi3Symbol}])
Caller == Program([o \in {"a"} |-> {"f1"}], [prog |-> {Multi3Symbol}])

ThePrograms == Small \union Chains \union {Twice, Caller}

Forward(n) == [i \in 1..n |-> i]
Backward(n) == [i \in 1..n |-> n + 1 - i]
TheOrders(p) ==
    LET objects == DOMAIN p.objects
        n == Cardinality(objects) IN
    IF p \in Chains THEN {Forward(n), Backward(n)}
    ELSE {order \in [1..n -> objects] : Range(order) = objects}

TheWithin(p, k) ==
    LET within[i \in 0..6] == IF i = 0 THEN p.main ELSE Hop(p, within[i - 1]) IN within[k]

LinkedInit == Init /\ NotCalled

LinkedNext ==
    \/ Next /\ UNCHANGED <<operands, product>>
    \/ /\ pc = "done" /\ Multi3Symbol \in RefsOf(program, program.main)
       /\ Multiply
       /\ UNCHANGED vars

LinkedSpec == LinkedInit /\ [][LinkedNext]_<<vars, operands, product>>
==============================================================================

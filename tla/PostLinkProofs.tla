---------------------------- MODULE PostLinkProofs ----------------------------
(***************************************************************************)
(* What holds of bpf-postproc, btf_fixup.py and the kernel's checks for    *)
(* any program, schema, kernel and number of nodes:                        *)
(*   - a module is lowered whole or not at all (AllLowered);               *)
(*   - references lead to nodes at every step (TypeCorrect);               *)
(*   - no list loses a node, and what is no member stays (ListsStay);      *)
(*   - an argument keeps the name it has (ArgumentNamesStay);              *)
(*   - the kernel takes the BTF of what is written (BtfTaken).             *)
(* PostLinkTargets goes on from here.                                      *)
(* The invariant is about Nodes, what would be written if pass 4 ended     *)
(* now, for the variables it makes are no part of md before.               *)
(***************************************************************************)
EXTENDS PostLink, FiniteSetTheorems, WellFoundedInduction, TLAPS

------------------------------------------------------------------------------
(* Finite sets of numbers in their order, and what sorting members does. *)

\* A strict total order of S, as a set of pairs.
Orders(R, S) ==
    /\ \A i \in S : <<i, i>> \notin R
    /\ \A i, j, k \in S : <<i, j>> \in R /\ <<j, k>> \in R => <<i, k>> \in R
    /\ \A i, j \in S : i # j => <<i, j>> \in R \/ <<j, i>> \in R

Rank(R, S, j) == Cardinality({i \in S : <<i, j>> \in R})

Ranks(R, S) ==
    /\ \A i, j \in S : <<i, j>> \in R <=> Rank(R, S, i) < Rank(R, S, j)
    /\ \A j \in S : Rank(R, S, j) \in 0..(Cardinality(S) - 1)
    /\ \A r \in 0..(Cardinality(S) - 1) : \E j \in S : Rank(R, S, j) = r

\* The ranks of the elements of an ordered set are the numbers below its size, each
\* of one of them.
LEMMA Ranking ==
    ASSUME NEW S, IsFiniteSet(S), NEW R, Orders(R, S)
    PROVE  Ranks(R, S)
<1> DEFINE below(j) == {i \in S : <<i, j>> \in R}
           n == Cardinality(S)
<1>1. n \in Nat
  BY FS_CardinalityType
<1>2. ASSUME NEW j \in S
      PROVE  IsFiniteSet(below(j)) /\ Rank(R, S, j) \in Nat /\ Rank(R, S, j) < n
  <2>1. below(j) \in SUBSET S /\ below(j) # S
    BY DEF Orders
  <2>2. IsFiniteSet(below(j)) /\ Cardinality(below(j)) <= n /\ Cardinality(below(j)) # n
    BY <2>1, FS_Subset
  <2>3. Cardinality(below(j)) \in Nat
    BY <2>2, FS_CardinalityType
  <2> QED  BY <1>1, <2>2, <2>3 DEF Rank
<1>3. ASSUME NEW i \in S, NEW j \in S, <<i, j>> \in R
      PROVE  Rank(R, S, i) < Rank(R, S, j)
  <2>1. below(i) \in SUBSET below(j) /\ i \in below(j) /\ i \notin below(i)
    BY <1>3 DEF Orders
  <2>2. Cardinality(below(i)) <= Cardinality(below(j))
        /\ Cardinality(below(i)) # Cardinality(below(j))
    BY <1>2, <2>1, FS_Subset
  <2> QED  BY <1>2, <2>2 DEF Rank
<1> HIDE DEF n
<1>0. \A j \in S : Rank(R, S, j) \in Nat /\ Rank(R, S, j) < n
  BY <1>2 DEF n
<1> HIDE DEF below
<1>4. ASSUME NEW i \in S, NEW j \in S, ~(<<i, j>> \in R)
      PROVE  ~(Rank(R, S, i) < Rank(R, S, j))
  <2>1. CASE i = j
    BY <1>0, <2>1
  <2>2. CASE <<j, i>> \in R
    <3>1. Rank(R, S, j) < Rank(R, S, i)
      BY <1>3, <2>2
    <3> QED  BY <1>0, <3>1
  <2> QED  BY <1>4, <2>1, <2>2 DEF Orders
<1> DEFINE f == [j \in S |-> Rank(R, S, j)]
           T == 0..(n - 1)
<1>5. ASSUME NEW j \in S PROVE Rank(R, S, j) \in T
  <2>1. Rank(R, S, j) \in Nat /\ Rank(R, S, j) < n
    BY <1>0
  <2> QED  BY <1>1, <2>1
<1>6. f \in [S -> T]
  BY <1>5
<1>7. ASSUME NEW i \in S, NEW j \in S, f[i] = f[j] PROVE i = j
  <2>1. Rank(R, S, i) = Rank(R, S, j) /\ Rank(R, S, i) \in Nat /\ Rank(R, S, j) \in Nat
    BY <1>0, <1>7
  <2>2. <<i, j>> \notin R /\ <<j, i>> \notin R
    <3>1. ~(Rank(R, S, i) < Rank(R, S, j)) /\ ~(Rank(R, S, j) < Rank(R, S, i))
      BY <2>1
    <3> QED  BY <1>3, <3>1
  <2> QED  BY <2>2 DEF Orders
<1>8. f \in Injection(S, T)
  <2> HIDE DEF f, T
  <2> QED  BY <1>6, <1>7 DEF Injection, IsInjective
<1>9. IsFiniteSet(T) /\ Cardinality(T) = n
  BY <1>1, FS_Interval
<1>10. f \in Surjection(S, T)
  <2>1. Cardinality(S) = Cardinality(T)
    BY <1>9 DEF n
  <2> HIDE DEF f, T
  <2> QED  BY <1>8, <1>9, <2>1, FS_Injection
<1>11. \A r \in T : \E j \in S : f[j] = r
  <2> HIDE DEF f, T
  <2> QED  BY <1>10 DEF Surjection
<1>12. \A r \in T : \E j \in S : Rank(R, S, j) = r
  BY <1>11
<1> QED  BY <1>3, <1>4, <1>5, <1>12 DEF n, Ranks

\* A set of numbers up to n has a largest one.
LEMMA MaxOfSome ==
    ASSUME NEW n \in Nat, NEW S \in SUBSET (1..n), S # {}
    PROVE  Max(S) \in S /\ \A x \in S : x <= Max(S)
<1> DEFINE D == {n - x : x \in S}
<1>1. D \subseteq Nat /\ D # {}
  <2>1. \A x \in S : n - x \in Nat
    OBVIOUS
  <2> QED  BY <2>1
<1>2. PICK d \in D : \A e \in D : ~(<<e, d>> \in OpToRel(<, Nat))
  <2> HIDE DEF D
  <2> QED  BY <1>1, WFMin, NatLessThanWellFounded, Zenon
<1>3. PICK x \in S : d = n - x
  BY <1>2
<1>4. ASSUME NEW y \in S PROVE x >= y
  <2>1. n - y \in D /\ n - y \in Nat /\ n - x \in Nat
    OBVIOUS
  <2>2. ~(n - y < n - x)
    BY <1>2, <1>3, <2>1 DEF OpToRel
  <2> QED  BY <2>1, <2>2
<1>5. Max(S) \in S /\ \A y \in S : Max(S) >= y
  BY <1>4 DEF Max
<1> QED  BY <1>5

\* Ordered permutes the members among their slots, in the order of their offsets,
\* and leaves everything else where it is.
LEMMA OrderedList ==
    ASSUME NEW items, NEW n \in Nat, DOMAIN items = 1..n,
           \A k \in MemberSlots(items) : md[items[k]].offset \in Nat
    PROVE  LET new == Ordered(items)
               slots == MemberSlots(items) IN
           /\ DOMAIN new = 1..n
           /\ \A k \in (1..n) \ slots : new[k] = items[k]
           /\ \A k \in slots : \E j \in slots : new[k] = items[j]
           /\ \A j \in slots : \E k \in slots : new[k] = items[j]
           /\ \A j, k \in slots : j < k => md[new[j]].offset <= md[new[k]].offset
<1> DEFINE new == Ordered(items)
           slots == MemberSlots(items)
           offset(k) == md[items[k]].offset
           B == {r \in slots \X slots : Before(items, r[1], r[2])}
           L == {r \in slots \X slots : r[1] < r[2]}
           source(k) == CHOOSE j \in slots : Rank(B, slots, j) = Rank(L, slots, k)
<1>1. slots \subseteq 1..n /\ IsFiniteSet(slots)
  <2>1. slots \in SUBSET (1..n)
    BY DEF MemberSlots
  <2> QED  BY <2>1, FS_Interval, FS_Subset
<1>2. \A j \in slots : offset(j) \in Nat
  OBVIOUS
<1>3. /\ \A i, j \in slots : <<i, j>> \in L <=> i < j
      /\ \A i, j \in slots : <<i, j>> \in B <=>
            offset(i) < offset(j) \/ (offset(i) = offset(j) /\ i < j)
  <2> HIDE DEF slots
  <2> SUFFICES ASSUME NEW i \in slots, NEW j \in slots
               PROVE  /\ <<i, j>> \in L <=> i < j
                      /\ <<i, j>> \in B <=>
                            offset(i) < offset(j) \/ (offset(i) = offset(j) /\ i < j)
    BY Zenon
  <2>1. <<i, j>> \in L <=> i < j
    OBVIOUS
  <2>2. <<i, j>> \in B <=> Before(items, i, j)
    OBVIOUS
  <2> HIDE DEF B, L
  <2>3. <<i, j>> \in B <=> offset(i) < offset(j) \/ (offset(i) = offset(j) /\ i < j)
    BY <2>2, Zenon DEF Before
  <2> QED  BY <2>1, <2>3, Zenon
<1>4. \A k \in slots :
          /\ Cardinality({i \in slots : i < k}) = Rank(L, slots, k)
          /\ Cardinality({i \in slots : Before(items, i, k)}) = Rank(B, slots, k)
  <2> SUFFICES ASSUME NEW k \in slots
               PROVE  /\ {i \in slots : i < k} = {i \in slots : <<i, k>> \in L}
                      /\ {i \in slots : Before(items, i, k)} = {i \in slots : <<i, k>> \in B}
    BY Zenon DEF Rank
  <2> QED  OBVIOUS
<1>5. /\ DOMAIN new = 1..n
      /\ \A k \in (1..n) \ slots : new[k] = items[k]
      /\ \A k \in slots : new[k] = items[source(k)]
  <2>1. new = [k \in 1..n |-> IF k \in slots
                THEN items[CHOOSE j \in slots :
                        Cardinality({i \in slots : Before(items, i, j)})
                            = Cardinality({i \in slots : i < k})]
                ELSE items[k]]
    BY Zenon DEF Ordered
  <2>2. ASSUME NEW k \in slots
        PROVE  (CHOOSE j \in slots : Cardinality({i \in slots : Before(items, i, j)})
                                        = Cardinality({i \in slots : i < k})) = source(k)
    <3> HIDE DEF slots, B, L
    <3>1. \A j \in slots : (Cardinality({i \in slots : Before(items, i, j)})
                             = Cardinality({i \in slots : i < k}))
                            <=> (Rank(B, slots, j) = Rank(L, slots, k))
      BY <1>4
    <3> QED  BY <3>1
  <2> HIDE DEF new, slots, source
  <2> QED  BY <1>1, <2>1, <2>2
<1> HIDE DEF new, slots, B, L, offset
<1>6. Orders(L, slots) /\ Orders(B, slots)
  <2>1. \A j \in slots : j \in Nat
    BY <1>1
  <2>2. Orders(L, slots)
    BY <1>3, <2>1 DEF Orders
  <2>3. ASSUME NEW i \in slots, NEW j \in slots, NEW k \in slots,
               <<i, j>> \in B, <<j, k>> \in B
        PROVE  <<i, k>> \in B
    <3>1. /\ offset(i) \in Nat /\ offset(j) \in Nat /\ offset(k) \in Nat
          /\ i \in Nat /\ j \in Nat /\ k \in Nat
      BY <1>2, <2>1
    <3>2. /\ offset(i) < offset(j) \/ (offset(i) = offset(j) /\ i < j)
          /\ offset(j) < offset(k) \/ (offset(j) = offset(k) /\ j < k)
      BY <1>3, <2>3
    <3>3. offset(i) < offset(k) \/ (offset(i) = offset(k) /\ i < k)
      BY <3>1, <3>2
    <3> QED  BY <1>3, <3>3
  <2>4. ASSUME NEW i \in slots, NEW j \in slots
        PROVE  /\ <<i, i>> \notin B
               /\ i # j => <<i, j>> \in B \/ <<j, i>> \in B
    <3>1. /\ offset(i) \in Nat /\ offset(j) \in Nat /\ i \in Nat /\ j \in Nat
      BY <1>2, <2>1
    <3>2. ~(offset(i) < offset(i) \/ (offset(i) = offset(i) /\ i < i))
      BY <3>1
    <3>3. <<i, i>> \notin B
      BY <1>3, <3>2, Zenon
    <3>4. i # j => \/ offset(i) < offset(j) \/ (offset(i) = offset(j) /\ i < j)
                  \/ offset(j) < offset(i) \/ (offset(j) = offset(i) /\ j < i)
      BY <3>1
    <3>5. i # j => <<i, j>> \in B \/ <<j, i>> \in B
      BY <1>3, <3>4, Zenon
    <3> QED  BY <3>3, <3>5
  <2>5. Orders(B, slots)
    BY <2>3, <2>4, Zenon DEF Orders
  <2> QED  BY <2>2, <2>5
<1>0. Ranks(L, slots) /\ Ranks(B, slots)
  BY <1>1, <1>6, Ranking
<1>7. \A k \in slots : source(k) \in slots /\ Rank(B, slots, source(k)) = Rank(L, slots, k)
  <2> SUFFICES ASSUME NEW k \in slots
               PROVE  \E j \in slots : Rank(B, slots, j) = Rank(L, slots, k)
    OBVIOUS
  <2>1. Rank(L, slots, k) \in 0..(Cardinality(slots) - 1)
    BY <1>0 DEF Ranks
  <2> QED  BY <1>0, <2>1 DEF Ranks
<1>8. ASSUME NEW j \in slots PROVE \E k \in slots : source(k) = j
  <2>1. PICK k \in slots : Rank(L, slots, k) = Rank(B, slots, j)
    <3>1. Rank(B, slots, j) \in 0..(Cardinality(slots) - 1)
      BY <1>0 DEF Ranks
    <3>2. \A r \in 0..(Cardinality(slots) - 1) : \E k \in slots : Rank(L, slots, k) = r
      BY <1>0 DEF Ranks
    <3> QED  BY <3>1, <3>2, Zenon
  <2>2. Rank(B, slots, source(k)) = Rank(B, slots, j) /\ source(k) \in slots
    BY <1>7, <2>1
  <2>3. Rank(B, slots, j) \in Nat
    BY <1>0 DEF Ranks
  <2> HIDE DEF source
  <2>4. ~(<<source(k), j>> \in B) /\ ~(<<j, source(k)>> \in B)
    <3>1. ~(Rank(B, slots, source(k)) < Rank(B, slots, j))
          /\ ~(Rank(B, slots, j) < Rank(B, slots, source(k)))
      BY <2>2, <2>3
    <3> QED  BY <1>0, <2>2, <3>1 DEF Ranks
  <2>5. source(k) = j
    BY <1>6, <2>2, <2>4 DEF Orders
  <2> QED  BY <2>5
<1>9. ASSUME NEW j \in slots, NEW k \in slots, j < k
      PROVE  offset(source(j)) <= offset(source(k))
  <2>1. <<j, k>> \in L
    BY <1>3, <1>9
  <2>2. Rank(L, slots, j) < Rank(L, slots, k)
    BY <1>0, <2>1 DEF Ranks
  <2>3. source(j) \in slots /\ source(k) \in slots
        /\ Rank(B, slots, source(j)) < Rank(B, slots, source(k))
    BY <1>7, <2>2
  <2> HIDE DEF source
  <2>4. <<source(j), source(k)>> \in B
    BY <1>0, <2>3 DEF Ranks
  <2>5. offset(source(j)) \in Nat /\ offset(source(k)) \in Nat
    BY <1>2, <2>3
  <2> QED  BY <1>3, <2>3, <2>4, <2>5
<1> HIDE DEF source
<1>10. \A k \in slots : \E j \in slots : new[k] = items[j]
  BY <1>5, <1>7
<1>11. \A j \in slots : \E k \in slots : new[k] = items[j]
  BY <1>5, <1>8
<1>12. \A j, k \in slots : j < k => md[new[j]].offset <= md[new[k]].offset
  BY <1>5, <1>9 DEF offset
<1> QED  BY <1>5, <1>10, <1>11, <1>12 DEF new, slots

------------------------------------------------------------------------------
(* The inductive invariant. *)

\* What would be written.
Nodes == md ++ extra

BeforePass4 == {"reloc", "opt", "fixup", "encodings", "members", "failed"}
Written == {"llc", "loaded", "rejected"}

\* References lead to nodes, in each graph.
Closed(g) ==
    \A id \in DOMAIN g :
        /\ IsNode(g[id])
        /\ g[id].kind = "tuple" => Range(g[id].items) \subseteq DOMAIN g \union {null}
        /\ g[id].kind = "subprogram" => g[id].retained \in DOMAIN g \union {null}

NamesAllowed(g) == \A id \in DOMAIN g : HasName(g[id]) => g[id].name \notin DOMAIN Sanitized
EncodingsAllowed(g) ==
    \A id \in DOMAIN g : g[id].kind = "basic" => g[id].encoding \in BTF_ENCODINGS

\* The variable in slot i of a list is of argument k.
IsArg(g, list, i, k) == KindIn(g, list[i]) = "variable" /\ g[list[i]].arg = k

\* A variable of argument k has a name, and so has each one behind it.
Shown(g, list, k) ==
    \E i \in DOMAIN list :
        /\ IsArg(g, list, i, k)
        /\ \A j \in DOMAIN list : j >= i /\ IsArg(g, list, j, k) => g[list[j]].name # Unnamed

VariablesOf(g, sp) == ItemsIn(g, g[sp].retained)

\* A node that pass 4 has made, for a subprogram it has seen.
Made(v) ==
    /\ v # null /\ v[2] \in visited
    /\ \/ v[1] = "param" /\ extra[v] = Variable("param", v[3], v[2])
       \/ v[1] = "retained" /\ extra[v].kind = "tuple"

\* A list names no argument twice when it is written.
NoneTwice(list) ==
    \A v \in Range(list) :
        v \in DOMAIN extra /\ extra[v].kind = "variable" => extra[v].arg \notin Have(list)

\* What pass 4 finds and keeps.
Pass4 ==
    /\ \A id \in DOMAIN md :
          /\ id # null /\ id[1] \notin {"param", "retained"}
          /\ Kind(id) = "tuple" => ArgumentsOnce(md, md[id].items) /\ NoneTwice(md[id].items)
          /\ Kind(id) = "composite" =>
                md[id].elements \in DOMAIN md \union {null} /\ Nondecreasing(elements(id))
          /\ Kind(id) = "subprogram" =>
                /\ md[id].types \in DOMAIN md \union {null}
                /\ \A sp \in DOMAIN md :
                      Kind(sp) = "subprogram" /\ Kind(md[id].types) = "tuple" =>
                          md[sp].retained # md[id].types
    /\ visited \subseteq {id \in DOMAIN md : Kind(id) = "subprogram"}
    /\ \A v \in DOMAIN extra : Made(v)
    /\ \A sp \in visited : \A k \in DOMAIN parameter_types(sp) :
          parameter_types(sp)[k] # null => Shown(Nodes, VariablesOf(Nodes, sp), k)

GraphInv ==
    /\ stage \in BeforePass4 \union {"parameters"} \union Written
    /\ Closed(Nodes)
    /\ stage \in BeforePass4 => visited = {} /\ extra = <<>> /\ WellFormed(md)
    /\ stage \notin {"reloc", "opt", "fixup", "failed"} => NamesAllowed(Nodes)
    /\ stage \notin {"reloc", "opt", "fixup", "failed", "encodings"} => EncodingsAllowed(Nodes)
    /\ stage = "parameters" => Pass4
    /\ stage \in Written => extra = <<>> /\ BtfAccepted /\ visited \subseteq DOMAIN md

\* What a program requires is behind each probe of its profile.
CodeInv ==
    /\ code \in Seq(Range(code))
    /\ \A i \in DOMAIN code :
          /\ code[i].op \in {"call", "info", "reloc"}
          /\ code[i].source.op \in {"exists", "get", "required", "probe"}
          /\ code[i].source.op = "required" =>
                \A j \in DOMAIN code : code[j].source.op = "probe" => j \in code[i].after
    /\ kernel \in Kernels \union {NoKernel}
    /\ stage \in {"loaded", "rejected"} => kernel \in Kernels

LEMMA NoExtra ==
    ASSUME extra = <<>>
    PROVE  DOMAIN Nodes = DOMAIN md /\ \A id \in DOMAIN md : Nodes[id] = md[id]
<1>1. DOMAIN extra = {}
  OBVIOUS
<1> QED  BY <1>1 DEF Nodes, ++

\* A pass that changes names and encodings only.
Renamed(g, h) ==
    /\ DOMAIN h = DOMAIN g
    /\ \A id \in DOMAIN g :
          /\ IsNode(h[id])
          /\ h[id].kind = g[id].kind
          /\ g[id].kind \in {"tuple", "block", "subrange"} => h[id] = g[id]
          /\ g[id].kind = "composite" => h[id].tag = g[id].tag /\ h[id].elements = g[id].elements
          /\ g[id].kind = "derived" => h[id].tag = g[id].tag /\ h[id].offset = g[id].offset
          /\ g[id].kind = "subprogram" =>
                /\ h[id].definition = g[id].definition
                /\ h[id].types = g[id].types /\ h[id].retained = g[id].retained
          /\ g[id].kind = "variable" => h[id].arg = g[id].arg

LEMMA RenamedNode ==
    ASSUME NEW node, IsNode(node), HasName(node), NEW name
    PROVE  LET new == [node EXCEPT !.name = name] IN
           /\ IsNode(new) /\ new.kind = node.kind /\ new.name = name
           /\ node.kind = "composite" => new.tag = node.tag /\ new.elements = node.elements
           /\ node.kind = "derived" => new.tag = node.tag /\ new.offset = node.offset
           /\ node.kind = "subprogram" =>
                /\ new.definition = node.definition
                /\ new.types = node.types /\ new.retained = node.retained
           /\ node.kind = "variable" => new.arg = node.arg
           /\ node.kind = "basic" => new.encoding = node.encoding
BY DEF IsNode, HasName, Composite, Derived, Basic, Subprogram, Variable, Block, TupleNode, Subrange

LEMMA RecodedNode ==
    ASSUME NEW node, IsNode(node), node.kind = "basic", NEW encoding
    PROVE  LET new == [node EXCEPT !.encoding = encoding] IN
           /\ IsNode(new) /\ new.kind = node.kind /\ new.encoding = encoding
           /\ new.name = node.name
BY DEF IsNode, Composite, Derived, Basic, Subprogram, Variable, Block, TupleNode, Subrange

LEMMA SameKinds ==
    ASSUME NEW g, NEW h, Renamed(g, h)
    PROVE  \A id : KindIn(h, id) = KindIn(g, id) /\ ItemsIn(h, id) = ItemsIn(g, id)
BY DEF Renamed, KindIn, ItemsIn

LEMMA RenamedWellFormed ==
    ASSUME NEW g, NEW h, WellFormed(g), Renamed(g, h)
    PROVE  WellFormed(h)
<1>1. \A id : KindIn(h, id) = KindIn(g, id) /\ ItemsIn(h, id) = ItemsIn(g, id)
  BY SameKinds
<1> SUFFICES ASSUME NEW id \in DOMAIN h
             PROVE  /\ IsNode(h[id])
                    /\ id # null /\ id[1] \notin {"param", "retained"}
                    /\ h[id].kind = "tuple" =>
                          /\ Range(h[id].items) \subseteq DOMAIN h \union {null}
                          /\ ArgumentsOnce(h, h[id].items)
                    /\ h[id].kind = "composite" =>
                          /\ h[id].elements \in DOMAIN h \union {null}
                          /\ h[id].tag \notin COMPOSITE_TAGS =>
                                \A m \in Range(ItemsIn(h, h[id].elements)) :
                                    KindIn(h, m) = "derived" => h[m].tag # "member"
                    /\ h[id].kind = "subprogram" =>
                          /\ {h[id].types, h[id].retained} \subseteq DOMAIN h \union {null}
                          /\ \A sp \in DOMAIN h :
                                h[sp].kind = "subprogram" /\ KindIn(h, h[id].types) = "tuple" =>
                                    h[sp].retained # h[id].types
  BY DEF WellFormed
<1>2. DOMAIN h = DOMAIN g /\ id \in DOMAIN g
  BY DEF Renamed
<1>3. IsNode(h[id]) /\ id # null /\ id[1] \notin {"param", "retained"}
  BY <1>2 DEF Renamed, WellFormed
<1>4. ASSUME h[id].kind = "tuple"
      PROVE  /\ Range(h[id].items) \subseteq DOMAIN h \union {null}
             /\ ArgumentsOnce(h, h[id].items)
  <2>1. g[id].kind = "tuple" /\ h[id] = g[id]
    BY <1>2, <1>4 DEF Renamed
  <2>2. Range(g[id].items) \subseteq DOMAIN g \union {null} /\ ArgumentsOnce(g, g[id].items)
    BY <1>2, <2>1 DEF WellFormed
  <2>3. ArgumentsOnce(h, h[id].items)
    <3>1. \A v : KindIn(g, v) = "variable" => h[v].arg = g[v].arg
      BY DEF Renamed, KindIn
    <3> QED  BY <1>1, <2>1, <2>2, <3>1 DEF ArgumentsOnce
  <2> QED  BY <1>2, <2>1, <2>2, <2>3
<1>5. ASSUME h[id].kind = "composite"
      PROVE  /\ h[id].elements \in DOMAIN h \union {null}
             /\ h[id].tag \notin COMPOSITE_TAGS =>
                   \A m \in Range(ItemsIn(h, h[id].elements)) :
                       KindIn(h, m) = "derived" => h[m].tag # "member"
  <2>1. g[id].kind = "composite" /\ h[id].elements = g[id].elements /\ h[id].tag = g[id].tag
    BY <1>2, <1>5 DEF Renamed
  <2>2. /\ g[id].elements \in DOMAIN g \union {null}
        /\ g[id].tag \notin COMPOSITE_TAGS =>
               \A m \in Range(ItemsIn(g, g[id].elements)) :
                   KindIn(g, m) = "derived" => g[m].tag # "member"
    BY <1>2, <2>1 DEF WellFormed
  <2>3. \A m : KindIn(g, m) = "derived" => h[m].tag = g[m].tag
    BY DEF Renamed, KindIn
  <2> QED  BY <1>1, <1>2, <2>1, <2>2, <2>3
<1>6. ASSUME h[id].kind = "subprogram"
      PROVE  /\ {h[id].types, h[id].retained} \subseteq DOMAIN h \union {null}
             /\ \A sp \in DOMAIN h :
                   h[sp].kind = "subprogram" /\ KindIn(h, h[id].types) = "tuple" =>
                       h[sp].retained # h[id].types
  <2>1. /\ g[id].kind = "subprogram"
        /\ h[id].types = g[id].types /\ h[id].retained = g[id].retained
    BY <1>2, <1>6 DEF Renamed
  <2>2. /\ {g[id].types, g[id].retained} \subseteq DOMAIN g \union {null}
        /\ \A sp \in DOMAIN g :
              g[sp].kind = "subprogram" /\ KindIn(g, g[id].types) = "tuple" =>
                  g[sp].retained # g[id].types
    BY <1>2, <2>1 DEF WellFormed
  <2>3. \A sp \in DOMAIN h : h[sp].kind = "subprogram" =>
            g[sp].kind = "subprogram" /\ h[sp].retained = g[sp].retained
    BY DEF Renamed
  <2> QED  BY <1>1, <1>2, <2>1, <2>2, <2>3
<1> QED  BY <1>3, <1>4, <1>5, <1>6

------------------------------------------------------------------------------
(* The debug info a program starts with. *)

\* A sequence is numbered from one.
LEMMA TupleItems ==
    ASSUME NEW node, IsNode(node), node.kind = "tuple"
    PROVE  /\ node.items \in Seq(Range(node.items))
           /\ \E n \in Nat : DOMAIN node.items = 1..n /\ Len(node.items) = n
<1>1. node.items \in Seq(Range(node.items))
  BY DEF IsNode, Composite, Derived, Basic, Subprogram, Variable, Block, TupleNode, Subrange
<1> DEFINE items == node.items
           S == Range(items)
<1>2. items \in Seq(S)
  BY <1>1
<1> HIDE DEF items, S
<1>3. Len(items) \in Nat /\ DOMAIN items = 1..Len(items)
  BY <1>2
<1>4. \E n \in Nat : DOMAIN items = 1..n /\ Len(items) = n
  BY <1>3
<1> QED  BY <1>1, <1>4 DEF items

LEMMA ListNode ==
    ASSUME NEW items, items \in Seq(Range(items))
    PROVE  IsNode(TupleNode(items)) /\ TupleNode(items).kind = "tuple"
           /\ TupleNode(items).items = items
<1> DEFINE node == TupleNode(items)
<1>1. node.kind = "tuple" /\ node.items = items
  BY DEF TupleNode
<1>2. node = TupleNode(node.items)
  BY <1>1
<1> HIDE DEF node
<1>3. IsNode(node)
  BY <1>1, <1>2 DEF IsNode
<1> QED  BY <1>1, <1>3 DEF node

\* Counting from zero reaches every number.
LEMMA Counting ==
    ASSUME NEW T, 0 \in T, \A n \in Nat : n \in T => n + 1 \in T
    PROVE  \A n \in Nat : n \in T
<1> SUFFICES ASSUME Nat \ T # {} PROVE FALSE
  OBVIOUS
<1>1. PICK x \in Nat \ T : \A y \in Nat \ T : ~(<<y, x>> \in OpToRel(<, Nat))
  BY WFMin, NatLessThanWellFounded, Zenon
<1>2. x \in Nat \ {0} /\ x - 1 \in Nat /\ x - 1 < x
  OBVIOUS
<1>3. x - 1 \in T
  BY <1>1, <1>2 DEF OpToRel
<1> QED  BY <1>2, <1>3

\* The offsets of fields, unfolded.
LEMMA OffsetsFollow ==
    ASSUME NEW s \in Structs, NEW n \in Nat, DOMAIN Fields[s] = 1..n
    PROVE  /\ DOMAIN Offset(s) = 1..n
           /\ \A k \in 1..n :
                 Offset(s)[k] = IF k = 1 THEN 0
                                ELSE Offset(s)[k - 1] + SizeOf[Fields[s][k - 1].type]
<1> DEFINE Rhs(g, k) == IF k = 1 THEN 0 ELSE g[k - 1] + SizeOf[Fields[s][k - 1].type]
           Upto(m, g) == g = [k \in 1..m |-> Rhs(g, k)]
           T == {m \in Nat : \E g : Upto(m, g)}
<1>1. 0 \in T
  <2> DEFINE h == [k \in 1..0 |-> 0]
  <2> HIDE DEF Rhs
  <2>1. Upto(0, h)
    OBVIOUS
  <2> HIDE DEF Upto
  <2> QED  BY <2>1
<1>2. \A m \in Nat : m \in T => m + 1 \in T
  <2> HIDE DEF Upto
  <2> SUFFICES ASSUME NEW m \in Nat, NEW g, Upto(m, g) PROVE \E h : Upto(m + 1, h)
    OBVIOUS
  <2> HIDE DEF Rhs
  <2> DEFINE h == [k \in 1..(m + 1) |-> IF k = m + 1 THEN Rhs(g, m + 1) ELSE g[k]]
  <2>1. h[m + 1] = Rhs(g, m + 1) /\ \A k \in 1..m : h[k] = g[k]
    OBVIOUS
  <2>2. \A k \in 1..m : g[k] = Rhs(g, k)
    BY DEF Upto
  <2>3. ASSUME NEW k \in 1..(m + 1) PROVE Rhs(h, k) = Rhs(g, k)
    <3>1. CASE k = 1
      BY <3>1 DEF Rhs
    <3>2. CASE k \in 2..(m + 1)
      <4>1. k # 1 /\ k - 1 \in 1..m
        BY <3>2
      <4>2. h[k - 1] = g[k - 1]
        BY <2>1, <4>1
      <4> HIDE DEF h
      <4> QED  BY <4>1, <4>2 DEF Rhs
    <3> QED  BY <3>1, <3>2
  <2>4. \A k \in 1..(m + 1) : h[k] = Rhs(h, k)
    <3> HIDE DEF h
    <3>1. \A k \in 1..(m + 1) : k = m + 1 \/ k \in 1..m
      OBVIOUS
    <3> QED  BY <2>1, <2>2, <2>3, <3>1
  <2>5. Upto(m + 1, h)
    BY <2>4 DEF Upto
  <2> QED  BY <2>5
<1>3. PICK some : Upto(n, some)
  <2> HIDE DEF Upto
  <2>1. n \in T
    <3> HIDE DEF T
    <3> QED  BY <1>1, <1>2, Counting
  <2> QED  BY <2>1
<1> DEFINE offset == Offset(s)
<1>4. Upto(n, offset)
  BY <1>3 DEF Offset
<1> HIDE DEF offset, Rhs
<1>5. DOMAIN offset = 1..n /\ \A k \in 1..n : offset[k] = Rhs(offset, k)
  BY <1>4
<1> QED  BY <1>5 DEF offset, Rhs

\* Offsets are numbers, and never fall along the fields.
LEMMA OffsetsGrow ==
    ASSUME NEW s \in Structs, NEW n \in Nat, DOMAIN Fields[s] = 1..n
    PROVE  /\ \A k \in 1..n : Offset(s)[k] \in Nat
           /\ \A j, k \in 1..n : j <= k => Offset(s)[j] <= Offset(s)[k]
<1> DEFINE offset == Offset(s)
           T == {m \in Nat : m <= n =>
                    /\ \A k \in 1..m : offset[k] \in Nat
                    /\ \A j, k \in 1..m : j <= k => offset[j] <= offset[k]}
<1>1. \A k \in 1..n : offset[k] = IF k = 1 THEN 0 ELSE offset[k - 1] + SizeOf[Fields[s][k - 1].type]
  BY OffsetsFollow
<1>2. \A k \in 1..n : SizeOf[Fields[s][k].type] \in Nat
  <2>1. \A k \in 1..n : Fields[s][k] \in Range(Fields[s])
    BY DEF Range
  <2> QED  BY <2>1, LayoutAssumption
<1> HIDE DEF offset
<1>3. 0 \in T
  OBVIOUS
<1>4. ASSUME NEW m \in Nat, m \in T PROVE m + 1 \in T
  <2> SUFFICES ASSUME m + 1 <= n
               PROVE  /\ \A k \in 1..(m + 1) : offset[k] \in Nat
                      /\ \A j, k \in 1..(m + 1) : j <= k => offset[j] <= offset[k]
    OBVIOUS
  <2>1. /\ \A k \in 1..m : offset[k] \in Nat
        /\ \A j, k \in 1..m : j <= k => offset[j] <= offset[k]
    BY <1>4
  <2>2. offset[m + 1] \in Nat /\ \A j \in 1..m : offset[j] <= offset[m + 1]
    <3>1. CASE m = 0
      <4>1. offset[1] = 0
        BY <1>1, <3>1
      <4> QED  BY <3>1, <4>1
    <3>2. CASE m # 0
      <4>1. m \in 1..m /\ m + 1 \in 1..n /\ m \in 1..n /\ m + 1 # 1
        BY <3>2
      <4>2. offset[m + 1] = offset[m] + SizeOf[Fields[s][m].type]
        BY <1>1, <4>1
      <4>3. SizeOf[Fields[s][m].type] \in Nat /\ offset[m] \in Nat
        BY <1>2, <2>1, <4>1
      <4>4. \A j \in 1..m : offset[j] \in Nat /\ offset[j] <= offset[m]
        BY <2>1, <4>1
      <4> QED  BY <4>2, <4>3, <4>4
    <3> QED  BY <3>1, <3>2
  <2>3. \A k \in 1..(m + 1) : k \in 1..m \/ k = m + 1
    OBVIOUS
  <2>4. \A j, k \in 1..(m + 1) : j <= k => offset[j] <= offset[k]
    <3> SUFFICES ASSUME NEW j \in 1..(m + 1), NEW k \in 1..(m + 1), j <= k
                 PROVE  offset[j] <= offset[k]
      OBVIOUS
    <3>1. CASE k = m + 1
      BY <2>2, <2>3, <3>1
    <3>2. CASE k # m + 1
      <4>1. j \in 1..m /\ k \in 1..m
        BY <3>2
      <4> QED  BY <2>1, <4>1
    <3> QED  BY <3>1, <3>2
  <2> QED  BY <2>1, <2>2, <2>3, <2>4
<1>5. n \in T
  <2> HIDE DEF T
  <2> QED  BY <1>3, <1>4, Counting
<1> QED  BY <1>5 DEF offset

Declared == {"carrier", "marker", "RootPath", "FieldPath"}

\* What the nodes of accesses are, by the first part of their ids.
Shape(id, node) ==
    \/ id[1] \in Declared /\ node = Composite(node.name, "structure_type", <<"elements", id>>)
    \/ id[1] = "array" /\ node = Composite(node.name, "array_type", <<"elements", id>>)
    \/ /\ id[1] = "elements" /\ node = TupleNode(node.items)
       /\ \A m \in Range(node.items) :
             m[1] = "subrange" \/ (m[1] = "member" /\ id[2][1] # "array")
    \/ /\ id[1] = "types" /\ node = TupleNode(node.items)
       /\ \A t \in Range(node.items) : t[1] \in {"basic", "pointer"}
    \/ /\ id[1] = "variables"
       /\ node = TupleNode(<<<<"variable", id[2], 1>>, <<"variable", id[2], 2>>>>)
    \/ id[1] = "helper" /\ node = Subprogram(node.name, TRUE, <<"types", id>>, <<"variables", id>>)
    \/ id[1] = "variable" /\ node = Variable(node.name, id[3], node.scope)
    \/ id[1] \in {"member", "pointer"} /\ node.kind = "derived"
    \/ id[1] = "basic" /\ node.kind = "basic"
    \/ id[1] = "block" /\ node.kind = "block"
    \/ id[1] = "subrange" /\ node = Subrange

\* What they refer to is in D.
Refers(node, D) ==
    /\ node.kind = "tuple" => Range(node.items) \subseteq D
    /\ node.kind = "composite" => node.elements \in D
    /\ node.kind = "subprogram" => {node.types, node.retained} \subseteq D

Sound(f, D) ==
    /\ DOMAIN f \subseteq D
    /\ \A id \in DOMAIN f :
          id # null /\ IsNode(f[id]) /\ Shape(id, f[id]) /\ Refers(f[id], D)

LEMMA SoundUnion ==
    ASSUME NEW f, NEW g, NEW D, Sound(f, D), Sound(g, D)
    PROVE  Sound(f ++ g, D)
BY DEF Sound, ++

\* A list of k nodes.
LEMMA ListOf ==
    ASSUME NEW n \in Nat, NEW items, DOMAIN items = 1..n, items = [k \in 1..n |-> items[k]]
    PROVE  /\ IsNode(TupleNode(items)) /\ TupleNode(items).kind = "tuple"
           /\ TupleNode(items).items = items
<1> DEFINE S == Range(items)
<1>1. items \in [1..n -> S]
  BY DEF Range
<1> HIDE DEF S
<1>2. items \in Seq(S)
  BY <1>1
<1> QED  BY <1>2, ListNode DEF S

LEMMA SoundComposite ==
    ASSUME NEW name, NEW tag, NEW list, NEW D, list \in D, NEW node,
           node = Composite(name, tag, list)
    PROVE  IsNode(node) /\ Refers(node, D) /\ node = Composite(node.name, tag, list)
BY DEF IsNode, Refers, Composite

LEMMA SoundStruct ==
    ASSUME NEW id, id # null, id[1] \in Declared, NEW name, NEW n \in Nat, NEW fields, DOMAIN fields = 1..n,
           \A k \in 1..n : fields[k].offset \in Nat,
           NEW D, DOMAIN StructNodes(id, name, fields) \subseteq D
    PROVE  Sound(StructNodes(id, name, fields), D)
<1> DEFINE list == <<"elements", id>>
           member(k) == <<"member", id, k>>
           items == [k \in DOMAIN fields |-> member(k)]
           M == {member(k) : k \in DOMAIN fields}
           a == Node(id, Composite(name, "structure_type", list))
           b == Node(list, TupleNode(items))
           c == [m \in M |-> LET f == fields[m[3]] IN Derived(f.name, "member", f.type, f.offset)]
<1>1. StructNodes(id, name, fields) = (a ++ b) ++ c
  BY DEF StructNodes
<1>2. /\ DOMAIN a = {id} /\ a[id] = Composite(name, "structure_type", list)
      /\ DOMAIN b = {list} /\ b[list] = TupleNode(items) /\ DOMAIN c = M
  BY DEF Node
<1>3. {id, list} \union M \subseteq D
  BY <1>1, <1>2 DEF ++
<1>4. Sound(a, D)
  <2>2. /\ IsNode(a[id]) /\ Refers(a[id], D)
        /\ a[id] = Composite(a[id].name, "structure_type", <<"elements", id>>)
    <3> HIDE DEF a, list
    <3>1. list \in D
      BY <1>3
    <3>2. IsNode(a[id]) /\ Refers(a[id], D) /\ a[id] = Composite(a[id].name, "structure_type", list)
      BY <1>2, <3>1, SoundComposite
    <3> QED  BY <3>2 DEF list
  <2> QED  BY <1>2, <1>3, <2>2 DEF Sound, Shape
<1>5. Sound(b, D)
  <2>1. list # null /\ list[1] = "elements" /\ list[2] = id
    BY DEF null
  <2>2. items = [k \in 1..n |-> items[k]] /\ DOMAIN items = 1..n
    OBVIOUS
  <2>3. Range(items) = M
    BY DEF Range
  <2>4. \A m \in M : m[1] = "member"
    OBVIOUS
  <2>5. id[1] # "array"
    BY DEF Declared
  <2> HIDE DEF items, M, list
  <2>6. /\ IsNode(b[list]) /\ b[list].kind = "tuple" /\ b[list].items = items
        /\ b[list] = TupleNode(b[list].items)
    BY <1>2, <2>2, ListOf
  <2>7. Refers(b[list], D)
    BY <1>3, <2>3, <2>6 DEF Refers
  <2>8. Shape(list, b[list])
    BY <2>1, <2>3, <2>4, <2>5, <2>6 DEF Shape
  <2> QED  BY <1>2, <1>3, <2>1, <2>6, <2>7, <2>8 DEF Sound
<1>6. Sound(c, D)
  <2> SUFFICES ASSUME NEW m \in M
               PROVE  m # null /\ IsNode(c[m]) /\ Shape(m, c[m]) /\ Refers(c[m], D)
    BY <1>2, <1>3 DEF Sound
  <2>1. PICK k \in 1..n : m = member(k)
    OBVIOUS
  <2>2. m # null /\ m[1] = "member" /\ m[3] = k
    BY <2>1 DEF null
  <2>3. c[m] = Derived(fields[k].name, "member", fields[k].type, fields[k].offset)
    BY <2>2
  <2> HIDE DEF c, M
  <2>4. c[m].kind = "derived" /\ IsNode(c[m])
    BY <2>3 DEF IsNode, Derived
  <2>5. Refers(c[m], D)
    BY <2>4 DEF Refers
  <2> QED  BY <2>2, <2>4, <2>5 DEF Shape
<1>7. Sound(a ++ b, D)
  <2> HIDE DEF a, b
  <2> QED  BY <1>4, <1>5, SoundUnion
<1>8. Sound((a ++ b) ++ c, D)
  <2> HIDE DEF a, b, c
  <2> QED  BY <1>6, <1>7, SoundUnion
<1> QED  BY <1>1, <1>8

LEMMA SoundPointer ==
    ASSUME NEW p, p[1] = "pointer", NEW pointee, NEW D
    PROVE  /\ IsNode(PointerNode(pointee))
           /\ Shape(p, PointerNode(pointee)) /\ Refers(PointerNode(pointee), D)
<1>2. IsNode(PointerNode(pointee)) /\ PointerNode(pointee).kind = "derived"
  BY DEF PointerNode, Derived, IsNode
<1>3. Refers(PointerNode(pointee), D)
  BY <1>2 DEF Refers
<1> QED  BY <1>2, <1>3 DEF Shape

LEMMA SoundType ==
    ASSUME NEW type, NEW D, DOMAIN TypeNodes(type) \subseteq D
    PROVE  Sound(TypeNodes(type), D)
<1>1. CASE type \in DOMAIN Pointers
  <2> DEFINE id == <<"pointer", <<"type", type>>>>
             to == TypeId(Pointers[type])
  <2>1. TypeNodes(type) = Node(id, PointerNode(to))
    <3>1. type \notin Structs /\ type \notin DOMAIN Arrays
      BY <1>1, LayoutAssumption
    <3>2. TypeId(type) = id
      BY <1>1, <3>1 DEF TypeId, pointer
    <3> QED  BY <1>1, <3>2 DEF TypeNodes
  <2>2. id[1] = "pointer" /\ id # null
    BY DEF null
  <2> HIDE DEF id, to
  <2>3. /\ DOMAIN TypeNodes(type) = {id} /\ TypeNodes(type)[id] = PointerNode(to)
    BY <2>1 DEF Node
  <2> QED  BY <2>2, <2>3, SoundPointer DEF Sound
<1>2. CASE type \notin DOMAIN Pointers
  <2> DEFINE range == <<"subrange", type>>
             id == <<"array", type>>
             list == <<"elements", id>>
             a == Node(id, Composite(Unnamed, "array_type", list))
             b == Node(list, TupleNode(<<range>>))
             c == Node(range, Subrange)
  <2>1. TypeNodes(type) = (a ++ b) ++ c
    BY <1>2 DEF TypeNodes, array
  <2>2. /\ DOMAIN a = {id} /\ a[id] = Composite(Unnamed, "array_type", list)
        /\ DOMAIN b = {list} /\ b[list] = TupleNode(<<range>>)
        /\ DOMAIN c = {range} /\ c[range] = Subrange
    BY DEF Node
  <2>3. {id, list, range} \subseteq D
    BY <2>1, <2>2 DEF ++
  <2>4. Sound(a, D)
    <3>1. id # null /\ id[1] = "array"
      BY DEF null
    <3>2. /\ IsNode(a[id]) /\ Refers(a[id], D)
          /\ a[id] = Composite(a[id].name, "array_type", <<"elements", id>>)
      <4> HIDE DEF a, list
      <4>1. list \in D
        BY <2>3
      <4>2. IsNode(a[id]) /\ Refers(a[id], D) /\ a[id] = Composite(a[id].name, "array_type", list)
        BY <2>2, <4>1, SoundComposite
      <4> QED  BY <4>2 DEF list
    <3> HIDE DEF a, id
    <3> QED  BY <2>2, <2>3, <3>1, <3>2 DEF Sound, Shape
  <2>5. Sound(b, D)
    <3>1. list # null /\ list[1] = "elements"
      BY DEF null
    <3>2. <<range>> = [k \in 1..1 |-> <<range>>[k]] /\ DOMAIN <<range>> = 1..1
      OBVIOUS
    <3>3. Range(<<range>>) = {range}
      BY DEF Range
    <3>4. range[1] = "subrange"
      OBVIOUS
    <3>5. PICK items : items = <<range>>
      OBVIOUS
    <3> HIDE DEF range, list, id
    <3>6. /\ IsNode(b[list]) /\ b[list].kind = "tuple" /\ b[list].items = items
          /\ b[list] = TupleNode(b[list].items)
      BY <2>2, <3>2, <3>5, ListOf
    <3>7. Refers(b[list], D)
      BY <2>3, <3>3, <3>5, <3>6 DEF Refers
    <3>8. Shape(list, b[list])
      BY <3>1, <3>3, <3>4, <3>5, <3>6 DEF Shape
    <3> QED  BY <2>2, <2>3, <3>1, <3>6, <3>7, <3>8 DEF Sound
  <2>6. Sound(c, D)
    <3>1. range # null /\ range[1] = "subrange"
      BY DEF null
    <3> HIDE DEF range
    <3>2. IsNode(Subrange) /\ Refers(Subrange, D)
      BY DEF IsNode, Refers, Subrange
    <3>3. Shape(range, Subrange)
      BY <3>1 DEF Shape
    <3> HIDE DEF c
    <3> QED  BY <2>2, <2>3, <3>1, <3>2, <3>3 DEF Sound
  <2>7. Sound(a ++ b, D)
    <3> HIDE DEF a, b
    <3> QED  BY <2>4, <2>5, SoundUnion
  <2>8. Sound((a ++ b) ++ c, D)
    <3> HIDE DEF a, b, c
    <3> QED  BY <2>6, <2>7, SoundUnion
  <2> QED  BY <2>1, <2>8
<1> QED  BY <1>1, <1>2

LEMMA SoundHelper ==
    ASSUME NEW callee, NEW root, NEW path, NEW D,
           DOMAIN HelperNodes(callee, root, path) \subseteq D, basic("u32") \in D
    PROVE  Sound(HelperNodes(callee, root, path), D)
<1> DEFINE h == helper(callee, root, path)
           types == <<"types", h>>
           retained == <<"variables", h>>
           from == pointer(carrier(root))
           to == pointer(PathId(root, path))
           x == <<"variable", h, 1>>
           y == <<"variable", h, 2>>
           a == Node(h, Subprogram("btf_field<C, P>", TRUE, types, retained))
           b == Node(block(h), Block(h))
           c == Node(types, TupleNode(<<basic("u32"), from, to>>))
           d == Node(retained, TupleNode(<<x, y>>))
           e == Node(x, Variable("base", 1, h))
           f == Node(y, Variable("path", 2, h))
           g == [p \in {from, to} |-> PointerNode(p[2])]
<1>1. HelperNodes(callee, root, path) = (((((a ++ b) ++ c) ++ d) ++ e) ++ f) ++ g
  BY DEF HelperNodes
<1>2. /\ DOMAIN a = {h} /\ a[h] = Subprogram("btf_field<C, P>", TRUE, types, retained)
      /\ DOMAIN b = {block(h)} /\ b[block(h)] = Block(h)
      /\ DOMAIN c = {types} /\ c[types] = TupleNode(<<basic("u32"), from, to>>)
      /\ DOMAIN d = {retained} /\ d[retained] = TupleNode(<<x, y>>)
      /\ DOMAIN e = {x} /\ e[x] = Variable("base", 1, h)
      /\ DOMAIN f = {y} /\ f[y] = Variable("path", 2, h)
      /\ DOMAIN g = {from, to}
  BY DEF Node
<1>3. {h, block(h), types, retained, x, y, from, to} \subseteq D
  <2> HIDE DEF a, b, c, d, e, f, g, h, types, retained, x, y, from, to
  <2> QED  BY <1>1, <1>2 DEF ++
<1>4. /\ h # null /\ h[1] = "helper" /\ types # null /\ types[1] = "types"
      /\ retained # null /\ retained[1] = "variables" /\ retained[2] = h
      /\ x # null /\ x[1] = "variable" /\ x[3] = 1 /\ y # null /\ y[1] = "variable" /\ y[3] = 2
      /\ block(h) # null /\ block(h)[1] = "block"
      /\ from # null /\ from[1] = "pointer" /\ to # null /\ to[1] = "pointer"
      /\ basic("u32")[1] = "basic"
  BY DEF null, helper, block, pointer, basic
<1>5. Sound(a, D)
  <2>1. PICK node : node = Subprogram("btf_field<C, P>", TRUE, types, retained)
    OBVIOUS
  <2> HIDE DEF h
  <2>2. /\ node = Subprogram(node.name, TRUE, types, retained) /\ node.kind = "subprogram"
        /\ IsNode(node) /\ node.types = types /\ node.retained = retained
    BY <2>1 DEF Subprogram, IsNode
  <2>3. Refers(node, D)
    BY <1>3, <2>2 DEF Refers
  <2>4. Shape(h, node)
    BY <1>4, <2>2 DEF Shape
  <2>5. a[h] = node
    BY <1>2, <2>1
  <2> HIDE DEF a
  <2> QED  BY <1>2, <1>3, <1>4, <2>2, <2>3, <2>4, <2>5 DEF Sound
<1>6. Sound(b, D)
  <2>1. IsNode(Block(h)) /\ Refers(Block(h), D) /\ Block(h).kind = "block"
    BY DEF IsNode, Refers, Block
  <2>2. Shape(block(h), Block(h))
    BY <1>4, <2>1 DEF Shape
  <2> HIDE DEF b, h
  <2> QED  BY <1>2, <1>3, <1>4, <2>1, <2>2 DEF Sound
<1>7. Sound(c, D)
  <2>1. PICK items : items = <<basic("u32"), from, to>>
    OBVIOUS
  <2>2. items = [k \in 1..3 |-> items[k]] /\ DOMAIN items = 1..3
    BY <2>1
  <2>3. Range(items) = {basic("u32"), from, to}
    BY <2>1 DEF Range
  <2>4. c[types] = TupleNode(items)
    BY <1>2, <2>1
  <2> HIDE DEF c, types, from, to, h
  <2>5. /\ IsNode(c[types]) /\ c[types].kind = "tuple" /\ c[types].items = items
        /\ c[types] = TupleNode(c[types].items)
    <3>1. PICK n \in Nat : DOMAIN items = 1..n /\ items = [k \in 1..n |-> items[k]]
      BY <2>2
    <3>2. PICK node : node = c[types] /\ node = TupleNode(items)
      BY <2>4
    <3> QED  BY <3>1, <3>2, ListOf
  <2>6. Refers(c[types], D)
    BY <1>3, <2>3, <2>5 DEF Refers
  <2>7. Shape(types, c[types])
    BY <1>4, <2>3, <2>5 DEF Shape
  <2> QED  BY <1>2, <1>3, <1>4, <2>5, <2>6, <2>7 DEF Sound
<1>8. Sound(d, D)
  <2>1. PICK items : items = <<x, y>>
    OBVIOUS
  <2>2. items = [k \in 1..2 |-> items[k]] /\ DOMAIN items = 1..2
    BY <2>1
  <2>3. Range(items) = {x, y}
    BY <2>1 DEF Range
  <2>4. d[retained] = TupleNode(items)
    BY <1>2, <2>1
  <2>5. items = <<<<"variable", retained[2], 1>>, <<"variable", retained[2], 2>>>>
    BY <1>4, <2>1
  <2> HIDE DEF d, retained, x, y, h
  <2>6. /\ IsNode(d[retained]) /\ d[retained].kind = "tuple" /\ d[retained].items = items
    <3>1. PICK n \in Nat : DOMAIN items = 1..n /\ items = [k \in 1..n |-> items[k]]
      BY <2>2
    <3>2. PICK node : node = d[retained] /\ node = TupleNode(items)
      BY <2>4
    <3> QED  BY <3>1, <3>2, ListOf
  <2>7. Refers(d[retained], D)
    BY <1>3, <2>3, <2>6 DEF Refers
  <2>8. Shape(retained, d[retained])
    BY <1>4, <2>4, <2>5 DEF Shape
  <2> QED  BY <1>2, <1>3, <1>4, <2>6, <2>7, <2>8 DEF Sound
<1>9. ASSUME NEW v, v # null, v[1] = "variable", v \in D, NEW name, NEW q, DOMAIN q = {v},
             q[v] = Variable(name, v[3], h)
      PROVE  Sound(q, D)
  <2>1. PICK node : node = q[v] /\ node = Variable(name, v[3], h)
    BY <1>9
  <2> HIDE DEF h
  <2>2. IsNode(node) /\ Refers(node, D) /\ node = Variable(node.name, v[3], node.scope)
    BY <2>1 DEF IsNode, Refers, Variable
  <2>3. Shape(v, node)
    BY <1>9, <2>2 DEF Shape
  <2> QED  BY <1>9, <2>1, <2>2, <2>3 DEF Sound
<1>16. Sound(e, D) /\ Sound(f, D)
  <2>1. e[x] = Variable("base", x[3], h) /\ f[y] = Variable("path", y[3], h)
    BY <1>2, <1>4
  <2>2. x \in D /\ y \in D
    BY <1>3
  <2> HIDE DEF e, f, x, y, h
  <2>3. Sound(e, D)
    BY <1>2, <1>4, <1>9, <2>1, <2>2
  <2>4. Sound(f, D)
    BY <1>2, <1>4, <1>9, <2>1, <2>2
  <2> QED  BY <2>3, <2>4
<1>10. Sound(g, D)
  <2> SUFFICES ASSUME NEW p \in {from, to}
               PROVE  p # null /\ IsNode(g[p]) /\ Shape(p, g[p]) /\ Refers(g[p], D)
    BY <1>2, <1>3 DEF Sound
  <2>1. g[p] = PointerNode(p[2])
    OBVIOUS
  <2>2. p # null /\ p[1] = "pointer"
    BY <1>4
  <2> HIDE DEF g, from, to
  <2> QED  BY <2>1, <2>2, SoundPointer
<1> HIDE DEF a, b, c, d, e, f, g
<1>11. Sound(a ++ b, D)
  BY <1>5, <1>6, SoundUnion
<1>12. Sound((a ++ b) ++ c, D)
  BY <1>7, <1>11, SoundUnion
<1>13. Sound(((a ++ b) ++ c) ++ d, D)
  BY <1>8, <1>12, SoundUnion
<1>14. Sound((((a ++ b) ++ c) ++ d) ++ e, D)
  BY <1>16, <1>13, SoundUnion
<1>15. Sound(((((a ++ b) ++ c) ++ d) ++ e) ++ f, D)
  BY <1>16, <1>14, SoundUnion
<1> QED  BY <1>1, <1>10, <1>15, SoundUnion

LEMMA SoundPrimitives ==
    ASSUME NEW D, DOMAIN Primitives \subseteq D
    PROVE  Sound(Primitives, D)
<1> SUFFICES ASSUME NEW id \in DOMAIN Primitives
             PROVE  /\ id # null /\ IsNode(Primitives[id])
                    /\ Shape(id, Primitives[id]) /\ Refers(Primitives[id], D)
  BY DEF Sound
<1>1. PICK leaf \in DOMAIN Size : id = <<"basic", leaf>>
  BY DEF Primitives, basic
<1>2. Primitives[id] = Basic(leaf, "unsigned")
  BY <1>1 DEF Primitives, basic
<1>3. id # null /\ id[1] = "basic"
  BY <1>1 DEF null
<1>4. IsNode(Primitives[id]) /\ Primitives[id].kind = "basic"
  BY <1>2 DEF IsNode, Basic
<1>5. Refers(Primitives[id], D)
  BY <1>4 DEF Refers
<1> QED  BY <1>3, <1>4, <1>5 DEF Shape

LEMMA SoundCarrier ==
    ASSUME NEW s \in Structs, NEW D, DOMAIN CarrierNodes(s) \subseteq D
    PROVE  Sound(CarrierNodes(s), D)
<1> DEFINE fields == [k \in DOMAIN Fields[s] |->
                        [name |-> Fields[s][k].name, type |-> TypeId(Fields[s][k].type),
                         offset |-> Offset(s)[k]]]
<1>1. PICK n \in Nat : DOMAIN Fields[s] = 1..n
  BY LayoutAssumption
<1>2. DOMAIN fields = 1..n /\ \A k \in 1..n : fields[k].offset \in Nat
  BY <1>1, OffsetsGrow
<1>3. CarrierNodes(s) = StructNodes(carrier(s), CarrierName(s), fields)
  BY DEF CarrierNodes
<1>4. carrier(s) # null /\ carrier(s)[1] \in Declared
  BY DEF carrier, null, Declared
<1> HIDE DEF fields
<1> QED  BY <1>2, <1>3, <1>4, SoundStruct

LEMMA SoundMarker ==
    ASSUME NEW s, NEW k, NEW D, DOMAIN MarkerNodes(s, k) \subseteq D
    PROVE  Sound(MarkerNodes(s, k), D)
<1> DEFINE fields == <<[name |-> Fields[s][k].name, type |-> basic("u8"), offset |-> 0]>>
<1>1. DOMAIN fields = 1..1 /\ \A i \in 1..1 : fields[i].offset \in Nat
  OBVIOUS
<1>2. MarkerNodes(s, k) = StructNodes(marker(s, k), "__BtfFieldFor", fields)
  BY DEF MarkerNodes
<1>3. marker(s, k) # null /\ marker(s, k)[1] \in Declared
  BY DEF marker, null, Declared
<1> HIDE DEF fields
<1> QED  BY <1>1, <1>2, <1>3, SoundStruct

LEMMA SoundPath ==
    ASSUME NEW root, NEW path, NEW D, DOMAIN PathNodes(root, path) \subseteq D
    PROVE  Sound(PathNodes(root, path), D)
<1>1. PathId(root, path) # null /\ PathId(root, path)[1] \in Declared
  BY DEF PathId, null, Declared
<1>2. CASE path = <<>>
  <2> DEFINE fields == <<[name |-> "_private", type |-> basic("u8"), offset |-> 0]>>
  <2>1. DOMAIN fields = 1..1 /\ \A i \in 1..1 : fields[i].offset \in Nat
    OBVIOUS
  <2>2. PathNodes(root, path) = StructNodes(PathId(root, path), "RootPath", fields)
    BY <1>2 DEF PathNodes
  <2> HIDE DEF fields
  <2> QED  BY <1>1, <2>1, <2>2, SoundStruct
<1>3. CASE path # <<>>
  <2>1. PICK from, field : PathNodes(root, path) =
            StructNodes(PathId(root, path), "FieldPath<P, F>",
                <<[name |-> "parent", type |-> from, offset |-> 0],
                  [name |-> "field", type |-> field, offset |-> 1]>>)
    BY <1>3 DEF PathNodes
  <2> DEFINE fields == <<[name |-> "parent", type |-> from, offset |-> 0],
                         [name |-> "field", type |-> field, offset |-> 1]>>
  <2>2. DOMAIN fields = 1..2 /\ \A i \in 1..2 : fields[i].offset \in Nat
    <3>1. DOMAIN fields = 1..2
      OBVIOUS
    <3>2. fields[1].offset = 0 /\ fields[2].offset = 1
      OBVIOUS
    <3> HIDE DEF fields
    <3>3. ASSUME NEW i \in 1..2 PROVE fields[i].offset \in Nat
      <4>1. i = 1 \/ i = 2
        OBVIOUS
      <4> QED  BY <3>2, <4>1
    <3> QED  BY <3>1, <3>3
  <2> HIDE DEF fields
  <2> QED  BY <1>1, <2>1, <2>2, SoundStruct DEF fields
<1> QED  BY <1>2, <1>3

LEMMA PrimitivesThere ==
    ASSUME NEW accesses
    PROVE  DOMAIN Primitives \subseteq DOMAIN AccessNodes(accesses)
<1>1. PICK S : AccessNodes(accesses) = Merged(S \union {Primitives})
  BY Zenon DEF AccessNodes
<1>2. DOMAIN Merged(S \union {Primitives}) = UNION {DOMAIN f : f \in S \union {Primitives}}
  BY DEF Merged
<1> QED  BY <1>1, <1>2

\* The debug info of a set of accesses.
LEMMA AccessesSound ==
    ASSUME NEW accesses
    PROVE  Sound(AccessNodes(accesses), DOMAIN AccessNodes(accesses))
<1> DEFINE A == {CarrierNodes(s) : s \in Structs}
           B == {TypeNodes(type) : type \in DOMAIN Pointers \union DOMAIN Arrays}
           M(s) == {MarkerNodes(s, k) : k \in DOMAIN Fields[s]}
           P(a) == {PathNodes(a.root, prefix) : prefix \in Prefixes(a.path)}
           H == {HelperNodes(Callee(a.op), a.root, a.path) : a \in accesses}
           Ms == {M(s) : s \in Structs}
           Ps == {P(a) : a \in accesses}
           S == A \union B \union (UNION Ms) \union (UNION Ps) \union H \union {Primitives}
           D == UNION {DOMAIN f : f \in S}
<1>1. AccessNodes(accesses) = [id \in D |-> (CHOOSE f \in S : id \in DOMAIN f)[id]]
  BY DEF AccessNodes, Merged
<1>7. ASSUME NEW f \in S
      PROVE  \/ \E s \in Structs : f = CarrierNodes(s)
             \/ \E type : f = TypeNodes(type)
             \/ \E s, k : f = MarkerNodes(s, k)
             \/ \E root, path : f = PathNodes(root, path)
             \/ \E callee, root, path : f = HelperNodes(callee, root, path)
             \/ f = Primitives
  <2>1. f \in A => \E s \in Structs : f = CarrierNodes(s)
    OBVIOUS
  <2>2. f \in B => \E type : f = TypeNodes(type)
    OBVIOUS
  <2>3. f \in UNION Ms => \E s, k : f = MarkerNodes(s, k)
    OBVIOUS
  <2>4. f \in UNION Ps => \E root, path : f = PathNodes(root, path)
    OBVIOUS
  <2>5. f \in H => \E callee, root, path : f = HelperNodes(callee, root, path)
    OBVIOUS
  <2> HIDE DEF A, B, H, Ms, Ps
  <2> QED  BY <2>1, <2>2, <2>3, <2>4, <2>5
<1> HIDE DEF A, B, H, Ms, Ps
<1>2. \A f \in S : DOMAIN f \subseteq D
  OBVIOUS
<1>3. basic("u32") \in D
  <2>1. basic("u32") \in DOMAIN Primitives
    BY LayoutAssumption DEF Primitives
  <2>2. Primitives \in S
    OBVIOUS
  <2> HIDE DEF S
  <2> QED  BY <2>1, <2>2
<1>4. ASSUME NEW f \in S PROVE Sound(f, D)
  <2>1. DOMAIN f \subseteq D
    BY <1>2
  <2>2. \/ \E s \in Structs : f = CarrierNodes(s)
        \/ \E type : f = TypeNodes(type)
        \/ \E s, k : f = MarkerNodes(s, k)
        \/ \E root, path : f = PathNodes(root, path)
        \/ \E callee, root, path : f = HelperNodes(callee, root, path)
        \/ f = Primitives
    BY <1>7
  <2> HIDE DEF D, S
  <2> QED  BY <1>3, <2>1, <2>2, SoundCarrier, SoundType, SoundMarker, SoundPath, SoundHelper,
              SoundPrimitives
<1>5. ASSUME NEW id \in D
      PROVE  \E f \in S : id \in DOMAIN f /\ AccessNodes(accesses)[id] = f[id]
  <2> HIDE DEF S
  <2>1. \E f \in S : id \in DOMAIN f
    OBVIOUS
  <2> HIDE DEF D
  <2> QED  BY <1>1, <2>1
<1> HIDE DEF S, D
<1>6. DOMAIN AccessNodes(accesses) = D
  BY <1>1
<1> QED  BY <1>4, <1>5, <1>6 DEF Sound

\* What the id of a node says of it.
Tells(id, node) ==
    /\ id[1] \notin {"param", "retained"}
    /\ id[1] = "basic" => node.kind = "basic"
    /\ id[1] = "subrange" => node.kind = "subrange"
    /\ node.kind = "variable" => id[1] = "variable" /\ node.arg = id[3]
    /\ node.kind = "derived" => id[1] \in {"member", "pointer"}
    /\ node.kind = "subprogram" =>
          node.types = <<"types", id>> /\ node.retained = <<"variables", id>>
    /\ node.kind = "composite" =>
          /\ node.elements = <<"elements", id>>
          /\ node.tag # "structure_type" => id[1] = "array"
    /\ node.kind = "tuple" =>
          \/ /\ id[1] = "elements"
             /\ \A m \in Range(node.items) :
                   m[1] = "subrange" \/ (m[1] = "member" /\ id[2][1] # "array")
          \/ id[1] = "types" /\ \A t \in Range(node.items) : t[1] \in {"basic", "pointer"}
          \/ /\ id[1] = "variables"
             /\ node.items = <<<<"variable", id[2], 1>>, <<"variable", id[2], 2>>>>

LEMMA ShapeTells ==
    ASSUME NEW id, NEW node, Shape(id, node)
    PROVE  Tells(id, node)
<1>1. CASE id[1] \in Declared \union {"array"}
  <2>1. \/ node = Composite(node.name, "structure_type", <<"elements", id>>) /\ id[1] # "array"
        \/ node = Composite(node.name, "array_type", <<"elements", id>>) /\ id[1] = "array"
    BY <1>1 DEF Shape, Declared
  <2>2. /\ node.kind = "composite" /\ node.elements = <<"elements", id>>
        /\ node.tag # "structure_type" => id[1] = "array"
    BY <2>1 DEF Composite
  <2> QED  BY <1>1, <2>2 DEF Tells, Declared
<1>2. CASE id[1] \in {"elements", "types"}
  <2>1. node.kind = "tuple"
    <3>1. node = TupleNode(node.items)
      BY <1>2 DEF Shape, Declared
    <3>2. TupleNode(node.items).kind = "tuple"
      BY DEF TupleNode
    <3> QED  BY <3>1, <3>2
  <2> QED  BY <1>2, <2>1 DEF Shape, Tells, Declared
<1>3. CASE id[1] = "variables"
  <2>1. node.kind = "tuple" /\ node.items = <<<<"variable", id[2], 1>>, <<"variable", id[2], 2>>>>
    BY <1>3 DEF Shape, TupleNode, Declared
  <2> QED  BY <1>3, <2>1 DEF Tells
<1>4. CASE id[1] = "helper"
  <2>1. node.kind = "subprogram" /\ node.types = <<"types", id>> /\ node.retained = <<"variables", id>>
    BY <1>4 DEF Shape, Subprogram, Declared
  <2> QED  BY <1>4, <2>1 DEF Tells
<1>5. CASE id[1] = "variable"
  <2>1. node.kind = "variable" /\ node.arg = id[3]
    BY <1>5 DEF Shape, Variable, Declared
  <2> QED  BY <1>5, <2>1 DEF Tells
<1>6. CASE id[1] \in {"member", "pointer", "basic", "block"}
  <2>1. node.kind = CASE id[1] \in {"member", "pointer"} -> "derived"
                      [] id[1] = "basic" -> "basic"
                      [] id[1] = "block" -> "block"
    BY <1>6 DEF Shape, Declared
  <2> QED  BY <1>6, <2>1 DEF Tells
<1>7. CASE id[1] = "subrange"
  <2>1. node.kind = "subrange"
    BY <1>7 DEF Shape, Subrange, Declared
  <2> QED  BY <1>7, <2>1 DEF Tells
<1> QED  BY <1>1, <1>2, <1>3, <1>4, <1>5, <1>6, <1>7 DEF Shape

\* The nodes N of a program next to those of its accesses, A.
Joins(N, A) ==
    /\ Sound(A, DOMAIN A) /\ DOMAIN Primitives \subseteq DOMAIN A
    /\ WellFormed(N ++ Primitives) /\ DOMAIN N \intersect DOMAIN A = {}

\* Each node is one of them, and has the kind it had.
JoinedKinds(N, A, g) ==
    /\ DOMAIN g = DOMAIN N \union DOMAIN A
    /\ null \notin DOMAIN N \union DOMAIN A
    /\ \A id \in DOMAIN N : id \notin DOMAIN A /\ g[id] = N[id] /\ (N ++ Primitives)[id] = N[id]
    /\ \A id \in DOMAIN A :
          g[id] = A[id] /\ Tells(id, A[id]) /\ Refers(A[id], DOMAIN A) /\ IsNode(A[id])
    /\ \A id \in DOMAIN Primitives :
          /\ id \in DOMAIN A /\ id[1] = "basic" /\ g[id].kind = "basic"
          /\ (N ++ Primitives)[id].kind = "basic"
    /\ DOMAIN (N ++ Primitives) = DOMAIN N \union DOMAIN Primitives

LEMMA JoinedNodes ==
    ASSUME NEW N, NEW A, Joins(N, A)
    PROVE  JoinedKinds(N, A, N ++ A)
<1> DEFINE g == N ++ A
           b == N ++ Primitives
<1>1. /\ DOMAIN g = DOMAIN N \union DOMAIN A
      /\ \A id \in DOMAIN N : g[id] = N[id]
      /\ \A id \in DOMAIN A : id \notin DOMAIN N /\ g[id] = A[id]
  BY DEF Joins, ++
<1>2. /\ DOMAIN b = DOMAIN N \union DOMAIN Primitives
      /\ \A id \in DOMAIN N : b[id] = N[id]
      /\ \A id \in DOMAIN Primitives : id \notin DOMAIN N => b[id] = Primitives[id]
  BY DEF ++
<1>3. null \notin DOMAIN N
  BY <1>2 DEF Joins, WellFormed
<1>4. \A id \in DOMAIN A :
          id # null /\ IsNode(A[id]) /\ Tells(id, A[id]) /\ Refers(A[id], DOMAIN A)
  BY ShapeTells DEF Joins, Sound
<1>5. \A id \in DOMAIN Primitives : id[1] = "basic" /\ Primitives[id].kind = "basic"
  BY DEF Primitives, basic, Basic
<1>6. \A id \in DOMAIN Primitives :
          /\ id \in DOMAIN A /\ id[1] = "basic" /\ g[id].kind = "basic"
          /\ b[id].kind = "basic"
  <2>1. \A id \in DOMAIN Primitives : id \in DOMAIN A /\ id \notin DOMAIN N
    BY DEF Joins
  <2> HIDE DEF g, b
  <2> QED  BY <1>1, <1>2, <1>4, <1>5, <2>1 DEF Tells
<1> HIDE DEF g, b
<1>7. JoinedKinds(N, A, g)
  <2>1. \A id \in DOMAIN N : id \notin DOMAIN A /\ g[id] = N[id] /\ (N ++ Primitives)[id] = N[id]
    BY <1>1, <1>2 DEF b
  <2>2. null \notin DOMAIN N \union DOMAIN A
    BY <1>3, <1>4
  <2>3. \A id \in DOMAIN Primitives : /\ id \in DOMAIN A /\ id[1] = "basic" /\ g[id].kind = "basic"
                                      /\ (N ++ Primitives)[id].kind = "basic"
    BY <1>6 DEF b
  <2>4. DOMAIN (N ++ Primitives) = DOMAIN N \union DOMAIN Primitives
    BY <1>2 DEF b
  <2>5. \A id \in DOMAIN A :
          g[id] = A[id] /\ Tells(id, A[id]) /\ Refers(A[id], DOMAIN A) /\ IsNode(A[id])
    BY <1>1, <1>4
  <2> QED  BY <1>1, <2>1, <2>2, <2>3, <2>4, <2>5 DEF JoinedKinds
<1> QED  BY <1>7 DEF g

\* A node of the program among them.
LEMMA ProgramNode ==
    ASSUME NEW N, NEW A, Joins(N, A), NEW id \in DOMAIN N
    PROVE  LET g == N ++ A IN
           /\ IsNode(g[id]) /\ id # null /\ id[1] \notin {"param", "retained"}
           /\ g[id].kind = "tuple" =>
                 /\ Range(g[id].items) \subseteq DOMAIN g \union {null}
                 /\ ArgumentsOnce(g, g[id].items)
           /\ g[id].kind = "composite" =>
                 /\ g[id].elements \in DOMAIN g \union {null}
                 /\ g[id].tag \notin COMPOSITE_TAGS =>
                       \A m \in Range(ItemsIn(g, g[id].elements)) :
                           KindIn(g, m) = "derived" => g[m].tag # "member"
           /\ g[id].kind = "subprogram" =>
                 /\ {g[id].types, g[id].retained} \subseteq DOMAIN g \union {null}
                 /\ \A sp \in DOMAIN g :
                       g[sp].kind = "subprogram" /\ KindIn(g, g[id].types) = "tuple" =>
                           g[sp].retained # g[id].types
<1> DEFINE g == N ++ A
           b == N ++ Primitives
<1>1. JoinedKinds(N, A, g)
  BY JoinedNodes
<1>2. WellFormed(b)
  BY DEF Joins
<1>3. DOMAIN b \subseteq DOMAIN g /\ id \in DOMAIN b /\ id \in DOMAIN g /\ b[id] = g[id]
      /\ g[id] = N[id]
  BY <1>1 DEF JoinedKinds
<1>4. ASSUME NEW v \in DOMAIN b \union {null}
      PROVE  /\ KindIn(g, v) = KindIn(b, v)
             /\ KindIn(g, v) \in {"none", "basic"} \/ (g[v] = b[v] /\ v \in DOMAIN N)
  <2>1. CASE v \in DOMAIN N
    BY <1>1, <2>1 DEF JoinedKinds, KindIn
  <2>2. CASE v \in DOMAIN Primitives
    BY <1>1, <2>2 DEF JoinedKinds, KindIn
  <2>3. CASE v = null
    <3>1. v \notin DOMAIN g /\ v \notin DOMAIN b
      BY <1>1, <2>3 DEF JoinedKinds
    <3> QED  BY <3>1 DEF KindIn
  <2> QED  BY <1>1, <2>1, <2>2, <2>3 DEF JoinedKinds
<1> HIDE DEF g, b
<1>5. IsNode(g[id]) /\ id # null /\ id[1] \notin {"param", "retained"}
  BY <1>2, <1>3 DEF WellFormed
<1>6. ASSUME g[id].kind = "tuple"
      PROVE  /\ Range(g[id].items) \subseteq DOMAIN g \union {null}
             /\ ArgumentsOnce(g, g[id].items)
  <2>1. Range(g[id].items) \subseteq DOMAIN b \union {null} /\ ArgumentsOnce(b, g[id].items)
    BY <1>2, <1>3, <1>6 DEF WellFormed
  <2>2. \A v \in Range(g[id].items) :
            KindIn(g, v) = "variable" => KindIn(b, v) = "variable" /\ g[v] = b[v]
    BY <1>4, <2>1
  <2>3. ArgumentsOnce(g, g[id].items)
    BY <2>1, <2>2 DEF ArgumentsOnce
  <2> QED  BY <1>3, <2>1, <2>3
<1>7. ASSUME g[id].kind = "composite"
      PROVE  /\ g[id].elements \in DOMAIN g \union {null}
             /\ g[id].tag \notin COMPOSITE_TAGS =>
                   \A m \in Range(ItemsIn(g, g[id].elements)) :
                       KindIn(g, m) = "derived" => g[m].tag # "member"
  <2>1. /\ g[id].elements \in DOMAIN b \union {null}
        /\ g[id].tag \notin COMPOSITE_TAGS =>
               \A m \in Range(ItemsIn(b, g[id].elements)) :
                   KindIn(b, m) = "derived" => b[m].tag # "member"
    BY <1>2, <1>3, <1>7 DEF WellFormed
  <2>2. PICK t : t = g[id].elements
    OBVIOUS
  <2>3. ItemsIn(g, t) = ItemsIn(b, t)
    BY <1>4, <2>1, <2>2 DEF ItemsIn
  <2>4. \A m \in Range(ItemsIn(b, t)) : m \in DOMAIN b \union {null}
    <3>1. CASE KindIn(b, t) = "tuple"
      BY <1>2, <3>1 DEF ItemsIn, KindIn, WellFormed
    <3>2. CASE KindIn(b, t) # "tuple"
      BY <3>2 DEF ItemsIn, Range
    <3> QED  BY <3>1, <3>2
  <2>5. \A m \in Range(ItemsIn(b, t)) : KindIn(g, m) = "derived" => KindIn(b, m) = "derived" /\ g[m] = b[m]
    BY <1>4, <2>4
  <2> QED  BY <1>3, <2>1, <2>2, <2>3, <2>5
<1>8. ASSUME g[id].kind = "subprogram"
      PROVE  /\ {g[id].types, g[id].retained} \subseteq DOMAIN g \union {null}
             /\ \A sp \in DOMAIN g :
                   g[sp].kind = "subprogram" /\ KindIn(g, g[id].types) = "tuple" =>
                       g[sp].retained # g[id].types
  <2>1. /\ {g[id].types, g[id].retained} \subseteq DOMAIN b \union {null}
        /\ \A sp \in DOMAIN b :
               b[sp].kind = "subprogram" /\ KindIn(b, g[id].types) = "tuple" =>
                   b[sp].retained # g[id].types
    BY <1>2, <1>3, <1>8 DEF WellFormed
  <2>2. ASSUME NEW sp \in DOMAIN g, g[sp].kind = "subprogram", KindIn(g, g[id].types) = "tuple",
               g[sp].retained = g[id].types
        PROVE  FALSE
    <3>1. g[id].types \in DOMAIN N
      BY <1>4, <2>1, <2>2
    <3>2. CASE sp \in DOMAIN N
      <4>1. sp \in DOMAIN b /\ b[sp] = g[sp] /\ KindIn(b, g[id].types) = "tuple"
        BY <1>1, <1>4, <2>1, <2>2, <3>2 DEF JoinedKinds, b
      <4> QED  BY <2>1, <2>2, <4>1
    <3>3. CASE sp \in DOMAIN A
      <4>1. g[sp].retained \in DOMAIN A
        BY <1>1, <2>2, <3>3 DEF JoinedKinds, Refers
      <4> QED  BY <1>1, <2>2, <3>1, <4>1 DEF JoinedKinds
    <3> QED  BY <1>1, <3>2, <3>3 DEF JoinedKinds
  <2> QED  BY <1>3, <2>1, <2>2
<1> QED  BY <1>5, <1>6, <1>7, <1>8 DEF g

\* A node of the accesses among them.
LEMMA AccessNode ==
    ASSUME NEW N, NEW A, Joins(N, A), NEW id \in DOMAIN A
    PROVE  LET g == N ++ A IN
           /\ IsNode(g[id]) /\ id # null /\ id[1] \notin {"param", "retained"}
           /\ g[id].kind = "tuple" =>
                 /\ Range(g[id].items) \subseteq DOMAIN g \union {null}
                 /\ ArgumentsOnce(g, g[id].items)
           /\ g[id].kind = "composite" =>
                 /\ g[id].elements \in DOMAIN g \union {null}
                 /\ g[id].tag \notin COMPOSITE_TAGS =>
                       \A m \in Range(ItemsIn(g, g[id].elements)) :
                           KindIn(g, m) = "derived" => g[m].tag # "member"
           /\ g[id].kind = "subprogram" =>
                 /\ {g[id].types, g[id].retained} \subseteq DOMAIN g \union {null}
                 /\ \A sp \in DOMAIN g :
                       g[sp].kind = "subprogram" /\ KindIn(g, g[id].types) = "tuple" =>
                           g[sp].retained # g[id].types
<1> DEFINE g == N ++ A
           b == N ++ Primitives
<1>1. JoinedKinds(N, A, g)
  BY JoinedNodes
<1> HIDE DEF g
<1>2. \A v \in DOMAIN A : /\ v \in DOMAIN g /\ g[v] = A[v] /\ KindIn(g, v) = A[v].kind
                          /\ Tells(v, A[v]) /\ Refers(A[v], DOMAIN A) /\ IsNode(A[v]) /\ v # null
  BY <1>1 DEF JoinedKinds, KindIn
<1>3. IsNode(g[id]) /\ id # null /\ id[1] \notin {"param", "retained"}
  BY <1>2 DEF Tells
<1>4. ASSUME g[id].kind = "tuple"
      PROVE  /\ Range(g[id].items) \subseteq DOMAIN g \union {null}
             /\ ArgumentsOnce(g, g[id].items)
  <2>1. PICK items : items = g[id].items
    OBVIOUS
  <2>2. Range(items) \subseteq DOMAIN A
    BY <1>2, <1>4, <2>1 DEF Refers
  <2>3. ASSUME NEW v \in Range(items), KindIn(g, v) = "variable"
        PROVE  v[1] = "variable" /\ g[v].arg = v[3]
    BY <1>2, <2>2, <2>3 DEF Tells
  <2>4. \/ \A v \in Range(items) : v[1] # "variable"
        \/ items = <<<<"variable", id[2], 1>>, <<"variable", id[2], 2>>>>
    <3>1. Tells(id, g[id])
      BY <1>2
    <3> QED  BY <1>4, <2>1, <3>1 DEF Tells
  <2>5. ASSUME NEW v \in Range(items), NEW w \in Range(items), v[1] = "variable", v[3] = w[3]
        PROVE  v = w
    <3>1. items = <<<<"variable", id[2], 1>>, <<"variable", id[2], 2>>>>
      BY <2>4, <2>5
    <3>2. Range(items) = {<<"variable", id[2], 1>>, <<"variable", id[2], 2>>}
      BY <3>1 DEF Range
    <3> QED  BY <2>5, <3>2
  <2>6. ArgumentsOnce(g, items)
    <3> SUFFICES ASSUME NEW v \in Range(items), NEW w \in Range(items),
                        KindIn(g, v) = "variable", KindIn(g, w) = "variable", g[v].arg = g[w].arg
                 PROVE  v = w
      BY DEF ArgumentsOnce
    <3> QED  BY <2>3, <2>5
  <2> QED  BY <1>2, <2>1, <2>2, <2>6
<1>5. ASSUME g[id].kind = "composite"
      PROVE  /\ g[id].elements \in DOMAIN g \union {null}
             /\ g[id].tag \notin COMPOSITE_TAGS =>
                   \A m \in Range(ItemsIn(g, g[id].elements)) :
                       KindIn(g, m) = "derived" => g[m].tag # "member"
  <2>1. PICK t : t = g[id].elements
    OBVIOUS
  <2>2. /\ t \in DOMAIN A /\ t = <<"elements", id>>
        /\ g[id].tag # "structure_type" => id[1] = "array"
    BY <1>2, <1>5, <2>1 DEF Tells, Refers
  <2>3. ASSUME g[id].tag \notin COMPOSITE_TAGS, NEW m \in Range(ItemsIn(g, t)),
               KindIn(g, m) = "derived"
        PROVE  FALSE
    <3>1. id[1] = "array"
      BY <2>2, <2>3 DEF COMPOSITE_TAGS
    <3>2. A[t].kind = "tuple" /\ ItemsIn(g, t) = A[t].items
      <4>1. ItemsIn(g, t) # <<>>
        BY <2>3 DEF Range
      <4> QED  BY <1>2, <2>2, <4>1 DEF ItemsIn
    <3>3. t[1] = "elements" /\ t[2] = id
      BY <2>2
    <3>4. m[1] = "subrange" \/ (m[1] = "member" /\ t[2][1] # "array")
      BY <1>2, <2>2, <2>3, <3>2, <3>3 DEF Tells
    <3>5. m \in DOMAIN A
      BY <1>2, <2>2, <2>3, <3>2 DEF Refers
    <3> QED  BY <1>2, <2>3, <3>1, <3>3, <3>4, <3>5 DEF Tells
  <2> QED  BY <1>2, <2>1, <2>2, <2>3
<1>6. ASSUME g[id].kind = "subprogram"
      PROVE  /\ {g[id].types, g[id].retained} \subseteq DOMAIN g \union {null}
             /\ \A sp \in DOMAIN g :
                   g[sp].kind = "subprogram" /\ KindIn(g, g[id].types) = "tuple" =>
                       g[sp].retained # g[id].types
  <2>1. /\ {g[id].types, g[id].retained} \subseteq DOMAIN A
        /\ g[id].types = <<"types", id>>
    BY <1>2, <1>6 DEF Tells, Refers
  <2>2. ASSUME NEW sp \in DOMAIN g, g[sp].kind = "subprogram", g[sp].retained = g[id].types
        PROVE  FALSE
    <3>1. CASE sp \in DOMAIN A
      <4>1. g[sp].retained = <<"variables", sp>>
        BY <1>2, <2>2, <3>1 DEF Tells
      <4> QED  BY <2>1, <2>2, <4>1
    <3>2. CASE sp \in DOMAIN N
      <4>1. b[sp] = g[sp] /\ sp \in DOMAIN b /\ DOMAIN b = DOMAIN N \union DOMAIN Primitives
        BY <1>1, <3>2 DEF JoinedKinds
      <4>2. WellFormed(b)
        BY DEF Joins
      <4>3. g[sp].retained \in DOMAIN b \union {null}
        BY <2>2, <4>1, <4>2 DEF WellFormed
      <4>4. g[sp].retained \in DOMAIN Primitives
        BY <1>1, <2>1, <2>2, <4>1, <4>3 DEF JoinedKinds
      <4>5. g[sp].retained[1] = "basic"
        BY <1>1, <4>4 DEF JoinedKinds
      <4>6. g[sp].retained[1] = "types"
        BY <2>1, <2>2
      <4> QED  BY <4>5, <4>6
    <3> QED  BY <1>1, <3>1, <3>2 DEF JoinedKinds
  <2> QED  BY <1>2, <2>1, <2>2
<1> QED  BY <1>3, <1>4, <1>5, <1>6 DEF g

\* The debug info a program starts with.
LEMMA InputWellFormed ==
    ASSUME NEW p \in Programs
    PROVE  WellFormed(p.nodes ++ AccessNodes(Range(p.probes \o p.accesses)))
<1> DEFINE N == p.nodes
           accesses == Range(p.probes \o p.accesses)
           A == AccessNodes(accesses)
<1>1. Joins(N, A)
  <2>1. Sound(A, DOMAIN A)
    <3> HIDE DEF accesses
    <3> QED  BY AccessesSound
  <2>2. DOMAIN Primitives \subseteq DOMAIN A
    <3> HIDE DEF accesses
    <3> QED  BY PrimitivesThere
  <2>3. WellFormed(N ++ Primitives) /\ DOMAIN N \intersect DOMAIN A = {}
    BY NodesAssumption
  <2> HIDE DEF N, A
  <2> QED  BY <2>1, <2>2, <2>3 DEF Joins
<1> HIDE DEF N, A
<1>2. DOMAIN (N ++ A) = DOMAIN N \union DOMAIN A
  BY DEF ++
<1>3. WellFormed(N ++ A)
  <2> DEFINE g == N ++ A
  <2>1. \A id \in DOMAIN g : id \in DOMAIN N \/ id \in DOMAIN A
    BY <1>2
  <2> SUFFICES ASSUME NEW id \in DOMAIN g
               PROVE  /\ IsNode(g[id]) /\ id # null /\ id[1] \notin {"param", "retained"}
                      /\ g[id].kind = "tuple" =>
                            /\ Range(g[id].items) \subseteq DOMAIN g \union {null}
                            /\ ArgumentsOnce(g, g[id].items)
                      /\ g[id].kind = "composite" =>
                            /\ g[id].elements \in DOMAIN g \union {null}
                            /\ g[id].tag \notin COMPOSITE_TAGS =>
                                  \A m \in Range(ItemsIn(g, g[id].elements)) :
                                      KindIn(g, m) = "derived" => g[m].tag # "member"
                      /\ g[id].kind = "subprogram" =>
                            /\ {g[id].types, g[id].retained} \subseteq DOMAIN g \union {null}
                            /\ \A sp \in DOMAIN g :
                                  g[sp].kind = "subprogram" /\ KindIn(g, g[id].types) = "tuple" =>
                                      g[sp].retained # g[id].types
    BY DEF WellFormed
  <2>2. CASE id \in DOMAIN N
    BY <1>1, <2>2, ProgramNode
  <2>3. CASE id \in DOMAIN A
    BY <1>1, <2>3, AccessNode
  <2> HIDE DEF g
  <2> QED  BY <2>1, <2>2, <2>3
<1> QED  BY <1>3 DEF N, A

------------------------------------------------------------------------------
(* The passes before the last. *)

LEMMA ClosedInput ==
    ASSUME WellFormed(md), extra = <<>>
    PROVE  Closed(Nodes)
<1>1. DOMAIN Nodes = DOMAIN md /\ \A id \in DOMAIN md : Nodes[id] = md[id]
  BY NoExtra
<1> QED  BY <1>1 DEF WellFormed, Closed

LEMMA GraphInit == Init => GraphInv
<1> SUFFICES ASSUME Init PROVE GraphInv
  OBVIOUS
<1>1. WellFormed(md)
  BY InputWellFormed DEF Init
<1>2. stage = "reloc" /\ visited = {} /\ extra = <<>>
  BY DEF Init
<1>3. Closed(Nodes)
  BY <1>1, <1>2, ClosedInput
<1> QED  BY <1>1, <1>2, <1>3 DEF GraphInv, BeforePass4, Written

\* What a pass before the third does to names, encodings and nothing else.
LEMMA EarlyStep ==
    ASSUME GraphInv, stage \in BeforePass4, stage' \in BeforePass4,
           Renamed(md, md'), UNCHANGED <<visited, extra>>,
           stage' \in {"encodings", "members"} => NamesAllowed(md'),
           stage' = "members" => EncodingsAllowed(md')
    PROVE  GraphInv'
<1>1. WellFormed(md) /\ extra = <<>> /\ visited = {}
  BY DEF GraphInv
<1>2. WellFormed(md')
  BY <1>1, RenamedWellFormed
<1>3. extra' = <<>> /\ visited' = {}
  BY <1>1
<1>4. DOMAIN Nodes' = DOMAIN md' /\ \A id \in DOMAIN md' : Nodes'[id] = md'[id]
  BY <1>3 DEF Nodes, ++
<1>5. Closed(Nodes')
  BY <1>2, <1>4 DEF WellFormed, Closed
<1>6. stage' \in {"encodings", "members"} => NamesAllowed(Nodes')
  BY <1>4 DEF NamesAllowed
<1>7. stage' = "members" => EncodingsAllowed(Nodes')
  BY <1>4 DEF EncodingsAllowed
<1> QED  BY <1>2, <1>3, <1>5, <1>6, <1>7 DEF GraphInv, BeforePass4, Written

LEMMA Lowers ==
    ASSUME GraphInv, lower_polyfill
    PROVE  Renamed(md, md') /\ \A id \in DOMAIN md : md[id].kind = "variable" => md'[id] = md[id]
<1>1. WellFormed(md)
  BY DEF GraphInv, lower_polyfill, Looking, BeforePass4
<1>2. PICK steps : md' = Restored(steps)
  BY DEF lower_polyfill
<1>3. ASSUME NEW id \in DOMAIN md
      PROVE  \/ md'[id] = md[id]
             \/ /\ md[id].kind = "composite"
                /\ md'[id] = [md[id] EXCEPT !.name = WithoutPrefix[md[id].name]]
  BY <1>2 DEF Restored, Kind, KindIn
<1>4. DOMAIN md' = DOMAIN md
  BY <1>2 DEF Restored
<1>5. Renamed(md, md')
  <2> SUFFICES ASSUME NEW id \in DOMAIN md
               PROVE  /\ IsNode(md'[id])
                      /\ md'[id].kind = md[id].kind
                      /\ md'[id] = md[id] \/ /\ md[id].kind = "composite"
                                             /\ md'[id].tag = md[id].tag
                                             /\ md'[id].elements = md[id].elements
    BY <1>4 DEF Renamed
  <2>1. IsNode(md[id])
    BY <1>1 DEF WellFormed
  <2>2. CASE md'[id] = md[id]
    BY <2>1, <2>2
  <2>3. CASE /\ md[id].kind = "composite"
             /\ md'[id] = [md[id] EXCEPT !.name = WithoutPrefix[md[id].name]]
    <3>1. HasName(md[id])
      BY <2>3 DEF HasName
    <3>2. PICK name : md'[id] = [md[id] EXCEPT !.name = name]
      BY <2>3
    <3>3. /\ IsNode(md'[id]) /\ md'[id].kind = md[id].kind
          /\ md[id].kind = "composite" =>
                md'[id].tag = md[id].tag /\ md'[id].elements = md[id].elements
      BY <2>1, <3>1, <3>2, RenamedNode
    <3> QED  BY <2>3, <3>3
  <2> QED  BY <1>3, <2>2, <2>3
<1> QED  BY <1>3, <1>5

LEMMA LowerStep == ASSUME GraphInv, lower_polyfill, UNCHANGED <<visited, extra>> PROVE GraphInv'
BY Lowers, EarlyStep DEF lower_polyfill, Looking, BeforePass4

LEMMA SanitizedName == \A name : sanitize(name) \notin DOMAIN Sanitized
BY SanitizedAssumption DEF sanitize

LEMMA Sanitizes ==
    ASSUME GraphInv, SanitizeNames
    PROVE  /\ Renamed(md, md') /\ NamesAllowed(md')
           /\ \A id \in DOMAIN md : md[id].kind = "variable" =>
                 md'[id].name = sanitize(md[id].name)
<1>1. WellFormed(md)
  BY DEF GraphInv, SanitizeNames, BeforePass4
<1>2. DOMAIN md' = DOMAIN md
  BY DEF SanitizeNames
<1>3. ASSUME NEW id \in DOMAIN md
      PROVE  md'[id] = IF HasName(md[id]) THEN [md[id] EXCEPT !.name = sanitize(md[id].name)]
                       ELSE md[id]
  BY DEF SanitizeNames
<1>4. ASSUME NEW id \in DOMAIN md
      PROVE  /\ HasName(md[id]) =>
                /\ IsNode(md'[id]) /\ md'[id].kind = md[id].kind
                /\ md'[id].name = sanitize(md[id].name)
                /\ md[id].kind = "composite" =>
                      md'[id].tag = md[id].tag /\ md'[id].elements = md[id].elements
                /\ md[id].kind = "derived" =>
                      md'[id].tag = md[id].tag /\ md'[id].offset = md[id].offset
                /\ md[id].kind = "subprogram" =>
                      /\ md'[id].definition = md[id].definition
                      /\ md'[id].types = md[id].types /\ md'[id].retained = md[id].retained
                /\ md[id].kind = "variable" => md'[id].arg = md[id].arg
             /\ ~HasName(md[id]) => md'[id] = md[id]
             /\ IsNode(md[id])
  <2>1. IsNode(md[id])
    BY <1>1 DEF WellFormed
  <2>2. CASE HasName(md[id])
    <3> DEFINE name == sanitize(md[id].name)
    <3>1. md'[id] = [md[id] EXCEPT !.name = name]
      BY <1>3, <2>2
    <3> HIDE DEF name
    <3>2. /\ IsNode(md'[id]) /\ md'[id].kind = md[id].kind /\ md'[id].name = name
          /\ md[id].kind = "composite" =>
                md'[id].tag = md[id].tag /\ md'[id].elements = md[id].elements
          /\ md[id].kind = "derived" =>
                md'[id].tag = md[id].tag /\ md'[id].offset = md[id].offset
          /\ md[id].kind = "subprogram" =>
                /\ md'[id].definition = md[id].definition
                /\ md'[id].types = md[id].types /\ md'[id].retained = md[id].retained
          /\ md[id].kind = "variable" => md'[id].arg = md[id].arg
      BY <2>1, <2>2, <3>1, RenamedNode
    <3> QED  BY <2>1, <2>2, <3>2 DEF name
  <2>3. CASE ~HasName(md[id])
    BY <1>3, <2>1, <2>3
  <2> QED  BY <2>2, <2>3
<1>5. Renamed(md, md')
  <2>1. \A id \in DOMAIN md : HasName(md[id]) => md[id].kind \notin {"tuple", "block", "subrange"}
    BY DEF HasName
  <2>2. \A id \in DOMAIN md : IsNode(md'[id]) /\ md'[id].kind = md[id].kind
    BY <1>4
  <2> HIDE DEF HasName
  <2> QED  BY <1>2, <1>4, <2>1, <2>2 DEF Renamed
<1>6. NamesAllowed(md')
  <2>1. \A id \in DOMAIN md : HasName(md'[id]) => HasName(md[id])
    BY <1>4 DEF HasName
  <2> QED  BY <1>2, <1>4, <2>1, SanitizedName DEF NamesAllowed
<1>7. \A id \in DOMAIN md : md[id].kind = "variable" => md'[id].name = sanitize(md[id].name)
  BY <1>4 DEF HasName
<1> QED  BY <1>5, <1>6, <1>7

LEMMA NamesStep == ASSUME GraphInv, SanitizeNames PROVE GraphInv'
BY Sanitizes, EarlyStep DEF SanitizeNames, BeforePass4

LEMMA Recodes ==
    ASSUME GraphInv, RecodeBasicTypes
    PROVE  /\ Renamed(md, md') /\ NamesAllowed(md') /\ EncodingsAllowed(md')
           /\ \A id \in DOMAIN md : md[id].kind = "variable" => md'[id] = md[id]
<1>1. WellFormed(md) /\ NamesAllowed(Nodes) /\ extra = <<>>
  BY DEF GraphInv, RecodeBasicTypes, BeforePass4
<1>2. DOMAIN md' = DOMAIN md
  BY DEF RecodeBasicTypes
<1>3. ASSUME NEW id \in DOMAIN md
      PROVE  /\ md[id].kind = "basic" =>
                /\ IsNode(md'[id]) /\ md'[id].kind = "basic"
                /\ md'[id].encoding \in BTF_ENCODINGS
                /\ md'[id].name = md[id].name
             /\ md[id].kind # "basic" => md'[id] = md[id]
             /\ IsNode(md[id])
  <2>1. IsNode(md[id])
    BY <1>1 DEF WellFormed
  <2>2. md'[id] = IF md[id].kind = "basic"
                  THEN [md[id] EXCEPT !.encoding = Recoded(md[id].encoding)] ELSE md[id]
    BY DEF RecodeBasicTypes, Kind, KindIn
  <2>3. Recoded(md[id].encoding) \in BTF_ENCODINGS
    BY DEF Recoded, BTF_ENCODINGS
  <2> QED  BY <2>1, <2>2, <2>3, RecodedNode
<1>4. Renamed(md, md')
  <2>1. \A id \in DOMAIN md : IsNode(md'[id]) /\ md'[id].kind = md[id].kind
    BY <1>3
  <2> QED  BY <1>2, <1>3, <2>1 DEF Renamed
<1>5. NamesAllowed(md) /\ EncodingsAllowed(md')
  <2>1. DOMAIN Nodes = DOMAIN md /\ \A id \in DOMAIN md : Nodes[id] = md[id]
    BY <1>1, NoExtra
  <2>2. NamesAllowed(md)
    BY <1>1, <2>1 DEF NamesAllowed
  <2>3. \A id \in DOMAIN md : md'[id].kind = "basic" => md'[id].encoding \in BTF_ENCODINGS
    BY <1>3
  <2> QED  BY <1>2, <2>2, <2>3 DEF EncodingsAllowed
<1>6. NamesAllowed(md')
  <2>1. \A id \in DOMAIN md : HasName(md'[id]) => HasName(md[id]) /\ md'[id].name = md[id].name
    BY <1>3 DEF HasName
  <2> QED  BY <1>2, <1>5, <2>1 DEF NamesAllowed
<1>7. \A id \in DOMAIN md : md[id].kind = "variable" => md'[id] = md[id]
  BY <1>3
<1> QED  BY <1>4, <1>5, <1>6, <1>7

LEMMA EncodingsStep == ASSUME GraphInv, RecodeBasicTypes PROVE GraphInv'
BY Recodes, EarlyStep DEF RecodeBasicTypes, BeforePass4

\* The third pass, list by list.
LEMMA SortedLists ==
    ASSUME \A id \in DOMAIN md : IsNode(md[id]), SortMembers
    PROVE  /\ DOMAIN md' = DOMAIN md
           /\ \A id \in DOMAIN md : Kind(id) # "tuple" => md'[id] = md[id]
           /\ \A id \in DOMAIN md : Kind(id) = "tuple" =>
                LET old == md[id].items
                    new == md'[id].items IN
                /\ md'[id].kind = "tuple" /\ IsNode(md'[id])
                /\ DOMAIN new = DOMAIN old /\ Len(new) = Len(old) /\ Range(new) = Range(old)
                /\ \A k \in DOMAIN old : IsMember(new[k]) <=> IsMember(old[k])
                /\ \A k \in DOMAIN old : ~IsMember(old[k]) => new[k] = old[k]
                /\ id \in MemberLists =>
                      \A j, k \in MemberSlots(new) : j < k =>
                          md[new[j]].offset <= md[new[k]].offset
<1>1. /\ DOMAIN md' = DOMAIN md
      /\ \A id \in DOMAIN md : Kind(id) # "tuple" => md'[id] = md[id]
  BY DEF SortMembers
<1>2. ASSUME NEW id \in DOMAIN md, Kind(id) = "tuple"
      PROVE  LET old == md[id].items
                 new == md'[id].items IN
             /\ md'[id].kind = "tuple" /\ IsNode(md'[id])
             /\ DOMAIN new = DOMAIN old /\ Len(new) = Len(old) /\ Range(new) = Range(old)
             /\ \A k \in DOMAIN old : IsMember(new[k]) <=> IsMember(old[k])
             /\ \A k \in DOMAIN old : ~IsMember(old[k]) => new[k] = old[k]
             /\ id \in MemberLists =>
                   \A j, k \in MemberSlots(new) : j < k =>
                       md[new[j]].offset <= md[new[k]].offset
  <2> DEFINE old == md[id].items
             new == md'[id].items
             slots == MemberSlots(old)
  <2>1. md[id].kind = "tuple" /\ IsNode(md[id])
    BY <1>2 DEF Kind, KindIn
  <2>2. CASE id \notin MemberLists
    <3>1. md'[id] = md[id]
      BY <2>2 DEF SortMembers
    <3> QED  BY <2>1, <2>2, <3>1
  <2>3. CASE id \in MemberLists
    <3>1. md'[id] = TupleNode(Ordered(old))
      BY <1>2, <2>3 DEF SortMembers
    <3>2. PICK n \in Nat : DOMAIN old = 1..n /\ Len(old) = n
      BY <2>1, TupleItems
    <3>3. \A k \in slots : md[old[k]].offset \in Nat
      <4> SUFFICES ASSUME NEW k \in slots PROVE md[old[k]].offset \in Nat
        OBVIOUS
      <4>1. md[old[k]].kind = "derived" /\ IsNode(md[old[k]])
        BY DEF MemberSlots, IsMember, Kind, KindIn
      <4> QED  BY <4>1 DEF IsNode, Composite, Derived, Basic, Subprogram, Variable, Block,
                           TupleNode, Subrange
    <3> DEFINE seq == Ordered(old)
    <3> HIDE DEF slots, old, seq
    <3>4. /\ DOMAIN seq = 1..n
          /\ \A k \in (1..n) \ slots : seq[k] = old[k]
          /\ \A k \in slots : \E j \in slots : seq[k] = old[j]
          /\ \A j \in slots : \E k \in slots : seq[k] = old[j]
          /\ \A j, k \in slots : j < k => md[seq[j]].offset <= md[seq[k]].offset
      BY <3>2, <3>3, OrderedList DEF slots, seq
    <3>5. slots \subseteq 1..n /\ \A k \in 1..n : k \in slots <=> IsMember(old[k])
      BY <3>2 DEF slots, MemberSlots
    <3>6. Range(seq) = Range(old)
      <4>1. ASSUME NEW k \in 1..n PROVE seq[k] \in Range(old)
        <5>1. \E j \in 1..n : seq[k] = old[j]
          BY <3>4, <3>5
        <5> QED  BY <3>2, <5>1 DEF Range
      <4>2. ASSUME NEW k \in 1..n PROVE old[k] \in Range(seq)
        <5>1. \E j \in 1..n : old[k] = seq[j]
          BY <3>4, <3>5
        <5> QED  BY <3>4, <5>1 DEF Range
      <4> QED  BY <3>2, <3>4, <4>1, <4>2 DEF Range
    <3>7. seq \in Seq(Range(seq)) /\ Len(seq) = n
      <4>1. seq = [k \in 1..n |-> seq[k]]
        BY <3>4 DEF seq, Ordered
      <4>2. seq \in [1..n -> Range(seq)]
        BY <4>1 DEF Range
      <4> DEFINE S == Range(seq)
      <4> HIDE DEF S
      <4>3. seq \in [1..n -> S]
        BY <4>2 DEF S
      <4>4. seq \in Seq(S) /\ Len(seq) = n
        BY <4>3
      <4> QED  BY <4>4 DEF S
    <3>8. IsNode(md'[id]) /\ md'[id].kind = "tuple" /\ new = seq
      BY <3>1, <3>7, ListNode DEF seq
    <3>9. \A k \in 1..n : IsMember(seq[k]) <=> IsMember(old[k])
      BY <3>4, <3>5
    <3>10. MemberSlots(seq) = slots
      BY <3>4, <3>5, <3>9 DEF MemberSlots
    <3> QED  BY <3>2, <3>4, <3>5, <3>6, <3>7, <3>8, <3>9, <3>10 DEF old
  <2> QED  BY <2>2, <2>3
<1> QED  BY <1>1, <1>2

LEMMA SortStep == ASSUME GraphInv, SortMembers PROVE GraphInv'
<1>1. /\ stage = "members" /\ stage' = "parameters"
      /\ visited = {} /\ extra = <<>> /\ visited' = {} /\ extra' = <<>>
      /\ WellFormed(md) /\ NamesAllowed(Nodes) /\ EncodingsAllowed(Nodes)
  BY DEF GraphInv, SortMembers, BeforePass4
<1>2. \A id \in DOMAIN md : IsNode(md[id])
  BY <1>1 DEF WellFormed
<1>3. /\ DOMAIN md' = DOMAIN md
      /\ \A id \in DOMAIN md : Kind(id) # "tuple" => md'[id] = md[id]
      /\ \A id \in DOMAIN md : Kind(id) = "tuple" =>
           LET old == md[id].items
               new == md'[id].items IN
           /\ md'[id].kind = "tuple" /\ IsNode(md'[id])
           /\ DOMAIN new = DOMAIN old /\ Len(new) = Len(old) /\ Range(new) = Range(old)
           /\ \A k \in DOMAIN old : IsMember(new[k]) <=> IsMember(old[k])
           /\ \A k \in DOMAIN old : ~IsMember(old[k]) => new[k] = old[k]
           /\ id \in MemberLists =>
                 \A j, k \in MemberSlots(new) : j < k =>
                     md[new[j]].offset <= md[new[k]].offset
  BY <1>1, <1>2, SortedLists
<1>4. \A id : Kind(id)' = Kind(id) /\ (Kind(id) # "tuple" => md'[id] = md[id] \/ Kind(id) = "none")
  BY <1>3 DEF Kind, KindIn
<1>5. \A id : IsMember(id)' <=> IsMember(id)
  BY <1>4 DEF IsMember
<1>6. /\ DOMAIN Nodes = DOMAIN md /\ DOMAIN Nodes' = DOMAIN md
      /\ \A id \in DOMAIN md : Nodes[id] = md[id] /\ Nodes'[id] = md'[id]
  BY <1>1, <1>3 DEF Nodes, ++
<1>7. Closed(Nodes')
  <2> SUFFICES ASSUME NEW id \in DOMAIN md
               PROVE  /\ IsNode(md'[id])
                      /\ md'[id].kind = "tuple" =>
                            Range(md'[id].items) \subseteq DOMAIN md \union {null}
                      /\ md'[id].kind = "subprogram" =>
                            md'[id].retained \in DOMAIN md \union {null}
    BY <1>6 DEF Closed
  <2>1. CASE Kind(id) = "tuple"
    BY <1>1, <1>3, <2>1 DEF WellFormed, Kind, KindIn
  <2>2. CASE Kind(id) # "tuple"
    BY <1>1, <1>3, <2>2 DEF WellFormed, Kind, KindIn
  <2> QED  BY <2>1, <2>2
<1>8. NamesAllowed(Nodes') /\ EncodingsAllowed(Nodes')
  <2>1. \A id \in DOMAIN md : Nodes'[id] = Nodes[id] \/ Nodes'[id].kind = "tuple"
    BY <1>3, <1>6
  <2> QED  BY <1>1, <1>6, <2>1 DEF NamesAllowed, EncodingsAllowed, HasName
<1>9. ASSUME NEW c \in DOMAIN md, md[c].kind = "composite"
      PROVE  Nondecreasing(elements(c))'
  <2>1. PICK t : t = md[c].elements
    OBVIOUS
  <2>2. md'[c] = md[c] /\ md'[c].elements = t
    BY <1>3, <1>9, <2>1 DEF Kind, KindIn
  <2>3. CASE Kind(t) # "tuple"
    <3>1. elements(c)' = <<>>
      BY <1>4, <2>2, <2>3 DEF elements, Items, ItemsIn, Kind
    <3>2. MemberSlots(<<>>)' = {}
      BY DEF MemberSlots
    <3> QED  BY <3>1, <3>2 DEF Nondecreasing
  <2>4. CASE Kind(t) = "tuple"
    <3>1. PICK old, new : old = md[t].items /\ new = md'[t].items
      OBVIOUS
    <3>2. t \in DOMAIN md
      BY <2>4 DEF Kind, KindIn
    <3>3. elements(c)' = new
      BY <1>3, <1>4, <2>2, <2>4, <3>1, <3>2 DEF elements, Items, ItemsIn, Kind
    <3>4. /\ DOMAIN new = DOMAIN old
          /\ \A k \in DOMAIN old : IsMember(new[k]) <=> IsMember(old[k])
          /\ t \in MemberLists =>
                \A j, k \in MemberSlots(new) : j < k =>
                    md[new[j]].offset <= md[new[k]].offset
      BY <1>3, <2>4, <3>1, <3>2
    <3>5. MemberSlots(new)' = MemberSlots(new)
      BY <1>5 DEF MemberSlots
    <3>6. \A k \in MemberSlots(new) : md'[new[k]] = md[new[k]]
      BY <1>4 DEF MemberSlots, IsMember
    <3>7. CASE t \in MemberLists
      <4>1. \A j, k \in MemberSlots(new) : j < k => md'[new[j]].offset <= md'[new[k]].offset
        BY <3>4, <3>6, <3>7
      <4> QED  BY <3>3, <3>5, <4>1 DEF Nondecreasing
    <3>8. CASE t \notin MemberLists
      <4>1. md[c].tag \notin COMPOSITE_TAGS
        BY <1>9, <2>1, <3>8 DEF MemberLists, Kind, KindIn
      <4>2. \A m \in Range(old) : Kind(m) = "derived" => md[m].tag # "member"
        BY <1>1, <1>9, <2>1, <2>4, <3>1, <4>1 DEF WellFormed, Kind, ItemsIn
      <4>3. MemberSlots(new) = {}
        BY <3>4, <4>2 DEF IsMember, Range, MemberSlots
      <4> QED  BY <3>3, <3>5, <4>3 DEF Nondecreasing
    <3> QED  BY <3>7, <3>8
  <2> QED  BY <2>3, <2>4
<1>10. Pass4'
  <2>1. ASSUME NEW id \in DOMAIN md
        PROVE  (/\ id # null /\ id[1] \notin {"param", "retained"}
                /\ Kind(id) = "tuple" => ArgumentsOnce(md, md[id].items) /\ NoneTwice(md[id].items)
                /\ Kind(id) = "composite" =>
                      md[id].elements \in DOMAIN md \union {null} /\ Nondecreasing(elements(id))
                /\ Kind(id) = "subprogram" =>
                      /\ md[id].types \in DOMAIN md \union {null}
                      /\ \A sp \in DOMAIN md :
                            Kind(sp) = "subprogram" /\ Kind(md[id].types) = "tuple" =>
                                md[sp].retained # md[id].types)'
    <3>1. id # null /\ id[1] \notin {"param", "retained"}
      BY <1>1 DEF WellFormed
    <3>2. CASE Kind(id) = "tuple"
      <4>1. ArgumentsOnce(md, md[id].items) /\ Range(md'[id].items) = Range(md[id].items)
        BY <1>1, <1>3, <3>2 DEF WellFormed, Kind, KindIn
      <4>2. ArgumentsOnce(md', md'[id].items)
        <5>1. \A v : KindIn(md', v) = KindIn(md, v)
                     /\ (KindIn(md, v) = "variable" => md'[v] = md[v])
          BY <1>4 DEF Kind
        <5> QED  BY <4>1, <5>1 DEF ArgumentsOnce
      <4>3. NoneTwice(md[id].items)'
        BY <1>1 DEF NoneTwice
      <4> QED  BY <1>4, <3>1, <3>2, <4>2, <4>3
    <3>3. CASE Kind(id) = "composite"
      <4>1. md'[id] = md[id] /\ md[id].kind = "composite"
        BY <1>3, <3>3 DEF Kind, KindIn
      <4>2. md[id].elements \in DOMAIN md \union {null}
        BY <1>1, <4>1 DEF WellFormed
      <4>3. Nondecreasing(elements(id))' /\ (md[id].elements \in DOMAIN md \union {null})'
        BY <1>3, <1>9, <4>1, <4>2
      <4>4. Kind(id)' = "composite"
        BY <1>4, <3>3
      <4> QED  BY <3>1, <4>3, <4>4
    <3>4. CASE Kind(id) = "subprogram"
      <4>1. \A sp \in DOMAIN md : Kind(sp) = "subprogram" =>
                md'[sp] = md[sp] /\ md[sp].kind = "subprogram"
        BY <1>3 DEF Kind, KindIn
      <4>2. /\ md[id].types \in DOMAIN md \union {null}
            /\ \A sp \in DOMAIN md :
                  md[sp].kind = "subprogram" /\ Kind(md[id].types) = "tuple" =>
                      md[sp].retained # md[id].types
        BY <1>1, <3>4, <4>1 DEF WellFormed, Kind
      <4>3. Kind(id)' = "subprogram" /\ md'[id] = md[id]
        BY <1>4, <3>4, <4>1
      <4>4. PICK types : types = md[id].types
        OBVIOUS
      <4>5. Kind(types)' = Kind(types) /\ md'[id].types = types
        BY <1>4, <4>3, <4>4
      <4>6. \A sp \in DOMAIN md : Kind(sp)' = "subprogram" /\ Kind(types)' = "tuple" =>
                md'[sp].retained # types
        BY <1>4, <4>1, <4>2, <4>4, <4>5
      <4> QED  BY <1>3, <3>1, <4>2, <4>3, <4>4, <4>5, <4>6
    <3> QED  BY <1>4, <3>1, <3>2, <3>3, <3>4
  <2> QED  BY <1>1, <1>3, <2>1 DEF Pass4
<1> QED  BY <1>1, <1>7, <1>8, <1>10 DEF GraphInv, BeforePass4, Written

------------------------------------------------------------------------------
(* Pass 4: the arguments that lack a name. *)

\* The elements of a finite set of numbers, the smallest first.
Ascending(S) ==
    [i \in 1..Cardinality(S) |-> CHOOSE k \in S : Cardinality({j \in S : j < k}) = i - 1]

LEMMA AscendingAll ==
    ASSUME NEW m \in Nat, NEW S \in SUBSET (1..m)
    PROVE  /\ Cardinality(S) \in Nat
           /\ \A i \in 1..Cardinality(S) : Ascending(S)[i] \in S
           /\ \A k \in S : \E i \in 1..Cardinality(S) : Ascending(S)[i] = k
<1> DEFINE L == {r \in S \X S : r[1] < r[2]}
           n == Cardinality(S)
<1>1. IsFiniteSet(S) /\ n \in Nat
  <2>1. IsFiniteSet(1..m)
    BY FS_Interval
  <2>2. IsFiniteSet(S)
    BY <2>1, FS_Subset
  <2> QED  BY <2>2, FS_CardinalityType
<1>2. \A i, j \in S : <<i, j>> \in L <=> i < j
  OBVIOUS
<1>3. \A k \in S : Cardinality({j \in S : j < k}) = Rank(L, S, k)
  <2> SUFFICES ASSUME NEW k \in S
               PROVE  {j \in S : j < k} = {j \in S : <<j, k>> \in L}
    BY Zenon DEF Rank
  <2> QED  OBVIOUS
<1> HIDE DEF L
<1>4. Orders(L, S)
  <2>1. \A j \in S : j \in Nat
    OBVIOUS
  <2> QED  BY <1>2, <2>1 DEF Orders
<1>5. /\ \A i, j \in S : <<i, j>> \in L <=> Rank(L, S, i) < Rank(L, S, j)
      /\ \A j \in S : Rank(L, S, j) \in 0..(n - 1)
      /\ \A r \in 0..(n - 1) : \E j \in S : Rank(L, S, j) = r
  <2>1. Ranks(L, S)
    BY <1>1, <1>4, Ranking
  <2> QED  BY <2>1 DEF Ranks
<1> HIDE DEF n
<1>6. ASSUME NEW i \in 1..n
      PROVE  Ascending(S)[i] \in S /\ Rank(L, S, Ascending(S)[i]) = i - 1
  <2>1. i - 1 \in 0..(n - 1)
    BY <1>1
  <2>2. \E k \in S : Cardinality({j \in S : j < k}) = i - 1
    BY <1>3, <1>5, <2>1
  <2>3. Ascending(S)[i] = CHOOSE k \in S : Cardinality({j \in S : j < k}) = i - 1
    BY DEF Ascending, n
  <2>4. Ascending(S)[i] \in S /\ Cardinality({j \in S : j < Ascending(S)[i]}) = i - 1
    BY <2>2, <2>3
  <2> QED  BY <1>3, <2>4
<1>7. ASSUME NEW k \in S PROVE \E i \in 1..n : Ascending(S)[i] = k
  <2> DEFINE i == Rank(L, S, k) + 1
  <2>1. i \in 1..n /\ i - 1 = Rank(L, S, k) /\ Rank(L, S, k) \in Nat
    BY <1>1, <1>5
  <2> HIDE DEF i
  <2>2. Ascending(S)[i] \in S /\ Rank(L, S, Ascending(S)[i]) = Rank(L, S, k)
    BY <1>6, <2>1
  <2>3. ~(<<Ascending(S)[i], k>> \in L) /\ ~(<<k, Ascending(S)[i]>> \in L)
    <3>1. /\ ~(Rank(L, S, Ascending(S)[i]) < Rank(L, S, k))
          /\ ~(Rank(L, S, k) < Rank(L, S, Ascending(S)[i]))
      BY <2>1, <2>2
    <3> QED  BY <1>5, <2>2, <3>1
  <2>4. Ascending(S)[i] = k
    BY <1>4, <2>2, <2>3 DEF Orders
  <2> QED  BY <2>1, <2>4
<1>8. \A i \in 1..n : Ascending(S)[i] \in S
  BY <1>6
<1>9. \A k \in S : \E i \in 1..n : Ascending(S)[i] = k
  BY <1>7
<1> QED  BY <1>1, <1>8, <1>9 DEF n

\* The parameters of a function are numbered from one.
LEMMA ParametersNumbered ==
    ASSUME NEW sp, \A id \in DOMAIN md : IsNode(md[id])
    PROVE  \E m \in Nat : DOMAIN parameter_types(sp) = 1..m
<1>1. PICK types : types = Items(md[sp].types)
  OBVIOUS
<1>2. CASE types = <<>>
  <2>1. parameter_types(sp) = <<>>
    BY <1>1, <1>2 DEF parameter_types
  <2> QED  BY <2>1
<1>3. CASE types # <<>>
  <2>1. PICK t \in DOMAIN md : types = md[t].items /\ md[t].kind = "tuple"
    BY <1>1, <1>3 DEF Items, ItemsIn, KindIn
  <2>2. PICK S : types \in Seq(S)
    BY <2>1, TupleItems
  <2>3. parameter_types(sp) = Tail(types)
    BY <1>1, <1>3 DEF parameter_types
  <2>4. DOMAIN Tail(types) = 1..(Len(types) - 1) /\ Len(types) - 1 \in Nat
    BY <1>3, <2>2
  <2> QED  BY <2>3, <2>4
<1> QED  BY <1>2, <1>3

\* What is added to a list comes behind what is there.
Extends(list, old) ==
    /\ list \in Seq(Range(list)) /\ DOMAIN old = 1..Len(old) /\ Len(old) \in Nat
    /\ Len(old) <= Len(list) /\ DOMAIN list = 1..Len(list) /\ Len(list) \in Nat
    /\ \A k \in DOMAIN old : list[k] = old[k]

LEMMA AddedList ==
    ASSUME NEW sp \in DOMAIN md, \A id \in DOMAIN md : IsNode(md[id])
    PROVE  LET lacking == Lacking(sp)
               added == [i \in 1..Cardinality(lacking) |->
                           param(sp, CHOOSE k \in lacking :
                                        Cardinality({j \in lacking : j < k}) = i - 1)]
               old == Items(md[sp].retained)
               list == old \o added IN
           /\ Extends(list, old)
           /\ Range(added) = {param(sp, k) : k \in lacking}
           /\ \A i \in DOMAIN list : i > Len(old) => \E k \in lacking : list[i] = param(sp, k)
           /\ \A k \in lacking : \E i \in DOMAIN list : i > Len(old) /\ list[i] = param(sp, k)
<1> DEFINE lacking == Lacking(sp)
           n == Cardinality(lacking)
           added == [i \in 1..n |->
                       param(sp, CHOOSE k \in lacking :
                                    Cardinality({j \in lacking : j < k}) = i - 1)]
           old == Items(md[sp].retained)
           list == old \o added
<1>1. PICK m \in Nat : lacking \in SUBSET (1..m)
  <2>1. PICK m \in Nat : DOMAIN parameter_types(sp) = 1..m
    BY ParametersNumbered
  <2>2. lacking \subseteq 1..m
    BY <2>1 DEF Lacking
  <2> QED  BY <2>2
<1>2. \A i \in 1..n : added[i] = param(sp, Ascending(lacking)[i])
  BY DEF Ascending
<1>3. PICK S : old \in Seq(S)
  <2>1. CASE old = <<>>
    <3>1. old \in Seq({})
      BY <2>1
    <3> QED  BY <3>1
  <2>2. CASE old # <<>>
    <3>1. PICK t \in DOMAIN md : old = md[t].items /\ md[t].kind = "tuple"
      BY <2>2 DEF Items, ItemsIn, KindIn
    <3> QED  BY <3>1, TupleItems
  <2> QED  BY <2>1, <2>2
<1> HIDE DEF lacking, old
<1>4. /\ n \in Nat
      /\ \A i \in 1..n : Ascending(lacking)[i] \in lacking
      /\ \A k \in lacking : \E i \in 1..n : Ascending(lacking)[i] = k
  BY <1>1, AscendingAll
<1>5. DOMAIN added = 1..n
  OBVIOUS
<1> HIDE DEF added, n
<1>6. \A i \in 1..n : \E k \in lacking : added[i] = param(sp, k)
  BY <1>2, <1>4
<1>7. \A k \in lacking : \E i \in 1..n : added[i] = param(sp, k)
  BY <1>2, <1>4
<1>8. Range(added) = {param(sp, k) : k \in lacking}
  BY <1>5, <1>6, <1>7 DEF Range
<1>9. PICK T : added \in Seq(T) /\ Len(added) = n
  <2>1. added = [i \in 1..n |-> added[i]]
    BY <1>5 DEF added
  <2> DEFINE T == {added[i] : i \in 1..n}
  <2>2. added \in [1..n -> T]
    BY <2>1
  <2> HIDE DEF T
  <2>3. added \in Seq(T) /\ Len(added) = n
    BY <1>4, <2>2
  <2> QED  BY <2>3
<1> DEFINE U == S \union T
<1>10. old \in Seq(U) /\ added \in Seq(U)
  BY <1>3, <1>9
<1> HIDE DEF U
<1>11. /\ list \in Seq(U) /\ DOMAIN list = 1..Len(list)
       /\ Len(list) = Len(old) + n /\ Len(old) \in Nat /\ Len(list) \in Nat
       /\ DOMAIN old = 1..Len(old)
       /\ \A i \in 1..Len(old) : list[i] = old[i]
       /\ \A i \in 1..n : list[Len(old) + i] = added[i]
  BY <1>4, <1>9, <1>10
<1> HIDE DEF list
<1>12. list \in Seq(Range(list))
  <2> DEFINE R == Range(list)
  <2>1. list = [i \in 1..Len(list) |-> list[i]]
    BY <1>11
  <2>2. list \in [1..Len(list) -> R]
    BY <1>11, <2>1 DEF Range
  <2> HIDE DEF R
  <2>3. list \in Seq(R)
    BY <1>11, <2>2
  <2> QED  BY <2>3 DEF R
<1>13. Extends(list, old)
  BY <1>4, <1>11, <1>12 DEF Extends
<1>14. \A i \in DOMAIN list : i > Len(old) => \E k \in lacking : list[i] = param(sp, k)
  <2> SUFFICES ASSUME NEW i \in DOMAIN list, i > Len(old)
               PROVE  \E k \in lacking : list[i] = param(sp, k)
    OBVIOUS
  <2>1. i - Len(old) \in 1..n /\ i = Len(old) + (i - Len(old))
    BY <1>4, <1>11
  <2>2. list[i] = added[i - Len(old)]
    BY <1>11, <2>1
  <2> QED  BY <1>6, <2>1, <2>2
<1>15. \A k \in lacking : \E i \in DOMAIN list : i > Len(old) /\ list[i] = param(sp, k)
  <2> SUFFICES ASSUME NEW k \in lacking
               PROVE  \E i \in DOMAIN list : i > Len(old) /\ list[i] = param(sp, k)
    OBVIOUS
  <2>1. PICK i \in 1..n : added[i] = param(sp, k)
    BY <1>7
  <2>2. Len(old) + i \in DOMAIN list /\ Len(old) + i > Len(old)
    BY <1>4, <1>11
  <2> QED  BY <1>11, <2>1, <2>2
<1> QED  BY <1>8, <1>13, <1>14, <1>15 DEF list, added, n, old, lacking

\* What the fourth pass does to one subprogram: list is the one its variables are in
\* afterwards.
Lengthened(sp, list) ==
    LET retained == md[sp].retained
        old == Items(retained)
        made == {param(sp, k) : k \in Lacking(sp)} IN
    /\ Extends(list, old)
    /\ \A i \in DOMAIN list : i > Len(old) => list[i] \in made
    /\ \A k \in Lacking(sp) : \E i \in DOMAIN list : i > Len(old) /\ list[i] = param(sp, k)
    /\ IF Kind(retained) = "tuple"
       THEN /\ DOMAIN md' = DOMAIN md /\ md'[retained] = TupleNode(list)
            /\ \A id \in DOMAIN md : id # retained => md'[id] = md[id]
            /\ DOMAIN extra' = DOMAIN extra \union made
       ELSE /\ DOMAIN md' = DOMAIN md /\ md'[sp] = [md[sp] EXCEPT !.retained = new_retained(sp)]
            /\ \A id \in DOMAIN md : id # sp => md'[id] = md[id]
            /\ DOMAIN extra' = DOMAIN extra \union made \union {new_retained(sp)}
            /\ extra'[new_retained(sp)] = TupleNode(list)
    /\ \A v \in DOMAIN extra : extra'[v] = extra[v]
    /\ \A k \in Lacking(sp) : extra'[param(sp, k)] = Variable("param", k, sp)

LEMMA NamedParameters ==
    ASSUME NEW sp \in DOMAIN md, NameParameters(sp), Lacking(sp) # {},
           \A id \in DOMAIN md : IsNode(md[id]), \A v \in DOMAIN extra : Made(v)
    PROVE  \E list : Lengthened(sp, list)
<1> DEFINE lacking == Lacking(sp)
           added == [i \in 1..Cardinality(lacking) |->
                       param(sp, CHOOSE k \in lacking :
                                    Cardinality({j \in lacking : j < k}) = i - 1)]
           retained == md[sp].retained
           old == Items(retained)
           list == old \o added
           made == {param(sp, k) : k \in lacking}
           vars1 == [v \in Range(added) |-> Variable("param", v[3], sp)]
           vars2 == IF Kind(retained) = "tuple" THEN <<>>
                    ELSE Node(new_retained(sp), TupleNode(list))
<1>1. /\ Extends(list, old)
      /\ Range(added) = made
      /\ \A i \in DOMAIN list : i > Len(old) => \E k \in lacking : list[i] = param(sp, k)
      /\ \A k \in lacking : \E i \in DOMAIN list : i > Len(old) /\ list[i] = param(sp, k)
  BY AddedList
<1>2. /\ extra' = vars1 ++ extra ++ vars2
      /\ md' = IF Kind(retained) = "tuple" THEN [md EXCEPT ![retained] = TupleNode(list)]
               ELSE [md EXCEPT ![sp].retained = new_retained(sp)]
      /\ sp \notin visited
  BY Zenon DEF NameParameters
<1> HIDE DEF list, added, lacking
<1>3. /\ DOMAIN vars1 = made
      /\ \A k \in lacking : vars1[param(sp, k)] = Variable("param", k, sp)
  BY <1>1 DEF param
<1>4. \A v \in DOMAIN extra : v \notin made /\ v # new_retained(sp)
  BY <1>2 DEF Made, param, new_retained
<1>5. new_retained(sp) \notin made
  BY DEF new_retained, param
<1>6. /\ Kind(retained) = "tuple" => DOMAIN vars2 = {}
      /\ Kind(retained) # "tuple" =>
            DOMAIN vars2 = {new_retained(sp)} /\ vars2[new_retained(sp)] = TupleNode(list)
  BY DEF Node
<1> HIDE DEF vars1, vars2, made
<1>7. /\ DOMAIN (vars1 ++ extra) = made \union DOMAIN extra
      /\ \A v \in made : (vars1 ++ extra)[v] = vars1[v]
      /\ \A v \in DOMAIN extra : (vars1 ++ extra)[v] = extra[v]
  BY <1>3, <1>4 DEF ++
<1>8. /\ DOMAIN extra' = made \union DOMAIN extra \union DOMAIN vars2
      /\ \A v \in made : extra'[v] = vars1[v]
      /\ \A v \in DOMAIN extra : extra'[v] = extra[v]
      /\ Kind(retained) # "tuple" => extra'[new_retained(sp)] = TupleNode(list)
  <2> DEFINE both == vars1 ++ extra
  <2>1. DOMAIN both = made \union DOMAIN extra
    BY <1>7
  <2> HIDE DEF both
  <2>2. extra' = both ++ vars2
    BY <1>2 DEF both
  <2>3. /\ DOMAIN extra' = DOMAIN both \union DOMAIN vars2
        /\ \A v \in DOMAIN both : extra'[v] = both[v]
        /\ \A v \in DOMAIN vars2 \ DOMAIN both : extra'[v] = vars2[v]
    BY <2>2 DEF ++
  <2>4. new_retained(sp) \notin DOMAIN both
    BY <1>4, <1>5, <2>1
  <2>5. \A v \in made : both[v] = vars1[v]
    BY <1>7 DEF both
  <2>6. \A v \in DOMAIN extra : both[v] = extra[v]
    BY <1>7 DEF both
  <2> QED  BY <1>6, <2>1, <2>3, <2>4, <2>5, <2>6
<1>9. \A k \in lacking : param(sp, k) \in made
  BY DEF made
<1>10. \A i \in DOMAIN list : i > Len(old) => list[i] \in made
  BY <1>1 DEF made
<1>11. \A k \in lacking : extra'[param(sp, k)] = Variable("param", k, sp)
  BY <1>3, <1>8, <1>9
<1>12. IF Kind(retained) = "tuple"
       THEN /\ DOMAIN md' = DOMAIN md /\ md'[retained] = TupleNode(list)
            /\ \A id \in DOMAIN md : id # retained => md'[id] = md[id]
            /\ DOMAIN extra' = DOMAIN extra \union made
       ELSE /\ DOMAIN md' = DOMAIN md /\ md'[sp] = [md[sp] EXCEPT !.retained = new_retained(sp)]
            /\ \A id \in DOMAIN md : id # sp => md'[id] = md[id]
            /\ DOMAIN extra' = DOMAIN extra \union made \union {new_retained(sp)}
            /\ extra'[new_retained(sp)] = TupleNode(list)
  <2>1. CASE Kind(retained) = "tuple"
    <3>1. retained \in DOMAIN md
      BY <2>1 DEF Kind, KindIn
    <3> QED  BY <1>2, <1>6, <1>8, <2>1, <3>1
  <2>2. CASE Kind(retained) # "tuple"
    BY <1>2, <1>6, <1>8, <2>2
  <2> QED  BY <2>1, <2>2
<1>13. Lengthened(sp, list)
  BY <1>1, <1>8, <1>10, <1>11, <1>12 DEF Lengthened, lacking, made
<1> QED  BY <1>13

\* What a lengthened list leaves of the other nodes.
KeepsNodes(sp, list) ==
    /\ DOMAIN md' = DOMAIN md /\ \A id : KindIn(md', id) = KindIn(md, id)
    /\ \A id \in DOMAIN md : IsNode(md'[id])
    /\ \A id \in DOMAIN md : md[id].kind \notin {"tuple", "subprogram"} => md'[id] = md[id]
    /\ \A id \in DOMAIN md : md[id].kind = "tuple" =>
          md'[id] = IF id = md[sp].retained THEN TupleNode(list) ELSE md[id]
    /\ \A id \in DOMAIN md : md[id].kind = "subprogram" =>
          /\ md'[id].types = md[id].types /\ md'[id].definition = md[id].definition
          /\ md'[id].name = md[id].name
          /\ md'[id].retained = IF id = sp /\ Kind(md[sp].retained) # "tuple"
                                THEN new_retained(sp) ELSE md[id].retained
    /\ \A k : param(sp, k) \notin DOMAIN Nodes \union {null}
    /\ new_retained(sp) \notin DOMAIN Nodes \union {null}

\* The nodes that would be written, before and after.
AddsNodes(sp, list) ==
    /\ DOMAIN Nodes' = DOMAIN md \union DOMAIN extra'
    /\ DOMAIN Nodes = DOMAIN md \union DOMAIN extra
    /\ DOMAIN md \intersect DOMAIN extra' = {} /\ DOMAIN extra \subseteq DOMAIN extra'
    /\ \A id \in DOMAIN md : Nodes'[id] = md'[id] /\ Nodes[id] = md[id]
    /\ \A id \in DOMAIN extra : Nodes'[id] = extra[id] /\ Nodes[id] = extra[id]
    /\ \A id \in DOMAIN extra' : Nodes'[id] = extra'[id]
    /\ \A id \in DOMAIN extra' \ DOMAIN extra :
          \/ /\ id[2] = sp /\ id[1] = "param" /\ id[3] \in Lacking(sp) /\ id # null
             /\ id = param(sp, id[3])
             /\ extra'[id] = Variable("param", id[3], sp)
          \/ /\ id[2] = sp /\ id[1] = "retained" /\ id # null /\ id = new_retained(sp)
             /\ Kind(md[sp].retained) # "tuple" /\ extra'[id] = TupleNode(list)
    /\ \A k \in Lacking(sp) : param(sp, k) \in DOMAIN extra'
    /\ Kind(md[sp].retained) # "tuple" => new_retained(sp) \in DOMAIN extra'

LEMMA Lengthening ==
    ASSUME NEW sp \in DOMAIN md, NEW list, Lengthened(sp, list), Kind(sp) = "subprogram",
           sp \notin visited, \A id \in DOMAIN md : IsNode(md[id]),
           \A id \in DOMAIN md : id # null /\ id[1] \notin {"param", "retained"},
           \A v \in DOMAIN extra : Made(v)
    PROVE  KeepsNodes(sp, list)
<1>1. PICK retained : retained = md[sp].retained
  OBVIOUS
<1>2. md[sp].kind = "subprogram"
  BY DEF Kind, KindIn
<1>3. list \in Seq(Range(list))
  BY DEF Lengthened, Extends
<1>4. IsNode(TupleNode(list)) /\ TupleNode(list).kind = "tuple"
  BY <1>3, ListNode
<1>5. /\ \A k : param(sp, k) \notin DOMAIN Nodes \union {null}
      /\ new_retained(sp) \notin DOMAIN Nodes \union {null}
  <2>1. DOMAIN Nodes = DOMAIN md \union DOMAIN extra
    BY DEF Nodes, ++
  <2>2. \A k : param(sp, k) \notin DOMAIN md \union {null}
    BY DEF param, null
  <2>3. \A k : param(sp, k) \notin DOMAIN extra
    BY DEF param, Made
  <2>4. new_retained(sp) \notin DOMAIN md \union DOMAIN extra \union {null}
    BY DEF new_retained, Made, null
  <2> QED  BY <2>1, <2>2, <2>3, <2>4
<1>6. DOMAIN md' = DOMAIN md
  BY DEF Lengthened
<1>7. CASE Kind(retained) = "tuple"
  <2>1. /\ md'[retained] = TupleNode(list)
        /\ \A id \in DOMAIN md : id # retained => md'[id] = md[id]
    BY <1>1, <1>7 DEF Lengthened
  <2>2. retained \in DOMAIN md /\ md[retained].kind = "tuple"
    BY <1>7 DEF Kind, KindIn
  <2>3. \A id : KindIn(md', id) = KindIn(md, id)
    BY <1>4, <1>6, <2>1, <2>2 DEF KindIn
  <2>4. \A id \in DOMAIN md : IsNode(md'[id])
    BY <1>4, <2>1
  <2> QED  BY <1>1, <1>4, <1>5, <1>6, <1>7, <2>1, <2>2, <2>3, <2>4 DEF KeepsNodes
<1>8. CASE Kind(retained) # "tuple"
  <2> DEFINE node == md[sp]
             new == [node EXCEPT !.retained = new_retained(sp)]
  <2>1. md'[sp] = new /\ \A id \in DOMAIN md : id # sp => md'[id] = md[id]
    BY <1>1, <1>8 DEF Lengthened
  <2>2. IsNode(node) /\ node.kind = "subprogram"
    BY <1>2
  <2> HIDE DEF node
  <2>3. /\ IsNode(new) /\ new.kind = "subprogram" /\ new.types = node.types
        /\ new.definition = node.definition /\ new.name = node.name
        /\ new.retained = new_retained(sp)
    BY <2>2 DEF IsNode, Composite, Derived, Basic, Subprogram, Variable, Block, TupleNode, Subrange
  <2> HIDE DEF new
  <2>4. \A id : KindIn(md', id) = KindIn(md, id)
    BY <1>2, <1>6, <2>1, <2>3 DEF KindIn
  <2>5. \A id \in DOMAIN md : IsNode(md'[id])
    BY <2>1, <2>3
  <2>6. \A id \in DOMAIN md : md[id].kind = "tuple" => id # retained
    BY <1>8 DEF Kind, KindIn
  <2>7. \A id \in DOMAIN md : md[id].kind # "subprogram" => md'[id] = md[id]
    BY <1>2, <2>1
  <2>8. \A id \in DOMAIN md : md[id].kind = "subprogram" =>
            /\ md'[id].types = md[id].types /\ md'[id].definition = md[id].definition
            /\ md'[id].name = md[id].name
            /\ md'[id].retained = IF id = sp THEN new_retained(sp) ELSE md[id].retained
    BY <2>1, <2>3 DEF node
  <2> QED  BY <1>1, <1>5, <1>6, <1>8, <2>4, <2>5, <2>6, <2>7, <2>8 DEF KeepsNodes
<1> QED  BY <1>7, <1>8

LEMMA LengthenedNodes ==
    ASSUME NEW sp \in DOMAIN md, NEW list, Lengthened(sp, list), Kind(sp) = "subprogram",
           sp \notin visited, \A id \in DOMAIN md : IsNode(md[id]),
           \A id \in DOMAIN md : id # null /\ id[1] \notin {"param", "retained"},
           \A v \in DOMAIN extra : Made(v)
    PROVE  AddsNodes(sp, list)
<1> DEFINE made == {param(sp, k) : k \in Lacking(sp)}
<1>1. PICK retained : retained = md[sp].retained
  OBVIOUS
<1>2. /\ DOMAIN md' = DOMAIN md
      /\ DOMAIN extra' = DOMAIN extra \union made
                            \union (IF Kind(retained) = "tuple" THEN {} ELSE {new_retained(sp)})
      /\ \A v \in DOMAIN extra : extra'[v] = extra[v]
      /\ \A k \in Lacking(sp) : extra'[param(sp, k)] = Variable("param", k, sp)
      /\ Kind(retained) # "tuple" => extra'[new_retained(sp)] = TupleNode(list)
  BY <1>1 DEF Lengthened
<1>3. DOMAIN md \intersect DOMAIN extra = {}
  BY DEF Made
<1>4. DOMAIN md \intersect DOMAIN extra' = {}
  <2>1. \A id \in made : id[1] = "param"
    BY DEF param
  <2>2. new_retained(sp)[1] = "retained"
    BY DEF new_retained
  <2> QED  BY <1>2, <1>3, <2>1, <2>2
<1>5. \A id \in made : /\ id[2] = sp /\ id[1] = "param" /\ id[3] \in Lacking(sp) /\ id # null
                       /\ id = param(sp, id[3])
                       /\ extra'[id] = Variable("param", id[3], sp)
  BY <1>2 DEF param, null
<1>6. LET id == new_retained(sp) IN id[2] = sp /\ id[1] = "retained" /\ id # null
  BY DEF new_retained, null
<1>7. \A k \in Lacking(sp) : param(sp, k) \in made
  OBVIOUS
<1> HIDE DEF made
<1>8. /\ DOMAIN Nodes' = DOMAIN md \union DOMAIN extra'
      /\ DOMAIN Nodes = DOMAIN md \union DOMAIN extra
      /\ \A id \in DOMAIN md : Nodes'[id] = md'[id] /\ Nodes[id] = md[id]
      /\ \A id \in DOMAIN extra : Nodes[id] = extra[id]
      /\ \A id \in DOMAIN extra' : Nodes'[id] = extra'[id]
  BY <1>2, <1>3, <1>4 DEF Nodes, ++
<1>9. DOMAIN extra \subseteq DOMAIN extra'
  BY <1>2
<1>10. ASSUME NEW id \in DOMAIN extra' \ DOMAIN extra
       PROVE  \/ /\ id[2] = sp /\ id[1] = "param" /\ id[3] \in Lacking(sp) /\ id # null
                 /\ id = param(sp, id[3])
                 /\ extra'[id] = Variable("param", id[3], sp)
              \/ /\ id[2] = sp /\ id[1] = "retained" /\ id # null /\ id = new_retained(sp)
                 /\ Kind(retained) # "tuple" /\ extra'[id] = TupleNode(list)
  BY <1>2, <1>5, <1>6
<1> QED  BY <1>1, <1>2, <1>4, <1>7, <1>8, <1>9, <1>10 DEF AddsNodes

\* A step of the fourth pass that gives variables to a subprogram.
Longer(sp, list) ==
    /\ GraphInv /\ stage = "parameters" /\ stage' = stage
    /\ sp \in DOMAIN md /\ Kind(sp) = "subprogram" /\ sp \notin visited
    /\ visited' = visited \union {sp}
    /\ Lengthened(sp, list)

LEMMA LongerNodes ==
    ASSUME NEW sp, NEW list, Longer(sp, list)
    PROVE  KeepsNodes(sp, list) /\ AddsNodes(sp, list)
<1>1. /\ sp \in DOMAIN md /\ Lengthened(sp, list) /\ Kind(sp) = "subprogram"
      /\ sp \notin visited /\ Pass4 /\ Closed(Nodes)
  BY DEF Longer, GraphInv
<1>2. \A id \in DOMAIN md : id # null /\ id[1] \notin {"param", "retained"}
  BY <1>1 DEF Pass4
<1>3. \A v \in DOMAIN extra : Made(v)
  BY <1>1 DEF Pass4
<1>4. \A id \in DOMAIN md : IsNode(md[id])
  BY <1>1 DEF Closed, Nodes, ++
<1>5. KeepsNodes(sp, list)
  BY <1>1, <1>2, <1>3, <1>4, Lengthening
<1>6. AddsNodes(sp, list)
  BY <1>1, <1>2, <1>3, <1>4, LengthenedNodes
<1> QED  BY <1>5, <1>6

\* The new list, and what is in it.
LEMMA LongerList ==
    ASSUME NEW sp, NEW list, Longer(sp, list)
    PROVE  LET old == Items(md[sp].retained) IN
           /\ list \in Seq(Range(list)) /\ DOMAIN old = 1..Len(old) /\ Len(old) \in Nat
           /\ Len(old) <= Len(list) /\ DOMAIN list = 1..Len(list) /\ Len(list) \in Nat
           /\ \A k \in DOMAIN old : list[k] = old[k]
           /\ \A i \in DOMAIN list : i > Len(old) =>
                 /\ list[i] \in DOMAIN extra' \ DOMAIN extra
                 /\ list[i] = param(sp, list[i][3]) /\ list[i][3] \in Lacking(sp)
                 /\ extra'[list[i]] = Variable("param", list[i][3], sp)
           /\ \A v \in Range(list) : v \in Range(old) \/ \E i \in DOMAIN list : i > Len(old) /\ v = list[i]
           /\ Range(old) \subseteq DOMAIN Nodes \union {null}
           /\ Range(old) \subseteq Range(list)
           /\ Range(list) \subseteq DOMAIN Nodes' \union {null}
<1>1. PICK old : old = Items(md[sp].retained)
  OBVIOUS
<1>2. AddsNodes(sp, list) /\ KeepsNodes(sp, list)
  BY LongerNodes
<1>3. /\ list \in Seq(Range(list)) /\ DOMAIN old = 1..Len(old) /\ Len(old) \in Nat
      /\ Len(old) <= Len(list) /\ DOMAIN list = 1..Len(list) /\ Len(list) \in Nat
      /\ \A k \in DOMAIN old : list[k] = old[k]
  BY <1>1 DEF Longer, Lengthened, Extends
<1>4. ASSUME NEW i \in DOMAIN list, i > Len(old)
      PROVE  /\ list[i] \in DOMAIN extra' \ DOMAIN extra
             /\ list[i] = param(sp, list[i][3]) /\ list[i][3] \in Lacking(sp)
             /\ extra'[list[i]] = Variable("param", list[i][3], sp)
  <2>1. PICK k \in Lacking(sp) : list[i] = param(sp, k)
    BY <1>1, <1>4 DEF Longer, Lengthened
  <2>2. list[i] \in DOMAIN extra' /\ list[i] \notin DOMAIN Nodes
    BY <1>2, <2>1 DEF AddsNodes, KeepsNodes
  <2>3. list[i] \notin DOMAIN extra
    BY <1>2, <2>2 DEF AddsNodes
  <2>4. list[i][3] = k
    BY <2>1 DEF param
  <2>5. extra'[param(sp, k)] = Variable("param", k, sp)
    BY DEF Longer, Lengthened
  <2> QED  BY <2>1, <2>2, <2>3, <2>4, <2>5
<1>5. ASSUME NEW v \in Range(list)
      PROVE  v \in Range(old) \/ \E i \in DOMAIN list : i > Len(old) /\ v = list[i]
  <2>1. PICK i \in DOMAIN list : v = list[i]
    BY DEF Range
  <2>2. CASE i > Len(old)
    BY <2>1, <2>2
  <2>3. CASE ~(i > Len(old))
    <3>1. i \in DOMAIN old
      BY <1>3, <2>3
    <3> QED  BY <1>3, <2>1, <3>1 DEF Range
  <2> QED  BY <2>2, <2>3
<1>6. Range(old) \subseteq DOMAIN Nodes \union {null}
  <2>1. CASE old = <<>>
    BY <2>1 DEF Range
  <2>2. CASE old # <<>>
    <3>1. PICK t \in DOMAIN md : old = md[t].items /\ md[t].kind = "tuple"
      BY <1>1, <2>2 DEF Items, ItemsIn, KindIn
    <3>2. t \in DOMAIN Nodes /\ Nodes[t] = md[t]
      BY <1>2 DEF AddsNodes
    <3> QED  BY <3>1, <3>2 DEF Longer, GraphInv, Closed
  <2> QED  BY <2>1, <2>2
<1>7. Range(old) \subseteq Range(list)
  BY <1>3 DEF Range
<1>8. Range(list) \subseteq DOMAIN Nodes' \union {null}
  <2> SUFFICES ASSUME NEW v \in Range(list) PROVE v \in DOMAIN Nodes' \union {null}
    OBVIOUS
  <2>1. CASE v \in Range(old)
    BY <1>2, <1>6, <2>1 DEF AddsNodes
  <2>2. CASE \E i \in DOMAIN list : i > Len(old) /\ v = list[i]
    BY <1>2, <1>4, <2>2 DEF AddsNodes
  <2> QED  BY <1>5, <2>1, <2>2
<1> QED  BY <1>1, <1>3, <1>4, <1>5, <1>6, <1>7, <1>8

LEMMA LongerClosed ==
    ASSUME NEW sp, NEW list, Longer(sp, list)
    PROVE  Closed(Nodes')
<1>1. AddsNodes(sp, list) /\ KeepsNodes(sp, list) /\ Closed(Nodes)
  BY LongerNodes DEF Longer, GraphInv
<1>2. list \in Seq(Range(list)) /\ Range(list) \subseteq DOMAIN Nodes' \union {null}
  BY LongerList
<1>3. IsNode(TupleNode(list)) /\ TupleNode(list).kind = "tuple" /\ TupleNode(list).items = list
  BY <1>2, ListNode
<1>4. DOMAIN Nodes \subseteq DOMAIN Nodes'
  BY <1>1 DEF AddsNodes
<1> SUFFICES ASSUME NEW id \in DOMAIN Nodes'
             PROVE  /\ IsNode(Nodes'[id])
                    /\ Nodes'[id].kind = "tuple" =>
                          Range(Nodes'[id].items) \subseteq DOMAIN Nodes' \union {null}
                    /\ Nodes'[id].kind = "subprogram" =>
                          Nodes'[id].retained \in DOMAIN Nodes' \union {null}
  BY DEF Closed
<1>5. CASE id \in DOMAIN md
  <2>1. Nodes'[id] = md'[id] /\ IsNode(md'[id]) /\ Nodes[id] = md[id] /\ id \in DOMAIN Nodes
    BY <1>1, <1>5 DEF AddsNodes, KeepsNodes
  <2>2. md'[id].kind = md[id].kind
    BY <1>1, <1>5 DEF KeepsNodes, KindIn
  <2>3. ASSUME md[id].kind = "tuple" PROVE Range(md'[id].items) \subseteq DOMAIN Nodes' \union {null}
    <3>1. md'[id] = TupleNode(list) \/ md'[id] = md[id]
      BY <1>1, <1>5, <2>3 DEF KeepsNodes
    <3>2. Range(md[id].items) \subseteq DOMAIN Nodes \union {null}
      BY <1>1, <2>1, <2>3 DEF Closed
    <3> QED  BY <1>2, <1>3, <1>4, <3>1, <3>2
  <2>4. ASSUME md[id].kind = "subprogram" PROVE md'[id].retained \in DOMAIN Nodes' \union {null}
    <3>1. \/ md'[id].retained = md[id].retained
          \/ md'[id].retained = new_retained(sp) /\ new_retained(sp) \in DOMAIN extra'
      BY <1>1, <1>5, <2>4 DEF KeepsNodes, AddsNodes
    <3>2. md[id].retained \in DOMAIN Nodes \union {null}
      BY <1>1, <2>1, <2>4 DEF Closed
    <3>3. DOMAIN extra' \subseteq DOMAIN Nodes'
      BY <1>1 DEF AddsNodes
    <3> QED  BY <1>4, <3>1, <3>2, <3>3
  <2> QED  BY <2>1, <2>2, <2>3, <2>4
<1>6. CASE id \in DOMAIN extra
  <2>1. Nodes'[id] = Nodes[id] /\ id \in DOMAIN Nodes
    BY <1>1, <1>6 DEF AddsNodes
  <2> QED  BY <1>1, <1>4, <2>1 DEF Closed
<1>7. CASE id \in DOMAIN extra' \ DOMAIN extra
  <2>1. Nodes'[id] = extra'[id]
    BY <1>1, <1>7 DEF AddsNodes
  <2>2. CASE extra'[id] = TupleNode(list)
    BY <1>2, <1>3, <2>1, <2>2
  <2>3. CASE extra'[id] = Variable("param", id[3], sp)
    BY <2>1, <2>3 DEF Variable, IsNode
  <2> QED  BY <1>1, <1>7, <2>2, <2>3 DEF AddsNodes
<1> QED  BY <1>1, <1>5, <1>6, <1>7 DEF AddsNodes

LEMMA LongerNames ==
    ASSUME NEW sp, NEW list, Longer(sp, list)
    PROVE  NamesAllowed(Nodes') /\ EncodingsAllowed(Nodes')
<1>1. /\ AddsNodes(sp, list) /\ KeepsNodes(sp, list)
      /\ NamesAllowed(Nodes) /\ EncodingsAllowed(Nodes)
  BY LongerNodes DEF Longer, GraphInv
<1> SUFFICES ASSUME NEW id \in DOMAIN Nodes'
             PROVE  /\ HasName(Nodes'[id]) => Nodes'[id].name \notin DOMAIN Sanitized
                    /\ Nodes'[id].kind = "basic" => Nodes'[id].encoding \in BTF_ENCODINGS
  BY DEF NamesAllowed, EncodingsAllowed
<1>2. TupleNode(list).kind = "tuple"
  BY DEF TupleNode
<1>3. CASE id \in DOMAIN md
  <2>1. Nodes'[id] = md'[id] /\ Nodes[id] = md[id] /\ id \in DOMAIN Nodes
    BY <1>1, <1>3 DEF AddsNodes
  <2>2. md'[id].kind = md[id].kind
    BY <1>1, <1>3 DEF KeepsNodes, KindIn
  <2>3. CASE md[id].kind = "tuple"
    BY <2>1, <2>2, <2>3 DEF HasName
  <2>4. CASE md[id].kind = "subprogram"
    <3>1. md'[id].name = md[id].name
      BY <1>1, <1>3, <2>4 DEF KeepsNodes
    <3> QED  BY <1>1, <2>1, <2>2, <2>4, <3>1 DEF HasName, NamesAllowed
  <2>5. CASE md[id].kind \notin {"tuple", "subprogram"}
    <3>1. md'[id] = md[id]
      BY <1>1, <1>3, <2>5 DEF KeepsNodes
    <3> QED  BY <1>1, <2>1, <3>1 DEF NamesAllowed, EncodingsAllowed
  <2> QED  BY <2>3, <2>4, <2>5
<1>4. CASE id \in DOMAIN extra
  <2>1. Nodes'[id] = Nodes[id] /\ id \in DOMAIN Nodes
    BY <1>1, <1>4 DEF AddsNodes
  <2> QED  BY <1>1, <2>1 DEF NamesAllowed, EncodingsAllowed
<1>5. CASE id \in DOMAIN extra' \ DOMAIN extra
  <2>1. Nodes'[id] = extra'[id]
    BY <1>1, <1>5 DEF AddsNodes
  <2>2. CASE extra'[id] = TupleNode(list)
    BY <1>2, <2>1, <2>2 DEF HasName
  <2>3. CASE extra'[id] = Variable("param", id[3], sp)
    <3>1. extra'[id].kind = "variable" /\ extra'[id].name = "param"
      BY <2>3 DEF Variable
    <3> QED  BY <2>1, <3>1, SanitizedAssumption
  <2> QED  BY <1>1, <1>5, <2>2, <2>3 DEF AddsNodes
<1> QED  BY <1>1, <1>3, <1>4, <1>5 DEF AddsNodes

\* New variables say nothing to the pass: they are not in md.
LEMMA LongerHave ==
    ASSUME NEW sp, NEW list, Longer(sp, list)
    PROVE  /\ \A id : Kind(id)' = Kind(id)
           /\ \A id : IsMember(id)' <=> IsMember(id)
           /\ \A id : Kind(id) \in {"derived", "variable"} => md'[id] = md[id]
           /\ \A items : Have(items)' = Have(items)
<1>1. KeepsNodes(sp, list)
  BY LongerNodes
<1>2. \A id : Kind(id)' = Kind(id)
  BY <1>1 DEF KeepsNodes, Kind
<1>3. \A id : Kind(id) \in {"derived", "variable"} => md'[id] = md[id]
  BY <1>1 DEF KeepsNodes, Kind, KindIn
<1>4. \A id : IsMember(id)' <=> IsMember(id)
  BY <1>2, <1>3 DEF IsMember
<1>5. ASSUME NEW items PROVE Have(items)' = Have(items)
  <2>1. \A v : (Kind(v) = "variable" /\ md[v].name # Unnamed)
               <=> (Kind(v)' = "variable" /\ md'[v].name # Unnamed)
    BY <1>2, <1>3
  <2>2. {v \in Range(items) : Kind(v)' = "variable" /\ md'[v].name # Unnamed}
        = {v \in Range(items) : Kind(v) = "variable" /\ md[v].name # Unnamed}
    BY <2>1
  <2>3. \A v \in {i \in Range(items) : Kind(i) = "variable" /\ md[i].name # Unnamed} :
            md'[v].arg = md[v].arg
    BY <1>3
  <2> QED  BY <2>2, <2>3 DEF Have
<1> QED  BY <1>2, <1>3, <1>4, <1>5

LEMMA LongerTypes ==
    ASSUME NEW sp, NEW list, Longer(sp, list), NEW s \in DOMAIN md, Kind(s) = "subprogram"
    PROVE  parameter_types(s)' = parameter_types(s)
<1>1. KeepsNodes(sp, list) /\ Pass4
  BY LongerNodes DEF Longer, GraphInv
<1>2. PICK types : types = md[s].types
  OBVIOUS
<1>3. md'[s].types = types
  BY <1>1, <1>2 DEF KeepsNodes, Kind, KindIn
<1>4. Items(types)' = Items(types)
  <2>1. KindIn(md', types) = KindIn(md, types)
    BY <1>1 DEF KeepsNodes
  <2>2. CASE Kind(types) = "tuple"
    <3>1. types # md[sp].retained /\ types \in DOMAIN md /\ md[types].kind = "tuple"
      BY <1>1, <1>2, <2>2 DEF Pass4, Longer, Kind, KindIn
    <3>2. md'[types] = md[types]
      BY <1>1, <3>1 DEF KeepsNodes
    <3> QED  BY <2>1, <3>2 DEF Items, ItemsIn
  <2>3. CASE Kind(types) # "tuple"
    BY <2>1, <2>3 DEF Items, ItemsIn, Kind
  <2> QED  BY <2>2, <2>3
<1> QED  BY <1>2, <1>3, <1>4 DEF parameter_types

LEMMA LongerOnce ==
    ASSUME NEW sp, NEW list, Longer(sp, list), Kind(md[sp].retained) = "tuple"
    PROVE  ArgumentsOnce(md', list) /\ NoneTwice(list)'
<1>1. PICK retained, old : retained = md[sp].retained /\ old = md[retained].items
  OBVIOUS
<1>2. /\ KeepsNodes(sp, list) /\ AddsNodes(sp, list) /\ Pass4
      /\ retained \in DOMAIN md /\ md[retained].kind = "tuple" /\ old = Items(retained)
  BY <1>1, LongerNodes DEF Longer, GraphInv, Kind, KindIn, Items, ItemsIn
<1>3. ArgumentsOnce(md, old) /\ NoneTwice(old)
  BY <1>1, <1>2 DEF Pass4, Kind, KindIn
<1>4. /\ \A v \in Range(list) : \/ v \in Range(old)
                                \/ /\ v \in DOMAIN extra' \ DOMAIN extra
                                   /\ v[3] \in Lacking(sp)
                                   /\ extra'[v] = Variable("param", v[3], sp)
      /\ Range(old) \subseteq DOMAIN Nodes \union {null}
      /\ Range(old) \subseteq Range(list)
  BY <1>1, <1>2, LongerList
<1>5. \A v \in DOMAIN extra' : v \notin DOMAIN md
  BY <1>2 DEF AddsNodes
<1>6. /\ \A id : KindIn(md', id) = KindIn(md, id)
      /\ \A id : KindIn(md, id) = "variable" => md'[id] = md[id]
  BY <1>2 DEF KeepsNodes, KindIn
<1>7. ArgumentsOnce(md', list)
  <2>1. \A v \in Range(list) : KindIn(md, v) = "variable" => v \in Range(old)
    BY <1>4, <1>5 DEF KindIn
  <2> QED  BY <1>3, <1>6, <2>1 DEF ArgumentsOnce
<1>8. Have(list)' = Have(list) /\ Have(list) = Have(old)
  <2>1. Have(list)' = Have(list)
    BY LongerHave
  <2>2. \A v \in Range(list) : Kind(v) = "variable" => v \in Range(old)
    BY <1>4, <1>5 DEF Kind, KindIn
  <2>3. {v \in Range(list) : Kind(v) = "variable" /\ md[v].name # Unnamed}
        = {v \in Range(old) : Kind(v) = "variable" /\ md[v].name # Unnamed}
    BY <1>4, <2>2
  <2> QED  BY <2>1, <2>3 DEF Have
<1>9. ASSUME NEW v \in Range(list), v \in DOMAIN extra', extra'[v].kind = "variable"
      PROVE  extra'[v].arg \notin Have(old)
  <2>1. CASE v \in Range(old)
    <3>1. v \in DOMAIN Nodes
      <4>1. v # null
        BY <1>2, <1>9 DEF AddsNodes, Longer, GraphInv, Pass4, Made
      <4> QED  BY <1>4, <2>1, <4>1
    <3>2. v \in DOMAIN extra
      BY <1>2, <1>5, <1>9, <3>1 DEF AddsNodes
    <3>3. extra'[v] = extra[v]
      BY <3>2 DEF Longer, Lengthened
    <3> QED  BY <1>3, <1>9, <2>1, <3>2, <3>3 DEF NoneTwice
  <2>2. CASE v[3] \in Lacking(sp) /\ extra'[v] = Variable("param", v[3], sp)
    <3>1. extra'[v].arg = v[3]
      BY <2>2 DEF Variable
    <3>2. Lacking(sp) \intersect Have(old) = {}
      BY <1>1, <1>2 DEF Lacking
    <3> QED  BY <2>2, <3>1, <3>2
  <2> QED  BY <1>4, <2>1, <2>2
<1>10. NoneTwice(list)'
  BY <1>8, <1>9 DEF NoneTwice
<1> QED  BY <1>7, <1>10

LEMMA LongerSorted ==
    ASSUME NEW sp, NEW list, Longer(sp, list), NEW c \in DOMAIN md, Kind(c) = "composite"
    PROVE  Nondecreasing(elements(c))'
<1>1. /\ KeepsNodes(sp, list) /\ AddsNodes(sp, list) /\ Pass4
      /\ Nondecreasing(elements(c)) /\ md[c].elements \in DOMAIN md \union {null}
  BY LongerNodes DEF Longer, GraphInv, Pass4
<1>2. PICK t, old : t = md[c].elements /\ old = elements(c)
  OBVIOUS
<1>3. md'[c] = md[c]
  BY <1>1 DEF KeepsNodes, Kind, KindIn
<1>4. PICK new : new = Items(t)' /\ elements(c)' = new
  BY <1>2, <1>3 DEF elements
<1>5. old = Items(t)
  BY <1>2 DEF elements
<1>6. CASE new = old
  <2>1. MemberSlots(old)' = MemberSlots(old)
    BY LongerHave DEF MemberSlots
  <2>2. \A k \in MemberSlots(old) : md'[old[k]] = md[old[k]]
    BY LongerHave DEF MemberSlots, IsMember
  <2> QED  BY <1>1, <1>2, <1>4, <1>6, <2>1, <2>2 DEF Nondecreasing
<1>7. CASE new # old
  <2>1. /\ t \in DOMAIN md /\ md[t].kind = "tuple" /\ t = md[sp].retained
        /\ md'[t] = TupleNode(list) /\ new = list
    <3>1. KindIn(md', t) = KindIn(md, t)
      BY <1>1 DEF KeepsNodes
    <3>2. t \in DOMAIN md /\ md[t].kind = "tuple"
      BY <1>4, <1>5, <1>7, <3>1 DEF Items, ItemsIn, KindIn
    <3>3. new = md'[t].items /\ old = md[t].items
      BY <1>4, <1>5, <3>1, <3>2 DEF Items, ItemsIn, KindIn
    <3>4. md'[t] = TupleNode(list) /\ t = md[sp].retained
      BY <1>1, <1>7, <3>2, <3>3 DEF KeepsNodes
    <3>5. TupleNode(list).items = list
      BY DEF TupleNode
    <3> QED  BY <3>2, <3>3, <3>4, <3>5
  <2>2. old = Items(md[sp].retained)
    BY <1>5, <2>1
  <2>3. /\ DOMAIN old = 1..Len(old) /\ DOMAIN list = 1..Len(list)
        /\ Len(old) \in Nat /\ Len(list) \in Nat /\ Len(old) <= Len(list)
        /\ \A k \in DOMAIN old : list[k] = old[k]
        /\ \A k \in DOMAIN list : k > Len(old) => list[k] \in DOMAIN extra'
    BY <2>2, LongerList
  <2>4. \A v \in DOMAIN extra' : ~IsMember(v)
    BY <1>1 DEF AddsNodes, IsMember, Kind, KindIn
  <2>5. \A k \in DOMAIN list : IsMember(list[k]) => k \in DOMAIN old
    BY <2>3, <2>4
  <2>6. MemberSlots(list)' = MemberSlots(old)
    <3>1. MemberSlots(list)' = MemberSlots(list)
      BY LongerHave DEF MemberSlots
    <3>2. MemberSlots(list) = MemberSlots(old)
      BY <2>3, <2>5 DEF MemberSlots
    <3> QED  BY <3>1, <3>2
  <2>7. \A k \in MemberSlots(old) : list[k] = old[k] /\ md'[list[k]] = md[old[k]]
    BY <2>3, LongerHave DEF MemberSlots, IsMember
  <2> QED  BY <1>1, <1>2, <1>4, <2>1, <2>6, <2>7 DEF Nondecreasing
<1> QED  BY <1>6, <1>7

\* An argument that a variable in md names is shown.
LEMMA HaveShown ==
    ASSUME Pass4, Closed(Nodes), NEW sp \in DOMAIN md, NEW k \in Have(Items(md[sp].retained))
    PROVE  Shown(Nodes, Items(md[sp].retained), k)
<1>1. PICK retained, old : retained = md[sp].retained /\ old = Items(retained)
  OBVIOUS
<1>2. PICK v \in Range(old) : /\ Kind(v) = "variable" /\ md[v].name # Unnamed /\ md[v].arg = k
                              /\ k # 0
  BY <1>1 DEF Have
<1>3. /\ retained \in DOMAIN md /\ md[retained].kind = "tuple" /\ old = md[retained].items
      /\ v \in DOMAIN md
  <2>1. old # <<>>
    BY <1>2 DEF Range
  <2> QED  BY <1>1, <1>2, <2>1 DEF Items, ItemsIn, Kind, KindIn
<1>4. ArgumentsOnce(md, old)
  BY <1>3 DEF Pass4, Kind, KindIn
<1>5. /\ DOMAIN Nodes = DOMAIN md \union DOMAIN extra
      /\ \A id \in DOMAIN md : Nodes[id] = md[id]
      /\ \A id \in DOMAIN extra \ DOMAIN md : Nodes[id] = extra[id]
  BY DEF Nodes, ++
<1>6. \A id \in DOMAIN extra : extra[id].kind = "variable" => extra[id].name # Unnamed
  <2> SUFFICES ASSUME NEW id \in DOMAIN extra, extra[id].kind = "variable"
               PROVE  extra[id].name # Unnamed
    OBVIOUS
  <2>1. extra[id] = Variable("param", id[3], id[2])
    BY DEF Pass4, Made
  <2> QED  BY <2>1 DEF Variable, Unnamed
<1>7. PICK i \in DOMAIN old : old[i] = v
  BY <1>2 DEF Range
<1>8. IsArg(Nodes, old, i, k)
  BY <1>2, <1>3, <1>5, <1>7 DEF IsArg, KindIn, Kind
<1>9. ASSUME NEW j \in DOMAIN old, IsArg(Nodes, old, j, k) PROVE Nodes[old[j]].name # Unnamed
  <2>1. /\ old[j] \in DOMAIN Nodes /\ Nodes[old[j]].kind = "variable" /\ Nodes[old[j]].arg = k
    BY <1>9 DEF IsArg, KindIn
  <2>2. CASE old[j] \in DOMAIN md
    <3>1. KindIn(md, old[j]) = "variable" /\ md[old[j]].arg = k /\ old[j] \in Range(old)
      BY <1>5, <2>1, <2>2 DEF KindIn, Range
    <3>2. old[j] = v
      BY <1>2, <1>4, <3>1 DEF ArgumentsOnce, Kind
    <3> QED  BY <1>2, <1>3, <1>5, <3>2
  <2>3. CASE old[j] \notin DOMAIN md
    BY <1>5, <1>6, <2>1, <2>3
  <2> QED  BY <2>2, <2>3
<1> QED  BY <1>1, <1>8, <1>9 DEF Shown

\* What is shown stays shown in a list that got longer.
LEMMA StaysShown ==
    ASSUME NEW sp, NEW list, Longer(sp, list), NEW k, NEW old, NEW new,
           Shown(Nodes, old, k), DOMAIN old \subseteq DOMAIN new,
           \A i \in DOMAIN old : new[i] = old[i] /\ old[i] \in DOMAIN Nodes \union {null},
           \A i \in DOMAIN new \ DOMAIN old : Nodes'[new[i]].name = "param"
    PROVE  Shown(Nodes', new, k)
<1>1. AddsNodes(sp, list) /\ KeepsNodes(sp, list) /\ Pass4
  BY LongerNodes DEF Longer, GraphInv
<1>2. null \notin DOMAIN Nodes' /\ null \notin DOMAIN Nodes
  <2>1. null \notin DOMAIN md /\ null \notin DOMAIN extra
    BY <1>1 DEF Pass4, Made
  <2>2. null \notin DOMAIN extra' \ DOMAIN extra
    BY <1>1 DEF AddsNodes
  <2> QED  BY <1>1, <2>1, <2>2 DEF AddsNodes
<1>3. ASSUME NEW v \in DOMAIN Nodes \union {null}
      PROVE  /\ KindIn(Nodes', v) = KindIn(Nodes, v)
             /\ KindIn(Nodes, v) = "variable" => Nodes'[v] = Nodes[v]
  <2>1. CASE v = null
    BY <1>2, <2>1 DEF KindIn
  <2>2. CASE v \in DOMAIN md
    <3>1. /\ v \in DOMAIN Nodes /\ v \in DOMAIN Nodes' /\ Nodes[v] = md[v] /\ Nodes'[v] = md'[v]
      BY <1>1, <2>2 DEF AddsNodes
    <3>2. /\ md'[v].kind = md[v].kind
          /\ md[v].kind = "variable" => md'[v] = md[v]
      BY <1>1, <2>2 DEF KeepsNodes, KindIn
    <3> QED  BY <3>1, <3>2 DEF KindIn
  <2>3. CASE v \in DOMAIN extra
    BY <1>1, <2>3 DEF AddsNodes, KindIn
  <2> QED  BY <1>1, <2>1, <2>2, <2>3 DEF AddsNodes
<1>4. PICK i \in DOMAIN old :
        /\ IsArg(Nodes, old, i, k)
        /\ \A j \in DOMAIN old : j >= i /\ IsArg(Nodes, old, j, k) => Nodes[old[j]].name # Unnamed
  BY DEF Shown
<1>5. \A j \in DOMAIN old : /\ IsArg(Nodes', new, j, k) <=> IsArg(Nodes, old, j, k)
                            /\ IsArg(Nodes, old, j, k) => Nodes'[new[j]] = Nodes[old[j]]
  BY <1>3 DEF IsArg
<1>6. \A j \in DOMAIN new : j >= i /\ IsArg(Nodes', new, j, k) => Nodes'[new[j]].name # Unnamed
  BY <1>4, <1>5 DEF Unnamed
<1> QED  BY <1>4, <1>5, <1>6 DEF Shown

LEMMA LongerShown ==
    ASSUME NEW sp, NEW list, Longer(sp, list), NEW s \in visited \union {sp},
           NEW k \in DOMAIN parameter_types(s), parameter_types(s)[k] # null
    PROVE  Shown(Nodes', VariablesOf(Nodes', s), k)
<1>1. AddsNodes(sp, list) /\ KeepsNodes(sp, list) /\ Pass4 /\ Closed(Nodes)
  BY LongerNodes DEF Longer, GraphInv
<1>2. PICK retained, old : retained = md[sp].retained /\ old = Items(retained)
  OBVIOUS
<1>3. /\ DOMAIN old = 1..Len(old) /\ DOMAIN list = 1..Len(list)
      /\ Len(old) \in Nat /\ Len(list) \in Nat /\ Len(old) <= Len(list)
      /\ \A i \in DOMAIN old : list[i] = old[i]
      /\ Range(old) \subseteq DOMAIN Nodes \union {null}
      /\ \A i \in DOMAIN list : i > Len(old) =>
            /\ list[i] \in DOMAIN extra' \ DOMAIN extra
            /\ list[i] = param(sp, list[i][3]) /\ list[i][3] \in Lacking(sp)
            /\ extra'[list[i]] = Variable("param", list[i][3], sp)
  BY <1>2, LongerList
<1>4. \A i \in DOMAIN list : i > Len(old) =>
          Nodes'[list[i]] = Variable("param", list[i][3], sp) /\ list[i] \in DOMAIN Nodes'
  BY <1>1, <1>3 DEF AddsNodes
<1>5. \A i \in DOMAIN list : i > Len(old) =>
          /\ Nodes'[list[i]].name = "param" /\ Nodes'[list[i]].arg = list[i][3]
          /\ KindIn(Nodes', list[i]) = "variable"
  <2>1. \A n, a, b : LET v == Variable(n, a, b) IN
            v.name = n /\ v.arg = a /\ v.kind = "variable"
    BY DEF Variable
  <2> QED  BY <1>4, <2>1 DEF KindIn
<1>6. \A i \in DOMAIN list \ DOMAIN old : i > Len(old)
  BY <1>3
<1>7. Shown(Nodes, old, k) => Shown(Nodes', list, k)
  <2>1. DOMAIN old \subseteq DOMAIN list
    BY <1>3
  <2>2. \A i \in DOMAIN old : list[i] = old[i] /\ old[i] \in DOMAIN Nodes \union {null}
    BY <1>3 DEF Range
  <2>3. \A i \in DOMAIN list \ DOMAIN old : Nodes'[list[i]].name = "param"
    BY <1>5, <1>6
  <2> QED  BY <2>1, <2>2, <2>3, StaysShown
<1>8. TupleNode(list).kind = "tuple" /\ TupleNode(list).items = list
  BY DEF TupleNode
<1>9. \A id \in DOMAIN md : /\ id \in DOMAIN Nodes /\ id \in DOMAIN Nodes'
                            /\ Nodes[id] = md[id] /\ Nodes'[id] = md'[id]
  BY <1>1 DEF AddsNodes
<1>10. CASE s = sp
  <2>1. VariablesOf(Nodes', sp) = list
    <3>1. sp \in DOMAIN md /\ md[sp].kind = "subprogram"
      BY DEF Longer, Kind, KindIn
    <3>2. CASE Kind(retained) = "tuple"
      <4>1. Nodes'[sp].retained = retained
        BY <1>1, <1>2, <1>9, <3>1, <3>2 DEF KeepsNodes
      <4>2. retained \in DOMAIN md /\ md[retained].kind = "tuple"
        BY <3>2 DEF Kind, KindIn
      <4>3. Nodes'[retained] = TupleNode(list) /\ retained \in DOMAIN Nodes'
        BY <1>1, <1>2, <1>9, <4>2 DEF KeepsNodes
      <4> QED  BY <1>8, <4>1, <4>3 DEF VariablesOf, ItemsIn, KindIn
    <3>3. CASE Kind(retained) # "tuple"
      <4>1. Nodes'[sp].retained = new_retained(sp)
        BY <1>1, <1>2, <1>9, <3>1, <3>3 DEF KeepsNodes
      <4>2. new_retained(sp) \in DOMAIN extra' /\ extra'[new_retained(sp)] = TupleNode(list)
        BY <1>1, <1>2, <3>3 DEF AddsNodes, Longer, Lengthened
      <4>3. Nodes'[new_retained(sp)] = TupleNode(list) /\ new_retained(sp) \in DOMAIN Nodes'
        BY <1>1, <4>2 DEF AddsNodes
      <4> QED  BY <1>8, <4>1, <4>3 DEF VariablesOf, ItemsIn, KindIn
    <3> QED  BY <3>2, <3>3
  <2>2. CASE k \in Lacking(sp)
    <3>1. PICK i \in DOMAIN list : i > Len(old) /\ list[i] = param(sp, k)
      BY <1>2, <2>2 DEF Longer, Lengthened
    <3>2. list[i][3] = k
      BY <3>1 DEF param
    <3>3. IsArg(Nodes', list, i, k)
      BY <1>5, <3>1, <3>2 DEF IsArg
    <3>4. \A j \in DOMAIN list : j >= i => j > Len(old)
      BY <1>3, <3>1
    <3>5. \A j \in DOMAIN list : j >= i => Nodes'[list[j]].name # Unnamed
      BY <1>5, <3>4 DEF Unnamed
    <3> QED  BY <1>10, <2>1, <3>3, <3>5 DEF Shown
  <2>3. CASE k \notin Lacking(sp)
    <3>1. k \in Have(old)
      BY <1>2, <1>10, <2>3 DEF Lacking
    <3>2. Shown(Nodes, old, k)
      BY <1>1, <1>2, <3>1, HaveShown DEF Longer
    <3> QED  BY <1>7, <1>10, <2>1, <3>2
  <2> QED  BY <2>2, <2>3
<1>11. CASE s # sp
  <2>1. s \in visited /\ s \in DOMAIN md /\ md[s].kind = "subprogram"
    BY <1>1, <1>11 DEF Pass4, Kind, KindIn
  <2>2. Shown(Nodes, VariablesOf(Nodes, s), k)
    BY <1>1, <2>1 DEF Pass4
  <2>3. PICK r : r = md[s].retained
    OBVIOUS
  <2>4. Nodes[s].retained = r /\ Nodes'[s].retained = r
    BY <1>1, <1>9, <1>11, <2>1, <2>3 DEF KeepsNodes
  <2>5. r \in DOMAIN Nodes /\ Nodes[r].kind = "tuple" /\ VariablesOf(Nodes, s) = Nodes[r].items
    <3>1. VariablesOf(Nodes, s) # <<>>
      BY <2>2 DEF Shown
    <3> QED  BY <2>4, <3>1 DEF VariablesOf, ItemsIn, KindIn
  <2>6. CASE r \in DOMAIN md /\ r = retained
    <3>1. Kind(retained) = "tuple" /\ old = Nodes[r].items
      BY <1>2, <1>9, <2>5, <2>6 DEF Kind, KindIn, Items, ItemsIn
    <3>2. Nodes'[r] = TupleNode(list) /\ r \in DOMAIN Nodes'
      BY <1>1, <1>2, <1>9, <2>5, <2>6 DEF KeepsNodes
    <3>3. VariablesOf(Nodes', s) = list
      BY <1>8, <2>4, <3>2 DEF VariablesOf, ItemsIn, KindIn
    <3> QED  BY <1>7, <2>2, <2>5, <3>1, <3>3
  <2>7. CASE ~(r \in DOMAIN md /\ r = retained)
    <3>1. Nodes'[r] = Nodes[r] /\ r \in DOMAIN Nodes'
      <4>1. CASE r \in DOMAIN md
        <5>1. md'[r] = md[r]
          BY <1>1, <1>2, <1>9, <2>5, <2>7, <4>1 DEF KeepsNodes
        <5> QED  BY <1>9, <4>1, <5>1
      <4>2. CASE r \in DOMAIN extra
        BY <1>1, <4>2 DEF AddsNodes
      <4> QED  BY <1>1, <2>5, <4>1, <4>2 DEF AddsNodes
    <3>2. VariablesOf(Nodes', s) = Nodes[r].items
      BY <2>4, <2>5, <3>1 DEF VariablesOf, ItemsIn, KindIn
    <3>3. PICK L : L = Nodes[r].items
      OBVIOUS
    <3>4. Range(L) \subseteq DOMAIN Nodes \union {null}
      BY <1>1, <2>5, <3>3 DEF Closed
    <3>5. \A i \in DOMAIN L : L[i] = L[i] /\ L[i] \in DOMAIN Nodes \union {null}
      BY <3>4 DEF Range
    <3>6. \A i \in DOMAIN L \ DOMAIN L : Nodes'[L[i]].name = "param"
      OBVIOUS
    <3>7. Shown(Nodes', L, k)
      BY <2>2, <2>5, <3>3, <3>5, <3>6, StaysShown
    <3> QED  BY <3>2, <3>3, <3>7
  <2> QED  BY <2>6, <2>7
<1> QED  BY <1>10, <1>11

LEMMA LongerStep ==
    ASSUME NEW sp, NEW list, Longer(sp, list)
    PROVE  GraphInv'
<1>1. /\ AddsNodes(sp, list) /\ KeepsNodes(sp, list) /\ Pass4
      /\ sp \in DOMAIN md /\ Kind(sp) = "subprogram" /\ visited' = visited \union {sp}
      /\ stage = "parameters" /\ stage' = "parameters"
  BY LongerNodes DEF Longer, GraphInv
<1>2. Closed(Nodes') /\ NamesAllowed(Nodes') /\ EncodingsAllowed(Nodes')
  BY LongerClosed, LongerNames
<1>3. DOMAIN md' = DOMAIN md /\ \A id : Kind(id)' = Kind(id)
  BY <1>1, LongerHave DEF KeepsNodes
<1>4. ASSUME NEW id \in DOMAIN md, Kind(id) = "tuple"
      PROVE  (ArgumentsOnce(md, md[id].items) /\ NoneTwice(md[id].items))'
  <2>1. md[id].kind = "tuple"
    BY <1>4 DEF Kind, KindIn
  <2>2. CASE id = md[sp].retained
    <3>1. md'[id].items = list
      BY <1>1, <2>1, <2>2 DEF KeepsNodes, TupleNode
    <3> QED  BY <1>4, <2>2, <3>1, LongerOnce
  <2>3. CASE id # md[sp].retained
    <3>1. PICK items : items = md[id].items
      OBVIOUS
    <3>2. md'[id].items = items
      BY <1>1, <2>1, <2>3, <3>1 DEF KeepsNodes
    <3>3. ArgumentsOnce(md, items) /\ NoneTwice(items)
      BY <1>1, <1>4, <3>1 DEF Pass4
    <3>4. ArgumentsOnce(md', items)
      <4>1. /\ \A v : KindIn(md', v) = KindIn(md, v)
            /\ \A v : KindIn(md, v) = "variable" => md'[v] = md[v]
        BY <1>1 DEF KeepsNodes, KindIn
      <4> QED  BY <3>3, <4>1 DEF ArgumentsOnce
    <3>5. NoneTwice(items)'
      <4>1. Range(items) \subseteq DOMAIN Nodes \union {null}
        BY <1>1, <2>1, <3>1 DEF Longer, GraphInv, Closed, AddsNodes
      <4>2. \A v \in DOMAIN extra' : v # null /\ (v \in DOMAIN Nodes => v \in DOMAIN extra)
        BY <1>1 DEF AddsNodes, Pass4, Made
      <4>3. \A v \in DOMAIN extra : extra'[v] = extra[v]
        BY DEF Longer, Lengthened
      <4>4. Have(items)' = Have(items)
        BY LongerHave
      <4> QED  BY <3>3, <4>1, <4>2, <4>3, <4>4 DEF NoneTwice
    <3> QED  BY <3>2, <3>4, <3>5
  <2> QED  BY <2>2, <2>3
<1>5. ASSUME NEW id \in DOMAIN md, Kind(id) = "composite"
      PROVE  (md[id].elements \in DOMAIN md \union {null} /\ Nondecreasing(elements(id)))'
  <2>1. md'[id] = md[id]
    BY <1>1, <1>5 DEF KeepsNodes, Kind, KindIn
  <2>2. md[id].elements \in DOMAIN md \union {null}
    BY <1>1, <1>5 DEF Pass4
  <2> QED  BY <1>3, <1>5, <2>1, <2>2, LongerSorted
<1>6. ASSUME NEW id \in DOMAIN md, Kind(id) = "subprogram"
      PROVE  (/\ md[id].types \in DOMAIN md \union {null}
              /\ \A s \in DOMAIN md :
                    Kind(s) = "subprogram" /\ Kind(md[id].types) = "tuple" =>
                        md[s].retained # md[id].types)'
  <2>1. PICK types : types = md[id].types
    OBVIOUS
  <2>2. /\ types \in DOMAIN md \union {null}
        /\ \A s \in DOMAIN md : Kind(s) = "subprogram" /\ Kind(types) = "tuple" =>
              md[s].retained # types
    BY <1>1, <1>6, <2>1 DEF Pass4
  <2>3. md'[id].types = types
    BY <1>1, <1>6, <2>1 DEF KeepsNodes, Kind, KindIn
  <2>4. types # new_retained(sp)
    BY <1>1, <2>2 DEF KeepsNodes, AddsNodes
  <2>5. \A s \in DOMAIN md : Kind(s) = "subprogram" =>
            md'[s].retained \in {md[s].retained, new_retained(sp)}
    BY <1>1 DEF KeepsNodes, Kind, KindIn
  <2>6. \A s \in DOMAIN md : Kind(s)' = "subprogram" /\ Kind(types)' = "tuple" =>
            md'[s].retained # types
    BY <1>3, <2>2, <2>4, <2>5
  <2> QED  BY <1>3, <2>2, <2>3, <2>6
<1>7. visited' \subseteq {id \in DOMAIN md : Kind(id)' = "subprogram"}
  BY <1>1, <1>3 DEF Pass4
<1>8. ASSUME NEW v \in DOMAIN extra' PROVE Made(v)'
  <2>1. CASE v \in DOMAIN extra
    <3>1. Made(v) /\ extra'[v] = extra[v]
      BY <1>1, <2>1 DEF Pass4, Longer, Lengthened
    <3> QED  BY <1>1, <3>1 DEF Made
  <2>2. CASE v \notin DOMAIN extra
    <3>1. TupleNode(list).kind = "tuple"
      BY DEF TupleNode
    <3> QED  BY <1>1, <2>2, <3>1 DEF AddsNodes, Made
  <2> QED  BY <2>1, <2>2
<1>9. ASSUME NEW s \in visited', NEW k \in DOMAIN parameter_types(s)',
             parameter_types(s)'[k] # null
      PROVE  Shown(Nodes', VariablesOf(Nodes', s), k)
  <2>1. s \in visited \union {sp} /\ s \in DOMAIN md /\ Kind(s) = "subprogram"
    BY <1>1 DEF Pass4
  <2>2. parameter_types(s)' = parameter_types(s)
    BY <2>1, LongerTypes
  <2> QED  BY <1>9, <2>1, <2>2, LongerShown
<1>10. Pass4'
  <2>1. ASSUME NEW id \in DOMAIN md
        PROVE  (/\ id # null /\ id[1] \notin {"param", "retained"}
                /\ Kind(id) = "tuple" => ArgumentsOnce(md, md[id].items) /\ NoneTwice(md[id].items)
                /\ Kind(id) = "composite" =>
                      md[id].elements \in DOMAIN md \union {null} /\ Nondecreasing(elements(id))
                /\ Kind(id) = "subprogram" =>
                      /\ md[id].types \in DOMAIN md \union {null}
                      /\ \A s \in DOMAIN md :
                            Kind(s) = "subprogram" /\ Kind(md[id].types) = "tuple" =>
                                md[s].retained # md[id].types)'
    <3>1. id # null /\ id[1] \notin {"param", "retained"}
      BY <1>1 DEF Pass4
    <3>2. CASE Kind(id) = "tuple"
      <4>1. Kind(id)' = "tuple"
        BY <1>3, <3>2
      <4> QED  BY <1>4, <3>1, <3>2, <4>1
    <3>3. CASE Kind(id) = "composite"
      <4>1. Kind(id)' = "composite"
        BY <1>3, <3>3
      <4> QED  BY <1>5, <3>1, <3>3, <4>1
    <3>4. CASE Kind(id) = "subprogram"
      <4>1. Kind(id)' = "subprogram"
        BY <1>3, <3>4
      <4> QED  BY <1>6, <3>1, <3>4, <4>1
    <3>5. CASE Kind(id) \notin {"tuple", "composite", "subprogram"}
      <4>1. Kind(id)' \notin {"tuple", "composite", "subprogram"}
        BY <1>3, <3>5
      <4> QED  BY <3>1, <4>1
    <3> QED  BY <3>2, <3>3, <3>4, <3>5
  <2>2. visited' \subseteq {id \in DOMAIN md' : Kind(id)' = "subprogram"}
    BY <1>3, <1>7
  <2> QED  BY <1>3, <1>8, <1>9, <2>1, <2>2 DEF Pass4
<1> QED  BY <1>1, <1>2, <1>10 DEF GraphInv, BeforePass4, Written

\* A subprogram whose arguments all have names is only seen.
LEMMA NothingLacking ==
    ASSUME GraphInv, stage = "parameters", NEW sp \in DOMAIN md, Kind(sp) = "subprogram",
           Lacking(sp) = {}, UNCHANGED <<stage, md, extra>>, visited' = visited \union {sp}
    PROVE  GraphInv'
<1>1. Pass4 /\ Closed(Nodes) /\ NamesAllowed(Nodes) /\ EncodingsAllowed(Nodes)
  BY DEF GraphInv
<1>2. ASSUME NEW k \in DOMAIN parameter_types(sp), parameter_types(sp)[k] # null
      PROVE  Shown(Nodes, VariablesOf(Nodes, sp), k)
  <2>1. PICK old : old = Items(md[sp].retained)
    OBVIOUS
  <2>2. k \in Have(old)
    BY <1>2, <2>1 DEF Lacking
  <2>3. Shown(Nodes, old, k)
    BY <1>1, <2>1, <2>2, HaveShown
  <2>4. old # <<>>
    BY <2>2 DEF Have, Range
  <2>5. /\ md[sp].retained \in DOMAIN md /\ md[md[sp].retained].kind = "tuple"
        /\ old = md[md[sp].retained].items
    BY <2>1, <2>4 DEF Items, ItemsIn, KindIn
  <2>6. VariablesOf(Nodes, sp) = old
    BY <2>5 DEF VariablesOf, ItemsIn, KindIn, Nodes, ++
  <2> QED  BY <2>3, <2>6
<1>3. \A v \in DOMAIN extra : Made(v)'
  BY <1>1 DEF Pass4, Made
<1>4. /\ \A id : Kind(id)' = Kind(id)
      /\ \A id : Items(id)' = Items(id) /\ parameter_types(id)' = parameter_types(id)
      /\ Nodes' = Nodes
      /\ \A items : Have(items)' = Have(items) /\ (Nondecreasing(items)' <=> Nondecreasing(items))
      /\ \A items : NoneTwice(items)' <=> NoneTwice(items)
      /\ \A id : elements(id)' = elements(id)
  BY DEF Kind, Items, parameter_types, Nodes, Have, Nondecreasing, MemberSlots, IsMember, NoneTwice,
         elements
<1>5. Pass4'
  <2>1. ASSUME NEW s \in visited', NEW k \in DOMAIN parameter_types(s),
               parameter_types(s)[k] # null
        PROVE  Shown(Nodes, VariablesOf(Nodes, s), k)
    BY <1>1, <1>2, <2>1 DEF Pass4
  <2>2. \A id \in DOMAIN md :
          /\ id # null /\ id[1] \notin {"param", "retained"}
          /\ Kind(id) = "tuple" => ArgumentsOnce(md, md[id].items) /\ NoneTwice(md[id].items)
          /\ Kind(id) = "composite" =>
                md[id].elements \in DOMAIN md \union {null} /\ Nondecreasing(elements(id))
          /\ Kind(id) = "subprogram" =>
                /\ md[id].types \in DOMAIN md \union {null}
                /\ \A s \in DOMAIN md :
                      Kind(s) = "subprogram" /\ Kind(md[id].types) = "tuple" =>
                          md[s].retained # md[id].types
    BY <1>1 DEF Pass4
  <2>3. (\A id \in DOMAIN md :
          /\ id # null /\ id[1] \notin {"param", "retained"}
          /\ Kind(id) = "tuple" => ArgumentsOnce(md, md[id].items) /\ NoneTwice(md[id].items)
          /\ Kind(id) = "composite" =>
                md[id].elements \in DOMAIN md \union {null} /\ Nondecreasing(elements(id))
          /\ Kind(id) = "subprogram" =>
                /\ md[id].types \in DOMAIN md \union {null}
                /\ \A s \in DOMAIN md :
                      Kind(s) = "subprogram" /\ Kind(md[id].types) = "tuple" =>
                          md[s].retained # md[id].types)'
    BY <1>4, <2>2
  <2>4. visited' \subseteq {id \in DOMAIN md : Kind(id) = "subprogram"}
    BY <1>1 DEF Pass4
  <2> QED  BY <1>3, <1>4, <2>1, <2>3, <2>4 DEF Pass4
<1> QED  BY <1>1, <1>4, <1>5 DEF GraphInv, BeforePass4, Written

LEMMA NameStep ==
    ASSUME GraphInv, NEW sp \in DOMAIN md, NameParameters(sp)
    PROVE  GraphInv'
<1>1. /\ stage = "parameters" /\ stage' = stage /\ Kind(sp) = "subprogram"
      /\ sp \notin visited /\ visited' = visited \union {sp}
      /\ Lacking(sp) = {} => UNCHANGED <<md, extra>>
  BY DEF NameParameters
<1>2. CASE Lacking(sp) = {}
  BY <1>1, <1>2, NothingLacking
<1>3. CASE Lacking(sp) # {}
  <2>1. Pass4 /\ Closed(Nodes)
    BY <1>1 DEF GraphInv
  <2>2. \A id \in DOMAIN md : IsNode(md[id])
    BY <2>1 DEF Closed, Nodes, ++
  <2>3. \A v \in DOMAIN extra : Made(v)
    BY <2>1 DEF Pass4
  <2>4. PICK list : Lengthened(sp, list)
    BY <1>3, <2>2, <2>3, NamedParameters
  <2>5. Longer(sp, list)
    BY <1>1, <2>4 DEF Longer
  <2> QED  BY <2>5, LongerStep
<1> QED  BY <1>2, <1>3

\* What writing the file makes of the nodes.
LEMMA WrittenNodes ==
    ASSUME GraphInv, WriteFixed
    PROVE  /\ md' = Nodes /\ Nodes' = Nodes /\ extra' = <<>>
           /\ Pass4 /\ Closed(Nodes) /\ null \notin DOMAIN Nodes
           /\ \A id \in DOMAIN md : id \in DOMAIN Nodes /\ Nodes[id] = md[id]
           /\ \A id \in DOMAIN Nodes \ DOMAIN md :
                 Nodes[id].kind = "tuple" \/ Nodes[id] = Variable("param", id[3], id[2])
           /\ \A id \in DOMAIN md \union {null} : Items(id)' = Items(id)
<1>1. /\ md' = Nodes /\ extra' = <<>> /\ Pass4 /\ Closed(Nodes)
  BY DEF WriteFixed, GraphInv, Nodes
<1>2. Nodes' = Nodes
  <2>1. DOMAIN extra' = {}
    BY <1>1
  <2>2. Nodes' = [id \in DOMAIN md' |-> md'[id]]
    BY <2>1 DEF Nodes, ++
  <2>3. Nodes = [id \in DOMAIN Nodes |-> Nodes[id]]
    BY DEF Nodes, ++
  <2> QED  BY <1>1, <2>2, <2>3
<1>3. \A id \in DOMAIN md : id \in DOMAIN Nodes /\ Nodes[id] = md[id]
  BY DEF Nodes, ++
<1>4. \A id \in DOMAIN Nodes \ DOMAIN md : id \in DOMAIN extra /\ Nodes[id] = extra[id]
  BY DEF Nodes, ++
<1>5. null \notin DOMAIN Nodes
  <2>1. null \notin DOMAIN md /\ null \notin DOMAIN extra
    BY <1>1 DEF Pass4, Made
  <2> QED  BY <1>4, <2>1
<1>6. \A id \in DOMAIN Nodes \ DOMAIN md :
          Nodes[id].kind = "tuple" \/ Nodes[id] = Variable("param", id[3], id[2])
  BY <1>1, <1>4 DEF Pass4, Made
<1>7. \A id \in DOMAIN md \union {null} : Items(id)' = Items(id)
  <2>1. \A id \in DOMAIN md \union {null} : ItemsIn(Nodes, id) = ItemsIn(md, id)
    BY <1>3, <1>5 DEF ItemsIn, KindIn
  <2> QED  BY <1>1, <2>1 DEF Items
<1> QED  BY <1>1, <1>2, <1>3, <1>5, <1>6, <1>7

LEMMA WrittenSorted ==
    ASSUME GraphInv, WriteFixed, NEW c \in DOMAIN md', Kind(c)' = "composite"
    PROVE  Nondecreasing(elements(c))'
<1>1. /\ md' = Nodes /\ Pass4 /\ null \notin DOMAIN Nodes
      /\ \A id \in DOMAIN md : id \in DOMAIN Nodes /\ Nodes[id] = md[id]
      /\ \A id \in DOMAIN Nodes \ DOMAIN md :
            Nodes[id].kind = "tuple" \/ Nodes[id] = Variable("param", id[3], id[2])
      /\ \A id \in DOMAIN md \union {null} : Items(id)' = Items(id)
  BY WrittenNodes
<1>2. \A id \in DOMAIN Nodes \ DOMAIN md : Nodes[id].kind \in {"tuple", "variable"}
  BY <1>1 DEF Variable
<1>3. c \in DOMAIN md /\ Kind(c) = "composite" /\ md'[c] = md[c]
  BY <1>1, <1>2 DEF Kind, KindIn
<1>4. PICK t, items : t = md[c].elements /\ items = Items(t)
  OBVIOUS
<1>5. t \in DOMAIN md \union {null} /\ Nondecreasing(items)
  BY <1>1, <1>3, <1>4 DEF Pass4, elements
<1>6. elements(c)' = items
  BY <1>1, <1>3, <1>4, <1>5 DEF elements
<1>7. \A id : /\ IsMember(id)' <=> IsMember(id)
              /\ IsMember(id) => md'[id] = md[id]
  BY <1>1, <1>2 DEF IsMember, Kind, KindIn
<1>8. MemberSlots(items)' = MemberSlots(items)
  BY <1>7 DEF MemberSlots
<1>9. \A k \in MemberSlots(items) : md'[items[k]] = md[items[k]]
  BY <1>7 DEF MemberSlots
<1> QED  BY <1>5, <1>6, <1>8, <1>9 DEF Nondecreasing

LEMMA WrittenNamed ==
    ASSUME GraphInv, WriteFixed, NEW sp \in DOMAIN md', Kind(sp)' = "subprogram",
           md'[sp].definition, NEW k \in DOMAIN parameter_types(sp)',
           parameter_types(sp)'[k] # null
    PROVE  ArgName(sp, k)' # Unnamed
<1>1. /\ md' = Nodes /\ Pass4 /\ Closed(Nodes)
      /\ \A id \in DOMAIN md : id \in DOMAIN Nodes /\ Nodes[id] = md[id]
      /\ \A id \in DOMAIN Nodes \ DOMAIN md :
            Nodes[id].kind = "tuple" \/ Nodes[id] = Variable("param", id[3], id[2])
      /\ \A id \in DOMAIN md \union {null} : Items(id)' = Items(id)
  BY WrittenNodes
<1>2. \A id \in DOMAIN Nodes \ DOMAIN md : Nodes[id].kind \in {"tuple", "variable"}
  BY <1>1 DEF Variable
<1>3. sp \in DOMAIN md /\ Kind(sp) = "subprogram" /\ md'[sp] = md[sp]
  BY <1>1, <1>2 DEF Kind, KindIn
<1>4. sp \in visited
  BY <1>3 DEF WriteFixed
<1>5. parameter_types(sp)' = parameter_types(sp)
  BY <1>1, <1>3 DEF Pass4, parameter_types
<1>6. PICK list : list = VariablesOf(Nodes, sp)
  OBVIOUS
<1>7. Shown(Nodes, list, k)
  BY <1>1, <1>4, <1>5, <1>6 DEF Pass4
<1>8. Items(md[sp].retained)' = list
  BY <1>1, <1>6 DEF VariablesOf, Items
<1>9. PICK n \in Nat : DOMAIN list = 1..n
  <2>1. list # <<>>
    BY <1>7 DEF Shown
  <2>2. PICK t \in DOMAIN Nodes : Nodes[t].kind = "tuple" /\ list = Nodes[t].items
    BY <1>6, <2>1 DEF VariablesOf, ItemsIn, KindIn
  <2> QED  BY <1>1, <2>2, TupleItems DEF Closed
<1> DEFINE slots == {i \in DOMAIN list : KindIn(Nodes, list[i]) = "variable" /\ Nodes[list[i]].arg = k}
<1>10. PICK i \in slots : \A j \in slots : j >= i => Nodes[list[j]].name # Unnamed
  BY <1>7 DEF Shown, IsArg
<1>11. slots \in SUBSET (1..n)
  BY <1>9
<1>12. ArgName(sp, k)' = IF slots = {} THEN Unnamed ELSE Nodes[list[Max(slots)]].name
  BY <1>1, <1>8 DEF ArgName, Kind
<1> HIDE DEF slots
<1>13. Max(slots) \in slots /\ \A x \in slots : x <= Max(slots)
  BY <1>9, <1>10, <1>11, MaxOfSome
<1>14. Max(slots) >= i
  BY <1>10, <1>11, <1>13
<1> QED  BY <1>10, <1>12, <1>13, <1>14

LEMMA WriteStep == ASSUME GraphInv, WriteFixed PROVE GraphInv'
<1>1. /\ md' = Nodes /\ Nodes' = Nodes /\ extra' = <<>> /\ Pass4 /\ Closed(Nodes)
      /\ \A id \in DOMAIN md : id \in DOMAIN Nodes
  BY WrittenNodes
<1>2. NamesAllowed(Nodes) /\ EncodingsAllowed(Nodes) /\ stage' = "llc" /\ visited' = visited
  BY DEF GraphInv, WriteFixed
<1>3. visited' \subseteq DOMAIN md'
  BY <1>1, <1>2 DEF Pass4
<1>4. BtfAccepted'
  <2> SUFFICES ASSUME NEW id \in DOMAIN md'
               PROVE  (/\ HasName(md[id]) => md[id].name \notin DOMAIN Sanitized
                       /\ Kind(id) = "basic" => md[id].encoding \in BTF_ENCODINGS
                       /\ Kind(id) = "composite" => Nondecreasing(elements(id))
                       /\ Kind(id) = "subprogram" /\ md[id].definition =>
                             \A k \in DOMAIN parameter_types(id) :
                                 parameter_types(id)[k] # null => ArgName(id, k) # Unnamed)'
    BY DEF BtfAccepted
  <2>1. HasName(md'[id]) => md'[id].name \notin DOMAIN Sanitized
    BY <1>1, <1>2 DEF NamesAllowed
  <2>2. Kind(id)' = "basic" => md'[id].encoding \in BTF_ENCODINGS
    BY <1>1, <1>2 DEF EncodingsAllowed, Kind, KindIn
  <2>3. Kind(id)' = "composite" => Nondecreasing(elements(id))'
    BY WrittenSorted
  <2>4. Kind(id)' = "subprogram" /\ md'[id].definition =>
            \A k \in DOMAIN parameter_types(id)' :
                parameter_types(id)'[k] # null => ArgName(id, k)' # Unnamed
    BY WrittenNamed
  <2> QED  BY <2>1, <2>2, <2>3, <2>4
<1> QED  BY <1>1, <1>2, <1>3, <1>4 DEF GraphInv, BeforePass4, Written

------------------------------------------------------------------------------
(* Every step. *)

\* A step that leaves the graph alone, before pass 4 or after it.
LEMMA GraphKept ==
    ASSUME GraphInv, UNCHANGED <<md, visited, extra>>,
           \/ UNCHANGED stage
           \/ stage \in {"reloc", "opt"} /\ stage' \in {"opt", "fixup", "failed"}
           \/ stage \in Written /\ stage' \in Written
    PROVE  GraphInv'
<1>1. /\ Nodes' = Nodes /\ (Pass4' <=> Pass4) /\ (BtfAccepted' <=> BtfAccepted)
  <2>1. Nodes' = Nodes
    BY DEF Nodes
  <2>2. /\ \A id : Kind(id)' = Kind(id)
        /\ \A id : Items(id)' = Items(id)
        /\ \A id : parameter_types(id)' = parameter_types(id) /\ elements(id)' = elements(id)
        /\ \A items : MemberSlots(items)' = MemberSlots(items)
    BY DEF Kind, Items, parameter_types, elements, MemberSlots, IsMember
  <2>3. /\ \A items : Nondecreasing(items)' <=> Nondecreasing(items)
        /\ \A sp, k : ArgName(sp, k)' = ArgName(sp, k)
        /\ \A items : Have(items)' = Have(items)
        /\ \A v : Made(v)' <=> Made(v)
    BY <2>2 DEF Nondecreasing, ArgName, Have, Made
  <2>4. \A items : NoneTwice(items)' <=> NoneTwice(items)
    BY <2>3 DEF NoneTwice
  <2>5. BtfAccepted' <=> BtfAccepted
    BY <2>2, <2>3 DEF BtfAccepted
  <2>6. Pass4' <=> Pass4
    BY <2>1, <2>2, <2>3, <2>4 DEF Pass4
  <2> QED  BY <2>1, <2>5, <2>6
<1> QED  BY <1>1 DEF GraphInv, BeforePass4, Written

LEMMA GraphStep == GraphInv /\ [Next]_vars => GraphInv'
<1> SUFFICES ASSUME GraphInv, [Next]_vars PROVE GraphInv'
  OBVIOUS
<1>1. CASE PassOver /\ UNCHANGED <<visited, extra, kernel>>
  BY <1>1, GraphKept DEF PassOver
<1>2. CASE lower_polyfill /\ UNCHANGED <<visited, extra, kernel>>
  BY <1>2, LowerStep
<1>3. CASE GiveUp /\ UNCHANGED <<visited, extra, kernel>>
  BY <1>3, GraphKept DEF GiveUp, Looking
<1>4. CASE WriteModule /\ UNCHANGED <<visited, extra, kernel>>
  BY <1>4, GraphKept DEF WriteModule
<1>5. CASE opt
  BY <1>5, GraphKept DEF opt
<1>6. CASE SanitizeNames
  BY <1>6, NamesStep
<1>7. CASE RecodeBasicTypes
  BY <1>7, EncodingsStep
<1>8. CASE SortMembers
  BY <1>8, SortStep
<1>9. CASE \E sp \in DOMAIN md : NameParameters(sp)
  BY <1>9, NameStep
<1>10. CASE WriteFixed
  BY <1>10, WriteStep
<1>11. CASE Load
  BY <1>11, GraphKept DEF Load, Written
<1>12. CASE UNCHANGED vars
  BY <1>12, GraphKept DEF vars
<1> QED  BY <1>1, <1>2, <1>3, <1>4, <1>5, <1>6, <1>7, <1>8, <1>9, <1>10, <1>11, <1>12
         DEF Next, RelocNext, FixupNext

------------------------------------------------------------------------------
(* The code of a program. *)

\* One sequence behind another.
Joined(st, s, t, U) ==
    /\ st \in Seq(U) /\ Len(st) = Len(s) + Len(t) /\ Len(s) \in Nat /\ Len(t) \in Nat
    /\ \A i \in 1..Len(s) : st[i] = s[i]
    /\ \A i \in 1..Len(t) : st[Len(s) + i] = t[i]

LEMMA Joining ==
    ASSUME NEW U, NEW s \in Seq(U), NEW t \in Seq(U)
    PROVE  Joined(s \o t, s, t, U)
<1>1. s \o t \in Seq(U)
  OBVIOUS
<1>2. Len(s \o t) = Len(s) + Len(t) /\ Len(s) \in Nat /\ Len(t) \in Nat
  OBVIOUS
<1>3. \A i \in 1..Len(s) : (s \o t)[i] = s[i]
  OBVIOUS
<1>4. \A i \in 1..Len(t) : (s \o t)[Len(s) + i] = t[i]
  OBVIOUS
<1> QED  BY <1>1, <1>2, <1>3, <1>4 DEF Joined

\* What a program calls.
LEMMA CallsMade ==
    ASSUME NEW p \in Programs
    PROVE  LET all == Calls(p.probes, p.accesses) \o p.calls IN
           /\ all \in Seq(Range(all))
           /\ \A i \in DOMAIN all :
                 /\ all[i].op = "call"
                 /\ all[i].source.op \in {"exists", "get", "required", "probe"}
                 /\ all[i].source.op = "required" =>
                       \A j \in DOMAIN all : all[j].source.op = "probe" => j \in all[i].after
                 /\ \/ \E x \in Range(p.probes) \union Range(p.accesses) : all[i] = Call(x, all[i].after)
                    \/ all[i] \in Range(p.calls)
<1> DEFINE a == [i \in DOMAIN p.probes |-> Call(p.probes[i], 1..(i - 1))]
           b == [i \in DOMAIN p.accesses |->
                    Call(p.accesses[i],
                         IF p.accesses[i].op = "required" THEN AllProbes(p.probes) ELSE {})]
           c == p.calls
           all == (a \o b) \o c
<1>1. PICK m \in Nat : DOMAIN p.probes = 1..m
  BY ProgramsAssumption
<1>2. PICK n \in Nat : DOMAIN p.accesses = 1..n
  BY ProgramsAssumption
<1>3. /\ DOMAIN a = 1..m
      /\ \A i \in 1..m : a[i].op = "call" /\ a[i].source.op = "probe"
  <2>1. \A i \in 1..m : p.probes[i].op = "probe"
    <3>1. \A i \in 1..m : p.probes[i] \in Range(p.probes)
      BY <1>1 DEF Range
    <3> QED  BY <3>1, ProgramsAssumption
  <2> QED  BY <1>1, <2>1 DEF Call
<1>4. /\ DOMAIN b = 1..n
      /\ \A i \in 1..n : /\ b[i].op = "call"
                         /\ b[i].source.op \in {"exists", "get", "required"}
                         /\ b[i].source.op = "required" => b[i].after = 1..m
  <2>1. \A i \in 1..n : p.accesses[i].op \in {"exists", "get", "required"}
    <3>1. \A i \in 1..n : p.accesses[i] \in Range(p.accesses)
      BY <1>2 DEF Range
    <3> QED  BY <3>1, ProgramsAssumption
  <2> QED  BY <1>1, <1>2, <2>1 DEF Call, AllProbes
<1>15. /\ \A i \in 1..m : \E x \in Range(p.probes) : a[i] = Call(x, a[i].after)
       /\ \A i \in 1..n : \E x \in Range(p.accesses) : b[i] = Call(x, b[i].after)
       /\ \A i \in DOMAIN c : c[i] \in Range(p.calls)
  <2>1. ASSUME NEW x, NEW after PROVE Call(x, after).after = after
    BY DEF Call
  <2>2. ASSUME NEW i \in 1..m PROVE \E x \in Range(p.probes) : a[i] = Call(x, a[i].after)
    <3>1. a[i] = Call(p.probes[i], 1..(i - 1))
      BY <1>1
    <3>2. p.probes[i] \in Range(p.probes)
      BY <1>1 DEF Range
    <3> HIDE DEF a
    <3>3. a[i].after = 1..(i - 1)
      BY <2>1, <3>1
    <3> QED  BY <3>1, <3>2, <3>3
  <2>3. ASSUME NEW i \in 1..n PROVE \E x \in Range(p.accesses) : b[i] = Call(x, b[i].after)
    <3>1. PICK after : b[i] = Call(p.accesses[i], after)
      BY <1>2
    <3>2. p.accesses[i] \in Range(p.accesses)
      BY <1>2 DEF Range
    <3> HIDE DEF b
    <3>3. b[i].after = after
      BY <2>1, <3>1
    <3> QED  BY <3>1, <3>2, <3>3
  <2>4. \A i \in DOMAIN c : c[i] \in Range(p.calls)
    BY DEF Range
  <2> QED  BY <2>2, <2>3, <2>4
<1>5. PICK S : c \in Seq(S)
  BY ProgramsAssumption
<1>6. \A i \in DOMAIN c : c[i].op = "call" /\ c[i].source.op \in {"exists", "get"}
  BY ProgramsAssumption DEF Range
<1>7. Calls(p.probes, p.accesses) \o p.calls = all
  BY DEF Calls
<1> DEFINE A == {a[i] : i \in 1..m}
           B == {b[i] : i \in 1..n}
           U == A \union B \union S
<1>8. a \in Seq(A) /\ Len(a) = m
  <2>1. a \in [1..m -> A]
    BY <1>1
  <2> HIDE DEF a, A
  <2> QED  BY <2>1
<1>9. b \in Seq(B) /\ Len(b) = n
  <2>1. b \in [1..n -> B]
    BY <1>2
  <2> HIDE DEF b, B
  <2> QED  BY <2>1
<1> HIDE DEF a, b, c, A, B
<1>10. a \in Seq(U) /\ b \in Seq(U) /\ c \in Seq(U)
  BY <1>5, <1>8, <1>9
<1> HIDE DEF U
<1>11. /\ all \in Seq(U) /\ DOMAIN all = 1..Len(all) /\ Len(c) \in Nat /\ Len(all) \in Nat
       /\ Len(all) = m + n + Len(c) /\ DOMAIN c = 1..Len(c)
       /\ \A i \in 1..m : all[i] = a[i]
       /\ \A i \in 1..n : all[m + i] = b[i]
       /\ \A i \in 1..Len(c) : all[m + n + i] = c[i]
  <2> DEFINE ab == a \o b
  <2>1. /\ ab \in Seq(U) /\ Len(ab) = m + n
        /\ \A i \in 1..m : ab[i] = a[i]
        /\ \A i \in 1..n : ab[m + i] = b[i]
    BY <1>8, <1>9, <1>10
  <2> HIDE DEF ab
  <2>6. Joined(ab \o c, ab, c, U)
    <3>1. ab \in Seq(U) /\ c \in Seq(U)
      BY <1>10, <2>1
    <3> QED  BY <3>1, Joining
  <2>2. /\ ab \o c \in Seq(U) /\ Len(ab \o c) = m + n + Len(c) /\ Len(c) \in Nat
        /\ \A i \in 1..(m + n) : (ab \o c)[i] = ab[i]
        /\ \A i \in 1..Len(c) : (ab \o c)[m + n + i] = c[i]
    BY <2>1, <2>6 DEF Joined
  <2>3. \A i \in 1..n : m + i \in 1..(m + n)
    OBVIOUS
  <2>4. \A i \in 1..m : i \in 1..(m + n)
    OBVIOUS
  <2>5. DOMAIN (ab \o c) = 1..Len(ab \o c) /\ DOMAIN c = 1..Len(c) /\ Len(ab \o c) \in Nat
    BY <1>10, <2>2
  <2> QED  BY <2>1, <2>2, <2>3, <2>4, <2>5 DEF ab
<1> HIDE DEF all
<1>12. ASSUME NEW i \in DOMAIN all
       PROVE  \/ i \in 1..m /\ all[i] = a[i]
              \/ i - m \in 1..n /\ all[i] = b[i - m]
              \/ i - (m + n) \in DOMAIN c /\ all[i] = c[i - (m + n)]
  <2>1. CASE i <= m
    <3>1. i \in 1..m
      BY <1>11, <2>1
    <3> QED  BY <1>11, <3>1
  <2>2. CASE i > m /\ i <= m + n
    <3>1. i - m \in 1..n /\ m + (i - m) = i
      BY <1>11, <2>2
    <3> QED  BY <1>11, <3>1
  <2>3. CASE i > m + n
    <3>1. i - (m + n) \in 1..Len(c) /\ m + n + (i - (m + n)) = i
      BY <1>11, <2>3
    <3> QED  BY <1>11, <3>1
  <2> QED  BY <1>11, <2>1, <2>2, <2>3
<1>13. ASSUME NEW i \in DOMAIN all
       PROVE  /\ all[i].op = "call"
              /\ all[i].source.op \in {"exists", "get", "required", "probe"}
              /\ all[i].source.op = "required" => all[i].after = 1..m
              /\ all[i].source.op = "probe" => i \in 1..m
  BY <1>3, <1>4, <1>6, <1>12
<1>16. ASSUME NEW i \in DOMAIN all
       PROVE  \/ \E x \in Range(p.probes) \union Range(p.accesses) : all[i] = Call(x, all[i].after)
              \/ all[i] \in Range(p.calls)
  BY <1>12, <1>15
<1>14. all \in Seq(Range(all))
  <2> DEFINE R == Range(all)
  <2>1. all = [i \in 1..Len(all) |-> all[i]]
    BY <1>11
  <2>2. all \in [1..Len(all) -> R]
    BY <1>11, <2>1 DEF Range
  <2> HIDE DEF R
  <2>3. all \in Seq(R)
    BY <1>11, <2>2
  <2> QED  BY <2>3 DEF R
<1> QED  BY <1>7, <1>13, <1>14, <1>16

LEMMA CodeInit == Init => CodeInv
<1> SUFFICES ASSUME Init PROVE CodeInv
  OBVIOUS
<1>1. PICK p \in Programs : code = Calls(p.probes, p.accesses) \o p.calls
  BY DEF Init
<1>2. /\ code \in Seq(Range(code))
      /\ \A i \in DOMAIN code :
            /\ code[i].op = "call"
            /\ code[i].source.op \in {"exists", "get", "required", "probe"}
            /\ code[i].source.op = "required" =>
                  \A j \in DOMAIN code : code[j].source.op = "probe" => j \in code[i].after
  BY <1>1, CallsMade
<1>3. kernel = NoKernel /\ stage = "reloc"
  BY DEF Init
<1> QED  BY <1>2, <1>3 DEF CodeInv

LEMMA CodeStep == CodeInv /\ [Next]_vars => CodeInv'
<1> SUFFICES ASSUME CodeInv, [Next]_vars PROVE CodeInv'
  OBVIOUS
<1>1. ASSUME /\ DOMAIN code' = DOMAIN code /\ code' = [i \in DOMAIN code' |-> code'[i]]
             /\ \A i \in DOMAIN code :
                   /\ code'[i].op \in {"call", "info", "reloc"}
                   /\ code'[i].source = code[i].source /\ code'[i].after = code[i].after
      PROVE  /\ code' \in Seq(Range(code'))
             /\ \A i \in DOMAIN code' :
                   /\ code'[i].op \in {"call", "info", "reloc"}
                   /\ code'[i].source.op \in {"exists", "get", "required", "probe"}
                   /\ code'[i].source.op = "required" =>
                         \A j \in DOMAIN code' : code'[j].source.op = "probe" => j \in code'[i].after
  <2>1. PICK n \in Nat : DOMAIN code = 1..n
    BY DEF CodeInv
  <2>2. code' \in Seq(Range(code'))
    <3> DEFINE R == Range(code')
    <3>1. code' \in [1..n -> R]
      BY <1>1, <2>1 DEF Range
    <3> HIDE DEF R
    <3>2. code' \in Seq(R)
      BY <3>1
    <3> QED  BY <3>2 DEF R
  <2> QED  BY <1>1, <2>2 DEF CodeInv
<1>2. CASE PassOver /\ UNCHANGED <<visited, extra, kernel>>
  BY <1>2 DEF PassOver, CodeInv, Looking
<1>3. CASE lower_polyfill /\ UNCHANGED <<visited, extra, kernel>>
  <2>1. PICK steps : code' = [code EXCEPT ![at] = FieldInfo(code[at], steps)]
    BY <1>3 DEF lower_polyfill
  <2>2. /\ FieldInfo(code[at], steps).op = "info"
        /\ FieldInfo(code[at], steps).source = code[at].source
        /\ FieldInfo(code[at], steps).after = code[at].after
    BY DEF FieldInfo
  <2>3. \A i \in DOMAIN code : code[i].op \in {"call", "info", "reloc"}
    BY DEF CodeInv
  <2>4. /\ DOMAIN code' = DOMAIN code /\ code' = [i \in DOMAIN code' |-> code'[i]]
        /\ \A i \in DOMAIN code :
              /\ code'[i].op \in {"call", "info", "reloc"}
              /\ code'[i].source = code[i].source /\ code'[i].after = code[i].after
    BY <2>1, <2>2, <2>3
  <2> QED  BY <1>1, <1>3, <2>4 DEF CodeInv, lower_polyfill, Looking
<1>4. CASE GiveUp /\ UNCHANGED <<visited, extra, kernel>>
  BY <1>4 DEF GiveUp, CodeInv
<1>5. CASE WriteModule /\ UNCHANGED <<visited, extra, kernel>>
  BY <1>5 DEF WriteModule, CodeInv
<1>6. CASE opt
  <2>1. \A i \in DOMAIN code : code[i].op \in {"call", "info", "reloc"}
    BY DEF CodeInv
  <2>2. /\ DOMAIN code' = DOMAIN code /\ code' = [i \in DOMAIN code' |-> code'[i]]
        /\ \A i \in DOMAIN code :
              /\ code'[i].op \in {"call", "info", "reloc"}
              /\ code'[i].source = code[i].source /\ code'[i].after = code[i].after
    BY <1>6, <2>1 DEF opt
  <2> QED  BY <1>1, <1>6, <2>2 DEF CodeInv, opt
<1>7. CASE FixupNext /\ UNCHANGED <<at, kernel>>
  <2>1. UNCHANGED <<code, kernel>> /\ stage' \notin {"loaded", "rejected"}
    BY <1>7 DEF FixupNext, SanitizeNames, RecodeBasicTypes, SortMembers, NameParameters, WriteFixed
  <2> QED  BY <2>1 DEF CodeInv
<1>8. CASE Load
  BY <1>8 DEF Load, CodeInv
<1>9. CASE UNCHANGED vars
  BY <1>9 DEF vars, CodeInv
<1> QED  BY <1>2, <1>3, <1>4, <1>5, <1>6, <1>7, <1>8, <1>9 DEF Next, RelocNext

\* The calls are numbered from one, the pass is at one of them or behind the last,
\* and none is left in front of it.
Progress ==
    \E n \in Nat :
        /\ DOMAIN code = 1..n
        /\ at \in 1..(n + 1)
        /\ stage = "reloc" => \A i \in 1..n : i < at => ~IsPolyfill(code[i])

LoweredInv == Progress /\ NothingHalfLowered

LEMMA LoweredInit == Init => LoweredInv
<1> SUFFICES ASSUME Init PROVE LoweredInv
  OBVIOUS
<1>1. PICK p \in Programs : code = Calls(p.probes, p.accesses) \o p.calls
  BY DEF Init
<1>2. PICK n \in Nat : DOMAIN code = 1..n
  <2>1. code \in Seq(Range(code))
    BY <1>1, CallsMade
  <2> QED  BY <2>1
<1>3. stage = "reloc" /\ at = 1
  BY DEF Init
<1> QED  BY <1>2, <1>3 DEF LoweredInv, Progress, NothingHalfLowered

LEMMA LoweredStep == LoweredInv /\ [Next]_vars => LoweredInv'
<1> SUFFICES ASSUME LoweredInv, [Next]_vars PROVE LoweredInv'
  OBVIOUS
<1> USE DEF LoweredInv
<1>0. PICK n \in Nat :
        /\ DOMAIN code = 1..n
        /\ at \in 1..(n + 1)
        /\ stage = "reloc" => \A i \in 1..n : i < at => ~IsPolyfill(code[i])
  BY DEF Progress
<1>1. CASE PassOver
  BY <1>0, <1>1 DEF PassOver, Looking, Following, Progress, NothingHalfLowered
<1>2. CASE lower_polyfill
  <2>1. ~IsPolyfill(code'[at]) /\ \A i \in 1..n : i # at => code'[i] = code[i]
    BY <1>0, <1>2 DEF lower_polyfill, Looking, FieldInfo, IsPolyfill
  <2>2. DOMAIN code' = 1..n /\ at' = at + 1 /\ stage' = "reloc" /\ at \in 1..n
    BY <1>0, <1>2 DEF lower_polyfill, Looking, Following
  <2> QED  BY <1>0, <1>2, <2>1, <2>2 DEF lower_polyfill, Looking, Progress, NothingHalfLowered
<1>3. CASE GiveUp
  BY <1>0, <1>3 DEF GiveUp, Progress, NothingHalfLowered
<1>4. CASE WriteModule
  <2>1. \A i \in 1..n : ~IsPolyfill(code[i])
    BY <1>0, <1>4 DEF WriteModule
  <2> QED  BY <1>0, <1>4, <2>1 DEF WriteModule, Progress, NothingHalfLowered
<1>5. CASE opt
  <2>1. DOMAIN code' = 1..n
    BY <1>0, <1>5 DEF opt
  <2>2. \A i \in 1..n : ~IsPolyfill(code[i])
    BY <1>0, <1>5 DEF opt, NothingHalfLowered
  <2>3. \A i \in 1..n : ~IsPolyfill(code'[i])
    BY <1>0, <1>5, <2>2 DEF opt, IsPolyfill
  <2> QED  BY <1>0, <1>5, <2>1, <2>3 DEF opt, Progress, NothingHalfLowered
<1>6. CASE FixupNext /\ UNCHANGED <<at, kernel>>
  <2>1. stage \notin {"reloc", "failed"} /\ stage' # "reloc" /\ UNCHANGED <<code, at>>
    BY <1>6 DEF FixupNext, SanitizeNames, RecodeBasicTypes, SortMembers, NameParameters, WriteFixed
  <2> QED  BY <1>0, <2>1 DEF Progress, NothingHalfLowered
<1>7. CASE Load
  BY <1>0, <1>7 DEF Load, Progress, NothingHalfLowered
<1>8. CASE UNCHANGED vars
  BY <1>0, <1>8 DEF vars, Progress, NothingHalfLowered
<1> QED  BY <1>1, <1>2, <1>3, <1>4, <1>5, <1>6, <1>7, <1>8 DEF Next, RelocNext

\* All or nothing: a module that leaves bpf-postproc holds no call of a polyfill
\* (field_reloc.rs 82-107, main.rs 88-93).
THEOREM AllLowered == Spec => []NothingHalfLowered
<1>1. LoweredInv => NothingHalfLowered
  BY DEF LoweredInv
<1> QED  BY LoweredInit, LoweredStep, <1>1, PTL DEF Spec

------------------------------------------------------------------------------
(* What a step does to lists and to the names of arguments. *)

\* A node that is left alone keeps its list.
LEMMA ListAlone ==
    ASSUME NEW id \in DOMAIN md, IsNode(md[id]), Kind(id) = "tuple", md'[id] = md[id]
    PROVE  ListKept(id)
<1>1. md[id].kind = "tuple"
  BY DEF Kind, KindIn
<1>2. PICK n \in Nat : DOMAIN md[id].items = 1..n /\ Len(md[id].items) = n
  BY <1>1, TupleItems
<1> QED  BY <1>2 DEF ListKept

LEMMA ListsStep ==
    ASSUME GraphInv, [Next]_vars, NEW id \in DOMAIN md, Kind(id) = "tuple"
    PROVE  ListKept(id)
<1>1. /\ \A i \in DOMAIN md : IsNode(md[i])
      /\ md[id].kind = "tuple" /\ IsNode(md[id])
  <2>1. \A i \in DOMAIN md : i \in DOMAIN Nodes /\ Nodes[i] = md[i]
    BY DEF Nodes, ++
  <2>2. \A i \in DOMAIN Nodes : IsNode(Nodes[i])
    BY DEF GraphInv, Closed
  <2>3. \A i \in DOMAIN md : IsNode(md[i])
    BY <2>1, <2>2
  <2> QED  BY <2>3 DEF Kind, KindIn
<1>2. ASSUME md'[id] = md[id] PROVE ListKept(id)
  BY <1>1, <1>2, ListAlone
<1>3. CASE RelocNext
  <2>1. CASE lower_polyfill
    <3>1. PICK steps : md' = Restored(steps)
      BY <2>1 DEF lower_polyfill
    <3>2. md'[id] = md[id]
      BY <3>1 DEF Restored
    <3> QED  BY <1>2, <3>2
  <2> QED  BY <1>2, <1>3, <2>1 DEF RelocNext, PassOver, GiveUp, WriteModule
<1>4. CASE opt \/ Load \/ UNCHANGED vars
  BY <1>2, <1>4 DEF opt, Load, vars
<1>5. CASE SanitizeNames
  BY <1>1, <1>2, <1>5 DEF SanitizeNames, HasName
<1>6. CASE RecodeBasicTypes
  <2>1. md'[id] = IF Kind(id) = "basic" THEN [md[id] EXCEPT !.encoding = Recoded(@)] ELSE md[id]
    BY <1>6 DEF RecodeBasicTypes
  <2> QED  BY <1>2, <2>1
<1>7. CASE SortMembers
  <2>1. LET old == md[id].items
            new == md'[id].items IN
        /\ Len(new) = Len(old) /\ Range(new) = Range(old)
        /\ \A k \in DOMAIN old : ~IsMember(old[k]) => new[k] = old[k]
    BY <1>1, <1>7, SortedLists
  <2>2. Len(md[id].items) \in Nat
    BY <1>1, TupleItems
  <2> QED  BY <2>1, <2>2 DEF ListKept
<1>8. ASSUME NEW sp \in DOMAIN md, NameParameters(sp) PROVE ListKept(id)
  <2>1. CASE Lacking(sp) = {}
    BY <1>2, <1>8, <2>1 DEF NameParameters
  <2>2. CASE Lacking(sp) # {}
    <3>1. GraphInv /\ stage = "parameters" /\ stage' = stage /\ Kind(sp) = "subprogram"
          /\ sp \notin visited /\ visited' = visited \union {sp}
      BY <1>8 DEF NameParameters
    <3>2. \A v \in DOMAIN extra : Made(v)
      BY <3>1 DEF GraphInv, Pass4
    <3>3. PICK list : Lengthened(sp, list)
      BY <1>1, <1>8, <2>2, <3>2, NamedParameters
    <3>4. Longer(sp, list)
      BY <3>1, <3>3 DEF Longer
    <3>5. md'[id] = IF id = md[sp].retained THEN TupleNode(list) ELSE md[id]
      BY <1>1, <3>4, LongerNodes DEF KeepsNodes
    <3>6. CASE id = md[sp].retained
      <4>1. md'[id].items = list
        BY <3>5, <3>6 DEF TupleNode
      <4>2. Items(md[sp].retained) = md[id].items
        BY <1>1, <3>6 DEF Items, ItemsIn, KindIn
      <4>3. LET old == md[id].items IN
            /\ Len(old) \in Nat /\ Len(list) \in Nat /\ Len(old) <= Len(list)
            /\ Range(old) \subseteq Range(list)
            /\ \A k \in DOMAIN old : list[k] = old[k]
        BY <3>4, <4>2, LongerList
      <4>4. Len(list) >= Len(md[id].items)
        BY <4>3
      <4> QED  BY <4>1, <4>3, <4>4 DEF ListKept
    <3> QED  BY <1>2, <3>5, <3>6
  <2> QED  BY <2>1, <2>2
<1>9. CASE WriteFixed
  BY <1>2, <1>9, WrittenNodes
<1> QED  BY <1>3, <1>4, <1>5, <1>6, <1>7, <1>8, <1>9 DEF Next, FixupNext

------------------------------------------------------------------------------

\* The slots of the variables of argument k.
Slots(g, list, k) == {i \in DOMAIN list : IsArg(g, list, i, k)}

\* The name of an argument is that of its last variable.
ArgNamed(g, sp, k, name) ==
    LET list == VariablesOf(g, sp)
        slots == Slots(g, list, k) IN
    name = IF slots = {} THEN Unnamed ELSE g[list[Max(slots)]].name

LEMMA ArgNames ==
    ASSUME NEW sp, NEW k
    PROVE  ArgNamed(md, sp, k, ArgName(sp, k)) /\ ArgNamed(md', sp, k, ArgName(sp, k)')
BY DEF ArgNamed, ArgName, VariablesOf, Slots, IsArg, Items, Kind

\* Where the variables of an argument stay in their slots, the name it has is that of
\* the same slot.
SameSlot(sp, k) ==
    \E i \in Slots(md, VariablesOf(md, sp), k) :
        /\ ArgName(sp, k) = md[VariablesOf(md, sp)[i]].name
        /\ ArgName(sp, k)' = md'[VariablesOf(md', sp)[i]].name

LEMMA SlotsKept ==
    ASSUME NEW sp, NEW k, ArgName(sp, k) # Unnamed, \A id \in DOMAIN md : IsNode(md[id]),
           Slots(md', VariablesOf(md', sp), k) = Slots(md, VariablesOf(md, sp), k)
    PROVE  SameSlot(sp, k)
<1> DEFINE list == VariablesOf(md, sp)
           slots == Slots(md, list, k)
<1>1. PICK n \in Nat : DOMAIN list = 1..n
  <2>1. CASE Kind(md[sp].retained) = "tuple"
    <3>1. md[sp].retained \in DOMAIN md /\ md[md[sp].retained].kind = "tuple"
      BY <2>1 DEF Kind, KindIn
    <3>2. \E n \in Nat : DOMAIN md[md[sp].retained].items = 1..n
      BY <3>1, TupleItems
    <3> QED  BY <2>1, <3>2 DEF VariablesOf, ItemsIn, Kind
  <2>2. CASE Kind(md[sp].retained) # "tuple"
    <3>1. list = <<>>
      BY <2>2 DEF VariablesOf, ItemsIn, Kind
    <3>2. DOMAIN list = 1..0
      BY <3>1
    <3> QED  BY <3>2
  <2> QED  BY <2>1, <2>2
<1>2. slots # {} /\ ArgName(sp, k) = md[list[Max(slots)]].name
  BY ArgNames DEF ArgNamed
<1>3. Max(slots) \in slots
  <2>1. slots \in SUBSET (1..n)
    BY <1>1 DEF Slots
  <2> HIDE DEF slots
  <2> QED  BY <1>2, <2>1, MaxOfSome
<1>4. ArgName(sp, k)' = md'[VariablesOf(md', sp)[Max(slots)]].name
  BY <1>2, ArgNames DEF ArgNamed
<1> QED  BY <1>2, <1>3, <1>4 DEF SameSlot

\* The nodes of md are ones.
LEMMA NodesOfMd == GraphInv => \A id \in DOMAIN md : IsNode(md[id])
<1> SUFFICES ASSUME GraphInv, NEW id \in DOMAIN md PROVE IsNode(md[id])
  OBVIOUS
<1>1. id \in DOMAIN Nodes /\ Nodes[id] = md[id]
  BY DEF Nodes, ++
<1>2. IsNode(Nodes[id])
  BY <1>1 DEF GraphInv, Closed
<1> QED  BY <1>1, <1>2

\* A pass that renames keeps each variable in its slot.
LEMMA RenamedSlots ==
    ASSUME NEW sp \in DOMAIN md, Kind(sp) = "subprogram", NEW k, Renamed(md, md')
    PROVE  /\ VariablesOf(md', sp) = VariablesOf(md, sp)
           /\ Slots(md', VariablesOf(md', sp), k) = Slots(md, VariablesOf(md, sp), k)
<1>1. VariablesOf(md', sp) = VariablesOf(md, sp)
  <2>1. md'[sp].retained = md[sp].retained
    BY DEF Renamed, Kind, KindIn
  <2> QED  BY <2>1, SameKinds DEF VariablesOf
<1>2. \A id : KindIn(md', id) = KindIn(md, id)
  BY SameKinds
<1>3. \A id : KindIn(md, id) = "variable" => md'[id].arg = md[id].arg
  BY DEF Renamed, KindIn
<1> DEFINE list == VariablesOf(md, sp)
<1>4. \A i \in DOMAIN list : IsArg(md', list, i, k) <=> IsArg(md, list, i, k)
  BY <1>2, <1>3 DEF IsArg
<1> QED  BY <1>1, <1>4 DEF Slots

\* An argument keeps its name in a pass that leaves it in its slot, under that name.
LEMMA RenamedArg ==
    ASSUME GraphInv, NEW sp \in DOMAIN md, Kind(sp) = "subprogram", NEW k,
           ArgName(sp, k) # Unnamed, Renamed(md, md')
    PROVE  \E v \in DOMAIN md :
              /\ md[v].kind = "variable"
              /\ ArgName(sp, k) = md[v].name /\ ArgName(sp, k)' = md'[v].name
<1>1. /\ VariablesOf(md', sp) = VariablesOf(md, sp)
      /\ Slots(md', VariablesOf(md', sp), k) = Slots(md, VariablesOf(md, sp), k)
  BY RenamedSlots
<1>2. SameSlot(sp, k)
  BY <1>1, SlotsKept, NodesOfMd
<1> QED  BY <1>1, <1>2 DEF SameSlot, Slots, IsArg, KindIn

LEMMA SortedArg ==
    ASSUME GraphInv, NEW sp \in DOMAIN md, Kind(sp) = "subprogram", NEW k,
           ArgName(sp, k) # Unnamed, SortMembers
    PROVE  ArgName(sp, k)' = ArgName(sp, k)
<1>1. /\ DOMAIN md' = DOMAIN md
      /\ \A id \in DOMAIN md : Kind(id) # "tuple" => md'[id] = md[id]
      /\ \A id \in DOMAIN md : Kind(id) = "tuple" =>
            LET old == md[id].items
                new == md'[id].items IN
            /\ md'[id].kind = "tuple" /\ DOMAIN new = DOMAIN old
            /\ \A i \in DOMAIN old : IsMember(new[i]) <=> IsMember(old[i])
            /\ \A i \in DOMAIN old : ~IsMember(old[i]) => new[i] = old[i]
  BY SortedLists, NodesOfMd
<1>2. /\ \A id : KindIn(md', id) = KindIn(md, id)
      /\ \A id : KindIn(md, id) = "variable" => md'[id] = md[id]
  BY <1>1 DEF Kind, KindIn
<1>3. PICK t : t = md[sp].retained
  OBVIOUS
<1>4. md'[sp] = md[sp]
  BY <1>1
<1>5. PICK old, new : old = VariablesOf(md, sp) /\ new = VariablesOf(md', sp)
  OBVIOUS
<1>6. /\ DOMAIN new = DOMAIN old
      /\ \A i \in DOMAIN old : IsMember(new[i]) <=> IsMember(old[i])
      /\ \A i \in DOMAIN old : ~IsMember(old[i]) => new[i] = old[i]
  <2>1. CASE Kind(t) = "tuple"
    <3>1. t \in DOMAIN md /\ old = md[t].items /\ new = md'[t].items
      BY <1>2, <1>3, <1>4, <1>5, <2>1 DEF VariablesOf, ItemsIn, Kind, KindIn
    <3> QED  BY <1>1, <2>1, <3>1
  <2>2. CASE Kind(t) # "tuple"
    <3>1. old = <<>> /\ new = <<>>
      BY <1>2, <1>3, <1>4, <1>5, <2>2 DEF VariablesOf, ItemsIn, Kind
    <3> QED  BY <3>1
  <2> QED  BY <2>1, <2>2
<1>7. ASSUME NEW i \in DOMAIN old
      PROVE  /\ IsArg(md', new, i, k) <=> IsArg(md, old, i, k)
             /\ IsArg(md, old, i, k) => new[i] = old[i] /\ md'[new[i]] = md[old[i]]
  <2>1. CASE IsMember(old[i])
    <3>1. KindIn(md, old[i]) # "variable" /\ KindIn(md, new[i]) # "variable"
      BY <1>6, <2>1 DEF IsMember, Kind
    <3> QED  BY <1>2, <3>1 DEF IsArg
  <2>2. CASE ~IsMember(old[i])
    <3>1. new[i] = old[i]
      BY <1>6, <2>2
    <3> QED  BY <1>2, <3>1 DEF IsArg
  <2> QED  BY <2>1, <2>2
<1>8. Slots(md', new, k) = Slots(md, old, k)
  BY <1>6, <1>7 DEF Slots
<1>9. SameSlot(sp, k)
  BY <1>5, <1>8, SlotsKept, NodesOfMd
<1> QED  BY <1>5, <1>7, <1>9 DEF SameSlot, Slots

LEMMA LongerArg ==
    ASSUME NEW named, NEW list, Longer(named, list),
           NEW sp \in DOMAIN md, Kind(sp) = "subprogram", NEW k, ArgName(sp, k) # Unnamed
    PROVE  ArgName(sp, k)' = ArgName(sp, k)
<1>1. GraphInv /\ named \in DOMAIN md
  BY DEF Longer
<1>2. /\ \A id : KindIn(md', id) = KindIn(md, id)
      /\ \A id \in DOMAIN md : md[id].kind \notin {"tuple", "subprogram"} => md'[id] = md[id]
      /\ \A id \in DOMAIN md : md[id].kind = "tuple" =>
            md'[id] = IF id = md[named].retained THEN TupleNode(list) ELSE md[id]
      /\ md'[sp].retained = IF sp = named /\ Kind(md[named].retained) # "tuple"
                            THEN new_retained(named) ELSE md[sp].retained
      /\ DOMAIN md' = DOMAIN md
  BY LongerNodes DEF KeepsNodes, Kind, KindIn
<1>3. PICK t : t = md[sp].retained
  OBVIOUS
<1>4. PICK old, new : old = VariablesOf(md, sp) /\ new = VariablesOf(md', sp)
  OBVIOUS
<1>5. Slots(md, old, k) # {}
  BY <1>4, ArgNames DEF ArgNamed
<1>6. t \in DOMAIN md /\ md[t].kind = "tuple" /\ old = md[t].items
  <2>1. old # <<>>
    BY <1>5 DEF Slots
  <2> QED  BY <1>3, <1>4, <2>1 DEF VariablesOf, ItemsIn, KindIn
<1>7. md'[sp].retained = t
  BY <1>2, <1>3, <1>6 DEF Kind, KindIn
<1>8. new = IF t = md[named].retained THEN list ELSE old
  <2>1. KindIn(md', t) = "tuple"
    BY <1>2, <1>6 DEF KindIn
  <2>2. new = md'[t].items
    BY <1>4, <1>7, <2>1 DEF VariablesOf, ItemsIn
  <2> QED  BY <1>2, <1>6, <2>2 DEF TupleNode
<1>9. /\ DOMAIN old \subseteq DOMAIN new
      /\ \A i \in DOMAIN old : new[i] = old[i]
      /\ \A i \in DOMAIN new \ DOMAIN old : new[i] \notin DOMAIN md
  <2>1. CASE t = md[named].retained
    <3>1. Items(md[named].retained) = old
      BY <1>6, <2>1 DEF Items, ItemsIn, KindIn
    <3>2. /\ DOMAIN old = 1..Len(old) /\ Len(old) \in Nat /\ Len(old) <= Len(list)
          /\ DOMAIN list = 1..Len(list) /\ Len(list) \in Nat
          /\ \A i \in DOMAIN old : list[i] = old[i]
          /\ \A i \in DOMAIN list : i > Len(old) => list[i] \in DOMAIN extra' \ DOMAIN extra
      BY <3>1, LongerList
    <3>3. DOMAIN md \intersect DOMAIN extra' = {}
      BY LongerNodes DEF AddsNodes
    <3> QED  BY <1>8, <2>1, <3>2, <3>3
  <2> QED  BY <1>8, <2>1
<1>10. Slots(md', new, k) = Slots(md, old, k)
  <2>1. \A i \in DOMAIN old : IsArg(md', new, i, k) <=> IsArg(md, old, i, k)
    BY <1>2, <1>9 DEF IsArg, KindIn
  <2>2. \A i \in DOMAIN new : IsArg(md', new, i, k) => i \in DOMAIN old
    BY <1>2, <1>9 DEF IsArg, KindIn
  <2> QED  BY <1>9, <2>1, <2>2 DEF Slots
<1>11. SameSlot(sp, k)
  BY <1>1, <1>4, <1>10, SlotsKept, NodesOfMd
<1> QED  BY <1>2, <1>4, <1>9, <1>11 DEF SameSlot, Slots, IsArg, KindIn

LEMMA WrittenArg ==
    ASSUME GraphInv, WriteFixed, NEW sp \in DOMAIN md, Kind(sp) = "subprogram",
           NEW k \in DOMAIN parameter_types(sp), ArgName(sp, k) # Unnamed
    PROVE  ArgName(sp, k)' = ArgName(sp, k)
<1>1. /\ md' = Nodes /\ Pass4
      /\ \A id \in DOMAIN md : id \in DOMAIN Nodes /\ Nodes[id] = md[id]
      /\ \A id \in DOMAIN md \union {null} : Items(id)' = Items(id)
  BY WrittenNodes
<1>2. PICK old : old = VariablesOf(md, sp)
  OBVIOUS
<1>3. Slots(md, old, k) # {}
  BY <1>2, ArgNames DEF ArgNamed
<1>4. PICK t : t = md[sp].retained
  OBVIOUS
<1>5. t \in DOMAIN md /\ md[t].kind = "tuple" /\ old = md[t].items
  <2>1. old # <<>>
    BY <1>3 DEF Slots
  <2> QED  BY <1>2, <1>4, <2>1 DEF VariablesOf, ItemsIn, KindIn
<1>6. md'[sp] = md[sp] /\ VariablesOf(md', sp) = old
  BY <1>1, <1>4, <1>5 DEF VariablesOf, ItemsIn, KindIn
<1>7. PICK m \in Nat : DOMAIN parameter_types(sp) = 1..m
  BY ParametersNumbered, NodesOfMd
<1>8. PICK n \in Nat : DOMAIN old = 1..n
  BY <1>5, NodesOfMd, TupleItems
<1>9. k \in Have(old)
  <2> DEFINE slots == Slots(md, old, k)
  <2>1. slots \in SUBSET (1..n)
    BY <1>8 DEF Slots
  <2>2. Max(slots) \in slots /\ ArgName(sp, k) = md[old[Max(slots)]].name
    <3>1. ArgName(sp, k) = md[old[Max(slots)]].name
      BY <1>2, <1>3, ArgNames DEF ArgNamed
    <3> HIDE DEF slots
    <3> QED  BY <1>3, <1>8, <2>1, <3>1, MaxOfSome DEF slots
  <2>3. PICK v \in Range(old) : KindIn(md, v) = "variable" /\ md[v].arg = k /\ md[v].name # Unnamed
    BY <2>2 DEF Slots, IsArg, Range
  <2> QED  BY <1>7, <2>3 DEF Have, Kind
<1>10. NoneTwice(old)
  BY <1>1, <1>5 DEF Pass4, Kind, KindIn
<1>11. ASSUME NEW i \in DOMAIN old
       PROVE  IsArg(md', old, i, k) <=> IsArg(md, old, i, k)
  <2>1. CASE old[i] \in DOMAIN md
    BY <1>1, <2>1 DEF IsArg, KindIn
  <2>2. CASE old[i] \notin DOMAIN md
    <3>1. ~IsArg(md, old, i, k)
      BY <2>2 DEF IsArg, KindIn
    <3>2. SUFFICES ASSUME IsArg(md', old, i, k) PROVE FALSE
      BY <3>1
    <3>3. old[i] \in DOMAIN extra /\ Nodes[old[i]] = extra[old[i]]
      BY <1>1, <2>2, <3>2 DEF IsArg, KindIn, Nodes, ++
    <3>4. extra[old[i]].kind = "variable" /\ extra[old[i]].arg = k
      BY <1>1, <3>2, <3>3 DEF IsArg, KindIn
    <3>5. old[i] \in Range(old)
      BY DEF Range
    <3> QED  BY <1>9, <1>10, <3>3, <3>4, <3>5 DEF NoneTwice
  <2> QED  BY <2>1, <2>2
<1>12. Slots(md', old, k) = Slots(md, old, k)
  BY <1>11 DEF Slots
<1>13. SameSlot(sp, k)
  BY <1>2, <1>6, <1>12, SlotsKept, NodesOfMd
<1> QED  BY <1>1, <1>2, <1>6, <1>13 DEF SameSlot, Slots, IsArg, KindIn

\* What a step does to the name of an argument.
LEMMA ArgumentStep ==
    ASSUME GraphInv, Next, NEW sp \in DOMAIN md, Kind(sp) = "subprogram",
           NEW k \in DOMAIN parameter_types(sp), ArgName(sp, k) # Unnamed
    PROVE  ArgName(sp, k)' = IF stage = "fixup" THEN sanitize(ArgName(sp, k)) ELSE ArgName(sp, k)
<1>1. ASSUME md' = md PROVE ArgName(sp, k)' = ArgName(sp, k)
  BY <1>1 DEF ArgName, Items, ItemsIn, Kind, KindIn
<1>2. CASE RelocNext
  <2>1. stage # "fixup"
    BY <1>2 DEF RelocNext, PassOver, lower_polyfill, GiveUp, WriteModule, Looking
  <2>2. CASE lower_polyfill
    <3>1. /\ Renamed(md, md')
          /\ \A id \in DOMAIN md : md[id].kind = "variable" => md'[id] = md[id]
      BY <2>2, Lowers
    <3>2. PICK v \in DOMAIN md :
              /\ md[v].kind = "variable"
              /\ ArgName(sp, k) = md[v].name /\ ArgName(sp, k)' = md'[v].name
      BY <3>1, RenamedArg
    <3> QED  BY <2>1, <3>1, <3>2
  <2>3. CASE PassOver \/ GiveUp \/ WriteModule
    BY <1>1, <2>1, <2>3 DEF PassOver, GiveUp, WriteModule
  <2> QED  BY <1>2, <2>2, <2>3 DEF RelocNext
<1>3. CASE opt \/ Load
  BY <1>1, <1>3 DEF opt, Load
<1>4. CASE SanitizeNames
  <2>1. /\ Renamed(md, md')
        /\ \A id \in DOMAIN md : md[id].kind = "variable" => md'[id].name = sanitize(md[id].name)
    BY <1>4, Sanitizes
  <2>2. PICK v \in DOMAIN md :
            /\ md[v].kind = "variable"
            /\ ArgName(sp, k) = md[v].name /\ ArgName(sp, k)' = md'[v].name
    BY <2>1, RenamedArg
  <2>3. stage = "fixup"
    BY <1>4 DEF SanitizeNames
  <2> QED  BY <2>1, <2>2, <2>3
<1>5. CASE RecodeBasicTypes
  <2>1. /\ Renamed(md, md')
        /\ \A id \in DOMAIN md : md[id].kind = "variable" => md'[id] = md[id]
    BY <1>5, Recodes
  <2>2. PICK v \in DOMAIN md :
            /\ md[v].kind = "variable"
            /\ ArgName(sp, k) = md[v].name /\ ArgName(sp, k)' = md'[v].name
    BY <2>1, RenamedArg
  <2>3. stage # "fixup"
    BY <1>5 DEF RecodeBasicTypes
  <2> QED  BY <2>1, <2>2, <2>3
<1>6. CASE SortMembers
  BY <1>6, SortedArg DEF SortMembers
<1>7. ASSUME NEW named \in DOMAIN md, NameParameters(named)
      PROVE  ArgName(sp, k)' = ArgName(sp, k) /\ stage # "fixup"
  <2>1. GraphInv /\ stage = "parameters" /\ stage' = stage /\ Kind(named) = "subprogram"
        /\ named \notin visited /\ visited' = visited \union {named}
    BY <1>7 DEF NameParameters
  <2>2. CASE Lacking(named) = {}
    BY <1>1, <1>7, <2>1, <2>2 DEF NameParameters
  <2>3. CASE Lacking(named) # {}
    <3>1. \A v \in DOMAIN extra : Made(v)
      BY <2>1 DEF GraphInv, Pass4
    <3>2. PICK list : Lengthened(named, list)
      BY <1>7, <2>3, <3>1, NodesOfMd, NamedParameters
    <3>3. Longer(named, list)
      BY <2>1, <3>2 DEF Longer
    <3> QED  BY <2>1, <3>3, LongerArg
  <2> QED  BY <2>2, <2>3
<1>8. CASE WriteFixed
  BY <1>8, WrittenArg DEF WriteFixed
<1> QED  BY <1>2, <1>3, <1>4, <1>5, <1>6, <1>7, <1>8 DEF Next, FixupNext

------------------------------------------------------------------------------

LEMMA GraphAlways == Spec => []GraphInv
BY GraphInit, GraphStep, PTL DEF Spec

LEMMA CodeAlways == Spec => []CodeInv
BY CodeInit, CodeStep, PTL DEF Spec

LEMMA LoweredAlways == Spec => []LoweredInv
BY LoweredInit, LoweredStep, PTL DEF Spec

\* What btf_fixup.py and bpf-postproc find in a module, at each step, is what they look
\* for: references lead to nodes, lists hold what they are lists of (btf_fixup.py
\* 184-238, field_reloc.rs 109-135).
THEOREM TypeCorrect == Spec => []TypeOK
<1>1. ASSUME GraphInv, CodeInv, LoweredInv PROVE TypeOK
  <2>1. stage \in {"reloc", "opt", "fixup", "llc", "loaded", "rejected", "failed"} \union Fixing
    BY <1>1 DEF GraphInv, BeforePass4, Written, Fixing
  <2>2. \A id \in DOMAIN Nodes :
           /\ IsNode(Nodes[id])
           /\ Nodes[id].kind = "tuple" => Range(Nodes[id].items) \subseteq DOMAIN Nodes \union {null}
           /\ Nodes[id].kind = "subprogram" => Nodes[id].retained \in DOMAIN Nodes \union {null}
    BY <1>1 DEF GraphInv, Closed
  <2>3. at \in 1..(Len(code) + 1)
    <3>1. PICK n \in Nat : DOMAIN code = 1..n /\ at \in 1..(n + 1)
      BY <1>1 DEF LoweredInv, Progress
    <3>2. Len(code) = n
      BY <1>1, <3>1 DEF CodeInv
    <3> QED  BY <3>1, <3>2
  <2>4. visited \subseteq DOMAIN md
    BY <1>1 DEF GraphInv, Pass4, BeforePass4, Written
  <2> QED  BY <1>1, <2>1, <2>2, <2>3, <2>4 DEF TypeOK, Nodes, CodeInv
<1> QED  BY <1>1, GraphAlways, CodeAlways, LoweredAlways, PTL

\* The kernel takes the BTF of every module btf_fixup.py writes: names, encodings, the
\* order of members and the names of arguments (btf_fixup.py 5-50).
THEOREM BtfTaken == Spec => []KernelTakesBtf
<1>1. GraphInv => KernelTakesBtf
  BY DEF GraphInv, KernelTakesBtf, Written
<1> QED  BY <1>1, GraphAlways, PTL

\* No pass loses a node from a list, and what is no member keeps its slot (btf_fixup.py
\* 28-30, 184-191).
THEOREM ListsStay == Spec => ListsKept
<1>1. GraphInv /\ [Next]_vars => [\A id \in DOMAIN md : Kind(id) = "tuple" => ListKept(id)]_vars
  BY ListsStep
<1> QED  BY <1>1, GraphAlways, PTL DEF Spec, ListsKept

\* An argument the source names keeps that name through every pass, for any number of
\* functions with a list in common (btf_fixup.py 49-50, 223-234).
THEOREM ArgumentNamesStay == Spec => ArgumentNamesKept
<1>1. GraphInv /\ [Next]_vars =>
        [\A sp \in DOMAIN md : Kind(sp) = "subprogram" =>
            \A k \in DOMAIN parameter_types(sp) :
                ArgName(sp, k) # Unnamed =>
                    ArgName(sp, k)' =
                        IF stage = "fixup" THEN sanitize(ArgName(sp, k)) ELSE ArgName(sp, k)]_vars
  BY ArgumentStep
<1> QED  BY <1>1, GraphAlways, PTL DEF Spec, ArgumentNamesKept

\* A program is refused for its BTF or its relocations only.
Refusal == stage = "rejected" => ~(BtfAccepted /\ Loads(kernel))

LEMMA RefusalStep == Refusal /\ [Next]_vars => Refusal'
<1> SUFFICES ASSUME Refusal, [Next]_vars PROVE Refusal'
  OBVIOUS
<1>1. ASSUME UNCHANGED <<md, code>>
      PROVE  (BtfAccepted' <=> BtfAccepted) /\ \A k : Loads(k)' <=> Loads(k)
  <2>1. /\ \A id : Kind(id)' = Kind(id)
        /\ \A id : Items(id)' = Items(id)
        /\ \A id : parameter_types(id)' = parameter_types(id) /\ elements(id)' = elements(id)
        /\ \A items : MemberSlots(items)' = MemberSlots(items)
    BY <1>1 DEF Kind, Items, parameter_types, elements, MemberSlots, IsMember
  <2>2. /\ \A items : Nondecreasing(items)' <=> Nondecreasing(items)
        /\ \A sp, k : ArgName(sp, k)' = ArgName(sp, k)
    BY <1>1, <2>1 DEF Nondecreasing, ArgName
  <2>3. BtfAccepted' <=> BtfAccepted
    BY <1>1, <2>1, <2>2 DEF BtfAccepted
  <2>4. \A k : Loads(k)' <=> Loads(k)
    BY <1>1 DEF Loads, Relocs, Reached, Has, Target, Names, elements, Items, UnderlyingComposite,
                Kind, base_type
  <2> QED  BY <2>3, <2>4
<1>2. CASE Load
  <2>1. PICK k : k = kernel'
    OBVIOUS
  <2>2. stage' = IF BtfAccepted /\ Loads(k) THEN "loaded" ELSE "rejected"
    BY <1>2, <2>1 DEF Load
  <2>3. UNCHANGED <<md, code>>
    BY <1>2 DEF Load
  <2>4. Loads(kernel)' <=> Loads(k)'
    BY <2>1 DEF Loads, Reached, Has
  <2> QED  BY <1>1, <2>2, <2>3, <2>4 DEF Refusal
<1>3. CASE UNCHANGED vars
  <2>1. UNCHANGED <<md, code, kernel, stage>>
    BY <1>3 DEF vars
  <2>2. Loads(kernel)' <=> Loads(kernel)
    <3>1. PICK k : k = kernel
      OBVIOUS
    <3>2. Loads(kernel)' <=> Loads(k)'
      BY <2>1, <3>1 DEF Loads, Reached, Has
    <3> QED  BY <1>1, <2>1, <3>1, <3>2
  <2> QED  BY <1>1, <2>1, <2>2 DEF Refusal
<1>4. CASE RelocNext \/ opt \/ FixupNext
  <2>1. stage' # "rejected"
    BY <1>4 DEF RelocNext, PassOver, lower_polyfill, GiveUp, WriteModule, Looking, opt,
                FixupNext, SanitizeNames, RecodeBasicTypes, SortMembers, NameParameters, WriteFixed
  <2> QED  BY <2>1 DEF Refusal
<1> QED  BY <1>2, <1>3, <1>4 DEF Next

\* Where relocations name what their source asks for, a program whose profile keeps its
\* promise loads.
LEMMA PromiseKept ==
    ASSUME GraphInv, CodeInv, Refusal, RelocsNameTheSource
    PROVE  RequiredLoads
<1> SUFFICES ASSUME stage \in {"loaded", "rejected"}, Promise(kernel),
                    \A i \in Relocs : code[i].source.op # "get"
             PROVE  stage = "loaded"
  BY DEF RequiredLoads
<1>1. BtfAccepted
  BY DEF GraphInv, Written
<1>2. \A i \in Relocs :
          /\ Target(i) = Asked(i)
          /\ code[i].kind = IF code[i].source.op \in {"exists", "probe"} THEN 2 ELSE 0
  BY DEF RelocsNameTheSource
<1>3. ASSUME NEW i \in Relocs, code[i].kind = 0, Reached(kernel, i)
      PROVE  Has(kernel, i)
  <2>1. i \in DOMAIN code /\ code[i].source.op \in {"exists", "get", "required", "probe"}
    BY DEF Relocs, CodeInv
  <2>2. code[i].source.op = "required"
    BY <1>2, <1>3, <2>1
  <2>3. ASSUME NEW q \in Relocs, code[q].source.op = "probe"
        PROVE  Asked(q) \in kernel
    <3>1. q \in DOMAIN code
      BY DEF Relocs
    <3>2. q \in code[i].after
      BY <2>1, <2>2, <2>3, <3>1 DEF CodeInv
    <3>3. Has(kernel, q)
      BY <1>3, <3>2 DEF Reached
    <3> QED  BY <1>2, <3>3 DEF Has
  <2>4. Asked(i) \in kernel
    BY <2>2, <2>3 DEF Promise
  <2> QED  BY <1>2, <2>4 DEF Has
<1>4. Loads(kernel)
  BY <1>3 DEF Loads
<1> QED  BY <1>1, <1>4 DEF Refusal
==============================================================================

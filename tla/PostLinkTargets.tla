---------------------------- MODULE PostLinkTargets ----------------------------
(***************************************************************************)
(* What relocations name, for any declared structs, accesses and kernels:  *)
(*   - each one the field its access names in the source (TargetsRight);   *)
(*   - so a program that requires what its profile promises loads          *)
(*     (RequiredLoad).                                                     *)
(* The invariant, TargetInv, has three parts: the carriers stay as the     *)
(* macros made them but for their names (Held); each call that is left     *)
(* still means its access (Meant); and what became of the others is the    *)
(* indexes of the fields the source wrote (RightInstr).                    *)
(***************************************************************************)
EXTENDS PostLinkProofs

------------------------------------------------------------------------------
(* Walks through the graph, which need not end. *)

\* f follows next from the elements of F, and is the end of the walk.
WalkOn(D, F, next, f) ==
    /\ f = [i \in D |-> f[i]]
    /\ \A i \in D : f[i] = IF i \in F THEN f[next[i]] ELSE i

\* There is such a function, also where the walk goes round.
LEMMA Walks ==
    ASSUME NEW D, NEW F \in SUBSET D, NEW next, \A i \in F : next[i] \in D
    PROVE  \E f : WalkOn(D, F, next, f)
<1> DEFINE Shut(T) == \A x \in T \intersect F : next[x] \in T
           Reaches(i, j) == \A T \in SUBSET D : i \in T /\ Shut(T) => j \in T
           Ends(i) == {j \in D \ F : Reaches(i, j)}
           h == [i \in D |-> CHOOSE j \in Ends(i) : TRUE]
<1>1. ASSUME NEW i \in F, NEW j \in D \ F PROVE Reaches(i, j) <=> Reaches(next[i], j)
  <2>1. ASSUME Reaches(next[i], j) PROVE Reaches(i, j)
    <3> SUFFICES ASSUME NEW T \in SUBSET D, i \in T, Shut(T) PROVE j \in T
      OBVIOUS
    <3>1. next[i] \in T
      OBVIOUS
    <3> QED  BY <2>1, <3>1
  <2>2. ASSUME Reaches(i, j) PROVE Reaches(next[i], j)
    <3> SUFFICES ASSUME NEW T \in SUBSET D, next[i] \in T, Shut(T) PROVE j \in T
      OBVIOUS
    <3> DEFINE U == T \union {i}
    <3>1. U \in SUBSET D /\ i \in U /\ Shut(U)
      OBVIOUS
    <3>2. j \in U
      <4> HIDE DEF U, Shut
      <4> QED  BY <2>2, <3>1
    <3> QED  BY <3>2
  <2> QED  BY <2>1, <2>2
<1>2. ASSUME NEW i \in D \ F PROVE Ends(i) = {i}
  <2>1. {i} \in SUBSET D /\ i \in {i} /\ Shut({i})
    OBVIOUS
  <2>2. \A j : Reaches(i, j) => j = i
    <3> HIDE DEF Shut
    <3> QED  BY <2>1
  <2>3. Reaches(i, i)
    OBVIOUS
  <2> HIDE DEF Reaches
  <2> QED  BY <2>2, <2>3
<1>3. ASSUME NEW i \in F PROVE Ends(i) = Ends(next[i])
  <2> HIDE DEF Reaches
  <2> QED  BY <1>1
<1>4. ASSUME NEW i \in D PROVE h[i] = IF i \in F THEN h[next[i]] ELSE i
  <2> HIDE DEF Ends
  <2>1. CASE i \in F
    <3>1. Ends(i) = Ends(next[i]) /\ next[i] \in D
      BY <1>3, <2>1
    <3> QED  BY <2>1, <3>1
  <2>2. CASE i \notin F
    <3>1. Ends(i) = {i}
      BY <1>2, <2>2
    <3> QED  BY <2>2, <3>1
  <2> QED  BY <2>1, <2>2
<1>5. h = [i \in D |-> h[i]]
  OBVIOUS
<1> HIDE DEF h
<1>6. WalkOn(D, F, next, h)
  BY <1>4, <1>5 DEF WalkOn
<1> QED  BY <1>6

\* The composite below a type, at it or one step below.
LEMMA Underlying ==
    ASSUME Leads(md), NEW id \in DOMAIN md
    PROVE  /\ Kind(id) = "composite" => UnderlyingComposite(id) = id
           /\ Kind(id) = "derived" /\ Kind(md[id].base) = "composite" =>
                 UnderlyingComposite(id) = md[id].base
<1> DEFINE D == DOMAIN md \union {null}
           F == {i \in D : Kind(i) = "derived"}
           next == [i \in F |-> md[i].base]
           Is(f) == f = [i \in D |-> IF Kind(i) = "derived" THEN f[base_type(i)] ELSE i]
<1>1. /\ F \in SUBSET D
      /\ \A i \in F : next[i] \in D
  BY DEF Leads, Kind, KindIn
<1>2. PICK some : WalkOn(D, F, next, some)
  <2> HIDE DEF D, F, next
  <2> QED  BY <1>1, Walks
<1>3. Is(some)
  <2>1. /\ some = [i \in D |-> some[i]]
        /\ \A i \in D : some[i] = IF i \in F THEN some[next[i]] ELSE i
    BY <1>2 DEF WalkOn
  <2>2. \A i \in D : i \in F <=> Kind(i) = "derived"
    OBVIOUS
  <2>3. \A i \in F : next[i] = base_type(i)
    BY DEF base_type
  <2> HIDE DEF D, F, next
  <2> QED  BY <2>1, <2>2, <2>3
<1> DEFINE under == CHOOSE f : Is(f)
<1>4. Is(under)
  <2> HIDE DEF Is
  <2> QED  BY <1>3
<1>5. \A i : UnderlyingComposite(i) = IF Kind(under[i]) = "composite" THEN under[i] ELSE null
  BY DEF UnderlyingComposite
<1> HIDE DEF under
<1>6. \A i \in D : under[i] = IF Kind(i) = "derived" THEN under[base_type(i)] ELSE i
  BY <1>4
<1>7. \A i \in D : Kind(i) = "composite" => under[i] = i
  BY <1>6
<1>8. ASSUME Kind(id) = "derived", Kind(md[id].base) = "composite"
      PROVE  under[id] = md[id].base
  <2>1. under[id] = under[md[id].base]
    BY <1>6, <1>8 DEF base_type
  <2>2. md[id].base \in D
    BY <1>8 DEF Kind, KindIn
  <2> QED  BY <1>7, <1>8, <2>1, <2>2
<1> QED  BY <1>5, <1>7, <1>8

\* The function around a location: in it, or in a block of it.
LEMMA Around ==
    ASSUME Leads(md), NEW scope \in DOMAIN md \union {null}
    PROVE  /\ Kind(scope) = "subprogram" => HelperOf(scope) = scope
           /\ Kind(scope) = "block" /\ Kind(md[scope].scope) = "subprogram" =>
                 HelperOf(scope) = md[scope].scope
           /\ Kind(scope) = "none" => HelperOf(scope) = null
<1> DEFINE D == DOMAIN md \union {null}
           F == {i \in D : Kind(i) = "block"}
           next == [i \in F |-> md[i].scope]
           Is(f) == f = [i \in D |-> IF Kind(i) = "block" THEN f[md[i].scope] ELSE i]
<1>1. /\ F \in SUBSET D
      /\ \A i \in F : next[i] \in D
  BY DEF Leads, Kind, KindIn
<1>2. PICK some : WalkOn(D, F, next, some)
  <2> HIDE DEF D, F, next
  <2> QED  BY <1>1, Walks
<1>3. Is(some)
  <2>1. /\ some = [i \in D |-> some[i]]
        /\ \A i \in D : some[i] = IF i \in F THEN some[next[i]] ELSE i
    BY <1>2 DEF WalkOn
  <2>2. \A i \in D : i \in F <=> Kind(i) = "block"
    OBVIOUS
  <2>3. \A i \in F : next[i] = md[i].scope
    OBVIOUS
  <2> HIDE DEF D, F, next
  <2> QED  BY <2>1, <2>2, <2>3
<1> DEFINE around == CHOOSE f : Is(f)
<1>4. Is(around)
  <2> HIDE DEF Is
  <2> QED  BY <1>3
<1>5. \A i : HelperOf(i) = IF Kind(around[i]) = "subprogram" THEN around[i] ELSE null
  BY DEF HelperOf
<1> HIDE DEF around
<1>6. \A i \in D : around[i] = IF Kind(i) = "block" THEN around[md[i].scope] ELSE i
  BY <1>4
<1>7. \A i \in D : Kind(i) # "block" => around[i] = i
  BY <1>6
<1>8. ASSUME Kind(scope) = "block", Kind(md[scope].scope) = "subprogram"
      PROVE  around[scope] = md[scope].scope
  <2>1. around[scope] = around[md[scope].scope]
    BY <1>6, <1>8
  <2>2. md[scope].scope \in D
    BY <1>8 DEF Kind, KindIn
  <2> QED  BY <1>7, <1>8, <2>1, <2>2
<1> QED  BY <1>5, <1>7, <1>8

------------------------------------------------------------------------------
(* Struct types as the macros declare them, and what the pass reads of them. *)

\* A struct type of these fields, in a graph g.
HasStruct(g, id, fields) ==
    LET list == <<"elements", id>>
        member(k) == <<"member", id, k>> IN
    /\ KindIn(g, id) = "composite" /\ g[id].elements = list
    /\ KindIn(g, list) = "tuple" /\ g[list].items = [k \in DOMAIN fields |-> member(k)]
    /\ \A k \in DOMAIN fields :
          /\ member(k) \in DOMAIN g
          /\ g[member(k)] = Derived(fields[k].name, "member", fields[k].type, fields[k].offset)

\* What the pass reads of it: n members.
ReadsAs(id, n, fields) ==
    /\ Kind(id) = "composite" /\ id \in DOMAIN md
    /\ Len(elements(id)) = n /\ DOMAIN elements(id) = 1..n
    /\ \A k \in 1..n :
          LET member == <<"member", id, k>> IN
          /\ elements(id)[k] = member
          /\ member \in DOMAIN md /\ Kind(member) = "derived"
          /\ md[member].name = fields[k].name /\ base_type(member) = fields[k].type
          /\ \A name : Named(member, name) <=> fields[k].name = name

LEMMA StructRead ==
    ASSUME NEW id, NEW n \in Nat, NEW fields, DOMAIN fields = 1..n, HasStruct(md, id, fields)
    PROVE  ReadsAs(id, n, fields)
<1>1. Kind(id) = "composite" /\ id \in DOMAIN md
  BY DEF HasStruct, Kind, KindIn
<1>2. elements(id) = [k \in 1..n |-> <<"member", id, k>>]
  BY DEF HasStruct, elements, Items, ItemsIn
<1>3. /\ Len(elements(id)) = n /\ DOMAIN elements(id) = 1..n
      /\ \A k \in 1..n : elements(id)[k] = <<"member", id, k>>
  BY <1>2
<1>4. ASSUME NEW k \in 1..n
      PROVE  /\ Kind(<<"member", id, k>>) = "derived" /\ <<"member", id, k>> \in DOMAIN md
             /\ md[<<"member", id, k>>].name = fields[k].name
             /\ base_type(<<"member", id, k>>) = fields[k].type
  <2>1. /\ <<"member", id, k>> \in DOMAIN md
        /\ md[<<"member", id, k>>] = Derived(fields[k].name, "member", fields[k].type, fields[k].offset)
    BY DEF HasStruct
  <2> QED  BY <2>1 DEF Derived, Kind, KindIn, base_type
<1> QED  BY <1>1, <1>3, <1>4 DEF Named, ReadsAs

\* Of n fields the k-th alone has that name; none has.
OnlyOne(fields, n, name, k) == k \in 1..n /\ \A j \in 1..n : fields[j].name = name <=> j = k
NotOne(fields, n, name) == \A j \in 1..n : fields[j].name # name

\* The member of a name that one field has, and of one that none has.
LEMMA OneCalled ==
    ASSUME NEW id, NEW n \in Nat, NEW fields, DOMAIN fields = 1..n, HasStruct(md, id, fields),
           NEW name, NEW k, OnlyOne(fields, n, name, k)
    PROVE  MemberCalled(id, name) = <<"member", id, k>>
<1> DEFINE I == {j \in 1..Len(elements(id)) : Named(elements(id)[j], name)}
<1>1. /\ Len(elements(id)) = n
      /\ \A j \in 1..n :
            /\ elements(id)[j] = <<"member", id, j>>
            /\ Named(elements(id)[j], name) <=> fields[j].name = name
  <2>1. ReadsAs(id, n, fields)
    BY StructRead
  <2>2. Len(elements(id)) = n
    BY <2>1 DEF ReadsAs
  <2>3. ASSUME NEW j \in 1..n
        PROVE  /\ elements(id)[j] = <<"member", id, j>>
               /\ Named(<<"member", id, j>>, name) <=> fields[j].name = name
    BY <2>1 DEF ReadsAs
  <2> QED  BY <2>2, <2>3
<1>2. I = {k} /\ k \in 1..n
  BY <1>1 DEF OnlyOne
<1>3. I \in SUBSET (1..n) /\ I # {}
  BY <1>2
<1>4. Max(I) = k
  <2> HIDE DEF I
  <2> QED  BY <1>2, <1>3, MaxOfSome
<1>5. SelectLastInSeq(elements(id), LAMBDA e : Named(e, name)) = k
  BY <1>3, <1>4 DEF SelectLastInSeq
<1>6. k # 0 /\ elements(id)[k] = <<"member", id, k>>
  BY <1>1, <1>2
<1> QED  BY <1>5, <1>6 DEF MemberCalled

LEMMA NoneCalled ==
    ASSUME NEW id, NEW n \in Nat, NEW fields, DOMAIN fields = 1..n, HasStruct(md, id, fields),
           NEW name, NotOne(fields, n, name)
    PROVE  MemberCalled(id, name) = null
<1> DEFINE I == {j \in 1..Len(elements(id)) : Named(elements(id)[j], name)}
<1>1. /\ Len(elements(id)) = n
      /\ \A j \in 1..n :
            /\ elements(id)[j] = <<"member", id, j>>
            /\ Named(elements(id)[j], name) <=> fields[j].name = name
  <2>1. ReadsAs(id, n, fields)
    BY StructRead
  <2>2. Len(elements(id)) = n
    BY <2>1 DEF ReadsAs
  <2>3. ASSUME NEW j \in 1..n
        PROVE  /\ elements(id)[j] = <<"member", id, j>>
               /\ Named(<<"member", id, j>>, name) <=> fields[j].name = name
    BY <2>1 DEF ReadsAs
  <2> QED  BY <2>2, <2>3
<1>2. I = {}
  BY <1>1 DEF NotOne
<1>3. SelectLastInSeq(elements(id), LAMBDA e : Named(e, name)) = 0
  BY <1>2 DEF SelectLastInSeq
<1> QED  BY <1>3 DEF MemberCalled

\* The fields of carriers, markers and paths.
CarrierFields(s) ==
    [k \in DOMAIN Fields[s] |->
        [name |-> Fields[s][k].name, type |-> TypeId(Fields[s][k].type), offset |-> Offset(s)[k]]]
MarkerFields(s, k) == <<[name |-> Fields[s][k].name, type |-> basic("u8"), offset |-> 0]>>
RootFields == <<[name |-> "_private", type |-> basic("u8"), offset |-> 0]>>
PathFields(root, path) ==
    LET s == DeclaredIn(root, path)[Len(path)] IN
    <<[name |-> "parent", type |-> PathId(root, Front(path)), offset |-> 0],
      [name |-> "field", type |-> marker(s, FieldIndex(s, Last(path))), offset |-> 1]>>

\* Of all structs.
Carriers(g) == \A s \in Structs : HasStruct(g, carrier(s), CarrierFields(s))
Markers(g) ==
    \A s \in Structs : \A k \in DOMAIN Fields[s] : HasStruct(g, marker(s, k), MarkerFields(s, k))

\* The types of a path and of those in front of it.
PathTypes(g, root, path) ==
    /\ HasStruct(g, <<"RootPath">>, RootFields)
    /\ \A l \in 1..Len(path) :
          LET prefix == SubSeq(path, 1, l) IN
          HasStruct(g, PathId(root, prefix), PathFields(root, prefix))

\* The function a call was inlined from.
HasHelper(g, h) ==
    LET to == <<carrier(h[3]), PathId(h[3], h[4])>> IN
    /\ KindIn(g, block(h)) = "block" /\ g[block(h)].scope = h
    /\ KindIn(g, h) = "subprogram" /\ g[h].types = <<"types", h>>
    /\ KindIn(g, <<"types", h>>) = "tuple"
    /\ g[<<"types", h>>].items = <<basic("u32"), pointer(to[1]), pointer(to[2])>>
    /\ \A k \in {1, 2} : pointer(to[k]) \in DOMAIN g /\ g[pointer(to[k])] = PointerNode(to[k])

------------------------------------------------------------------------------
(* Paths as rustc types them. *)

\* The structs along a path, unfolded.
LEMMA DeclaredFollow ==
    ASSUME NEW root, NEW path, NEW n \in Nat, DOMAIN path = 1..n
    PROVE  LET struct == DeclaredIn(root, path) IN
           /\ DOMAIN struct = 1..n
           /\ \A k \in 1..n :
                 struct[k] = IF k = 1 THEN root
                             ELSE Fields[struct[k - 1]][FieldIndex(struct[k - 1], path[k - 1])].type
<1> DEFINE Rhs(g, k) == IF k = 1 THEN root
                        ELSE Fields[g[k - 1]][FieldIndex(g[k - 1], path[k - 1])].type
           Upto(m, g) == g = [k \in 1..m |-> Rhs(g, k)]
           T == {m \in Nat : \E g : Upto(m, g)}
<1>1. 0 \in T
  <2> DEFINE h == [k \in 1..0 |-> root]
  <2> HIDE DEF Rhs
  <2>1. Upto(0, h)
    OBVIOUS
  <2> HIDE DEF Upto
  <2> QED  BY <2>1
<1>2. \A m \in Nat : m \in T => m + 1 \in T
  <2> HIDE DEF Upto
  <2> SUFFICES ASSUME NEW m \in Nat, NEW g, Upto(m, g) PROVE \E h : Upto(m + 1, h)
    OBVIOUS
  <2> HIDE DEF Rhs
  <2> DEFINE h == [k \in 1..(m + 1) |-> IF k = m + 1 THEN Rhs(g, m + 1) ELSE g[k]]
  <2>1. h[m + 1] = Rhs(g, m + 1) /\ \A k \in 1..m : h[k] = g[k]
    OBVIOUS
  <2>2. \A k \in 1..m : g[k] = Rhs(g, k)
    BY DEF Upto
  <2>3. ASSUME NEW k \in 1..(m + 1) PROVE Rhs(h, k) = Rhs(g, k)
    <3>1. CASE k = 1
      BY <3>1 DEF Rhs
    <3>2. CASE k \in 2..(m + 1)
      <4>1. k # 1 /\ k - 1 \in 1..m
        BY <3>2
      <4>2. h[k - 1] = g[k - 1]
        BY <2>1, <4>1
      <4> HIDE DEF h
      <4> QED  BY <4>1, <4>2 DEF Rhs
    <3> QED  BY <3>1, <3>2
  <2>4. \A k \in 1..(m + 1) : h[k] = Rhs(h, k)
    <3> HIDE DEF h
    <3>1. \A k \in 1..(m + 1) : k = m + 1 \/ k \in 1..m
      OBVIOUS
    <3> QED  BY <2>1, <2>2, <2>3, <3>1
  <2>5. Upto(m + 1, h)
    BY <2>4 DEF Upto
  <2> QED  BY <2>5
<1>3. PICK some : Upto(n, some)
  <2> HIDE DEF Upto
  <2>1. n \in T
    <3> HIDE DEF T
    <3> QED  BY <1>1, <1>2, Counting
  <2> QED  BY <2>1
<1> DEFINE Is(g) == g = [k \in DOMAIN path |-> Rhs(g, k)]
           struct == DeclaredIn(root, path)
<1>4. Is(struct)
  <2>1. Is(some)
    <3> HIDE DEF Rhs
    <3> QED  BY <1>3
  <2> QED  BY <2>1 DEF DeclaredIn
<1> HIDE DEF struct, Rhs
<1>5. DOMAIN struct = 1..n /\ \A k \in 1..n : struct[k] = Rhs(struct, k)
  BY <1>4
<1> QED  BY <1>5 DEF struct, Rhs

\* Those in front of a field are those of the path that ends there.
LEMMA DeclaredPrefix ==
    ASSUME NEW root, NEW path, NEW n \in Nat, DOMAIN path = 1..n, NEW l \in 1..n,
           NEW q, DOMAIN q = 1..l, \A k \in 1..l : q[k] = path[k]
    PROVE  \A k \in 1..l : DeclaredIn(root, q)[k] = DeclaredIn(root, path)[k]
<1> DEFINE a == DeclaredIn(root, q)
           b == DeclaredIn(root, path)
           T == {k \in Nat : k \in 1..l => a[k] = b[k]}
<1>1. \A k \in 1..l : a[k] = IF k = 1 THEN root
                             ELSE Fields[a[k - 1]][FieldIndex(a[k - 1], q[k - 1])].type
  BY DeclaredFollow
<1>2. \A k \in 1..n : b[k] = IF k = 1 THEN root
                             ELSE Fields[b[k - 1]][FieldIndex(b[k - 1], path[k - 1])].type
  BY DeclaredFollow
<1> HIDE DEF a, b
<1>3. 0 \in T
  OBVIOUS
<1>4. ASSUME NEW k \in Nat, k \in T PROVE k + 1 \in T
  <2> SUFFICES ASSUME k + 1 \in 1..l PROVE a[k + 1] = b[k + 1]
    OBVIOUS
  <2>1. CASE k = 0
    BY <1>1, <1>2, <2>1
  <2>2. CASE k # 0
    <3>1. k \in 1..l /\ k + 1 \in 1..n /\ k + 1 # 1 /\ (k + 1) - 1 = k
      BY <2>2
    <3>2. a[k] = b[k] /\ q[k] = path[k]
      BY <1>4, <3>1
    <3>3. a[k + 1] = Fields[a[k]][FieldIndex(a[k], q[k])].type
      BY <1>1, <3>1
    <3>4. b[k + 1] = Fields[b[k]][FieldIndex(b[k], path[k])].type
      BY <1>2, <3>1
    <3> QED  BY <3>2, <3>3, <3>4
  <2> QED  BY <2>1, <2>2
<1>5. \A k \in Nat : k \in T
  <2> HIDE DEF T
  <2> QED  BY <1>3, <1>4, Counting
<1> QED  BY <1>5 DEF a, b

LEMMA MinOfSome ==
    ASSUME NEW S \in SUBSET Nat, S # {}
    PROVE  Min(S) \in S
<1>1. PICK x \in S : \A y \in S : ~(<<y, x>> \in OpToRel(<, Nat))
  BY WFMin, NatLessThanWellFounded, Zenon
<1>2. ASSUME NEW y \in S PROVE x <= y
  <2>1. ASSUME y < x PROVE FALSE
    <3>1. <<y, x>> \in OpToRel(<, Nat)
      BY <2>1 DEF OpToRel
    <3> QED  BY <1>1, <3>1
  <2> QED  BY <2>1
<1> QED  BY <1>2 DEF Min

LEMMA FieldFound ==
    ASSUME NEW s \in Structs, NEW name, FieldIndex(s, name) # 0
    PROVE  FieldIndex(s, name) \in DOMAIN Fields[s] /\ Fields[s][FieldIndex(s, name)].name = name
<1> DEFINE I == {i \in 1..Len(Fields[s]) : Fields[s][i].name = name}
<1>1. FieldIndex(s, name) = IF I # {} THEN Min(I) ELSE 0
  BY DEF FieldIndex, SelectInSeq
<1>2. I \in SUBSET Nat
  OBVIOUS
<1>3. I # {} => Min(I) \in I
  <2> HIDE DEF I
  <2> QED  BY <1>2, MinOfSome
<1>4. FieldIndex(s, name) \in I
  <2> HIDE DEF I
  <2> QED  BY <1>1, <1>3
<1>5. DOMAIN Fields[s] = 1..Len(Fields[s])
  BY LayoutAssumption
<1> QED  BY <1>4, <1>5

\* A path of n fields: in which structs they are, and at which place.
Typed(root, path, n) ==
    LET struct == DeclaredIn(root, path)
        index(k) == FieldIndex(struct[k], path[k]) IN
    /\ n \in Nat \ {0} /\ Len(path) = n /\ DOMAIN path = 1..n /\ path \in Seq(Range(path))
    /\ DOMAIN struct = 1..n /\ struct[1] = root
    /\ \A k \in 1..n :
          /\ struct[k] \in Structs
          /\ index(k) # 0 /\ index(k) \in DOMAIN Fields[struct[k]]
          /\ Fields[struct[k]][index(k)].name = path[k]
          /\ k < n => Fields[struct[k]][index(k)].type = struct[k + 1]

LEMMA AccessTyped ==
    ASSUME NEW a, WellTyped(a)
    PROVE  Typed(a.root, a.path, Len(a.path)) /\ a.root \in Structs
<1> DEFINE path == a.path
           n == Len(path)
           struct == DeclaredIn(a.root, path)
<1>1. /\ n \in Nat \ {0} /\ DOMAIN path = 1..n /\ path \in Seq(Range(path))
  BY DEF WellTyped
<1>2. \A k \in 1..n : struct[k] \in Structs /\ FieldIndex(struct[k], path[k]) # 0
  BY <1>1 DEF WellTyped
<1>3. /\ DOMAIN struct = 1..n
      /\ \A k \in 1..n :
            struct[k] = IF k = 1 THEN a.root
                        ELSE Fields[struct[k - 1]][FieldIndex(struct[k - 1], path[k - 1])].type
  <2> HIDE DEF path, n
  <2> QED  BY <1>1, DeclaredFollow
<1> HIDE DEF struct, n, path
<1>4. ASSUME NEW k \in 1..n
      PROVE  /\ FieldIndex(struct[k], path[k]) \in DOMAIN Fields[struct[k]]
             /\ Fields[struct[k]][FieldIndex(struct[k], path[k])].name = path[k]
  BY <1>2, FieldFound
<1>5. ASSUME NEW k \in 1..n, k < n
      PROVE  Fields[struct[k]][FieldIndex(struct[k], path[k])].type = struct[k + 1]
  <2>1. k + 1 \in 1..n /\ k + 1 # 1 /\ (k + 1) - 1 = k
    BY <1>1, <1>5
  <2> QED  BY <1>3, <2>1
<1>6. struct[1] = a.root
  BY <1>1, <1>3
<1>7. a.root \in Structs
  BY DEF WellTyped
<1>8. Typed(a.root, path, n)
  BY <1>1, <1>2, <1>3, <1>4, <1>5, <1>6 DEF Typed, struct
<1> QED  BY <1>7, <1>8 DEF path, n

------------------------------------------------------------------------------
(* The names along a path type, read back. *)

\* The part of a path with l fields.
LEMMA Prefix ==
    ASSUME NEW root, NEW path, NEW n, Typed(root, path, n), NEW l \in 1..n
    PROVE  LET q == SubSeq(path, 1, l) IN
           /\ Len(q) = l /\ DOMAIN q = 1..l /\ q # <<>> /\ Last(q) = path[l]
           /\ \A k \in 1..l : q[k] = path[k]
           /\ Front(q) = SubSeq(path, 1, l - 1)
<1> DEFINE q == SubSeq(path, 1, l)
<1>1. /\ n \in Nat /\ Len(path) = n /\ path \in Seq(Range(path)) /\ l \in Nat /\ l >= 1 /\ l <= n
  BY DEF Typed
<1>2. /\ Len(q) = l /\ DOMAIN q = 1..l /\ q \in Seq(Range(path))
      /\ \A k \in 1..l : q[k] = path[k]
  BY <1>1
<1>3. q # <<>> /\ Last(q) = path[l]
  BY <1>1, <1>2 DEF Last
<1>4. Front(q) = SubSeq(path, 1, l - 1)
  <2>1. /\ Front(q) \in Seq(Range(path)) /\ Len(Front(q)) = l - 1
        /\ \A k \in 1..(l - 1) : Front(q)[k] = q[k]
    <3> HIDE DEF q
    <3> QED  BY <1>1, <1>2 DEF Front
  <2>2. /\ SubSeq(path, 1, l - 1) \in Seq(Range(path)) /\ Len(SubSeq(path, 1, l - 1)) = l - 1
        /\ \A k \in 1..(l - 1) : SubSeq(path, 1, l - 1)[k] = path[k]
    BY <1>1
  <2>3. \A k \in 1..(l - 1) : k \in 1..l
    BY <1>1
  <2> DEFINE f == Front(q)
             g == SubSeq(path, 1, l - 1)
  <2> HIDE DEF f, g
  <2>4. f \in Seq(Range(path)) /\ g \in Seq(Range(path)) /\ Len(f) = Len(g)
    BY <2>1, <2>2 DEF f, g
  <2>5. \A k \in 1..Len(f) : f[k] = g[k]
    BY <1>2, <2>1, <2>2, <2>3 DEF f, g
  <2>6. f = g
    BY <2>4, <2>5
  <2> QED  BY <2>6 DEF f, g
<1> QED  BY <1>2, <1>3, <1>4

\* The id of a path type of at least one field.
LEMMA LongPathId ==
    ASSUME NEW root, NEW path, path # <<>>
    PROVE  PathId(root, path) = <<"FieldPath", root, path>> /\ PathId(root, path) # null
BY DEF PathId, null

\* A marker has the name of its field.
LEMMA MarkerName ==
    ASSUME NEW s \in Structs, NEW k \in DOMAIN Fields[s], HasStruct(md, marker(s, k), MarkerFields(s, k))
    PROVE  MarkedField(marker(s, k)) = Fields[s][k].name
<1> DEFINE c == marker(s, k)
           fields == MarkerFields(s, k)
           I == {i \in 1..Len(elements(c)) :
                    Kind(elements(c)[i]) = "derived" /\ md[elements(c)[i]].name # Unnamed}
<1>1. DOMAIN fields = 1..1 /\ fields[1].name = Fields[s][k].name
  BY DEF MarkerFields
<1>2. Fields[s][k].name # Unnamed
  BY LayoutAssumption DEF Range
<1> HIDE DEF fields
<1>3. ReadsAs(c, 1, fields)
  <2> HIDE DEF c
  <2>1. HasStruct(md, c, fields)
    BY DEF c, fields
  <2> QED  BY <1>1, <2>1, StructRead
<1>4. Len(elements(c)) = 1 /\ Kind(elements(c)[1]) = "derived" /\ md[elements(c)[1]].name = fields[1].name
  BY <1>3 DEF ReadsAs
<1> HIDE DEF c
<1>5. I = {1}
  BY <1>1, <1>2, <1>4
<1>6. I \in SUBSET Nat /\ I # {}
  BY <1>5
<1>7. Min(I) = 1
  <2> HIDE DEF I
  <2> QED  BY <1>5, <1>6, MinOfSome
<1>8. SelectInSeq(elements(c), LAMBDA e : Kind(e) = "derived" /\ md[e].name # Unnamed) = 1
  BY <1>6, <1>7 DEF SelectInSeq
<1> QED  BY <1>1, <1>4, <1>8 DEF MarkedField, c

\* What the pass reads of the type of a part of a path.
LEMMA PathNode ==
    ASSUME Leads(md), Markers(md), NEW root, NEW path, NEW n, Typed(root, path, n),
           PathTypes(md, root, path), NEW l \in 1..n
    PROVE  LET c == PathId(root, SubSeq(path, 1, l)) IN
           /\ c # null /\ IsFieldPath(c)
           /\ TypeOfMember(c, "parent") = PathId(root, SubSeq(path, 1, l - 1))
           /\ TypeOfMember(c, "field") # null
           /\ MarkedField(TypeOfMember(c, "field")) = path[l]
<1> DEFINE q == SubSeq(path, 1, l)
           c == PathId(root, q)
           s == DeclaredIn(root, path)[l]
           i == FieldIndex(s, path[l])
           parent == PathId(root, SubSeq(path, 1, l - 1))
           fields == PathFields(root, q)
<1>1. /\ Len(q) = l /\ DOMAIN q = 1..l /\ q # <<>> /\ Last(q) = path[l]
      /\ \A k \in 1..l : q[k] = path[k]
      /\ Front(q) = SubSeq(path, 1, l - 1)
  <2> HIDE DEF q
  <2> QED  BY Prefix DEF q
<1>2. n \in Nat /\ Len(path) = n /\ DOMAIN path = 1..n /\ l \in Nat \ {0}
  BY DEF Typed
<1>3. /\ s \in Structs /\ i \in DOMAIN Fields[s]
      /\ Fields[s][i].name = path[l]
  BY DEF Typed
<1>4. DeclaredIn(root, q)[l] = s
  <2> HIDE DEF q, s
  <2>1. \A k \in 1..l : DeclaredIn(root, q)[k] = DeclaredIn(root, path)[k]
    BY <1>1, <1>2, DeclaredPrefix
  <2> QED  BY <1>2, <2>1 DEF s
<1>5. HasStruct(md, c, fields)
  BY <1>2 DEF PathTypes
<1>6. /\ DOMAIN fields = 1..2
      /\ fields[1].name = "parent" /\ fields[1].type = parent
      /\ fields[2].name = "field" /\ fields[2].type = marker(s, i)
  <2>1. fields = <<[name |-> "parent", type |-> PathId(root, Front(q)), offset |-> 0],
                   [name |-> "field", type |-> marker(DeclaredIn(root, q)[Len(q)],
                        FieldIndex(DeclaredIn(root, q)[Len(q)], Last(q))), offset |-> 1]>>
    <3> HIDE DEF q
    <3> QED  BY DEF PathFields
  <2>2. parent = PathId(root, Front(q)) /\ DeclaredIn(root, q)[Len(q)] = s
    <3> HIDE DEF q, s
    <3> QED  BY <1>1, <1>4
  <2>3. marker(DeclaredIn(root, q)[Len(q)], FieldIndex(DeclaredIn(root, q)[Len(q)], Last(q))) = marker(s, i)
    <3> HIDE DEF q, s
    <3> QED  BY <1>1, <2>2
  <2> HIDE DEF fields, parent, q, s, i
  <2> QED  BY <2>1, <2>2, <2>3
<1>7. c # null
  <2> HIDE DEF q
  <2> QED  BY <1>1, LongPathId
<1>8. Kind(parent) = "composite" /\ parent \in DOMAIN md
  <2>1. CASE l = 1
    <3>1. SubSeq(path, 1, l - 1) = <<>>
      BY <2>1
    <3>2. parent = <<"RootPath">>
      BY <3>1 DEF PathId
    <3> QED  BY <3>2 DEF PathTypes, HasStruct, Kind, KindIn
  <2>2. CASE l # 1
    <3>1. l - 1 \in 1..Len(path)
      BY <1>2, <2>2
    <3>2. HasStruct(md, parent, PathFields(root, SubSeq(path, 1, l - 1)))
      BY <3>1 DEF PathTypes
    <3> HIDE DEF parent
    <3> QED  BY <3>2 DEF HasStruct, Kind, KindIn
  <2> QED  BY <2>1, <2>2
<1>9. HasStruct(md, marker(s, i), MarkerFields(s, i))
  BY <1>3 DEF Markers
<1>10. Kind(marker(s, i)) = "composite" /\ marker(s, i) \in DOMAIN md /\ marker(s, i) # null
  BY <1>9 DEF HasStruct, Kind, KindIn, marker, null
<1> HIDE DEF fields, c, q, s, i, parent
<1>11. ReadsAs(c, 2, fields)
  BY <1>5, <1>6, StructRead
<1>12. /\ base_type(<<"member", c, 1>>) = parent
       /\ base_type(<<"member", c, 2>>) = marker(s, i)
  BY <1>6, <1>11 DEF ReadsAs
<1>13. MemberCalled(c, "parent") = <<"member", c, 1>>
  <2>1. OnlyOne(fields, 2, "parent", 1)
    BY <1>6 DEF OnlyOne
  <2> QED  BY <1>5, <1>6, <2>1, OneCalled
<1>14. MemberCalled(c, "field") = <<"member", c, 2>>
  <2>1. OnlyOne(fields, 2, "field", 2)
    BY <1>6 DEF OnlyOne
  <2> QED  BY <1>5, <1>6, <2>1, OneCalled
<1>15. <<"member", c, 1>> # null /\ <<"member", c, 2>> # null
  BY DEF null
<1>16. IsFieldPath(c)
  BY <1>13, <1>14, <1>15 DEF IsFieldPath
<1>17. TypeOfMember(c, "parent") = parent
  <2>1. UnderlyingComposite(parent) = parent
    BY <1>8, Underlying
  <2> QED  BY <1>7, <1>12, <1>13, <1>15, <2>1 DEF TypeOfMember
<1>18. TypeOfMember(c, "field") = marker(s, i)
  <2>1. UnderlyingComposite(marker(s, i)) = marker(s, i)
    BY <1>10, Underlying
  <2> QED  BY <1>7, <1>12, <1>14, <1>15, <2>1 DEF TypeOfMember
<1>19. MarkedField(marker(s, i)) = path[l]
  BY <1>3, <1>9, MarkerName
<1> QED  BY <1>7, <1>10, <1>16, <1>17, <1>18, <1>19 DEF c, parent, q

\* The root of a path has no parent.
LEMMA RootNode ==
    ASSUME HasStruct(md, <<"RootPath">>, RootFields)
    PROVE  ~IsFieldPath(<<"RootPath">>) /\ TypeOfMember(<<"RootPath">>, "parent") = null
<1>1. DOMAIN RootFields = 1..1 /\ RootFields[1].name = "_private"
  BY DEF RootFields
<1>2. MemberCalled(<<"RootPath">>, "parent") = null
  <2>1. NotOne(RootFields, 1, "parent")
    BY <1>1 DEF NotOne
  <2> QED  BY <1>1, <2>1, NoneCalled
<1> QED  BY <1>2 DEF IsFieldPath, TypeOfMember

\* A part of a path, and the field behind it.
LEMMA OneMore ==
    ASSUME NEW root, NEW path, NEW n, Typed(root, path, n), NEW l \in 1..n
    PROVE  Append(SubSeq(path, 1, l - 1), path[l]) = SubSeq(path, 1, l)
<1> DEFINE S == Range(path)
           f == Append(SubSeq(path, 1, l - 1), path[l])
           g == SubSeq(path, 1, l)
<1>1. /\ n \in Nat /\ Len(path) = n /\ DOMAIN path = 1..n /\ path \in Seq(S)
      /\ l \in Nat /\ l >= 1 /\ l <= n
  BY DEF Typed
<1>2. path[l] \in S
  BY <1>1 DEF Range
<1> HIDE DEF S
<1>3. /\ SubSeq(path, 1, l - 1) \in Seq(S) /\ Len(SubSeq(path, 1, l - 1)) = l - 1
      /\ \A k \in 1..(l - 1) : SubSeq(path, 1, l - 1)[k] = path[k]
  BY <1>1
<1>4. /\ f \in Seq(S) /\ Len(f) = l /\ f[l] = path[l]
      /\ \A k \in 1..(l - 1) : f[k] = path[k]
  <2> DEFINE e == SubSeq(path, 1, l - 1)
  <2> HIDE DEF e
  <2>1. /\ Append(e, path[l]) \in Seq(S) /\ Len(Append(e, path[l])) = l
        /\ Append(e, path[l])[l] = path[l]
        /\ \A k \in 1..(l - 1) : Append(e, path[l])[k] = path[k]
    BY <1>1, <1>2, <1>3 DEF e
  <2> QED  BY <2>1 DEF e
<1>5. /\ g \in Seq(S) /\ Len(g) = l
      /\ \A k \in 1..l : g[k] = path[k]
  BY <1>1
<1> HIDE DEF f, g
<1>6. \A k \in 1..l : f[k] = g[k]
  <2>1. \A k \in 1..l : k = l \/ k \in 1..(l - 1)
    BY <1>1
  <2> QED  BY <1>1, <1>4, <1>5, <2>1
<1>7. f = g
  BY <1>4, <1>5, <1>6
<1> QED  BY <1>7 DEF f, g

\* The walk from the last field to the root gives the names of the path, first to last.
LEMMA PathNames ==
    ASSUME Leads(md), Markers(md), NEW root, NEW path, NEW n, Typed(root, path, n),
           PathTypes(md, root, path)
    PROVE  FieldNames(PathId(root, path)) = path
<1> DEFINE t == PathId(root, path)
           part(l) == SubSeq(path, 1, l)
           type(l) == PathId(root, part(l))
           RhsN(g, k) == IF k = 0 THEN UnderlyingComposite(t) ELSE TypeOfMember(g[k - 1], "parent")
           IsN(g) == g = [k \in Nat |-> RhsN(g, k)]
           h == [k \in Nat |-> IF k <= n THEN type(n - k) ELSE null]
<1>1. n \in Nat \ {0} /\ Len(path) = n /\ path \in Seq(Range(path))
  BY DEF Typed
<1>2. part(n) = path /\ part(0) = <<>>
  BY <1>1
<1>3. type(n) = t /\ type(0) = <<"RootPath">>
  BY <1>2 DEF PathId
<1>4. ASSUME NEW l \in 1..n
      PROVE  /\ type(l) # null /\ IsFieldPath(type(l))
             /\ TypeOfMember(type(l), "parent") = type(l - 1)
             /\ TypeOfMember(type(l), "field") # null
             /\ MarkedField(TypeOfMember(type(l), "field")) = path[l]
  BY PathNode
<1>5. /\ type(0) # null /\ ~IsFieldPath(type(0))
      /\ TypeOfMember(type(0), "parent") = null
  <2>1. HasStruct(md, <<"RootPath">>, RootFields)
    BY DEF PathTypes
  <2> QED  BY <1>3, <2>1, RootNode DEF null
<1>6. UnderlyingComposite(t) = type(n)
  <2>1. HasStruct(md, type(n), PathFields(root, part(n)))
    BY <1>1 DEF PathTypes
  <2> HIDE DEF type
  <2>2. Kind(type(n)) = "composite" /\ type(n) \in DOMAIN md
    BY <2>1 DEF HasStruct, Kind, KindIn
  <2> QED  BY <1>3, <2>2, Underlying
<1>7. TypeOfMember(null, "parent") = null
  BY DEF TypeOfMember
<1> HIDE DEF type, part, t
<1>8. ASSUME NEW k \in Nat PROVE h[k] = RhsN(h, k)
  <2>1. CASE k = 0
    <3>1. h[0] = type(n)
      BY <1>1
    <3> HIDE DEF h
    <3> QED  BY <1>6, <2>1, <3>1
  <2>2. CASE k \in 1..n
    <3>1. h[k] = type(n - k) /\ h[k - 1] = type(n - (k - 1)) /\ k # 0
      BY <1>1, <2>2
    <3>2. n - (k - 1) \in 1..n /\ (n - (k - 1)) - 1 = n - k
      BY <1>1, <2>2
    <3>3. TypeOfMember(type(n - (k - 1)), "parent") = type(n - k)
      BY <1>4, <3>2
    <3> HIDE DEF h
    <3> QED  BY <3>1, <3>3
  <2>3. CASE k = n + 1
    <3>1. h[k] = null /\ h[k - 1] = type(0) /\ k # 0
      BY <1>1, <2>3
    <3> HIDE DEF h
    <3> QED  BY <1>5, <3>1
  <2>4. CASE k > n + 1
    <3>1. h[k] = null /\ h[k - 1] = null /\ k # 0
      BY <1>1, <2>4
    <3> HIDE DEF h
    <3> QED  BY <1>7, <3>1
  <2> QED  BY <1>1, <2>1, <2>2, <2>3, <2>4
<1>9. IsN(h)
  <2>1. h = [k \in Nat |-> h[k]]
    OBVIOUS
  <2> HIDE DEF h, RhsN
  <2> QED  BY <1>8, <2>1
<1> DEFINE node == CHOOSE g : IsN(g)
<1>10. IsN(node)
  <2> HIDE DEF IsN
  <2> QED  BY <1>9
<1>11. \A k \in Nat : node[k] = h[k]
  <2> DEFINE T == {k \in Nat : node[k] = h[k]}
  <2>1. \A k \in Nat : node[k] = RhsN(node, k)
    <3> HIDE DEF node, RhsN
    <3> QED  BY <1>10
  <2> HIDE DEF node, h
  <2>2. 0 \in T
    BY <1>8, <2>1
  <2>3. ASSUME NEW k \in Nat, k \in T PROVE k + 1 \in T
    <3>1. k + 1 \in Nat /\ k + 1 # 0 /\ (k + 1) - 1 = k
      OBVIOUS
    <3>2. h[k + 1] = RhsN(h, k + 1) /\ node[k + 1] = RhsN(node, k + 1)
      BY <1>8, <2>1, <3>1
    <3>3. RhsN(h, k + 1) = TypeOfMember(h[k], "parent")
      BY <3>1
    <3>4. RhsN(node, k + 1) = TypeOfMember(node[k], "parent")
      BY <3>1
    <3> QED  BY <2>3, <3>1, <3>2, <3>3, <3>4
  <2>4. \A k \in Nat : k \in T
    <3> HIDE DEF T
    <3> QED  BY <2>2, <2>3, Counting
  <2> QED  BY <2>4
<1>12. \A l \in 0..n : node[n - l] = type(l)
  <2>1. ASSUME NEW l \in 0..n PROVE n - l \in Nat /\ h[n - l] = type(l)
    <3>1. n - l \in Nat /\ n - l <= n /\ n - (n - l) = l
      BY <1>1
    <3> QED  BY <3>1
  <2> HIDE DEF node, h
  <2> QED  BY <1>11, <2>1
<1>13. \A k \in Nat : k > n => node[k] = null
  <2>1. \A k \in Nat : k > n => h[k] = null
    BY <1>1
  <2> HIDE DEF node, h
  <2> QED  BY <1>11, <2>1
<1> DEFINE name(c) == IF TypeOfMember(c, "field") = null THEN Unnamed
                      ELSE MarkedField(TypeOfMember(c, "field"))
           RhsM(g, k) == IF node[k] = null THEN <<Unnamed>>
                         ELSE IF IsFieldPath(node[k]) THEN RootFirst(g[k + 1], name(node[k]))
                         ELSE <<>>
           IsM(g) == g = [k \in Nat |-> RhsM(g, k)]
           names == CHOOSE g : IsM(g)
           w == [k \in Nat |-> IF k <= n THEN part(n - k) ELSE <<Unnamed>>]
<1>14. FieldNames(t) = names[0]
  BY DEF FieldNames
<1> HIDE DEF node
<1>15. ASSUME NEW g, NEW l \in 1..n PROVE RhsM(g, n - l) = Append(g[n - (l - 1)], path[l])
  <2>1. node[n - l] = type(l) /\ (n - l) + 1 = n - (l - 1)
    BY <1>1, <1>12
  <2>2. name(type(l)) = path[l]
    BY <1>4
  <2>3. type(l) # null /\ IsFieldPath(type(l))
    BY <1>4
  <2> HIDE DEF name
  <2> QED  BY <2>1, <2>2, <2>3 DEF RootFirst
<1>16. ASSUME NEW g PROVE RhsM(g, n) = <<>>
  <2>1. node[n] = type(0)
    BY <1>1, <1>12
  <2> QED  BY <1>5, <2>1
<1>17. ASSUME NEW g, NEW k \in Nat, k > n PROVE RhsM(g, k) = <<Unnamed>>
  BY <1>13, <1>17
<1> HIDE DEF RhsM
<1>18. ASSUME NEW k \in Nat PROVE w[k] = RhsM(w, k)
  <2>1. CASE k < n
    <3>1. PICK l \in 1..n : k = n - l
      <4>1. n - k \in 1..n /\ k = n - (n - k)
        BY <1>1, <2>1
      <4> QED  BY <4>1
    <3>2. n - (l - 1) \in Nat /\ n - (l - 1) <= n /\ n - (n - (l - 1)) = l - 1 /\ n - (n - l) = l /\ n - l <= n
      BY <1>1
    <3>3. w[n - (l - 1)] = part(l - 1) /\ w[n - l] = part(l)
      BY <3>1, <3>2
    <3>4. Append(part(l - 1), path[l]) = part(l)
      BY OneMore DEF part
    <3> HIDE DEF w
    <3> QED  BY <1>15, <3>1, <3>3, <3>4
  <2>2. CASE k = n
    <3>1. w[n] = part(0)
      BY <1>1
    <3> QED  BY <1>2, <1>16, <2>2, <3>1
  <2>3. CASE k > n
    <3>1. w[k] = <<Unnamed>>
      BY <1>1, <2>3
    <3> QED  BY <1>17, <2>3, <3>1
  <2> QED  BY <1>1, <2>1, <2>2, <2>3
<1>19. IsM(w)
  <2>1. w = [k \in Nat |-> w[k]]
    OBVIOUS
  <2> HIDE DEF w
  <2> QED  BY <1>18, <2>1
<1>20. IsM(names)
  <2> HIDE DEF IsM
  <2> QED  BY <1>19
<1>21. \A k \in Nat : names[k] = RhsM(names, k)
  <2> HIDE DEF names
  <2> QED  BY <1>20
<1> HIDE DEF names
<1>22. \A l \in Nat : l <= n => names[n - l] = part(l)
  <2> DEFINE T == {l \in Nat : l <= n => names[n - l] = part(l)}
  <2>1. 0 \in T
    <3>1. names[n] = RhsM(names, n) /\ n - 0 = n
      BY <1>1, <1>21
    <3> QED  BY <1>2, <1>16, <3>1
  <2>2. ASSUME NEW l \in Nat, l \in T PROVE l + 1 \in T
    <3> SUFFICES ASSUME l + 1 <= n PROVE names[n - (l + 1)] = part(l + 1)
      OBVIOUS
    <3>1. n - (l + 1) \in Nat /\ l + 1 \in 1..n /\ (l + 1) - 1 = l /\ l <= n
      BY <1>1
    <3>2. names[n - (l + 1)] = RhsM(names, n - (l + 1))
      BY <1>21, <3>1
    <3>3. RhsM(names, n - (l + 1)) = Append(names[n - ((l + 1) - 1)], path[l + 1])
      BY <1>15, <3>1
    <3>4. names[n - l] = part(l)
      BY <2>2, <3>1
    <3>5. Append(part((l + 1) - 1), path[l + 1]) = part(l + 1)
      BY <3>1, OneMore DEF part
    <3> QED  BY <3>1, <3>2, <3>3, <3>4, <3>5
  <2> HIDE DEF T
  <2>3. \A l \in Nat : l \in T
    BY <2>1, <2>2, Counting
  <2> QED  BY <2>3 DEF T
<1>23. names[0] = path
  BY <1>1, <1>2, <1>22
<1> QED  BY <1>14, <1>23 DEF t

------------------------------------------------------------------------------
(* The accesses that lead from a carrier along a path. *)

LEMMA CarrierRead ==
    ASSUME Carriers(md), NEW s \in Structs
    PROVE  ReadsAs(carrier(s), Len(Fields[s]), CarrierFields(s)) /\ Len(Fields[s]) \in Nat
<1> DEFINE n == Len(Fields[s])
           fields == CarrierFields(s)
<1>1. n \in Nat /\ DOMAIN Fields[s] = 1..n
  BY LayoutAssumption
<1>2. DOMAIN fields = 1..n
  BY <1>1 DEF CarrierFields
<1>3. HasStruct(md, carrier(s), fields)
  BY DEF Carriers
<1> HIDE DEF n, fields
<1>4. ReadsAs(carrier(s), n, fields)
  BY <1>1, <1>2, <1>3, StructRead
<1> QED  BY <1>1, <1>4 DEF n, fields

\* The first member of a name is the field of that name.
LEMMA FirstCalled ==
    ASSUME Carriers(md), NEW s \in Structs, NEW name
    PROVE  SelectInSeq(elements(carrier(s)), LAMBDA e : Named(e, name)) = FieldIndex(s, name)
<1> DEFINE c == carrier(s)
           n == Len(Fields[s])
           I == {i \in 1..Len(elements(c)) : Named(elements(c)[i], name)}
           J == {i \in 1..Len(Fields[s]) : Fields[s][i].name = name}
<1>1. ReadsAs(c, n, CarrierFields(s)) /\ n \in Nat
  BY CarrierRead
<1>2. DOMAIN Fields[s] = 1..n
  BY LayoutAssumption
<1>3. \A i \in 1..n : CarrierFields(s)[i].name = Fields[s][i].name
  BY <1>2 DEF CarrierFields
<1> HIDE DEF c
<1>4. Len(elements(c)) = n
  BY <1>1 DEF ReadsAs
<1>5. ASSUME NEW i \in 1..n PROVE Named(elements(c)[i], name) <=> CarrierFields(s)[i].name = name
  <2> DEFINE member == <<"member", c, i>>
  <2>1. /\ elements(c)[i] = member
        /\ \A other : Named(member, other) <=> CarrierFields(s)[i].name = other
    BY <1>1 DEF ReadsAs
  <2> HIDE DEF member
  <2> QED  BY <2>1
<1>6. I = J
  BY <1>3, <1>4, <1>5
<1>7. SelectInSeq(elements(c), LAMBDA e : Named(e, name)) = IF I # {} THEN Min(I) ELSE 0
  BY DEF SelectInSeq
<1>8. FieldIndex(s, name) = IF J # {} THEN Min(J) ELSE 0
  BY DEF FieldIndex, SelectInSeq
<1> HIDE DEF I, J
<1> QED  BY <1>6, <1>7, <1>8 DEF c

\* The struct a field has for type is below its member.
LEMMA NextCarrier ==
    ASSUME Leads(md), Carriers(md), NEW s \in Structs, NEW i \in DOMAIN Fields[s],
           Fields[s][i].type \in Structs
    PROVE  LET member == elements(carrier(s))[i]
               c == carrier(Fields[s][i].type) IN
           UnderlyingComposite(base_type(member)) = c /\ UnderlyingComposite(member) = c
<1> DEFINE t == Fields[s][i].type
           c == carrier(t)
           member == elements(carrier(s))[i]
<1>1. ReadsAs(carrier(s), Len(Fields[s]), CarrierFields(s)) /\ i \in 1..Len(Fields[s])
  BY CarrierRead, LayoutAssumption
<1>2. CarrierFields(s)[i].type = TypeId(t)
  BY DEF CarrierFields
<1>3. TypeId(t) = c
  <2>1. t \in Structs /\ t \notin DOMAIN Pointers /\ t \notin DOMAIN Arrays
    BY LayoutAssumption
  <2> HIDE DEF t
  <2> QED  BY <2>1 DEF TypeId
<1>4. Kind(c) = "composite" /\ c \in DOMAIN md
  <2>1. HasStruct(md, c, CarrierFields(t))
    BY DEF Carriers
  <2> HIDE DEF c
  <2> QED  BY <2>1 DEF HasStruct, Kind, KindIn
<1>5. /\ member \in DOMAIN md /\ Kind(member) = "derived"
      /\ base_type(member) = CarrierFields(s)[i].type
  BY <1>1 DEF ReadsAs
<1> HIDE DEF t, c, member
<1>6. base_type(member) = c
  BY <1>2, <1>3, <1>5
<1>7. UnderlyingComposite(c) = c
  BY <1>4, Underlying
<1>8. UnderlyingComposite(member) = c
  BY <1>4, <1>5, <1>6, Underlying DEF base_type
<1> QED  BY <1>6, <1>7, <1>8 DEF t, c, member

\* The accesses along a path are those of its fields, each in the carrier of the struct
\* that declares it.
LEMMA PathSteps ==
    ASSUME Leads(md), Carriers(md), NEW root, NEW path, NEW n, Typed(root, path, n)
    PROVE  LET steps == StepsFrom(carrier(root), path)
               struct == DeclaredIn(root, path) IN
           /\ DOMAIN steps = 1..n /\ steps = [k \in 1..n |-> steps[k]]
           /\ \A k \in 1..n :
                 steps[k] = [type |-> carrier(struct[k]), index |-> FieldIndex(struct[k], path[k])]
<1> DEFINE struct == DeclaredIn(root, path)
           first(c, name) == SelectInSeq(elements(c), LAMBDA e : Named(e, name))
           step(c, name) == [type |-> c, index |-> IF c = null THEN 0 ELSE first(c, name)]
           below(s) == IF s.index = 0 THEN null
                       ELSE UnderlyingComposite(base_type(elements(s.type)[s.index]))
           Rhs(g, k) == IF k = 1 THEN step(carrier(root), path[1])
                        ELSE step(below(g[k - 1]), path[k])
           Is(g) == g = [k \in 1..Len(path) |-> Rhs(g, k)]
           at_(k) == [type |-> carrier(struct[k]), index |-> FieldIndex(struct[k], path[k])]
           w == [k \in 1..Len(path) |-> at_(k)]
           steps == CHOOSE g : Is(g)
<1>1. n \in Nat \ {0} /\ Len(path) = n /\ struct[1] = root
  BY DEF Typed
<1>2. ASSUME NEW k \in 1..n
      PROVE  /\ struct[k] \in Structs
             /\ FieldIndex(struct[k], path[k]) # 0
             /\ FieldIndex(struct[k], path[k]) \in DOMAIN Fields[struct[k]]
             /\ k < n => Fields[struct[k]][FieldIndex(struct[k], path[k])].type = struct[k + 1]
  BY DEF Typed
<1>3. StepsFrom(carrier(root), path) = [k \in 1..Len(path) |-> steps[k]]
  BY DEF StepsFrom
<1> HIDE DEF struct
<1>4. ASSUME NEW k \in 1..n PROVE step(carrier(struct[k]), path[k]) = at_(k)
  <2>1. carrier(struct[k]) # null
    BY DEF carrier, null
  <2>2. first(carrier(struct[k]), path[k]) = FieldIndex(struct[k], path[k])
    BY <1>2, FirstCalled
  <2> HIDE DEF first
  <2> QED  BY <2>1, <2>2
<1>5. ASSUME NEW k \in 1..n, k # n PROVE below(at_(k)) = carrier(struct[k + 1])
  <2> DEFINE s == struct[k]
             i == FieldIndex(struct[k], path[k])
  <2>1. k + 1 \in 1..n /\ k < n
    BY <1>1, <1>5
  <2>2. /\ s \in Structs /\ i # 0 /\ i \in DOMAIN Fields[s]
        /\ Fields[s][i].type = struct[k + 1] /\ struct[k + 1] \in Structs
    BY <1>2, <2>1
  <2> HIDE DEF s, i
  <2>3. UnderlyingComposite(base_type(elements(carrier(s))[i])) = carrier(struct[k + 1])
    BY <2>2, NextCarrier
  <2>4. at_(k).type = carrier(s) /\ at_(k).index = i
    BY DEF s, i
  <2> HIDE DEF at_
  <2> QED  BY <2>2, <2>3, <2>4
<1> HIDE DEF step, below, at_
<1>6. ASSUME NEW k \in 1..n PROVE w[k] = Rhs(w, k)
  <2>1. CASE k = 1
    BY <1>1, <1>4, <2>1
  <2>2. CASE k # 1
    <3>1. k - 1 \in 1..n /\ k - 1 # n /\ (k - 1) + 1 = k
      BY <1>1, <2>2
    <3>2. w[k] = at_(k) /\ w[k - 1] = at_(k - 1)
      BY <1>1, <3>1
    <3>3. below(at_(k - 1)) = carrier(struct[k])
      BY <1>5, <3>1
    <3> HIDE DEF w
    <3> QED  BY <1>4, <2>2, <3>2, <3>3
  <2> QED  BY <2>1, <2>2
<1>7. Is(w)
  <2>1. w = [k \in 1..Len(path) |-> w[k]]
    OBVIOUS
  <2> HIDE DEF w, Rhs
  <2> QED  BY <1>1, <1>6, <2>1
<1>8. Is(steps)
  <2> HIDE DEF Is
  <2> QED  BY <1>7
<1>9. \A k \in 1..n : steps[k] = Rhs(steps, k)
  <2> HIDE DEF steps, Rhs
  <2> QED  BY <1>1, <1>8
<1> HIDE DEF steps
<1>10. \A k \in 1..n : steps[k] = at_(k)
  <2> DEFINE T == {k \in Nat : k \in 1..n => steps[k] = at_(k)}
  <2>1. 0 \in T
    OBVIOUS
  <2>2. ASSUME NEW k \in Nat, k \in T PROVE k + 1 \in T
    <3> SUFFICES ASSUME k + 1 \in 1..n PROVE steps[k + 1] = at_(k + 1)
      OBVIOUS
    <3>1. CASE k = 0
      <4>1. steps[1] = at_(1)
        BY <1>1, <1>4, <1>9
      <4> QED  BY <3>1, <4>1
    <3>2. CASE k # 0
      <4>1. k \in 1..n /\ k # n /\ k + 1 # 1 /\ (k + 1) - 1 = k
        BY <1>1, <3>2
      <4>2. steps[k] = at_(k)
        BY <2>2, <4>1
      <4>3. steps[k + 1] = step(below(steps[k]), path[k + 1])
        BY <1>9, <4>1
      <4>4. below(at_(k)) = carrier(struct[k + 1])
        BY <1>5, <4>1
      <4> QED  BY <1>4, <4>2, <4>3, <4>4
    <3> QED  BY <3>1, <3>2
  <2> HIDE DEF T
  <2>3. \A k \in Nat : k \in T
    BY <2>1, <2>2, Counting
  <2> QED  BY <2>3 DEF T
<1> QED  BY <1>1, <1>3, <1>10 DEF at_, struct

------------------------------------------------------------------------------
(* What the pass makes of a call. *)

\* The function of an access has a pointer to the carrier, and one to the path type.
LEMMA HelperPointees ==
    ASSUME NEW h, HasHelper(md, h)
    PROVE  Pointee(h, 1) = carrier(h[3]) /\ Pointee(h, 2) = PathId(h[3], h[4])
<1> DEFINE p == pointer(carrier(h[3]))
           q == pointer(PathId(h[3], h[4]))
           u == basic("u32")
<1>1. parameter_types(h) = Tail(<<u, p, q>>)
  <2>1. Items(md[h].types) = <<u, p, q>>
    BY DEF HasHelper, Items, ItemsIn
  <2> HIDE DEF u, p, q
  <2> QED  BY <2>1 DEF parameter_types
<1>2. /\ p \in DOMAIN md /\ md[p] = PointerNode(carrier(h[3]))
      /\ q \in DOMAIN md /\ md[q] = PointerNode(PathId(h[3], h[4]))
  BY DEF HasHelper
<1>3. /\ Kind(p) = "derived" /\ md[p].tag = "pointer_type" /\ base_type(p) = carrier(h[3])
      /\ Kind(q) = "derived" /\ md[q].tag = "pointer_type" /\ base_type(q) = PathId(h[3], h[4])
  <2>1. ASSUME NEW i \in DOMAIN md, NEW to, md[i] = PointerNode(to)
        PROVE  Kind(i) = "derived" /\ md[i].tag = "pointer_type" /\ base_type(i) = to
    <3>1. /\ PointerNode(to).kind = "derived" /\ PointerNode(to).tag = "pointer_type"
          /\ PointerNode(to).base = to
      BY DEF PointerNode, Derived
    <3> QED  BY <2>1, <3>1 DEF Kind, KindIn, base_type
  <2> HIDE DEF p, q
  <2> QED  BY <1>2, <2>1
<1> HIDE DEF u, p, q
<1>4. Tail(<<u, p, q>>) = <<p, q>>
  OBVIOUS
<1>5. /\ 1 \in DOMAIN parameter_types(h) /\ parameter_types(h)[1] = p
      /\ 2 \in DOMAIN parameter_types(h) /\ parameter_types(h)[2] = q
  BY <1>1, <1>4
<1> QED  BY <1>3, <1>5 DEF Pointee

\* All that the lowering of an access looks at is as the macros and rustc made it.
Readable(g, callee, root, path) ==
    /\ root \in Structs /\ Typed(root, path, Len(path)) /\ PathTypes(g, root, path)
    /\ HasHelper(g, helper(callee, root, path))

\* It finds the accesses the source wrote.
LEMMA CallSteps ==
    ASSUME Leads(md), Carriers(md), Markers(md), NEW callee, NEW root, NEW path,
           Readable(md, callee, root, path),
           NEW c, c.nargs = 2, c.scope = block(helper(callee, root, path))
    PROVE  StepsOf(c) = StepsFrom(carrier(root), path) /\ Resolves(c)
<1> DEFINE h == helper(callee, root, path)
           n == Len(path)
<1>1. HasHelper(md, h) /\ Typed(root, path, n) /\ PathTypes(md, root, path) /\ root \in Structs
  BY DEF Readable
<1>2. h[3] = root /\ h[4] = path
  BY DEF helper
<1>3. h # null
  BY DEF helper, null
<1> HIDE DEF h
<1>4. HelperOf(c.scope) = h
  <2>1. Kind(block(h)) = "block" /\ md[block(h)].scope = h /\ Kind(h) = "subprogram"
    BY <1>1 DEF HasHelper, Kind
  <2>2. block(h) \in DOMAIN md
    BY <2>1 DEF Kind, KindIn
  <2>3. c.scope = block(h)
    BY DEF h
  <2> QED  BY <2>1, <2>2, <2>3, Around
<1>5. Pointee(h, 1) = carrier(root) /\ Pointee(h, 2) = PathId(root, path)
  BY <1>1, <1>2, HelperPointees
<1>6. FieldNames(PathId(root, path)) = path
  BY <1>1, PathNames
<1>7. Kind(carrier(root)) = "composite"
  <2>1. HasStruct(md, carrier(root), CarrierFields(root))
    BY <1>1 DEF Carriers
  <2> QED  BY <2>1 DEF HasStruct, Kind
<1> DEFINE struct == DeclaredIn(root, path)
<1>8. /\ n \in Nat \ {0} /\ DOMAIN path = 1..n
      /\ \A k \in 1..n :
            /\ struct[k] \in Structs
            /\ FieldIndex(struct[k], path[k]) # 0
            /\ FieldIndex(struct[k], path[k]) \in DOMAIN Fields[struct[k]]
            /\ Fields[struct[k]][FieldIndex(struct[k], path[k])].name = path[k]
  BY <1>1 DEF Typed
<1> HIDE DEF n, struct
<1>9. Unnamed \notin Range(path)
  <2> SUFFICES ASSUME NEW k \in 1..n PROVE path[k] # Unnamed
    BY <1>8 DEF Range
  <2>1. PICK i : i \in DOMAIN Fields[struct[k]] /\ Fields[struct[k]][i].name = path[k]
    BY <1>8
  <2>2. Fields[struct[k]][i] \in Range(Fields[struct[k]])
    BY <2>1 DEF Range
  <2> QED  BY <1>8, <2>1, <2>2, LayoutAssumption
<1>10. StepsOf(c) = StepsFrom(carrier(root), path)
  BY <1>3, <1>4, <1>5, <1>6, <1>7, <1>9 DEF StepsOf
<1> DEFINE steps == StepsFrom(carrier(root), path)
<1>11. /\ DOMAIN steps = 1..n
       /\ \A k \in 1..n : steps[k] = [type |-> carrier(struct[k]), index |-> FieldIndex(struct[k], path[k])]
  BY <1>1, PathSteps DEF n, struct
<1>12. Resolves(c)
  <2> HIDE DEF steps
  <2>1. 1 \in DOMAIN steps
    BY <1>8, <1>11
  <2>2. steps # <<>>
    BY <2>1
  <2>3. \A k \in DOMAIN steps : steps[k].index # 0
    BY <1>8, <1>11
  <2> QED  BY <1>10, <2>2, <2>3 DEF Resolves, steps
<1> QED  BY <1>10, <1>12

\* A call of a polyfill that is none of an access is not lowered.
LEMMA OtherFails ==
    ASSUME WellFormed(md), Leads(md), NEW c, IsPolyfill(c), Other(c, md)
    PROVE  ~Resolves(c)
<1>1. Kind(null) = "none"
  BY DEF WellFormed, Kind, KindIn
<1>2. CASE c.nargs # 2
  <2>1. StepsOf(c) = <<>>
    BY <1>2 DEF StepsOf
  <2> QED  BY <2>1 DEF Resolves
<1>3. CASE c.scope = null
  <2>1. HelperOf(c.scope) = null
    BY <1>1, <1>3, Around
  <2>2. StepsOf(c) = <<>>
    BY <2>1 DEF StepsOf
  <2> QED  BY <2>2 DEF Resolves
<1>4. CASE /\ KindIn(md, c.scope) = "subprogram"
           /\ LET types == ItemsIn(md, md[c.scope].types) IN
              2 \in DOMAIN types => KindIn(md, types[2]) # "derived"
  <2> DEFINE h == c.scope
             types == Items(md[h].types)
  <2>1. Kind(h) = "subprogram" /\ h \in DOMAIN md
    BY <1>4 DEF Kind, KindIn
  <2>2. HelperOf(h) = h
    BY <2>1, Around
  <2>3. 2 \in DOMAIN types => Kind(types[2]) # "derived"
    BY <1>4 DEF Kind, Items
  <2>4. \E m \in Nat : DOMAIN types = 1..m /\ types \in Seq(Range(types))
    <3>1. CASE Kind(md[h].types) = "tuple"
      <4>1. types = md[md[h].types].items /\ md[h].types \in DOMAIN md /\ md[md[h].types].kind = "tuple"
        BY <3>1 DEF Items, ItemsIn, Kind, KindIn
      <4>2. IsNode(md[md[h].types])
        BY <4>1 DEF WellFormed
      <4> HIDE DEF h, types
      <4>3. PICK node : node = md[md[h].types]
        OBVIOUS
      <4> QED  BY <4>1, <4>2, <4>3, TupleItems
    <3>2. CASE Kind(md[h].types) # "tuple"
      <4>1. types = <<>>
        BY <3>2 DEF Items, ItemsIn, Kind
      <4>2. DOMAIN <<>> = 1..0 /\ <<>> \in Seq(Range(<<>>)) /\ 0 \in Nat
        OBVIOUS
      <4> HIDE DEF types
      <4> QED  BY <4>1, <4>2
    <3> QED  BY <3>1, <3>2
  <2>5. parameter_types(h) = IF types = <<>> THEN <<>> ELSE Tail(types)
    BY DEF parameter_types
  <2> HIDE DEF types
  <2>6. 1 \in DOMAIN parameter_types(h) => 2 \in DOMAIN types /\ parameter_types(h)[1] = types[2]
    <3>1. CASE types = <<>>
      BY <2>5, <3>1
    <3>2. CASE types # <<>>
      BY <2>4, <2>5, <3>2
    <3> QED  BY <3>1, <3>2
  <2>7. Pointee(h, 1) = null
    BY <2>3, <2>6 DEF Pointee
  <2>8. StepsOf(c) = <<>>
    BY <1>1, <2>2, <2>7 DEF StepsOf
  <2> QED  BY <2>8 DEF Resolves
<1> QED  BY <1>2, <1>3, <1>4 DEF Other

------------------------------------------------------------------------------
(* The nodes the macros and rustc make. *)

\* The fields of a struct type, by its id.
FieldsOf(id) ==
    IF id[1] = "carrier" THEN CarrierFields(id[2])
    ELSE IF id[1] = "marker" THEN MarkerFields(id[2], id[3])
    ELSE IF id[1] = "RootPath" THEN RootFields
    ELSE PathFields(id[2], id[3])

\* What a node is, by its id.
Says(id, node) ==
    /\ id[1] = "carrier" => node.name = CarrierName(id[2])
    /\ id[1] = "elements" /\ id[2][1] \in Declared =>
          node = TupleNode([k \in DOMAIN FieldsOf(id[2]) |-> <<"member", id[2], k>>])
    /\ id[1] = "member" =>
          LET f == FieldsOf(id[2])[id[3]] IN node = Derived(f.name, "member", f.type, f.offset)
    /\ id[1] = "types" =>
          node = TupleNode(<<basic("u32"), pointer(carrier(id[2][3])), pointer(PathId(id[2][3], id[2][4]))>>)
    /\ id[1] = "pointer" /\ id[2][1] \in Declared => node = PointerNode(id[2])
    /\ id[1] = "block" => node = Block(id[2])

\* What it leads to is in D.
LeadsTo(node, D) ==
    /\ node.kind = "derived" => node.base \in D
    /\ node.kind = "block" => node.scope \in D

AllSay(f, D) == \A id \in DOMAIN f : Says(id, f[id]) /\ LeadsTo(f[id], D)

LEMMA SayUnion ==
    ASSUME NEW f, NEW g, NEW D, AllSay(f, D), AllSay(g, D)
    PROVE  AllSay(f ++ g, D)
BY DEF AllSay, ++

LEMMA StructSays ==
    ASSUME NEW id, id[1] \in Declared, NEW name, NEW fields, fields = FieldsOf(id),
           id[1] = "carrier" => name = CarrierName(id[2]),
           NEW D, \A k \in DOMAIN fields : fields[k].type \in D
    PROVE  AllSay(StructNodes(id, name, fields), D)
<1> DEFINE list == <<"elements", id>>
           member(k) == <<"member", id, k>>
           items == [k \in DOMAIN fields |-> member(k)]
           M == {member(k) : k \in DOMAIN fields}
           a == Node(id, Composite(name, "structure_type", list))
           b == Node(list, TupleNode(items))
           c == [m \in M |-> LET f == fields[m[3]] IN Derived(f.name, "member", f.type, f.offset)]
<1>1. StructNodes(id, name, fields) = (a ++ b) ++ c
  BY DEF StructNodes
<1>2. /\ DOMAIN a = {id} /\ a[id] = Composite(name, "structure_type", list)
      /\ DOMAIN b = {list} /\ b[list] = TupleNode(items) /\ DOMAIN c = M
  BY DEF Node
<1>3. AllSay(a, D)
  <2>1. a[id].name = name /\ a[id].kind = "composite"
    BY <1>2 DEF Composite
  <2> HIDE DEF a
  <2>2. Says(id, a[id])
    BY <2>1 DEF Says, Declared
  <2> QED  BY <1>2, <2>1, <2>2 DEF AllSay, LeadsTo
<1>4. AllSay(b, D)
  <2>1. list[1] = "elements" /\ list[2] = id
    OBVIOUS
  <2>2. b[list] = TupleNode([k \in DOMAIN FieldsOf(id) |-> <<"member", id, k>>]) /\ b[list].kind = "tuple"
    BY <1>2 DEF TupleNode
  <2> HIDE DEF b, list, items
  <2>3. Says(list, b[list])
    BY <2>1, <2>2 DEF Says
  <2>4. LeadsTo(b[list], D)
    BY <2>2 DEF LeadsTo
  <2> QED  BY <1>2, <2>3, <2>4 DEF AllSay
<1>5. AllSay(c, D)
  <2> SUFFICES ASSUME NEW m \in M PROVE Says(m, c[m]) /\ LeadsTo(c[m], D)
    BY <1>2 DEF AllSay
  <2>1. PICK k \in DOMAIN fields : m = member(k)
    OBVIOUS
  <2>2. m[1] = "member" /\ m[2] = id /\ m[3] = k
    BY <2>1
  <2>3. c[m] = Derived(fields[k].name, "member", fields[k].type, fields[k].offset)
    BY <2>2
  <2> HIDE DEF c, M, member
  <2>4. c[m].kind = "derived" /\ c[m].base = fields[k].type
    BY <2>3 DEF Derived
  <2>5. Says(m, c[m])
    BY <2>2, <2>3 DEF Says
  <2>6. LeadsTo(c[m], D)
    BY <2>4 DEF LeadsTo
  <2> QED  BY <2>5, <2>6
<1> HIDE DEF a, b, c
<1>6. AllSay(a ++ b, D)
  BY <1>3, <1>4, SayUnion
<1> QED  BY <1>1, <1>5, <1>6, SayUnion

\* The types of all fields are there.
TypesIn(D) == basic("u8") \in D /\ \A type \in Types : TypeId(type) \in D

LEMMA CarrierSays ==
    ASSUME NEW D, TypesIn(D), NEW s \in Structs
    PROVE  AllSay(CarrierNodes(s), D)
<1> DEFINE fields == CarrierFields(s)
           id == carrier(s)
<1>1. CarrierNodes(s) = StructNodes(id, CarrierName(s), fields)
  BY DEF CarrierNodes, CarrierFields
<1>2. ASSUME NEW k \in DOMAIN fields PROVE fields[k].type \in D
  <2>1. k \in DOMAIN Fields[s] /\ fields[k].type = TypeId(Fields[s][k].type)
    BY DEF CarrierFields
  <2>2. Fields[s][k] \in Range(Fields[s])
    BY <2>1 DEF Range
  <2>3. Fields[s][k].type \in Types
    BY <2>2, LayoutAssumption
  <2> QED  BY <2>1, <2>3 DEF TypesIn
<1>3. id[1] = "carrier" /\ id[2] = s
  BY DEF carrier
<1> HIDE DEF fields, id
<1>4. id[1] \in Declared /\ fields = FieldsOf(id) /\ CarrierName(s) = CarrierName(id[2])
  BY <1>3 DEF Declared, FieldsOf, fields
<1> QED  BY <1>1, <1>2, <1>4, StructSays

LEMMA MarkerSays ==
    ASSUME NEW D, TypesIn(D), NEW s, NEW k
    PROVE  AllSay(MarkerNodes(s, k), D)
<1> DEFINE fields == MarkerFields(s, k)
           id == marker(s, k)
<1>1. MarkerNodes(s, k) = StructNodes(id, "__BtfFieldFor", fields)
  BY DEF MarkerNodes, MarkerFields
<1>2. basic("u8") \in D
  BY DEF TypesIn
<1>3. \A i \in DOMAIN fields : fields[i].type \in D
  <2>1. DOMAIN fields = 1..1 /\ fields[1].type = basic("u8")
    BY DEF MarkerFields
  <2> HIDE DEF fields
  <2>2. ASSUME NEW i \in 1..1 PROVE fields[i].type \in D
    <3>1. i = 1
      OBVIOUS
    <3> QED  BY <1>2, <2>1, <3>1
  <2> QED  BY <2>1, <2>2
<1>4. id[1] = "marker" /\ id[2] = s /\ id[3] = k
  BY DEF marker
<1> HIDE DEF fields, id
<1>5. id[1] \in Declared /\ fields = FieldsOf(id) /\ id[1] # "carrier"
  BY <1>4 DEF Declared, FieldsOf, fields
<1> QED  BY <1>1, <1>3, <1>5, StructSays

LEMMA PathSays ==
    ASSUME NEW D, TypesIn(D), NEW root, NEW path,
           path # <<>> =>
               /\ PathId(root, Front(path)) \in D
               /\ LET s == DeclaredIn(root, path)[Len(path)] IN
                  marker(s, FieldIndex(s, Last(path))) \in D
    PROVE  AllSay(PathNodes(root, path), D)
<1> DEFINE id == PathId(root, path)
<1>1. CASE path = <<>>
  <2> DEFINE fields == RootFields
  <2>1. PathNodes(root, path) = StructNodes(id, "RootPath", fields)
    BY <1>1 DEF PathNodes, RootFields
  <2>2. \A i \in DOMAIN fields : fields[i].type \in D
    <3>1. DOMAIN fields = 1..1 /\ fields[1].type = basic("u8")
      BY DEF RootFields
    <3> HIDE DEF fields
    <3>2. ASSUME NEW i \in 1..1 PROVE fields[i].type \in D
      <4>1. i = 1
        OBVIOUS
      <4> QED  BY <3>1, <4>1 DEF TypesIn
    <3> QED  BY <3>1, <3>2
  <2>3. id[1] = "RootPath"
    BY <1>1 DEF PathId
  <2> HIDE DEF fields, id
  <2>4. id[1] \in Declared /\ fields = FieldsOf(id) /\ id[1] # "carrier"
    BY <2>3 DEF Declared, FieldsOf, fields
  <2> QED  BY <2>1, <2>2, <2>4, StructSays
<1>2. CASE path # <<>>
  <2> DEFINE fields == PathFields(root, path)
             s == DeclaredIn(root, path)[Len(path)]
             from == PathId(root, Front(path))
             field == marker(s, FieldIndex(s, Last(path)))
  <2>1. PathNodes(root, path) = StructNodes(id, "FieldPath<P, F>", fields)
    BY <1>2 DEF PathNodes, PathFields
  <2>2. /\ fields = <<[name |-> "parent", type |-> from, offset |-> 0],
                      [name |-> "field", type |-> field, offset |-> 1]>>
        /\ from \in D /\ field \in D
    BY <1>2 DEF PathFields
  <2>3. id[1] = "FieldPath" /\ id[2] = root /\ id[3] = path
    BY <1>2 DEF PathId
  <2> HIDE DEF fields, id, from, field
  <2>4. \A i \in DOMAIN fields : fields[i].type \in D
    <3>1. DOMAIN fields = 1..2 /\ fields[1].type = from /\ fields[2].type = field
      BY <2>2
    <3>2. ASSUME NEW i \in 1..2 PROVE fields[i].type \in D
      <4>1. i = 1 \/ i = 2
        OBVIOUS
      <4> QED  BY <2>2, <3>1, <4>1
    <3> QED  BY <3>1, <3>2
  <2>5. id[1] \in Declared /\ fields = FieldsOf(id) /\ id[1] # "carrier"
    BY <2>3 DEF Declared, FieldsOf, fields
  <2> QED  BY <2>1, <2>4, <2>5, StructSays
<1> QED  BY <1>1, <1>2

\* A graph of one node.
LEMMA OneSays ==
    ASSUME NEW D, NEW id, NEW node, Says(id, node), LeadsTo(node, D)
    PROVE  AllSay(Node(id, node), D)
BY DEF AllSay, Node

\* Its id says nothing of such a node.
Plain(id, node) ==
    /\ \/ id[1] \notin {"carrier", "elements", "member", "types", "pointer", "block"}
       \/ /\ id[1] = "elements"
          /\ id[2][1] \notin Declared
    /\ node.kind \notin {"derived", "block"}

LEMMA PlainSays ==
    ASSUME NEW D, NEW id, NEW node, Plain(id, node)
    PROVE  AllSay(Node(id, node), D)
<1>1. Says(id, node) /\ LeadsTo(node, D)
  BY DEF Plain, Says, LeadsTo
<1> QED  BY <1>1, OneSays

LEMMA TypeSays ==
    ASSUME NEW D, TypesIn(D), NEW type \in DOMAIN Pointers \union DOMAIN Arrays
    PROVE  AllSay(TypeNodes(type), D)
<1>1. CASE type \in DOMAIN Pointers
  <2> DEFINE id == TypeId(type)
             to == TypeId(Pointers[type])
             node == PointerNode(to)
  <2>1. TypeNodes(type) = Node(id, node)
    BY <1>1 DEF TypeNodes
  <2>2. id = pointer(<<"type", type>>)
    BY <1>1, LayoutAssumption DEF TypeId
  <2>3. id[1] = "pointer" /\ id[2][1] \notin Declared
    BY <2>2 DEF pointer, Declared
  <2>4. node.kind = "derived" /\ node.base = to
    BY DEF PointerNode, Derived
  <2>5. to \in D
    BY <1>1, LayoutAssumption DEF TypesIn
  <2> HIDE DEF id, to, node
  <2>6. Says(id, node)
    BY <2>3 DEF Says
  <2>7. LeadsTo(node, D)
    BY <2>4, <2>5 DEF LeadsTo
  <2> QED  BY <2>1, <2>6, <2>7, OneSays
<1>2. CASE type \notin DOMAIN Pointers
  <2> DEFINE range == <<"subrange", type>>
             list == <<"elements", array(type)>>
             a == Composite(Unnamed, "array_type", list)
             b == TupleNode(<<range>>)
  <2>1. TypeNodes(type) = (Node(array(type), a) ++ Node(list, b)) ++ Node(range, Subrange)
    BY <1>2 DEF TypeNodes
  <2>2. /\ array(type)[1] = "array" /\ a.kind = "composite"
        /\ list[1] = "elements" /\ list[2][1] \notin Declared /\ b.kind = "tuple"
        /\ range[1] = "subrange" /\ Subrange.kind = "subrange"
    BY DEF array, Composite, TupleNode, Subrange, Declared
  <2> DEFINE i == array(type)
  <2> HIDE DEF a, b, list, range, i
  <2>3. AllSay(Node(i, a), D) /\ AllSay(Node(list, b), D) /\ AllSay(Node(range, Subrange), D)
    <3>1. AllSay(Node(i, a), D)
      BY <2>2, PlainSays DEF Plain, i
    <3>2. AllSay(Node(list, b), D)
      BY <2>2, PlainSays DEF Plain
    <3>3. AllSay(Node(range, Subrange), D)
      BY <2>2, PlainSays DEF Plain
    <3> QED  BY <3>1, <3>2, <3>3
  <2>4. AllSay(Node(i, a) ++ Node(list, b), D)
    BY <2>3, SayUnion
  <2> QED  BY <2>1, <2>3, <2>4, SayUnion DEF i
<1> QED  BY <1>1, <1>2

LEMMA HelperSays ==
    ASSUME NEW D, NEW callee, NEW root, NEW path, carrier(root) \in D, PathId(root, path) \in D,
           helper(callee, root, path) \in D
    PROVE  AllSay(HelperNodes(callee, root, path), D)
<1> DEFINE h == helper(callee, root, path)
           types == <<"types", h>>
           retained == <<"variables", h>>
           from == pointer(carrier(root))
           to == pointer(PathId(root, path))
           a == Subprogram("btf_field<C, P>", TRUE, types, retained)
           b == Block(h)
           c == TupleNode(<<basic("u32"), from, to>>)
           d == TupleNode(<<<<"variable", h, 1>>, <<"variable", h, 2>>>>)
           x == <<"variable", h, 1>>
           y == <<"variable", h, 2>>
           e == Variable("base", 1, h)
           f == Variable("path", 2, h)
           g == [p \in {from, to} |-> PointerNode(p[2])]
<1>1. HelperNodes(callee, root, path) =
        (((((Node(h, a) ++ Node(block(h), b)) ++ Node(types, c)) ++ Node(retained, d))
            ++ Node(x, e)) ++ Node(y, f)) ++ g
  BY DEF HelperNodes
<1>2. /\ h[1] = "helper" /\ h[3] = root /\ h[4] = path /\ retained[1] = "variables"
      /\ x[1] = "variable" /\ y[1] = "variable"
      /\ a.kind = "subprogram" /\ d.kind = "tuple" /\ e.kind = "variable" /\ f.kind = "variable"
  BY DEF helper, Subprogram, TupleNode, Variable
<1>3. /\ block(h)[1] = "block" /\ block(h)[2] = h /\ b.kind = "block" /\ b.scope = h
      /\ types[1] = "types" /\ types[2] = h /\ c.kind = "tuple"
  BY DEF block, Block, TupleNode
<1>4. AllSay(g, D)
  <2> SUFFICES ASSUME NEW p \in {from, to} PROVE Says(p, g[p]) /\ LeadsTo(g[p], D)
    BY DEF AllSay
  <2>1. g[p] = PointerNode(p[2]) /\ p[1] = "pointer" /\ p[2] \in D
    BY DEF pointer
  <2>2. PointerNode(p[2]).kind = "derived" /\ PointerNode(p[2]).base = p[2]
    BY DEF PointerNode, Derived
  <2> HIDE DEF g, from, to
  <2>3. Says(p, g[p])
    BY <2>1 DEF Says
  <2>4. LeadsTo(g[p], D)
    BY <2>1, <2>2 DEF LeadsTo
  <2> QED  BY <2>3, <2>4
<1>5. AllSay(Node(types, c), D)
  <2>1. c = TupleNode(<<basic("u32"), pointer(carrier(h[3])), pointer(PathId(h[3], h[4]))>>)
    BY <1>2
  <2> HIDE DEF c, types, h
  <2>2. Says(types, c)
    BY <1>3, <2>1 DEF Says
  <2>3. LeadsTo(c, D)
    BY <1>3 DEF LeadsTo
  <2> QED  BY <2>2, <2>3, OneSays
<1>6. h \in D
  OBVIOUS
<1> HIDE DEF a, b, c, d, e, f, g, h, types, retained, x, y
<1>7. AllSay(Node(block(h), b), D)
  <2> DEFINE i == block(h)
  <2>1. i[1] = "block" /\ i[2] = h
    BY <1>3
  <2>2. b = Block(h)
    BY DEF b
  <2> HIDE DEF i
  <2>3. Says(i, b)
    BY <2>1, <2>2 DEF Says
  <2>4. LeadsTo(b, D)
    BY <1>3, <1>6 DEF LeadsTo
  <2>5. AllSay(Node(i, b), D)
    BY <2>3, <2>4, OneSays
  <2> QED  BY <2>5 DEF i
<1>8. AllSay(Node(h, a), D)
  BY <1>2, PlainSays DEF Plain
<1>9. AllSay(Node(retained, d), D)
  BY <1>2, PlainSays DEF Plain
<1>10. AllSay(Node(x, e), D)
  BY <1>2, PlainSays DEF Plain
<1>11. AllSay(Node(y, f), D)
  BY <1>2, PlainSays DEF Plain
<1> DEFINE n1 == Node(h, a)
           n2 == Node(block(h), b)
           n3 == Node(types, c)
           n4 == Node(retained, d)
           n5 == Node(x, e)
           n6 == Node(y, f)
<1>12. HelperNodes(callee, root, path) = (((((n1 ++ n2) ++ n3) ++ n4) ++ n5) ++ n6) ++ g
  BY <1>1
<1> HIDE DEF n1, n2, n3, n4, n5, n6
<1>13. AllSay(n1 ++ n2, D)
  BY <1>7, <1>8, SayUnion DEF n1, n2
<1>14. AllSay((n1 ++ n2) ++ n3, D)
  BY <1>5, <1>13, SayUnion DEF n3
<1>15. AllSay(((n1 ++ n2) ++ n3) ++ n4, D)
  BY <1>9, <1>14, SayUnion DEF n4
<1>16. AllSay((((n1 ++ n2) ++ n3) ++ n4) ++ n5, D)
  BY <1>10, <1>15, SayUnion DEF n5
<1>17. AllSay(((((n1 ++ n2) ++ n3) ++ n4) ++ n5) ++ n6, D)
  BY <1>11, <1>16, SayUnion DEF n6
<1> QED  BY <1>4, <1>12, <1>17, SayUnion

LEMMA PrimitivesSay == \A D : AllSay(Primitives, D)
<1> SUFFICES ASSUME NEW D, NEW id \in DOMAIN Primitives
             PROVE  Says(id, Primitives[id]) /\ LeadsTo(Primitives[id], D)
  BY DEF AllSay
<1>1. id[1] = "basic" /\ Primitives[id].kind = "basic"
  BY DEF Primitives, basic, Basic
<1> QED  BY <1>1 DEF Says, LeadsTo

\* The nodes of each part are in D.
Parts(accesses, D) ==
    /\ \A s \in Structs : DOMAIN CarrierNodes(s) \subseteq D
    /\ \A s \in Structs : \A k \in DOMAIN Fields[s] : DOMAIN MarkerNodes(s, k) \subseteq D
    /\ \A type \in DOMAIN Pointers \union DOMAIN Arrays : DOMAIN TypeNodes(type) \subseteq D
    /\ \A a \in accesses : \A prefix \in Prefixes(a.path) : DOMAIN PathNodes(a.root, prefix) \subseteq D
    /\ \A a \in accesses : DOMAIN HelperNodes(Callee(a.op), a.root, a.path) \subseteq D
    /\ DOMAIN Primitives \subseteq D

LEMMA StructDomain ==
    ASSUME NEW id, NEW name, NEW fields
    PROVE  DOMAIN StructNodes(id, name, fields) =
              {id, <<"elements", id>>} \union {<<"member", id, k>> : k \in DOMAIN fields}
BY DEF StructNodes, Node, ++

\* What is in D then.
PartIds(accesses, D) ==
    /\ TypesIn(D)
    /\ \A s \in Structs :
          carrier(s) \in D /\ \A k \in DOMAIN Fields[s] : marker(s, k) \in D
    /\ \A a \in accesses :
          /\ \A prefix \in Prefixes(a.path) : PathId(a.root, prefix) \in D
          /\ helper(Callee(a.op), a.root, a.path) \in D

LEMMA PartsThere ==
    ASSUME NEW accesses, NEW D, Parts(accesses, D)
    PROVE  PartIds(accesses, D)
<1>1. ASSUME NEW s \in Structs PROVE carrier(s) \in D
  <2>1. DOMAIN CarrierNodes(s) \subseteq D
    BY DEF Parts
  <2>2. carrier(s) \in DOMAIN CarrierNodes(s)
    BY StructDomain DEF CarrierNodes
  <2> QED  BY <2>1, <2>2
<1>2. ASSUME NEW s \in Structs, NEW k \in DOMAIN Fields[s] PROVE marker(s, k) \in D
  <2>1. DOMAIN MarkerNodes(s, k) \subseteq D
    BY DEF Parts
  <2>2. marker(s, k) \in DOMAIN MarkerNodes(s, k)
    BY StructDomain DEF MarkerNodes
  <2> QED  BY <2>1, <2>2
<1>3. ASSUME NEW a \in accesses, NEW prefix \in Prefixes(a.path) PROVE PathId(a.root, prefix) \in D
  <2>1. DOMAIN PathNodes(a.root, prefix) \subseteq D
    BY DEF Parts
  <2>2. PathId(a.root, prefix) \in DOMAIN PathNodes(a.root, prefix)
    BY StructDomain DEF PathNodes
  <2> QED  BY <2>1, <2>2
<1>4. ASSUME NEW a \in accesses PROVE helper(Callee(a.op), a.root, a.path) \in D
  <2> DEFINE callee == Callee(a.op)
             h == helper(callee, a.root, a.path)
  <2>1. DOMAIN HelperNodes(callee, a.root, a.path) \subseteq D
    BY DEF Parts
  <2>2. h \in DOMAIN HelperNodes(callee, a.root, a.path)
    BY DEF HelperNodes, ++, Node
  <2> QED  BY <2>1, <2>2
<1>5. \A leaf \in DOMAIN Size : basic(leaf) \in D
  BY DEF Parts, Primitives
<1>6. ASSUME NEW type \in Types PROVE TypeId(type) \in D
  <2>1. CASE type \in Structs
    <3>1. TypeId(type) = carrier(type)
      <4>1. type \notin DOMAIN Pointers /\ type \notin DOMAIN Arrays
        BY <2>1, LayoutAssumption
      <4> QED  BY <2>1, <4>1 DEF TypeId
    <3> QED  BY <1>1, <2>1, <3>1
  <2>2. CASE type \notin Structs /\ type \in DOMAIN Pointers \union DOMAIN Arrays
    <3>1. DOMAIN TypeNodes(type) \subseteq D
      BY <2>2 DEF Parts
    <3>2. CASE type \in DOMAIN Pointers
      <4>1. TypeId(type) \in DOMAIN TypeNodes(type)
        BY <3>2 DEF TypeNodes, Node
      <4> QED  BY <3>1, <4>1
    <3>3. CASE type \notin DOMAIN Pointers
      <4>1. array(type) \in DOMAIN TypeNodes(type)
        BY <3>3 DEF TypeNodes, Node, ++
      <4>2. TypeId(type) = array(type)
        BY <2>2, <3>3 DEF TypeId
      <4> QED  BY <3>1, <4>1, <4>2
    <3> QED  BY <3>2, <3>3
  <2>3. CASE type \notin Structs /\ type \notin DOMAIN Pointers \union DOMAIN Arrays
    <3>1. type \in DOMAIN Size /\ TypeId(type) = basic(type)
      BY <2>3 DEF Types, TypeId
    <3> QED  BY <1>5, <3>1
  <2> QED  BY <2>1, <2>2, <2>3
<1>7. TypesIn(D)
  BY <1>5, <1>6, LayoutAssumption DEF TypesIn
<1> QED  BY <1>1, <1>2, <1>3, <1>4, <1>7 DEF PartIds

\* What an access that rustc takes refers to is there.
LEMMA AccessPrefix ==
    ASSUME NEW accesses, NEW D, PartIds(accesses, D), NEW a \in accesses, WellTyped(a),
           NEW l \in 1..Len(a.path)
    PROVE  LET q == SubSeq(a.path, 1, l)
               s == DeclaredIn(a.root, q)[Len(q)] IN
           /\ PathId(a.root, Front(q)) \in D
           /\ s \in Structs /\ FieldIndex(s, Last(q)) \in DOMAIN Fields[s]
           /\ marker(s, FieldIndex(s, Last(q))) \in D
<1> DEFINE path == a.path
           n == Len(path)
           q == SubSeq(path, 1, l)
           s == DeclaredIn(a.root, path)[l]
<1>1. Typed(a.root, path, n) /\ n \in Nat /\ DOMAIN path = 1..n
  <2>1. Typed(a.root, path, n)
    BY AccessTyped
  <2> QED  BY <2>1 DEF Typed
<1>2. /\ Len(q) = l /\ DOMAIN q = 1..l /\ Last(q) = path[l]
      /\ Front(q) = SubSeq(path, 1, l - 1)
      /\ \A k \in 1..l : q[k] = path[k]
  <2> HIDE DEF n
  <2>1. l \in 1..n
    BY DEF n
  <2> QED  BY <1>1, <2>1, Prefix
<1>3. s \in Structs /\ FieldIndex(s, path[l]) \in DOMAIN Fields[s]
  BY <1>1 DEF Typed
<1>4. l - 1 \in 0..n
  BY <1>1
<1>5. Front(q) \in Prefixes(path)
  <2> HIDE DEF q
  <2> QED  BY <1>2, <1>4 DEF Prefixes
<1>6. DeclaredIn(a.root, q)[l] = s
  <2> PICK root, p, m, x : root = a.root /\ p = path /\ m = n /\ x = q
    OBVIOUS
  <2> HIDE DEF path, n, q, s
  <2>1. m \in Nat /\ DOMAIN p = 1..m /\ l \in 1..m /\ DOMAIN x = 1..l /\ \A k \in 1..l : x[k] = p[k]
    BY <1>1, <1>2 DEF n, path
  <2>2. \A k \in 1..l : DeclaredIn(root, x)[k] = DeclaredIn(root, p)[k]
    BY <2>1, DeclaredPrefix
  <2> QED  BY <2>1, <2>2 DEF s
<1> HIDE DEF q, s
<1>7. PathId(a.root, Front(q)) \in D
  BY <1>5 DEF PartIds
<1>8. marker(s, FieldIndex(s, path[l])) \in D
  BY <1>3 DEF PartIds
<1>9. DeclaredIn(a.root, q)[Len(q)] = s /\ Last(q) = path[l]
  BY <1>2, <1>6
<1> HIDE DEF path
<1>10. /\ s \in Structs /\ FieldIndex(s, Last(q)) \in DOMAIN Fields[s]
       /\ marker(s, FieldIndex(s, Last(q))) \in D
  BY <1>3, <1>8, <1>9
<1> QED  BY <1>7, <1>9, <1>10 DEF q, path

\* The debug info of accesses that rustc takes.
LEMMA AccessesSay ==
    ASSUME NEW accesses, \A a \in accesses : WellTyped(a)
    PROVE  LET A == AccessNodes(accesses) IN
           Parts(accesses, DOMAIN A) /\ AllSay(A, DOMAIN A)
<1> DEFINE C == {CarrierNodes(s) : s \in Structs}
           B == {TypeNodes(type) : type \in DOMAIN Pointers \union DOMAIN Arrays}
           M(s) == {MarkerNodes(s, k) : k \in DOMAIN Fields[s]}
           P(a) == {PathNodes(a.root, prefix) : prefix \in Prefixes(a.path)}
           H == {HelperNodes(Callee(a.op), a.root, a.path) : a \in accesses}
           Ms == {M(s) : s \in Structs}
           Ps == {P(a) : a \in accesses}
           S == C \union B \union (UNION Ms) \union (UNION Ps) \union H \union {Primitives}
           D == UNION {DOMAIN f : f \in S}
<1>1. AccessNodes(accesses) = [id \in D |-> (CHOOSE f \in S : id \in DOMAIN f)[id]]
  BY DEF AccessNodes, Merged
<1>2. /\ \A s \in Structs : CarrierNodes(s) \in C
      /\ \A s \in Structs : \A k \in DOMAIN Fields[s] : MarkerNodes(s, k) \in UNION Ms
      /\ \A type \in DOMAIN Pointers \union DOMAIN Arrays : TypeNodes(type) \in B
      /\ \A a \in accesses : \A prefix \in Prefixes(a.path) : PathNodes(a.root, prefix) \in UNION Ps
      /\ \A a \in accesses : HelperNodes(Callee(a.op), a.root, a.path) \in H
  <2>1. ASSUME NEW s \in Structs, NEW k \in DOMAIN Fields[s] PROVE MarkerNodes(s, k) \in UNION Ms
    <3>1. MarkerNodes(s, k) \in M(s) /\ M(s) \in Ms
      OBVIOUS
    <3> QED  BY <3>1
  <2>2. ASSUME NEW a \in accesses, NEW prefix \in Prefixes(a.path)
        PROVE  PathNodes(a.root, prefix) \in UNION Ps
    <3>1. PathNodes(a.root, prefix) \in P(a) /\ P(a) \in Ps
      OBVIOUS
    <3> QED  BY <3>1
  <2> QED  BY <2>1, <2>2
<1>3. ASSUME NEW f \in S
      PROVE  \/ \E s \in Structs : f = CarrierNodes(s)
             \/ \E type \in DOMAIN Pointers \union DOMAIN Arrays : f = TypeNodes(type)
             \/ \E s, k : f = MarkerNodes(s, k)
             \/ \E a \in accesses : \E prefix \in Prefixes(a.path) : f = PathNodes(a.root, prefix)
             \/ \E a \in accesses : f = HelperNodes(Callee(a.op), a.root, a.path)
             \/ f = Primitives
  <2>1. f \in C => \E s \in Structs : f = CarrierNodes(s)
    OBVIOUS
  <2>2. f \in B => \E type \in DOMAIN Pointers \union DOMAIN Arrays : f = TypeNodes(type)
    OBVIOUS
  <2>3. f \in UNION Ms => \E s, k : f = MarkerNodes(s, k)
    OBVIOUS
  <2>4. f \in UNION Ps =>
          \E a \in accesses : \E prefix \in Prefixes(a.path) : f = PathNodes(a.root, prefix)
    OBVIOUS
  <2>5. f \in H => \E a \in accesses : f = HelperNodes(Callee(a.op), a.root, a.path)
    OBVIOUS
  <2> HIDE DEF C, B, H, Ms, Ps
  <2> QED  BY <2>1, <2>2, <2>3, <2>4, <2>5
<1> HIDE DEF C, B, H, Ms, Ps
<1>4. \A f \in S : DOMAIN f \subseteq D
  OBVIOUS
<1>5. Parts(accesses, D)
  <2>1. /\ C \subseteq S /\ B \subseteq S /\ (UNION Ms) \subseteq S /\ (UNION Ps) \subseteq S
        /\ H \subseteq S /\ Primitives \in S
    OBVIOUS
  <2> HIDE DEF S, D
  <2> QED  BY <1>2, <1>4, <2>1 DEF Parts
<1>6. ASSUME NEW id \in D
      PROVE  \E f \in S : id \in DOMAIN f /\ AccessNodes(accesses)[id] = f[id]
  <2> HIDE DEF S
  <2>1. \E f \in S : id \in DOMAIN f
    OBVIOUS
  <2> HIDE DEF D
  <2> QED  BY <1>1, <2>1
<1>7. DOMAIN AccessNodes(accesses) = D
  BY <1>1
<1> HIDE DEF S, D
<1>8. PartIds(accesses, D)
  BY <1>5, PartsThere
<1>9. ASSUME NEW a \in accesses, NEW prefix \in Prefixes(a.path)
      PROVE  AllSay(PathNodes(a.root, prefix), D)
  <2>1. PICK l \in 0..Len(a.path) : prefix = SubSeq(a.path, 1, l)
    BY DEF Prefixes
  <2>2. WellTyped(a)
    OBVIOUS
  <2>3. Typed(a.root, a.path, Len(a.path))
    BY <2>2, AccessTyped
  <2>4. CASE l = 0
    <3>1. prefix = <<>>
      BY <2>1, <2>4
    <3> QED  BY <1>8, <3>1, PathSays DEF PartIds
  <2>5. CASE l # 0
    <3>1. l \in 1..Len(a.path)
      BY <2>3, <2>5 DEF Typed
    <3>2. /\ PathId(a.root, Front(prefix)) \in D
          /\ LET s == DeclaredIn(a.root, prefix)[Len(prefix)] IN
             marker(s, FieldIndex(s, Last(prefix))) \in D
      BY <1>8, <2>1, <2>2, <3>1, AccessPrefix
    <3> QED  BY <1>8, <3>2, PathSays DEF PartIds
  <2> QED  BY <2>4, <2>5
<1>10. ASSUME NEW a \in accesses
       PROVE  AllSay(HelperNodes(Callee(a.op), a.root, a.path), D)
  <2>1. a.path \in Prefixes(a.path) /\ a.root \in Structs
    <3>1. Typed(a.root, a.path, Len(a.path)) /\ a.root \in Structs
      BY AccessTyped
    <3>2. a.path \in Seq(Range(a.path)) /\ Len(a.path) \in 0..Len(a.path)
      BY <3>1 DEF Typed
    <3>3. a.path = SubSeq(a.path, 1, Len(a.path))
      BY <3>2
    <3> QED  BY <3>1, <3>2, <3>3 DEF Prefixes
  <2>2. carrier(a.root) \in D /\ PathId(a.root, a.path) \in D /\ helper(Callee(a.op), a.root, a.path) \in D
    BY <1>8, <2>1 DEF PartIds
  <2> QED  BY <2>2, HelperSays
<1>11. ASSUME NEW f \in S PROVE AllSay(f, D)
  <2>1. TypesIn(D)
    BY <1>8 DEF PartIds
  <2> QED  BY <1>3, <1>9, <1>10, <2>1, CarrierSays, TypeSays, MarkerSays, PrimitivesSay
<1>12. AllSay(AccessNodes(accesses), D)
  BY <1>6, <1>7, <1>11 DEF AllSay
<1> QED  BY <1>5, <1>7, <1>12

\* A struct type among nodes that are as their ids say.
LEMMA StructThere ==
    ASSUME NEW A, Sound(A, DOMAIN A), AllSay(A, DOMAIN A),
           NEW id, id[1] \in Declared, NEW name, NEW fields, fields = FieldsOf(id),
           DOMAIN StructNodes(id, name, fields) \subseteq DOMAIN A
    PROVE  HasStruct(A, id, fields)
<1> DEFINE list == <<"elements", id>>
           member(k) == <<"member", id, k>>
<1>1. id \in DOMAIN A /\ list \in DOMAIN A /\ \A k \in DOMAIN fields : member(k) \in DOMAIN A
  <2> DEFINE new == DOMAIN StructNodes(id, name, fields)
  <2>1. new = {id, list} \union {member(k) : k \in DOMAIN fields}
    BY StructDomain
  <2> HIDE DEF new
  <2>2. id \in new /\ list \in new /\ \A k \in DOMAIN fields : member(k) \in new
    BY <2>1
  <2>3. new \subseteq DOMAIN A
    BY DEF new
  <2> QED  BY <2>2, <2>3
<1>2. KindIn(A, id) = "composite" /\ A[id].elements = list
  <2>1. Shape(id, A[id])
    BY <1>1 DEF Sound
  <2>2. A[id] = Composite(A[id].name, "structure_type", list)
    BY <2>1 DEF Shape, Declared
  <2> HIDE DEF list
  <2> PICK node : node = A[id]
    OBVIOUS
  <2>3. node.kind = "composite" /\ node.elements = list
    BY <2>2 DEF Composite
  <2> QED  BY <1>1, <2>3 DEF KindIn
<1>3. KindIn(A, list) = "tuple" /\ A[list].items = [k \in DOMAIN fields |-> member(k)]
  <2>1. list[1] = "elements" /\ list[2] = id
    OBVIOUS
  <2>2. Says(list, A[list])
    BY <1>1 DEF AllSay
  <2>3. A[list] = TupleNode([k \in DOMAIN fields |-> member(k)])
    BY <2>1, <2>2 DEF Says
  <2> QED  BY <1>1, <2>3 DEF KindIn, TupleNode
<1>4. ASSUME NEW k \in DOMAIN fields
      PROVE  A[member(k)] = Derived(fields[k].name, "member", fields[k].type, fields[k].offset)
  <2> DEFINE m == member(k)
  <2>1. m[1] = "member" /\ m[2] = id /\ m[3] = k
    OBVIOUS
  <2>2. Says(m, A[m])
    BY <1>1 DEF AllSay
  <2> HIDE DEF m
  <2>3. A[m] = Derived(fields[k].name, "member", fields[k].type, fields[k].offset)
    BY <2>1, <2>2 DEF Says
  <2> QED  BY <2>3 DEF m
<1> QED  BY <1>1, <1>2, <1>3, <1>4 DEF HasStruct

CarriersNamed(g) == \A s \in Structs : g[carrier(s)].name = CarrierName(s)

\* The debug info of accesses has all that their lowering looks at.
LEMMA AccessesThere ==
    ASSUME NEW accesses, \A a \in accesses : WellTyped(a),
           NEW A, A = AccessNodes(accesses)
    PROVE  /\ Carriers(A) /\ CarriersNamed(A) /\ Markers(A) /\ AllSay(A, DOMAIN A)
           /\ \A a \in accesses : Readable(A, Callee(a.op), a.root, a.path)
<1>1. Sound(A, DOMAIN A)
  BY AccessesSound
<1>2. Parts(accesses, DOMAIN A) /\ AllSay(A, DOMAIN A)
  BY AccessesSay
<1>3. PartIds(accesses, DOMAIN A)
  BY <1>2, PartsThere
<1>4. ASSUME NEW s \in Structs PROVE HasStruct(A, carrier(s), CarrierFields(s))
  <2> DEFINE id == carrier(s)
             fields == CarrierFields(s)
  <2>1. CarrierNodes(s) = StructNodes(id, CarrierName(s), fields)
    BY DEF CarrierNodes, CarrierFields
  <2>2. id[1] = "carrier" /\ id[2] = s
    BY DEF carrier
  <2>3. DOMAIN StructNodes(id, CarrierName(s), fields) \subseteq DOMAIN A
    BY <1>2, <2>1 DEF Parts
  <2> HIDE DEF id, fields
  <2>4. id[1] \in Declared /\ fields = FieldsOf(id)
    BY <2>2 DEF Declared, FieldsOf, fields
  <2>5. HasStruct(A, id, fields)
    BY <1>1, <1>2, <2>3, <2>4, StructThere
  <2> QED  BY <2>5 DEF id, fields
<1>5. ASSUME NEW s \in Structs, NEW k \in DOMAIN Fields[s] PROVE HasStruct(A, marker(s, k), MarkerFields(s, k))
  <2> DEFINE id == marker(s, k)
             fields == MarkerFields(s, k)
             name == "__BtfFieldFor"
  <2>1. MarkerNodes(s, k) = StructNodes(id, name, fields)
    BY DEF MarkerNodes, MarkerFields
  <2>2. id[1] = "marker" /\ id[2] = s /\ id[3] = k
    BY DEF marker
  <2>3. DOMAIN StructNodes(id, name, fields) \subseteq DOMAIN A
    BY <1>2, <2>1 DEF Parts
  <2> HIDE DEF id, fields, name
  <2>4. id[1] \in Declared /\ fields = FieldsOf(id)
    BY <2>2 DEF Declared, FieldsOf, fields
  <2>5. HasStruct(A, id, fields)
    BY <1>1, <1>2, <2>3, <2>4, StructThere
  <2> QED  BY <2>5 DEF id, fields
<1>6. CarriersNamed(A)
  <2> SUFFICES ASSUME NEW s \in Structs PROVE A[carrier(s)].name = CarrierName(s)
    BY DEF CarriersNamed
  <2>1. carrier(s) \in DOMAIN A /\ carrier(s)[1] = "carrier" /\ carrier(s)[2] = s
    BY <1>3 DEF PartIds, carrier
  <2>2. Says(carrier(s), A[carrier(s)])
    BY <1>2, <2>1 DEF AllSay
  <2> QED  BY <2>1, <2>2 DEF Says
<1>7. ASSUME NEW a \in accesses PROVE Readable(A, Callee(a.op), a.root, a.path)
  <2> DEFINE root == a.root
             path == a.path
             n == Len(path)
             h == helper(Callee(a.op), root, path)
  <2>1. Typed(root, path, n) /\ root \in Structs
    BY AccessTyped
  <2>2. n \in Nat /\ path \in Seq(Range(path))
    BY <2>1 DEF Typed
  <2>3. ASSUME NEW l \in 0..n
        PROVE  SubSeq(path, 1, l) \in Prefixes(path)
    BY DEF Prefixes
  <2>4. HasStruct(A, <<"RootPath">>, RootFields)
    <3> DEFINE id == <<"RootPath">>
               name == "RootPath"
    <3>1. <<>> \in Prefixes(path)
      <4>1. SubSeq(path, 1, 0) = <<>> /\ 0 \in 0..n
        BY <2>2
      <4> QED  BY <2>3, <4>1
    <3>2. PathNodes(root, <<>>) = StructNodes(id, name, RootFields)
      BY DEF PathNodes, PathId, RootFields
    <3>3. DOMAIN StructNodes(id, name, RootFields) \subseteq DOMAIN A
      BY <1>2, <3>1, <3>2 DEF Parts
    <3>4. id[1] = "RootPath"
      OBVIOUS
    <3> HIDE DEF id, name
    <3>5. id[1] \in Declared /\ RootFields = FieldsOf(id)
      BY <3>4 DEF Declared, FieldsOf
    <3>6. HasStruct(A, id, RootFields)
      BY <1>1, <1>2, <3>3, <3>5, StructThere
    <3> QED  BY <3>6 DEF id
  <2>5. ASSUME NEW l \in 1..n
        PROVE  HasStruct(A, PathId(root, SubSeq(path, 1, l)), PathFields(root, SubSeq(path, 1, l)))
    <3> DEFINE q == SubSeq(path, 1, l)
               id == PathId(root, q)
               name == "FieldPath<P, F>"
               fields == PathFields(root, q)
    <3>1. q \in Prefixes(path)
      BY <2>2, <2>3
    <3>2. q # <<>>
      BY <2>2
    <3> HIDE DEF q
    <3>3. PathNodes(root, q) = StructNodes(id, name, fields)
      BY <3>2 DEF PathNodes, PathFields
    <3>4. DOMAIN StructNodes(id, name, fields) \subseteq DOMAIN A
      BY <1>2, <3>1, <3>3 DEF Parts
    <3>5. id[1] = "FieldPath" /\ id[2] = root /\ id[3] = q
      BY <3>2 DEF PathId
    <3> HIDE DEF id, name, fields
    <3>6. id[1] \in Declared /\ fields = FieldsOf(id)
      BY <3>5 DEF Declared, FieldsOf, fields
    <3>7. HasStruct(A, id, fields)
      BY <1>1, <1>2, <3>4, <3>6, StructThere
    <3> QED  BY <3>7 DEF id, fields, q
  <2>6. PathTypes(A, root, path)
    BY <2>4, <2>5 DEF PathTypes
  <2>7. HasHelper(A, h)
    <3> DEFINE types == <<"types", h>>
               from == pointer(carrier(root))
               to == pointer(PathId(root, path))
    <3>1. DOMAIN HelperNodes(Callee(a.op), root, path) \subseteq DOMAIN A
      BY <1>2 DEF Parts
    <3>2. {h, block(h), types, from, to} \subseteq DOMAIN HelperNodes(Callee(a.op), root, path)
      BY DEF HelperNodes, Node, ++
    <3>3. h[1] = "helper" /\ h[3] = root /\ h[4] = path /\ types[1] = "types" /\ types[2] = h
      BY DEF helper
    <3> HIDE DEF h, types, from, to
    <3>4. {h, block(h), types, from, to} \subseteq DOMAIN A
      BY <3>1, <3>2
    <3>5. KindIn(A, block(h)) = "block" /\ A[block(h)].scope = h
      <4>1. Says(block(h), A[block(h)])
        BY <1>2, <3>4 DEF AllSay
      <4>2. A[block(h)] = Block(h)
        BY <4>1 DEF Says, block
      <4> QED  BY <3>4, <4>2 DEF KindIn, Block
    <3>6. KindIn(A, h) = "subprogram" /\ A[h].types = types
      <4>1. Shape(h, A[h])
        BY <1>1, <3>4 DEF Sound
      <4>2. A[h] = Subprogram(A[h].name, TRUE, <<"types", h>>, <<"variables", h>>)
        BY <3>3, <4>1 DEF Shape, Declared
      <4> PICK node : node = A[h]
        OBVIOUS
      <4>3. node.kind = "subprogram" /\ node.types = <<"types", h>>
        BY <4>2 DEF Subprogram
      <4> QED  BY <3>4, <4>3 DEF KindIn, types
    <3>7. /\ KindIn(A, types) = "tuple"
          /\ A[types].items = <<basic("u32"), from, to>>
      <4>1. Says(types, A[types])
        BY <1>2, <3>4 DEF AllSay
      <4>2. A[types] = TupleNode(<<basic("u32"), from, to>>)
        BY <3>3, <4>1 DEF Says, from, to
      <4> QED  BY <3>4, <4>2 DEF KindIn, TupleNode
    <3>8. A[from] = PointerNode(carrier(root)) /\ A[to] = PointerNode(PathId(root, path))
      <4>1. Says(from, A[from]) /\ Says(to, A[to])
        BY <1>2, <3>4 DEF AllSay
      <4>2. /\ from[1] = "pointer" /\ from[2] = carrier(root) /\ carrier(root)[1] \in Declared
            /\ to[1] = "pointer" /\ to[2] = PathId(root, path) /\ PathId(root, path)[1] \in Declared
        BY DEF from, to, pointer, carrier, PathId, Declared
      <4> QED  BY <4>1, <4>2 DEF Says
    <3>9. /\ pointer(carrier(h[3])) = from /\ carrier(h[3]) = carrier(root)
          /\ pointer(PathId(h[3], h[4])) = to /\ PathId(h[3], h[4]) = PathId(root, path)
      BY <3>3 DEF from, to
    <3> DEFINE ends == <<carrier(h[3]), PathId(h[3], h[4])>>
    <3>10. ends[1] = carrier(root) /\ ends[2] = PathId(root, path)
      BY <3>9
    <3>11. /\ KindIn(A, <<"types", h>>) = "tuple" /\ A[h].types = <<"types", h>>
           /\ A[<<"types", h>>].items = <<basic("u32"), pointer(ends[1]), pointer(ends[2])>>
      BY <3>6, <3>7, <3>10 DEF from, to, types
    <3>12. \A k \in {1, 2} : pointer(ends[k]) \in DOMAIN A /\ A[pointer(ends[k])] = PointerNode(ends[k])
      BY <3>4, <3>8, <3>10 DEF from, to
    <3> HIDE DEF ends
    <3> QED  BY <3>5, <3>6, <3>11, <3>12 DEF HasHelper, ends
  <2> QED  BY <2>1, <2>6, <2>7 DEF Readable
<1> QED  BY <1>2, <1>4, <1>5, <1>6, <1>7 DEF Carriers, Markers

------------------------------------------------------------------------------
(* Graphs that hold the same. *)

\* h has what g has, but for names of other nodes than derived ones.
Keeps(g, h) ==
    \A id \in DOMAIN g :
        /\ id \in DOMAIN h /\ h[id].kind = g[id].kind
        /\ g[id].kind \in {"tuple", "derived", "block"} => h[id] = g[id]
        /\ g[id].kind = "composite" => h[id].elements = g[id].elements
        /\ g[id].kind = "subprogram" => h[id].types = g[id].types

LEMMA StructKept ==
    ASSUME NEW g, NEW h, Keeps(g, h), NEW id, NEW fields, HasStruct(g, id, fields)
    PROVE  HasStruct(h, id, fields)
<1> DEFINE list == <<"elements", id>>
           member(k) == <<"member", id, k>>
<1>1. id \in DOMAIN g /\ g[id].kind = "composite" /\ g[id].elements = list
  BY DEF HasStruct, KindIn
<1>2. list \in DOMAIN g /\ g[list].kind = "tuple" /\ g[list].items = [k \in DOMAIN fields |-> member(k)]
  BY DEF HasStruct, KindIn
<1>3. ASSUME NEW k \in DOMAIN fields
      PROVE  /\ member(k) \in DOMAIN g /\ g[member(k)].kind = "derived"
             /\ g[member(k)] = Derived(fields[k].name, "member", fields[k].type, fields[k].offset)
  BY DEF HasStruct, Derived
<1> HIDE DEF list, member
<1>4. id \in DOMAIN h /\ h[id].kind = "composite" /\ h[id].elements = list
  BY <1>1 DEF Keeps
<1>5. list \in DOMAIN h /\ h[list] = g[list]
  BY <1>2 DEF Keeps
<1>6. \A k \in DOMAIN fields : member(k) \in DOMAIN h /\ h[member(k)] = g[member(k)]
  BY <1>3 DEF Keeps
<1>7. /\ KindIn(h, id) = "composite" /\ h[id].elements = list
      /\ KindIn(h, list) = "tuple" /\ h[list].items = [k \in DOMAIN fields |-> member(k)]
      /\ \A k \in DOMAIN fields :
            /\ member(k) \in DOMAIN h
            /\ h[member(k)] = Derived(fields[k].name, "member", fields[k].type, fields[k].offset)
  BY <1>2, <1>3, <1>4, <1>5, <1>6 DEF KindIn
<1> QED  BY <1>7 DEF HasStruct, list, member

LEMMA HelperKept ==
    ASSUME NEW g, NEW h, Keeps(g, h), NEW f, HasHelper(g, f)
    PROVE  HasHelper(h, f)
<1> DEFINE to == <<carrier(f[3]), PathId(f[3], f[4])>>
           types == <<"types", f>>
           items == <<basic("u32"), pointer(to[1]), pointer(to[2])>>
<1>1. block(f) \in DOMAIN g /\ g[block(f)].kind = "block" /\ g[block(f)].scope = f
  BY DEF HasHelper, KindIn
<1>2. f \in DOMAIN g /\ g[f].kind = "subprogram" /\ g[f].types = types
  BY DEF HasHelper, KindIn
<1>3. types \in DOMAIN g /\ g[types].kind = "tuple" /\ g[types].items = items
  BY DEF HasHelper, KindIn
<1>4. ASSUME NEW k \in {1, 2}
      PROVE  /\ pointer(to[k]) \in DOMAIN g /\ g[pointer(to[k])] = PointerNode(to[k])
             /\ g[pointer(to[k])].kind = "derived"
  <2>1. pointer(to[k]) \in DOMAIN g /\ g[pointer(to[k])] = PointerNode(to[k])
    BY DEF HasHelper
  <2>2. \A x : PointerNode(x).kind = "derived"
    BY DEF PointerNode, Derived
  <2> HIDE DEF to
  <2> QED  BY <2>1, <2>2
<1> HIDE DEF to, types, items
<1>5. KindIn(h, block(f)) = "block" /\ h[block(f)].scope = f
  BY <1>1 DEF Keeps, KindIn
<1>6. KindIn(h, f) = "subprogram" /\ h[f].types = types
  BY <1>2 DEF Keeps, KindIn
<1>7. KindIn(h, types) = "tuple" /\ h[types].items = items
  BY <1>3 DEF Keeps, KindIn
<1>8. \A k \in {1, 2} : pointer(to[k]) \in DOMAIN h /\ h[pointer(to[k])] = PointerNode(to[k])
  BY <1>4 DEF Keeps
<1> QED  BY <1>5, <1>6, <1>7, <1>8 DEF HasHelper, to, types, items

LEMMA ReadableKept ==
    ASSUME NEW g, NEW h, Keeps(g, h), NEW callee, NEW root, NEW path, Readable(g, callee, root, path)
    PROVE  Readable(h, callee, root, path)
<1>1. PathTypes(h, root, path)
  <2>1. HasStruct(h, <<"RootPath">>, RootFields)
    <3>1. HasStruct(g, <<"RootPath">>, RootFields)
      BY DEF Readable, PathTypes
    <3> DEFINE id == <<"RootPath">>
    <3> HIDE DEF id
    <3>2. HasStruct(g, id, RootFields)
      BY <3>1 DEF id
    <3>3. HasStruct(h, id, RootFields)
      BY <3>2, StructKept
    <3> QED  BY <3>3 DEF id
  <2>2. ASSUME NEW l \in 1..Len(path)
        PROVE  HasStruct(h, PathId(root, SubSeq(path, 1, l)), PathFields(root, SubSeq(path, 1, l)))
    <3> DEFINE id == PathId(root, SubSeq(path, 1, l))
               fields == PathFields(root, SubSeq(path, 1, l))
    <3>1. HasStruct(g, id, fields)
      BY DEF Readable, PathTypes
    <3> HIDE DEF id, fields
    <3>2. HasStruct(h, id, fields)
      BY <3>1, StructKept
    <3> QED  BY <3>2 DEF id, fields
  <2> QED  BY <2>1, <2>2 DEF PathTypes
<1>2. HasHelper(h, helper(callee, root, path))
  <2> DEFINE f == helper(callee, root, path)
  <2>1. HasHelper(g, f)
    BY DEF Readable
  <2> HIDE DEF f
  <2>2. HasHelper(h, f)
    BY <2>1, HelperKept
  <2> QED  BY <2>2 DEF f
<1> QED  BY <1>1, <1>2 DEF Readable

LEMMA CarriersKept ==
    ASSUME NEW g, NEW h, Keeps(g, h), Carriers(g)
    PROVE  Carriers(h)
<1> SUFFICES ASSUME NEW s \in Structs PROVE HasStruct(h, carrier(s), CarrierFields(s))
  BY DEF Carriers
<1> DEFINE id == carrier(s)
           fields == CarrierFields(s)
<1>1. HasStruct(g, id, fields)
  BY DEF Carriers
<1> HIDE DEF id, fields
<1>2. HasStruct(h, id, fields)
  BY <1>1, StructKept
<1> QED  BY <1>2 DEF id, fields

LEMMA MarkersKept ==
    ASSUME NEW g, NEW h, Keeps(g, h), Markers(g)
    PROVE  Markers(h)
<1> SUFFICES ASSUME NEW s \in Structs, NEW k \in DOMAIN Fields[s]
             PROVE  HasStruct(h, marker(s, k), MarkerFields(s, k))
  BY DEF Markers
<1> DEFINE id == marker(s, k)
           fields == MarkerFields(s, k)
<1>1. HasStruct(g, id, fields)
  BY DEF Markers
<1> HIDE DEF id, fields
<1>2. HasStruct(h, id, fields)
  BY <1>1, StructKept
<1> QED  BY <1>2 DEF id, fields

------------------------------------------------------------------------------
(* The debug info of a program. *)

\* No function's variables are the fields of a carrier.
Apart(g) ==
    \A sp \in DOMAIN g : g[sp].kind = "subprogram" =>
        \A s \in Structs : g[sp].retained # <<"elements", carrier(s)>>

\* What the lowering of a program starts from.
Ready(g, accesses, others) ==
    /\ Leads(g) /\ Carriers(g) /\ CarriersNamed(g) /\ Markers(g) /\ Apart(g)
    /\ \A a \in accesses : Readable(g, Callee(a.op), a.root, a.path)
    /\ \A c \in others : Other(c, g)

\* The nodes N of the program refer to each other and primitive types, and so do its
\* calls.
LEMMA SameKindHere ==
    ASSUME NEW N, NEW A, JoinedKinds(N, A, N ++ A), NEW id \in DOMAIN (N ++ Primitives) \union {null}
    PROVE  LET g == N ++ A
               b == N ++ Primitives IN
           /\ KindIn(g, id) = KindIn(b, id) /\ ItemsIn(g, id) = ItemsIn(b, id)
           /\ id \in DOMAIN g \union {null}
<1> DEFINE g == N ++ A
           b == N ++ Primitives
<1> HIDE DEF g, b
<1>1. /\ DOMAIN g = DOMAIN N \union DOMAIN A /\ DOMAIN b = DOMAIN N \union DOMAIN Primitives
      /\ null \notin DOMAIN N \union DOMAIN A
      /\ \A i \in DOMAIN N : g[i] = N[i] /\ b[i] = N[i]
      /\ \A i \in DOMAIN Primitives : i \in DOMAIN A /\ g[i].kind = "basic" /\ b[i].kind = "basic"
  BY DEF JoinedKinds, g, b
<1>2. CASE id = null
  <2>1. null \notin DOMAIN g /\ null \notin DOMAIN b
    BY <1>1
  <2> QED  BY <1>2, <2>1 DEF KindIn, ItemsIn, g, b
<1>3. CASE id \in DOMAIN N
  <2>1. id \in DOMAIN g /\ id \in DOMAIN b /\ g[id] = b[id]
    BY <1>1, <1>3
  <2> QED  BY <2>1 DEF KindIn, ItemsIn, g, b
<1>4. CASE id \in DOMAIN Primitives
  <2>1. id \in DOMAIN g /\ id \in DOMAIN b /\ g[id].kind = "basic" /\ b[id].kind = "basic"
    BY <1>1, <1>4
  <2> QED  BY <2>1 DEF KindIn, ItemsIn, g, b
<1> QED  BY <1>1, <1>2, <1>3, <1>4 DEF b

LEMMA OtherHere ==
    ASSUME NEW N, NEW A, JoinedKinds(N, A, N ++ A), WellFormed(N ++ Primitives),
           NEW c, Other(c, N ++ Primitives)
    PROVE  Other(c, N ++ A)
<1> DEFINE g == N ++ A
           b == N ++ Primitives
<1>1. \A id \in DOMAIN b \union {null} : KindIn(g, id) = KindIn(b, id) /\ ItemsIn(g, id) = ItemsIn(b, id)
  BY SameKindHere
<1>2. CASE ~IsPolyfill(c) \/ c.nargs # 2 \/ c.scope = null
  BY <1>2 DEF Other
<1>3. CASE /\ KindIn(b, c.scope) = "subprogram"
           /\ LET types == ItemsIn(b, b[c.scope].types) IN
              2 \in DOMAIN types => KindIn(b, types[2]) # "derived"
  <2> DEFINE h == c.scope
             types == ItemsIn(b, b[h].types)
  <2>1. h \in DOMAIN b /\ b[h].kind = "subprogram"
    BY <1>3 DEF KindIn
  <2>2. b[h].types \in DOMAIN b \union {null}
    BY <2>1 DEF WellFormed
  <2>3. g[h] = b[h] /\ KindIn(g, h) = "subprogram"
    <3>1. h \in DOMAIN N
      BY <2>1 DEF JoinedKinds
    <3>2. h \in DOMAIN g
      BY <3>1 DEF JoinedKinds
    <3>3. g[h] = b[h]
      BY <3>1 DEF JoinedKinds
    <3> HIDE DEF g, b
    <3> QED  BY <2>1, <3>2, <3>3 DEF KindIn
  <2> HIDE DEF g, h
  <2>4. ItemsIn(g, g[h].types) = types
    BY <1>1, <2>2, <2>3
  <2>5. ASSUME 2 \in DOMAIN types PROVE types[2] \in DOMAIN b \union {null}
    <3> DEFINE i == b[h].types
    <3>1. i \in DOMAIN b /\ b[i].kind = "tuple" /\ types = b[i].items
      BY <2>5 DEF ItemsIn, KindIn
    <3>2. Range(b[i].items) \subseteq DOMAIN b \union {null}
      BY <3>1 DEF WellFormed
    <3> HIDE DEF i
    <3> QED  BY <2>5, <3>1, <3>2 DEF Range
  <2>6. 2 \in DOMAIN types => KindIn(b, types[2]) # "derived"
    BY <1>3 DEF h
  <2> HIDE DEF b, types
  <2>7. 2 \in DOMAIN types => KindIn(g, types[2]) # "derived"
    BY <1>1, <2>5, <2>6
  <2>8. \/ ~IsPolyfill(c) \/ c.nargs # 2 \/ c.scope = null
        \/ /\ KindIn(g, c.scope) = "subprogram"
           /\ LET list == ItemsIn(g, g[c.scope].types) IN
              2 \in DOMAIN list => KindIn(g, list[2]) # "derived"
    BY <2>3, <2>4, <2>7 DEF h
  <2> QED  BY <2>8 DEF Other, g
<1> QED  BY <1>2, <1>3 DEF Other

LEMMA JoinedRange ==
    ASSUME NEW U, NEW s \in Seq(U), NEW t \in Seq(U)
    PROVE  Range(s \o t) = Range(s) \union Range(t)
<1> PICK z : z = s \o t
  OBVIOUS
<1>1. Joined(z, s, t, U)
  BY Joining
<1>2. z \in Seq(U) /\ Len(z) = Len(s) + Len(t)
  BY <1>1 DEF Joined
<1>3. PICK m, n : m = Len(s) /\ n = Len(t)
  OBVIOUS
<1>4. /\ m \in Nat /\ n \in Nat /\ DOMAIN s = 1..m /\ DOMAIN t = 1..n /\ DOMAIN z = 1..(m + n)
      /\ \A i \in 1..m : z[i] = s[i]
      /\ \A i \in 1..n : z[m + i] = t[i]
  <2>1. m \in Nat /\ n \in Nat /\ DOMAIN s = 1..m /\ DOMAIN t = 1..n
    BY <1>3
  <2>2. DOMAIN z = 1..(m + n)
    BY <1>2, <1>3
  <2>3. \A i \in 1..m : z[i] = s[i]
    BY <1>1, <1>3 DEF Joined
  <2>4. \A i \in 1..n : z[m + i] = t[i]
    BY <1>1, <1>3 DEF Joined
  <2> QED  BY <2>1, <2>2, <2>3, <2>4
<1>5. ASSUME NEW i \in DOMAIN z PROVE z[i] \in Range(s) \union Range(t)
  <2>1. CASE i <= m
    <3>1. i \in 1..m
      BY <1>4, <2>1
    <3> QED  BY <1>4, <3>1 DEF Range
  <2>2. CASE i > m
    <3>1. i - m \in 1..n /\ m + (i - m) = i
      BY <1>4, <2>2
    <3>2. z[i] = t[i - m]
      BY <1>4, <3>1
    <3> QED  BY <1>4, <3>1, <3>2 DEF Range
  <2> QED  BY <1>4, <2>1, <2>2
<1>6. \A i \in 1..m : i \in DOMAIN z
  BY <1>4
<1>7. \A i \in 1..n : m + i \in DOMAIN z
  BY <1>4
<1>8. Range(s) \union Range(t) \subseteq Range(z)
  BY <1>4, <1>6, <1>7 DEF Range
<1>9. Range(z) \subseteq Range(s) \union Range(t)
  BY <1>5 DEF Range
<1> QED  BY <1>8, <1>9

LEMMA InputReady ==
    ASSUME NEW p \in Programs
    PROVE  LET accesses == Range(p.probes \o p.accesses) IN
           Ready(p.nodes ++ AccessNodes(accesses), accesses, Range(p.calls))
<1> DEFINE N == p.nodes
           accesses == Range(p.probes \o p.accesses)
           A == AccessNodes(accesses)
           g == N ++ A
           b == N ++ Primitives
<1>1. \A a \in accesses : WellTyped(a)
  <2>1. p.probes \in Seq(Range(p.probes)) /\ p.accesses \in Seq(Range(p.accesses))
    BY ProgramsAssumption
  <2>2. accesses = Range(p.probes) \union Range(p.accesses)
    <3> PICK x, y : x = p.probes /\ y = p.accesses
      OBVIOUS
    <3>1. PICK S : S = Range(x) \union Range(y)
      OBVIOUS
    <3>2. x \in Seq(S) /\ y \in Seq(S)
      <4>1. Range(x) \subseteq S /\ Range(y) \subseteq S
        BY <3>1
      <4>2. x \in Seq(Range(x)) /\ y \in Seq(Range(y))
        BY <2>1
      <4> QED  BY <4>1, <4>2
    <3> QED  BY <3>2, JoinedRange
  <2>3. ASSUME NEW a \in Range(p.probes) \union Range(p.accesses) PROVE WellTyped(a)
    BY ProgramsAssumption
  <2> QED  BY <2>2, <2>3
<1>2. /\ Carriers(A) /\ CarriersNamed(A) /\ Markers(A) /\ AllSay(A, DOMAIN A)
      /\ \A a \in accesses : Readable(A, Callee(a.op), a.root, a.path)
  <2> HIDE DEF accesses
  <2> QED  BY <1>1, AccessesThere
<1>3. Joins(N, A)
  <2>1. Sound(A, DOMAIN A)
    <3> HIDE DEF accesses
    <3> QED  BY AccessesSound
  <2>2. DOMAIN Primitives \subseteq DOMAIN A
    <3> HIDE DEF accesses
    <3> QED  BY PrimitivesThere
  <2>3. WellFormed(N ++ Primitives) /\ DOMAIN N \intersect DOMAIN A = {}
    BY NodesAssumption
  <2> HIDE DEF N, A
  <2> QED  BY <2>1, <2>2, <2>3 DEF Joins
<1>4. Leads(b) /\ WellFormed(b)
  BY NodesAssumption
<1>5. \A c \in Range(p.calls) : Other(c, b)
  BY ProgramsAssumption
<1> HIDE DEF N, A, accesses
<1>6. JoinedKinds(N, A, g)
  BY <1>3, JoinedNodes
<1>7. \A id \in DOMAIN b \union {null} : id \in DOMAIN g \union {null}
  BY <1>6, SameKindHere
<1>8. /\ DOMAIN g = DOMAIN N \union DOMAIN A
      /\ \A id \in DOMAIN N : id \in DOMAIN b /\ g[id] = b[id] /\ id \notin DOMAIN A
      /\ \A id \in DOMAIN A : g[id] = A[id]
  BY <1>6 DEF JoinedKinds
<1>9. Keeps(A, g)
  BY <1>8 DEF Keeps
<1>10. \A c \in Range(p.calls) : Other(c, g)
  BY <1>4, <1>5, <1>6, OtherHere
<1> HIDE DEF g
<1>11. Leads(g)
  <2> SUFFICES ASSUME NEW id \in DOMAIN g
               PROVE  /\ g[id].kind = "derived" => g[id].base \in DOMAIN g \union {null}
                      /\ g[id].kind = "block" => g[id].scope \in DOMAIN g \union {null}
    BY DEF Leads
  <2>1. CASE id \in DOMAIN N
    <3>1. id \in DOMAIN b /\ g[id] = b[id]
      BY <1>8, <2>1
    <3> HIDE DEF b
    <3>2. /\ b[id].kind = "derived" => b[id].base \in DOMAIN b \union {null}
          /\ b[id].kind = "block" => b[id].scope \in DOMAIN b \union {null}
      BY <1>4, <3>1 DEF Leads
    <3> QED  BY <1>7, <3>1, <3>2
  <2>2. CASE id \in DOMAIN A
    <3>1. g[id] = A[id] /\ LeadsTo(A[id], DOMAIN A)
      BY <1>2, <1>8, <2>2 DEF AllSay
    <3> QED  BY <1>8, <3>1 DEF LeadsTo
  <2> QED  BY <1>8, <2>1, <2>2
<1>12. Carriers(g) /\ Markers(g)
  BY <1>2, <1>9, CarriersKept, MarkersKept
<1>13. ASSUME NEW s \in Structs PROVE carrier(s) \in DOMAIN A /\ <<"elements", carrier(s)>> \in DOMAIN A
  <2>1. HasStruct(A, carrier(s), CarrierFields(s))
    BY <1>2 DEF Carriers
  <2> QED  BY <2>1 DEF HasStruct, KindIn
<1>14. CarriersNamed(g)
  BY <1>2, <1>8, <1>13 DEF CarriersNamed
<1>15. Apart(g)
  <2> SUFFICES ASSUME NEW sp \in DOMAIN g, g[sp].kind = "subprogram", NEW s \in Structs,
                      g[sp].retained = <<"elements", carrier(s)>>
               PROVE  FALSE
    BY DEF Apart
  <2> DEFINE list == <<"elements", carrier(s)>>
  <2>1. list \in DOMAIN A /\ list[1] = "elements" /\ list # null
    BY <1>13 DEF null
  <2> HIDE DEF list
  <2>2. g[sp].retained = list
    BY DEF list
  <2>3. CASE sp \in DOMAIN N
    <3>1. sp \in DOMAIN b /\ g[sp] = b[sp]
      BY <1>8, <2>3
    <3>2. b[sp].retained \in DOMAIN b \union {null}
      BY <1>4, <3>1 DEF WellFormed
    <3>3. DOMAIN b = DOMAIN N \union DOMAIN Primitives /\ \A id \in DOMAIN Primitives : id[1] = "basic"
      BY <1>6 DEF JoinedKinds
    <3> HIDE DEF b
    <3>4. list \in DOMAIN N
      BY <2>1, <2>2, <3>1, <3>2, <3>3
    <3> QED  BY <1>8, <2>1, <3>4
  <2>4. CASE sp \in DOMAIN A
    <3>1. g[sp] = A[sp] /\ Tells(sp, A[sp])
      BY <1>6, <1>8, <2>4 DEF JoinedKinds
    <3>2. A[sp].retained = <<"variables", sp>>
      BY <3>1 DEF Tells
    <3>3. g[sp].retained[1] = "variables"
      BY <3>1, <3>2
    <3> QED  BY <2>1, <2>2, <3>3
  <2> QED  BY <1>8, <2>3, <2>4
<1>16. \A a \in accesses : Readable(g, Callee(a.op), a.root, a.path)
  BY <1>2, <1>9, ReadableKept
<1>17. Ready(g, accesses, Range(p.calls))
  BY <1>10, <1>11, <1>12, <1>14, <1>15, <1>16 DEF Ready
<1> QED  BY <1>17 DEF g, N, A, accesses

------------------------------------------------------------------------------
(* What no pass changes. *)

carried(s) == <<"elements", carrier(s)>>
field(s, k) == <<"member", carrier(s), k>>

\* h has the carriers of g, and leads where g leads.
Carries(g, h) ==
    /\ \A id \in DOMAIN g : id \in DOMAIN h /\ h[id].kind = g[id].kind
    /\ \A id \in DOMAIN g : g[id].kind = "composite" => h[id].elements = g[id].elements
    /\ \A s \in Structs :
          /\ carrier(s) \in DOMAIN g /\ g[carrier(s)].name = s => h[carrier(s)].name = s
          /\ carried(s) \in DOMAIN g => h[carried(s)] = g[carried(s)]
          /\ \A k \in DOMAIN Fields[s] : field(s, k) \in DOMAIN g => h[field(s, k)] = g[field(s, k)]
    /\ \A id \in DOMAIN h :
          /\ h[id].kind = "derived" => id \in DOMAIN g /\ h[id].base = g[id].base
          /\ h[id].kind = "block" => id \in DOMAIN g /\ h[id].scope = g[id].scope
          /\ h[id].kind = "subprogram" =>
                id \in DOMAIN g /\ h[id].retained \in {g[id].retained, new_retained(id)}

\* The part of the invariant that is about the graph.
Held(g) == Leads(g) /\ Carriers(g) /\ Apart(g)

\* The carrier of a struct, its list and its members.
HasParts(g, s) ==
    /\ carrier(s) \in DOMAIN g /\ g[carrier(s)].kind = "composite"
    /\ g[carrier(s)].elements = carried(s)
    /\ carried(s) \in DOMAIN g /\ g[carried(s)].kind = "tuple"
    /\ g[carried(s)].items = [k \in DOMAIN Fields[s] |-> field(s, k)]
    /\ \A k \in DOMAIN Fields[s] :
          LET f == Fields[s][k] IN
          /\ field(s, k) \in DOMAIN g
          /\ g[field(s, k)] = Derived(f.name, "member", TypeId(f.type), Offset(s)[k])
          /\ g[field(s, k)].kind = "derived" /\ g[field(s, k)].tag = "member"
          /\ g[field(s, k)].name = f.name /\ g[field(s, k)].offset = Offset(s)[k]

LEMMA CarrierParts ==
    ASSUME NEW g, Carriers(g), NEW s \in Structs
    PROVE  HasParts(g, s)
<1>1. HasStruct(g, carrier(s), CarrierFields(s))
  BY DEF Carriers
<1>2. DOMAIN CarrierFields(s) = DOMAIN Fields[s]
  BY DEF CarrierFields
<1>3. /\ carrier(s) \in DOMAIN g /\ g[carrier(s)].kind = "composite"
      /\ g[carrier(s)].elements = carried(s)
      /\ carried(s) \in DOMAIN g /\ g[carried(s)].kind = "tuple"
      /\ g[carried(s)].items = [k \in DOMAIN Fields[s] |-> field(s, k)]
  BY <1>1, <1>2 DEF HasStruct, KindIn, carried, field
<1>4. ASSUME NEW k \in DOMAIN Fields[s]
      PROVE  LET f == Fields[s][k] IN
             /\ field(s, k) \in DOMAIN g
             /\ g[field(s, k)] = Derived(f.name, "member", TypeId(f.type), Offset(s)[k])
             /\ g[field(s, k)].kind = "derived" /\ g[field(s, k)].tag = "member"
             /\ g[field(s, k)].name = f.name /\ g[field(s, k)].offset = Offset(s)[k]
  <2> DEFINE name == Fields[s][k].name
             type == TypeId(Fields[s][k].type)
             offset == Offset(s)[k]
  <2>1. field(s, k) \in DOMAIN g /\ g[field(s, k)] = Derived(name, "member", type, offset)
    <3> DEFINE fields == CarrierFields(s)
    <3>1. k \in DOMAIN fields /\ HasStruct(g, carrier(s), fields)
      BY <1>1, <1>2
    <3>2. fields[k].name = name /\ fields[k].type = type /\ fields[k].offset = offset
      BY DEF CarrierFields
    <3> HIDE DEF fields, name, type, offset
    <3>3. /\ field(s, k) \in DOMAIN g
          /\ g[field(s, k)] = Derived(fields[k].name, "member", fields[k].type, fields[k].offset)
      BY <3>1 DEF HasStruct, field
    <3> QED  BY <3>2, <3>3
  <2> HIDE DEF name, type, offset
  <2>2. LET d == Derived(name, "member", type, offset) IN
        d.kind = "derived" /\ d.tag = "member" /\ d.name = name /\ d.offset = offset
    BY DEF Derived
  <2>3. /\ g[field(s, k)].kind = "derived" /\ g[field(s, k)].tag = "member"
        /\ g[field(s, k)].name = name /\ g[field(s, k)].offset = offset
    BY <2>1, <2>2
  <2> QED  BY <2>1, <2>3 DEF name, type, offset
<1> QED  BY <1>3, <1>4 DEF HasParts

LEMMA HeldOn ==
    ASSUME NEW g, NEW h, Held(g), Carries(g, h)
    PROVE  Held(h)
<1>1. Leads(h)
  <2> SUFFICES ASSUME NEW id \in DOMAIN h
               PROVE  /\ h[id].kind = "derived" => h[id].base \in DOMAIN h \union {null}
                      /\ h[id].kind = "block" => h[id].scope \in DOMAIN h \union {null}
    BY DEF Leads
  <2>1. \A i \in DOMAIN g \union {null} : i \in DOMAIN h \union {null}
    BY DEF Carries
  <2>2. ASSUME h[id].kind = "derived" PROVE h[id].base \in DOMAIN h \union {null}
    <3>1. id \in DOMAIN g /\ h[id].base = g[id].base /\ g[id].kind = "derived"
      BY <2>2 DEF Carries
    <3>2. g[id].base \in DOMAIN g \union {null}
      BY <3>1 DEF Held, Leads
    <3> QED  BY <2>1, <3>1, <3>2
  <2>3. ASSUME h[id].kind = "block" PROVE h[id].scope \in DOMAIN h \union {null}
    <3>1. id \in DOMAIN g /\ h[id].scope = g[id].scope /\ g[id].kind = "block"
      BY <2>3 DEF Carries
    <3>2. g[id].scope \in DOMAIN g \union {null}
      BY <3>1 DEF Held, Leads
    <3> QED  BY <2>1, <3>1, <3>2
  <2> QED  BY <2>2, <2>3
<1>2. ASSUME NEW s \in Structs PROVE HasStruct(h, carrier(s), CarrierFields(s))
  <2>1. /\ carrier(s) \in DOMAIN g /\ g[carrier(s)].kind = "composite"
        /\ g[carrier(s)].elements = carried(s)
        /\ carried(s) \in DOMAIN g /\ g[carried(s)].kind = "tuple"
        /\ g[carried(s)].items = [k \in DOMAIN Fields[s] |-> field(s, k)]
        /\ \A k \in DOMAIN Fields[s] :
              /\ field(s, k) \in DOMAIN g
              /\ g[field(s, k)] = Derived(Fields[s][k].name, "member", TypeId(Fields[s][k].type), Offset(s)[k])
    BY CarrierParts DEF Held, HasParts
  <2>2. carrier(s) \in DOMAIN h /\ h[carrier(s)].kind = "composite" /\ h[carrier(s)].elements = carried(s)
    BY <2>1 DEF Carries
  <2>3. carried(s) \in DOMAIN h /\ h[carried(s)] = g[carried(s)]
    BY <2>1 DEF Carries
  <2>4. \A k \in DOMAIN Fields[s] : field(s, k) \in DOMAIN h /\ h[field(s, k)] = g[field(s, k)]
    BY <2>1 DEF Carries
  <2>5. /\ DOMAIN CarrierFields(s) = DOMAIN Fields[s]
        /\ \A k \in DOMAIN Fields[s] :
              /\ CarrierFields(s)[k].name = Fields[s][k].name
              /\ CarrierFields(s)[k].type = TypeId(Fields[s][k].type)
              /\ CarrierFields(s)[k].offset = Offset(s)[k]
    BY DEF CarrierFields
  <2> DEFINE fields == CarrierFields(s)
  <2> HIDE DEF fields
  <2>6. \A k \in DOMAIN fields :
            /\ field(s, k) \in DOMAIN h
            /\ h[field(s, k)] = Derived(fields[k].name, "member", fields[k].type, fields[k].offset)
    BY <2>1, <2>4, <2>5 DEF fields
  <2>7. h[carried(s)].items = [k \in DOMAIN fields |-> field(s, k)] /\ KindIn(h, carried(s)) = "tuple"
    BY <2>1, <2>3, <2>5 DEF KindIn, fields
  <2>8. KindIn(h, carrier(s)) = "composite" /\ h[carrier(s)].elements = carried(s)
    BY <2>2 DEF KindIn
  <2>9. HasStruct(h, carrier(s), fields)
    BY <2>6, <2>7, <2>8 DEF HasStruct, carried, field
  <2> QED  BY <2>9 DEF fields
<1>3. Apart(h)
  <2> SUFFICES ASSUME NEW sp \in DOMAIN h, h[sp].kind = "subprogram", NEW s \in Structs,
                      h[sp].retained = <<"elements", carrier(s)>>
               PROVE  FALSE
    BY DEF Apart
  <2>1. sp \in DOMAIN g /\ g[sp].kind = "subprogram" /\ h[sp].retained \in {g[sp].retained, new_retained(sp)}
    BY DEF Carries
  <2>2. g[sp].retained # <<"elements", carrier(s)>>
    BY <2>1 DEF Held, Apart
  <2>3. new_retained(sp) # <<"elements", carrier(s)>>
    BY DEF new_retained
  <2> QED  BY <2>1, <2>2, <2>3
<1> QED  BY <1>1, <1>2, <1>3 DEF Held, Carriers

LEMMA SameCarries == \A g : Carries(g, g)
BY DEF Carries

LEMMA SanitizeCarries ==
    ASSUME GraphInv, SanitizeNames, Carriers(md)
    PROVE  Carries(md, md')
<1>1. Renamed(md, md')
  BY Sanitizes
<1>2. WellFormed(md)
  BY DEF GraphInv, SanitizeNames, BeforePass4
<1>3. ASSUME NEW id \in DOMAIN md
      PROVE  md'[id] = IF HasName(md[id]) THEN [md[id] EXCEPT !.name = sanitize(md[id].name)]
                       ELSE md[id]
  BY DEF SanitizeNames
<1>4. ASSUME NEW id \in DOMAIN md, md[id].kind = "derived"
      PROVE  md'[id] = Derived(sanitize(md[id].name), md[id].tag, md[id].base, md[id].offset)
  <2> DEFINE node == md[id]
  <2>1. IsNode(node) /\ node.kind = "derived"
    BY <1>2, <1>4 DEF WellFormed
  <2>2. md'[id] = [node EXCEPT !.name = sanitize(node.name)]
    BY <1>3, <1>4 DEF HasName
  <2> HIDE DEF node
  <2>3. node = Derived(node.name, node.tag, node.base, node.offset)
    BY <2>1 DEF IsNode, Composite, Basic, Subprogram, Variable, Block, TupleNode, Subrange
  <2>4. [node EXCEPT !.name = sanitize(node.name)] =
            Derived(sanitize(node.name), node.tag, node.base, node.offset)
    <3> DEFINE name == sanitize(node.name)
    <3> HIDE DEF name
    <3>1. [node EXCEPT !.name = name] = Derived(name, node.tag, node.base, node.offset)
      BY <2>3 DEF Derived
    <3> QED  BY <3>1 DEF name
  <2> QED  BY <2>2, <2>4 DEF node
<1>5. ASSUME NEW s \in Structs
      PROVE  /\ carrier(s) \in DOMAIN md /\ md[carrier(s)].name = s => md'[carrier(s)].name = s
             /\ carried(s) \in DOMAIN md => md'[carried(s)] = md[carried(s)]
             /\ \A k \in DOMAIN Fields[s] : field(s, k) \in DOMAIN md => md'[field(s, k)] = md[field(s, k)]
  <2>1. /\ carrier(s) \in DOMAIN md /\ md[carrier(s)].kind = "composite"
        /\ carried(s) \in DOMAIN md /\ md[carried(s)].kind = "tuple"
        /\ \A k \in DOMAIN Fields[s] :
              /\ field(s, k) \in DOMAIN md
              /\ md[field(s, k)] = Derived(Fields[s][k].name, "member", TypeId(Fields[s][k].type), Offset(s)[k])
              /\ md[field(s, k)].name = Fields[s][k].name /\ md[field(s, k)].kind = "derived"
    <3>1. HasParts(md, s)
      BY CarrierParts
    <3> QED  BY <3>1 DEF HasParts
  <2>2. ASSUME md[carrier(s)].name = s PROVE md'[carrier(s)].name = s
    <3>1. s \notin DOMAIN Sanitized
      BY NamesAssumption
    <3>2. sanitize(md[carrier(s)].name) = s
      BY <2>2, <3>1 DEF sanitize
    <3>3. md'[carrier(s)] = [md[carrier(s)] EXCEPT !.name = s]
      BY <1>3, <2>1, <3>2 DEF HasName
    <3>4. IsNode(md[carrier(s)]) /\ HasName(md[carrier(s)])
      BY <1>2, <2>1 DEF WellFormed, HasName
    <3> QED  BY <3>3, <3>4, RenamedNode
  <2>3. md'[carried(s)] = md[carried(s)]
    BY <1>1, <2>1 DEF Renamed
  <2>4. ASSUME NEW k \in DOMAIN Fields[s] PROVE md'[field(s, k)] = md[field(s, k)]
    <3> DEFINE name == Fields[s][k].name
               type == TypeId(Fields[s][k].type)
               offset == Offset(s)[k]
    <3>1. Fields[s][k] \in Range(Fields[s])
      BY DEF Range
    <3>2. name \notin DOMAIN Sanitized
      BY <3>1, NamesAssumption
    <3>3. sanitize(name) = name
      BY <3>2 DEF sanitize
    <3>4. /\ field(s, k) \in DOMAIN md /\ md[field(s, k)] = Derived(name, "member", type, offset)
          /\ md[field(s, k)].kind = "derived" /\ md[field(s, k)].name = name
      BY <2>1
    <3> HIDE DEF name, type, offset
    <3> DEFINE id == field(s, k)
    <3> HIDE DEF id
    <3>5. md[id].tag = "member" /\ md[id].base = type /\ md[id].offset = offset
      BY <3>4 DEF Derived, id
    <3>6. md'[id] = Derived(sanitize(md[id].name), md[id].tag, md[id].base, md[id].offset)
      BY <1>4, <3>4 DEF id
    <3>7. md'[id] = md[id]
      BY <3>3, <3>4, <3>5, <3>6 DEF id
    <3> QED  BY <3>7 DEF id
  <2> QED  BY <2>1, <2>2, <2>3, <2>4
<1>6. ASSUME NEW id \in DOMAIN md'
      PROVE  /\ md'[id].kind = "derived" => id \in DOMAIN md /\ md'[id].base = md[id].base
             /\ md'[id].kind = "block" => id \in DOMAIN md /\ md'[id].scope = md[id].scope
             /\ md'[id].kind = "subprogram" => id \in DOMAIN md /\ md'[id].retained = md[id].retained
  <2>1. id \in DOMAIN md /\ md'[id].kind = md[id].kind
    BY <1>1 DEF Renamed
  <2>2. md[id].kind = "derived" => md'[id].base = md[id].base
    <3> SUFFICES ASSUME md[id].kind = "derived" PROVE md'[id].base = md[id].base
      OBVIOUS
    <3>1. md'[id] = Derived(sanitize(md[id].name), md[id].tag, md[id].base, md[id].offset)
      BY <1>4, <2>1
    <3>2. \A name, tag, base, offset : Derived(name, tag, base, offset).base = base
      BY DEF Derived
    <3> QED  BY <3>1, <3>2
  <2>3. md[id].kind = "block" => md'[id] = md[id]
    BY <1>1, <2>1 DEF Renamed
  <2>4. md[id].kind = "subprogram" => md'[id].retained = md[id].retained
    BY <1>1, <2>1 DEF Renamed
  <2> QED  BY <2>1, <2>2, <2>3, <2>4
<1>7. /\ \A id \in DOMAIN md : id \in DOMAIN md' /\ md'[id].kind = md[id].kind
      /\ \A id \in DOMAIN md : md[id].kind = "composite" => md'[id].elements = md[id].elements
  BY <1>1 DEF Renamed
<1> QED  BY <1>5, <1>6, <1>7 DEF Carries

LEMMA RecodeCarries ==
    ASSUME GraphInv, RecodeBasicTypes, Carriers(md)
    PROVE  Carries(md, md')
<1>1. DOMAIN md' = DOMAIN md
  BY DEF RecodeBasicTypes
<1>2. ASSUME NEW id \in DOMAIN md PROVE md[id].kind # "basic" => md'[id] = md[id]
  BY DEF RecodeBasicTypes, Kind, KindIn
<1>3. \A id \in DOMAIN md : md'[id].kind = md[id].kind
  <2>1. Renamed(md, md')
    BY Recodes
  <2> QED  BY <2>1 DEF Renamed
<1>4. ASSUME NEW s \in Structs
      PROVE  /\ md'[carrier(s)] = md[carrier(s)] /\ md'[carried(s)] = md[carried(s)]
             /\ \A k \in DOMAIN Fields[s] : md'[field(s, k)] = md[field(s, k)]
  <2>1. /\ carrier(s) \in DOMAIN md /\ md[carrier(s)].kind = "composite"
        /\ carried(s) \in DOMAIN md /\ md[carried(s)].kind = "tuple"
        /\ \A k \in DOMAIN Fields[s] : field(s, k) \in DOMAIN md /\ md[field(s, k)].kind = "derived"
    <3>1. HasParts(md, s)
      BY CarrierParts
    <3> QED  BY <3>1 DEF HasParts
  <2> QED  BY <1>2, <2>1
<1> QED  BY <1>1, <1>2, <1>3, <1>4 DEF Carries

\* Members whose offsets do not fall along a list stay where they are.
LEMMA OrderedSame ==
    ASSUME NEW items, NEW n \in Nat, items = [k \in 1..n |-> items[k]],
           \A k \in 1..n : IsMember(items[k]) /\ md[items[k]].offset \in Nat,
           \A j, k \in 1..n : j <= k => md[items[j]].offset <= md[items[k]].offset
    PROVE  Ordered(items) = items
<1> DEFINE slots == MemberSlots(items)
           rank(j) == Cardinality({i \in slots : Before(items, i, j)})
           place(k) == Cardinality({i \in slots : i < k})
           L == {r \in (1..n) \X (1..n) : r[1] < r[2]}
<1>1. slots = 1..n /\ DOMAIN items = 1..n
  BY DEF MemberSlots
<1>2. ASSUME NEW i \in 1..n, NEW j \in 1..n PROVE Before(items, i, j) <=> i < j
  <2> DEFINE a == md[items[i]].offset
             b == md[items[j]].offset
  <2>1. a \in Nat /\ b \in Nat /\ (i <= j => a <= b) /\ (j <= i => b <= a)
    OBVIOUS
  <2>2. Before(items, i, j) <=> a < b \/ (a = b /\ i < j)
    BY DEF Before
  <2> HIDE DEF a, b
  <2> QED  BY <2>1, <2>2
<1>3. ASSUME NEW j \in 1..n PROVE rank(j) = place(j) /\ place(j) = Rank(L, 1..n, j)
  <2>1. {i \in slots : Before(items, i, j)} = {i \in slots : i < j}
    BY <1>1, <1>2
  <2>2. {i \in slots : i < j} = {i \in 1..n : <<i, j>> \in L}
    BY <1>1
  <2> QED  BY <2>1, <2>2 DEF Rank
<1>4. Ranks(L, 1..n)
  <2>1. \A i, j \in 1..n : <<i, j>> \in L <=> i < j
    OBVIOUS
  <2> HIDE DEF L
  <2>2. Orders(L, 1..n)
    BY <2>1 DEF Orders
  <2>3. IsFiniteSet(1..n)
    BY FS_Interval
  <2> QED  BY <2>2, <2>3, Ranking
<1>5. ASSUME NEW j \in 1..n, NEW k \in 1..n, place(j) = place(k) PROVE j = k
  <2>1. Rank(L, 1..n, j) = Rank(L, 1..n, k)
    BY <1>3, <1>5
  <2>2. Rank(L, 1..n, j) \in 0..(Cardinality(1..n) - 1)
    BY <1>4 DEF Ranks
  <2>6. IsFiniteSet(1..n)
    <3>1. 1 \in Int /\ n \in Int
      OBVIOUS
    <3> QED  BY <3>1, FS_Interval
  <2>3. Cardinality(1..n) \in Nat
    BY <2>6, FS_CardinalityType
  <2>4. Rank(L, 1..n, j) \in Nat
    BY <2>2, <2>3
  <2>5. ~(<<j, k>> \in L) /\ ~(<<k, j>> \in L)
    <3> HIDE DEF L
    <3> QED  BY <1>4, <2>1, <2>4 DEF Ranks
  <2> QED  BY <2>5
<1>6. ASSUME NEW k \in 1..n PROVE (CHOOSE j \in slots : rank(j) = place(k)) = k
  <2> HIDE DEF rank, place, slots
  <2>1. \A j \in slots : rank(j) = place(k) <=> j = k
    BY <1>1, <1>3, <1>5
  <2> QED  BY <1>1, <2>1
<1>7. Ordered(items) = [k \in DOMAIN items |->
                          IF k \in slots THEN items[CHOOSE j \in slots : rank(j) = place(k)] ELSE items[k]]
  BY DEF Ordered
<1>8. Ordered(items) = [k \in 1..n |-> items[k]]
  <2> DEFINE chosen(k) == CHOOSE j \in slots : rank(j) = place(k)
  <2>1. \A k \in 1..n : chosen(k) = k
    BY <1>6
  <2>2. Ordered(items) = [k \in 1..n |-> IF k \in slots THEN items[chosen(k)] ELSE items[k]]
    BY <1>1, <1>7
  <2> HIDE DEF chosen, slots
  <2> QED  BY <2>1, <2>2
<1> QED  BY <1>8

LEMMA SortCarries ==
    ASSUME GraphInv, SortMembers, Carriers(md)
    PROVE  Carries(md, md')
<1>1. WellFormed(md)
  BY DEF GraphInv, SortMembers, BeforePass4
<1>2. DOMAIN md' = DOMAIN md
  BY DEF SortMembers
<1>3. ASSUME NEW id \in DOMAIN md
      PROVE  /\ md[id].kind # "tuple" => md'[id] = md[id]
             /\ md[id].kind = "tuple" =>
                   /\ md'[id].kind = "tuple"
                   /\ md'[id] \in {md[id], TupleNode(Ordered(md[id].items))}
  BY DEF SortMembers, Kind, KindIn, TupleNode
<1>4. ASSUME NEW s \in Structs
      PROVE  /\ md'[carrier(s)] = md[carrier(s)] /\ md'[carried(s)] = md[carried(s)]
             /\ \A k \in DOMAIN Fields[s] : md'[field(s, k)] = md[field(s, k)]
  <2>1. /\ carrier(s) \in DOMAIN md /\ md[carrier(s)].kind = "composite"
        /\ carried(s) \in DOMAIN md /\ md[carried(s)].kind = "tuple"
        /\ md[carried(s)].items = [k \in DOMAIN Fields[s] |-> field(s, k)]
        /\ \A k \in DOMAIN Fields[s] :
              /\ field(s, k) \in DOMAIN md /\ md[field(s, k)].kind = "derived"
              /\ md[field(s, k)].tag = "member" /\ md[field(s, k)].offset = Offset(s)[k]
    <3>1. HasParts(md, s)
      BY CarrierParts
    <3> QED  BY <3>1 DEF HasParts
  <2>2. md'[carried(s)] = md[carried(s)]
    <3> DEFINE items == md[carried(s)].items
    <3>1. PICK n \in Nat : DOMAIN Fields[s] = 1..n
      BY LayoutAssumption
    <3>2. /\ \A k \in 1..n : Offset(s)[k] \in Nat
          /\ \A j, k \in 1..n : j <= k => Offset(s)[j] <= Offset(s)[k]
      BY <3>1, OffsetsGrow
    <3>3. items = [k \in 1..n |-> items[k]] /\ \A k \in 1..n : items[k] = field(s, k)
      BY <2>1, <3>1
    <3>4. \A k \in 1..n : IsMember(items[k]) /\ md[items[k]].offset = Offset(s)[k]
      <4> SUFFICES ASSUME NEW k \in 1..n
                   PROVE  IsMember(field(s, k)) /\ md[field(s, k)].offset = Offset(s)[k]
        BY <3>3
      <4> QED  BY <2>1, <3>1 DEF IsMember, Kind, KindIn
    <3> HIDE DEF items
    <3>5. \A k \in 1..n : IsMember(items[k]) /\ md[items[k]].offset \in Nat
      BY <3>2, <3>4
    <3>6. \A j, k \in 1..n : j <= k => md[items[j]].offset <= md[items[k]].offset
      BY <3>2, <3>4
    <3>7. Ordered(items) = items
      BY <3>3, <3>5, <3>6, OrderedSame
    <3>8. md[carried(s)] = TupleNode(items)
      <4> DEFINE node == md[carried(s)]
      <4>1. IsNode(node) /\ node.kind = "tuple"
        BY <1>1, <2>1 DEF WellFormed
      <4> HIDE DEF node
      <4>2. node = TupleNode(node.items)
        BY <4>1 DEF IsNode, Composite, Derived, Basic, Subprogram, Variable, Block, Subrange
      <4> QED  BY <4>2 DEF node, items
    <3>9. md'[carried(s)] \in {md[carried(s)], TupleNode(Ordered(items))}
      BY <1>3, <2>1 DEF items
    <3> QED  BY <3>7, <3>8, <3>9
  <2> QED  BY <1>3, <2>1, <2>2
<1>5. \A id \in DOMAIN md : md'[id].kind = md[id].kind
  BY <1>3
<1> QED  BY <1>2, <1>3, <1>4, <1>5 DEF Carries

LEMMA NameCarries ==
    ASSUME GraphInv, Held(md), NEW sp \in DOMAIN md, NameParameters(sp)
    PROVE  Carries(md, md')
<1>1. CASE Lacking(sp) = {}
  <2>1. md' = md
    BY <1>1 DEF NameParameters
  <2> QED  BY <2>1, SameCarries
<1>2. CASE Lacking(sp) # {}
  <2> DEFINE retained == md[sp].retained
  <2>1. stage = "parameters" /\ Kind(sp) = "subprogram" /\ md[sp].kind = "subprogram"
    BY DEF NameParameters, Kind, KindIn
  <2>2. Closed(Nodes) /\ Pass4
    BY <2>1 DEF GraphInv
  <2>3. \A id \in DOMAIN md : IsNode(md[id])
    BY <2>2 DEF Closed, Nodes, ++
  <2>4. PICK list : Lengthened(sp, list)
    BY <1>2, <2>2, <2>3, NamedParameters DEF Pass4
  <2>5. CASE Kind(retained) = "tuple"
    <3>1. retained \in DOMAIN md /\ md[retained].kind = "tuple"
      BY <2>5 DEF Kind, KindIn
    <3>2. /\ DOMAIN md' = DOMAIN md /\ md'[retained] = TupleNode(list)
          /\ \A id \in DOMAIN md : id # retained => md'[id] = md[id]
      BY <2>4, <2>5 DEF Lengthened
    <3>3. md'[retained].kind = "tuple"
      BY <3>2 DEF TupleNode
    <3>4. \A s \in Structs : retained # carried(s)
      BY <2>1 DEF Held, Apart, carried
    <3> HIDE DEF retained
    <3>5. \A id \in DOMAIN md : md'[id].kind = md[id].kind /\ (md[id].kind # "tuple" => md'[id] = md[id])
      BY <3>1, <3>2, <3>3
    <3>6. ASSUME NEW s \in Structs
          PROVE  /\ md'[carrier(s)] = md[carrier(s)] /\ md'[carried(s)] = md[carried(s)]
                 /\ \A k \in DOMAIN Fields[s] : md'[field(s, k)] = md[field(s, k)]
      <4>1. HasParts(md, s)
        BY CarrierParts DEF Held
      <4>2. /\ carrier(s) \in DOMAIN md /\ md[carrier(s)].kind # "tuple" /\ carried(s) \in DOMAIN md
            /\ \A k \in DOMAIN Fields[s] : field(s, k) \in DOMAIN md /\ md[field(s, k)].kind # "tuple"
        BY <4>1 DEF HasParts
      <4> QED  BY <3>2, <3>4, <3>5, <4>2
    <3> QED  BY <3>2, <3>5, <3>6 DEF Carries
  <2>6. CASE Kind(retained) # "tuple"
    <3>1. /\ DOMAIN md' = DOMAIN md /\ md'[sp] = [md[sp] EXCEPT !.retained = new_retained(sp)]
          /\ \A id \in DOMAIN md : id # sp => md'[id] = md[id]
      BY <2>4, <2>6 DEF Lengthened
    <3>2. md'[sp].kind = "subprogram" /\ md'[sp].retained = new_retained(sp)
      <4> DEFINE node == md[sp]
      <4>1. IsNode(node) /\ node.kind = "subprogram"
        BY <2>1, <2>3
      <4>2. md'[sp] = [node EXCEPT !.retained = new_retained(sp)]
        BY <3>1
      <4> HIDE DEF node
      <4>3. node = Subprogram(node.name, node.definition, node.types, node.retained)
        BY <4>1 DEF IsNode, Composite, Derived, Basic, Variable, Block, TupleNode, Subrange
      <4> QED  BY <4>2, <4>3 DEF Subprogram
    <3> HIDE DEF retained
    <3>3. \A id \in DOMAIN md : md'[id].kind = md[id].kind /\ (md[id].kind # "subprogram" => md'[id] = md[id])
      BY <2>1, <3>1, <3>2
    <3>4. ASSUME NEW s \in Structs
          PROVE  /\ md'[carrier(s)] = md[carrier(s)] /\ md'[carried(s)] = md[carried(s)]
                 /\ \A k \in DOMAIN Fields[s] : md'[field(s, k)] = md[field(s, k)]
      <4>1. HasParts(md, s)
        BY CarrierParts DEF Held
      <4>2. /\ carrier(s) \in DOMAIN md /\ md[carrier(s)].kind # "subprogram"
            /\ carried(s) \in DOMAIN md /\ md[carried(s)].kind # "subprogram"
            /\ \A k \in DOMAIN Fields[s] : field(s, k) \in DOMAIN md /\ md[field(s, k)].kind # "subprogram"
        BY <4>1 DEF HasParts
      <4> QED  BY <3>3, <4>2
    <3>5. \A id \in DOMAIN md : md'[id].kind = "subprogram" => md'[id].retained \in {md[id].retained, new_retained(id)}
      BY <3>1, <3>2
    <3> QED  BY <3>1, <3>3, <3>4, <3>5 DEF Carries
  <2> QED  BY <2>5, <2>6
<1> QED  BY <1>1, <1>2

LEMMA WriteCarries ==
    ASSUME GraphInv, WriteFixed, Carriers(md)
    PROVE  Carries(md, md')
<1>1. /\ md' = Nodes
      /\ \A id \in DOMAIN md : id \in DOMAIN Nodes /\ Nodes[id] = md[id]
      /\ \A id \in DOMAIN Nodes \ DOMAIN md :
            Nodes[id].kind = "tuple" \/ Nodes[id] = Variable("param", id[3], id[2])
  BY WrittenNodes
<1>2. \A id \in DOMAIN Nodes \ DOMAIN md : Nodes[id].kind \in {"tuple", "variable"}
  BY <1>1 DEF Variable
<1>3. \A id \in DOMAIN md : id \in DOMAIN md' /\ md'[id] = md[id]
  BY <1>1
<1>4. \A id \in DOMAIN md' \ DOMAIN md : md'[id].kind \in {"tuple", "variable"}
  BY <1>1, <1>2
<1>5. ASSUME NEW s \in Structs
      PROVE  /\ carrier(s) \in DOMAIN md => md'[carrier(s)] = md[carrier(s)]
             /\ carried(s) \in DOMAIN md => md'[carried(s)] = md[carried(s)]
             /\ \A k \in DOMAIN Fields[s] : field(s, k) \in DOMAIN md => md'[field(s, k)] = md[field(s, k)]
  BY <1>3
<1> QED  BY <1>3, <1>4, <1>5 DEF Carries

------------------------------------------------------------------------------
(* The lowering of a call. *)

\* A carrier has the name the macro gave it, or got that of its struct back.
CarriersKnown(g) == \A s \in Structs : g[carrier(s)].name \in {CarrierName(s), s}

\* No node is changed but composites on the way, in their names.
LEMMA RestoredNode ==
    ASSUME GraphInv, lower_polyfill, NEW id \in DOMAIN md
    PROVE  /\ id \in DOMAIN md' /\ md'[id].kind = md[id].kind
           /\ md[id].kind # "composite" => md'[id] = md[id]
           /\ md[id].kind = "composite" =>
                 /\ md'[id].elements = md[id].elements
                 /\ md'[id].name =
                       IF /\ \E k \in DOMAIN StepsOf(code[at]) : StepsOf(code[at])[k].type = id
                          /\ md[id].name \in DOMAIN WithoutPrefix
                       THEN WithoutPrefix[md[id].name]
                       ELSE md[id].name
<1> DEFINE steps == StepsOf(code[at])
           way == \E k \in DOMAIN steps : steps[k].type = id
<1>1. Renamed(md, md')
  BY Lowers
<1>2. IsNode(md[id])
  BY DEF GraphInv, lower_polyfill, Looking, BeforePass4, WellFormed
<1>3. md' = Restored(steps)
  BY DEF lower_polyfill
<1> HIDE DEF steps
<1>4. md'[id] = IF way /\ md[id].kind = "composite" /\ md[id].name \in DOMAIN WithoutPrefix
                THEN [md[id] EXCEPT !.name = WithoutPrefix[md[id].name]]
                ELSE md[id]
  BY <1>3 DEF Restored, Kind, KindIn
<1> HIDE DEF way
<1>5. id \in DOMAIN md' /\ md'[id].kind = md[id].kind
  BY <1>1 DEF Renamed
<1>6. md[id].kind = "composite" => md'[id].elements = md[id].elements
  BY <1>1 DEF Renamed
<1>7. ASSUME md[id].kind = "composite"
      PROVE  md'[id].name = IF way /\ md[id].name \in DOMAIN WithoutPrefix
                            THEN WithoutPrefix[md[id].name] ELSE md[id].name
  <2>1. CASE way /\ md[id].name \in DOMAIN WithoutPrefix
    <3>1. HasName(md[id])
      BY <1>7 DEF HasName
    <3>2. md'[id] = [md[id] EXCEPT !.name = WithoutPrefix[md[id].name]]
      BY <1>4, <1>7, <2>1
    <3>3. md'[id].name = WithoutPrefix[md[id].name]
      BY <1>2, <3>1, <3>2, RenamedNode
    <3> QED  BY <2>1, <3>3
  <2>2. CASE ~(way /\ md[id].name \in DOMAIN WithoutPrefix)
    BY <1>4, <2>2
  <2> QED  BY <2>1, <2>2
<1> QED  BY <1>4, <1>5, <1>6, <1>7 DEF steps, way

LEMMA LowerKeeps ==
    ASSUME GraphInv, lower_polyfill
    PROVE  Keeps(md, md')
<1>1. Renamed(md, md')
  BY Lowers
<1> SUFFICES ASSUME NEW id \in DOMAIN md
             PROVE  /\ id \in DOMAIN md' /\ md'[id].kind = md[id].kind
                    /\ md[id].kind \in {"tuple", "derived", "block"} => md'[id] = md[id]
                    /\ md[id].kind = "composite" => md'[id].elements = md[id].elements
                    /\ md[id].kind = "subprogram" => md'[id].types = md[id].types
  BY DEF Keeps
<1>2. /\ id \in DOMAIN md' /\ md'[id].kind = md[id].kind
      /\ md[id].kind # "composite" => md'[id] = md[id]
      /\ md[id].kind = "composite" => md'[id].elements = md[id].elements
  BY RestoredNode
<1> QED  BY <1>2

LEMMA LowerCarries ==
    ASSUME GraphInv, lower_polyfill, Carriers(md), CarriersKnown(md)
    PROVE  Carries(md, md') /\ CarriersKnown(md')
<1>1. DOMAIN md' = DOMAIN md
  <2>1. Renamed(md, md')
    BY Lowers
  <2> QED  BY <2>1 DEF Renamed
<1>2. ASSUME NEW id \in DOMAIN md
      PROVE  /\ id \in DOMAIN md' /\ md'[id].kind = md[id].kind
             /\ md[id].kind # "composite" => md'[id] = md[id]
             /\ md[id].kind = "composite" => md'[id].elements = md[id].elements
  BY RestoredNode
<1>3. ASSUME NEW s \in Structs
      PROVE  /\ carrier(s) \in DOMAIN md /\ md[carrier(s)].kind = "composite"
             /\ carried(s) \in DOMAIN md /\ md[carried(s)].kind = "tuple"
             /\ \A k \in DOMAIN Fields[s] :
                   field(s, k) \in DOMAIN md /\ md[field(s, k)].kind = "derived"
  <2>1. HasParts(md, s)
    BY CarrierParts
  <2> QED  BY <2>1 DEF HasParts
<1>4. ASSUME NEW s \in Structs
      PROVE  /\ md[carrier(s)].name = s => md'[carrier(s)].name = s
             /\ md'[carrier(s)].name \in {CarrierName(s), s}
  <2>1. /\ s \notin DOMAIN WithoutPrefix
        /\ CarrierName(s) \in DOMAIN WithoutPrefix /\ WithoutPrefix[CarrierName(s)] = s
    BY NamesAssumption
  <2>2. \/ md'[carrier(s)].name = md[carrier(s)].name
        \/ /\ md[carrier(s)].name \in DOMAIN WithoutPrefix
           /\ md'[carrier(s)].name = WithoutPrefix[md[carrier(s)].name]
    BY <1>3, RestoredNode
  <2>3. md[carrier(s)].name \in {CarrierName(s), s}
    BY DEF CarriersKnown
  <2> QED  BY <2>1, <2>2, <2>3
<1>5. \A s \in Structs :
         /\ md'[carried(s)] = md[carried(s)]
         /\ \A k \in DOMAIN Fields[s] : md'[field(s, k)] = md[field(s, k)]
  BY <1>2, <1>3
<1>6. \A id \in DOMAIN md' :
         /\ md'[id].kind = "derived" => id \in DOMAIN md /\ md'[id].base = md[id].base
         /\ md'[id].kind = "block" => id \in DOMAIN md /\ md'[id].scope = md[id].scope
         /\ md'[id].kind = "subprogram" => id \in DOMAIN md /\ md'[id].retained = md[id].retained
  BY <1>1, <1>2
<1>7. CarriersKnown(md')
  BY <1>4 DEF CarriersKnown
<1> QED  BY <1>2, <1>4, <1>5, <1>6, <1>7 DEF Carries

\* A call is one of an access and has the types it was written with, or is none.
Meant(g, c) ==
    \/ Other(c, g)
    \/ LET a == c.source IN
       /\ c.nargs = 2 /\ c.callee = Callee(a.op)
       /\ c.scope = block(helper(Callee(a.op), a.root, a.path))
       /\ Readable(g, Callee(a.op), a.root, a.path)

\* The indexes that lead along a path, from the carrier of its root.
IndexesOf(root, path) ==
    [k \in DOMAIN path |-> FieldIndex(DeclaredIn(root, path)[k], path[k])]

\* What is made of a call names the field the source does, of the struct of that name.
Right(g, instr, type, indexes) ==
    LET a == instr.source IN
    /\ a.root \in Structs /\ Typed(a.root, a.path, Len(a.path))
    /\ type = carrier(a.root) /\ indexes = IndexesOf(a.root, a.path)
    /\ g[carrier(a.root)].name = a.root
    /\ instr.kind = IF a.op \in {"exists", "probe"} THEN 2 ELSE 0

IndexesIn(steps) == [k \in DOMAIN steps |-> steps[k].index]

RightInstr(g, instr) ==
    /\ instr.op = "info" => Right(g, instr, instr.steps[1].type, IndexesIn(instr.steps))
    /\ instr.op = "reloc" => Right(g, instr, instr.type, instr.indexes)

\* The names on the way stay.
LEMMA RightKept ==
    ASSUME NEW g, NEW h, Carriers(g), Carries(g, h), NEW instr, RightInstr(g, instr)
    PROVE  RightInstr(h, instr)
<1>1. ASSUME NEW type, NEW indexes, Right(g, instr, type, indexes)
      PROVE  Right(h, instr, type, indexes)
  <2>1. instr.source.root \in Structs /\ g[carrier(instr.source.root)].name = instr.source.root
    BY <1>1 DEF Right
  <2>2. carrier(instr.source.root) \in DOMAIN g
    <3>1. HasParts(g, instr.source.root)
      BY <2>1, CarrierParts
    <3> QED  BY <3>1 DEF HasParts
  <2>3. h[carrier(instr.source.root)].name = instr.source.root
    BY <2>1, <2>2 DEF Carries
  <2> QED  BY <1>1, <2>3 DEF Right
<1> QED  BY <1>1 DEF RightInstr

\* The calls that are left mean what they meant.
LEMMA MeantKept ==
    ASSUME GraphInv, lower_polyfill, NEW c, Meant(md, c)
    PROVE  Meant(md', c)
<1>1. Renamed(md, md') /\ Keeps(md, md')
  BY Lowers, LowerKeeps
<1>2. \A id : KindIn(md', id) = KindIn(md, id) /\ ItemsIn(md', id) = ItemsIn(md, id)
  BY <1>1, SameKinds
<1>3. ASSUME Other(c, md) PROVE Other(c, md')
  <2>1. ASSUME KindIn(md, c.scope) = "subprogram"
        PROVE  md'[c.scope].types = md[c.scope].types
    BY <1>1, <2>1 DEF Renamed, KindIn
  <2> QED  BY <1>2, <1>3, <2>1 DEF Other
<1>4. \A callee, root, path : Readable(md, callee, root, path) => Readable(md', callee, root, path)
  BY <1>1, ReadableKept
<1> QED  BY <1>3, <1>4 DEF Meant

\* What lowering a call makes of it.
LEMMA LowerRight ==
    ASSUME GraphInv, lower_polyfill, Leads(md), Carriers(md), Markers(md), CarriersKnown(md),
           Meant(md, code[at])
    PROVE  RightInstr(md', FieldInfo(code[at], StepsOf(code[at])))
<1> DEFINE c == code[at]
           a == c.source
           steps == StepsOf(c)
           n == Len(a.path)
           instr == FieldInfo(c, steps)
<1>1. IsPolyfill(c) /\ Resolves(c) /\ WellFormed(md)
  BY DEF lower_polyfill, Looking, GraphInv, BeforePass4
<1>2. ~Other(c, md)
  BY <1>1, OtherFails
<1>3. /\ c.nargs = 2 /\ c.callee = Callee(a.op)
      /\ c.scope = block(helper(Callee(a.op), a.root, a.path))
      /\ Readable(md, Callee(a.op), a.root, a.path)
  BY <1>2 DEF Meant
<1>4. a.root \in Structs /\ Typed(a.root, a.path, n)
  BY <1>3 DEF Readable
<1>5. n \in Nat \ {0} /\ DOMAIN a.path = 1..n /\ DeclaredIn(a.root, a.path)[1] = a.root
  BY <1>4 DEF Typed
<1>6. steps = StepsFrom(carrier(a.root), a.path)
  <2> HIDE DEF c
  <2> QED  BY <1>3, CallSteps
<1>7. /\ DOMAIN steps = 1..n
      /\ \A k \in 1..n :
            steps[k] = [type |-> carrier(DeclaredIn(a.root, a.path)[k]),
                        index |-> FieldIndex(DeclaredIn(a.root, a.path)[k], a.path[k])]
  <2> HIDE DEF steps, n
  <2> QED  BY <1>4, <1>6, PathSteps
<1>8. steps[1].type = carrier(a.root)
  <2> HIDE DEF steps, n, a
  <2>1. steps[1].type = carrier(DeclaredIn(a.root, a.path)[1])
    BY <1>5, <1>7
  <2> QED  BY <1>5, <2>1
<1>9. IndexesIn(steps) = IndexesOf(a.root, a.path)
  <2> HIDE DEF steps, n, a
  <2>1. \A k \in 1..n : steps[k].index = FieldIndex(DeclaredIn(a.root, a.path)[k], a.path[k])
    BY <1>7
  <2> QED  BY <1>5, <1>7, <2>1 DEF IndexesIn, IndexesOf
<1>10. md'[carrier(a.root)].name = a.root
  <2>1. /\ carrier(a.root) \in DOMAIN md /\ md[carrier(a.root)].kind = "composite"
    <3>1. HasParts(md, a.root)
      BY <1>4, CarrierParts
    <3> QED  BY <3>1 DEF HasParts
  <2>2. \E k \in DOMAIN steps : steps[k].type = carrier(a.root)
    BY <1>5, <1>7, <1>8
  <2>3. md'[carrier(a.root)].name =
            IF md[carrier(a.root)].name \in DOMAIN WithoutPrefix
            THEN WithoutPrefix[md[carrier(a.root)].name] ELSE md[carrier(a.root)].name
    BY <2>1, <2>2, RestoredNode
  <2>4. md[carrier(a.root)].name \in {CarrierName(a.root), a.root}
    BY <1>4 DEF CarriersKnown
  <2>5. /\ a.root \notin DOMAIN WithoutPrefix
        /\ CarrierName(a.root) \in DOMAIN WithoutPrefix
        /\ WithoutPrefix[CarrierName(a.root)] = a.root
    BY <1>4, NamesAssumption
  <2> QED  BY <2>3, <2>4, <2>5
<1>11. field_info_kind[c.callee] = IF a.op \in {"exists", "probe"} THEN 2 ELSE 0
  BY <1>3 DEF field_info_kind, Callee
<1>12. /\ instr.op = "info" /\ instr.kind = field_info_kind[c.callee]
       /\ instr.steps = steps /\ instr.source = a
  BY DEF FieldInfo
<1> HIDE DEF c, a, steps, n, instr
<1>13. Right(md', instr, instr.steps[1].type, IndexesIn(instr.steps))
  <2>1. instr.source.root = a.root /\ n = Len(instr.source.path)
    BY <1>12 DEF n
  <2> QED  BY <1>4, <1>8, <1>9, <1>10, <1>11, <1>12, <2>1 DEF Right
<1>14. RightInstr(md', instr)
  BY <1>12, <1>13 DEF RightInstr
<1> QED  BY <1>14 DEF instr, steps, c

------------------------------------------------------------------------------
(* The inductive invariant. *)

\* What is read of the graph stays as it was made, the calls that are left mean what the
\* source does, and what the others became names it.
TargetInv ==
    /\ Held(md)
    /\ stage = "reloc" =>
          /\ Markers(md) /\ CarriersKnown(md)
          /\ \A i \in DOMAIN code : code[i].op = "call" => Meant(md, code[i])
    /\ \A i \in DOMAIN code : RightInstr(md, code[i])

LEMMA TargetInit == Init => TargetInv
<1> SUFFICES ASSUME Init PROVE TargetInv
  OBVIOUS
<1>1. PICK p \in Programs :
         /\ md = p.nodes ++ AccessNodes(Range(p.probes \o p.accesses))
         /\ code = Calls(p.probes, p.accesses) \o p.calls
  BY DEF Init
<1> DEFINE accesses == Range(p.probes \o p.accesses)
<1>2. Ready(md, accesses, Range(p.calls))
  BY <1>1, InputReady
<1>3. Range(p.probes) \union Range(p.accesses) \subseteq accesses
  <2> DEFINE U == Range(p.probes) \union Range(p.accesses)
  <2>1. p.probes \in Seq(Range(p.probes)) /\ p.accesses \in Seq(Range(p.accesses))
    BY ProgramsAssumption
  <2>2. p.probes \in Seq(U) /\ p.accesses \in Seq(U)
    BY <2>1
  <2> HIDE DEF U
  <2>3. accesses = Range(p.probes) \union Range(p.accesses)
    BY <2>2, JoinedRange
  <2> QED  BY <2>3
<1>4. \A i \in DOMAIN code :
         /\ code[i].op = "call"
         /\ \/ \E x \in Range(p.probes) \union Range(p.accesses) : code[i] = Call(x, code[i].after)
            \/ code[i] \in Range(p.calls)
  BY <1>1, CallsMade
<1>5. Held(md) /\ Markers(md)
  BY <1>2 DEF Ready, Held
<1>6. CarriersKnown(md)
  BY <1>2 DEF Ready, CarriersNamed, CarriersKnown
<1>7. ASSUME NEW i \in DOMAIN code PROVE Meant(md, code[i])
  <2>1. CASE code[i] \in Range(p.calls)
    BY <1>2, <2>1 DEF Ready, Meant
  <2>2. ASSUME NEW x \in Range(p.probes) \union Range(p.accesses), code[i] = Call(x, code[i].after)
        PROVE  Meant(md, code[i])
    <3>1. Readable(md, Callee(x.op), x.root, x.path)
      BY <1>2, <1>3 DEF Ready
    <3>2. ASSUME NEW after
          PROVE  /\ Call(x, after).nargs = 2 /\ Call(x, after).callee = Callee(x.op)
                 /\ Call(x, after).scope = block(helper(Callee(x.op), x.root, x.path))
                 /\ Call(x, after).source = x
      BY DEF Call
    <3>3. /\ code[i].nargs = 2 /\ code[i].callee = Callee(x.op)
          /\ code[i].scope = block(helper(Callee(x.op), x.root, x.path))
          /\ code[i].source = x
      BY <2>2, <3>2
    <3> QED  BY <3>1, <3>3 DEF Meant
  <2> QED  BY <1>4, <2>1, <2>2
<1>8. \A i \in DOMAIN code : RightInstr(md, code[i])
  BY <1>4 DEF RightInstr
<1> QED  BY <1>5, <1>6, <1>7, <1>8 DEF TargetInv

\* A pass over the graph that changes no instruction.
LEMMA FixupKeeps ==
    ASSUME TargetInv, Carries(md, md'), UNCHANGED code, stage' # "reloc"
    PROVE  TargetInv'
<1>1. Held(md) /\ Carriers(md)
  BY DEF TargetInv, Held
<1>2. Held(md')
  BY <1>1, HeldOn
<1>3. \A i \in DOMAIN code : RightInstr(md', code[i])
  BY <1>1, RightKept DEF TargetInv
<1> QED  BY <1>2, <1>3 DEF TargetInv

LEMMA LowerTarget ==
    ASSUME GraphInv, TargetInv, LoweredInv, CodeInv, lower_polyfill
    PROVE  TargetInv'
<1>1. /\ Held(md) /\ Leads(md) /\ Carriers(md) /\ Markers(md) /\ CarriersKnown(md)
      /\ at \in DOMAIN code /\ stage = "reloc" /\ stage' = "reloc" /\ IsPolyfill(code[at])
  BY DEF TargetInv, Held, lower_polyfill, Looking
<1>2. Carries(md, md') /\ CarriersKnown(md') /\ Keeps(md, md')
  BY <1>1, LowerCarries, LowerKeeps
<1>3. Held(md') /\ Markers(md')
  BY <1>1, <1>2, HeldOn, MarkersKept
<1>4. Meant(md, code[at])
  BY <1>1 DEF TargetInv, IsPolyfill
<1>5. RightInstr(md', FieldInfo(code[at], StepsOf(code[at])))
  BY <1>1, <1>4, LowerRight
<1>6. code' = [code EXCEPT ![at] = FieldInfo(code[at], StepsOf(code[at]))]
  BY DEF lower_polyfill
<1>7. FieldInfo(code[at], StepsOf(code[at])).op = "info"
  BY DEF FieldInfo
<1>8. DOMAIN code' = DOMAIN code /\ \A i \in DOMAIN code : i # at => code'[i] = code[i]
  BY <1>6
<1>9. code'[at] = FieldInfo(code[at], StepsOf(code[at]))
  BY <1>1, <1>6
<1>10. ASSUME NEW i \in DOMAIN code PROVE RightInstr(md', code'[i])
  <2>1. CASE i = at
    BY <1>5, <1>9, <2>1
  <2>2. CASE i # at
    <3>1. RightInstr(md, code[i])
      BY DEF TargetInv
    <3>2. RightInstr(md', code[i])
      BY <1>1, <1>2, <3>1, RightKept
    <3> QED  BY <1>8, <2>2, <3>2
  <2> QED  BY <2>1, <2>2
<1>11. ASSUME NEW i \in DOMAIN code, code'[i].op = "call" PROVE Meant(md', code'[i])
  <2>1. i # at
    BY <1>7, <1>9, <1>11
  <2>2. Meant(md, code[i])
    BY <1>1, <1>8, <1>11, <2>1 DEF TargetInv
  <2>3. Meant(md', code[i])
    BY <2>2, MeantKept
  <2> QED  BY <1>8, <2>1, <2>3
<1> QED  BY <1>2, <1>3, <1>8, <1>10, <1>11 DEF TargetInv

\* opt takes the type of the first access, and the indexes of all.
LEMMA OptTarget ==
    ASSUME TargetInv, opt
    PROVE  TargetInv'
<1>1. UNCHANGED md /\ stage' # "reloc" /\ DOMAIN code' = DOMAIN code
  BY DEF opt
<1>2. ASSUME NEW i \in DOMAIN code PROVE RightInstr(md, code'[i])
  <2>1. RightInstr(md, code[i])
    BY DEF TargetInv
  <2>2. CASE code[i].op # "info"
    <3>1. code'[i] = code[i]
      BY <2>2 DEF opt
    <3> QED  BY <2>1, <3>1
  <2>3. CASE code[i].op = "info"
    <3>1. code'[i] = [op |-> "reloc", kind |-> code[i].kind, type |-> code[i].steps[1].type,
                      indexes |-> IndexesIn(code[i].steps),
                      source |-> code[i].source, after |-> code[i].after]
      BY <2>3 DEF opt, IndexesIn
    <3>2. Right(md, code[i], code[i].steps[1].type, IndexesIn(code[i].steps))
      BY <2>1, <2>3 DEF RightInstr
    <3>3. /\ code'[i].op = "reloc" /\ code'[i].kind = code[i].kind
          /\ code'[i].type = code[i].steps[1].type /\ code'[i].indexes = IndexesIn(code[i].steps)
          /\ code'[i].source = code[i].source
      BY <3>1
    <3>4. Right(md, code'[i], code'[i].type, code'[i].indexes)
      BY <3>2, <3>3 DEF Right
    <3> QED  BY <3>3, <3>4 DEF RightInstr
  <2> QED  BY <2>2, <2>3
<1> QED  BY <1>1, <1>2 DEF TargetInv

LEMMA TargetStep == GraphInv /\ CodeInv /\ LoweredInv /\ TargetInv /\ [Next]_vars => TargetInv'
<1> SUFFICES ASSUME GraphInv, CodeInv, LoweredInv, TargetInv, [Next]_vars PROVE TargetInv'
  OBVIOUS
<1>0. Held(md) /\ Carriers(md)
  BY DEF TargetInv, Held
<1>1. CASE UNCHANGED <<md, code>> /\ (stage' = "reloc" => stage = "reloc")
  BY <1>1 DEF TargetInv
<1>2. CASE lower_polyfill
  BY <1>2, LowerTarget
<1>3. CASE opt
  BY <1>3, OptTarget
<1>4. CASE SanitizeNames
  BY <1>0, <1>4, SanitizeCarries, FixupKeeps DEF SanitizeNames
<1>5. CASE RecodeBasicTypes
  BY <1>0, <1>5, RecodeCarries, FixupKeeps DEF RecodeBasicTypes
<1>6. CASE SortMembers
  BY <1>0, <1>6, SortCarries, FixupKeeps DEF SortMembers
<1>7. ASSUME NEW sp \in DOMAIN md, NameParameters(sp) PROVE TargetInv'
  <2>1. Carries(md, md')
    BY <1>0, <1>7, NameCarries
  <2>2. UNCHANGED code /\ stage' # "reloc"
    BY <1>7 DEF NameParameters
  <2> QED  BY <2>1, <2>2, FixupKeeps
<1>8. CASE WriteFixed
  BY <1>0, <1>8, WriteCarries, FixupKeeps DEF WriteFixed
<1>9. CASE PassOver \/ GiveUp \/ WriteModule \/ Load \/ UNCHANGED vars
  BY <1>1, <1>9 DEF PassOver, GiveUp, WriteModule, Load, Looking, vars
<1> QED  BY <1>2, <1>3, <1>4, <1>5, <1>6, <1>7, <1>8, <1>9 DEF Next, RelocNext, FixupNext

LEMMA TargetAlways == Spec => []TargetInv
BY TargetInit, TargetStep, GraphAlways, CodeAlways, LoweredAlways, PTL DEF Spec

------------------------------------------------------------------------------
(* The fields that libbpf looks up. *)

\* The indexes of a path lead along its fields.
LEMMA NamesAlong ==
    ASSUME Leads(md), Carriers(md), NEW root, NEW path, NEW n, Typed(root, path, n),
           NEW indexes, indexes = IndexesOf(root, path)
    PROVE  Names(carrier(root), indexes) = path
<1> DEFINE struct == DeclaredIn(root, path)
           below(m) == UnderlyingComposite(m)
           Rhs(g, k) == elements(IF k = 1 THEN carrier(root) ELSE below(g[k - 1]))[indexes[k]]
           Is(g) == g = [k \in DOMAIN indexes |-> Rhs(g, k)]
           at_(k) == field(struct[k], indexes[k])
           w == [k \in DOMAIN indexes |-> at_(k)]
           f == CHOOSE g : Is(g)
<1>1. n \in Nat \ {0} /\ path \in Seq(Range(path)) /\ DOMAIN path = 1..n /\ struct[1] = root
  BY DEF Typed
<1>0. /\ DOMAIN indexes = 1..n
      /\ \A k \in 1..n : indexes[k] = FieldIndex(struct[k], path[k])
  BY <1>1 DEF IndexesOf
<1>2. ASSUME NEW k \in 1..n
      PROVE  /\ struct[k] \in Structs /\ indexes[k] \in DOMAIN Fields[struct[k]]
             /\ Fields[struct[k]][indexes[k]].name = path[k]
             /\ k < n => Fields[struct[k]][indexes[k]].type = struct[k + 1]
  BY <1>0 DEF Typed
<1>3. Names(carrier(root), indexes) = [k \in DOMAIN indexes |-> md[f[k]].name]
  BY DEF Names
<1> HIDE DEF struct
<1>4. ASSUME NEW k \in 1..n
      PROVE  elements(carrier(struct[k]))[indexes[k]] = at_(k) /\ md[at_(k)].name = path[k]
  <2> DEFINE s == struct[k]
             i == indexes[k]
  <2>1. s \in Structs /\ i \in DOMAIN Fields[s] /\ Fields[s][i].name = path[k]
    BY <1>2
  <2> HIDE DEF s, i
  <2>2. ReadsAs(carrier(s), Len(Fields[s]), CarrierFields(s)) /\ i \in 1..Len(Fields[s])
    BY <2>1, CarrierRead, LayoutAssumption
  <2>3. CarrierFields(s)[i].name = Fields[s][i].name
    BY <2>1 DEF CarrierFields
  <2>4. elements(carrier(s))[i] = field(s, i) /\ md[field(s, i)].name = path[k]
    BY <2>1, <2>2, <2>3 DEF ReadsAs, field
  <2> QED  BY <2>4 DEF s, i
<1>5. ASSUME NEW k \in 1..n, k # n PROVE below(at_(k)) = carrier(struct[k + 1])
  <2> DEFINE s == struct[k]
             i == indexes[k]
  <2>1. k + 1 \in 1..n /\ k < n
    BY <1>1, <1>5
  <2>2. /\ s \in Structs /\ i \in DOMAIN Fields[s]
        /\ Fields[s][i].type = struct[k + 1] /\ struct[k + 1] \in Structs
    BY <1>2, <2>1
  <2>3. elements(carrier(s))[i] = at_(k)
    BY <1>4
  <2> HIDE DEF s, i
  <2>4. UnderlyingComposite(elements(carrier(s))[i]) = carrier(struct[k + 1])
    BY <2>2, NextCarrier
  <2> HIDE DEF at_
  <2> QED  BY <2>3, <2>4
<1> HIDE DEF below, at_
<1>6. ASSUME NEW k \in 1..n PROVE w[k] = Rhs(w, k)
  <2>1. CASE k = 1
    BY <1>0, <1>1, <1>4, <2>1
  <2>2. CASE k # 1
    <3>1. k - 1 \in 1..n /\ k - 1 # n /\ (k - 1) + 1 = k
      BY <1>1, <2>2
    <3>2. w[k] = at_(k) /\ w[k - 1] = at_(k - 1)
      BY <1>0, <3>1
    <3>3. below(at_(k - 1)) = carrier(struct[k])
      BY <1>5, <3>1
    <3> HIDE DEF w
    <3> QED  BY <1>4, <2>2, <3>2, <3>3
  <2> QED  BY <2>1, <2>2
<1>7. Is(w)
  <2>1. w = [k \in DOMAIN indexes |-> w[k]]
    OBVIOUS
  <2> HIDE DEF w, Rhs
  <2> QED  BY <1>0, <1>6, <2>1
<1>8. Is(f)
  <2> HIDE DEF Is
  <2> QED  BY <1>7
<1>9. \A k \in 1..n : f[k] = Rhs(f, k)
  <2> HIDE DEF f, Rhs
  <2> QED  BY <1>0, <1>8
<1> HIDE DEF f
<1>10. \A k \in 1..n : f[k] = at_(k)
  <2> DEFINE T == {k \in Nat : k \in 1..n => f[k] = at_(k)}
  <2>1. 0 \in T
    OBVIOUS
  <2>2. ASSUME NEW k \in Nat, k \in T PROVE k + 1 \in T
    <3> SUFFICES ASSUME k + 1 \in 1..n PROVE f[k + 1] = at_(k + 1)
      OBVIOUS
    <3>1. CASE k = 0
      <4>1. f[1] = at_(1)
        BY <1>1, <1>4, <1>9
      <4> QED  BY <3>1, <4>1
    <3>2. CASE k # 0
      <4>1. k \in 1..n /\ k # n /\ k + 1 # 1 /\ (k + 1) - 1 = k
        BY <1>1, <3>2
      <4>2. f[k] = at_(k)
        BY <2>2, <4>1
      <4>3. f[k + 1] = elements(below(f[k]))[indexes[k + 1]]
        BY <1>9, <4>1
      <4>4. below(at_(k)) = carrier(struct[k + 1])
        BY <1>5, <4>1
      <4> QED  BY <1>4, <4>2, <4>3, <4>4
    <3> QED  BY <3>1, <3>2
  <2> HIDE DEF T
  <2>3. \A k \in Nat : k \in T
    BY <2>1, <2>2, Counting
  <2> QED  BY <2>3 DEF T
<1>11. \A k \in 1..n : md[f[k]].name = path[k]
  BY <1>4, <1>10
<1>12. path = [k \in 1..n |-> path[k]]
  BY <1>1
<1> QED  BY <1>0, <1>3, <1>11, <1>12

\* What libbpf looks up for a relocation is what the source asked for.
LEMMA TargetFound ==
    ASSUME TargetInv, NEW i \in Relocs
    PROVE  /\ Target(i) = Asked(i)
           /\ code[i].kind = IF code[i].source.op \in {"exists", "probe"} THEN 2 ELSE 0
<1> DEFINE instr == code[i]
           a == instr.source
           n == Len(a.path)
<1>1. i \in DOMAIN code /\ instr.op = "reloc"
  BY DEF Relocs
<1>2. Right(md, instr, instr.type, instr.indexes)
  BY <1>1 DEF TargetInv, RightInstr
<1>3. /\ a.root \in Structs /\ Typed(a.root, a.path, n)
      /\ instr.type = carrier(a.root) /\ instr.indexes = IndexesOf(a.root, a.path)
      /\ md[carrier(a.root)].name = a.root
      /\ instr.kind = IF a.op \in {"exists", "probe"} THEN 2 ELSE 0
  BY <1>2 DEF Right
<1>4. Leads(md) /\ Carriers(md)
  BY DEF TargetInv, Held
<1>5. Names(instr.type, instr.indexes) = a.path
  <2> HIDE DEF n, a, instr
  <2>1. Names(carrier(a.root), instr.indexes) = a.path
    BY <1>3, <1>4, NamesAlong
  <2> QED  BY <1>3, <2>1
<1>6. Target(i) = Asked(i)
  BY <1>3, <1>5 DEF Target, Asked
<1> QED  BY <1>3, <1>6

\* Each relocation names the field its access names in the source, by the names of the
\* kernel, for any structs, paths and accesses: through path types and back (field_reloc.rs
\* 217-283), indexes (287-305), carriers (307-316) and sorted members (btf_fixup.py
\* 184-191).
THEOREM TargetsRight == Spec => []RelocsNameTheSource
<1>1. TargetInv => RelocsNameTheSource
  BY TargetFound DEF RelocsNameTheSource
<1> QED  BY <1>1, TargetAlways, PTL

\* A program that gets fields in required views only loads on every kernel for which its
\* profile keeps its promise, for any structs, profiles and kernels (btf lib.rs 67-71,
\* 97-100; btf-macros lib.rs 152-162).
THEOREM RequiredLoad == Spec => []RequiredLoads
<1>1. Init => Refusal
  BY DEF Init, Refusal
<1>2. Spec => []Refusal
  BY <1>1, RefusalStep, PTL DEF Spec
<1>3. GraphInv /\ CodeInv /\ Refusal /\ RelocsNameTheSource => RequiredLoads
  BY PromiseKept
<1> QED  BY <1>2, <1>3, GraphAlways, CodeAlways, TargetsRight, PTL
==============================================================================

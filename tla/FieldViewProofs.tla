---------------------------- MODULE FieldViewProofs ----------------------------
(***************************************************************************)
(* Where the views of a program point, and that what a profile promises is *)
(* enough to read, for any schemas, profiles and kernels.                  *)
(***************************************************************************)
EXTENDS FieldView, WellFoundedInduction, TLAPS

------------------------------------------------------------------------------
(* Paths: the types, the offsets and the views along them. *)

\* What holds of zero and of the successor of each number it holds of holds of all.
LEMMA Counting ==
    ASSUME NEW T, 0 \in T, \A n \in Nat : n \in T => n + 1 \in T
    PROVE  \A n \in Nat : n \in T
<1> SUFFICES ASSUME Nat \ T # {} PROVE FALSE
  OBVIOUS
<1>1. PICK x \in Nat \ T : \A y \in Nat \ T : ~(<<y, x>> \in OpToRel(<, Nat))
  BY WFMin, NatLessThanWellFounded, Zenon
<1>2. x \in Nat \ {0} /\ x - 1 \in Nat /\ x - 1 < x
  OBVIOUS
<1>3. x - 1 \in T
  BY <1>1, <1>2 DEF OpToRel
<1> QED  BY <1>2, <1>3

\* The definition of the types along a path, unfolded.
LEMMA TypesAlongPath ==
    ASSUME NEW root, NEW path, Len(path) \in Nat
    PROVE  LET type == TypesAlong(root, path) IN
           /\ type[0] = root
           /\ \A i \in 1..Len(path) : type[i] = Schemas[type[i - 1]].fields[path[i]]
<1> DEFINE Rhs(g, i) == IF i = 0 THEN root ELSE Schemas[g[i - 1]].fields[path[i]]
           Upto(m, g) == g = [i \in 0..m |-> Rhs(g, i)]
           T == {m \in Nat : \E g : Upto(m, g)}
<1>1. 0 \in T
  <2> DEFINE h == [i \in 0..0 |-> root]
  <2>1. \A i \in 0..0 : h[i] = Rhs(h, i)
    OBVIOUS
  <2> HIDE DEF Rhs
  <2>2. Upto(0, h)
    BY <2>1
  <2> HIDE DEF Upto
  <2> QED  BY <2>2
<1>2. \A m \in Nat : m \in T => m + 1 \in T
  <2> HIDE DEF Upto
  <2> SUFFICES ASSUME NEW m \in Nat, NEW g, Upto(m, g) PROVE \E h : Upto(m + 1, h)
    OBVIOUS
  <2> HIDE DEF Rhs
  <2> DEFINE h == [i \in 0..(m + 1) |-> IF i = m + 1 THEN Rhs(g, m + 1) ELSE g[i]]
  <2>1. h[m + 1] = Rhs(g, m + 1) /\ \A i \in 0..m : h[i] = g[i]
    OBVIOUS
  <2>2. \A i \in 0..m : g[i] = Rhs(g, i)
    BY DEF Upto
  <2>3. ASSUME NEW i \in 0..(m + 1) PROVE Rhs(h, i) = Rhs(g, i)
    <3>1. CASE i = 0
      BY <3>1 DEF Rhs
    <3>2. CASE i \in 1..(m + 1)
      <4>1. i # 0 /\ i - 1 \in 0..m
        BY <3>2
      <4>2. h[i - 1] = g[i - 1]
        BY <2>1, <4>1
      <4> HIDE DEF h
      <4> QED  BY <4>1, <4>2 DEF Rhs
    <3> QED  BY <3>1, <3>2
  <2>4. \A i \in 0..(m + 1) : h[i] = Rhs(h, i)
    <3> HIDE DEF h
    <3>1. \A i \in 0..(m + 1) : i = m + 1 \/ i \in 0..m
      OBVIOUS
    <3> QED  BY <2>1, <2>2, <2>3, <3>1
  <2>5. Upto(m + 1, h)
    BY <2>4 DEF Upto
  <2> QED  BY <2>5
<1>3. PICK some : Upto(Len(path), some)
  <2> HIDE DEF Upto
  <2>1. Len(path) \in T
    <3> HIDE DEF T
    <3> QED  BY <1>1, <1>2, Counting
  <2> QED  BY <2>1
<1> DEFINE type == TypesAlong(root, path)
<1>4. Upto(Len(path), type)
  BY <1>3 DEF TypesAlong
<1> HIDE DEF type, Rhs
<1>5. \A i \in 0..Len(path) : type[i] = Rhs(type, i)
  BY <1>4
<1>6. type[0] = root
  <2>1. type[0] = Rhs(type, 0)
    BY <1>5
  <2> QED  BY <2>1 DEF Rhs
<1>7. ASSUME NEW i \in 1..Len(path) PROVE type[i] = Schemas[type[i - 1]].fields[path[i]]
  <2>1. type[i] = Rhs(type, i) /\ i # 0
    BY <1>5
  <2> QED  BY <2>1 DEF Rhs
<1> QED  BY <1>6, <1>7 DEF type

\* A field added to a path leaves the types in front of it alone.
LEMMA TypesAlongAppend ==
    ASSUME NEW root, NEW P, NEW path \in Seq(P), NEW f \in P
    PROVE  LET type == TypesAlong(root, path)
               longer == TypesAlong(root, Append(path, f)) IN
           /\ \A i \in 0..Len(path) : longer[i] = type[i]
           /\ longer[Len(path) + 1] = Schemas[type[Len(path)]].fields[f]
<1> DEFINE n == Len(path)
           q == Append(path, f)
           type == TypesAlong(root, path)
           longer == TypesAlong(root, q)
           T == {i \in Nat : i <= n => longer[i] = type[i]}
<1>1. n \in Nat /\ Len(q) = n + 1 /\ q[n + 1] = f /\ \A i \in 1..n : q[i] = path[i]
  OBVIOUS
<1>2. /\ type[0] = root
      /\ \A i \in 1..n : type[i] = Schemas[type[i - 1]].fields[path[i]]
  BY <1>1, TypesAlongPath
<1>3. /\ longer[0] = root
      /\ \A i \in 1..(n + 1) : longer[i] = Schemas[longer[i - 1]].fields[q[i]]
  <2> HIDE DEF n, q
  <2> QED  BY <1>1, TypesAlongPath
<1> HIDE DEF n, q, type, longer
<1>4. 0 \in T
  BY <1>2, <1>3
<1>5. \A i \in Nat : i \in T => i + 1 \in T
  <2> SUFFICES ASSUME NEW i \in Nat, i \in T, i + 1 <= n PROVE longer[i + 1] = type[i + 1]
    OBVIOUS
  <2>1. longer[i] = type[i] /\ i + 1 \in 1..n
    BY <1>1
  <2>2. type[i + 1] = Schemas[type[i]].fields[path[i + 1]]
    BY <1>2, <2>1
  <2>3. longer[i + 1] = Schemas[longer[i]].fields[q[i + 1]]
    BY <1>1, <1>3, <2>1
  <2> QED  BY <1>1, <2>1, <2>2, <2>3
<1>6. \A i \in Nat : i \in T
  <2> HIDE DEF T
  <2> QED  BY <1>4, <1>5, Counting
<1>7. \A i \in 0..n : longer[i] = type[i]
  BY <1>1, <1>6
<1>8. longer[n + 1] = Schemas[type[n]].fields[f]
  BY <1>1, <1>3, <1>7
<1> QED  BY <1>7, <1>8 DEF n, q, type, longer

\* The kernel places a field it has at a number of bytes.
LEMMA OffsetIsNumber ==
    ASSUME NEW k \in Kernels, NEW root, NEW path, Len(path) \in Nat,
           DOMAIN path = 1..Len(path), Exists(k, root, path)
    PROVE  ByteOffset(k, root, path) \in Nat
<1> DEFINE off(i) == FieldsOf(k, TypesAlong(root, path)[i - 1])[path[i]]
<1>0. \A i \in 1..Len(path) : off(i) \in Nat
  <2> SUFFICES ASSUME NEW i \in 1..Len(path) PROVE off(i) \in Nat
    OBVIOUS
  <2> DEFINE s == TypesAlong(root, path)[i - 1]
  <2>1. path[i] \in DOMAIN FieldsOf(k, s)
    BY DEF Exists
  <2> HIDE DEF s
  <2>2. Essential[s] \in DOMAIN k /\ FieldsOf(k, s) = k[Essential[s]]
    BY <2>1 DEF FieldsOf
  <2>3. FieldsOf(k, s)[path[i]] \in Nat
    BY <2>1, <2>2, FieldViewAssumption
  <2> QED  BY <2>3 DEF s
<1> HIDE DEF off
<1> DEFINE Rhs(g, i) == IF i = 0 THEN 0 ELSE g[i - 1] + off(i)
           Upto(m, g) == g = [i \in 0..m |-> Rhs(g, i)]
           T == {m \in Nat : \E g : Upto(m, g)}
<1>1. 0 \in T
  <2> DEFINE h == [i \in 0..0 |-> 0]
  <2>1. \A i \in 0..0 : h[i] = Rhs(h, i)
    OBVIOUS
  <2> HIDE DEF Rhs
  <2>2. Upto(0, h)
    BY <2>1
  <2> HIDE DEF Upto
  <2> QED  BY <2>2
<1>2. \A m \in Nat : m \in T => m + 1 \in T
  <2> HIDE DEF Upto
  <2> SUFFICES ASSUME NEW m \in Nat, NEW g, Upto(m, g) PROVE \E h : Upto(m + 1, h)
    OBVIOUS
  <2> HIDE DEF Rhs
  <2> DEFINE h == [i \in 0..(m + 1) |-> IF i = m + 1 THEN Rhs(g, m + 1) ELSE g[i]]
  <2>1. h[m + 1] = Rhs(g, m + 1) /\ \A i \in 0..m : h[i] = g[i]
    OBVIOUS
  <2>2. \A i \in 0..m : g[i] = Rhs(g, i)
    BY DEF Upto
  <2>3. ASSUME NEW i \in 0..(m + 1) PROVE Rhs(h, i) = Rhs(g, i)
    <3>1. CASE i = 0
      BY <3>1 DEF Rhs
    <3>2. CASE i \in 1..(m + 1)
      <4>1. i # 0 /\ i - 1 \in 0..m
        BY <3>2
      <4>2. h[i - 1] = g[i - 1]
        BY <2>1, <4>1
      <4> HIDE DEF h
      <4> QED  BY <4>1, <4>2 DEF Rhs
    <3> QED  BY <3>1, <3>2
  <2>4. \A i \in 0..(m + 1) : h[i] = Rhs(h, i)
    <3> HIDE DEF h
    <3>1. \A i \in 0..(m + 1) : i = m + 1 \/ i \in 0..m
      OBVIOUS
    <3> QED  BY <2>1, <2>2, <2>3, <3>1
  <2>5. Upto(m + 1, h)
    BY <2>4 DEF Upto
  <2> QED  BY <2>5
<1>3. PICK some : Upto(Len(path), some)
  <2> HIDE DEF Upto
  <2>1. Len(path) \in T
    <3> HIDE DEF T
    <3> QED  BY <1>1, <1>2, Counting
  <2> QED  BY <2>1
<1> DEFINE upto == CHOOSE g : Upto(Len(path), g)
<1>4. Upto(Len(path), upto)
  BY <1>3
<1>5. ByteOffset(k, root, path) = upto[Len(path)]
  BY DEF ByteOffset, off
<1> HIDE DEF upto, Rhs
<1>6. \A i \in 0..Len(path) : upto[i] = Rhs(upto, i)
  BY <1>4
<1> DEFINE U == {n \in Nat : n <= Len(path) => upto[n] \in Nat}
<1>7. 0 \in U
  <2>1. upto[0] = Rhs(upto, 0)
    BY <1>6
  <2> QED  BY <2>1 DEF Rhs
<1>8. \A n \in Nat : n \in U => n + 1 \in U
  <2> SUFFICES ASSUME NEW n \in Nat, n \in U, n + 1 <= Len(path) PROVE upto[n + 1] \in Nat
    OBVIOUS
  <2>1. upto[n + 1] = Rhs(upto, n + 1) /\ upto[n] \in Nat
    BY <1>6
  <2>2. Rhs(upto, n + 1) = upto[n] + off(n + 1)
    BY DEF Rhs
  <2>3. off(n + 1) \in Nat
    BY <1>0
  <2> QED  BY <2>1, <2>2, <2>3
<1>9. Len(path) \in U
  <2> HIDE DEF U
  <2> QED  BY <1>7, <1>8, Counting
<1> QED  BY <1>5, <1>9

\* A discriminator asks for the path it is declared with.
LEMMA ProbeAsksItsPath ==
    ASSUME NEW probe, probe.path \in Seq(STRING)
    PROVE  ProbeView(probe).root = probe.root /\ ProbeView(probe).path = probe.path
<1> DEFINE n == Len(probe.path)
           first == __btf_probe(probe.root)
<1>0. n \in Nat /\ DOMAIN probe.path = 1..n /\ \A i \in 1..n : probe.path[i] \in STRING
  OBVIOUS
<1> HIDE DEF first, n
<1> DEFINE Rhs(g, i) == IF i = 0 THEN first ELSE __btf_field(g[i - 1], probe.path[i])
           Upto(m, g) == g = [i \in 0..m |-> Rhs(g, i)]
           T == {m \in Nat : \E g : Upto(m, g)}
<1>1. 0 \in T
  <2> DEFINE h == [i \in 0..0 |-> first]
  <2>1. \A i \in 0..0 : h[i] = Rhs(h, i)
    OBVIOUS
  <2> HIDE DEF Rhs
  <2>2. Upto(0, h)
    BY <2>1
  <2> HIDE DEF Upto
  <2> QED  BY <2>2
<1>2. \A m \in Nat : m \in T => m + 1 \in T
  <2> HIDE DEF Upto
  <2> SUFFICES ASSUME NEW m \in Nat, NEW g, Upto(m, g) PROVE \E h : Upto(m + 1, h)
    OBVIOUS
  <2> HIDE DEF Rhs
  <2> DEFINE h == [i \in 0..(m + 1) |-> IF i = m + 1 THEN Rhs(g, m + 1) ELSE g[i]]
  <2>1. h[m + 1] = Rhs(g, m + 1) /\ \A i \in 0..m : h[i] = g[i]
    OBVIOUS
  <2>2. \A i \in 0..m : g[i] = Rhs(g, i)
    BY DEF Upto
  <2>3. ASSUME NEW i \in 0..(m + 1) PROVE Rhs(h, i) = Rhs(g, i)
    <3>1. CASE i = 0
      BY <3>1 DEF Rhs
    <3>2. CASE i \in 1..(m + 1)
      <4>1. i # 0 /\ i - 1 \in 0..m
        BY <3>2
      <4>2. h[i - 1] = g[i - 1]
        BY <2>1, <4>1
      <4> HIDE DEF h
      <4> QED  BY <4>1, <4>2 DEF Rhs
    <3> QED  BY <3>1, <3>2
  <2>4. \A i \in 0..(m + 1) : h[i] = Rhs(h, i)
    <3> HIDE DEF h
    <3>1. \A i \in 0..(m + 1) : i = m + 1 \/ i \in 0..m
      OBVIOUS
    <3> QED  BY <2>1, <2>2, <2>3, <3>1
  <2>5. Upto(m + 1, h)
    BY <2>4 DEF Upto
  <2> QED  BY <2>5
<1>3. PICK some : Upto(n, some)
  <2> HIDE DEF Upto
  <2>1. n \in T
    <3> HIDE DEF T
    <3> QED  BY <1>0, <1>1, <1>2, Counting
  <2> QED  BY <2>1
<1> DEFINE chain == CHOOSE g : Upto(n, g)
<1>4. Upto(n, chain)
  BY <1>3
<1>5. ProbeView(probe) = chain[n]
  BY DEF ProbeView, first, n
<1> HIDE DEF chain, Rhs
<1>6. \A i \in 0..n : chain[i] = Rhs(chain, i)
  BY <1>4
<1>7. chain[0] = first /\ \A i \in 1..n : chain[i] = __btf_field(chain[i - 1], probe.path[i])
  <2>1. chain[0] = Rhs(chain, 0) /\ \A i \in 1..n : i # 0 /\ chain[i] = Rhs(chain, i)
    BY <1>0, <1>6
  <2> QED  BY <2>1 DEF Rhs
<1> DEFINE About(v, i) ==
             /\ {"root", "path"} \subseteq DOMAIN v
             /\ v.root = probe.root
             /\ v.path \in Seq(STRING) /\ Len(v.path) = i
             /\ \A j \in 1..i : v.path[j] = probe.path[j]
           U == {i \in Nat : i <= n => About(chain[i], i)}
<1>8. 0 \in U
  <2>1. About(first, 0)
    BY DEF first, __btf_probe, Field
  <2> HIDE DEF About
  <2> QED  BY <1>7, <2>1
<1>9. \A i \in Nat : i \in U => i + 1 \in U
  <2> HIDE DEF About
  <2> SUFFICES ASSUME NEW i \in Nat, i + 1 <= n, About(chain[i], i)
               PROVE  About(chain[i + 1], i + 1)
    BY <1>0
  <2> USE DEF About
  <2> DEFINE v == chain[i]
             w == chain[i + 1]
             f == probe.path[i + 1]
  <2>1. w = __btf_field(v, f) /\ f \in STRING
    BY <1>0, <1>7
  <2> HIDE DEF w, f
  <2>2. w["root"] = v["root"] /\ w["path"] = Append(v["path"], f) /\ DOMAIN w = DOMAIN v
    BY <2>1 DEF __btf_field
  <2>3. w["path"] \in Seq(STRING) /\ Len(w["path"]) = i + 1
    BY <2>1, <2>2
  <2>4. ASSUME NEW j \in 1..(i + 1) PROVE w["path"][j] = probe.path[j]
    BY <2>1, <2>2 DEF f
  <2> QED  BY <2>2, <2>3, <2>4 DEF w
<1>10. n \in U
  <2> HIDE DEF U
  <2> QED  BY <1>0, <1>8, <1>9, Counting
<1>11. About(chain[n], n)
  BY <1>0, <1>10
<1>12. chain[n].path = probe.path
  BY <1>0, <1>11 DEF n
<1> QED  BY <1>5, <1>11, <1>12

\* A view is about the path the source wrote, and only a probe is not at the object.
WellPlaced(v) ==
    /\ {"path", "mode", "base", "written"} \subseteq DOMAIN v
    /\ v.path = v.written
    /\ v.mode # Probe => v.base = Object

\* What the last operation said is what its view, which was well placed, gives in
\* the kernel.
SaidRightly ==
    /\ WellPlaced(last.view)
    /\ last.there = Exists(kernel, last.view.root, last.view.path)
    /\ Reads /\ last.there =>
          last.address = last.view.base + ByteOffset(kernel, last.view.root, last.view.path)
    /\ last.op = "get" => last.view.mode # Probe

PlaceInv ==
    /\ Holds => WellPlaced(view)
    /\ last.op # "none" => SaidRightly

LEMMA ModesDiffer == Optional # Probe /\ \A p : Required(p) # Probe
BY DEF Optional, Probe, Required

\* A root is well placed in every mode a program gets one in.
LEMMA RootPlaced ==
    ASSUME NEW root
    PROVE  /\ WellPlaced(__btf_probe(root))
           /\ \A mode : WellPlaced(__btf_root(root, mode))
BY DEF WellPlaced, __btf_root, __btf_probe, Field

\* An accessor leaves a view where it is and extends both paths by one field.
LEMMA FieldPlaced ==
    ASSUME NEW v, NEW f, WellPlaced(v)
    PROVE  WellPlaced(__btf_field(v, f))
<1> DEFINE w == __btf_field(v, f)
<1>1. DOMAIN w = DOMAIN v
  BY DEF __btf_field
<1>2. w["mode"] = v["mode"] /\ w["base"] = v["base"]
  BY DEF __btf_field, WellPlaced
<1>3. w["path"] = Append(v["path"], f) /\ w["written"] = Append(v["written"], f)
  BY DEF __btf_field, WellPlaced
<1> QED  BY <1>1, <1>2, <1>3 DEF WellPlaced

\* A terminal operation keeps the view and says what there is to say of it.
LEMMA TerminalPlaced ==
    ASSUME PlaceInv, Holds, NEW op, NEW shape, Terminal(op, shape),
           op \in {"exists", "get", "as_ptr"}, op = "get" => view.mode # Probe
    PROVE  PlaceInv'
<1>1. UNCHANGED <<kernel, view>>
  BY DEF Terminal
<1>2. /\ last'.op = op /\ last'.view = view
      /\ last'.there = Exists(kernel, view.root, view.path)
      /\ last'.address = IF op = "exists" \/ ~Exists(kernel, view.root, view.path) THEN Null
                         ELSE view.base + ByteOffset(kernel, view.root, view.path)
  BY DEF Terminal, btf_field_exists, btf_field_byte_offset
<1>3. Holds' /\ WellPlaced(view)'
  BY <1>1 DEF PlaceInv, Holds, WellPlaced
<1>4. WellPlaced(last.view)'
  BY <1>1, <1>2, <1>3 DEF WellPlaced
<1> QED  BY <1>1, <1>2, <1>3, <1>4 DEF PlaceInv, SaidRightly, Reads

LEMMA PlaceInvStep == PlaceInv /\ [Next]_vars => PlaceInv'
<1> SUFFICES ASSUME PlaceInv, [Next]_vars PROVE PlaceInv'
  OBVIOUS
<1> DEFINE LastKept == UNCHANGED <<kernel, last>>
<1>1. ASSUME LastKept, Holds' => WellPlaced(view)' PROVE PlaceInv'
  BY <1>1 DEF PlaceInv, SaidRightly, Reads, WellPlaced
<1>2. ASSUME NEW p \in DOMAIN Profiles, detect(p) PROVE PlaceInv'
  BY <1>1, <1>2 DEF detect, PlaceInv, Holds, WellPlaced
<1>3. ASSUME NEW p \in DOMAIN Profiles, NEW root \in DOMAIN Schemas, ProfileView(p, root)
      PROVE  PlaceInv'
  <2>1. WellPlaced(view')
    BY <1>3, RootPlaced DEF ProfileView
  <2> QED  BY <1>1, <1>3, <2>1 DEF ProfileView, WellPlaced
<1>4. ASSUME NEW root \in DOMAIN Schemas, NEW f, Accessor(root, f) PROVE PlaceInv'
  <2>1. WellPlaced(view')
    BY <1>4, RootPlaced, FieldPlaced DEF Accessor
  <2> QED  BY <1>1, <1>4, <2>1 DEF Accessor, WellPlaced
<1>5. ASSUME NEW root \in DOMAIN Schemas, ProbeRoot(root) PROVE PlaceInv'
  <2>1. WellPlaced(view')
    BY <1>5, RootPlaced DEF ProbeRoot
  <2> QED  BY <1>1, <1>5, <2>1 DEF ProbeRoot, WellPlaced
<1>6. ASSUME NEW f, ViewAccessor(f) PROVE PlaceInv'
  <2>1. WellPlaced(view')
    BY <1>6, FieldPlaced DEF ViewAccessor, PlaceInv
  <2> QED  BY <1>1, <1>6, <2>1 DEF ViewAccessor, WellPlaced
<1>7. CASE exists
  BY <1>7, TerminalPlaced DEF exists
<1>8. CASE get
  <2>1. view.mode # Probe
    BY <1>8, ModesDiffer DEF get, AccessMode
  <2> QED  BY <1>8, <2>1, TerminalPlaced DEF get, OfValue
<1>9. CASE as_ptr
  BY <1>9, TerminalPlaced DEF as_ptr, OfValue
<1>10. CASE UNCHANGED vars
  BY <1>1, <1>10 DEF vars, PlaceInv, Holds, WellPlaced
<1> QED  BY <1>2, <1>3, <1>4, <1>5, <1>6, <1>7, <1>8, <1>9, <1>10 DEF Next

LEMMA AlwaysPlaced == Spec => []PlaceInv
<1>1. Init => PlaceInv
  BY DEF Init, PlaceInv, Holds, NoOperation
<1> QED  BY <1>1, PlaceInvStep, PTL DEF Spec

\* A query is about the whole path the source writes, and an address is that of
\* this field in the object (AddressIsField; btf lib.rs 294-309).
THEOREM AddressesAreOfFields == Spec => []AddressIsField
<1>1. PlaceInv => AddressIsField
  BY DEF PlaceInv, SaidRightly, WellPlaced, AddressIsField
<1> QED  BY <1>1, AlwaysPlaced, PTL

\* No reference is made of the null pointer a probe starts at, whatever program of
\* accessors and profiles is written (NullNotReferenced; btf lib.rs 59-62, 132-134).
THEOREM NoNullReference == Spec => []NullNotReferenced
<1>1. PlaceInv => NullNotReferenced
  BY DEF PlaceInv, SaidRightly, WellPlaced, NullNotReferenced
<1> QED  BY <1>1, AlwaysPlaced, PTL

------------------------------------------------------------------------------
(* What is read in a view of a profile is there. *)

\* A view as the macros' accessors make it: each field of its path is one of the
\* schema the path is at there.
Sound(v) ==
    /\ {"root", "value", "path", "mode", "base", "written"} \subseteq DOMAIN v
    /\ v.root \in DOMAIN Schemas
    /\ v.path \in Seq(FieldNames)
    /\ v.value = TypeAt(v.root, v.path)
    /\ v.mode \in Modes
    /\ v.base \in Nat
    /\ \A i \in 1..Len(v.path) :
          /\ TypesAlong(v.root, v.path)[i - 1] \in DOMAIN Schemas
          /\ v.path[i] \in DOMAIN Schemas[TypesAlong(v.root, v.path)[i - 1]].fields

\* A view in a profile's mode comes from a witness, and starts in the module's schemas.
Allowed(v) ==
    \A p \in DOMAIN Profiles :
        v.mode = Required(p) => p \in witnesses /\ InModule(v.root, Profiles[p].module)

LastSound ==
    /\ Sound(last.view) /\ Allowed(last.view)
    /\ last.there = Exists(kernel, last.view.root, last.view.path)

ReadInv ==
    /\ TypeOK
    /\ Holds => Sound(view) /\ Allowed(view)
    /\ last.op # "none" => LastSound
    /\ \A p \in witnesses : \A i \in DOMAIN Profiles[p].probes :
          Exists(kernel, Profiles[p].probes[i].root, Profiles[p].probes[i].path)

LEMMA NoPath == ASSUME NEW root PROVE TypeAt(root, <<>>) = root
<1>1. Len(<<>>) = 0
  OBVIOUS
<1> QED  BY <1>1, TypesAlongPath DEF TypeAt

\* A root is sound in every mode; it is allowed but in a profile's.
LEMMA RootSound ==
    ASSUME NEW root \in DOMAIN Schemas
    PROVE  /\ Sound(__btf_probe(root)) /\ Allowed(__btf_probe(root))
           /\ \A mode \in Modes : Sound(__btf_root(root, mode))
           /\ Allowed(__btf_root(root, Optional))
<1>1. Object \in Nat /\ Null \in Nat /\ Probe \in Modes
  BY FieldViewAssumption DEF Null, Modes
<1>2. Optional # Probe /\ \A p : Required(p) \notin {Optional, Probe}
  BY DEF Optional, Probe, Required
<1>3. Len(<<>>) = 0 /\ <<>> \in Seq(FieldNames)
  OBVIOUS
<1> QED  BY <1>1, <1>2, <1>3, NoPath DEF Sound, Allowed, __btf_root, __btf_probe, Field

\* An accessor of the schema a view is at makes it one field longer.
LEMMA FieldSound ==
    ASSUME NEW v, Sound(v), Allowed(v), v.value \in DOMAIN Schemas,
           NEW f \in DOMAIN Schemas[v.value].fields
    PROVE  LET w == __btf_field(v, f) IN Sound(w) /\ Allowed(w)
<1> DEFINE w == __btf_field(v, f)
           path == v.path
           n == Len(path)
<1>1. f \in FieldNames
  BY DEF FieldNames
<1>2. DOMAIN w = DOMAIN v
  BY DEF __btf_field
<1>3. /\ w["root"] = v["root"] /\ w["mode"] = v["mode"] /\ w["base"] = v["base"]
      /\ w["path"] = Append(v["path"], f)
      /\ w["value"] = Schemas[v["value"]].fields[f]
  BY DEF Sound, __btf_field, NextType
<1> HIDE DEF w
<1>4. path \in Seq(FieldNames) /\ n \in Nat /\ v.value = TypesAlong(v.root, path)[n]
  BY DEF Sound, TypeAt
<1>5. Append(path, f) \in Seq(FieldNames) /\ Len(Append(path, f)) = n + 1
  BY <1>1, <1>4
<1>6. /\ \A i \in 0..n : TypesAlong(v.root, Append(path, f))[i] = TypesAlong(v.root, path)[i]
      /\ TypesAlong(v.root, Append(path, f))[n + 1] = Schemas[TypesAlong(v.root, path)[n]].fields[f]
  BY <1>1, <1>4, TypesAlongAppend
<1>7. w.value = TypeAt(w.root, w.path)
  BY <1>3, <1>4, <1>5, <1>6 DEF TypeAt
<1>8. ASSUME NEW i \in 1..(n + 1)
      PROVE  /\ TypesAlong(w.root, w.path)[i - 1] \in DOMAIN Schemas
             /\ w.path[i] \in DOMAIN Schemas[TypesAlong(w.root, w.path)[i - 1]].fields
  <2>1. TypesAlong(w.root, w.path)[i - 1] = TypesAlong(v.root, path)[i - 1]
    <3>1. i - 1 \in 0..n
      BY <1>4
    <3> QED  BY <1>3, <1>6, <3>1
  <2>2. CASE i = n + 1
    <3>1. w.path[i] = f /\ TypesAlong(w.root, w.path)[i - 1] = v.value
      BY <1>3, <1>4, <2>1, <2>2
    <3> QED  BY <3>1
  <2>3. CASE i \in 1..n
    <3>1. w.path[i] = path[i]
      BY <1>3, <1>4, <2>3
    <3> QED  BY <2>1, <2>3, <3>1 DEF Sound
  <2> QED  BY <1>4, <2>2, <2>3
<1>9. Sound(w)
  BY <1>2, <1>3, <1>5, <1>7, <1>8 DEF Sound
<1>10. Allowed(w)
  BY <1>3 DEF Allowed
<1> QED  BY <1>9, <1>10 DEF w

LEMMA SoundIsOK == ASSUME NEW v, Sound(v) PROVE ViewOK(v)
BY DEF Sound, ViewOK

\* A terminal operation answers truly about its view.
LEMMA TerminalSound ==
    ASSUME ReadInv, Holds, NEW op \in {"exists", "get", "as_ptr"},
           NEW shape \in {"bool", "Some", "reference", "pointer"}, Terminal(op, shape)
    PROVE  ReadInv'
<1>1. UNCHANGED <<kernel, witnesses, view>>
  BY DEF Terminal
<1>2. /\ last'.op = op /\ last'.view = view /\ last'.shape = shape
      /\ last'.there = Exists(kernel, view.root, view.path)
      /\ last'.address = IF op = "exists" \/ ~Exists(kernel, view.root, view.path) THEN Null
                         ELSE view.base + ByteOffset(kernel, view.root, view.path)
  BY DEF Terminal, btf_field_exists, btf_field_byte_offset
<1>3. Sound(view) /\ Allowed(view) /\ ViewOK(view)
  BY SoundIsOK DEF ReadInv
<1>4. Exists(kernel, view.root, view.path) \in BOOLEAN
  BY DEF Exists
<1>5. last'.address \in Nat
  <2>1. CASE op = "exists" \/ ~Exists(kernel, view.root, view.path)
    BY <1>2, <2>1 DEF Null
  <2>2. CASE op # "exists" /\ Exists(kernel, view.root, view.path)
    <3>1. view.path \in Seq(FieldNames) /\ view.base \in Nat /\ kernel \in Kernels
      BY <1>3 DEF Sound, ReadInv, TypeOK
    <3>2. ByteOffset(kernel, view.root, view.path) \in Nat
      BY <2>2, <3>1, OffsetIsNumber
    <3> QED  BY <1>2, <2>2, <3>1, <3>2
  <2> QED  BY <2>1, <2>2
<1>6. TypeOK'
  BY <1>1, <1>2, <1>3, <1>4, <1>5 DEF ReadInv, TypeOK, ViewOK
<1>7. LastSound'
  BY <1>1, <1>2, <1>3 DEF LastSound, Sound, Allowed
<1> QED  BY <1>1, <1>6, <1>7 DEF ReadInv, Holds, Sound, Allowed

LEMMA ReadInvStep == ReadInv /\ [Next]_vars => ReadInv'
<1> SUFFICES ASSUME ReadInv, [Next]_vars PROVE ReadInv'
  OBVIOUS
<1>1. ASSUME UNCHANGED <<kernel, witnesses, last>>, Sound(view'), Allowed(view')
      PROVE  ReadInv'
  <2>1. Sound(view)' /\ Allowed(view)'
    BY <1>1 DEF Sound, Allowed
  <2>2. TypeOK'
    BY <1>1, SoundIsOK DEF ReadInv, TypeOK, ViewOK
  <2>3. last.op # "none" => LastSound'
    BY <1>1 DEF ReadInv, LastSound, Sound, Allowed
  <2> QED  BY <1>1, <2>1, <2>2, <2>3 DEF ReadInv
<1>2. ASSUME NEW p \in DOMAIN Profiles, detect(p) PROVE ReadInv'
  <2>1. UNCHANGED <<kernel, view, last>> /\ witnesses \subseteq witnesses'
        /\ witnesses' \subseteq witnesses \union {p}
    BY <1>2 DEF detect
  <2>2. TypeOK'
    BY <2>1 DEF ReadInv, TypeOK, ViewOK
  <2>3. (Holds => Sound(view) /\ Allowed(view))'
    BY <2>1 DEF ReadInv, Holds, Sound, Allowed
  <2>4. (last.op # "none" => LastSound)'
    BY <2>1 DEF ReadInv, LastSound, Sound, Allowed
  <2>5. ASSUME NEW i \in DOMAIN Profiles[p].probes, p \in witnesses', p \notin witnesses
        PROVE  Exists(kernel, Profiles[p].probes[i].root, Profiles[p].probes[i].path)
    <3> DEFINE probe == Profiles[p].probes[i]
    <3>1. probe \in Discriminators(p)
      BY DEF Discriminators, Range
    <3>2. btf_field_exists(ProbeView(probe))
      BY <1>2, <2>5, <3>1 DEF detect
    <3>3. probe.path \in Seq(STRING)
      BY FieldViewAssumption
    <3> QED  BY <3>2, <3>3, ProbeAsksItsPath DEF btf_field_exists
  <2>6. (\A q \in witnesses : \A i \in DOMAIN Profiles[q].probes :
            Exists(kernel, Profiles[q].probes[i].root, Profiles[q].probes[i].path))'
    BY <2>1, <2>5 DEF ReadInv
  <2> QED  BY <2>2, <2>3, <2>4, <2>6 DEF ReadInv
<1>3. ASSUME NEW p \in DOMAIN Profiles, NEW root \in DOMAIN Schemas, ProfileView(p, root)
      PROVE  ReadInv'
  <2>1. Sound(view')
    BY <1>3, RootSound DEF ProfileView, Modes
  <2>2. Allowed(view')
    BY <1>3 DEF ProfileView, Selects, Allowed, __btf_root, Field, Required
  <2> QED  BY <1>1, <1>3, <2>1, <2>2 DEF ProfileView
<1>4. ASSUME NEW root \in DOMAIN Schemas, NEW f \in DOMAIN Schemas[root].fields,
             Accessor(root, f)
      PROVE  ReadInv'
  <2> DEFINE v == __btf_root(root, Optional)
  <2>1. Sound(v) /\ Allowed(v) /\ v.value = root
    BY RootSound DEF Modes, __btf_root, Field
  <2> HIDE DEF v
  <2>2. Sound(__btf_field(v, f)) /\ Allowed(__btf_field(v, f))
    BY <2>1, FieldSound
  <2>3. view' = __btf_field(v, f) /\ UNCHANGED <<kernel, witnesses, last>>
    BY <1>4 DEF Accessor, v
  <2> QED  BY <1>1, <2>2, <2>3
<1>5. ASSUME NEW root \in DOMAIN Schemas, ProbeRoot(root) PROVE ReadInv'
  BY <1>1, <1>5, RootSound DEF ProbeRoot
<1>6. ASSUME NEW f, ViewAccessor(f) PROVE ReadInv'
  <2>1. Sound(view) /\ Allowed(view)
    BY <1>6 DEF ViewAccessor, ReadInv
  <2>2. Sound(__btf_field(view, f)) /\ Allowed(__btf_field(view, f))
    BY <1>6, <2>1, FieldSound DEF ViewAccessor, Aggregate
  <2> QED  BY <1>1, <1>6, <2>2 DEF ViewAccessor
<1>7. CASE exists
  BY <1>7, TerminalSound DEF exists
<1>8. CASE get
  BY <1>8, TerminalSound DEF get, OfValue
<1>9. CASE as_ptr
  BY <1>9, TerminalSound DEF as_ptr, OfValue
<1>10. CASE UNCHANGED vars
  BY <1>10 DEF vars, ReadInv, TypeOK, ViewOK, Holds, LastSound, Sound, Allowed
<1> QED  BY <1>2, <1>3, <1>4, <1>5, <1>6, <1>7, <1>8, <1>9, <1>10 DEF Next

LEMMA AlwaysSound == Spec => []ReadInv
<1>1. Init => ReadInv
  BY DEF Init, ReadInv, TypeOK, ViewOK, Holds, NoOperation, Null
<1> QED  BY <1>1, ReadInvStep, PTL DEF Spec

\* Where a profile keeps its promise, its schemas and those in them have all their
\* fields, and so has every path that starts in the module's.
LEMMA PromisedPath ==
    ASSUME NEW p \in DOMAIN Profiles, KeepsPromise(p), NEW v, Sound(v),
           InModule(v.root, Profiles[p].module),
           \A i \in DOMAIN Profiles[p].probes :
                Exists(kernel, Profiles[p].probes[i].root, Profiles[p].probes[i].path)
    PROVE  Exists(kernel, v.root, v.path)
<1> DEFINE n == Len(v.path)
           type == TypesAlong(v.root, v.path)
<1>1. PICK S \in SUBSET DOMAIN Schemas :
          /\ \A s \in DOMAIN Schemas : InModule(s, Profiles[p].module) => s \in S
          /\ \A s \in S : \A f \in DOMAIN Schemas[s].fields :
                /\ f \in DOMAIN FieldsOf(kernel, s)
                /\ Aggregate(Schemas[s].fields[f]) => Schemas[s].fields[f] \in S
  BY DEF KeepsPromise
<1>2. n \in Nat /\ DOMAIN v.path = 1..n
  BY DEF Sound
<1>3. type[0] = v.root /\ \A i \in 1..n : type[i] = Schemas[type[i - 1]].fields[v.path[i]]
  BY <1>2, TypesAlongPath
<1>4. \A i \in 1..n : type[i - 1] \in DOMAIN Schemas
                       /\ v.path[i] \in DOMAIN Schemas[type[i - 1]].fields
  BY DEF Sound
<1>5. v.root \in S
  BY <1>1 DEF Sound
<1> HIDE DEF n, type
<1> DEFINE T == {i \in Nat : i < n => type[i] \in S}
<1>6. 0 \in T
  BY <1>3, <1>5
<1>7. \A i \in Nat : i \in T => i + 1 \in T
  <2> SUFFICES ASSUME NEW i \in Nat, type[i] \in S, i + 1 < n PROVE type[i + 1] \in S
    BY <1>2
  <2>1. i + 1 \in 1..n /\ i + 2 \in 1..n /\ (i + 1) - 1 = i /\ (i + 2) - 1 = i + 1
    BY <1>2
  <2>2. type[i + 1] = Schemas[type[i]].fields[v.path[i + 1]]
    BY <1>3, <2>1
  <2>3. v.path[i + 1] \in DOMAIN Schemas[type[i]].fields /\ type[i + 1] \in DOMAIN Schemas
    BY <1>4, <2>1
  <2> QED  BY <1>1, <2>2, <2>3 DEF Aggregate
<1>8. \A i \in Nat : i \in T
  <2> HIDE DEF T
  <2> QED  BY <1>6, <1>7, Counting
<1>9. ASSUME NEW i \in 1..n PROVE v.path[i] \in DOMAIN FieldsOf(kernel, type[i - 1])
  <2>1. i - 1 \in Nat /\ i - 1 < n
    BY <1>2
  <2>2. type[i - 1] \in S
    BY <1>8, <2>1
  <2> QED  BY <1>1, <1>4, <2>2
<1> QED  BY <1>2, <1>9 DEF Exists, n, type

\* A view is always at the type its path leads to, in a mode there is, and an address
\* is a number of bytes (btf lib.rs 302-360).
THEOREM TypeCorrect == Spec => []TypeOK
<1>1. ReadInv => TypeOK
  BY DEF ReadInv
<1> QED  BY <1>1, AlwaysSound, PTL

\* What is read in a view of a profile is there, without a query, wherever the
\* profile keeps its promise and however the view was come by (RequiredReadsExist;
\* btf lib.rs 67-71, 97-118, 439-452; btf-macros lib.rs 147-162).
THEOREM PromisedReads == Spec => []RequiredReadsExist
<1>1. ReadInv => RequiredReadsExist
  <2> SUFFICES ASSUME ReadInv, NEW p \in DOMAIN Profiles, Reads,
                      last.view.mode = Required(p), KeepsPromise(p)
               PROVE  last.there
    BY DEF RequiredReadsExist
  <2>1. LastSound
    BY DEF ReadInv, Reads
  <2>2. p \in witnesses /\ InModule(last.view.root, Profiles[p].module)
    BY <2>1 DEF LastSound, Allowed
  <2>3. Exists(kernel, last.view.root, last.view.path)
    BY <2>1, <2>2, PromisedPath DEF ReadInv, LastSound
  <2> QED  BY <2>1, <2>3 DEF LastSound
<1> QED  BY <1>1, AlwaysSound, PTL
==============================================================================

----------------------------- MODULE AnswersProofs -----------------------------
(***************************************************************************)
(* The properties of Answers for all schemas, values and depths.  A schema *)
(* is a table whose nodes name earlier ones, so that what holds of the     *)
(* nodes below a node, and hence of it, holds of all, by induction over    *)
(* the table.                                                              *)
(***************************************************************************)
EXTENDS Answers, SequenceTheorems, WellFoundedInduction, TLAPS

\* A set of numbers has a least.
LEMMA LeastNumber ==
    ASSUME NEW S \in SUBSET Nat, S # {}
    PROVE  \E m \in S : \A k \in S : m <= k
<1>1. \E m \in S : \A k \in S : ~(<<k, m>> \in OpToRel(<, Nat))
  BY NatLessThanWellFounded, WFMin
<1>2. OpToRel(<, Nat) = {ss \in Nat \X Nat : ss[1] < ss[2]}
  BY Zenon DEF OpToRel
<1>3. \A k, m \in Nat : k < m => <<k, m>> \in {ss \in Nat \X Nat : ss[1] < ss[2]}
  OBVIOUS
<1>4. PICK m \in S : \A k \in S : ~(<<k, m>> \in OpToRel(<, Nat))
  BY <1>1
<1>5. \A k \in S : ~(k < m)
  BY <1>2, <1>3, <1>4, Zenon
<1>6. \A k \in S : k \in Nat
  OBVIOUS
<1>7. \A k \in S : m <= k
  <2> TAKE k \in S
  <2>1. m \in Nat /\ k \in Nat /\ ~(k < m)
    BY <1>5, <1>6
  <2> QED
    BY <2>1
<1> QED
  BY <1>7

\* Induction over 0..N, for a set of numbers.
LEMMA UpTo ==
    ASSUME NEW N \in Nat, NEW S, 0 \in S, \A n \in 0..N : n + 1 \in 0..N /\ n \in S => n + 1 \in S
    PROVE  \A n \in 0..N : n \in S
<1> SUFFICES ASSUME NEW j \in 0..N, j \notin S PROVE FALSE
  OBVIOUS
<1> DEFINE T == {k \in 0..N : k \notin S}
<1>1. PICK m \in T : \A k \in T : m <= k
  <2>1. T \in SUBSET Nat /\ T # {}
    OBVIOUS
  <2> QED
    BY <2>1, LeastNumber
<1>2. m # 0 /\ m \in 0..N /\ m \notin S
  BY <1>1
<1>3. m - 1 \in 0..N /\ (m - 1) + 1 = m /\ ~(m <= m - 1)
  BY <1>2
<1>4. m - 1 \in S
  BY <1>1, <1>3
<1> QED
  BY <1>2, <1>3, <1>4

-------------------------------------------------------------------------------
(* What the recursive definitions say of themselves.                        *)

\* The values nested at most d deep are the leaves, and the arrays and objects
\* of those less deep.
LEMMA NestedDef ==
    Nested = [d \in 0..Depth |->
                 IF d = 0 THEN Leaves
                 ELSE Leaves \union Arrays(Nested[d - 1]) \union Objects(Nested[d - 1])]
<1> DEFINE Is(g, n) == g = [d \in 0..n |-> IF d = 0 THEN Leaves
                            ELSE Leaves \union Arrays(g[d - 1]) \union Objects(g[d - 1])]
           S == {n \in Nat : \E g : Is(g, n)}
<1>0. Depth \in Nat
  BY DepthAssumption
<1>1. 0 \in S
  <2> DEFINE g == [d \in 0..0 |-> Leaves]
  <2>1. Is(g, 0)
    OBVIOUS
  <2> HIDE DEF g, Is
  <2> QED
    BY <2>1
<1>2. \A n \in 0..Depth : n + 1 \in 0..Depth /\ n \in S => n + 1 \in S
  <2> TAKE n \in 0..Depth
  <2> HAVE n + 1 \in 0..Depth /\ n \in S
  <2>1. PICK g : Is(g, n)
    OBVIOUS
  <2> DEFINE J == Leaves \union Arrays(g[n]) \union Objects(g[n])
             h == [d \in 0..n + 1 |-> IF d \in 0..n THEN g[d] ELSE J]
  <2>2. n \in Nat /\ n + 1 \in Nat
    BY <1>0
  <2>3. \A d \in 0..n : g[d] = IF d = 0 THEN Leaves
                        ELSE Leaves \union Arrays(g[d - 1]) \union Objects(g[d - 1])
    BY <2>1
  <2>4. \A d \in 0..n : h[d] = g[d]
    BY <2>2
  <2>5. h[n + 1] = J
    BY <2>2
  <2>6. ASSUME NEW d \in 0..n + 1
        PROVE  h[d] = IF d = 0 THEN Leaves
                      ELSE Leaves \union Arrays(h[d - 1]) \union Objects(h[d - 1])
    <3> HIDE DEF h
    <3>1. CASE d = n + 1
      <4>1. d # 0 /\ d - 1 = n /\ n \in 0..n
        BY <3>1, <2>2
      <4> QED
        BY <4>1, <3>1, <2>4, <2>5
    <3>2. CASE d # n + 1 /\ d # 0
      <4>1. d \in 0..n /\ d - 1 \in 0..n
        BY <3>2, <2>2
      <4> QED
        BY <4>1, <3>2, <2>3, <2>4
    <3>3. CASE d = 0
      <4>1. d \in 0..n
        BY <3>3, <2>2
      <4> QED
        BY <4>1, <3>3, <2>3, <2>4
    <3> QED
      BY <3>1, <3>2, <3>3
  <2>7. Is(h, n + 1)
    <3> DEFINE r(d) == IF d = 0 THEN Leaves
                       ELSE Leaves \union Arrays(h[d - 1]) \union Objects(h[d - 1])
    <3>1. h = [d \in 0..n + 1 |-> h[d]]
      OBVIOUS
    <3>2. \A d \in 0..n + 1 : h[d] = r(d)
      BY <2>6
    <3> HIDE DEF h, r
    <3>3. h = [d \in 0..n + 1 |-> r(d)]
      BY <3>1, <3>2
    <3> QED
      BY <3>3 DEF r
  <2> HIDE DEF Is, h
  <2> QED
    BY <2>2, <2>7
<1>3. Depth \in S
  <2> HIDE DEF S
  <2> QED
    BY <1>0, <1>1, <1>2, UpTo
<1>4. \E g : Is(g, Depth)
  <2> HIDE DEF Is
  <2> QED
    BY <1>3
<1>5. Nested = CHOOSE g : Is(g, Depth)
  BY DEF Nested
<1> HIDE DEF Is
<1>6. Is(Nested, Depth)
  BY <1>4, <1>5
<1> QED
  BY <1>6 DEF Is

\* Level by level.
LEMMA Levels ==
    /\ Nested[0] = Leaves
    /\ \A d \in 1..Depth :
          /\ d - 1 \in 0..Depth
          /\ Nested[d] = Leaves \union Arrays(Nested[d - 1]) \union Objects(Nested[d - 1])
<1>1. Depth \in Nat
  BY DepthAssumption
<1>2. \A d \in 0..Depth : Nested[d] = IF d = 0 THEN Leaves
                            ELSE Leaves \union Arrays(Nested[d - 1]) \union Objects(Nested[d - 1])
  BY NestedDef
<1>3. 0 \in 0..Depth /\ \A d \in 1..Depth : d \in 0..Depth /\ d # 0 /\ d - 1 \in 0..Depth
  BY <1>1
<1> QED
  BY <1>2, <1>3

\* Objects and arrays are what they are made of, and nothing else is.
LEMMA Kinds ==
    /\ \A v \in Leaves : v.t \notin {"array", "object", "absent"}
    /\ \A J : \A v \in Arrays(J) : v.t = "array" /\ v.atom = "none" /\ v.items \in Seq(J)
    /\ \A J : \A v \in Objects(J) :
          v.t = "object" /\ v.atom = "none" /\ v.fields \in [Names -> J \union {Absent}]
  BY DEF Leaves, Null, Arrays, Objects

\* Whatever is made of values is also made of more values.
LEMMA MoreOfMore ==
    ASSUME NEW J, NEW K, J \subseteq K
    PROVE  Arrays(J) \subseteq Arrays(K) /\ Objects(J) \subseteq Objects(K)
<1>1. Seq(J) \subseteq Seq(K)
  <2> SUFFICES ASSUME NEW s \in Seq(J) PROVE s \in Seq(K)
    OBVIOUS
  <2>1. Len(s) \in Nat /\ s \in [1..Len(s) -> J]
    OBVIOUS
  <2>2. s \in [1..Len(s) -> K]
    BY <2>1
  <2> QED
    BY <2>1, <2>2
<1>2. [Names -> J \union {Absent}] \subseteq [Names -> K \union {Absent}]
  OBVIOUS
<1>3. Arrays(J) \subseteq Arrays(K)
  BY <1>1 DEF Arrays
<1>4. Objects(J) \subseteq Objects(K)
  BY <1>2 DEF Objects
<1> QED
  BY <1>3, <1>4

\* What is nested less deep is also nested at most that deep.
LEMMA Deeper == \A e \in 0..Depth : \A d \in 0..e : Nested[d] \subseteq Nested[e]
<1> DEFINE S == {e \in Nat : \A d \in 0..e : Nested[d] \subseteq Nested[e]}
<1>0. Depth \in Nat
  BY DepthAssumption
<1>1. \A d \in 1..Depth : Nested[d - 1] \subseteq Nested[d]
  <2> DEFINE T == {n \in Nat : n # 0 => Nested[n - 1] \subseteq Nested[n]}
  <2>1. 0 \in T
    OBVIOUS
  <2>2. \A n \in 0..Depth : n + 1 \in 0..Depth /\ n \in T => n + 1 \in T
    <3> TAKE n \in 0..Depth
    <3> HAVE n + 1 \in 0..Depth /\ n \in T
    <3>1. n \in Nat /\ n + 1 \in 1..Depth /\ (n + 1) - 1 = n /\ n + 1 \in Nat
      BY <1>0
    <3>2. Nested[n + 1] = Leaves \union Arrays(Nested[n]) \union Objects(Nested[n])
      BY <3>1, Levels
    <3>3. CASE n = 0
      <4>1. Nested[n] = Leaves
        BY <3>3, Levels
      <4>2. Nested[n] \subseteq Nested[n + 1]
        BY <4>1, <3>2
      <4> QED
        BY <4>2, <3>1
    <3>4. CASE n # 0
      <4>1. n \in 1..Depth /\ Nested[n - 1] \subseteq Nested[n]
        BY <3>4, <1>0
      <4>2. Nested[n] = Leaves \union Arrays(Nested[n - 1]) \union Objects(Nested[n - 1])
        BY <4>1, Levels
      <4>3. Arrays(Nested[n - 1]) \subseteq Arrays(Nested[n])
            /\ Objects(Nested[n - 1]) \subseteq Objects(Nested[n])
        BY <4>1, MoreOfMore
      <4>4. Nested[n] \subseteq Nested[n + 1]
        BY <4>2, <4>3, <3>2
      <4> QED
        BY <4>4, <3>1
    <3> QED
      BY <3>3, <3>4
  <2>3. \A n \in 0..Depth : n \in T
    <3> HIDE DEF T
    <3> QED
      BY <1>0, <2>1, <2>2, UpTo
  <2> QED
    BY <2>3, <1>0
<1>2. 0 \in S
  OBVIOUS
<1>3. \A n \in 0..Depth : n + 1 \in 0..Depth /\ n \in S => n + 1 \in S
  <2> TAKE n \in 0..Depth
  <2> HAVE n + 1 \in 0..Depth /\ n \in S
  <2>1. n + 1 \in 1..Depth /\ (n + 1) - 1 = n /\ n + 1 \in Nat
    BY <1>0
  <2>2. Nested[n] \subseteq Nested[n + 1]
    BY <2>1, <1>1
  <2>3. \A d \in 0..n + 1 : d \in 0..n \/ d = n + 1
    BY <1>0
  <2>4. \A d \in 0..n + 1 : Nested[d] \subseteq Nested[n + 1]
    BY <2>2, <2>3
  <2> QED
    BY <2>1, <2>4
<1>4. \A n \in 0..Depth : n \in S
  <2> HIDE DEF S
  <2> QED
    BY <1>0, <1>2, <1>3, UpTo
<1> QED
  BY <1>4

\* What objects and arrays are made of, at each depth.
LEMMA Parted ==
    ASSUME NEW d \in 1..Depth, NEW v \in Nested[d]
    PROVE  /\ v.t = "object" => v \in Objects(Nested[d - 1])
           /\ v.t = "array" => v \in Arrays(Nested[d - 1])
<1>1. v \in Leaves \/ v \in Arrays(Nested[d - 1]) \/ v \in Objects(Nested[d - 1])
  BY Levels
<1> QED
  BY <1>1, Kinds

\* The parts of a value are values.
LEMMA PartsAreValues ==
    ASSUME NEW v \in Json
    PROVE  /\ v.t = "object" => v.fields \in [Names -> Json \union {Absent}]
           /\ v.t = "array" => v.items \in Seq(Json)
<1>1. Depth \in 1..Depth /\ Depth - 1 \in 0..Depth /\ Depth \in 0..Depth
  BY DepthAssumption
<1>2. Nested[Depth - 1] \subseteq Json
  BY <1>1, Deeper DEF Json
<1>3. /\ v.t = "object" => v \in Objects(Nested[Depth - 1])
      /\ v.t = "array" => v \in Arrays(Nested[Depth - 1])
  BY <1>1, Parted DEF Json
<1>4. /\ Arrays(Nested[Depth - 1]) \subseteq Arrays(Json)
      /\ Objects(Nested[Depth - 1]) \subseteq Objects(Json)
  BY <1>2, MoreOfMore
<1>5. /\ v.t = "object" => v \in Objects(Json)
      /\ v.t = "array" => v \in Arrays(Json)
  BY <1>3, <1>4
<1> QED
  BY <1>5, Kinds

-------------------------------------------------------------------------------
(* Validity.                                                                *)

\* What every view keeps of a node.
LEMMA SeenKeeps ==
    ASSUME NEW s \in Nodes, NEW view \in Views
    PROVE  /\ Seen(s, view).props = s.props /\ Declared(Seen(s, view)) = Declared(s)
           /\ Seen(s, view).items = s.items
           /\ Seen(s, view).alts = s.alts
           /\ Seen(s, view).enum = s.enum
  BY DEF Seen, Strict, Relaxed, WithNull, Declared, Views, Nodes

\* The nodes of a table.
LEMMA NodesOf ==
    ASSUME NEW table, IsTable(table)
    PROVE  /\ Len(table) \in Nat
           /\ \A n \in 1..Len(table) :
                 /\ n \in Nat /\ table[n] \in Nodes /\ Before(table[n], n)
                 /\ ~table[n].hasProps => Declared(table[n]) = {}
  BY DEF IsTable

\* The nodes that a node names.
Named(s) == {s.props[name] : name \in Declared(s)}
            \union (IF s.items = 0 THEN {} ELSE {s.items})
            \union {s.alts[i] : i \in 1..Len(s.alts)}

LEMMA NamedBefore ==
    ASSUME NEW s \in Nodes, NEW n \in Nat, Before(s, n)
    PROVE  Named(s) \subseteq 1..n - 1
<1>1. s.props \in [Names -> Nat] /\ s.items \in Nat
  BY DEF Nodes
<1>2. \A name \in Declared(s) : s.props[name] \in 1..n - 1
  BY <1>1 DEF Before, Declared
<1>3. s.items # 0 => s.items \in 1..n - 1
  BY <1>1 DEF Before
<1>4. \A i \in 1..Len(s.alts) : s.alts[i] \in 1..n - 1
  BY DEF Before
<1> QED
  BY <1>2, <1>3, <1>4 DEF Named

\* The alternatives that hold.
Fitting(s, view, valid, v) ==
    {i \in 1..Len(s.alts) : v \in valid[s.alts[i]][Below(s, view, "alts")]}

\* Validity, with each view of the node read off the node itself.
LEMMA AdmitsDef ==
    ASSUME NEW s \in Nodes, NEW view \in Views, NEW valid, NEW v
    PROVE  Admits(s, view, valid, v) <=>
             /\ Seen(s, view).types = {} \/ v.t \in Seen(s, view).types
             /\ s.enum = {} \/ v.atom \in s.enum
             /\ v.t = "object" =>
                   /\ Seen(s, view).required \subseteq Has(v)
                   /\ Seen(s, view).closed => Has(v) \subseteq Declared(s)
                   /\ \A name \in Has(v) \intersect Declared(s) :
                         v.fields[name] \in valid[s.props[name]][Below(s, view, "props")]
             /\ v.t = "array" /\ s.items # 0 =>
                   \A i \in 1..Len(v.items) :
                      v.items[i] \in valid[s.items][Below(s, view, "items")]
             /\ Seen(s, view).kw = "anyOf" => Fitting(s, view, valid, v) # {}
             /\ Seen(s, view).kw = "oneOf" =>
                   \E i \in Fitting(s, view, valid, v) : Fitting(s, view, valid, v) = {i}
             /\ Seen(s, view).kw = "allOf" => Fitting(s, view, valid, v) = 1..Len(s.alts)
<1> DEFINE node == Seen(s, view)
<1>1. node.props = s.props /\ Declared(node) = Declared(s) /\ node.items = s.items
      /\ node.alts = s.alts /\ node.enum = s.enum
  BY SeenKeeps
<1>2. {i \in 1..Len(node.alts) : v \in valid[node.alts[i]][Below(s, view, "alts")]}
      = Fitting(s, view, valid, v)
  BY <1>1 DEF Fitting
<1> HIDE DEF node
<1> QED
  BY <1>1, <1>2 DEF Admits, node

\* Whether a value is valid against a node depends on the nodes it names.
LEMMA Local ==
    ASSUME NEW s \in Nodes, NEW view \in Views, NEW v, NEW f, NEW g,
           \A k \in Named(s) : f[k] = g[k]
    PROVE  Admits(s, view, f, v) <=> Admits(s, view, g, v)
<1>1. /\ \A name \in Declared(s) : f[s.props[name]] = g[s.props[name]]
      /\ s.items # 0 => f[s.items] = g[s.items]
      /\ \A i \in 1..Len(s.alts) : f[s.alts[i]] = g[s.alts[i]]
  BY DEF Named
<1>2. Fitting(s, view, f, v) = Fitting(s, view, g, v)
  BY <1>1 DEF Fitting
<1> QED
  BY <1>1, <1>2, AdmitsDef

\* The values valid against the n-th node, given those of the nodes before it.
ValidAt(table, valid, n) == [view \in Views |-> {v \in Json : Admits(table[n], view, valid, v)}]

LEMMA ValidAtLocal ==
    ASSUME NEW table, IsTable(table), NEW n \in 1..Len(table), NEW f, NEW g,
           \A k \in 1..n - 1 : f[k] = g[k]
    PROVE  ValidAt(table, f, n) = ValidAt(table, g, n)
<1>1. table[n] \in Nodes /\ Before(table[n], n) /\ n \in Nat
  BY NodesOf
<1>2. \A k \in Named(table[n]) : f[k] = g[k]
  BY <1>1, NamedBefore
<1>3. \A view \in Views, v \in Json :
         Admits(table[n], view, f, v) <=> Admits(table[n], view, g, v)
  BY <1>1, <1>2, Local
<1>4. \A view \in Views : {v \in Json : Admits(table[n], view, f, v)}
                        = {v \in Json : Admits(table[n], view, g, v)}
  BY <1>3
<1> QED
  BY <1>4 DEF ValidAt

\* Every table says which values are valid against each of its nodes.
LEMMA AdmittedDef ==
    ASSUME NEW table, IsTable(table)
    PROVE  Admitted(table) = [n \in 1..Len(table) |-> ValidAt(table, Admitted(table), n)]
<1> DEFINE N == Len(table)
           Is(f, n) == f = [i \in 1..n |-> ValidAt(table, f, i)]
           S == {n \in Nat : \E f : Is(f, n)}
<1>0. N \in Nat
  BY NodesOf
<1>1. 0 \in S
  <2> DEFINE f == [i \in 1..0 |-> {}]
  <2>1. f = [i \in 1..0 |-> ValidAt(table, f, i)]
    OBVIOUS
  <2> HIDE DEF f
  <2> QED
    BY <2>1
<1>2. \A n \in 0..N : n + 1 \in 0..N /\ n \in S => n + 1 \in S
  <2> TAKE n \in 0..N
  <2> HAVE n + 1 \in 0..N /\ n \in S
  <2>1. PICK f : Is(f, n)
    OBVIOUS
  <2> DEFINE last1 == ValidAt(table, f, n + 1)
             g == [i \in 1..n + 1 |-> IF i \in 1..n THEN f[i] ELSE last1]
  <2>2. n \in Nat /\ n + 1 \in Nat /\ n + 1 \in 1..N /\ n + 1 \notin 1..n
    BY <1>0
  <2>3. \A i \in 1..n : f[i] = ValidAt(table, f, i)
    <3> HIDE DEF S
    <3> QED
      BY <2>1
  <2>4. \A i \in 1..n : g[i] = f[i]
    BY <2>2
  <2>5. g[n + 1] = last1
    BY <2>2
  <2>6. g = [i \in 1..n + 1 |-> g[i]]
    OBVIOUS
  <2> HIDE DEF g, last1
  <2>7. \A i \in 1..n + 1 : g[i] = ValidAt(table, g, i)
    <3> TAKE i \in 1..n + 1
    <3>1. i \in 1..N /\ (i \in 1..n \/ i = n + 1)
      BY <1>0, <2>2
    <3>2. \A k \in 1..i - 1 : f[k] = g[k]
      BY <2>2, <2>4
    <3>3. ValidAt(table, f, i) = ValidAt(table, g, i)
      <4> HIDE DEF N
      <4> QED
        BY <3>1, <3>2, ValidAtLocal DEF N
    <3> QED
      BY <3>1, <3>3, <2>3, <2>4, <2>5 DEF last1
  <2>8. Is(g, n + 1)
    BY <2>6, <2>7
  <2> HIDE DEF Is
  <2> QED
    BY <2>2, <2>8
<1>3. N \in S
  <2> HIDE DEF S, N
  <2> QED
    BY <1>0, <1>1, <1>2, UpTo
<1>4. \E f : Is(f, N)
  <2> HIDE DEF Is, N
  <2> QED
    BY <1>3
<1>5. Admitted(table) = CHOOSE f : Is(f, N)
  BY DEF Admitted, ValidAt
<1> HIDE DEF Is, N
<1>6. Is(Admitted(table), N)
  BY <1>4, <1>5
<1> QED
  BY <1>6 DEF Is, N

\* Node by node.
LEMMA AdmittedAt ==
    ASSUME NEW table, IsTable(table), NEW n \in 1..Len(table), NEW view \in Views, NEW v
    PROVE  v \in Admitted(table)[n][view] <=>
              v \in Json /\ Admits(table[n], view, Admitted(table), v)
<1>1. Admitted(table)[n] = ValidAt(table, Admitted(table), n)
  BY AdmittedDef
<1> QED
  BY <1>1 DEF ValidAt

-------------------------------------------------------------------------------
(* What keeps to the strict form is valid, but for what is relaxed.         *)

\* A view b that asks for no more of a node than view a, and of the nodes
\* below it, admits what a admits.
LEMMA Wider ==
    ASSUME NEW s \in Nodes, NEW a \in Views, NEW b \in Views, NEW valid, NEW v,
           Seen(s, b).types = {} \/ (Seen(s, a).types # {} /\ Seen(s, a).types \subseteq Seen(s, b).types),
           Seen(s, b).required \subseteq Seen(s, a).required,
           Seen(s, b).closed => Seen(s, a).closed,
           \/ Seen(s, a).kw = Seen(s, b).kw /\ Seen(s, a).kw # "oneOf"
           \/ Seen(s, a).kw = "oneOf" /\ Seen(s, b).kw = "anyOf",
           \A n \in Named(s) : \A part \in {"props", "items", "alts"} :
              valid[n][Below(s, a, part)] \subseteq valid[n][Below(s, b, part)],
           Admits(s, a, valid, v)
    PROVE  Admits(s, b, valid, v)
<1>1. /\ \A name \in Declared(s) :
            valid[s.props[name]][Below(s, a, "props")] \subseteq valid[s.props[name]][Below(s, b, "props")]
      /\ s.items # 0 => valid[s.items][Below(s, a, "items")] \subseteq valid[s.items][Below(s, b, "items")]
      /\ \A i \in 1..Len(s.alts) :
            valid[s.alts[i]][Below(s, a, "alts")] \subseteq valid[s.alts[i]][Below(s, b, "alts")]
  BY DEF Named
<1>2. Fitting(s, a, valid, v) \subseteq Fitting(s, b, valid, v)
  BY <1>1 DEF Fitting
<1>3. Fitting(s, b, valid, v) \subseteq 1..Len(s.alts)
  BY DEF Fitting
<1>4. Seen(s, b).types = {} \/ v.t \in Seen(s, b).types
  BY AdmitsDef
<1>5. s.enum = {} \/ v.atom \in s.enum
  BY AdmitsDef
<1>6. ASSUME v.t = "object"
      PROVE  /\ Seen(s, b).required \subseteq Has(v)
             /\ Seen(s, b).closed => Has(v) \subseteq Declared(s)
             /\ \A name \in Has(v) \intersect Declared(s) :
                   v.fields[name] \in valid[s.props[name]][Below(s, b, "props")]
  BY <1>1, <1>6, AdmitsDef
<1>7. ASSUME v.t = "array", s.items # 0
      PROVE  \A i \in 1..Len(v.items) : v.items[i] \in valid[s.items][Below(s, b, "items")]
  BY <1>1, <1>7, AdmitsDef
<1>8. Seen(s, b).kw = "anyOf" => Fitting(s, b, valid, v) # {}
  BY <1>2, AdmitsDef
<1>9. Seen(s, b).kw # "oneOf"
  OBVIOUS
<1>10. Seen(s, b).kw = "allOf" => Fitting(s, b, valid, v) = 1..Len(s.alts)
  <2>1. Seen(s, a).kw = "allOf" => Fitting(s, a, valid, v) = 1..Len(s.alts)
    BY AdmitsDef
  <2> QED
    BY <1>2, <1>3, <2>1
<1>11. v.t = "array" /\ s.items # 0 =>
          \A i \in 1..Len(v.items) : v.items[i] \in valid[s.items][Below(s, b, "items")]
  BY <1>7
<1>12. Seen(s, b).kw = "oneOf" =>
          \E i \in Fitting(s, b, valid, v) : Fitting(s, b, valid, v) = {i}
  BY <1>9
<1> QED
  BY <1>4, <1>5, <1>6, <1>8, <1>10, <1>11, <1>12, AdmitsDef, Zenon

\* The views that are relaxed, and how: what is seen as the first may be seen
\* as the second.
Relaxations == {<<"given", "relaxed">>, <<"given", "relaxedOrNull">>,
                <<"strict", "relaxed">>, <<"strictOrNull", "relaxedOrNull">>}

\* What a node asks for in strict form it asks for when relaxed, and what the
\* caller asks for when relaxed the caller asks for.
LEMMA RelaxedAsksLess ==
    ASSUME NEW s \in Nodes, ~s.hasProps => Declared(s) = {},
           NEW a \in Views, NEW b \in Views,
           <<a, b>> \in Relaxations
    PROVE  /\ Seen(s, b).types = {}
              \/ (Seen(s, a).types # {} /\ Seen(s, a).types \subseteq Seen(s, b).types)
           /\ Seen(s, b).required \subseteq Seen(s, a).required
           /\ Seen(s, b).closed => Seen(s, a).closed
           /\ \/ Seen(s, a).kw = Seen(s, b).kw /\ Seen(s, a).kw # "oneOf"
              \/ Seen(s, a).kw = "oneOf" /\ Seen(s, b).kw = "anyOf"
<1>1. b \in {"relaxed", "relaxedOrNull"}
  BY DEF Relaxations
<1>2. Seen(s, b) = Relaxed(s, b)
  BY <1>1 DEF Seen
<1>3. a \in {"given", "strict", "strictOrNull"}
  BY DEF Relaxations
<1>4. /\ Relaxed(s, b).required = IF s.hasProps THEN s.required \intersect Declared(s) ELSE s.required
      /\ Relaxed(s, b).closed = s.closed
      /\ Relaxed(s, b).kw = IF s.kw = "oneOf" THEN "anyOf" ELSE s.kw
      /\ Relaxed(s, b).types = LET t == IF b = "relaxedOrNull" /\ s.types # {}
                                        THEN s.types \union {"null"} ELSE s.types
                               IN  IF s.hasProps /\ s.types # {} THEN t \union {"object"} ELSE t
  BY <1>1 DEF Relaxed, WithNull, Nodes
<1>5. CASE a = "given"
  <2>1. Seen(s, a) = s
    BY <1>5 DEF Seen
  <2> QED
    BY <2>1, <1>2, <1>4
<1>6. CASE a \in {"strict", "strictOrNull"}
  <2>1. Seen(s, a) = Strict(s, a)
    BY <1>6 DEF Seen
  <2>2. a = "strictOrNull" => b = "relaxedOrNull"
    BY <1>6 DEF Relaxations
  <2>3. CASE s.hasProps
    <3>1. /\ Strict(s, a).required = Declared(s) /\ Strict(s, a).closed = TRUE
          /\ Strict(s, a).kw = s.kw
          /\ Strict(s, a).types = IF a = "strictOrNull" THEN {"object", "null"} ELSE {"object"}
      BY <2>3, <1>6 DEF Strict, WithNull, Nodes
    <3> QED
      BY <3>1, <2>1, <2>2, <2>3, <1>2, <1>4
  <2>4. CASE ~s.hasProps
    <3>1. /\ Strict(s, a).required = s.required /\ Strict(s, a).closed = s.closed
          /\ Strict(s, a).kw = s.kw
          /\ \/ Strict(s, a).types = s.types
             \/ s.types # {} /\ a = "strictOrNull" /\ Strict(s, a).types = s.types \union {"null"}
      BY <2>4, <1>6 DEF Strict, WithNull, Nodes
    <3> QED
      BY <3>1, <2>1, <2>2, <2>4, <1>2, <1>4
  <2> QED
    BY <2>3, <2>4
<1> QED
  BY <1>3, <1>5, <1>6

\* The nodes below are seen in the same order of views.
LEMMA BelowRelaxed ==
    ASSUME NEW s, NEW a, NEW b, NEW part \in {"props", "items", "alts"},
           <<a, b>> \in Relaxations
    PROVE  <<Below(s, a, part), Below(s, b, part)>> \in Relaxations
  BY DEF Below, Relaxations
\* So whatever is valid in one view of a node is valid in the relaxed one.
LEMMA RelaxedAdmitsMore ==
    ASSUME NEW table, IsTable(table), NEW n \in 1..Len(table),
           NEW a \in Views, NEW b \in Views, <<a, b>> \in Relaxations
    PROVE  Admitted(table)[n][a] \subseteq Admitted(table)[n][b]
<1> DEFINE N == Len(table)
           valid == Admitted(table)
           More(k) == \A c, d \in Views : <<c, d>> \in Relaxations => valid[k][c] \subseteq valid[k][d]
           S == {k \in Nat : \A j \in 1..k : More(j)}
<1>0. N \in Nat
  BY NodesOf
<1>1. ASSUME NEW k \in 1..N, \A j \in 1..k - 1 : More(j)
      PROVE  More(k)
  <2> SUFFICES ASSUME NEW c \in Views, NEW d \in Views, <<c, d>> \in Relaxations,
                      NEW v \in valid[k][c]
               PROVE  v \in valid[k][d]
    OBVIOUS
  <2> DEFINE s == table[k]
  <2>1. s \in Nodes /\ Before(s, k) /\ (~s.hasProps => Declared(s) = {}) /\ k \in Nat
    BY NodesOf
  <2>2. Named(s) \subseteq 1..k - 1
    <3> HIDE DEF s
    <3> QED
      BY <2>1, NamedBefore
  <2>3. v \in Json /\ Admits(s, c, valid, v)
    BY AdmittedAt
  <2>4. \A m \in Named(s) : \A part \in {"props", "items", "alts"} :
           valid[m][Below(s, c, part)] \subseteq valid[m][Below(s, d, part)]
    <3> TAKE m \in Named(s)
    <3> TAKE part \in {"props", "items", "alts"}
    <3>1. More(m)
      BY <1>1, <2>2
    <3>2. <<Below(s, c, part), Below(s, d, part)>> \in Relaxations
      BY BelowRelaxed
    <3>3. Below(s, c, part) \in Views /\ Below(s, d, part) \in Views
      BY <3>2 DEF Relaxations, Views
    <3> QED
      BY <3>1, <3>2, <3>3
  <2> HIDE DEF s, valid
  <2>5. Admits(s, d, valid, v)
    BY <2>1, <2>3, <2>4, RelaxedAsksLess, Wider
  <2> QED
    BY <2>3, <2>5, AdmittedAt DEF valid, s
<1>2. 0 \in S
  OBVIOUS
<1>3. \A k \in 0..N : k + 1 \in 0..N /\ k \in S => k + 1 \in S
  <2> TAKE k \in 0..N
  <2> HAVE k + 1 \in 0..N /\ k \in S
  <2> HIDE DEF More
  <2>1. k + 1 \in 1..N /\ (k + 1) - 1 = k /\ k + 1 \in Nat
    BY <1>0
  <2>2. More(k + 1)
    BY <1>1, <2>1
  <2> QED
    BY <2>1, <2>2
<1>4. \A k \in 0..N : k \in S
  <2> HIDE DEF S, N
  <2> QED
    BY <1>0, <1>2, <1>3, UpTo
<1>5. N \in 0..N
  BY <1>0
<1> QED
  BY <1>4, <1>5

-------------------------------------------------------------------------------
(* The schemas of a request.                                                *)

LEMMA SchemaNodes ==
    ASSUME schema \in Schemas
    PROVE  /\ IsTable(schema) /\ Root \in Nat /\ Root \in 1..Len(schema)
           /\ \A n \in 1..Root : schema[n] \in Nodes /\ Before(schema[n], n)
<1>1. IsTable(schema)
  BY SchemasAssumption
<1>2. schema \in Seq(Nodes) /\ schema # <<>>
  BY <1>1 DEF IsTable
<1>3. Len(schema) \in Nat /\ Len(schema) # 0
  BY <1>2
<1> QED
  BY <1>1, <1>3 DEF IsTable, Root

\* The row array is an array of rows, and nothing besides.
LEMMA RowArrayNodes ==
    ASSUME schema \in Schemas, Chunked
    PROVE  /\ RowArray \in Declared(schema[Root])
           /\ Props \in [Names -> Nat] /\ \A name \in Names : Props[name] \in 0..Root - 1
           /\ Props[RowArray] \in 1..Root - 1
           /\ schema[Props[RowArray]] \in Nodes
           /\ schema[Props[RowArray]].types = {"array"}
           /\ schema[Props[RowArray]].items \in 1..Root - 1
<1>1. /\ Root \in Nat /\ Root # 0
      /\ \A n \in 1..Root : schema[n] \in Nodes /\ Before(schema[n], n)
  BY SchemaNodes
<1>2. RowArrays # {}
  BY DEF Chunked
<1>3. RowArray \in RowArrays
  <2> HIDE DEF RowArrays
  <2> QED
    BY <1>2 DEF RowArray
<1>4. /\ RowArray \in Declared(schema[Root])
      /\ IsType(schema[Props[RowArray]], "array") /\ schema[Props[RowArray]].items # 0
  BY <1>3 DEF RowArrays
<1>5. schema[Root] \in Nodes /\ Before(schema[Root], Root)
  BY <1>1
<1>6. Props \in [Names -> Nat] /\ \A name \in Names : Props[name] \in 0..Root - 1
  BY <1>5 DEF Props, Nodes, Before
<1>7. RowArray \in Names /\ Props[RowArray] # 0
  BY <1>4 DEF Declared, Props
<1>8. Props[RowArray] \in 1..Root - 1
  BY <1>6, <1>7, <1>1
<1>9. Props[RowArray] \in 1..Root
  BY <1>8, <1>1
<1>10. schema[Props[RowArray]] \in Nodes /\ Before(schema[Props[RowArray]], Props[RowArray])
  BY <1>1, <1>9
<1>11. schema[Props[RowArray]].items \in 0..Props[RowArray] - 1
  BY <1>10 DEF Before
<1>12. schema[Props[RowArray]].items \in 1..Root - 1
  BY <1>11, <1>8, <1>1, <1>4
<1>13. schema[Props[RowArray]].types = {"array"}
  BY <1>4 DEF IsType
<1> QED
  BY <1>4, <1>6, <1>8, <1>10, <1>12, <1>13

\* The nodes made for the chunks and the summary.
LEMMA MadeNodes ==
    ASSUME schema \in Schemas, Chunked
    PROVE  /\ Rows \in Nodes /\ Rows.types = {"array"} /\ Rows.enum = {} /\ Rows.kw = "none"
           /\ ~Rows.hasProps /\ Declared(Rows) = {} /\ Rows.alts = <<>>
           /\ Rows.items = schema[Props[RowArray]].items
           /\ ChunkSchema \in Nodes /\ ChunkSchema.types = {"object"} /\ ChunkSchema.hasProps
           /\ ChunkSchema.required = {RowArray} /\ ChunkSchema.items = 0 /\ ChunkSchema.alts = <<>>
           /\ Declared(ChunkSchema) = {RowArray} /\ ChunkSchema.props[RowArray] = Root + 1
           /\ \A name \in Names : ChunkSchema.props[name] \in {0, Root + 1}
           /\ SummarySchema \in Nodes /\ SummarySchema.types = {"object"} /\ SummarySchema.hasProps
           /\ SummarySchema.required = Others /\ SummarySchema.closed
           /\ SummarySchema.items = 0 /\ SummarySchema.alts = <<>>
           /\ Declared(SummarySchema) = Others
           /\ \A name \in Names : SummarySchema.props[name] \in {0, Props[name]}
           /\ \A name \in Others : SummarySchema.props[name] = Props[name]
<1>1. /\ RowArray \in Names /\ Props \in [Names -> Nat] /\ Root \in Nat
      /\ schema[Props[RowArray]].items \in Nat
      /\ \A name \in Names : name \in Declared(schema[Root]) <=> Props[name] # 0
  BY RowArrayNodes, SchemaNodes DEF Declared, Props, Nodes
<1>2. Anything \in Nodes
  BY DEF Anything, Nodes, Types
<1>3. /\ Rows \in Nodes /\ Rows.types = {"array"} /\ Rows.enum = {} /\ Rows.kw = "none"
      /\ ~Rows.hasProps /\ Declared(Rows) = {} /\ Rows.alts = <<>>
      /\ Rows.items = schema[Props[RowArray]].items
  <2>1. /\ Rows.types = {"array"} /\ Rows.enum = {} /\ Rows.kw = "none"
        /\ ~Rows.hasProps /\ Rows.alts = <<>> /\ Rows.props = [name \in Names |-> 0]
        /\ Rows.items = schema[Props[RowArray]].items
    BY DEF Rows, Anything
  <2>2. Declared(Rows) = {}
    <3> HIDE DEF Rows
    <3> QED
      BY <2>1 DEF Declared
  <2>3. Rows = [Anything EXCEPT !.types = {"array"}, !.items = Rows.items]
    BY DEF Rows, Anything
  <2> HIDE DEF Rows
  <2>4. Rows \in Nodes
    BY <1>1, <1>2, <2>1, <2>3 DEF Nodes, Types
  <2> QED
    BY <2>1, <2>2, <2>4
<1>4. ASSUME NEW props \in [Names -> Nat]
      PROVE  /\ Closed(props) \in Nodes /\ Closed(props).types = {"object"} /\ Closed(props).hasProps
             /\ Closed(props).props = props /\ Closed(props).closed
             /\ Closed(props).required = {name \in Names : props[name] # 0}
             /\ Declared(Closed(props)) = {name \in Names : props[name] # 0}
             /\ Closed(props).items = 0 /\ Closed(props).alts = <<>>
  <2> DEFINE names == {name \in Names : props[name] # 0}
             c == Closed(props)
  <2>1. names \in SUBSET Names
    OBVIOUS
  <2> HIDE DEF names
  <2>2. c = [Anything EXCEPT !.types = {"object"}, !.hasProps = TRUE, !.props = props,
                             !.required = names, !.closed = TRUE]
    BY DEF Closed, names
  <2>3. c \in Nodes
    <3> HIDE DEF c
    <3> QED
      BY <1>2, <2>1, <2>2 DEF Nodes, Types
  <2>4. /\ c.types = {"object"} /\ c.hasProps /\ c.props = props /\ c.closed
        /\ c.required = names /\ c.items = 0 /\ c.alts = <<>>
    <3> HIDE DEF c
    <3> QED
      BY <2>2 DEF Anything
  <2>5. Declared(c) = names
    <3> HIDE DEF c
    <3> QED
      BY <2>4 DEF Declared, names
  <2> QED
    BY <2>3, <2>4, <2>5 DEF names
<1> DEFINE cp == [name \in Names |-> IF name = RowArray THEN Root + 1 ELSE 0]
           sp == [Props EXCEPT ![RowArray] = 0]
<1>5. /\ cp \in [Names -> Nat] /\ {name \in Names : cp[name] # 0} = {RowArray}
      /\ cp[RowArray] = Root + 1 /\ \A name \in Names : cp[name] \in {0, Root + 1}
  BY <1>1
<1>6. /\ sp \in [Names -> Nat] /\ \A name \in Names : sp[name] \in {0, Props[name]}
      /\ \A name \in Names : sp[name] = IF name = RowArray THEN 0 ELSE Props[name]
  BY <1>1
<1>7. Others = {name \in Names : name # RowArray /\ Props[name] # 0}
  BY <1>1 DEF Others, Declared
<1> HIDE DEF cp, sp
<1>8. {name \in Names : sp[name] # 0} = Others
  BY <1>6, <1>7
<1>9. ChunkSchema = Closed(cp) /\ SummarySchema = Closed(sp)
  BY DEF ChunkSchema, SummarySchema, cp, sp
<1> HIDE DEF Rows, ChunkSchema, SummarySchema
<1>10. \A name \in Others : sp[name] = Props[name]
  BY <1>6, <1>7
<1>11. /\ ChunkSchema \in Nodes /\ ChunkSchema.types = {"object"} /\ ChunkSchema.hasProps
       /\ ChunkSchema.required = {RowArray} /\ ChunkSchema.items = 0 /\ ChunkSchema.alts = <<>>
       /\ Declared(ChunkSchema) = {RowArray} /\ ChunkSchema.props = cp
  BY <1>4, <1>5, <1>9
<1>12. /\ SummarySchema \in Nodes /\ SummarySchema.types = {"object"} /\ SummarySchema.hasProps
       /\ SummarySchema.required = Others /\ SummarySchema.closed
       /\ SummarySchema.items = 0 /\ SummarySchema.alts = <<>>
       /\ Declared(SummarySchema) = Others /\ SummarySchema.props = sp
  BY <1>4, <1>6, <1>8, <1>9
<1> QED
  BY <1>3, <1>5, <1>6, <1>10, <1>11, <1>12

\* They are added to the schema's own.
LEMMA TableNodes ==
    ASSUME schema \in Schemas
    PROVE  /\ IsTable(Table)
           /\ Root \in 1..Len(Table) /\ \A n \in 1..Root : n \in 1..Len(Table) /\ Table[n] = schema[n]
           /\ Chunked => /\ Len(Table) = Root + 3 /\ Table[Root + 1] = Rows
                         /\ Table[Root + 2] = ChunkSchema /\ Table[Root + 3] = SummarySchema
<1>1. /\ IsTable(schema) /\ Root \in Nat /\ Root \in 1..Len(schema) /\ Root = Len(schema)
      /\ \A n \in 1..Root : schema[n] \in Nodes /\ Before(schema[n], n)
  BY SchemaNodes DEF Root
<1>2. CASE ~Chunked
  BY <1>1, <1>2 DEF Table
<1>3. CASE Chunked
  <2> DEFINE more == <<Rows, ChunkSchema, SummarySchema>>
  <2> HIDE DEF Chunked
  <2>1. Table = schema \o more
    BY <1>3 DEF Table
  <2>2. Rows \in Nodes /\ ChunkSchema \in Nodes /\ SummarySchema \in Nodes
    BY <1>3, MadeNodes
  <2>3. schema \in Seq(Nodes)
    BY <1>1 DEF IsTable
  <2> HIDE DEF Rows, ChunkSchema, SummarySchema
  <2>4. more \in Seq(Nodes) /\ Len(more) = 3 /\ more[1] = Rows /\ more[2] = ChunkSchema
        /\ more[3] = SummarySchema
    BY <2>2
  <2> HIDE DEF more
  <2>5. /\ Table \in Seq(Nodes) /\ Len(Table) = Root + 3
        /\ \A n \in 1..Root : Table[n] = schema[n]
        /\ Table[Root + 1] = more[1] /\ Table[Root + 2] = more[2] /\ Table[Root + 3] = more[3]
    <3>1. more \in Seq(Nodes) /\ Len(more) = 3 /\ Len(schema) = Root /\ Root \in Nat
      BY <1>1, <2>4
    <3>2. /\ Table \in Seq(Nodes) /\ Len(Table) = Len(schema) + Len(more)
          /\ \A n \in 1..Len(schema) + Len(more) :
                Table[n] = IF n <= Len(schema) THEN schema[n] ELSE more[n - Len(schema)]
      BY <2>1, <2>3, <3>1, ConcatProperties
    <3> QED
      BY <3>1, <3>2
  <2>6. Table # <<>>
    BY <2>5, <1>1
  <2>7. Before(Rows, Root + 1) /\ (~Rows.hasProps => Declared(Rows) = {})
    <3>1. /\ \A name \in Names : Rows.props[name] = 0
          /\ Rows.items \in 1..Root - 1 /\ Rows.alts = <<>> /\ Declared(Rows) = {}
      BY <1>3, MadeNodes, RowArrayNodes DEF Declared
    <3> QED
      BY <3>1, <1>1 DEF Before
  <2>8. Before(ChunkSchema, Root + 2) /\ ChunkSchema.hasProps
    <3>1. /\ \A name \in Names : ChunkSchema.props[name] \in {0, Root + 1}
          /\ ChunkSchema.items = 0 /\ ChunkSchema.alts = <<>> /\ ChunkSchema.hasProps
      BY <1>3, MadeNodes
    <3> QED
      BY <3>1, <1>1 DEF Before
  <2>9. Before(SummarySchema, Root + 3) /\ SummarySchema.hasProps
    <3>1. /\ \A name \in Names : SummarySchema.props[name] \in {0, Props[name]}
          /\ SummarySchema.items = 0 /\ SummarySchema.alts = <<>> /\ SummarySchema.hasProps
      BY <1>3, MadeNodes
    <3>2. \A name \in Names : Props[name] \in 0..Root - 1
      BY <1>3, RowArrayNodes
    <3>3. \A name \in Names : SummarySchema.props[name] \in 0..(Root + 3) - 1
      BY <3>1, <3>2, <1>1
    <3> QED
      BY <3>1, <3>3, <1>1 DEF Before
  <2>10. \A n \in 1..Root + 3 : n \in 1..Root \/ n = Root + 1 \/ n = Root + 2 \/ n = Root + 3
    BY <1>1
  <2>11. \A n \in 1..Root : Before(schema[n], n) /\ (~schema[n].hasProps => Declared(schema[n]) = {})
    BY <1>1 DEF IsTable
  <2>12. \A n \in 1..Len(Table) : Before(Table[n], n) /\ (~Table[n].hasProps => Declared(Table[n]) = {})
    BY <2>4, <2>5, <2>7, <2>8, <2>9, <2>10, <2>11
  <2>13. IsTable(Table)
    BY <2>5, <2>6, <2>12 DEF IsTable
  <2>14. Root \in 1..Len(Table) /\ \A n \in 1..Root : n \in 1..Len(Table)
    BY <2>5, <1>1
  <2> QED
    BY <2>4, <2>5, <2>13, <2>14
<1> QED
  BY <1>2, <1>3

\* The schema of each completion is one of the table's.
LEMMA PartNodes ==
    ASSUME schema \in Schemas
    PROVE  /\ Len(Parts) \in 1..3 /\ \A i \in 1..Len(Parts) : Parts[i] \in 1..Len(Table)
           /\ ~Chunked => Len(Parts) = 1 /\ Parts[1] = Root
           /\ Chunked => /\ Len(Parts) = IF Others = {} THEN 2 ELSE 3
                         /\ Parts[1] = Root + 2 /\ Parts[2] = Root + 2
                         /\ Others # {} => Parts[3] = Root + 3
<1>1. Root \in Nat /\ Root \in 1..Len(Table) /\ (Chunked => Len(Table) = Root + 3)
  BY TableNodes, SchemaNodes
<1>2. CASE ~Chunked
  <2>1. Parts = <<Root>>
    BY <1>2 DEF Parts
  <2> QED
    BY <1>1, <1>2, <2>1
<1>3. CASE Chunked /\ Others = {}
  <2>1. Parts = <<Root + 2, Root + 2>>
    BY <1>3 DEF Parts
  <2> QED
    BY <1>1, <1>3, <2>1
<1>4. CASE Chunked /\ Others # {}
  <2>1. Parts = <<Root + 2, Root + 2, Root + 3>>
    BY <1>4 DEF Parts
  <2> QED
    BY <1>1, <1>4, <2>1
<1> QED
  BY <1>2, <1>3, <1>4

\* A request keeps its schemas.
LEMMA SameSchemas ==
    ASSUME UNCHANGED <<schema, long>>
    PROVE  /\ Root' = Root /\ Chunked' = Chunked /\ RowArray' = RowArray /\ Others' = Others
           /\ Table' = Table /\ Parts' = Parts /\ SaysMore' = SaysMore
           /\ \A v, n : IsValid(v, n)' = IsValid(v, n)
<1>1. schema' = schema /\ long' = long
  OBVIOUS
<1>2. Root' = Root /\ Props' = Props
  BY <1>1 DEF Root, Props
<1>3. RowArrays' = RowArrays
  BY <1>1, <1>2 DEF RowArrays
<1>4. RowArray' = RowArray /\ Chunked' = Chunked
  BY <1>1, <1>3 DEF RowArray, Chunked
<1>5. Others' = Others
  BY <1>1, <1>2, <1>4 DEF Others
<1>6. Rows' = Rows /\ ChunkSchema' = ChunkSchema /\ SummarySchema' = SummarySchema
  BY <1>1, <1>2, <1>4 DEF Rows, ChunkSchema, SummarySchema
<1>7. Table' = Table
  BY <1>1, <1>4, <1>6 DEF Table
<1>8. Parts' = Parts
  BY <1>2, <1>4, <1>5 DEF Parts
<1>9. SaysMore' = SaysMore
  BY <1>1, <1>2, <1>4 DEF SaysMore
<1>10. \A v, n : IsValid(v, n)' = IsValid(v, n)
  BY <1>7 DEF IsValid
<1> QED
  BY <1>2, <1>4, <1>5, <1>7, <1>8, <1>9, <1>10

-------------------------------------------------------------------------------
(* The invariant: each answer accepted is an object valid against the       *)
(* schema it was asked for, but for the chunks that were given up.          *)

IInv ==
    /\ schema \in Schemas /\ long \in BOOLEAN /\ rejected \in BOOLEAN
    /\ accepted \in Seq(Json) /\ Len(accepted) <= Len(Parts)
    /\ rejected => Len(accepted) < Len(Parts)
    /\ \A i \in 1..Len(accepted) :
          \/ accepted[i] = Null /\ Chunked /\ i <= 2
          \/ accepted[i].t = "object" /\ IsValid(accepted[i], Parts[i])

LEMMA NullIsValue == Null \in Json
<1>1. Null \in Nested[0]
  BY Levels DEF Leaves
<1>2. 0 \in 0..Depth /\ Depth \in 0..Depth
  BY DepthAssumption
<1> QED
  BY <1>1, <1>2, Deeper DEF Json

LEMMA InitIInv == Init => IInv
<1> SUFFICES ASSUME Init PROVE IInv
  OBVIOUS
<1>1. schema \in Schemas /\ long \in BOOLEAN /\ accepted = <<>> /\ rejected = FALSE
  BY DEF Init
<1>2. accepted \in Seq(Json) /\ Len(accepted) = 0
  BY <1>1
<1>3. Len(Parts) \in 1..3
  BY <1>1, PartNodes
<1>4. Len(accepted) <= Len(Parts) /\ \A i \in 1..Len(accepted) : FALSE
  BY <1>2, <1>3
<1> QED
  BY <1>1, <1>2, <1>4 DEF IInv

LEMMA NextIInv == IInv /\ [Next]_vars => IInv'
<1> SUFFICES ASSUME IInv, [Next]_vars PROVE IInv'
  OBVIOUS
<1>1. UNCHANGED <<schema, long>>
  BY DEF Next, Answer, GiveUp, Finish, vars
<1>2. /\ schema \in Schemas /\ long \in BOOLEAN /\ rejected \in BOOLEAN
      /\ accepted \in Seq(Json) /\ Len(accepted) \in Nat /\ Len(accepted) <= Len(Parts)
      /\ rejected => Len(accepted) < Len(Parts)
      /\ \A i \in 1..Len(accepted) :
            \/ accepted[i] = Null /\ Chunked /\ i <= 2
            \/ accepted[i].t = "object" /\ IsValid(accepted[i], Parts[i])
  BY DEF IInv
<1>3. Chunked' = Chunked /\ Parts' = Parts /\ \A v, n : IsValid(v, n)' = IsValid(v, n)
  BY <1>1, SameSchemas
<1>4. Len(Parts) \in Nat /\ (Chunked => 2 <= Len(Parts))
  BY <1>2, PartNodes
<1> HIDE DEF IInv
<1>5. ASSUME NEW v \in Json, accepted' = Append(accepted, v), Len(accepted) < Len(Parts), rejected' = FALSE,
             \/ v = Null /\ Chunked /\ Len(accepted) + 1 <= 2
             \/ v.t = "object" /\ IsValid(v, Parts[Len(accepted) + 1])
      PROVE  IInv'
  <2>1. /\ accepted' \in Seq(Json) /\ Len(accepted') = Len(accepted) + 1
        /\ \A i \in 1..Len(accepted) : accepted'[i] = accepted[i]
        /\ accepted'[Len(accepted) + 1] = v
    BY <1>2, <1>5
  <2>2. \A i \in 1..Len(accepted') : i \in 1..Len(accepted) \/ i = Len(accepted) + 1
    BY <1>2, <2>1
  <2>3. \A i \in 1..Len(accepted') :
           \/ accepted'[i] = Null /\ Chunked /\ i <= 2
           \/ accepted'[i].t = "object" /\ IsValid(accepted'[i], Parts[i])
    BY <1>2, <1>5, <2>1, <2>2
  <2>4. Len(accepted') <= Len(Parts)
    BY <1>2, <1>4, <1>5, <2>1
  <2> QED
    BY <1>1, <1>2, <1>3, <1>5, <2>1, <2>3, <2>4 DEF IInv
<1>6. ASSUME UNCHANGED accepted, rejected' \in BOOLEAN, rejected' => Len(accepted) < Len(Parts)
      PROVE  IInv'
  BY <1>1, <1>2, <1>3, <1>6 DEF IInv
<1>7. CASE Answer
  <2>1. Len(accepted) < Len(Parts)
    BY <1>7 DEF Answer, Asking
  <2>2. PICK v \in Values :
           IF v.t = "object" /\ IsValid(v, Part)
           THEN accepted' = Append(accepted, v) /\ rejected' = FALSE
           ELSE rejected' = TRUE /\ UNCHANGED accepted
    BY <1>7 DEF Answer
  <2>3. v \in Json
    BY ValuesAssumption
  <2>4. CASE v.t = "object" /\ IsValid(v, Part)
    BY <2>1, <2>2, <2>3, <2>4, <1>5 DEF Part
  <2>5. CASE ~(v.t = "object" /\ IsValid(v, Part))
    BY <2>1, <2>2, <2>5, <1>6
  <2> QED
    BY <2>4, <2>5
<1>8. CASE GiveUp
  <2>1. rejected' = FALSE /\ Len(accepted) < Len(Parts)
    BY <1>8 DEF GiveUp, Asking
  <2>2. CASE UNCHANGED accepted
    BY <2>1, <2>2, <1>6
  <2>3. CASE Chunked /\ Len(accepted) < 2 /\ accepted' = Append(accepted, Null)
    <3>1. Len(accepted) + 1 <= 2
      BY <1>2, <2>3
    <3> QED
      BY <2>1, <2>3, <3>1, <1>5, NullIsValue
  <2> QED
    BY <1>8, <2>2, <2>3 DEF GiveUp
<1>9. CASE Finish
  BY <1>2, <1>6, <1>9 DEF Finish
<1>10. CASE UNCHANGED vars
  BY <1>2, <1>6, <1>10 DEF vars
<1> QED
  BY <1>7, <1>8, <1>9, <1>10 DEF Next

\* Every reachable state satisfies the invariant.
THEOREM Invariance == Spec => []IInv
  BY InitIInv, NextIInv, PTL DEF Spec

\* A model that keeps to the strict schema has an answer rejected only for
\* what the relaxed view of the caller's schema leaves out as well.
THEOREM StrictAnswersAlwaysFit == Spec => []StrictAnswersFit
<1>1. IInv => StrictAnswersFit
  <2> SUFFICES ASSUME IInv, rejected, last \in Admitted(Table)[Part]["strict"]
               PROVE  last \in Admitted(Table)[Part]["relaxed"]
    BY DEF StrictAnswersFit
  <2>1. schema \in Schemas /\ Len(accepted) \in Nat /\ Len(accepted) < Len(Parts)
    BY DEF IInv
  <2>2. Len(Parts) \in 1..3
    BY <2>1, PartNodes
  <2>3. Len(accepted) + 1 \in 1..Len(Parts)
    BY <2>1, <2>2
  <2>4. Part \in 1..Len(Table) /\ IsTable(Table)
    BY <2>1, <2>3, PartNodes, TableNodes DEF Part
  <2>5. "strict" \in Views /\ "relaxed" \in Views /\ <<"strict", "relaxed">> \in Relaxations
    BY DEF Views, Relaxations
  <2> QED
    BY <2>4, <2>5, RelaxedAdmitsMore
<1> QED
  BY <1>1, Invariance, PTL

\* The rows of a chunk's answer: nested two less deep than the answer, and each
\* valid against the schema's rows; a chunk that was given up has none.
LEMMA RowsOfChunk ==
    ASSUME IInv, Chunked, NEW i \in 1..2, Len(accepted) >= 2
    PROVE  /\ Depth - 2 \in 0..Depth
           /\ RowsOf(i) \in Seq(Nested[Depth - 2])
           /\ \A j \in 1..Len(RowsOf(i)) :
                 RowsOf(i)[j] \in Admitted(Table)[schema[Props[RowArray]].items]["given"]
<1>1. /\ schema \in Schemas /\ accepted \in Seq(Json) /\ i \in 1..Len(accepted)
      /\ \/ accepted[i] = Null
         \/ accepted[i].t = "object" /\ IsValid(accepted[i], Parts[i])
  BY DEF IInv
<1>2. /\ Depth \in 1..Depth /\ Depth - 1 \in 1..Depth /\ Depth - 2 \in 0..Depth
      /\ (Depth - 1) - 1 = Depth - 2
  BY DepthAssumption
<1>3. CASE accepted[i] = Null
  <2>1. RowsOf(i) = <<>>
    BY <1>3 DEF RowsOf
  <2> QED
    BY <2>1, <1>2
<1>4. CASE accepted[i] # Null
  <2> DEFINE v == accepted[i]
             rows == v.fields[RowArray]
  <2>1. v \in Json /\ v.t = "object" /\ IsValid(v, Parts[i])
    BY <1>1, <1>4
  <2>2. RowsOf(i) = rows.items
    BY <1>4 DEF RowsOf
  <2>3. Parts[i] = Root + 2
    BY <1>1, PartNodes
  <2>4. /\ IsTable(Table) /\ Root + 2 \in 1..Len(Table) /\ Root + 1 \in 1..Len(Table)
        /\ Table[Root + 2] = ChunkSchema /\ Table[Root + 1] = Rows
    BY <1>1, TableNodes, SchemaNodes
  <2>5. RowArray \in Names /\ schema[Props[RowArray]].items # 0
    BY <1>1, RowArrayNodes DEF Declared
  <2>6. /\ ChunkSchema \in Nodes /\ ChunkSchema.required = {RowArray}
        /\ Declared(ChunkSchema) = {RowArray} /\ ChunkSchema.props[RowArray] = Root + 1
        /\ Rows \in Nodes /\ Rows.types = {"array"} /\ Rows.items = schema[Props[RowArray]].items
    BY <1>1, MadeNodes
  <2>7. "given" \in Views /\ \A s, part : Seen(s, "given") = s /\ Below(s, "given", part) = "given"
    BY DEF Views, Seen, Below
  <2>8. Admits(ChunkSchema, "given", Admitted(Table), v)
    <3> HIDE DEF v, Rows, ChunkSchema
    <3> QED
      BY <2>1, <2>3, <2>4, <2>7, AdmittedAt DEF IsValid
  <2> HIDE DEF v, Rows, ChunkSchema
  <2>9. RowArray \in Has(v) /\ rows \in Admitted(Table)[Root + 1]["given"]
    BY <2>1, <2>6, <2>7, <2>8, AdmitsDef
  <2> HIDE DEF rows
  <2>10. rows \in Json /\ Admits(Rows, "given", Admitted(Table), rows)
    BY <2>4, <2>7, <2>9, AdmittedAt
  <2>11. rows.t = "array"
    BY <2>6, <2>7, <2>10, AdmitsDef
  <2>12. \A j \in 1..Len(rows.items) : rows.items[j] \in Admitted(Table)[Rows.items]["given"]
    BY <2>5, <2>6, <2>7, <2>10, <2>11, AdmitsDef
  <2>13. v \in Objects(Nested[Depth - 1])
    BY <1>2, <2>1, Parted DEF Json
  <2>14. rows \in Nested[Depth - 1]
    BY <2>5, <2>9, <2>13, Kinds DEF Has, rows
  <2>15. rows.items \in Seq(Nested[Depth - 2])
    BY <1>2, <2>11, <2>14, Parted, Kinds
  <2> QED
    BY <1>2, <2>2, <2>6, <2>12, <2>15
<1> QED
  BY <1>3, <1>4

\* So are the rows that are merged.
LEMMA RowsMerged ==
    ASSUME IInv, Chunked, Len(accepted) >= 2
    PROVE  /\ MergedRows \in Seq(Nested[Depth - 2])
           /\ \A j \in 1..Len(MergedRows) :
                 MergedRows[j] \in Admitted(Table)[schema[Props[RowArray]].items]["given"]
<1> DEFINE J == Nested[Depth - 2]
           Fits(r) == r \in Admitted(Table)[schema[Props[RowArray]].items]["given"]
           a == RowsOf(1)
           b == RowsOf(2)
<1>1. a \in Seq(J) /\ b \in Seq(J)
  BY RowsOfChunk
<1>2. (\A j \in 1..Len(a) : Fits(a[j])) /\ \A j \in 1..Len(b) : Fits(b[j])
  BY RowsOfChunk
<1>3. MergedRows = a \o b \/ (b # <<>> /\ MergedRows = a \o Tail(b))
  BY DEF MergedRows
<1> HIDE DEF J, Fits, a, b
<1>4. ASSUME NEW c \in Seq(J), \A j \in 1..Len(c) : Fits(c[j])
      PROVE  a \o c \in Seq(J) /\ \A j \in 1..Len(a \o c) : Fits((a \o c)[j])
  <2>1. /\ a \o c \in Seq(J) /\ Len(a \o c) = Len(a) + Len(c)
        /\ \A j \in 1..Len(a) + Len(c) :
              (a \o c)[j] = IF j <= Len(a) THEN a[j] ELSE c[j - Len(a)]
    BY <1>1, <1>4, ConcatProperties
  <2>2. Len(a) \in Nat /\ Len(c) \in Nat
    BY <1>1
  <2>3. ASSUME NEW j \in 1..Len(a) + Len(c) PROVE Fits((a \o c)[j])
    <3>1. CASE j <= Len(a)
      BY <1>2, <2>1, <2>2, <3>1
    <3>2. CASE ~(j <= Len(a))
      <4>1. j - Len(a) \in 1..Len(c)
        BY <2>2, <3>2
      <4> QED
        BY <1>4, <2>1, <3>2, <4>1
    <3> QED
      BY <3>1, <3>2
  <2> QED
    BY <2>1, <2>3
<1>5. CASE MergedRows = a \o b
  BY <1>1, <1>2, <1>4, <1>5 DEF J, Fits
<1>6. CASE b # <<>> /\ MergedRows = a \o Tail(b)
  <2>1. /\ Tail(b) \in Seq(J) /\ Len(Tail(b)) = Len(b) - 1 /\ Len(b) \in Nat
        /\ \A j \in 1..Len(b) - 1 : Tail(b)[j] = b[j + 1]
    BY <1>1, <1>6
  <2>2. \A j \in 1..Len(Tail(b)) : j + 1 \in 1..Len(b) /\ j \in 1..Len(b) - 1
    BY <2>1
  <2>3. \A j \in 1..Len(Tail(b)) : Fits(Tail(b)[j])
    BY <1>2, <2>1, <2>2
  <2> QED
    BY <1>4, <1>6, <2>1, <2>3 DEF J, Fits
<1> QED
  BY <1>3, <1>5, <1>6

\* The array and the object that are made.
LEMMA Made ==
    ASSUME NEW x, NEW v
    PROVE  /\ v = [Null EXCEPT !.t = "array", !.atom = "none", !.items = x] =>
                 v = [t |-> "array", atom |-> "none", fields |-> <<>>, items |-> x]
           /\ v = [Null EXCEPT !.t = "object", !.atom = "none", !.fields = x] =>
                 v = [t |-> "object", atom |-> "none", fields |-> x, items |-> <<>>]
  BY DEF Null

\* A schema that says no more than its properties admits what is assembled.
LEMMA AssembledFits ==
    ASSUME IInv, Chunked, Len(accepted) = Len(Parts), ~SaysMore
    PROVE  IsValid(Assembled, Root)
<1> DEFINE valid == Admitted(Table)
           s == schema[Root]
           p == Props[RowArray]
           rows == [Null EXCEPT !.t = "array", !.atom = "none", !.items = MergedRows]
           summary == IF Len(accepted) = 3 THEN accepted[3].fields ELSE [name \in Names |-> Absent]
           whole == Assembled
<1>1. schema \in Schemas
  BY DEF IInv
<1>2. /\ Len(Parts) = IF Others = {} THEN 2 ELSE 3
      /\ Others # {} => Parts[3] = Root + 3
  BY <1>1, PartNodes
<1>3. /\ RowArray \in Declared(s) /\ RowArray \in Names /\ p \in 1..Root - 1
      /\ schema[p] \in Nodes /\ schema[p].types = {"array"} /\ schema[p].items # 0
  BY <1>1, RowArrayNodes DEF Declared
<1>4. /\ IsTable(Table) /\ Root \in 1..Len(Table) /\ Table[Root] = s
      /\ p \in 1..Len(Table) /\ Table[p] = schema[p] /\ s \in Nodes
      /\ Root + 3 \in 1..Len(Table) /\ Table[Root + 3] = SummarySchema
  <2>1. /\ IsTable(Table) /\ Root \in 1..Len(Table)
        /\ \A n \in 1..Root : n \in 1..Len(Table) /\ Table[n] = schema[n]
        /\ Len(Table) = Root + 3 /\ Table[Root + 3] = SummarySchema
    BY <1>1, TableNodes
  <2>2. Root \in Nat /\ Root \in 1..Root /\ s \in Nodes
    <3>1. Root \in Nat /\ Root \in 1..Len(Table)
      BY <2>1, <1>1, SchemaNodes
    <3>2. Root \in 1..Root
      BY <3>1
    <3> QED
      BY <3>1, <3>2, <1>1, SchemaNodes
  <2>3. p \in 1..Root /\ Root + 3 \in 1..Root + 3
    BY <1>3, <2>2
  <2> QED
    BY <2>1, <2>2, <2>3
<1>5. /\ s.required \subseteq Declared(s) /\ s.kw = "none" /\ s.enum = {}
      /\ s.types = {} \/ "object" \in s.types
      /\ schema[p].kw = "none" /\ schema[p].enum = {}
  BY DEF SaysMore, Props
<1>6. "given" \in Views /\ \A node, part : Seen(node, "given") = node /\ Below(node, "given", part) = "given"
  BY DEF Views, Seen, Below
<1>7. /\ Depth \in 1..Depth /\ Depth - 1 \in 1..Depth /\ Depth - 1 \in 0..Depth /\ Depth \in 0..Depth
      /\ (Depth - 1) - 1 = Depth - 2
  BY DepthAssumption
<1>8. /\ MergedRows \in Seq(Nested[Depth - 2])
      /\ \A j \in 1..Len(MergedRows) : MergedRows[j] \in valid[schema[p].items]["given"]
  BY <1>2, RowsMerged
<1>9. /\ rows = [t |-> "array", atom |-> "none", fields |-> <<>>, items |-> MergedRows]
      /\ rows.t = "array" /\ rows.items = MergedRows
  <2>1. rows = [t |-> "array", atom |-> "none", fields |-> <<>>, items |-> MergedRows]
    BY Made
  <2> HIDE DEF rows
  <2> QED
    BY <2>1
<1> HIDE DEF rows
<1>10. rows \in Nested[Depth - 1] /\ rows \in Json /\ rows # Absent
  <2>1. rows \in Arrays(Nested[Depth - 2])
    BY <1>8, <1>9 DEF Arrays
  <2>2. rows \in Nested[Depth - 1]
    BY <1>7, <2>1, Levels
  <2>3. rows \in Json
    BY <1>7, <2>2, Deeper DEF Json
  <2>4. rows # Absent
    BY <1>9 DEF Absent, Null
  <2> QED
    BY <2>2, <2>3, <2>4
<1> HIDE DEF valid
<1>11. rows \in valid[p]["given"]
  <2>1. Admits(schema[p], "given", valid, rows)
    BY <1>3, <1>5, <1>6, <1>8, <1>9, AdmitsDef
  <2> QED
    BY <1>4, <1>6, <1>10, <2>1, AdmittedAt DEF valid
<1>12. /\ summary \in [Names -> Nested[Depth - 1] \union {Absent}]
       /\ \A name \in Names : summary[name] # Absent <=> name \in Others
       /\ \A name \in Others : summary[name] \in valid[Props[name]]["given"]
  <2>1. CASE Others = {}
    <3>1. summary = [name \in Names |-> Absent]
      BY <1>2, <2>1
    <3> QED
      BY <2>1, <3>1
  <2>2. CASE Others # {}
    <3> DEFINE v == accepted[3]
    <3>1. Len(accepted) = 3 /\ summary = v.fields
      BY <1>2, <2>2
    <3>2. v \in Json /\ v.t = "object" /\ IsValid(v, Root + 3)
      BY <1>2, <2>2, <3>1 DEF IInv
    <3> HIDE DEF v, summary
    <3>3. Admits(SummarySchema, "given", valid, v)
      BY <1>4, <1>6, <3>2, AdmittedAt DEF IsValid, valid
    <3>4. /\ SummarySchema \in Nodes /\ SummarySchema.required = Others /\ SummarySchema.closed
          /\ Declared(SummarySchema) = Others
          /\ \A name \in Others : SummarySchema.props[name] = Props[name]
      BY <1>1, MadeNodes
    <3>5. /\ Others \subseteq Has(v) /\ Has(v) \subseteq Others
          /\ \A name \in Others : v.fields[name] \in valid[Props[name]]["given"]
      BY <1>6, <3>2, <3>3, <3>4, AdmitsDef
    <3>6. v.fields \in [Names -> Nested[Depth - 1] \union {Absent}]
      BY <1>7, <3>2, Parted, Kinds DEF Json
    <3> QED
      BY <3>1, <3>5, <3>6 DEF Has
  <2> QED
    BY <2>1, <2>2
<1> HIDE DEF summary
<1>13. whole = [t |-> "object", atom |-> "none", fields |-> [summary EXCEPT ![RowArray] = rows], items |-> <<>>]
  <2>1. whole = [Null EXCEPT !.t = "object", !.atom = "none", !.fields = [summary EXCEPT ![RowArray] = rows]]
    BY DEF Assembled, summary, rows
  <2> HIDE DEF whole
  <2> QED
    BY <2>1, Made
<1> HIDE DEF whole
<1>14. /\ whole.t = "object" /\ whole.fields \in [Names -> Nested[Depth - 1] \union {Absent}]
       /\ \A name \in Names : whole.fields[name] = IF name = RowArray THEN rows ELSE summary[name]
  BY <1>3, <1>10, <1>12, <1>13
<1>15. whole \in Json
  <2>1. whole \in Objects(Nested[Depth - 1])
    BY <1>13, <1>14 DEF Objects
  <2> QED
    BY <1>7, <2>1, Levels DEF Json
<1>16. Declared(s) = Others \union {RowArray} /\ RowArray \notin Others /\ Declared(s) \subseteq Names
  BY <1>3 DEF Others, Declared
<1>17. Has(whole) = Declared(s)
  BY <1>10, <1>12, <1>14, <1>16 DEF Has
<1>18. \A name \in Declared(s) : whole.fields[name] \in valid[s.props[name]]["given"]
  BY <1>11, <1>12, <1>14, <1>16 DEF Props
<1>19. Admits(s, "given", valid, whole)
  BY <1>4, <1>5, <1>6, <1>14, <1>17, <1>18, AdmitsDef
<1> QED
  BY <1>4, <1>6, <1>15, <1>19, AdmittedAt DEF IsValid, valid, whole

\* What is accepted for chunks and summary makes a valid whole, unless the
\* caller's schema says more than its properties.
THEOREM PartsAlwaysFitTogether == Spec => []PartsFitTogether
<1>1. Init => PartsFitTogether
  BY DEF Init, PartsFitTogether
<1>2. IInv /\ PartsFitTogether /\ [Next]_vars => PartsFitTogether'
  <2> SUFFICES ASSUME IInv, PartsFitTogether, [Next]_vars PROVE PartsFitTogether'
    OBVIOUS
  <2>1. SaysMore' = SaysMore
    <3>1. UNCHANGED <<schema, long>>
      BY DEF Next, Answer, GiveUp, Finish, vars
    <3> QED
      BY <3>1, SameSchemas
  <2>2. CASE Finish
    <3>1. SUFFICES ASSUME pc' = "misfit" PROVE SaysMore
      BY <2>1 DEF PartsFitTogether
    <3>2. Chunked /\ ~IsValid(Assembled, Root) /\ Len(accepted) = Len(Parts)
      BY <2>2, <3>1 DEF Finish
    <3> QED
      BY <3>2, AssembledFits
  <2>3. CASE pc' = "misfit" => pc = "misfit"
    BY <2>1, <2>3 DEF PartsFitTogether
  <2> QED
    BY <2>2, <2>3 DEF Next, Answer, GiveUp, vars
<1> QED
  BY <1>1, <1>2, Invariance, PTL DEF Spec

-------------------------------------------------------------------------------
(* What is rewritten stays valid, where no node says which strings it takes. *)

\* What a node makes of a value depends on the nodes it names.
LEMMA RewriteLocal ==
    ASSUME NEW s \in Nodes, NEW f, NEW g, NEW v, \A k \in Named(s) : f[k] = g[k]
    PROVE  Rewrite(s, f, v) = Rewrite(s, g, v)
<1>1. /\ \A name \in Declared(s) : f[s.props[name]] = g[s.props[name]]
      /\ s.items # 0 => f[s.items] = g[s.items]
  BY DEF Named
<1>2. CASE v.t = "object"
  <2>1. [name \in Names |-> IF name \in Has(v) \intersect Declared(s)
                            THEN f[s.props[name]][v.fields[name]] ELSE v.fields[name]]
        = [name \in Names |-> IF name \in Has(v) \intersect Declared(s)
                              THEN g[s.props[name]][v.fields[name]] ELSE v.fields[name]]
    BY <1>1
  <2> QED
    BY <1>2, <2>1 DEF Rewrite
<1>3. CASE v.t # "object"
  BY <1>1, <1>3 DEF Rewrite
<1> QED
  BY <1>2, <1>3

\* What the n-th node makes of each value, given what those before it do.
RewriteAt(table, clean, n) == [v \in Json |-> Rewrite(table[n], clean, v)]

LEMMA RewrittenDef ==
    ASSUME NEW table, IsTable(table)
    PROVE  Rewritten(table) = [n \in 1..Len(table) |-> RewriteAt(table, Rewritten(table), n)]
<1> DEFINE N == Len(table)
           Is(f, n) == f = [i \in 1..n |-> RewriteAt(table, f, i)]
           S == {n \in Nat : \E f : Is(f, n)}
<1>0. N \in Nat
  BY NodesOf
<1>1. 0 \in S
  <2> DEFINE f == [i \in 1..0 |-> {}]
  <2>1. f = [i \in 1..0 |-> RewriteAt(table, f, i)]
    OBVIOUS
  <2> HIDE DEF f
  <2> QED
    BY <2>1
<1>2. \A n \in 0..N : n + 1 \in 0..N /\ n \in S => n + 1 \in S
  <2> TAKE n \in 0..N
  <2> HAVE n + 1 \in 0..N /\ n \in S
  <2>1. PICK f : Is(f, n)
    OBVIOUS
  <2> DEFINE next == RewriteAt(table, f, n + 1)
             g == [i \in 1..n + 1 |-> IF i \in 1..n THEN f[i] ELSE next]
  <2>2. n \in Nat /\ n + 1 \in Nat /\ n + 1 \in 1..N /\ n + 1 \notin 1..n
    BY <1>0
  <2>3. \A i \in 1..n : f[i] = RewriteAt(table, f, i)
    <3> HIDE DEF S
    <3> QED
      BY <2>1
  <2>4. \A i \in 1..n : g[i] = f[i]
    BY <2>2
  <2>5. g[n + 1] = next
    BY <2>2
  <2>6. g = [i \in 1..n + 1 |-> g[i]]
    OBVIOUS
  <2> HIDE DEF g, next
  <2>7. \A i \in 1..n + 1 : g[i] = RewriteAt(table, g, i)
    <3> TAKE i \in 1..n + 1
    <3>1. i \in 1..N /\ (i \in 1..n \/ i = n + 1) /\ i \in Nat
      BY <1>0, <2>2
    <3>2. \A k \in 1..i - 1 : f[k] = g[k]
      BY <2>2, <2>4
    <3>3. table[i] \in Nodes /\ Before(table[i], i)
      BY <3>1, NodesOf
    <3>4. \A k \in Named(table[i]) : f[k] = g[k]
      BY <3>1, <3>2, <3>3, NamedBefore
    <3>5. \A v \in Json : Rewrite(table[i], f, v) = Rewrite(table[i], g, v)
      BY <3>3, <3>4, RewriteLocal
    <3>6. RewriteAt(table, f, i) = RewriteAt(table, g, i)
      BY <3>5 DEF RewriteAt
    <3> QED
      BY <3>1, <3>6, <2>3, <2>4, <2>5 DEF next
  <2>8. Is(g, n + 1)
    BY <2>6, <2>7
  <2> HIDE DEF Is
  <2> QED
    BY <2>2, <2>8
<1>3. N \in S
  <2>1. \A n \in 0..N : n \in S
    <3> HIDE DEF S, N
    <3> QED
      BY <1>0, <1>1, <1>2, UpTo
  <2>2. N \in 0..N
    BY <1>0
  <2> QED
    BY <2>1, <2>2
<1>4. \E f : Is(f, N)
  <2> HIDE DEF Is, N
  <2> QED
    BY <1>3
<1>5. Rewritten(table) = CHOOSE f : Is(f, N)
  BY DEF Rewritten, RewriteAt
<1> HIDE DEF Is, N
<1>6. Is(Rewritten(table), N)
  BY <1>4, <1>5
<1> QED
  BY <1>6 DEF Is, N

LEMMA RewrittenAt ==
    ASSUME NEW table, IsTable(table), NEW n \in 1..Len(table), NEW v \in Json
    PROVE  Rewritten(table)[n][v] = Rewrite(table[n], Rewritten(table), v)
<1>1. Rewritten(table)[n] = RewriteAt(table, Rewritten(table), n)
  BY RewrittenDef
<1> QED
  BY <1>1 DEF RewriteAt

\* A value is something.
LEMMA ValuesAreThere == Absent \notin Json /\ \A d \in 0..Depth : Absent \notin Nested[d]
<1>1. Absent.t = "absent"
  BY DEF Absent, Null
<1>2. \A d \in 0..Depth : Absent \notin Nested[d]
  <2> TAKE d \in 0..Depth
  <2>1. d = 0 \/ d \in 1..Depth
    BY DepthAssumption
  <2> QED
    BY <1>1, <2>1, Levels, Kinds
<1>3. Depth \in 0..Depth
  BY DepthAssumption
<1> QED
  BY <1>2, <1>3 DEF Json

KeepsDepth(f) == \A e \in 0..Depth : \A w \in Nested[e] : f[w] \in Nested[e]

\* What node s makes of v is r: its parts are what the nodes below make of v's.
Kept(s, clean, v, r) ==
    /\ r.t = v.t
    /\ v.t = "object" =>
          /\ Has(r) = Has(v)
          /\ \A name \in Names : r.fields[name] = IF name \in Has(v) \intersect Declared(s)
                                                  THEN clean[s.props[name]][v.fields[name]]
                                                  ELSE v.fields[name]
    /\ v.t = "array" =>
          /\ Len(r.items) = Len(v.items)
          /\ \A i \in 1..Len(v.items) :
                r.items[i] = IF s.items = 0 THEN v.items[i] ELSE clean[s.items][v.items[i]]

\* What a node makes of a value of some depth is one of that depth, and made of
\* the same parts.
LEMMA RewriteKeeps ==
    ASSUME NEW s \in Nodes, NEW clean, NEW d \in 0..Depth, NEW v \in Nested[d],
           \A k \in Named(s) : KeepsDepth(clean[k])
    PROVE  /\ Rewrite(s, clean, v) \in Nested[d]
           /\ Kept(s, clean, v, Rewrite(s, clean, v))
<1> DEFINE r == Rewrite(s, clean, v)
<1>1. /\ \A name \in Declared(s) : s.props[name] \in Named(s)
      /\ s.items # 0 => s.items \in Named(s)
  BY DEF Named
<1>2. CASE v.t = "object"
  <2> DEFINE fields == [name \in Names |->
                           IF name \in Has(v) \intersect Declared(s)
                           THEN clean[s.props[name]][v.fields[name]] ELSE v.fields[name]]
  <2>1. r = [v EXCEPT !.fields = fields]
    BY <1>2 DEF Rewrite
  <2>2. d \in 1..Depth
    BY <1>2, Levels, Kinds, DepthAssumption
  <2>3. v \in Objects(Nested[d - 1]) /\ d - 1 \in 0..Depth
        /\ Nested[d] = Leaves \union Arrays(Nested[d - 1]) \union Objects(Nested[d - 1])
    BY <1>2, <2>2, Parted, Levels
  <2>4. v.fields \in [Names -> Nested[d - 1] \union {Absent}]
    BY <2>3, Kinds
  <2>5. \A name \in Names : name \in Has(v) <=> v.fields[name] \in Nested[d - 1]
    BY <2>3, <2>4, ValuesAreThere DEF Has
  <2>6. /\ fields \in [Names -> Nested[d - 1] \union {Absent}]
        /\ \A name \in Names : fields[name] # Absent <=> name \in Has(v)
    <3>1. ASSUME NEW name \in Names
          PROVE  /\ fields[name] \in Nested[d - 1] \union {Absent}
                 /\ fields[name] # Absent <=> name \in Has(v)
      <4>1. CASE name \in Has(v) \intersect Declared(s)
        <5>1. clean[s.props[name]][v.fields[name]] \in Nested[d - 1]
          BY <1>1, <2>3, <2>5, <4>1 DEF KeepsDepth
        <5>2. fields[name] \in Nested[d - 1]
          BY <4>1, <5>1
        <5> HIDE DEF fields
        <5> QED
          BY <2>3, <4>1, <5>2, ValuesAreThere
      <4>2. CASE name \notin Has(v) \intersect Declared(s)
        <5>1. fields[name] = v.fields[name]
          BY <4>2
        <5> HIDE DEF fields
        <5> QED
          BY <2>4, <5>1 DEF Has
      <4> QED
        BY <4>1, <4>2
    <3> QED
      BY <3>1
  <2>7. \A name \in Names : fields[name]
           = IF name \in Has(v) \intersect Declared(s)
             THEN clean[s.props[name]][v.fields[name]] ELSE v.fields[name]
    OBVIOUS
  <2> HIDE DEF fields, r
  <2>8. r \in Objects(Nested[d - 1]) /\ r.fields = fields
    BY <2>1, <2>3, <2>6 DEF Objects
  <2>9. r \in Nested[d] /\ r.t = "object"
    BY <2>3, <2>8, Kinds
  <2>10. Has(r) = Has(v)
    BY <2>6, <2>8 DEF Has
  <2> QED
    BY <1>2, <2>7, <2>8, <2>9, <2>10 DEF r, Kept
<1>3. CASE v.t = "array" /\ s.items # 0
  <2> DEFINE items == [i \in 1..Len(v.items) |-> clean[s.items][v.items[i]]]
  <2>1. r = [v EXCEPT !.items = items]
    BY <1>3 DEF Rewrite
  <2>2. d \in 1..Depth
    BY <1>3, Levels, Kinds, DepthAssumption
  <2>3. v \in Arrays(Nested[d - 1]) /\ d - 1 \in 0..Depth
        /\ Nested[d] = Leaves \union Arrays(Nested[d - 1]) \union Objects(Nested[d - 1])
    BY <1>3, <2>2, Parted, Levels
  <2>4. v.items \in Seq(Nested[d - 1])
    BY <2>3, Kinds
  <2>5. \A i \in 1..Len(v.items) : clean[s.items][v.items[i]] \in Nested[d - 1]
    BY <1>1, <1>3, <2>3, <2>4 DEF KeepsDepth
  <2>6. /\ items \in Seq(Nested[d - 1]) /\ Len(items) = Len(v.items)
        /\ \A i \in 1..Len(v.items) : items[i] = clean[s.items][v.items[i]]
    <3>1. Len(v.items) \in Nat
      BY <2>4
    <3>2. /\ items \in [1..Len(v.items) -> Nested[d - 1]]
          /\ \A i \in 1..Len(v.items) : items[i] = clean[s.items][v.items[i]]
      BY <2>5
    <3> HIDE DEF items
    <3> QED
      BY <3>1, <3>2
  <2> HIDE DEF items, r
  <2>7. r \in Arrays(Nested[d - 1]) /\ r.items = items
    BY <2>1, <2>3, <2>6 DEF Arrays
  <2> QED
    BY <1>3, <2>3, <2>6, <2>7, Kinds DEF r, Kept
<1>4. CASE v.t = "string" /\ s.hint /\ v.atom = "raw"
  <2>1. r = [v EXCEPT !.atom = "clean"]
    BY <1>4 DEF Rewrite
  <2>2. v \in Leaves /\ Leaves \subseteq Nested[d]
    <3>1. d = 0 \/ d \in 1..Depth
      BY DepthAssumption
    <3> QED
      BY <1>4, <3>1, Levels, Kinds
  <2> HIDE DEF r
  <2>3. r \in Leaves /\ r.t = "string"
    BY <1>4, <2>1, <2>2, AtomsAssumption DEF Leaves, Null
  <2> QED
    BY <1>4, <2>2, <2>3 DEF r, Kept
<1>5. CASE /\ v.t # "object" /\ ~(v.t = "array" /\ s.items # 0)
           /\ ~(v.t = "string" /\ s.hint /\ v.atom = "raw")
  <2>1. r = v
    BY <1>5 DEF Rewrite
  <2> QED
    BY <1>5, <2>1 DEF Kept
<1> QED
  BY <1>2, <1>3, <1>4, <1>5

LEMMA RewrittenKeeps ==
    ASSUME NEW table, IsTable(table), NEW n \in 1..Len(table)
    PROVE  KeepsDepth(Rewritten(table)[n])
<1> DEFINE N == Len(table)
           clean == Rewritten(table)
           Keeps(k) == KeepsDepth(clean[k])
           S == {k \in Nat : \A j \in 1..k : Keeps(j)}
<1>0. N \in Nat
  BY NodesOf
<1>1. ASSUME NEW k \in 1..N, \A j \in 1..k - 1 : Keeps(j)
      PROVE  Keeps(k)
  <2>1. table[k] \in Nodes /\ Before(table[k], k) /\ k \in Nat
    BY NodesOf
  <2>2. \A m \in Named(table[k]) : Keeps(m)
    BY <1>1, <2>1, NamedBefore
  <2> SUFFICES ASSUME NEW d \in 0..Depth, NEW v \in Nested[d] PROVE clean[k][v] \in Nested[d]
    BY DEF KeepsDepth
  <2>3. v \in Json
    BY DepthAssumption, Deeper DEF Json
  <2>4. clean[k][v] = Rewrite(table[k], clean, v)
    BY <2>3, RewrittenAt
  <2>5. \A m \in Named(table[k]) : KeepsDepth(clean[m])
    BY <2>2
  <2> HIDE DEF clean, Keeps
  <2>6. Rewrite(table[k], clean, v) \in Nested[d]
    BY <2>1, <2>5, RewriteKeeps
  <2> QED
    BY <2>4, <2>6
<1>2. 0 \in S
  OBVIOUS
<1>3. \A k \in 0..N : k + 1 \in 0..N /\ k \in S => k + 1 \in S
  <2> TAKE k \in 0..N
  <2> HAVE k + 1 \in 0..N /\ k \in S
  <2> HIDE DEF Keeps
  <2>1. k + 1 \in 1..N /\ (k + 1) - 1 = k /\ k + 1 \in Nat
    BY <1>0
  <2>2. Keeps(k + 1)
    BY <1>1, <2>1
  <2> QED
    BY <2>1, <2>2
<1>4. \A k \in 0..N : k \in S
  <2> HIDE DEF S, N
  <2> QED
    BY <1>0, <1>2, <1>3, UpTo
<1>5. N \in 0..N
  BY <1>0
<1> QED
  BY <1>4, <1>5

\* Two values are alike in R, if they differ in their atoms alone: their parts
\* are alike in R.
Alike(R, v, w) ==
    /\ v \in Json /\ w \in Json /\ v.t = w.t
    /\ v.t = "object" =>
          /\ Has(v) = Has(w)
          /\ \A name \in Has(v) : <<v.fields[name], w.fields[name]>> \in R
    /\ v.t = "array" =>
          /\ Len(v.items) = Len(w.items)
          /\ \A i \in 1..Len(v.items) : <<v.items[i], w.items[i]>> \in R

\* A table of nodes that have no enum cannot tell such values apart.
LEMMA Blind ==
    ASSUME NEW table, IsTable(table), NEW m \in 0..Len(table), \A n \in 1..m : table[n].enum = {},
           NEW R, \A v, w : <<v, w>> \in R => Alike(R, v, w)
    PROVE  \A n \in 1..m : \A v, w : <<v, w>> \in R =>
              (v \in Admitted(table)[n]["given"] <=> w \in Admitted(table)[n]["given"])
<1> DEFINE valid == Admitted(table)
           Same(n) == \A v, w : <<v, w>> \in R => (v \in valid[n]["given"] <=> w \in valid[n]["given"])
           S == {k \in Nat : \A j \in 1..k : Same(j)}
<1>0. m \in Nat /\ m <= Len(table) /\ Len(table) \in Nat
  BY NodesOf
<1>1. ASSUME NEW n \in 1..m, \A j \in 1..n - 1 : Same(j)
      PROVE  Same(n)
  <2> SUFFICES ASSUME NEW v, NEW w, <<v, w>> \in R
               PROVE  v \in valid[n]["given"] <=> w \in valid[n]["given"]
    OBVIOUS
  <2> DEFINE s == table[n]
  <2>1. n \in 1..Len(table) /\ n \in Nat /\ s.enum = {}
    BY <1>0
  <2>2. s \in Nodes /\ Before(s, n)
    BY <2>1, NodesOf
  <2>3. \A k \in Named(s) : Same(k)
    BY <1>1, <2>1, <2>2, NamedBefore
  <2>4. Alike(R, v, w)
    OBVIOUS
  <2>5. "given" \in Views /\ Seen(s, "given") = s /\ \A part : Below(s, "given", part) = "given"
    BY DEF Views, Seen, Below
  <2> HIDE DEF s, valid
  <2>6. /\ \A name \in Declared(s) : Same(s.props[name])
        /\ s.items # 0 => Same(s.items)
        /\ \A i \in 1..Len(s.alts) : Same(s.alts[i])
    BY <2>3 DEF Named
  <2>7. Fitting(s, "given", valid, v) = Fitting(s, "given", valid, w)
    BY <2>5, <2>6 DEF Fitting
  <2>8. v.t = w.t
    BY <2>4 DEF Alike
  <2>9. ASSUME v.t = "object"
        PROVE  /\ Has(v) = Has(w)
               /\ \A name \in Has(v) \intersect Declared(s) :
                     v.fields[name] \in valid[s.props[name]]["given"]
                       <=> w.fields[name] \in valid[s.props[name]]["given"]
    BY <2>4, <2>6, <2>9 DEF Alike
  <2>10. ASSUME v.t = "array", s.items # 0
         PROVE  (\A i \in 1..Len(v.items) : v.items[i] \in valid[s.items]["given"])
                  <=> \A i \in 1..Len(w.items) : w.items[i] \in valid[s.items]["given"]
    <3>1. /\ Len(v.items) = Len(w.items)
          /\ \A i \in 1..Len(v.items) : <<v.items[i], w.items[i]>> \in R
      BY <2>4, <2>10 DEF Alike
    <3>2. \A i \in 1..Len(v.items) :
             v.items[i] \in valid[s.items]["given"] <=> w.items[i] \in valid[s.items]["given"]
      BY <2>6, <2>10, <3>1
    <3> QED
      BY <3>1, <3>2
  <2> HIDE DEF Same
  <2>11. Admits(s, "given", valid, v) <=> Admits(s, "given", valid, w)
    <3>1. \A u : Admits(s, "given", valid, u) <=>
             /\ s.types = {} \/ u.t \in s.types
             /\ s.enum = {} \/ u.atom \in s.enum
             /\ u.t = "object" =>
                   /\ s.required \subseteq Has(u)
                   /\ s.closed => Has(u) \subseteq Declared(s)
                   /\ \A name \in Has(u) \intersect Declared(s) :
                         u.fields[name] \in valid[s.props[name]]["given"]
             /\ u.t = "array" /\ s.items # 0 =>
                   \A i \in 1..Len(u.items) : u.items[i] \in valid[s.items]["given"]
             /\ s.kw = "anyOf" => Fitting(s, "given", valid, u) # {}
             /\ s.kw = "oneOf" =>
                   \E i \in Fitting(s, "given", valid, u) : Fitting(s, "given", valid, u) = {i}
             /\ s.kw = "allOf" => Fitting(s, "given", valid, u) = 1..Len(s.alts)
      BY <2>2, <2>5, AdmitsDef
    <3>2. CASE v.t = "object"
      BY <2>1, <2>7, <2>8, <2>9, <3>1, <3>2 DEF s
    <3>3. CASE v.t = "array" /\ s.items # 0
      BY <2>1, <2>7, <2>8, <2>10, <3>1, <3>3 DEF s
    <3>4. CASE v.t # "object" /\ ~(v.t = "array" /\ s.items # 0)
      BY <2>1, <2>7, <2>8, <3>1, <3>4 DEF s
    <3> QED
      BY <3>2, <3>3, <3>4
  <2>12. v \in Json /\ w \in Json
    BY <2>4 DEF Alike
  <2> QED
    BY <2>1, <2>5, <2>11, <2>12, AdmittedAt DEF s, valid
<1>2. 0 \in S
  OBVIOUS
<1>3. \A k \in 0..m : k + 1 \in 0..m /\ k \in S => k + 1 \in S
  <2> TAKE k \in 0..m
  <2> HAVE k + 1 \in 0..m /\ k \in S
  <2> HIDE DEF Same
  <2>1. k + 1 \in 1..m /\ (k + 1) - 1 = k /\ k + 1 \in Nat
    BY <1>0
  <2>2. Same(k + 1)
    BY <1>1, <2>1
  <2> QED
    BY <2>1, <2>2
<1>4. \A k \in 0..m : k \in S
  <2> HIDE DEF S
  <2> QED
    BY <1>0, <1>2, <1>3, UpTo
<1>5. m \in 0..m
  BY <1>0
<1> QED
  BY <1>4, <1>5

\* What rewriting makes of a value is alike.
LEMMA RewrittenAlike ==
    ASSUME NEW table, IsTable(table), NEW n \in 1..Len(table), NEW v \in Json
    PROVE  \E R : /\ \A x, y : <<x, y>> \in R => Alike(R, x, y)
                  /\ <<v, Rewritten(table)[n][v]>> \in R
<1> DEFINE N == Len(table)
           clean == Rewritten(table)
           R == {p \in Json \X Json : p[1] = p[2] \/ \E k \in 1..N : p[2] = clean[k][p[1]]}
<1>1. \A k \in 1..N : KeepsDepth(clean[k])
  BY RewrittenKeeps
<1>2. \A k \in 1..N, x \in Json : clean[k][x] \in Json
  <2>1. Depth \in 0..Depth
    BY DepthAssumption
  <2> QED
    BY <1>1, <2>1 DEF Json, KeepsDepth
<1>3. \A x \in Json : <<x, x>> \in R
  OBVIOUS
<1>4. \A k \in 1..N, x \in Json : <<x, clean[k][x]>> \in R
  BY <1>2
<1>5. \A x, y : <<x, y>> \in R => x \in Json /\ y \in Json /\ (x = y \/ \E k \in 1..N : y = clean[k][x])
  OBVIOUS
<1> HIDE DEF R
<1>6. ASSUME NEW x \in Json
      PROVE  /\ x.t = "object" => \A name \in Has(x) : x.fields[name] \in Json
             /\ x.t = "array" => x.items \in Seq(Json)
  <2>1. x.t = "object" => x.fields \in [Names -> Json \union {Absent}]
    BY PartsAreValues
  <2>2. x.t = "array" => x.items \in Seq(Json)
    BY PartsAreValues
  <2> QED
    BY <2>1, <2>2 DEF Has
<1>7. ASSUME NEW x \in Json
      PROVE  Alike(R, x, x)
  <2>1. x.t = "array" => \A i \in 1..Len(x.items) : x.items[i] \in Json
    BY <1>6
  <2> QED
    BY <1>3, <1>6, <2>1 DEF Alike
<1>8. ASSUME NEW x \in Json, NEW k \in 1..N
      PROVE  Alike(R, x, clean[k][x])
  <2> DEFINE s == table[k]
             y == clean[k][x]
  <2>1. s \in Nodes /\ Before(s, k) /\ k \in Nat /\ N \in Nat
    BY NodesOf
  <2>2. Named(s) \subseteq 1..N
    BY <2>1, NamedBefore
  <2>3. y = Rewrite(s, clean, x)
    BY RewrittenAt
  <2>4. Depth \in 0..Depth /\ x \in Nested[Depth]
    BY DepthAssumption DEF Json
  <2> HIDE DEF s, y, clean, N
  <2>5. Kept(s, clean, x, y)
    <3>1. \A m \in Named(s) : KeepsDepth(clean[m])
      BY <1>1, <2>2
    <3>2. Kept(s, clean, x, Rewrite(s, clean, x))
      BY <2>1, <2>4, <3>1, RewriteKeeps
    <3> QED
      BY <2>3, <3>2
  <2>6. y \in Json
    BY <1>2 DEF y
  <2>7. ASSUME x.t = "object"
        PROVE  \A name \in Has(x) : <<x.fields[name], y.fields[name]>> \in R
    <3> TAKE name \in Has(x)
    <3>1. x.fields[name] \in Json /\ name \in Names
      BY <1>6, <2>7 DEF Has
    <3>2. CASE name \in Declared(s)
      <4>1. s.props[name] \in 1..N
        BY <2>2, <3>2 DEF Named
      <4> QED
        BY <1>4, <2>5, <2>7, <3>1, <3>2, <4>1 DEF Kept
    <3>3. CASE name \notin Declared(s)
      BY <1>3, <2>5, <2>7, <3>1, <3>3 DEF Kept
    <3> QED
      BY <3>2, <3>3
  <2>8. ASSUME x.t = "array"
        PROVE  /\ Len(x.items) = Len(y.items)
               /\ \A i \in 1..Len(x.items) : <<x.items[i], y.items[i]>> \in R
    <3>1. x.items \in Seq(Json) /\ Len(x.items) \in Nat /\ \A i \in 1..Len(x.items) : x.items[i] \in Json
      BY <1>6, <2>8
    <3>2. CASE s.items = 0
      BY <1>3, <2>5, <2>8, <3>1, <3>2 DEF Kept
    <3>3. CASE s.items # 0
      <4>1. s.items \in 1..N
        BY <2>2, <3>3 DEF Named
      <4> QED
        BY <1>4, <2>5, <2>8, <3>1, <3>3, <4>1 DEF Kept
    <3> QED
      BY <3>2, <3>3
  <2> QED
    BY <2>5, <2>6, <2>7, <2>8 DEF Alike, Kept, y
<1> HIDE DEF clean, N
<1>9. \A x, y : <<x, y>> \in R => Alike(R, x, y)
  BY <1>5, <1>7, <1>8
<1>10. <<v, clean[n][v]>> \in R
  BY <1>4 DEF N
<1> QED
  BY <1>9, <1>10 DEF clean

\* No node of the caller's schema says which strings it takes.
NoEnums == \A n \in 1..Root : schema[n].enum = {}

LEMMA RewrittenFits ==
    ASSUME schema \in Schemas, NoEnums, NEW v, IsValid(v, Root)
    PROVE  IsValid(Rewritten(schema)[Root][v], Root)
<1>1. /\ IsTable(schema) /\ Root \in 1..Len(schema) /\ Root \in Nat
      /\ IsTable(Table) /\ Root \in 1..Len(Table)
      /\ \A n \in 1..Root : Table[n] = schema[n]
  BY SchemaNodes, TableNodes
<1>2. v \in Json
  BY <1>1, AdmittedAt DEF IsValid, Views
<1>3. PICK R : /\ \A x, y : <<x, y>> \in R => Alike(R, x, y)
               /\ <<v, Rewritten(schema)[Root][v]>> \in R
  BY <1>1, <1>2, RewrittenAlike
<1>4. Root \in 0..Len(Table) /\ Root \in 1..Root /\ \A n \in 1..Root : Table[n].enum = {}
  BY <1>1 DEF NoEnums
<1>5. \A n \in 1..Root : \A x, y : <<x, y>> \in R =>
         (x \in Admitted(Table)[n]["given"] <=> y \in Admitted(Table)[n]["given"])
  BY <1>1, <1>3, <1>4, Blind
<1> QED
  BY <1>3, <1>4, <1>5 DEF IsValid

\* Unless the schema says which strings it takes, rewriting them keeps the data
\* of a response as the caller's schema shapes it.
THEOREM RewrittenDataIsShaped == Spec => [](NoEnums => DataIsShaped)
<1> DEFINE Shaped == NoEnums => DataIsShaped
<1>1. Init => Shaped
  BY DEF Init, DataIsShaped
<1>2. IInv /\ Shaped /\ [Next]_vars => Shaped'
  <2> SUFFICES ASSUME IInv, Shaped, [Next]_vars, NoEnums', pc' = "returned"
               PROVE  IsValid(data, Root)'
    BY DEF DataIsShaped
  <2>1. UNCHANGED <<schema, long>>
    BY DEF Next, Answer, GiveUp, Finish, vars
  <2>2. Root' = Root /\ schema' = schema /\ \A v, n : IsValid(v, n)' = IsValid(v, n)
    BY <2>1, SameSchemas
  <2>3. NoEnums
    BY <2>2 DEF NoEnums
  <2>4. SUFFICES IsValid(data', Root)
    BY <2>2
  <2>5. CASE Finish
    <3> DEFINE whole == IF Chunked THEN Assembled ELSE accepted[1]
    <3>1. /\ Len(accepted) = Len(Parts) /\ ~(Chunked /\ ~IsValid(whole, Root))
          /\ data' = Rewritten(schema)[Root][whole]
      BY <2>5 DEF Finish
    <3>2. IsValid(whole, Root)
      <4>1. CASE Chunked
        BY <3>1, <4>1
      <4>2. CASE ~Chunked
        <5>1. schema \in Schemas
          BY DEF IInv
        <5>2. Len(Parts) = 1 /\ Parts[1] = Root
          BY <4>2, <5>1, PartNodes
        <5> QED
          BY <3>1, <4>2, <5>2 DEF IInv
      <4> QED
        BY <4>1, <4>2
    <3> HIDE DEF whole
    <3> QED
      BY <2>3, <3>1, <3>2, RewrittenFits DEF IInv
  <2>6. CASE ~Finish
    <3>1. pc = "returned" /\ data' = data
      BY <2>6 DEF Next, Answer, GiveUp, vars
    <3> QED
      BY <2>3, <3>1 DEF DataIsShaped
  <2> QED
    BY <2>5, <2>6
<1> QED
  BY <1>1, <1>2, Invariance, PTL DEF Spec
===============================================================================

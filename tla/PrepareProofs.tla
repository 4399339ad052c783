---------------------------- MODULE PrepareProofs ----------------------------
(***************************************************************************)
(* Theorems about what becomes of a pipeline before it runs, for a text of *)
(* any length, any statements and any stylesheets.                         *)
(*                                                                         *)
(* The parser and the rules are built from recursive functions.  That such *)
(* a function has the values its definition says is proved for each by     *)
(* induction, of which lemma Induction is a form that quantifies over no   *)
(* operator.                                                               *)
(***************************************************************************)
EXTENDS Prepare, FiniteSetTheorems, SequenceTheorems, WellFoundedInduction,
        NaturalsInduction, TLAPS

-----------------------------------------------------------------------------
(***************************************************************************)
(* Induction.                                                              *)
(***************************************************************************)

\* A set of numbers that is not empty has a least element.
LEMMA LeastNumber ==
    ASSUME NEW S \in SUBSET Nat, S # {}
    PROVE  \E i \in S : \A j \in S : i <= j
<1>1. PICK i \in S : \A j \in S : ~(<<j, i>> \in OpToRel(<, Nat))
  BY NatLessThanWellFounded, WFMin
<1>2. ASSUME NEW j \in S, j < i PROVE FALSE
  <2>1. <<j, i>> \in Nat \X Nat /\ <<j, i>>[1] < <<j, i>>[2]
    BY <1>2
  <2>2. <<j, i>> \in OpToRel(<, Nat)
    BY <2>1 DEF OpToRel
  <2> QED BY <1>1, <2>2
<1> QED BY <1>2

\* A set that holds 0 and with each number below N the next holds all up to N.
LEMMA Induction ==
    ASSUME NEW N \in Nat, NEW S, 0 \in S, \A n \in 0..N - 1 : n \in S => n + 1 \in S
    PROVE  \A n \in 0..N : n \in S
<1> DEFINE Missing == {n \in 0..N : n \notin S}
<1> SUFFICES ASSUME Missing # {} PROVE FALSE
  OBVIOUS
<1>1. Missing \in SUBSET Nat
  OBVIOUS
<1> HIDE DEF Missing
<1>2. PICK n \in Missing : \A m \in Missing : n <= m
  BY <1>1, LeastNumber
<1> USE DEF Missing
<1>3. n # 0 /\ n - 1 \in 0..N - 1 /\ n - 1 \notin Missing
  BY <1>2
<1> QED BY <1>3

\* The greatest of some of the numbers up to n.
LEMMA GreatestNumber ==
    ASSUME NEW n \in Nat, NEW S \in SUBSET (1..n), S # {}
    PROVE  Max(S) \in S /\ \A i \in S : i <= Max(S)
<1> DEFINE Left == {n - i : i \in S}
<1>1. Left \in SUBSET Nat /\ Left # {}
  <2>1. \A i \in S : n - i \in Nat
    OBVIOUS
  <2>2. PICK i \in S : TRUE
    OBVIOUS
  <2>3. n - i \in Left
    OBVIOUS
  <2> QED BY <2>1, <2>3
<1>2. PICK m \in Left : \A j \in Left : m <= j
  <2> HIDE DEF Left
  <2> QED BY <1>1, LeastNumber
<1>3. PICK i \in S : m = n - i
  BY <1>2
<1>4. \A j \in S : n - i <= n - j
  BY <1>2, <1>3
<1>5. \A j \in S : i >= j
  BY <1>4
<1>6. Max(S) \in S /\ \A j \in S : Max(S) >= j
  BY <1>5 DEF Max
<1> QED BY <1>6

\* A number above all others is the greatest of them.
LEMMA GreatestNew ==
    ASSUME NEW n \in Nat, NEW S \in SUBSET (1..n)
    PROVE  Max(S \cup {n + 1}) = n + 1
<1> DEFINE T == S \cup {n + 1}
<1>1. T \in SUBSET (1..n + 1) /\ T # {} /\ n + 1 \in T /\ n + 1 \in Nat
  OBVIOUS
<1> HIDE DEF T
<1>2. Max(T) \in T /\ n + 1 <= Max(T)
  BY <1>1, GreatestNumber
<1>3. Max(T) = n + 1
  <2>1. \A m : m \in 1..n + 1 /\ n + 1 <= m => m = n + 1
    OBVIOUS
  <2> QED BY <1>1, <1>2, <2>1
<1> QED BY <1>3 DEF T

-----------------------------------------------------------------------------
(***************************************************************************)
(* Recursion.                                                              *)
(***************************************************************************)

Steps(N, S) == [1..N -> [S -> S]]

Recurs(f, N, S, base, step) ==
    f \in [0..N -> S] /\ f[0] = base /\ \A n \in 1..N : f[n] = step[n][f[n - 1]]

\* A recursion over 0..N whose steps stay in S defines a function into S.
LEMMA Recursion ==
    ASSUME NEW N \in Nat, NEW S, NEW base \in S, NEW step \in Steps(N, S)
    PROVE  \E f : Recurs(f, N, S, base, step)
<1> USE DEF Steps
<1> DEFINE Is(f, k) ==
        /\ f \in [0..k -> S] /\ f[0] = base
        /\ \A n \in 1..k : f[n] = step[n][f[n - 1]]
    Built == {k \in 0..N : \E f : Is(f, k)}
<1>1. 0 \in Built
  <2> DEFINE f == [n \in 0..0 |-> base]
  <2>1. f \in [0..0 -> S] /\ f[0] = base
    OBVIOUS
  <2>2. \A n \in 1..0 : FALSE
    OBVIOUS
  <2> HIDE DEF f
  <2>3. Is(f, 0)
    BY <2>1, <2>2
  <2> QED BY <2>3
<1>2. ASSUME NEW k \in 0..N - 1, k \in Built PROVE k + 1 \in Built
  <2>1. PICK f : Is(f, k)
    BY <1>2
  <2> DEFINE h == [n \in 0..k + 1 |-> IF n = k + 1 THEN step[k + 1][f[k]] ELSE f[n]]
  <2>2. f[k] \in S /\ step[k + 1] \in [S -> S]
    BY <2>1
  <2>3. h \in [0..k + 1 -> S]
    BY <2>1, <2>2
  <2>4. h[0] = base
    BY <2>1
  <2>5. ASSUME NEW n \in 1..k + 1 PROVE h[n] = step[n][h[n - 1]]
    <3>1. h[n - 1] = f[n - 1]
      OBVIOUS
    <3>2. CASE n = k + 1
      BY <3>1, <3>2
    <3>3. CASE n \in 1..k
      BY <2>1, <3>1, <3>3
    <3> QED BY <3>2, <3>3
  <2> HIDE DEF h
  <2>6. Is(h, k + 1)
    BY <2>3, <2>4, <2>5
  <2> QED BY <2>6
<1>3. \A k \in 0..N - 1 : k \in Built => k + 1 \in Built
  BY <1>2
<1> HIDE DEF Built
<1>4. \A k \in 0..N : k \in Built
  BY <1>1, <1>3, Induction
<1> USE DEF Built
<1>5. N \in Built
  BY <1>4
<1> QED BY <1>5 DEF Recurs

\* How sequences are joined, one after the other.
Joined(s, t) == s \o t
Joining(N, X, seqs) == [n \in 1..N |-> [s \in Seq(X) |-> Joined(s, seqs[n])]]

\* The prefixes joined so far are sequences of the elements.
LEMMA JoiningType ==
    ASSUME NEW X, NEW N \in Nat, NEW seqs, \A n \in 1..N : seqs[n] \in Seq(X)
    PROVE  Joining(N, X, seqs) \in Steps(N, Seq(X))
<1>1. \A n \in 1..N : \A s \in Seq(X) : Joined(s, seqs[n]) \in Seq(X)
  BY ConcatProperties DEF Joined
<1> QED BY <1>1 DEF Joining, Steps

\* Each prefix is the one before with the next sequence at its end.
LEMMA JoiningStep ==
    ASSUME NEW X, NEW N \in Nat, NEW seqs, NEW f, Recurs(f, N, Seq(X), << >>, Joining(N, X, seqs))
    PROVE  /\ \A n \in 0..N : f[n] \in Seq(X)
           /\ f[0] = << >> /\ \A n \in 1..N : f[n] = Joined(f[n - 1], seqs[n])
<1>1. /\ \A n \in 0..N : f[n] \in Seq(X)
      /\ f[0] = << >>
  BY DEF Recurs
<1>2. ASSUME NEW n \in 1..N PROVE f[n] = Joined(f[n - 1], seqs[n])
  <2>1. f[n] = Joining(N, X, seqs)[n][f[n - 1]] /\ n - 1 \in 0..N
    BY DEF Recurs
  <2> QED BY <1>1, <2>1 DEF Joining
<1> QED BY <1>1, <1>2

\* FlattenSeq joins the sequences.
LEMMA FlattenJoins ==
    ASSUME NEW X, NEW seqs \in Seq(Seq(X)), NEW h,
           Recurs(h, Len(seqs), Seq(X), << >>, Joining(Len(seqs), X, seqs))
    PROVE  FlattenSeq(seqs) = h[Len(seqs)] /\ h[Len(seqs)] \in Seq(X)
<1> DEFINE N == Len(seqs)
           Is(f) == f = [i \in 1..N |-> IF i = 1 THEN seqs[i] ELSE Joined(f[i - 1], seqs[i])]
           flatten == CHOOSE f : Is(f)
           g == [i \in 1..N |-> h[i]]
<1>1. N \in Nat /\ \A n \in 1..N : seqs[n] \in Seq(X)
  BY ElementOfSeq
<1>2. /\ \A n \in 0..N : h[n] \in Seq(X)
      /\ h[0] = << >> /\ \A n \in 1..N : h[n] = Joined(h[n - 1], seqs[n])
  BY <1>1, JoiningStep
<1>3. CASE N = 0
  <2>1. seqs = << >>
    BY <1>3, EmptySeq
  <2> QED BY <1>2, <1>3, <2>1 DEF FlattenSeq
<1>4. CASE N # 0
  <2>1. N \in 0..N /\ N \in 1..N /\ 1 \in 1..N
    BY <1>1, <1>4
  <2>2. FlattenSeq(seqs) = flatten[N]
    BY <1>4 DEF FlattenSeq, Joined
  <2>3. h[1] = seqs[1]
    <3>1. h[1] = Joined(<< >>, seqs[1]) /\ seqs[1] \in Seq(X)
      BY <1>1, <1>2, <2>1
    <3> QED BY <3>1, ConcatEmptySeq DEF Joined
  <2>4. Is(g)
    <3> HIDE DEF N
    <3>1. ASSUME NEW i \in 1..N PROVE g[i] = IF i = 1 THEN seqs[i] ELSE Joined(g[i - 1], seqs[i])
      <4>1. CASE i = 1
        BY <2>3, <4>1
      <4>2. CASE i # 1
        <5>1. i - 1 \in 1..N
          BY <1>1, <4>2
        <5> QED BY <1>2, <4>2, <5>1
      <4> QED BY <4>1, <4>2
    <3>2. g = [i \in 1..N |-> g[i]]
      OBVIOUS
    <3> HIDE DEF g
    <3> QED BY <3>1, <3>2
  <2>5. Is(flatten)
    <3> HIDE DEF g
    <3> QED BY <2>4
  <2> DEFINE Right == {n \in 0..N : n = 0 \/ flatten[n] = h[n]}
  <2> HIDE DEF flatten, g
  <2>6. 0 \in Right
    BY <1>1
  <2>7. ASSUME NEW n \in 0..N - 1, n \in Right PROVE n + 1 \in Right
    <3>1. n + 1 \in 1..N /\ n + 1 \in 0..N /\ (n + 1) - 1 = n
      BY <1>1
    <3>2. CASE n = 0
      <4>1. flatten[1] = seqs[1]
        BY <2>1, <2>5
      <4> QED BY <2>3, <3>1, <3>2, <4>1
    <3>3. CASE n # 0
      <4>1. flatten[n + 1] = Joined(flatten[n], seqs[n + 1])
        <5>1. n + 1 # 1
          BY <3>3
        <5> HIDE DEF N
        <5> QED BY <2>5, <3>1, <5>1
      <4>2. h[n + 1] = Joined(h[n], seqs[n + 1])
        BY <1>2, <3>1
      <4> QED BY <2>7, <3>1, <3>3, <4>1, <4>2
    <3> QED BY <3>2, <3>3
  <2>8. flatten[N] = h[N]
    <3>1. \A n \in 0..N - 1 : n \in Right => n + 1 \in Right
      BY <2>7
    <3> HIDE DEF Right
    <3>2. \A n \in 0..N : n \in Right
      BY <1>1, <2>6, <3>1, Induction
    <3> USE DEF Right
    <3> QED BY <1>4, <2>1, <3>2
  <2> QED BY <1>2, <2>1, <2>2, <2>8
<1> QED BY <1>3, <1>4

\* One more sequence comes at the end of what was flattened.
LEMMA FlattenAppend ==
    ASSUME NEW X, NEW seqs \in Seq(Seq(X)), NEW seq \in Seq(X)
    PROVE  /\ FlattenSeq(seqs) \in Seq(X) /\ FlattenSeq(Append(seqs, seq)) \in Seq(X)
           /\ FlattenSeq(Append(seqs, seq)) = FlattenSeq(seqs) \o seq
<1> DEFINE N   == Len(seqs)
           all == Append(seqs, seq)
<1>1. /\ N \in Nat /\ all \in Seq(Seq(X)) /\ Len(all) = N + 1
      /\ all[N + 1] = seq /\ \A n \in 1..N : all[n] = seqs[n]
  BY LenProperties, AppendProperties
<1>2. /\ \A n \in 1..N : seqs[n] \in Seq(X)
      /\ \A n \in 1..N + 1 : all[n] \in Seq(X)
  BY <1>1, ElementOfSeq
<1> HIDE DEF all, N
<1>3. PICK h : Recurs(h, N + 1, Seq(X), << >>, Joining(N + 1, X, all))
  BY <1>1, <1>2, JoiningType, Recursion, EmptySeq
<1>4. /\ \A n \in 0..N + 1 : h[n] \in Seq(X)
      /\ h[0] = << >> /\ \A n \in 1..N + 1 : h[n] = Joined(h[n - 1], all[n])
  <2>1. N + 1 \in Nat
    BY <1>1
  <2> QED BY <1>3, <2>1, JoiningStep
<1> DEFINE g == [n \in 0..N |-> h[n]]
<1>5. Recurs(g, N, Seq(X), << >>, Joining(N, X, seqs))
  <2>1. g \in [0..N -> Seq(X)] /\ g[0] = << >>
    BY <1>1, <1>4
  <2>2. ASSUME NEW n \in 1..N PROVE g[n] = Joining(N, X, seqs)[n][g[n - 1]]
    <3>1. n \in 1..N + 1 /\ n - 1 \in 0..N /\ n \in 0..N
      BY <1>1
    <3>2. g[n] = Joined(g[n - 1], seqs[n]) /\ g[n - 1] \in Seq(X)
      <4>1. h[n] = Joined(h[n - 1], all[n]) /\ h[n - 1] \in Seq(X)
        <5>1. n - 1 \in 0..N + 1
          BY <1>1
        <5> QED BY <1>4, <3>1, <5>1
      <4>2. g[n] = h[n] /\ g[n - 1] = h[n - 1] /\ all[n] = seqs[n]
        BY <1>1, <3>1
      <4> HIDE DEF g
      <4> QED BY <4>1, <4>2
    <3> HIDE DEF g
    <3> QED BY <3>2 DEF Joining
  <2> HIDE DEF g
  <2> QED BY <2>1, <2>2 DEF Recurs
<1>6. FlattenSeq(all) = h[N + 1] /\ FlattenSeq(all) \in Seq(X)
  BY <1>1, <1>3, FlattenJoins
<1>7. FlattenSeq(seqs) = g[N] /\ FlattenSeq(seqs) \in Seq(X)
  <2> HIDE DEF g
  <2> QED BY <1>5, FlattenJoins DEF N
<1>8. h[N + 1] = Joined(h[N], seq) /\ g[N] = h[N]
  <2>1. N + 1 \in 1..N + 1 /\ (N + 1) - 1 = N /\ N \in 0..N
    BY <1>1
  <2> QED BY <1>1, <1>4, <2>1
<1> QED BY <1>6, <1>7, <1>8 DEF all, Joined

-----------------------------------------------------------------------------
(***************************************************************************)
(* The data of the parser.                                                 *)
(***************************************************************************)
AttrMap   == UNION {[D -> STRING] : D \in SUBSET STRING}
NodeAttrs == UNION {[D -> AttrMap] : D \in SUBSET STRING}
Graph == [nodes : Seq(STRING), attrs : NodeAttrs,
          edges : Seq([from : STRING, to : STRING, attrs : AttrMap]), set : AttrMap]

\* Every node is there once, and has attributes (model/graph.go: Nodes and
\* nodesByID hold the same nodes).
Once(g) == IsInjective(g.nodes) /\ DOMAIN g.attrs = ToSet(g.nodes)

\* A map is a function from strings to strings.
LEMMA MapType ==
    ASSUME NEW attrs \in AttrMap
    PROVE  /\ DOMAIN attrs \subseteq STRING
           /\ attrs = [key \in DOMAIN attrs |-> attrs[key]]
           /\ \A key \in DOMAIN attrs : attrs[key] \in STRING
BY DEF AttrMap

\* The empty map is one.
LEMMA NoAttrsType == NoAttrs \in AttrMap /\ DOMAIN NoAttrs = {}
<1>1. NoAttrs \in [{} -> STRING]
  BY DEF NoAttrs
<1> QED BY <1>1 DEF AttrMap

\* A map with one more value is one.
LEMMA AssignedType ==
    ASSUME NEW attrs \in AttrMap, NEW key \in STRING, NEW value \in STRING
    PROVE  Assigned(attrs, key, value) \in AttrMap
<1>1. Assigned(attrs, key, value) \in [DOMAIN attrs \cup {key} -> STRING]
  BY MapType DEF Assigned
<1>2. DOMAIN attrs \cup {key} \in SUBSET STRING
  BY MapType
<1> QED BY <1>1, <1>2 DEF AttrMap

\* Two maps make one.
LEMMA MergedType ==
    ASSUME NEW new \in AttrMap, NEW old \in AttrMap
    PROVE  Merged(new, old) \in AttrMap
<1>1. Merged(new, old) \in [DOMAIN new \cup DOMAIN old -> STRING]
  BY MapType DEF Merged
<1>2. DOMAIN new \cup DOMAIN old \in SUBSET STRING
  BY MapType
<1> QED BY <1>1, <1>2 DEF AttrMap

\* A node that is new to the graph comes last and has the attributes given;
\* those of a node that is there are merged (model/graph.go, AddNode).
LEMMA NodeAdded ==
    ASSUME NEW g \in Graph, Once(g), NEW id \in STRING, NEW attrs \in AttrMap
    PROVE  LET h == AddNode(g, id, attrs) IN
           /\ h \in Graph /\ Once(h) /\ h.edges = g.edges /\ h.set = g.set
           /\ ToSet(h.nodes) = ToSet(g.nodes) \cup {id}
           /\ \A n \in ToSet(g.nodes) \ {id} : h.attrs[n] = g.attrs[n]
           /\ id \in ToSet(g.nodes) => h.attrs[id] = Merged(attrs, g.attrs[id])
           /\ id \notin ToSet(g.nodes) => h.attrs[id] = attrs
<1> DEFINE h == AddNode(g, id, attrs)
<1>1. /\ g.nodes \in Seq(STRING) /\ g.attrs \in NodeAttrs
      /\ IsInjective(g.nodes) /\ DOMAIN g.attrs = ToSet(g.nodes)
  BY DEF Graph, Once
<1>2. /\ DOMAIN g.attrs \subseteq STRING
      /\ \A n \in DOMAIN g.attrs : g.attrs[n] \in AttrMap
      /\ g.attrs \in [DOMAIN g.attrs -> AttrMap]
  BY <1>1 DEF NodeAttrs
<1>3. CASE id \in ToSet(g.nodes)
  <2> DEFINE merged == Merged(attrs, g.attrs[id])
             all    == [g.attrs EXCEPT ![id] = merged]
  <2>1. merged \in AttrMap
    BY <1>1, <1>2, <1>3, MergedType
  <2>2. h = [g EXCEPT !.attrs = all]
    BY <1>1, <1>3 DEF AddNode
  <2> HIDE DEF merged, h
  <2>3. /\ all \in [DOMAIN g.attrs -> AttrMap] /\ DOMAIN all = DOMAIN g.attrs
        /\ all[id] = merged /\ \A n \in DOMAIN g.attrs \ {id} : all[n] = g.attrs[n]
    BY <1>1, <1>2, <1>3, <2>1
  <2>4. all \in NodeAttrs
    BY <1>2, <2>3 DEF NodeAttrs
  <2> HIDE DEF all
  <2>5. /\ h \in Graph /\ h.nodes = g.nodes /\ h.attrs = all
        /\ h.edges = g.edges /\ h.set = g.set
    BY <2>2, <2>4 DEF Graph
  <2> QED BY <1>1, <1>3, <2>3, <2>5 DEF Once, merged, h
<1>4. CASE id \notin ToSet(g.nodes)
  <2> DEFINE nodes == Append(g.nodes, id)
             all   == Assigned(g.attrs, id, attrs)
  <2>1. h = [g EXCEPT !.nodes = nodes, !.attrs = all]
    BY <1>1, <1>4 DEF AddNode
  <2>2. /\ all \in [DOMAIN g.attrs \cup {id} -> AttrMap]
        /\ DOMAIN all = DOMAIN g.attrs \cup {id}
        /\ all[id] = attrs /\ \A n \in DOMAIN g.attrs : all[n] = g.attrs[n]
    BY <1>1, <1>2, <1>4 DEF Assigned
  <2>3. DOMAIN g.attrs \cup {id} \in SUBSET STRING
    BY <1>2
  <2>4. all \in NodeAttrs
    BY <2>2, <2>3 DEF NodeAttrs
  <2>5. /\ nodes \in Seq(STRING) /\ Len(nodes) = Len(g.nodes) + 1
        /\ Len(g.nodes) \in Nat /\ DOMAIN g.nodes = 1..Len(g.nodes)
        /\ DOMAIN nodes = 1..Len(g.nodes) + 1
        /\ \A i \in 1..Len(g.nodes) : nodes[i] = g.nodes[i]
        /\ nodes[Len(g.nodes) + 1] = id
    BY <1>1, AppendProperties
  <2> HIDE DEF all, nodes, h
  <2>6. ToSet(nodes) = ToSet(g.nodes) \cup {id}
    BY <2>5 DEF ToSet
  <2>7. IsInjective(nodes)
    <3>1. \A i \in 1..Len(g.nodes) : g.nodes[i] # id
      BY <1>4, <2>5 DEF ToSet
    <3> QED BY <1>1, <2>5, <3>1 DEF IsInjective
  <2>8. /\ h \in Graph /\ h.nodes = nodes /\ h.attrs = all
        /\ h.edges = g.edges /\ h.set = g.set
    BY <2>1, <2>4, <2>5 DEF Graph
  <2> QED BY <1>1, <1>4, <2>2, <2>6, <2>7, <2>8 DEF Once, h
<1> QED BY <1>3, <1>4

\* What an edge names for the first time is added with the defaults in force
\* (dot/parser.go, parseEdgeStmt); other nodes stay as they are.
LEMMA NodeEnsured ==
    ASSUME NEW g \in Graph, Once(g), NEW id \in STRING, Scope.node \in AttrMap
    PROVE  LET h == EnsureNode(g, id) IN
           /\ h \in Graph /\ Once(h) /\ h.edges = g.edges /\ h.set = g.set
           /\ ToSet(h.nodes) = ToSet(g.nodes) \cup {id}
           /\ \A n \in ToSet(g.nodes) : h.attrs[n] = g.attrs[n]
           /\ id \notin ToSet(g.nodes) => h.attrs[id] = Scope.node
<1>1. CASE id \in DOMAIN g.attrs
  BY <1>1 DEF EnsureNode, Once
<1>2. CASE id \notin DOMAIN g.attrs
  <2>1. id \notin ToSet(g.nodes) /\ EnsureNode(g, id) = AddNode(g, id, Scope.node)
    BY <1>2 DEF EnsureNode, Once
  <2>2. ToSet(g.nodes) \ {id} = ToSet(g.nodes)
    BY <2>1
  <2> QED BY <2>1, <2>2, NodeAdded
<1> QED BY <1>1, <1>2

\* The same for the nodes of a chain, one after the other.
LEMMA ChainEnsured ==
    ASSUME NEW g \in Graph, Once(g), NEW ids \in Seq(STRING), Scope.node \in AttrMap
    PROVE  LET h == EnsureNodes(g, ids) IN
           /\ h \in Graph /\ Once(h) /\ h.edges = g.edges /\ h.set = g.set
           /\ ToSet(h.nodes) = ToSet(g.nodes) \cup ToSet(ids)
           /\ \A n \in ToSet(g.nodes) : h.attrs[n] = g.attrs[n]
           /\ \A n \in ToSet(ids) \ ToSet(g.nodes) : h.attrs[n] = Scope.node
<1> DEFINE N      == Len(ids)
           Graphs == {h \in Graph : Once(h)}
           step   == [n \in 1..N |-> [h \in Graphs |-> EnsureNode(h, ids[n])]]
           Is(f)  == f = [n \in 0..N |-> IF n = 0 THEN g ELSE EnsureNode(f[n - 1], ids[n])]
           after  == CHOOSE f : Is(f)
<1>1. N \in Nat /\ DOMAIN ids = 1..N /\ \A n \in 1..N : ids[n] \in STRING
  BY ElementOfSeq
<1>2. step \in Steps(N, Graphs)
  BY <1>1, NodeEnsured DEF Steps
<1>3. PICK f : Recurs(f, N, Graphs, g, step)
  <2>1. g \in Graphs
    OBVIOUS
  <2> HIDE DEF step, Graphs, N
  <2> QED BY <1>1, <1>2, <2>1, Recursion
<1>4. Is(f)
  <2>1. ASSUME NEW n \in 1..N PROVE f[n] = EnsureNode(f[n - 1], ids[n])
    <3> HIDE DEF Graphs, N, step
    <3>1. f[n - 1] \in Graphs /\ f[n] = step[n][f[n - 1]]
      BY <1>1, <1>3 DEF Recurs
    <3>2. step[n][f[n - 1]] = EnsureNode(f[n - 1], ids[n])
      BY <3>1 DEF step
    <3> QED BY <3>1, <3>2
  <2> HIDE DEF Graphs
  <2> QED BY <1>1, <1>3, <2>1 DEF Recurs
<1>5. Is(after)
  BY <1>4
<1>6. EnsureNodes(g, ids) = after[N]
  BY DEF EnsureNodes
<1> DEFINE Named(n) == {ids[k] : k \in 1..n}
           Result(n) ==
               LET h == after[n] IN
               /\ h \in Graph /\ Once(h) /\ h.edges = g.edges /\ h.set = g.set
               /\ ToSet(h.nodes) = ToSet(g.nodes) \cup Named(n)
               /\ \A m \in ToSet(g.nodes) : h.attrs[m] = g.attrs[m]
               /\ \A m \in Named(n) \ ToSet(g.nodes) : h.attrs[m] = Scope.node
           Right == {n \in 0..N : Result(n)}
<1> HIDE DEF after, step
<1>7. 0 \in Right
  <2>1. after[0] = g /\ Named(0) = {}
    BY <1>1, <1>5
  <2> QED BY <1>1, <2>1
<1>8. ASSUME NEW n \in 0..N - 1, n \in Right PROVE n + 1 \in Right
  <2> DEFINE h == after[n]
             id == ids[n + 1]
  <2>1. Result(n)
    BY <1>8
  <2>2. after[n + 1] = EnsureNode(h, id) /\ id \in STRING
    BY <1>1, <1>5
  <2>3. Named(n + 1) = Named(n) \cup {id}
    BY <1>1
  <2> HIDE DEF h, id, Named
  <2>4. LET j == EnsureNode(h, id) IN
        /\ j \in Graph /\ Once(j) /\ j.edges = h.edges /\ j.set = h.set
        /\ ToSet(j.nodes) = ToSet(h.nodes) \cup {id}
        /\ \A m \in ToSet(h.nodes) : j.attrs[m] = h.attrs[m]
        /\ id \notin ToSet(h.nodes) => j.attrs[id] = Scope.node
    BY <2>1, <2>2, NodeEnsured DEF h
  <2>5. Result(n + 1)
    BY <2>1, <2>2, <2>3, <2>4 DEF h
  <2> QED BY <2>5
<1>9. N \in Right
  <2>1. \A n \in 0..N - 1 : n \in Right => n + 1 \in Right
    BY <1>8
  <2> HIDE DEF Right
  <2>2. \A n \in 0..N : n \in Right
    BY <1>1, <1>7, <2>1, Induction
  <2> QED BY <1>1, <2>2
<1>10. Named(N) = ToSet(ids)
  BY <1>1 DEF ToSet
<1> QED BY <1>6, <1>9, <1>10

\* The keys of a list are those of its pairs, and a key has the value of the
\* last pair that gives it one (dot/parser.go, parseAttrList).
LEMMA ListRead ==
    ASSUME NEW pairs \in Seq(STRING \X STRING)
    PROVE  /\ AttrList(pairs) \in AttrMap
           /\ DOMAIN AttrList(pairs) = {pairs[k][1] : k \in DOMAIN pairs}
           /\ \A k \in DOMAIN pairs :
                  (\A j \in DOMAIN pairs : pairs[j][1] = pairs[k][1] => j <= k)
                  => AttrList(pairs)[pairs[k][1]] = pairs[k][2]
<1> DEFINE N     == Len(pairs)
           step  == [n \in 1..N |-> [a \in AttrMap |-> Assigned(a, pairs[n][1], pairs[n][2])]]
           Is(f) == f = [n \in 0..N |-> IF n = 0 THEN NoAttrs
                                        ELSE Assigned(f[n - 1], pairs[n][1], pairs[n][2])]
           read  == CHOOSE f : Is(f)
<1>1. /\ N \in Nat /\ DOMAIN pairs = 1..N
      /\ \A n \in 1..N : pairs[n][1] \in STRING /\ pairs[n][2] \in STRING
  <2>1. \A n \in 1..N : pairs[n] \in STRING \X STRING
    BY ElementOfSeq
  <2> QED BY <2>1
<1>2. step \in Steps(N, AttrMap)
  BY <1>1, AssignedType DEF Steps
<1>3. PICK f : Recurs(f, N, AttrMap, NoAttrs, step)
  <2> HIDE DEF step, N
  <2> QED BY <1>1, <1>2, NoAttrsType, Recursion
<1>4. Is(f)
  <2>1. ASSUME NEW n \in 1..N PROVE f[n] = Assigned(f[n - 1], pairs[n][1], pairs[n][2])
    <3> HIDE DEF N, step
    <3>1. f[n - 1] \in AttrMap /\ f[n] = step[n][f[n - 1]]
      BY <1>1, <1>3 DEF Recurs
    <3>2. step[n][f[n - 1]] = Assigned(f[n - 1], pairs[n][1], pairs[n][2])
      BY <3>1 DEF step
    <3> QED BY <3>1, <3>2
  <2> QED BY <1>1, <1>3, <2>1 DEF Recurs
<1>5. Is(read)
  BY <1>4
<1>6. AttrList(pairs) = read[N]
  BY DEF AttrList
<1> DEFINE Result(n) ==
               /\ read[n] \in AttrMap
               /\ DOMAIN read[n] = {pairs[k][1] : k \in 1..n}
               /\ \A k \in 1..n :
                      (\A j \in 1..n : pairs[j][1] = pairs[k][1] => j <= k)
                      => read[n][pairs[k][1]] = pairs[k][2]
           Right == {n \in 0..N : Result(n)}
<1> HIDE DEF read, step
<1>7. 0 \in Right
  <2>1. read[0] = NoAttrs
    BY <1>1, <1>5
  <2> QED BY <1>1, <2>1, NoAttrsType
<1>8. ASSUME NEW n \in 0..N - 1, n \in Right PROVE n + 1 \in Right
  <2> DEFINE key   == pairs[n + 1][1]
             value == pairs[n + 1][2]
             was   == read[n]
             now   == read[n + 1]
  <2>1. Result(n)
    BY <1>8
  <2>2. n + 1 \in 1..N /\ key \in STRING /\ value \in STRING
    BY <1>1
  <2>3. now = Assigned(was, key, value)
    BY <1>1, <1>5, <2>2
  <2>4. was \in AttrMap /\ now \in AttrMap
    BY <2>1, <2>2, <2>3, AssignedType
  <2>5. DOMAIN now = DOMAIN was \cup {key} /\ now[key] = value
        /\ \A k \in DOMAIN was : k # key => now[k] = was[k]
    BY <2>3 DEF Assigned
  <2>6. DOMAIN now = {pairs[k][1] : k \in 1..n + 1}
    BY <2>1, <2>5
  <2>7. ASSUME NEW k \in 1..n + 1, \A j \in 1..n + 1 : pairs[j][1] = pairs[k][1] => j <= k
        PROVE  now[pairs[k][1]] = pairs[k][2]
    <3>1. CASE k = n + 1
      BY <2>5, <3>1
    <3>2. CASE k \in 1..n
      <4>1. pairs[k][1] # key
        BY <2>2, <2>7, <3>2
      <4>2. was[pairs[k][1]] = pairs[k][2]
        <5>1. \A j \in 1..n : pairs[j][1] = pairs[k][1] => j <= k
          BY <2>7
        <5> QED BY <2>1, <3>2, <5>1
      <4>3. pairs[k][1] \in DOMAIN was
        BY <2>1, <3>2
      <4> QED BY <2>5, <4>1, <4>2, <4>3
    <3> QED BY <3>1, <3>2
  <2> HIDE DEF now
  <2>8. Result(n + 1)
    BY <2>4, <2>6, <2>7 DEF now
  <2> QED BY <2>2, <2>8
<1>9. N \in Right
  <2>1. \A n \in 0..N - 1 : n \in Right => n + 1 \in Right
    BY <1>8
  <2> HIDE DEF Right
  <2>2. \A n \in 0..N : n \in Right
    BY <1>1, <1>7, <2>1, Induction
  <2> QED BY <1>1, <2>2
<1> QED BY <1>1, <1>6, <1>9

\* The walk of the reachability rule does not leave a set of stages that holds
\* the start and is closed under the edges (validate/rules.go, reachabilityRule).
LEMMA WalkStays ==
    ASSUME NEW g, Len(g.nodes) \in Nat, NEW S, Start(g) \in S,
           \A e \in DOMAIN g.edges : g.edges[e].from \in S => g.edges[e].to \in S
    PROVE  Walk(g) \subseteq S
<1> DEFINE N       == Len(g.nodes)
           Further(T) == T \cup {g.edges[e].to : e \in {e \in DOMAIN g.edges : g.edges[e].from \in T}}
           All     == SUBSET ({Start(g)} \cup {g.edges[e].to : e \in DOMAIN g.edges})
           step    == [n \in 1..N |-> [T \in All |-> Further(T)]]
           Is(f)   == f = [n \in 0..N |-> IF n = 0 THEN {Start(g)} ELSE Further(f[n - 1])]
           walked  == CHOOSE f : Is(f)
<1>0. N \in Nat /\ {Start(g)} \in All
  OBVIOUS
<1>1. step \in Steps(N, All)
  BY DEF Steps
<1>2. PICK f : Recurs(f, N, All, {Start(g)}, step)
  <2> HIDE DEF step, N, All
  <2> QED BY <1>0, <1>1, Recursion
<1>3. Is(f)
  <2>1. ASSUME NEW n \in 1..N PROVE f[n] = Further(f[n - 1])
    <3> HIDE DEF N, All, Further, step
    <3>1. f[n - 1] \in All /\ f[n] = step[n][f[n - 1]]
      BY <1>0, <1>2 DEF Recurs
    <3>2. step[n][f[n - 1]] = Further(f[n - 1])
      BY <3>1 DEF step
    <3> QED BY <3>1, <3>2
  <2> HIDE DEF Further
  <2> QED BY <1>2, <2>1 DEF Recurs
<1>4. Is(walked)
  BY <1>3
<1>5. Walk(g) = walked[N]
  BY DEF Walk
<1> HIDE DEF walked
<1> DEFINE Right == {n \in 0..N : walked[n] \subseteq S}
<1>6. 0 \in Right
  BY <1>4
<1>7. ASSUME NEW n \in 0..N - 1, n \in Right PROVE n + 1 \in Right
  <2> HIDE DEF Further
  <2>1. walked[n + 1] = Further(walked[n]) /\ walked[n] \subseteq S
    <3>1. n + 1 \in 0..N /\ n + 1 # 0 /\ (n + 1) - 1 = n
      BY <1>0
    <3> HIDE DEF N
    <3> QED BY <1>4, <1>7, <3>1
  <2> USE DEF Further
  <2>2. Further(walked[n]) \subseteq S
    BY <2>1
  <2> QED BY <2>1, <2>2
<1>8. N \in Right
  <2>1. \A n \in 0..N - 1 : n \in Right => n + 1 \in Right
    BY <1>7
  <2> HIDE DEF Right
  <2>2. \A n \in 0..N : n \in Right
    BY <1>6, <2>1, Induction
  <2> QED BY <2>2
<1> QED BY <1>5, <1>8

-----------------------------------------------------------------------------
(***************************************************************************)
(* Types.                                                                  *)
(***************************************************************************)
DefaultAttrs == [node : AttrMap, edge : AttrMap]

ParserTyped ==
    /\ text \in Seq(Statements)
    /\ graph \in Graph /\ Once(graph)
    /\ defaults \in Seq(DefaultAttrs) /\ defaults # <<>>

Typed ==
    /\ text \in Seq(Statements)
    /\ parsed \in Graph /\ Once(parsed)
    /\ defaults \in Seq(DefaultAttrs) /\ defaults # <<>>
    /\ phase \in {"parse", "style"} => graph = parsed
    /\ phase = "parse" <=> parsing = "reading"
    /\ graph.nodes = parsed.nodes /\ graph.edges = parsed.edges
    /\ DOMAIN graph.attrs = ToSet(graph.nodes)

\* There are defaults in force, of the right kind.
LEMMA ScopeType ==
    ASSUME ParserTyped
    PROVE  /\ Scope \in DefaultAttrs /\ Scope.node \in AttrMap /\ Scope.edge \in AttrMap
           /\ Len(defaults) \in Nat \ {0}
<1>1. Len(defaults) \in Nat \ {0} /\ Len(defaults) \in 1..Len(defaults)
  BY EmptySeq, LenProperties DEF ParserTyped
<1>2. Scope \in DefaultAttrs
  BY <1>1, ElementOfSeq DEF ParserTyped, Scope
<1> QED BY <1>1, <1>2 DEF DefaultAttrs

\* The edges of a chain are added behind the others.
LEMMA EdgesAdded ==
    ASSUME NEW g \in Graph, Once(g), NEW ids \in Seq(STRING), Len(ids) >= 2, NEW attrs \in AttrMap
    PROVE  LET h == AddEdges(g, ids, attrs)
               added == [i \in 1..Len(ids) - 1 |->
                            [from |-> ids[i], to |-> ids[i + 1], attrs |-> attrs]]
           IN  /\ h \in Graph /\ Once(h) /\ h.edges = g.edges \o added
               /\ h.nodes = g.nodes /\ h.attrs = g.attrs /\ h.set = g.set
<1> DEFINE Edge  == [from : STRING, to : STRING, attrs : AttrMap]
           added == [i \in 1..Len(ids) - 1 |->
                        [from |-> ids[i], to |-> ids[i + 1], attrs |-> attrs]]
           edges == g.edges \o added
<1>1. Len(ids) \in Nat /\ \A i \in 1..Len(ids) : ids[i] \in STRING
  BY ElementOfSeq
<1>2. added \in [1..Len(ids) - 1 -> Edge]
  BY <1>1
<1>3. added \in Seq(Edge)
  <2>1. Len(ids) - 1 \in Nat
    BY <1>1
  <2> HIDE DEF added, Edge
  <2> QED BY <1>2, <2>1, IsASeq
<1>4. g.edges \in Seq(Edge)
  BY DEF Graph
<1>5. edges \in Seq(Edge)
  <2> HIDE DEF added, Edge
  <2> QED BY <1>3, <1>4, ConcatProperties
<1>6. AddEdges(g, ids, attrs) = [g EXCEPT !.edges = edges]
  BY DEF AddEdges
<1> HIDE DEF edges
<1>7. [g EXCEPT !.edges = edges] \in Graph
  BY <1>5 DEF Graph
<1> QED BY <1>6, <1>7 DEF Graph, Once, edges

\* A statement leaves a graph and defaults of their types.
LEMMA ParserTypedStep ==
    ASSUME ParserTyped, Parse
    PROVE  ParserTyped'
<1> USE DEF ParserTyped
<1>1. /\ Scope \in DefaultAttrs /\ Scope.node \in AttrMap /\ Scope.edge \in AttrMap
      /\ Len(defaults) \in Nat \ {0}
  BY ScopeType
<1>2. ASSUME NEW stmt \in Statements, Reads(stmt) PROVE text' \in Seq(Statements)
  BY <1>2, AppendProperties DEF Reads
<1>3. \A stmt \in Statements :
          /\ stmt.attrs \in Seq(STRING \X STRING) /\ AttrList(stmt.attrs) \in AttrMap
          /\ stmt.ids \in Seq(STRING)
  BY ParserAssumption, ListRead
<1>4. ASSUME NEW stmt \in Statements, GraphAttrStmt(stmt) PROVE ParserTyped'
  <2> DEFINE set == Merged(AttrList(stmt.attrs), graph.set)
  <2>1. set \in AttrMap
    BY <1>3, MergedType DEF Graph
  <2>2. graph' = [graph EXCEPT !.set = set]
    BY <1>4 DEF GraphAttrStmt
  <2> HIDE DEF set
  <2>3. graph' \in Graph /\ Once(graph)'
    BY <2>1, <2>2 DEF Graph, Once
  <2> QED BY <1>2, <1>4, <2>3 DEF GraphAttrStmt
<1>5. ASSUME NEW stmt \in Statements, DefaultsStmt(stmt) PROVE ParserTyped'
  <2> DEFINE merged == Merged(AttrList(stmt.attrs), Scope[stmt.kind])
             scope  == [Scope EXCEPT ![stmt.kind] = merged]
  <2>1. stmt.kind \in {"node", "edge"}
    BY <1>5 DEF DefaultsStmt
  <2>2. merged \in AttrMap
    BY <1>1, <1>3, <2>1, MergedType
  <2>3. defaults' = [defaults EXCEPT ![Len(defaults)] = scope]
    BY <1>5 DEF DefaultsStmt, Scope
  <2> HIDE DEF merged
  <2>4. scope \in DefaultAttrs
    BY <1>1, <2>1, <2>2 DEF DefaultAttrs
  <2> HIDE DEF scope
  <2>5. Len(defaults) \in 1..Len(defaults)
    BY <1>1
  <2>6. defaults' \in Seq(DefaultAttrs) /\ Len(defaults') = Len(defaults)
    BY <2>3, <2>4, <2>5, ExceptSeq
  <2>7. defaults' # <<>>
    BY <1>1, <2>6, EmptySeq
  <2> QED BY <1>2, <1>5, <2>6, <2>7 DEF DefaultsStmt, Once
<1>6. ASSUME NEW stmt \in Statements, OpenSubgraph(stmt) PROVE ParserTyped'
  <2>1. defaults' \in Seq(DefaultAttrs) /\ defaults' # <<>>
    BY <1>1, <1>6, AppendProperties DEF OpenSubgraph
  <2> QED BY <1>2, <1>6, <2>1 DEF OpenSubgraph, Once
<1>7. ASSUME NEW stmt \in Statements, CloseSubgraph(stmt) PROVE ParserTyped'
  <2>1. Len(defaults) > 1 /\ defaults' = SubSeq(defaults, 1, Len(defaults) - 1)
    BY <1>7 DEF CloseSubgraph, Front
  <2>2. defaults' \in Seq(DefaultAttrs) /\ Len(defaults') = Len(defaults) - 1
    BY <1>1, <2>1, ElementOfSeq, SubSeqProperties
  <2>3. Len(defaults') > 0
    BY <1>1, <2>1, <2>2
  <2>4. defaults' # <<>>
    BY <2>3
  <2> QED BY <1>2, <1>7, <2>2, <2>4 DEF CloseSubgraph, Once
<1>8. ASSUME NEW stmt \in Statements, NodeStmt(stmt) PROVE ParserTyped'
  <2> DEFINE attrs == Merged(AttrList(stmt.attrs), Scope.node)
  <2>1. attrs \in AttrMap /\ stmt.ids[1] \in STRING
    BY <1>1, <1>3, <1>8, MergedType, ParserAssumption, ElementOfSeq DEF NodeStmt
  <2>2. graph' = AddNode(graph, stmt.ids[1], attrs)
    BY <1>8 DEF NodeStmt
  <2> HIDE DEF attrs
  <2>3. graph' \in Graph /\ Once(graph')
    BY <2>1, <2>2, NodeAdded
  <2> QED BY <1>2, <1>8, <2>3 DEF NodeStmt, Once
<1>9. ASSUME NEW stmt \in Statements, EdgeStmt(stmt) PROVE ParserTyped'
  <2> DEFINE attrs == Merged(AttrList(stmt.attrs), Scope.edge)
             full  == EnsureNodes(graph, stmt.ids)
  <2>1. attrs \in AttrMap /\ Len(stmt.ids) >= 2
    BY <1>1, <1>3, <1>9, MergedType, ParserAssumption DEF EdgeStmt
  <2>2. full \in Graph /\ Once(full)
    BY <1>1, <1>3, ChainEnsured
  <2>3. graph' = AddEdges(full, stmt.ids, attrs)
    BY <1>9 DEF EdgeStmt
  <2> HIDE DEF attrs, full
  <2>4. graph' \in Graph /\ Once(graph')
    BY <1>3, <2>1, <2>2, <2>3, EdgesAdded
  <2> QED BY <1>2, <1>9, <2>4 DEF EdgeStmt, Once
<1>10. CASE UnexpectedToken \/ EndOfDigraph
  BY <1>10 DEF UnexpectedToken, EndOfDigraph, Once
<1> QED BY <1>4, <1>5, <1>6, <1>7, <1>8, <1>9, <1>10 DEF Parse, Statement

\* Parsing, styling and validation keep the types.
LEMMA TypedStep == Typed /\ [Next]_vars => Typed'
<1> SUFFICES ASSUME Typed, [Next]_vars PROVE Typed'
  OBVIOUS
<1> USE DEF Typed
<1>1. CASE ParsePipeline
  <2>1. ParserTyped /\ phase = "parse" /\ Parse
    BY <1>1 DEF ParsePipeline, ParserTyped
  <2>2. ParserTyped'
    BY <2>1, ParserTypedStep
  <2>3. parsing = "reading" /\ parsing' \in {"reading", "parsed", "error"}
    BY <2>1 DEF Parse, Statement, GraphAttrStmt, DefaultsStmt, OpenSubgraph, CloseSubgraph,
                NodeStmt, EdgeStmt, Reads, UnexpectedToken, EndOfDigraph
  <2>4. phase' = "parse" <=> parsing' = "reading"
    BY <1>1, <2>1, <2>3 DEF ParsePipeline
  <2>5. parsed' = graph'
    BY <1>1 DEF ParsePipeline
  <2> QED BY <2>2, <2>4, <2>5 DEF ParserTyped, Once
<1>2. CASE ApplyStylesheet
  <2> USE DEF ApplyStylesheet
  <2>1. CASE phase' = "failed" /\ UNCHANGED graph
    BY <1>2, <2>1
  <2>2. CASE /\ phase' = "validate"
             /\ graph' = [graph EXCEPT !.attrs =
                   [n \in NodeIds(graph) |-> Styled(Rules(Sheet), n, graph.attrs[n])]]
    <3> DEFINE styled == [n \in NodeIds(graph) |-> Styled(Rules(Sheet), n, graph.attrs[n])]
    <3>1. DOMAIN styled = ToSet(graph.nodes)
      BY DEF NodeIds
    <3> HIDE DEF styled
    <3>2. graph \in Graph /\ graph' = [graph EXCEPT !.attrs = styled]
      BY <1>2, <2>2 DEF styled
    <3>3. /\ graph'.nodes = graph.nodes /\ graph'.edges = graph.edges
          /\ graph'.attrs = styled
      BY <3>2 DEF Graph
    <3> QED BY <1>2, <2>2, <3>1, <3>3
  <2> QED BY <1>2, <2>1, <2>2
<1>3. CASE Validate
  BY <1>3 DEF Validate, parserVars
<1>4. CASE Initialize
  BY <1>4 DEF Initialize, parserVars
<1>5. CASE UNCHANGED vars
  BY <1>5 DEF vars, parserVars
<1> QED BY <1>1, <1>2, <1>3, <1>4, <1>5 DEF Next

\* An empty graph has the types.
LEMMA InitTyped == Init => Typed
<1> SUFFICES ASSUME Init PROVE Typed
  OBVIOUS
<1> USE DEF Init, ParserInit
<1>1. << >> \in Seq(Statements) /\ << >> \in Seq(STRING) /\ << >> \in Seq(DefaultAttrs)
      /\ << >> \in Seq([from : STRING, to : STRING, attrs : AttrMap])
  BY EmptySeq
<1>2. NoAttrs \in NodeAttrs
  BY DEF NoAttrs, NodeAttrs
<1>3. graph \in Graph
  BY <1>1, <1>2, NoAttrsType DEF Graph
<1>4. Once(graph) /\ DOMAIN graph.attrs = ToSet(graph.nodes)
  BY NoAttrsType DEF Once, IsInjective, ToSet
<1>5. [node |-> NoAttrs, edge |-> NoAttrs] \in DefaultAttrs
  BY NoAttrsType DEF DefaultAttrs
<1>6. defaults \in Seq(DefaultAttrs) /\ defaults # <<>>
  BY <1>5
<1> QED BY <1>1, <1>3, <1>4, <1>6 DEF Typed

\* The types hold throughout.
LEMMA PrepareTyped == Spec => []Typed
<1> QED BY InitTyped, TypedStep, PTL DEF Spec

-----------------------------------------------------------------------------
(***************************************************************************)
(* The text and what it means.  Statement by statement: what was said keeps*)
(* its meaning, and what is said now adds to it as the parser does.        *)
(***************************************************************************)
\* The map has a value for the key if yes, and then this one.
Holds(attrs, key, yes, value) ==
    (key \in DOMAIN attrs <=> yes) /\ (yes => attrs[key] = value)

\* The value of a key in two merged maps.
LEMMA MergedHolds ==
    ASSUME NEW new, NEW old, NEW key, NEW p, NEW v, NEW q, NEW w,
           Holds(new, key, p, v), Holds(old, key, q, w)
    PROVE  Holds(Merged(new, old), key, p \/ q, IF p THEN v ELSE w)
BY DEF Holds, Merged

\* A list gives a key the value of the last pair with the key.
LEMMA ListHolds ==
    ASSUME NEW pairs \in Seq(STRING \X STRING), NEW key
    PROVE  Holds(AttrList(pairs), key, \E k \in DOMAIN pairs : pairs[k][1] = key,
                 pairs[Max({k \in DOMAIN pairs : pairs[k][1] = key})][2])
<1> DEFINE At == {k \in DOMAIN pairs : pairs[k][1] = key}
<1>1. Len(pairs) \in Nat /\ DOMAIN pairs = 1..Len(pairs)
  BY LenProperties
<1>2. DOMAIN AttrList(pairs) = {pairs[k][1] : k \in DOMAIN pairs}
  BY ListRead
<1>3. ASSUME At # {} PROVE AttrList(pairs)[key] = pairs[Max(At)][2]
  <2>1. At \in SUBSET (1..Len(pairs))
    BY <1>1
  <2> HIDE DEF At
  <2>2. Max(At) \in At /\ \A i \in At : i <= Max(At)
    BY <1>1, <1>3, <2>1, GreatestNumber
  <2> DEFINE k == Max(At)
  <2>3. k \in DOMAIN pairs /\ pairs[k][1] = key
    BY <2>2 DEF At
  <2>4. \A j \in DOMAIN pairs : pairs[j][1] = pairs[k][1] => j <= k
    BY <2>2, <2>3 DEF At
  <2> HIDE DEF k
  <2>5. AttrList(pairs)[pairs[k][1]] = pairs[k][2]
    BY <2>3, <2>4, ListRead
  <2> QED BY <2>3, <2>5 DEF k
<1>4. key \in DOMAIN AttrList(pairs) <=> \E k \in DOMAIN pairs : pairs[k][1] = key
  BY <1>2
<1>5. (\E k \in DOMAIN pairs : pairs[k][1] = key) => At # {}
  OBVIOUS
<1> QED BY <1>3, <1>4, <1>5 DEF Holds

\* One more statement.
LEMMA TextGrows ==
    ASSUME NEW n, text \in Seq(Statements), n = Len(text),
           NEW stmt \in Statements, text' = Append(text, stmt)
    PROVE  /\ n \in Nat /\ DOMAIN text = 1..n
           /\ Len(text') = n + 1 /\ DOMAIN text' = 1..n + 1
           /\ text'[n + 1] = stmt /\ \A i \in 1..n : text'[i] = text[i]
           /\ \A i \in 1..n : text[i] \in Statements
BY AppendProperties, LenProperties, ElementOfSeq


\* The depth at a place of the text depends on what is before it only.
LEMMA DepthGrows ==
    ASSUME NEW n, text \in Seq(Statements), n = Len(text),
           NEW stmt \in Statements, text' = Append(text, stmt)
    PROVE  /\ \A i \in 1..n + 1 : Depth(i)' = Depth(i) /\ Depth(i) \in Int
           /\ Depth(n + 2)' = CASE stmt.kind = "open"  -> Depth(n + 1) + 1
                                [] stmt.kind = "close" -> Depth(n + 1) - 1
                                [] OTHER -> Depth(n + 1)
<1> DEFINE Of(kind, i) == {j \in 1..i - 1 : text[j].kind = kind}
           New(kind)   == {j \in 1..(n + 2) - 1 : text'[j].kind = kind}
<1>1. n \in Nat /\ text'[n + 1] = stmt /\ \A i \in 1..n : text'[i] = text[i]
  BY TextGrows
<1>2. ASSUME NEW kind, NEW i \in 1..n + 1
      PROVE  /\ Cardinality(Of(kind, i)) \in Nat
             /\ IsFiniteSet(Of(kind, i))
  <2>1. IsFiniteSet(1..i - 1)
    BY <1>1, FS_Interval
  <2>2. Of(kind, i) \subseteq 1..i - 1
    OBVIOUS
  <2> HIDE DEF Of
  <2> QED BY <2>1, <2>2, FS_Subset, FS_CardinalityType
<1>3. ASSUME NEW i \in 1..n + 1 PROVE Depth(i)' = Depth(i) /\ Depth(i) \in Int
  <2>1. {j \in 1..i - 1 : text'[j].kind = "open"} = {j \in 1..i - 1 : text[j].kind = "open"}
    BY <1>1
  <2>2. {j \in 1..i - 1 : text'[j].kind = "close"} = {j \in 1..i - 1 : text[j].kind = "close"}
    BY <1>1
  <2>3. Depth(i)' = Depth(i)
    BY <2>1, <2>2 DEF Depth
  <2>4. Depth(i) = Cardinality(Of("open", i)) - Cardinality(Of("close", i))
    BY DEF Depth
  <2> HIDE DEF Of
  <2> QED BY <1>2, <2>3, <2>4
<1>4. ASSUME NEW kind
      PROVE  Cardinality(New(kind)) = IF stmt.kind = kind THEN Cardinality(Of(kind, n + 1)) + 1
                                      ELSE Cardinality(Of(kind, n + 1))
  <2>0. n + 1 \in 1..n + 1 /\ n + 1 \notin Of(kind, n + 1)
    BY <1>1
  <2>1. CASE stmt.kind = kind
    <3>1. New(kind) = Of(kind, n + 1) \cup {n + 1}
      BY <1>1, <2>1
    <3> HIDE DEF New, Of
    <3>2. Cardinality(Of(kind, n + 1) \cup {n + 1}) = Cardinality(Of(kind, n + 1)) + 1
      BY <1>2, <2>0, FS_AddElement
    <3> QED BY <2>1, <3>1, <3>2
  <2>2. CASE stmt.kind # kind
    <3>1. New(kind) = Of(kind, n + 1)
      BY <1>1, <2>2
    <3> HIDE DEF New, Of
    <3> QED BY <2>2, <3>1
  <2> QED BY <2>1, <2>2
<1>5. Depth(n + 2)' = Cardinality(New("open")) - Cardinality(New("close"))
  BY DEF Depth
<1>6. Depth(n + 1) = Cardinality(Of("open", n + 1)) - Cardinality(Of("close", n + 1))
  BY DEF Depth
<1>7. /\ n + 1 \in 1..n + 1
      /\ Cardinality(Of("open", n + 1)) \in Nat /\ Cardinality(Of("close", n + 1)) \in Nat
  <2>1. n + 1 \in 1..n + 1
    BY <1>1
  <2> HIDE DEF Of
  <2> QED BY <1>2, <2>1
<1> HIDE DEF New, Of
<1>8. Depth(n + 2)' = CASE stmt.kind = "open"  -> Depth(n + 1) + 1
                        [] stmt.kind = "close" -> Depth(n + 1) - 1
                        [] OTHER -> Depth(n + 1)
  <2>1. CASE stmt.kind = "open"
    BY <1>4, <1>5, <1>6, <1>7, <2>1
  <2>2. CASE stmt.kind = "close"
    BY <1>4, <1>5, <1>6, <1>7, <2>2
  <2>3. CASE stmt.kind # "open" /\ stmt.kind # "close"
    BY <1>4, <1>5, <1>6, <1>7, <2>3
  <2> QED BY <2>1, <2>2, <2>3
<1> QED BY <1>3, <1>8

\* What was said before a statement keeps its meaning.
LEMMA MeaningKept ==
    ASSUME NEW n, text \in Seq(Statements), n = Len(text),
           NEW stmt \in Statements, text' = Append(text, stmt)
    PROVE  /\ \A i, j \in 1..n + 1 : InScope(j, i)' <=> InScope(j, i)
           /\ \A i \in 1..n : \A key : (Gives(i, key)' <=> Gives(i, key)) /\ Given(i, key)' = Given(i, key)
           /\ \A i \in 1..n + 1 : \A kind, key :
                  /\ Defaulting(kind, i, key)' = Defaulting(kind, i, key)
                  /\ Defaulting(kind, i, key) \in SUBSET (1..n)
           /\ \A i \in 1..n : \A kind, key :
                  (text[i].kind = Own[kind] /\ Gives(i, key)) \/ Defaulting(kind, i, key) # {}
                  => Written(kind, i, key)' = Written(kind, i, key)
           /\ \A i \in 1..n : Names(i)' = Names(i) /\ EdgesOf(i)' = EdgesOf(i)
           /\ \A i \in 1..n : \A id : FirstNamed(i, id)' <=> FirstNamed(i, id)
<1>1. /\ n \in Nat /\ DOMAIN text = 1..n /\ DOMAIN text' = 1..n + 1
      /\ text'[n + 1] = stmt /\ \A i \in 1..n : text'[i] = text[i]
  BY TextGrows
<1>2. \A i \in 1..n + 1 : Depth(i)' = Depth(i)
  BY DepthGrows
<1>3. ASSUME NEW i \in 1..n + 1, NEW j \in 1..n + 1 PROVE InScope(j, i)' <=> InScope(j, i)
  <2>1. \A k \in j..i : k \in 1..n + 1
    BY <1>1
  <2> QED BY <1>2, <2>1 DEF InScope
<1>4. ASSUME NEW i \in 1..n, NEW key
      PROVE  (Gives(i, key)' <=> Gives(i, key)) /\ Given(i, key)' = Given(i, key)
  <2>1. text'[i] = text[i]
    BY <1>1
  <2> QED BY <2>1 DEF Gives, Given
<1>5. ASSUME NEW i \in 1..n + 1, NEW kind, NEW key
      PROVE  /\ Defaulting(kind, i, key)' = Defaulting(kind, i, key)
             /\ Defaulting(kind, i, key) \in SUBSET (1..n)
  <2>1. \A j \in 1..n : j \in 1..n + 1
    BY <1>1
  <2>2. \A j \in 1..n : (/\ text'[j].kind = kind /\ InScope(j, i)' /\ Gives(j, key)')
                        <=> /\ text[j].kind = kind /\ InScope(j, i) /\ Gives(j, key)
    BY <1>1, <1>3, <1>4, <2>1
  <2>3. ~InScope(n + 1, i)'
    BY <1>1 DEF InScope
  <2>4. Defaulting(kind, i, key)' =
            {j \in 1..n + 1 : text'[j].kind = kind /\ InScope(j, i)' /\ Gives(j, key)'}
    BY <1>1 DEF Defaulting
  <2>5. Defaulting(kind, i, key) =
            {j \in 1..n : text[j].kind = kind /\ InScope(j, i) /\ Gives(j, key)}
    BY <1>1 DEF Defaulting
  <2>6. \A j \in 1..n + 1 : j \in 1..n \/ j = n + 1
    BY <1>1
  <2> QED BY <2>1, <2>2, <2>3, <2>4, <2>5, <2>6
<1>6. ASSUME NEW i \in 1..n, NEW kind, NEW key,
             (text[i].kind = Own[kind] /\ Gives(i, key)) \/ Defaulting(kind, i, key) # {}
      PROVE  Written(kind, i, key)' = Written(kind, i, key)
  <2>1. i \in 1..n + 1 /\ text'[i] = text[i]
    BY <1>1
  <2>2. CASE text[i].kind = Own[kind] /\ Gives(i, key)
    BY <1>4, <2>1, <2>2 DEF Written
  <2>3. CASE ~(text[i].kind = Own[kind] /\ Gives(i, key))
    <3>1. PICK m : m = Max(Defaulting(kind, i, key))
      OBVIOUS
    <3>2. /\ Defaulting(kind, i, key)' = Defaulting(kind, i, key)
          /\ Defaulting(kind, i, key) \in SUBSET (1..n)
      BY <1>5, <2>1
    <3>3. m \in 1..n
      BY <1>1, <1>6, <2>3, <3>1, <3>2, GreatestNumber
    <3>4. Written(kind, i, key) = text[m].attrs[
              Max({k \in DOMAIN text[m].attrs : text[m].attrs[k][1] = key})][2]
      BY <2>3, <3>1 DEF Written, Given
    <3>5. Written(kind, i, key)' = text'[m].attrs[
              Max({k \in DOMAIN text'[m].attrs : text'[m].attrs[k][1] = key})][2]
      BY <1>4, <2>1, <2>3, <3>1, <3>2 DEF Written, Given
    <3> QED BY <1>1, <3>3, <3>4, <3>5
  <2> QED BY <2>2, <2>3
<1>7. ASSUME NEW i \in 1..n PROVE Names(i)' = Names(i) /\ EdgesOf(i)' = EdgesOf(i)
  <2>1. text'[i] = text[i]
    BY <1>1
  <2> QED BY <2>1 DEF Names, EdgesOf
<1>8. ASSUME NEW i \in 1..n, NEW id PROVE FirstNamed(i, id)' <=> FirstNamed(i, id)
  <2>1. \A j \in 1..i - 1 : j \in 1..n
    BY <1>1
  <2> QED BY <1>7, <2>1 DEF FirstNamed
<1> QED BY <1>3, <1>4, <1>5, <1>6, <1>7, <1>8

\* The defaults said at a depth less than d and in force after the last statement.
Level(d, kind, key) ==
    {j \in DOMAIN text : /\ text[j].kind = kind /\ Gives(j, key)
                         /\ InScope(j, Len(text) + 1) /\ Depth(j) < d}

ScopesAsWritten ==
    /\ Depth(Len(text) + 1) = Len(defaults) - 1
    /\ \A d \in 1..Len(defaults), kind \in {"node", "edge"} : \A key :
          Holds(defaults[d][kind], key, Level(d, kind, key) # {},
                Given(Max(Level(d, kind, key)), key))

\* The innermost scope holds what is in force.
LEMMA ScopeInForce ==
    ASSUME ParserTyped, ScopesAsWritten, NEW n, n = Len(text),
           NEW kind \in {"node", "edge"}, NEW key
    PROVE  Holds(Scope[kind], key, Defaulting(kind, n + 1, key) # {},
                 Given(Max(Defaulting(kind, n + 1, key)), key))
<1>1. Len(defaults) \in 1..Len(defaults) /\ Len(defaults) \in Nat /\ n \in Nat /\ DOMAIN text = 1..n
  BY ScopeType, LenProperties DEF ParserTyped
<1>2. ASSUME NEW j \in 1..n, InScope(j, n + 1) PROVE Depth(j) < Len(defaults)
  <2>1. n + 1 \in j..n + 1
    BY <1>1
  <2>2. Depth(n + 1) >= Depth(j)
    BY <1>2, <2>1 DEF InScope
  <2>3. Depth(n + 1) = Len(defaults) - 1
    BY DEF ScopesAsWritten
  <2>4. Depth(j) \in Int
    <3>1. ASSUME NEW S \in SUBSET (1..n) PROVE Cardinality(S) \in Int
      <4>1. IsFiniteSet(1..n)
        BY <1>1, FS_Interval
      <4>2. IsFiniteSet(S)
        BY <4>1, FS_Subset
      <4> QED BY <4>2, FS_CardinalityType
    <3>2. {k \in 1..j - 1 : text[k].kind = "open"} \in SUBSET (1..n)
      BY <1>1
    <3>3. {k \in 1..j - 1 : text[k].kind = "close"} \in SUBSET (1..n)
      BY <1>1
    <3> QED BY <3>1, <3>2, <3>3 DEF Depth
  <2> QED BY <1>1, <2>2, <2>3, <2>4
<1>3. Level(Len(defaults), kind, key) = Defaulting(kind, n + 1, key)
  BY <1>1, <1>2 DEF Level, Defaulting
<1> QED BY <1>1, <1>3 DEF ScopesAsWritten, Scope

\* What is in force after a statement: what was before it and what it says
\* itself, unless the scope it is said in has ended.
LEMMA ScopeGrows ==
    ASSUME NEW n, text \in Seq(Statements), n = Len(text),
           NEW stmt \in Statements, text' = Append(text, stmt)
    PROVE  /\ \A j \in 1..n : InScope(j, n + 2)' <=> InScope(j, n + 1) /\ Depth(n + 2)' >= Depth(j)
           /\ InScope(n + 1, n + 2)' <=> Depth(n + 2)' >= Depth(n + 1)
<1>1. n \in Nat
  BY TextGrows
<1>2. /\ \A i \in 1..n + 1 : Depth(i)' = Depth(i) /\ Depth(i) \in Int
      /\ Depth(n + 2)' \in Int
  <2>1. n + 1 \in 1..n + 1
    BY <1>1
  <2> QED BY <2>1, DepthGrows
<1>3. ASSUME NEW j \in 1..n
      PROVE  InScope(j, n + 2)' <=> InScope(j, n + 1) /\ Depth(n + 2)' >= Depth(j)
  <2>1. j \in 1..n + 1 /\ j < n + 2 /\ j < n + 1
    BY <1>1
  <2>2. \A k : k \in j..n + 2 <=> k \in j..n + 1 \/ k = n + 2
    BY <1>1
  <2>3. \A k \in j..n + 1 : k \in 1..n + 1
    BY <1>1
  <2>4. InScope(j, n + 2)' <=> \A k \in j..n + 2 : Depth(k)' >= Depth(j)'
    BY <2>1 DEF InScope
  <2>5. InScope(j, n + 1) <=> \A k \in j..n + 1 : Depth(k) >= Depth(j)
    BY <2>1 DEF InScope
  <2>6. (\A k \in j..n + 2 : Depth(k)' >= Depth(j)')
        <=> (\A k \in j..n + 1 : Depth(k)' >= Depth(j)') /\ Depth(n + 2)' >= Depth(j)'
    BY <2>2
  <2>7. \A k \in j..n + 1 : Depth(k)' = Depth(k)
    BY <1>2, <2>3
  <2>8. Depth(j)' = Depth(j)
    BY <1>2, <2>1
  <2> QED BY <2>4, <2>5, <2>6, <2>7, <2>8
<1>4. InScope(n + 1, n + 2)' <=> Depth(n + 2)' >= Depth(n + 1)
  <2>1. n + 1 < n + 2 /\ n + 1 \in 1..n + 1
    BY <1>1
  <2>2. \A k : k \in n + 1..n + 2 <=> k = n + 1 \/ k = n + 2
    BY <1>1
  <2>3. InScope(n + 1, n + 2)' <=> \A k \in n + 1..n + 2 : Depth(k)' >= Depth(n + 1)'
    BY <2>1 DEF InScope
  <2>4. Depth(n + 1)' = Depth(n + 1) /\ Depth(n + 1) >= Depth(n + 1)
    BY <1>2, <2>1
  <2> QED BY <2>2, <2>3, <2>4
<1> QED BY <1>3, <1>4

\* The statement read last gives a key what its attribute list says.
LEMMA StatementGives ==
    ASSUME NEW n, text \in Seq(Statements), n = Len(text),
           NEW stmt \in Statements, text' = Append(text, stmt), NEW key
    PROVE  Holds(AttrList(stmt.attrs), key, Gives(n + 1, key)', Given(n + 1, key)')
<1> DEFINE new == AttrList(stmt.attrs)
<1>1. stmt.attrs \in Seq(STRING \X STRING)
  BY ParserAssumption
<1>2. Holds(new, key, \E k \in DOMAIN stmt.attrs : stmt.attrs[k][1] = key,
            stmt.attrs[Max({k \in DOMAIN stmt.attrs : stmt.attrs[k][1] = key})][2])
  BY <1>1, ListHolds
<1>3. text'[n + 1] = stmt
  BY TextGrows
<1>4. Gives(n + 1, key)' <=> \E k \in DOMAIN stmt.attrs : stmt.attrs[k][1] = key
  BY <1>3 DEF Gives
<1>5. Given(n + 1, key)' = stmt.attrs[Max({k \in DOMAIN stmt.attrs : stmt.attrs[k][1] = key})][2]
  BY <1>3 DEF Given
<1> HIDE DEF new
<1> QED BY <1>2, <1>4, <1>5 DEF Holds, new

\* Every statement leaves in each scope the defaults that the text has put in
\* force there; those of a subgraph end with it (dot/parser.go, parseSubgraph).
LEMMA ScopesStep ==
    ASSUME ParserTyped, ScopesAsWritten, NEW stmt \in Statements,
           \/ GraphAttrStmt(stmt) \/ DefaultsStmt(stmt)
           \/ OpenSubgraph(stmt) \/ CloseSubgraph(stmt)
           \/ NodeStmt(stmt) \/ EdgeStmt(stmt)
    PROVE  ScopesAsWritten'
<1> DEFINE Kinds == {"node", "edge"}
<1>1. PICK n : n = Len(text)
  OBVIOUS
<1>2. text \in Seq(Statements) /\ text' = Append(text, stmt)
  BY DEF ParserTyped, GraphAttrStmt, DefaultsStmt, OpenSubgraph, CloseSubgraph, NodeStmt,
         EdgeStmt, Reads
<1>3. /\ n \in Nat /\ DOMAIN text = 1..n /\ Len(text') = n + 1 /\ DOMAIN text' = 1..n + 1
      /\ text'[n + 1] = stmt /\ \A i \in 1..n : text'[i] = text[i]
  BY <1>1, <1>2, TextGrows
<1>4. PICK len : len = Len(defaults)
  OBVIOUS
<1>5. len \in Nat \ {0} /\ defaults \in Seq(DefaultAttrs) /\ Scope \in DefaultAttrs
  BY <1>4, ScopeType DEF ParserTyped
<1>6. /\ Depth(n + 1) = len - 1
      /\ \A i \in 1..n + 1 : Depth(i)' = Depth(i) /\ Depth(i) \in Int
      /\ Depth(n + 2)' = CASE stmt.kind = "open"  -> len
                           [] stmt.kind = "close" -> len - 2
                           [] OTHER -> len - 1
  <2>1. Depth(n + 1) = len - 1
    BY <1>1, <1>4 DEF ScopesAsWritten
  <2>2. /\ \A i \in 1..n + 1 : Depth(i)' = Depth(i) /\ Depth(i) \in Int
        /\ Depth(n + 2)' = CASE stmt.kind = "open"  -> Depth(n + 1) + 1
                             [] stmt.kind = "close" -> Depth(n + 1) - 1
                             [] OTHER -> Depth(n + 1)
    BY <1>1, <1>2, DepthGrows
  <2>3. len - 1 + 1 = len /\ len - 1 - 1 = len - 2
    BY <1>5
  <2> QED BY <2>1, <2>2, <2>3
<1>7. /\ \A j \in 1..n : InScope(j, n + 2)' <=> InScope(j, n + 1) /\ Depth(n + 2)' >= Depth(j)
      /\ InScope(n + 1, n + 2)' <=> Depth(n + 2)' >= len - 1
  BY <1>1, <1>2, <1>6, ScopeGrows
<1>8. \A i \in 1..n : \A key : (Gives(i, key)' <=> Gives(i, key)) /\ Given(i, key)' = Given(i, key)
  BY <1>1, <1>2, MeaningKept
\* The depth of what is in force, and what the scopes hold.
<1>9. \A j \in 1..n : InScope(j, n + 1) => Depth(j) <= len - 1
  <2> SUFFICES ASSUME NEW j \in 1..n, InScope(j, n + 1) PROVE Depth(j) <= len - 1
    OBVIOUS
  <2>1. n + 1 \in j..n + 1 /\ j \in 1..n + 1
    BY <1>3
  <2>2. Depth(n + 1) >= Depth(j)
    BY <2>1 DEF InScope
  <2> QED BY <1>5, <1>6, <2>1, <2>2
<1>10. \A d \in 1..len, kind \in Kinds : \A key :
          Holds(defaults[d][kind], key, Level(d, kind, key) # {},
                Given(Max(Level(d, kind, key)), key))
  BY <1>4 DEF ScopesAsWritten
<1>11. \A d, kind, key :
          /\ Level(d, kind, key) =
                 {j \in 1..n : text[j].kind = kind /\ Gives(j, key) /\ InScope(j, n + 1) /\ Depth(j) < d}
          /\ Level(d, kind, key)' =
                 {j \in 1..n + 1 : text'[j].kind = kind /\ Gives(j, key)' /\ InScope(j, n + 2)'
                                   /\ Depth(j)' < d}
  BY <1>1, <1>3 DEF Level
\* A scope that has not changed, or a copy of one.
<1>12. ASSUME NEW c, NEW d \in 1..len, NEW kind \in Kinds, NEW key, NEW attrs,
              Level(c, kind, key)' = Level(d, kind, key), attrs = defaults[d][kind]
       PROVE  Holds(attrs, key, Level(c, kind, key)' # {}, Given(Max(Level(c, kind, key)), key)')
  <2>1. Holds(attrs, key, Level(d, kind, key) # {}, Given(Max(Level(d, kind, key)), key))
    BY <1>10, <1>12
  <2>2. CASE Level(d, kind, key) = {}
    BY <1>12, <2>1, <2>2 DEF Holds
  <2>3. CASE Level(d, kind, key) # {}
    <3>1. PICK m : m = Max(Level(d, kind, key))
      OBVIOUS
    <3>2. m \in 1..n
      <4>1. Level(d, kind, key) \in SUBSET (1..n)
        BY <1>11
      <4> QED BY <1>3, <2>3, <3>1, <4>1, GreatestNumber
    <3>3. Given(m, key)' = Given(m, key)
      BY <1>8, <3>2
    <3>4. Given(Max(Level(c, kind, key)), key)' = Given(m, key)'
      BY <1>12, <3>1 DEF Given
    <3> QED BY <1>12, <2>1, <2>3, <3>1, <3>3, <3>4 DEF Holds
  <2> QED BY <2>2, <2>3
<1>13. ScopesAsWritten' <=>
          /\ Depth(n + 2)' = Len(defaults') - 1
          /\ \A d \in 1..Len(defaults'), kind \in Kinds : \A key :
                Holds(defaults'[d][kind], key, Level(d, kind, key)' # {},
                      Given(Max(Level(d, kind, key)), key)')
  <2>1. Len(text') + 1 = n + 2
    BY <1>3
  <2> QED BY <2>1 DEF ScopesAsWritten
<1>14. \A j \in 1..n + 1 : j \in 1..n \/ j = n + 1
  BY <1>3
<1>15. \A j \in 1..n : j \in 1..n + 1 /\ text'[j].kind = text[j].kind
  BY <1>3
<1>16. \A d \in 1..len - 1 : d \in 1..len /\ ~(len - 1 < d)
  BY <1>5
<1>17. n + 1 \in 1..n + 1 /\ len \in 1..len
  BY <1>3, <1>5
<1> HIDE DEF Kinds
<1>18. CASE GraphAttrStmt(stmt) \/ NodeStmt(stmt) \/ EdgeStmt(stmt)
  <2>1. stmt.kind \in {"graph", "stage", "chain"} /\ defaults' = defaults
    BY <1>18 DEF GraphAttrStmt, NodeStmt, EdgeStmt
  <2>2. Depth(n + 2)' = len - 1
    BY <1>6, <2>1
  <2>3. \A j \in 1..n : InScope(j, n + 2)' <=> InScope(j, n + 1)
    BY <1>5, <1>6, <1>7, <1>9, <1>15, <2>2
  <2>4. \A d, key : \A kind \in Kinds : Level(d, kind, key)' = Level(d, kind, key)
    <3>1. \A kind \in Kinds : text'[n + 1].kind # kind
      BY <1>3, <2>1 DEF Kinds
    <3> QED BY <1>6, <1>8, <1>11, <1>14, <1>15, <2>3, <3>1
  <2>5. ASSUME NEW d \in 1..len, NEW kind \in Kinds, NEW key
        PROVE  Holds(defaults'[d][kind], key, Level(d, kind, key)' # {},
                     Given(Max(Level(d, kind, key)), key)')
    <3>1. Level(d, kind, key)' = Level(d, kind, key) /\ defaults'[d][kind] = defaults[d][kind]
      BY <2>1, <2>4
    <3> QED BY <1>12, <3>1
  <2> QED BY <1>4, <1>13, <2>1, <2>2, <2>5
<1>19. CASE OpenSubgraph(stmt)
  <2>1. stmt.kind = "open" /\ defaults' = Append(defaults, Scope)
    BY <1>19 DEF OpenSubgraph
  <2>2. /\ Len(defaults') = len + 1 /\ defaults'[len + 1] = defaults[len]
        /\ \A d \in 1..len : defaults'[d] = defaults[d]
    BY <1>4, <1>5, <2>1, AppendProperties DEF Scope
  <2>3. Depth(n + 2)' = len
    BY <1>6, <2>1
  <2>4. \A j \in 1..n : InScope(j, n + 2)' <=> InScope(j, n + 1)
    BY <1>5, <1>6, <1>7, <1>9, <1>15, <2>3
  <2>5. \A d, key : \A kind \in Kinds : Level(d, kind, key)' = Level(d, kind, key)
    <3>1. \A kind \in Kinds : text'[n + 1].kind # kind
      BY <1>3, <2>1 DEF Kinds
    <3> QED BY <1>6, <1>8, <1>11, <1>14, <1>15, <2>4, <3>1
  <2>6. \A kind, key : Level(len + 1, kind, key) = Level(len, kind, key)
    <3>1. \A j \in 1..n : InScope(j, n + 1) => Depth(j) < len + 1 /\ Depth(j) < len
      BY <1>5, <1>6, <1>9, <1>15
    <3> QED BY <1>11, <3>1
  <2>7. ASSUME NEW d \in 1..len + 1, NEW kind \in Kinds, NEW key
        PROVE  Holds(defaults'[d][kind], key, Level(d, kind, key)' # {},
                     Given(Max(Level(d, kind, key)), key)')
    <3>1. CASE d = len + 1
      <4>1. Level(d, kind, key)' = Level(len, kind, key)
        <5>1. Level(d, kind, key)' = Level(d, kind, key)
          BY <2>5
        <5>2. Level(d, kind, key) = Level(len + 1, kind, key)
          BY <3>1
        <5> QED BY <2>6, <5>1, <5>2
      <4>2. defaults'[d][kind] = defaults[len][kind]
        BY <2>2, <3>1
      <4> QED BY <1>12, <1>17, <4>1, <4>2
    <3>2. CASE d \in 1..len
      <4>1. Level(d, kind, key)' = Level(d, kind, key) /\ defaults'[d][kind] = defaults[d][kind]
        BY <2>2, <2>5, <3>2
      <4> QED BY <1>12, <3>2, <4>1
    <3>3. d = len + 1 \/ d \in 1..len
      BY <1>5
    <3> QED BY <3>1, <3>2, <3>3
  <2>8. Depth(n + 2)' = Len(defaults') - 1
    BY <1>5, <2>2, <2>3
  <2> QED BY <1>13, <2>2, <2>7, <2>8
<1>20. CASE CloseSubgraph(stmt)
  <2>1. stmt.kind = "close" /\ len > 1 /\ defaults' = SubSeq(defaults, 1, len - 1)
    BY <1>4, <1>20 DEF CloseSubgraph, Front
  <2>2. Len(defaults') = len - 1 /\ \A d \in 1..len - 1 : defaults'[d] = defaults[d]
    <3>1. len - 1 \in 1..len - 1 /\ len - 1 \in Nat
      BY <1>5, <2>1
    <3>2. 1 \in 1..Len(defaults) + 1 /\ len - 1 \in 0..Len(defaults)
      BY <1>4, <1>5, <2>1
    <3> QED BY <1>4, <1>5, <2>1, <3>1, <3>2, SubSeqProperties
  <2>3. Depth(n + 2)' = len - 2
    BY <1>6, <2>1
  <2>4. \A j \in 1..n : InScope(j, n + 2)' <=> InScope(j, n + 1) /\ Depth(j) <= len - 2
    BY <1>5, <1>6, <1>7, <1>15, <2>3
  <2>5. ASSUME NEW d \in 1..len - 1, NEW kind \in Kinds, NEW key
        PROVE  Level(d, kind, key)' = Level(d, kind, key)
    <3>1. text'[n + 1].kind # kind
      BY <1>3, <2>1 DEF Kinds
    <3>2. \A j \in 1..n : Depth(j) < d => Depth(j) <= len - 2
      BY <1>5, <1>6, <1>15
    <3> QED BY <1>6, <1>8, <1>11, <1>14, <1>15, <2>4, <3>1, <3>2
  <2>6. \A d \in 1..len - 1, kind \in Kinds : \A key :
            Holds(defaults'[d][kind], key, Level(d, kind, key)' # {},
                  Given(Max(Level(d, kind, key)), key)')
    BY <1>12, <1>16, <2>2, <2>5
  <2>7. Depth(n + 2)' = Len(defaults') - 1
    BY <1>5, <2>2, <2>3
  <2> QED BY <1>13, <2>2, <2>6, <2>7
<1>21. CASE DefaultsStmt(stmt)
  <2> DEFINE own == stmt.kind
             new == AttrList(stmt.attrs)
             merged == Merged(new, defaults[len][own])
  <2>1. own \in Kinds /\ defaults' = [defaults EXCEPT ![len][own] = merged]
    BY <1>4, <1>21 DEF DefaultsStmt, Kinds
  <2> HIDE DEF merged
  <2>2. \A d \in 1..len : defaults[d] \in [node : AttrMap, edge : AttrMap]
    BY <1>4, <1>5, ElementOfSeq DEF DefaultAttrs
  <2>3. DOMAIN defaults = 1..len
    BY <1>4, <1>5, LenProperties
  <2>4. /\ Len(defaults') = len /\ defaults'[len][own] = merged
        /\ \A d \in 1..len, kind \in Kinds :
              d < len \/ kind # own => defaults'[d][kind] = defaults[d][kind]
    <3>1. defaults' = [defaults EXCEPT ![len] = [defaults[len] EXCEPT ![own] = merged]]
      BY <2>1
    <3>2. defaults'[len] = [defaults[len] EXCEPT ![own] = merged]
      BY <1>17, <2>3, <3>1
    <3>3. DOMAIN defaults[len] = {"node", "edge"}
      BY <1>17, <2>2
    <3>4. defaults'[len][own] = merged /\ \A kind \in Kinds : kind # own => defaults'[len][kind] = defaults[len][kind]
      BY <2>1, <3>2, <3>3 DEF Kinds
    <3>5. \A d \in 1..len : d # len => defaults'[d] = defaults[d]
      BY <2>3, <3>1
    <3>6. Len(defaults') = len
      BY <1>4, <1>5, <2>3, <3>1, LenProperties
    <3>7. \A d \in 1..len : d < len => d # len
      BY <1>5
    <3> QED BY <3>4, <3>5, <3>6, <3>7
  <2>5. Depth(n + 2)' = len - 1
    BY <1>6, <2>1 DEF Kinds
  <2>6. \A j \in 1..n : InScope(j, n + 2)' <=> InScope(j, n + 1)
    BY <1>5, <1>6, <1>7, <1>9, <1>15, <2>5
  <2>7. InScope(n + 1, n + 2)'
    BY <1>5, <1>7, <2>5
  <2>8. ASSUME NEW d \in 1..len, NEW kind \in Kinds, d < len \/ kind # own, NEW key
        PROVE  Level(d, kind, key)' = Level(d, kind, key)
    <3>1. ~(text'[n + 1].kind = kind /\ Depth(n + 1)' < d)
      BY <1>3, <1>5, <1>6, <1>17, <2>8
    <3> QED BY <1>6, <1>8, <1>11, <1>14, <1>15, <2>6, <3>1
  <2>9. ASSUME NEW key
        PROVE  Level(len, own, key)' = Level(len, own, key) \cup (IF Gives(n + 1, key)' THEN {n + 1} ELSE {})
    <3>1. text'[n + 1].kind = own /\ Depth(n + 1)' < len
      BY <1>3, <1>5, <1>6, <1>17
    <3> QED BY <1>6, <1>8, <1>11, <1>14, <1>15, <1>17, <2>6, <2>7, <3>1
  <2>10. ASSUME NEW key
         PROVE  Holds(merged, key, Level(len, own, key)' # {}, Given(Max(Level(len, own, key)), key)')
    <3>2. Holds(new, key, Gives(n + 1, key)', Given(n + 1, key)')
      BY <1>1, <1>2, StatementGives
    <3>3. CASE Gives(n + 1, key)'
      <4>1. Max(Level(len, own, key))' = n + 1 /\ Level(len, own, key)' # {}
        <5>1. Level(len, own, key) \in SUBSET (1..n)
          BY <1>11
        <5>2. Level(len, own, key)' = Level(len, own, key) \cup {n + 1}
          BY <2>9, <3>3
        <5> HIDE DEF own
        <5> QED BY <1>3, <5>1, <5>2, GreatestNew
      <4>2. Given(Max(Level(len, own, key)), key)' = Given(n + 1, key)'
        BY <4>1 DEF Given
      <4> QED BY <3>2, <3>3, <4>1, <4>2 DEF Holds, Merged, merged
    <3>4. CASE ~Gives(n + 1, key)'
      <4>1. Level(len, own, key)' = Level(len, own, key)
        BY <2>9, <3>4
      <4>2. Holds(defaults[len][own], key, Level(len, own, key)' # {}, Given(Max(Level(len, own, key)), key)')
        BY <1>12, <1>17, <2>1, <4>1
      <4> QED BY <3>2, <3>4, <4>2 DEF Holds, Merged, merged
    <3> QED BY <3>3, <3>4
  <2>11. ASSUME NEW d \in 1..len, NEW kind \in Kinds, NEW key
         PROVE  Holds(defaults'[d][kind], key, Level(d, kind, key)' # {},
                      Given(Max(Level(d, kind, key)), key)')
    <3>1. CASE d < len \/ kind # own
      BY <1>12, <2>4, <2>8, <3>1
    <3>2. CASE d = len /\ kind = own
      BY <2>4, <2>10, <3>2
    <3>3. d < len \/ d = len
      BY <1>5
    <3> QED BY <3>1, <3>2, <3>3
  <2> QED BY <1>13, <2>4, <2>5, <2>11
<1> QED BY <1>18, <1>19, <1>20, <1>21

\* What a statement writes, and what a node has that an edge creates: what the
\* statement gives itself, or else the default in force.
LEMMA WrittenNow ==
    ASSUME ParserTyped, ScopesAsWritten, NEW n, n = Len(text),
           NEW stmt \in Statements, text' = Append(text, stmt),
           NEW kind \in {"node", "edge"}, NEW key
    PROVE  /\ stmt.kind = Own[kind] =>
                Holds(Merged(AttrList(stmt.attrs), Scope[kind]), key,
                      Gives(n + 1, key)' \/ Defaulting(kind, n + 1, key)' # {},
                      Written(kind, n + 1, key)')
           /\ stmt.kind # Own[kind] =>
                Holds(Scope[kind], key, Defaulting(kind, n + 1, key)' # {},
                      Written(kind, n + 1, key)')
<1> USE DEF ParserTyped
<1>1. n \in Nat /\ n + 1 \in 1..n + 1 /\ text'[n + 1] = stmt /\ \A i \in 1..n : text'[i] = text[i]
  BY TextGrows
<1>2. Holds(AttrList(stmt.attrs), key, Gives(n + 1, key)', Given(n + 1, key)')
  BY StatementGives
<1>3. /\ Defaulting(kind, n + 1, key)' = Defaulting(kind, n + 1, key)
      /\ Defaulting(kind, n + 1, key) \in SUBSET (1..n)
  BY <1>1, MeaningKept
<1>4. Holds(Scope[kind], key, Defaulting(kind, n + 1, key) # {},
            Given(Max(Defaulting(kind, n + 1, key)), key))
  BY ScopeInForce
<1>5. ASSUME Defaulting(kind, n + 1, key) # {}
      PROVE  Scope[kind][key] = Given(Max(Defaulting(kind, n + 1, key)), key)'
  <2>1. PICK m : m = Max(Defaulting(kind, n + 1, key))
    OBVIOUS
  <2>2. m \in 1..n
    BY <1>1, <1>3, <1>5, <2>1, GreatestNumber
  <2>3. Given(m, key)' = Given(m, key)
    BY <2>2, MeaningKept
  <2>4. Given(Max(Defaulting(kind, n + 1, key)), key)' = Given(m, key)'
    BY <1>3, <2>1 DEF Given
  <2> QED BY <1>4, <1>5, <2>1, <2>3, <2>4 DEF Holds
<1>6. key \in DOMAIN Scope[kind] <=> Defaulting(kind, n + 1, key)' # {}
  BY <1>3, <1>4 DEF Holds
<1>7. Written(kind, n + 1, key)' =
          IF stmt.kind = Own[kind] /\ Gives(n + 1, key)' THEN Given(n + 1, key)'
          ELSE Given(Max(Defaulting(kind, n + 1, key)), key)'
  BY <1>1 DEF Written
<1>8. CASE stmt.kind = Own[kind]
  <2> DEFINE merged == Merged(AttrList(stmt.attrs), Scope[kind])
  <2>1. key \in DOMAIN merged <=> Gives(n + 1, key)' \/ Defaulting(kind, n + 1, key)' # {}
    BY <1>2, <1>6 DEF Holds, Merged
  <2>2. ASSUME Gives(n + 1, key)' PROVE merged[key] = Written(kind, n + 1, key)'
    BY <1>2, <1>7, <1>8, <2>2 DEF Holds, Merged
  <2>3. ASSUME ~Gives(n + 1, key)', Defaulting(kind, n + 1, key)' # {}
        PROVE  merged[key] = Written(kind, n + 1, key)'
    <3>1. merged[key] = Scope[kind][key]
      BY <1>2, <1>6, <2>3 DEF Holds, Merged
    <3> HIDE DEF merged
    <3> QED BY <1>3, <1>5, <1>7, <2>3, <3>1
  <2> HIDE DEF merged
  <2>4. Holds(merged, key, Gives(n + 1, key)' \/ Defaulting(kind, n + 1, key)' # {},
              Written(kind, n + 1, key)')
    BY <2>1, <2>2, <2>3 DEF Holds
  <2> QED BY <1>8, <2>4 DEF merged
<1>9. CASE stmt.kind # Own[kind]
  BY <1>3, <1>5, <1>6, <1>7, <1>9 DEF Holds
<1> QED BY <1>8, <1>9

\* The statements that write a key of a node: those that did, and the one read
\* last if it does.
Writes(id, key, i) ==
    /\ id \in Names(i)
    /\ \/ text[i].kind = "stage" /\ Gives(i, key)
       \/ /\ text[i].kind = "stage" \/ FirstNamed(i, id)
          /\ Defaulting("node", i, key) # {}

\* The statements that write an attribute of a node: those before, and this one.
LEMMA WritesGrows ==
    ASSUME NEW n, text \in Seq(Statements), n = Len(text),
           NEW stmt \in Statements, text' = Append(text, stmt), NEW id, NEW key
    PROVE  /\ WritesNode(id, key) \in SUBSET (1..n)
           /\ WritesNode(id, key)' = WritesNode(id, key)
                  \cup (IF Writes(id, key, n + 1)' THEN {n + 1} ELSE {})
           /\ \A i \in WritesNode(id, key) :
                 Written("node", i, key)' = Written("node", i, key)
<1>1. /\ n \in Nat /\ DOMAIN text = 1..n /\ DOMAIN text' = 1..n + 1
      /\ \A i \in 1..n : text'[i] = text[i]
  BY TextGrows
<1>2. ASSUME NEW i \in 1..n
      PROVE  /\ Writes(id, key, i)' <=> Writes(id, key, i)
             /\ Writes(id, key, i) => Written("node", i, key)' = Written("node", i, key)
  <2>1. i \in 1..n + 1 /\ text'[i] = text[i]
    BY <1>1
  <2>2. /\ Gives(i, key)' <=> Gives(i, key)
        /\ Names(i)' = Names(i)
        /\ FirstNamed(i, id)' <=> FirstNamed(i, id)
        /\ (text[i].kind = Own["node"] /\ Gives(i, key)) \/ Defaulting("node", i, key) # {}
           => Written("node", i, key)' = Written("node", i, key)
    BY MeaningKept
  <2>3. Defaulting("node", i, key)' = Defaulting("node", i, key)
    BY <2>1, MeaningKept
  <2>4. Writes(id, key, i)' <=> Writes(id, key, i)
    BY <2>1, <2>2, <2>3 DEF Writes
  <2>5. Writes(id, key, i) => Written("node", i, key)' = Written("node", i, key)
    BY <2>2 DEF Writes, Own
  <2> QED BY <2>4, <2>5
<1>3. /\ WritesNode(id, key) = {i \in 1..n : Writes(id, key, i)}
      /\ WritesNode(id, key)' = {i \in 1..n + 1 : Writes(id, key, i)'}
  BY <1>1 DEF WritesNode, Writes
<1>4. \A i \in 1..n + 1 : i \in 1..n \/ i = n + 1
  BY <1>1
<1>5. n + 1 \in 1..n + 1 /\ \A i \in 1..n : i \in 1..n + 1
  BY <1>1
<1> QED BY <1>2, <1>3, <1>4, <1>5

NodesAsWritten ==
    /\ ToSet(graph.nodes) = UNION {Names(i) : i \in DOMAIN text}
    /\ \A id \in ToSet(graph.nodes) : \A key :
          Holds(graph.attrs[id], key, WritesNode(id, key) # {},
                Written("node", Max(WritesNode(id, key)), key))

\* Every statement leaves the nodes as the text says: a node statement has the
\* last word on what it gives, an edge statement creates the nodes it is the
\* first to name with the defaults, and leaves the others alone.
LEMMA NodesStep ==
    ASSUME ParserTyped, ScopesAsWritten, NodesAsWritten, NEW stmt \in Statements,
           \/ GraphAttrStmt(stmt) \/ DefaultsStmt(stmt)
           \/ OpenSubgraph(stmt) \/ CloseSubgraph(stmt)
           \/ NodeStmt(stmt) \/ EdgeStmt(stmt)
    PROVE  NodesAsWritten'
<1>1. PICK n : n = Len(text)
  OBVIOUS
<1>2. text \in Seq(Statements) /\ text' = Append(text, stmt)
  BY DEF ParserTyped, GraphAttrStmt, DefaultsStmt, OpenSubgraph, CloseSubgraph, NodeStmt,
         EdgeStmt, Reads
<1>3. /\ n \in Nat /\ DOMAIN text = 1..n /\ DOMAIN text' = 1..n + 1
      /\ text'[n + 1] = stmt /\ \A i \in 1..n : text'[i] = text[i]
  BY <1>1, <1>2, TextGrows
<1>4. /\ graph \in Graph /\ Once(graph) /\ stmt.ids \in Seq(STRING)
      /\ Scope.node \in AttrMap /\ Scope.edge \in AttrMap /\ AttrList(stmt.attrs) \in AttrMap
  BY ScopeType, ParserAssumption, ListRead DEF ParserTyped
<1> DEFINE ids == ToSet(stmt.ids)
           old == ToSet(graph.nodes)
<1>5. Names(n + 1)' = ids
  BY <1>3 DEF Names
<1>6. UNION {Names(i)' : i \in DOMAIN text'} = old \cup ids
  <2>1. \A i \in 1..n : Names(i)' = Names(i)
    BY <1>1, <1>2, MeaningKept
  <2>2. \A i : i \in 1..n + 1 <=> i \in 1..n \/ i = n + 1
    BY <1>3
  <2> HIDE DEF ids
  <2>3. UNION {Names(i)' : i \in 1..n + 1} = (UNION {Names(i) : i \in 1..n}) \cup ids
    BY <1>5, <2>1, <2>2
  <2>4. old = UNION {Names(i) : i \in 1..n}
    BY <1>3 DEF NodesAsWritten
  <2> HIDE DEF old
  <2> QED BY <1>3, <2>3, <2>4
<1>7. \A i \in 1..n : Names(i)' \subseteq old
  <2>1. \A i \in 1..n : Names(i)' = Names(i)
    BY <1>1, <1>2, MeaningKept
  <2> QED BY <1>3, <2>1 DEF NodesAsWritten
<1> DEFINE Right(id, key, attrs) ==
        Holds(attrs, key, WritesNode(id, key)' # {}, Written("node", Max(WritesNode(id, key)), key)')
\* A node that the statement does not write is as it was.
<1>8. ASSUME NEW id \in old, NEW key, ~Writes(id, key, n + 1)'
      PROVE  Right(id, key, graph.attrs[id])
  <2>1. WritesNode(id, key)' = WritesNode(id, key)
    BY <1>1, <1>2, <1>8, WritesGrows
  <2>2. Holds(graph.attrs[id], key, WritesNode(id, key) # {},
              Written("node", Max(WritesNode(id, key)), key))
    BY DEF NodesAsWritten
  <2>3. CASE WritesNode(id, key) = {}
    BY <2>1, <2>2, <2>3 DEF Holds
  <2>4. CASE WritesNode(id, key) # {}
    <3>1. PICK m : m = Max(WritesNode(id, key))
      OBVIOUS
    <3>2. m \in WritesNode(id, key)
      <4>1. WritesNode(id, key) \in SUBSET (1..n)
        BY <1>1, <1>2, WritesGrows
      <4> QED BY <1>3, <2>4, <3>1, <4>1, GreatestNumber
    <3>3. Written("node", m, key)' = Written("node", m, key)
      BY <1>1, <1>2, <3>2, WritesGrows
    <3>4. Written("node", Max(WritesNode(id, key)), key)' = Written("node", m, key)'
      BY <2>1, <3>1 DEF Written, Given, Gives, Defaulting, InScope
    <3> QED BY <2>1, <2>2, <2>4, <3>1, <3>3, <3>4 DEF Holds
  <2> QED BY <2>3, <2>4
\* A node that it writes has what it writes.
<1>9. ASSUME NEW id, NEW key, NEW attrs, Writes(id, key, n + 1)',
             key \in DOMAIN attrs, attrs[key] = Written("node", n + 1, key)'
      PROVE  Right(id, key, attrs)
  <2>1. /\ WritesNode(id, key) \in SUBSET (1..n)
        /\ WritesNode(id, key)' = WritesNode(id, key) \cup {n + 1}
    BY <1>1, <1>2, <1>9, WritesGrows
  <2>2. Max(WritesNode(id, key))' = n + 1
    BY <1>3, <2>1, GreatestNew
  <2>3. Written("node", Max(WritesNode(id, key)), key)' = Written("node", n + 1, key)'
    BY <2>2 DEF Written, Given, Gives, Defaulting, InScope
  <2> QED BY <1>9, <2>1, <2>3 DEF Holds
\* A node without a key that nothing writes.
<1>10. ASSUME NEW id, id \notin old, NEW key, NEW attrs, ~Writes(id, key, n + 1)', key \notin DOMAIN attrs
       PROVE  Right(id, key, attrs)
  <2>1. WritesNode(id, key) = {}
    BY <1>10 DEF WritesNode, NodesAsWritten
  <2>2. WritesNode(id, key)' = {}
    BY <1>1, <1>2, <1>10, <2>1, WritesGrows
  <2> QED BY <1>10, <2>2 DEF Holds
<1>11. ASSUME ToSet(graph'.nodes) = old \cup ids,
              \A id \in old \cup ids : \A key : Right(id, key, graph'.attrs[id])
       PROVE  NodesAsWritten'
  BY <1>6, <1>11 DEF NodesAsWritten
<1> HIDE DEF Right
<1>12. CASE GraphAttrStmt(stmt) \/ DefaultsStmt(stmt) \/ OpenSubgraph(stmt) \/ CloseSubgraph(stmt)
  <2>1. stmt.kind \notin {"stage", "chain"}
    BY <1>12 DEF GraphAttrStmt, DefaultsStmt, OpenSubgraph, CloseSubgraph
  <2>2. ids = {}
    BY <2>1, ParserAssumption DEF ToSet
  <2>3. graph'.nodes = graph.nodes /\ graph'.attrs = graph.attrs
    BY <1>4, <1>12 DEF GraphAttrStmt, DefaultsStmt, OpenSubgraph, CloseSubgraph, Graph
  <2>4. \A id, key : ~Writes(id, key, n + 1)'
    BY <1>5, <2>2 DEF Writes
  <2>5. \A id \in old : \A key : Right(id, key, graph'.attrs[id])
    BY <1>8, <2>3, <2>4
  <2> QED BY <1>11, <2>2, <2>3, <2>5
<1>13. CASE NodeStmt(stmt)
  <2> DEFINE id    == stmt.ids[1]
             given == Merged(AttrList(stmt.attrs), Scope.node)
  <2>1. /\ stmt.kind = "stage" /\ Len(stmt.ids) = 1
        /\ graph' = AddNode(graph, id, given)
    BY <1>13, ParserAssumption DEF NodeStmt
  <2>2. ids = {id} /\ id \in STRING
    <3>1. DOMAIN stmt.ids = {1}
      BY <1>4, <2>1, LenProperties
    <3> QED BY <1>4, <3>1, ElementOfSeq DEF ToSet
  <2>3. given \in AttrMap
    BY <1>4, MergedType
  <2> HIDE DEF given, id
  <2>4. /\ ToSet(graph'.nodes) = old \cup {id}
        /\ \A m \in old \ {id} : graph'.attrs[m] = graph.attrs[m]
        /\ id \in old => graph'.attrs[id] = Merged(given, graph.attrs[id])
        /\ id \notin old => graph'.attrs[id] = given
    <3>1. LET h == AddNode(graph, id, given) IN
          /\ ToSet(h.nodes) = ToSet(graph.nodes) \cup {id}
          /\ \A m \in ToSet(graph.nodes) \ {id} : h.attrs[m] = graph.attrs[m]
          /\ id \in ToSet(graph.nodes) => h.attrs[id] = Merged(given, graph.attrs[id])
          /\ id \notin ToSet(graph.nodes) => h.attrs[id] = given
      <4>1. graph \in Graph /\ Once(graph) /\ id \in STRING /\ given \in AttrMap
        BY <1>4, <2>2, <2>3
      <4> HIDE DEF old, Right
      <4> QED BY <4>1, NodeAdded
    <3> DEFINE h == AddNode(graph, id, given)
    <3> HIDE DEF h
    <3>2. graph' = h
      BY <2>1 DEF h
    <3>3. /\ ToSet(h.nodes) = ToSet(graph.nodes) \cup {id}
          /\ \A m \in ToSet(graph.nodes) \ {id} : h.attrs[m] = graph.attrs[m]
          /\ id \in ToSet(graph.nodes) => h.attrs[id] = Merged(given, graph.attrs[id])
          /\ id \notin ToSet(graph.nodes) => h.attrs[id] = given
      BY <3>1 DEF h
    <3> QED BY <3>2, <3>3
  <2>5. ASSUME NEW m \in old, m # id, NEW key PROVE Right(m, key, graph'.attrs[m])
    <3>1. ~Writes(m, key, n + 1)'
      BY <1>5, <2>2, <2>5 DEF Writes
    <3> QED BY <1>8, <2>4, <2>5, <3>1
  <2>6. ASSUME NEW key PROVE Right(id, key, graph'.attrs[id])
    <3>1. Holds(given, key, Gives(n + 1, key)' \/ Defaulting("node", n + 1, key)' # {},
                Written("node", n + 1, key)')
      BY <1>1, <1>2, <2>1, WrittenNow DEF given, Own
    <3>2. Writes(id, key, n + 1)' <=> Gives(n + 1, key)' \/ Defaulting("node", n + 1, key)' # {}
      <4>1. id \in Names(n + 1)' /\ text'[n + 1].kind = "stage"
        BY <1>3, <1>5, <2>1, <2>2
      <4> QED BY <4>1 DEF Writes
    <3>3. CASE Writes(id, key, n + 1)'
      <4>1. key \in DOMAIN given /\ given[key] = Written("node", n + 1, key)'
        BY <3>1, <3>2, <3>3 DEF Holds
      <4>2. key \in DOMAIN graph'.attrs[id] /\ graph'.attrs[id][key] = Written("node", n + 1, key)'
        BY <2>4, <4>1 DEF Merged
      <4> QED BY <1>9, <3>3, <4>2
    <3>4. CASE ~Writes(id, key, n + 1)'
      <4>1. key \notin DOMAIN given
        BY <3>1, <3>2, <3>4 DEF Holds
      <4>2. CASE id \notin old
        BY <1>10, <2>4, <3>4, <4>1, <4>2
      <4>3. CASE id \in old
        <5>1. Right(id, key, graph.attrs[id])
          BY <1>8, <3>4, <4>3
        <5> QED BY <2>4, <4>1, <4>3, <5>1 DEF Right, Holds, Merged
      <4> QED BY <4>2, <4>3
    <3> QED BY <3>3, <3>4
  <2>7. \A m \in old \cup {id} : \A key : Right(m, key, graph'.attrs[m])
    BY <2>5, <2>6
  <2> QED BY <1>11, <2>2, <2>4, <2>7
<1>14. CASE EdgeStmt(stmt)
  <2> DEFINE full == EnsureNodes(graph, stmt.ids)
             given == Merged(AttrList(stmt.attrs), Scope.edge)
  <2>1. stmt.kind = "chain" /\ Len(stmt.ids) >= 2 /\ graph' = AddEdges(full, stmt.ids, given)
    BY <1>14, ParserAssumption DEF EdgeStmt
  <2>2. given \in AttrMap
    BY <1>4, MergedType
  <2>3. /\ full \in Graph /\ Once(full) /\ ToSet(full.nodes) = old \cup ids
        /\ \A m \in old : full.attrs[m] = graph.attrs[m]
        /\ \A m \in ids \ old : full.attrs[m] = Scope.node
    BY <1>4, ChainEnsured
  <2> HIDE DEF full, given
  <2>4. graph'.nodes = full.nodes /\ graph'.attrs = full.attrs
    BY <1>4, <2>1, <2>2, <2>3, EdgesAdded
  <2>5. text'[n + 1].kind # "stage"
    BY <1>3, <2>1
  <2>6. ASSUME NEW m \in old, NEW key PROVE Right(m, key, graph'.attrs[m])
    <3>1. ~FirstNamed(n + 1, m)'
      <4>1. PICK j \in 1..n : m \in Names(j)
        BY <1>3 DEF NodesAsWritten
      <4>2. j \in 1..(n + 1) - 1 /\ Names(j)' = Names(j)
        BY <1>1, <1>2, <1>3, MeaningKept
      <4> QED BY <4>1, <4>2 DEF FirstNamed
    <3>2. ~Writes(m, key, n + 1)'
      BY <2>5, <3>1 DEF Writes
    <3> QED BY <1>8, <2>3, <2>4, <3>2
  <2>7. ASSUME NEW m \in ids, m \notin old, NEW key PROVE Right(m, key, graph'.attrs[m])
    <3>1. FirstNamed(n + 1, m)'
      <4>1. \A j \in 1..(n + 1) - 1 : m \notin Names(j)'
        BY <1>3, <1>7, <2>7
      <4> QED BY <1>5, <4>1 DEF FirstNamed
    <3>2. Writes(m, key, n + 1)' <=> Defaulting("node", n + 1, key)' # {}
      BY <1>5, <2>5, <3>1 DEF Writes
    <3>3. Holds(Scope.node, key, Defaulting("node", n + 1, key)' # {}, Written("node", n + 1, key)')
      BY <1>1, <1>2, <2>1, WrittenNow DEF Own
    <3>4. graph'.attrs[m] = Scope.node
      BY <2>3, <2>4, <2>7
    <3>5. CASE Writes(m, key, n + 1)'
      <4>1. key \in DOMAIN Scope.node /\ Scope.node[key] = Written("node", n + 1, key)'
        BY <3>2, <3>3, <3>5 DEF Holds
      <4> QED BY <1>9, <3>4, <3>5, <4>1
    <3>6. CASE ~Writes(m, key, n + 1)'
      <4>1. key \notin DOMAIN Scope.node
        BY <3>2, <3>3, <3>6 DEF Holds
      <4> QED BY <1>10, <2>7, <3>4, <3>6, <4>1
    <3> QED BY <3>5, <3>6
  <2>8. \A m \in old \cup ids : \A key : Right(m, key, graph'.attrs[m])
    BY <2>6, <2>7
  <2> QED BY <1>11, <2>3, <2>4, <2>8
<1> QED BY <1>12, <1>13, <1>14

Link == STRING \X STRING \X Nat

EdgesAsWritten ==
    /\ WrittenEdges \in Seq(Link) /\ Len(graph.edges) = Len(WrittenEdges)
    /\ \A e \in 1..Len(graph.edges) : \A from, to, i : WrittenEdges[e] = <<from, to, i>> =>
          /\ i \in DOMAIN text /\ text[i].kind = "chain"
          /\ graph.edges[e].from = from /\ graph.edges[e].to = to
          /\ \A key : Holds(graph.edges[e].attrs, key, WritesEdge(i, key), Written("edge", i, key))

\* The edges of a chain.
LEMMA LinksType ==
    ASSUME NEW ids \in Seq(STRING), Len(ids) >= 2, NEW i \in Nat
    PROVE  [k \in 1..Len(ids) - 1 |-> <<ids[k], ids[k + 1], i>>] \in Seq(Link)
<1> DEFINE links == [k \in 1..Len(ids) - 1 |-> <<ids[k], ids[k + 1], i>>]
<1>1. Len(ids) \in Nat /\ Len(ids) - 1 \in Nat /\ \A k \in 1..Len(ids) : ids[k] \in STRING
  BY ElementOfSeq
<1>2. links \in [1..Len(ids) - 1 -> Link]
  BY <1>1 DEF Link
<1> HIDE DEF links
<1>3. links \in Seq(Link)
  BY <1>1, <1>2, IsASeq
<1> QED BY <1>3 DEF links

\* The chain read last comes behind the edges that were there.
LEMMA LinksGrow ==
    ASSUME ParserTyped, NEW n, n = Len(text),
           NEW stmt \in Statements, text' = Append(text, stmt)
    PROVE  LET more == IF stmt.kind = "chain"
                       THEN [k \in 1..Len(stmt.ids) - 1 |-> <<stmt.ids[k], stmt.ids[k + 1], n + 1>>]
                       ELSE << >>
           IN  more \in Seq(Link) /\ WrittenEdges' = WrittenEdges \o more
<1> DEFINE Of(i) == IF text[i].kind = "chain" THEN EdgesOf(i) ELSE << >>
           links == [i \in DOMAIN text |-> Of(i)]
           links2 == [i \in 1..n + 1 |-> IF text'[i].kind = "chain" THEN EdgesOf(i)' ELSE << >>]
           more  == IF stmt.kind = "chain"
                    THEN [k \in 1..Len(stmt.ids) - 1 |-> <<stmt.ids[k], stmt.ids[k + 1], n + 1>>]
                    ELSE << >>
<1>0. text \in Seq(Statements)
  BY DEF ParserTyped
<1>1. /\ n \in Nat /\ DOMAIN text = 1..n /\ DOMAIN text' = 1..n + 1
      /\ text'[n + 1] = stmt /\ \A i \in 1..n : text'[i] = text[i] /\ text[i] \in Statements
  BY <1>0, TextGrows
<1>2. ASSUME NEW i \in 1..n PROVE Of(i) \in Seq(Link)
  <2>1. CASE text[i].kind = "chain"
    <3>1. text[i].ids \in Seq(STRING) /\ Len(text[i].ids) >= 2 /\ i \in Nat
      BY <1>1, <2>1, ParserAssumption
    <3> QED BY <2>1, <3>1, LinksType DEF EdgesOf
  <2>2. CASE text[i].kind # "chain"
    BY <2>2, EmptySeq
  <2> QED BY <2>1, <2>2
<1>3. more \in Seq(Link)
  <2>1. CASE stmt.kind = "chain"
    <3>1. stmt.ids \in Seq(STRING) /\ Len(stmt.ids) >= 2 /\ n + 1 \in Nat
      BY <1>1, <2>1, ParserAssumption
    <3> QED BY <2>1, <3>1, LinksType
  <2>2. CASE stmt.kind # "chain"
    BY <2>2, EmptySeq
  <2> QED BY <2>1, <2>2
<1>4. links \in Seq(Seq(Link)) /\ Len(links) = n
  <2>1. links \in [1..n -> Seq(Link)]
    <3> HIDE DEF Of
    <3> QED BY <1>1, <1>2
  <2> HIDE DEF links
  <2>2. links \in Seq(Seq(Link))
    BY <1>1, <2>1, IsASeq
  <2>3. DOMAIN links = 1..n
    BY <2>1
  <2> QED BY <1>1, <2>2, <2>3, LenProperties
<1>5. links2 = Append(links, more)
  <2>1. ASSUME NEW i \in 1..n PROVE links2[i] = links[i]
    <3>1. i \in 1..n + 1 /\ text'[i] = text[i]
      BY <1>1
    <3>2. EdgesOf(i)' = EdgesOf(i)
      BY <1>0, MeaningKept
    <3> QED BY <1>1, <3>1, <3>2
  <2>2. links2[n + 1] = more
    <3>1. n + 1 \in 1..n + 1 /\ text'[n + 1] = stmt
      BY <1>1
    <3>2. EdgesOf(n + 1)' = [k \in 1..Len(stmt.ids) - 1 |-> <<stmt.ids[k], stmt.ids[k + 1], n + 1>>]
      BY <3>1 DEF EdgesOf
    <3> QED BY <3>1, <3>2
  <2>3. links2 = [i \in 1..n + 1 |-> links2[i]]
    OBVIOUS
  <2> HIDE DEF links, more, links2
  <2>4. Append(links, more) = [i \in 1..n + 1 |-> IF i \in 1..n THEN links[i] ELSE more]
    <3>1. /\ Append(links, more) \in Seq(Seq(Link)) /\ Len(Append(links, more)) = n + 1
          /\ \A i \in 1..n : Append(links, more)[i] = links[i]
          /\ Append(links, more)[n + 1] = more
      BY <1>3, <1>4, AppendProperties
    <3>2. Append(links, more) = [i \in 1..n + 1 |-> Append(links, more)[i]]
      BY <3>1, LenProperties
    <3>3. \A i \in 1..n + 1 : i \in 1..n \/ (i = n + 1 /\ i \notin 1..n)
      BY <1>1
    <3> QED BY <3>1, <3>2, <3>3
  <2>5. \A i \in 1..n + 1 : i \in 1..n \/ (i = n + 1 /\ i \notin 1..n)
    BY <1>1
  <2> QED BY <2>1, <2>2, <2>3, <2>4, <2>5
<1>6. WrittenEdges = FlattenSeq(links)
  BY DEF WrittenEdges
<1>7. WrittenEdges' = FlattenSeq(links2)
  BY <1>1 DEF WrittenEdges
<1> HIDE DEF links, more, links2
<1>8. WrittenEdges' = WrittenEdges \o more
  BY <1>3, <1>4, <1>5, <1>6, <1>7, FlattenAppend
<1> QED BY <1>3, <1>8 DEF more

\* An edge that is there keeps its attributes.
LEMMA EdgeKept ==
    ASSUME NEW n, text \in Seq(Statements), n = Len(text),
           NEW stmt \in Statements, text' = Append(text, stmt),
           NEW i \in 1..n, text[i].kind = "chain", NEW key, NEW attrs,
           Holds(attrs, key, WritesEdge(i, key), Written("edge", i, key))
    PROVE  Holds(attrs, key, WritesEdge(i, key)', Written("edge", i, key)')
<1>1. n \in Nat /\ i \in 1..n + 1
  BY TextGrows
<1>2. /\ Gives(i, key)' <=> Gives(i, key)
      /\ Defaulting("edge", i, key)' = Defaulting("edge", i, key)
      /\ (text[i].kind = Own["edge"] /\ Gives(i, key)) \/ Defaulting("edge", i, key) # {}
         => Written("edge", i, key)' = Written("edge", i, key)
  BY <1>1, MeaningKept
<1>3. WritesEdge(i, key)' <=> WritesEdge(i, key)
  BY <1>2 DEF WritesEdge
<1>4. WritesEdge(i, key) => Written("edge", i, key)' = Written("edge", i, key)
  BY <1>2 DEF WritesEdge, Own
<1> QED BY <1>3, <1>4 DEF Holds

\* Every statement leaves the edges as the text says: those of a chain come
\* last, with what the statement gives and the defaults in force.
LEMMA EdgesStep ==
    ASSUME ParserTyped, ScopesAsWritten, EdgesAsWritten, NEW stmt \in Statements,
           \/ GraphAttrStmt(stmt) \/ DefaultsStmt(stmt)
           \/ OpenSubgraph(stmt) \/ CloseSubgraph(stmt)
           \/ NodeStmt(stmt) \/ EdgeStmt(stmt)
    PROVE  EdgesAsWritten'
<1>1. PICK n : n = Len(text)
  OBVIOUS
<1>2. text \in Seq(Statements) /\ text' = Append(text, stmt)
  BY DEF ParserTyped, GraphAttrStmt, DefaultsStmt, OpenSubgraph, CloseSubgraph, NodeStmt,
         EdgeStmt, Reads
<1>3. /\ n \in Nat /\ DOMAIN text = 1..n /\ DOMAIN text' = 1..n + 1
      /\ text'[n + 1] = stmt /\ \A i \in 1..n : text'[i] = text[i]
  BY <1>1, <1>2, TextGrows
<1>4. /\ graph \in Graph /\ Once(graph) /\ stmt.ids \in Seq(STRING)
      /\ Scope.node \in AttrMap /\ Scope.edge \in AttrMap /\ AttrList(stmt.attrs) \in AttrMap
  BY ScopeType, ParserAssumption, ListRead DEF ParserTyped
<1> DEFINE Edge  == [from : STRING, to : STRING, attrs : AttrMap]
           more  == IF stmt.kind = "chain"
                    THEN [k \in 1..Len(stmt.ids) - 1 |-> <<stmt.ids[k], stmt.ids[k + 1], n + 1>>]
                    ELSE << >>
           Right(edge, from, to, i) ==
               /\ i \in DOMAIN text' /\ text'[i].kind = "chain"
               /\ edge.from = from /\ edge.to = to
               /\ \A key : Holds(edge.attrs, key, WritesEdge(i, key)', Written("edge", i, key)')
<1>5. more \in Seq(Link) /\ WrittenEdges' = WrittenEdges \o more
  BY <1>1, <1>2, LinksGrow
<1>6. PICK len : len = Len(WrittenEdges)
  OBVIOUS
<1>7. /\ WrittenEdges \in Seq(Link) /\ len \in Nat /\ Len(graph.edges) = len
      /\ graph.edges \in Seq(Edge)
  BY <1>4, <1>6, LenProperties DEF EdgesAsWritten, Graph
<1> HIDE DEF Edge
\* The edges that were there.
<1>8. ASSUME NEW e \in 1..len, NEW from, NEW to, NEW i, WrittenEdges[e] = <<from, to, i>>
      PROVE  Right(graph.edges[e], from, to, i)
  <2>1. /\ i \in DOMAIN text /\ text[i].kind = "chain"
        /\ graph.edges[e].from = from /\ graph.edges[e].to = to
        /\ \A key : Holds(graph.edges[e].attrs, key, WritesEdge(i, key), Written("edge", i, key))
    BY <1>7, <1>8 DEF EdgesAsWritten
  <2>2. i \in DOMAIN text' /\ text'[i].kind = "chain" /\ i \in 1..n
    BY <1>3, <2>1
  <2>3. ASSUME NEW key
        PROVE  Holds(graph.edges[e].attrs, key, WritesEdge(i, key)', Written("edge", i, key)')
    BY <1>1, <1>2, <2>1, <2>2, EdgeKept
  <2> QED BY <2>1, <2>2, <2>3
<1>11. EdgesAsWritten' <=>
          /\ WrittenEdges' \in Seq(Link) /\ Len(graph'.edges) = Len(WrittenEdges')
          /\ \A e \in 1..Len(graph'.edges) : \A from, to, i : WrittenEdges'[e] = <<from, to, i>> =>
                Right(graph'.edges[e], from, to, i)
  BY DEF EdgesAsWritten
<1> HIDE DEF more
<1>9. ASSUME stmt.kind # "chain" PROVE EdgesAsWritten'
  <2>1. graph'.edges = graph.edges
    <3>1. CASE NodeStmt(stmt)
      <4> DEFINE given == Merged(AttrList(stmt.attrs), Scope.node)
      <4>1. given \in AttrMap /\ stmt.ids[1] \in STRING
        BY <1>4, <3>1, MergedType, ParserAssumption, ElementOfSeq DEF NodeStmt
      <4>2. graph' = AddNode(graph, stmt.ids[1], given)
        BY <3>1 DEF NodeStmt
      <4> HIDE DEF given
      <4> QED BY <1>4, <4>1, <4>2, NodeAdded
    <3>2. CASE ~NodeStmt(stmt)
      BY <1>4, <1>9, <3>2 DEF GraphAttrStmt, DefaultsStmt, OpenSubgraph, CloseSubgraph, EdgeStmt, Graph
    <3> QED BY <3>1, <3>2
  <2>2. WrittenEdges' = WrittenEdges
    BY <1>5, <1>7, <1>9, ConcatEmptySeq DEF more
  <2> HIDE DEF Right
  <2> QED BY <1>6, <1>7, <1>8, <1>11, <2>1, <2>2
<1>10. ASSUME stmt.kind = "chain" PROVE EdgesAsWritten'
  <2> DEFINE full == EnsureNodes(graph, stmt.ids)
             given == Merged(AttrList(stmt.attrs), Scope.edge)
             added == [k \in 1..Len(stmt.ids) - 1 |->
                          [from |-> stmt.ids[k], to |-> stmt.ids[k + 1], attrs |-> given]]
  <2>1. Len(stmt.ids) >= 2 /\ graph' = AddEdges(full, stmt.ids, given)
    BY <1>10, ParserAssumption DEF GraphAttrStmt, DefaultsStmt, OpenSubgraph, CloseSubgraph,
                                   NodeStmt, EdgeStmt
  <2>2. given \in AttrMap
    BY <1>4, MergedType
  <2>3. full \in Graph /\ Once(full) /\ full.edges = graph.edges
    BY <1>4, ChainEnsured
  <2>4. PICK size : size = Len(stmt.ids) - 1
    OBVIOUS
  <2>5. /\ size \in Nat /\ \A k \in 1..size : stmt.ids[k] \in STRING /\ stmt.ids[k + 1] \in STRING
    BY <1>4, <2>1, <2>4, ElementOfSeq
  <2>6. \A key : Holds(given, key, WritesEdge(n + 1, key)', Written("edge", n + 1, key)')
    <3> SUFFICES ASSUME NEW key PROVE Holds(given, key, WritesEdge(n + 1, key)', Written("edge", n + 1, key)')
      OBVIOUS
    <3>1. Holds(given, key, Gives(n + 1, key)' \/ Defaulting("edge", n + 1, key)' # {},
                Written("edge", n + 1, key)')
      BY <1>1, <1>2, <1>10, WrittenNow DEF Own
    <3> HIDE DEF given
    <3> QED BY <3>1 DEF Holds, WritesEdge
  <2> HIDE DEF given, full
  <2>7. graph'.edges = graph.edges \o added
    <3>1. AddEdges(full, stmt.ids, given).edges = full.edges \o added
      BY <1>4, <2>1, <2>2, <2>3, EdgesAdded
    <3> QED BY <2>1, <2>3, <3>1
  <2>8. added \in Seq(Edge) /\ Len(added) = size
        /\ \A k \in 1..size : added[k] = [from |-> stmt.ids[k], to |-> stmt.ids[k + 1], attrs |-> given]
    <3>1. added \in [1..size -> Edge]
      BY <2>2, <2>4, <2>5 DEF Edge
    <3>2. \A k \in 1..size : added[k] = [from |-> stmt.ids[k], to |-> stmt.ids[k + 1], attrs |-> given]
      BY <2>4
    <3> HIDE DEF added
    <3>3. added \in Seq(Edge) /\ DOMAIN added = 1..size
      BY <2>5, <3>1, IsASeq
    <3> QED BY <2>5, <3>2, <3>3, LenProperties
  <2>9. /\ Len(more) = size
        /\ \A k \in 1..size : more[k] = <<stmt.ids[k], stmt.ids[k + 1], n + 1>>
    <3>1. more = [k \in 1..size |-> <<stmt.ids[k], stmt.ids[k + 1], n + 1>>]
      BY <1>10, <2>4 DEF more
    <3>2. DOMAIN more = 1..size /\ Len(more) \in Nat /\ DOMAIN more = 1..Len(more)
      BY <1>5, <3>1, LenProperties
    <3> QED BY <2>5, <3>1, <3>2
  <2> HIDE DEF added
  <2>10. /\ WrittenEdges' \in Seq(Link) /\ Len(WrittenEdges') = len + size
         /\ \A e \in 1..len + size : WrittenEdges'[e] = IF e <= len THEN WrittenEdges[e] ELSE more[e - len]
    <3>1. /\ WrittenEdges \o more \in Seq(Link) /\ Len(WrittenEdges \o more) = len + size
          /\ \A e \in 1..len + size : (WrittenEdges \o more)[e] =
                 IF e <= Len(WrittenEdges) THEN WrittenEdges[e] ELSE more[e - Len(WrittenEdges)]
      <4>1. WrittenEdges \in Seq(Link) /\ more \in Seq(Link)
        BY <1>5, <1>7
      <4>2. /\ WrittenEdges \o more \in Seq(Link)
            /\ Len(WrittenEdges \o more) = Len(WrittenEdges) + Len(more)
            /\ \A e \in 1..Len(WrittenEdges) + Len(more) : (WrittenEdges \o more)[e] =
                   IF e <= Len(WrittenEdges) THEN WrittenEdges[e] ELSE more[e - Len(WrittenEdges)]
        BY <4>1, ConcatProperties
      <4>3. Len(WrittenEdges) = len /\ Len(more) = size
        BY <1>6, <2>9
      <4> QED BY <4>2, <4>3
    <3> QED BY <1>5, <1>6, <3>1
  <2>11. /\ Len(graph'.edges) = len + size
         /\ \A e \in 1..len + size : graph'.edges[e] = IF e <= len THEN graph.edges[e] ELSE added[e - len]
    <3>1. /\ Len(graph.edges \o added) = len + size
          /\ \A e \in 1..len + size : (graph.edges \o added)[e] =
                 IF e <= Len(graph.edges) THEN graph.edges[e] ELSE added[e - Len(graph.edges)]
      BY <1>7, <2>8, ConcatProperties
    <3> QED BY <1>7, <2>7, <3>1
  <2>12. ASSUME NEW e \in 1..len + size, NEW from, NEW to, NEW i, WrittenEdges'[e] = <<from, to, i>>
         PROVE  Right(graph'.edges[e], from, to, i)
    <3>1. CASE e \in 1..len
      <4>1. WrittenEdges[e] = <<from, to, i>> /\ graph'.edges[e] = graph.edges[e]
        BY <1>7, <2>10, <2>11, <2>12, <3>1
      <4> HIDE DEF Right
      <4> QED BY <1>8, <3>1, <4>1
    <3>2. CASE e \notin 1..len
      <4>1. PICK k \in 1..size : k = e - len
        BY <1>7, <2>5, <3>2
      <4>2. ~(e <= len)
        BY <1>7, <3>2
      <4>3. <<from, to, i>> = <<stmt.ids[k], stmt.ids[k + 1], n + 1>>
        BY <2>9, <2>10, <2>12, <4>1, <4>2
      <4>4. graph'.edges[e] = [from |-> stmt.ids[k], to |-> stmt.ids[k + 1], attrs |-> given]
        BY <2>8, <2>11, <4>1, <4>2
      <4>5. i = n + 1 /\ from = stmt.ids[k] /\ to = stmt.ids[k + 1]
        BY <4>3
      <4>6. n + 1 \in DOMAIN text' /\ text'[n + 1].kind = "chain"
        BY <1>3, <1>10
      <4>7. Right([from |-> stmt.ids[k], to |-> stmt.ids[k + 1], attrs |-> given], from, to, n + 1)
        BY <2>6, <4>5, <4>6
      <4> HIDE DEF Right
      <4> QED BY <4>4, <4>5, <4>7
    <3> QED BY <3>1, <3>2
  <2> HIDE DEF Right
  <2> QED BY <1>11, <2>10, <2>11, <2>12
<1> QED BY <1>9, <1>10

SetAsWritten ==
    \A key : Holds(graph.set, key, WritesGraph(key) # {}, Given(Max(WritesGraph(key)), key))

\* The graph's own attributes change by a statement about the graph only.
LEMMA SetChanges ==
    ASSUME ParserTyped, NEW stmt \in Statements,
           \/ GraphAttrStmt(stmt) \/ DefaultsStmt(stmt)
           \/ OpenSubgraph(stmt) \/ CloseSubgraph(stmt)
           \/ NodeStmt(stmt) \/ EdgeStmt(stmt)
    PROVE  graph'.set = IF stmt.kind = "graph" THEN Merged(AttrList(stmt.attrs), graph.set)
                        ELSE graph.set
<1>1. /\ graph \in Graph /\ Once(graph) /\ stmt.ids \in Seq(STRING)
      /\ Scope.node \in AttrMap /\ Scope.edge \in AttrMap /\ AttrList(stmt.attrs) \in AttrMap
  BY ScopeType, ParserAssumption, ListRead DEF ParserTyped
<1>2. CASE GraphAttrStmt(stmt)
  BY <1>1, <1>2 DEF GraphAttrStmt, Graph
<1>3. CASE NodeStmt(stmt)
  <2> DEFINE given == Merged(AttrList(stmt.attrs), Scope.node)
  <2>1. given \in AttrMap /\ stmt.ids[1] \in STRING /\ stmt.kind = "stage"
    BY <1>1, <1>3, MergedType, ParserAssumption, ElementOfSeq DEF NodeStmt
  <2>2. graph' = AddNode(graph, stmt.ids[1], given)
    BY <1>3 DEF NodeStmt
  <2> HIDE DEF given
  <2>3. graph'.set = graph.set
    BY <1>1, <2>1, <2>2, NodeAdded
  <2> QED BY <2>1, <2>3
<1>4. CASE EdgeStmt(stmt)
  <2> DEFINE full == EnsureNodes(graph, stmt.ids)
             given == Merged(AttrList(stmt.attrs), Scope.edge)
  <2>1. given \in AttrMap /\ stmt.kind = "chain" /\ Len(stmt.ids) >= 2
    BY <1>1, <1>4, MergedType, ParserAssumption DEF EdgeStmt
  <2>2. full \in Graph /\ Once(full) /\ full.set = graph.set
    BY <1>1, ChainEnsured
  <2>3. graph' = AddEdges(full, stmt.ids, given)
    BY <1>4 DEF EdgeStmt
  <2> HIDE DEF given, full
  <2>4. AddEdges(full, stmt.ids, given).set = full.set
    BY <1>1, <2>1, <2>2, EdgesAdded
  <2> QED BY <2>1, <2>2, <2>3, <2>4
<1>5. CASE DefaultsStmt(stmt) \/ OpenSubgraph(stmt) \/ CloseSubgraph(stmt)
  BY <1>5 DEF DefaultsStmt, OpenSubgraph, CloseSubgraph
<1> QED BY <1>2, <1>3, <1>4, <1>5

\* Every statement leaves the graph's own attributes as the text says.
LEMMA SetStep ==
    ASSUME ParserTyped, SetAsWritten, NEW stmt \in Statements,
           \/ GraphAttrStmt(stmt) \/ DefaultsStmt(stmt)
           \/ OpenSubgraph(stmt) \/ CloseSubgraph(stmt)
           \/ NodeStmt(stmt) \/ EdgeStmt(stmt)
    PROVE  SetAsWritten'
<1>1. PICK n : n = Len(text)
  OBVIOUS
<1>2. text \in Seq(Statements) /\ text' = Append(text, stmt)
  BY DEF ParserTyped, GraphAttrStmt, DefaultsStmt, OpenSubgraph, CloseSubgraph, NodeStmt,
         EdgeStmt, Reads
<1>3. /\ n \in Nat /\ n + 1 \in 1..n + 1 /\ DOMAIN text = 1..n /\ DOMAIN text' = 1..n + 1
      /\ text'[n + 1] = stmt /\ \A i \in 1..n : text'[i] = text[i]
  BY <1>1, <1>2, TextGrows
<1>4. /\ graph \in Graph /\ Once(graph) /\ stmt.ids \in Seq(STRING)
      /\ Scope.node \in AttrMap /\ Scope.edge \in AttrMap /\ AttrList(stmt.attrs) \in AttrMap
  BY ScopeType, ParserAssumption, ListRead DEF ParserTyped
<1>5. graph'.set = IF stmt.kind = "graph" THEN Merged(AttrList(stmt.attrs), graph.set) ELSE graph.set
  BY SetChanges
<1> SUFFICES ASSUME NEW key
             PROVE  Holds(graph'.set, key, WritesGraph(key)' # {}, Given(Max(WritesGraph(key)), key)')
  BY DEF SetAsWritten
<1>6. /\ WritesGraph(key) \in SUBSET (1..n)
      /\ WritesGraph(key)' = WritesGraph(key)
             \cup (IF stmt.kind = "graph" /\ Gives(n + 1, key)' THEN {n + 1} ELSE {})
  <2>1. \A i \in 1..n : (Gives(i, key)' <=> Gives(i, key)) /\ text'[i] = text[i]
    BY <1>1, <1>2, <1>3, MeaningKept
  <2>2. WritesGraph(key) = {i \in 1..n : text[i].kind = "graph" /\ Gives(i, key)}
    BY <1>3 DEF WritesGraph
  <2>3. WritesGraph(key)' = {i \in 1..n + 1 : text'[i].kind = "graph" /\ Gives(i, key)'}
    BY <1>3 DEF WritesGraph
  <2>4. \A i : i \in 1..n + 1 <=> i \in 1..n \/ i = n + 1
    BY <1>3
  <2> QED BY <1>3, <2>1, <2>2, <2>3, <2>4
<1>7. Holds(graph.set, key, WritesGraph(key) # {}, Given(Max(WritesGraph(key)), key))
  BY DEF SetAsWritten
<1>8. ASSUME WritesGraph(key)' = WritesGraph(key)
      PROVE  Holds(graph.set, key, WritesGraph(key)' # {}, Given(Max(WritesGraph(key)), key)')
  <2>1. CASE WritesGraph(key) = {}
    BY <1>7, <1>8, <2>1 DEF Holds
  <2>2. CASE WritesGraph(key) # {}
    <3>1. PICK m : m = Max(WritesGraph(key))
      OBVIOUS
    <3>2. m \in 1..n
      BY <1>3, <1>6, <2>2, <3>1, GreatestNumber
    <3>3. Given(m, key)' = Given(m, key)
      BY <1>1, <1>2, <3>2, MeaningKept
    <3>4. Given(Max(WritesGraph(key)), key)' = Given(m, key)'
      BY <1>8, <3>1 DEF Given
    <3> QED BY <1>7, <1>8, <2>2, <3>1, <3>3, <3>4 DEF Holds
  <2> QED BY <2>1, <2>2
<1>9. CASE stmt.kind # "graph"
  BY <1>5, <1>6, <1>8, <1>9
<1>10. CASE stmt.kind = "graph"
  <2> DEFINE given == AttrList(stmt.attrs)
  <2>1. Holds(given, key, Gives(n + 1, key)', Given(n + 1, key)')
    BY <1>1, <1>2, StatementGives
  <2> HIDE DEF given
  <2>2. graph'.set = Merged(given, graph.set)
    BY <1>5, <1>10 DEF given
  <2>3. CASE Gives(n + 1, key)'
    <3>1. WritesGraph(key)' = WritesGraph(key) \cup {n + 1}
      BY <1>6, <1>10, <2>3
    <3>2. Max(WritesGraph(key))' = n + 1
      BY <1>3, <1>6, <3>1, GreatestNew
    <3>3. Given(Max(WritesGraph(key)), key)' = Given(n + 1, key)'
      BY <3>2 DEF Given
    <3> QED BY <2>1, <2>2, <2>3, <3>1, <3>3 DEF Holds, Merged
  <2>4. CASE ~Gives(n + 1, key)'
    <3>1. Holds(graph.set, key, WritesGraph(key)' # {}, Given(Max(WritesGraph(key)), key)')
      BY <1>6, <1>8, <2>4
    <3> QED BY <2>1, <2>2, <2>4, <3>1 DEF Holds, Merged
  <2> QED BY <2>3, <2>4
<1> QED BY <1>9, <1>10

\* What the parser keeps true of the text that it has read.
AsWritten == ScopesAsWritten /\ NodesAsWritten /\ EdgesAsWritten /\ SetAsWritten

\* Nothing is read, and nothing is there.
LEMMA AsWrittenInit == ParserInit => AsWritten
<1> SUFFICES ASSUME ParserInit PROVE AsWritten
  OBVIOUS
<1> USE DEF ParserInit
<1>1. text = << >> /\ Len(text) = 0 /\ DOMAIN text = {}
  OBVIOUS
<1>2. NoAttrs \in AttrMap /\ DOMAIN NoAttrs = {}
  BY NoAttrsType
<1>3. ScopesAsWritten
  <2>1. Depth(1) = 0
    <3>1. {j \in 1..1 - 1 : text[j].kind = "open"} = {} /\ {j \in 1..1 - 1 : text[j].kind = "close"} = {}
      OBVIOUS
    <3> QED BY <3>1, FS_EmptySet DEF Depth
  <2>2. \A d, kind, key : Level(d, kind, key) = {}
    BY <1>1 DEF Level
  <2>3. Len(defaults) = 1 /\ defaults[1] = [node |-> NoAttrs, edge |-> NoAttrs]
    OBVIOUS
  <2> QED BY <1>1, <1>2, <2>1, <2>2, <2>3 DEF ScopesAsWritten, Holds
<1>4. NodesAsWritten
  BY <1>1 DEF NodesAsWritten, ToSet
<1>5. EdgesAsWritten
  <2>1. WrittenEdges = << >>
    <3>1. [i \in DOMAIN text |-> IF text[i].kind = "chain" THEN EdgesOf(i) ELSE << >>] = << >>
      BY <1>1
    <3> QED BY <3>1 DEF WrittenEdges, FlattenSeq
  <2>2. Len(graph.edges) = 0
    OBVIOUS
  <2> QED BY <2>1, <2>2, EmptySeq DEF EdgesAsWritten
<1>6. SetAsWritten
  <2>1. \A key : WritesGraph(key) = {}
    BY <1>1 DEF WritesGraph
  <2>2. graph.set = NoAttrs
    OBVIOUS
  <2> QED BY <1>2, <2>1, <2>2 DEF SetAsWritten, Holds
<1> QED BY <1>3, <1>4, <1>5, <1>6 DEF AsWritten

\* Each statement keeps the graph what the text read so far says.
LEMMA AsWrittenStep ==
    ASSUME ParserTyped, AsWritten, Statement
    PROVE  AsWritten'
<1>1. PICK stmt \in Statements :
          \/ GraphAttrStmt(stmt) \/ DefaultsStmt(stmt)
          \/ OpenSubgraph(stmt) \/ CloseSubgraph(stmt)
          \/ NodeStmt(stmt) \/ EdgeStmt(stmt)
  BY DEF Statement
<1>2. ScopesAsWritten /\ NodesAsWritten /\ EdgesAsWritten /\ SetAsWritten
  BY DEF AsWritten
<1>3. ScopesAsWritten'
  BY <1>1, <1>2, ScopesStep
<1>4. NodesAsWritten'
  BY <1>1, <1>2, NodesStep
<1>5. EdgesAsWritten'
  BY <1>1, <1>2, EdgesStep
<1>6. SetAsWritten'
  BY <1>1, <1>2, SetStep
<1> QED BY <1>3, <1>4, <1>5, <1>6 DEF AsWritten

\* The keys that a statement gives are among those of the text.
LEMMA KeysGiven ==
    ASSUME NEW key
    PROVE  /\ \A i \in DOMAIN text : Gives(i, key) => key \in Keys
           /\ \A id : WritesNode(id, key) # {} => key \in Keys
           /\ \A i \in DOMAIN text : WritesEdge(i, key) => key \in Keys
           /\ WritesGraph(key) # {} => key \in Keys
<1>1. ASSUME NEW i \in DOMAIN text, Gives(i, key) PROVE key \in Keys
  <2>1. PICK k \in DOMAIN text[i].attrs : text[i].attrs[k][1] = key
    BY <1>1 DEF Gives
  <2>2. text[i].attrs[k] \in ToSet(text[i].attrs)
    BY DEF ToSet
  <2>3. key \in {pair[1] : pair \in ToSet(text[i].attrs)}
    BY <2>1, <2>2
  <2> QED BY <2>3 DEF Keys
<1>2. ASSUME NEW kind, NEW i, Defaulting(kind, i, key) # {} PROVE key \in Keys
  BY <1>1, <1>2 DEF Defaulting
<1>3. ASSUME NEW id, WritesNode(id, key) # {} PROVE key \in Keys
  <2>1. PICK i \in DOMAIN text : Gives(i, key) \/ Defaulting("node", i, key) # {}
    BY <1>3 DEF WritesNode
  <2> QED BY <1>1, <1>2, <2>1
<1>4. ASSUME NEW i \in DOMAIN text, WritesEdge(i, key) PROVE key \in Keys
  BY <1>1, <1>2, <1>4 DEF WritesEdge
<1>5. WritesGraph(key) # {} => key \in Keys
  BY <1>1 DEF WritesGraph
<1> QED BY <1>1, <1>3, <1>4, <1>5

\* The graph that the parser keeps is the meaning of the text.
LEMMA AsWrittenMeans ==
    ASSUME graph \in Graph, Once(graph), AsWritten
    PROVE  MeaningOfText(graph)
<1> USE DEF AsWritten
<1>1. ToSet(graph.nodes) = UNION {Names(i) : i \in DOMAIN text}
  BY DEF NodesAsWritten
<1>2. IsInjective(graph.nodes)
  BY DEF Once
<1>3. ASSUME NEW id \in ToSet(graph.nodes)
      PROVE  graph.attrs[id] = [key \in {k \in Keys : WritesNode(id, k) # {}} |->
                                   Written("node", Max(WritesNode(id, key)), key)]
  <2> DEFINE attrs == graph.attrs[id]
  <2>1. attrs \in AttrMap
    <3>1. graph.attrs \in NodeAttrs /\ id \in DOMAIN graph.attrs
      BY DEF Graph, Once
    <3> QED BY <3>1 DEF NodeAttrs
  <2>2. \A key : Holds(attrs, key, WritesNode(id, key) # {},
                       Written("node", Max(WritesNode(id, key)), key))
    BY DEF NodesAsWritten
  <2> HIDE DEF attrs
  <2>3. DOMAIN attrs = {k \in Keys : WritesNode(id, k) # {}}
    BY <2>2, KeysGiven DEF Holds
  <2>4. \A key \in DOMAIN attrs : attrs[key] = Written("node", Max(WritesNode(id, key)), key)
    BY <2>2, <2>3 DEF Holds
  <2>5. attrs = [key \in DOMAIN attrs |-> attrs[key]]
    BY <2>1, MapType
  <2>6. attrs = [key \in {k \in Keys : WritesNode(id, k) # {}} |->
                    Written("node", Max(WritesNode(id, key)), key)]
    BY <2>3, <2>4, <2>5
  <2> QED BY <2>6 DEF attrs
<1>4. graph.edges = [e \in DOMAIN WrittenEdges |->
        LET w == WrittenEdges[e] IN
        [from |-> w[1], to |-> w[2],
         attrs |-> [key \in {k \in Keys : WritesEdge(w[3], k)} |->
                       Written("edge", w[3], key)]]]
  <2>1. /\ WrittenEdges \in Seq(Link) /\ Len(graph.edges) = Len(WrittenEdges)
        /\ graph.edges \in Seq([from : STRING, to : STRING, attrs : AttrMap])
    BY DEF EdgesAsWritten, Graph
  <2>2. /\ DOMAIN graph.edges = DOMAIN WrittenEdges /\ DOMAIN WrittenEdges = 1..Len(graph.edges)
        /\ graph.edges = [e \in DOMAIN graph.edges |-> graph.edges[e]]
    BY <2>1, LenProperties
  <2>3. ASSUME NEW e \in DOMAIN WrittenEdges
        PROVE  graph.edges[e] =
                 LET w == WrittenEdges[e] IN
                 [from |-> w[1], to |-> w[2],
                  attrs |-> [key \in {k \in Keys : WritesEdge(w[3], k)} |->
                                Written("edge", w[3], key)]]
    <3>1. WrittenEdges[e] \in Link
      BY <2>1, <2>2, ElementOfSeq
    <3>2. PICK from, to, i : WrittenEdges[e] = <<from, to, i>>
      BY <3>1 DEF Link
    <3>3. /\ i \in DOMAIN text /\ graph.edges[e].from = from /\ graph.edges[e].to = to
          /\ \A key : Holds(graph.edges[e].attrs, key, WritesEdge(i, key), Written("edge", i, key))
      BY <2>2, <3>2 DEF EdgesAsWritten
    <3>4. graph.edges[e] \in [from : STRING, to : STRING, attrs : AttrMap]
      BY <2>1, <2>2, ElementOfSeq
    <3> DEFINE attrs == graph.edges[e].attrs
    <3>5. graph.edges[e] = [from |-> from, to |-> to, attrs |-> attrs] /\ attrs \in AttrMap
      BY <3>3, <3>4
    <3>6. \A key : Holds(attrs, key, WritesEdge(i, key), Written("edge", i, key))
      BY <3>3
    <3> HIDE DEF attrs
    <3>7. DOMAIN attrs = {k \in Keys : WritesEdge(i, k)}
      BY <3>3, <3>6, KeysGiven DEF Holds
    <3>8. \A key \in DOMAIN attrs : attrs[key] = Written("edge", i, key)
      BY <3>6, <3>7 DEF Holds
    <3>9. attrs = [key \in DOMAIN attrs |-> attrs[key]]
      BY <3>5, MapType
    <3>10. attrs = [key \in {k \in Keys : WritesEdge(i, k)} |-> Written("edge", i, key)]
      BY <3>7, <3>8, <3>9
    <3>11. WrittenEdges[e][1] = from /\ WrittenEdges[e][2] = to /\ WrittenEdges[e][3] = i
      BY <3>2
    <3> QED BY <3>5, <3>10, <3>11
  <2> QED BY <2>2, <2>3
<1>5. graph.set = [key \in {k \in Keys : WritesGraph(k) # {}} |-> Given(Max(WritesGraph(key)), key)]
  <2> DEFINE attrs == graph.set
  <2>1. attrs \in AttrMap
    BY DEF Graph
  <2>2. \A key : Holds(attrs, key, WritesGraph(key) # {}, Given(Max(WritesGraph(key)), key))
    BY DEF SetAsWritten
  <2> HIDE DEF attrs
  <2>3. DOMAIN attrs = {k \in Keys : WritesGraph(k) # {}}
    BY <2>2, KeysGiven DEF Holds
  <2>4. \A key \in DOMAIN attrs : attrs[key] = Given(Max(WritesGraph(key)), key)
    BY <2>2, <2>3 DEF Holds
  <2>5. attrs = [key \in DOMAIN attrs |-> attrs[key]]
    BY <2>1, MapType
  <2>6. attrs = [key \in {k \in Keys : WritesGraph(k) # {}} |-> Given(Max(WritesGraph(key)), key)]
    BY <2>3, <2>4, <2>5
  <2> QED BY <2>6 DEF attrs
<1> QED BY <1>1, <1>2, <1>3, <1>4, <1>5 DEF MeaningOfText

Meant ==
    /\ phase = "parse" => AsWritten
    /\ phase # "parse" /\ parsing # "error" => MeaningOfText(parsed)

\* A text that stays the same means the same.
LEMMA MeaningStays ==
    ASSUME text' = text
    PROVE  /\ \A i : Names(i)' = Names(i)
           /\ \A i, key : (Gives(i, key)' <=> Gives(i, key)) /\ Given(i, key)' = Given(i, key)
           /\ \A kind, i, key : Written(kind, i, key)' = Written(kind, i, key)
           /\ \A id, key : WritesNode(id, key)' = WritesNode(id, key)
           /\ \A i, key : WritesEdge(i, key)' <=> WritesEdge(i, key)
           /\ \A key : WritesGraph(key)' = WritesGraph(key)
           /\ WrittenEdges' = WrittenEdges /\ Keys' = Keys
           /\ \A i : Depth(i)' = Depth(i)
           /\ \A d, kind, key : Level(d, kind, key)' = Level(d, kind, key)
<1>1. \A i : Names(i)' = Names(i)
  BY DEF Names
<1>2. \A i, key : (Gives(i, key)' <=> Gives(i, key)) /\ Given(i, key)' = Given(i, key)
  BY DEF Gives, Given
<1>3. \A i : Depth(i)' = Depth(i)
  BY DEF Depth
<1>4. \A j, i : InScope(j, i)' <=> InScope(j, i)
  BY <1>3 DEF InScope
<1>5. \A kind, i, key : Defaulting(kind, i, key)' = Defaulting(kind, i, key)
  BY <1>2, <1>4 DEF Defaulting
<1>6. \A kind, i, key : Written(kind, i, key)' = Written(kind, i, key)
  BY <1>2, <1>5 DEF Written
<1>7. \A i, id : FirstNamed(i, id)' <=> FirstNamed(i, id)
  BY <1>1 DEF FirstNamed
<1>8. \A id, key : WritesNode(id, key)' = WritesNode(id, key)
  BY <1>1, <1>2, <1>5, <1>7 DEF WritesNode
<1>9. \A i, key : WritesEdge(i, key)' <=> WritesEdge(i, key)
  BY <1>2, <1>5 DEF WritesEdge
<1>10. \A key : WritesGraph(key)' = WritesGraph(key)
  BY <1>2 DEF WritesGraph
<1>11. WrittenEdges' = WrittenEdges /\ Keys' = Keys
  BY DEF WrittenEdges, EdgesOf, Keys
<1>12. \A d, kind, key : Level(d, kind, key)' = Level(d, kind, key)
  BY <1>2, <1>3, <1>4 DEF Level
<1> QED BY <1>1, <1>2, <1>3, <1>6, <1>8, <1>9, <1>10, <1>11, <1>12

\* A graph that stays the same, too, has the same meaning.
LEMMA GraphMeaningStays ==
    ASSUME text' = text
    PROVE  /\ graph' = graph => (MeaningOfText(graph)' <=> MeaningOfText(graph))
           /\ parsed' = parsed => (MeaningOfText(parsed)' <=> MeaningOfText(parsed))
<1>1. (UNION {Names(i) : i \in DOMAIN text})' = UNION {Names(i) : i \in DOMAIN text}
  BY MeaningStays
<1>2. Keys' = Keys /\ WrittenEdges' = WrittenEdges
  BY MeaningStays
<1>3. \A id : [key \in {k \in Keys : WritesNode(id, k) # {}} |->
                   Written("node", Max(WritesNode(id, key)), key)]'
             = [key \in {k \in Keys : WritesNode(id, k) # {}} |->
                   Written("node", Max(WritesNode(id, key)), key)]
  BY <1>2, MeaningStays
<1>4. \A i : [key \in {k \in Keys : WritesEdge(i, k)} |-> Written("edge", i, key)]'
            = [key \in {k \in Keys : WritesEdge(i, k)} |-> Written("edge", i, key)]
  BY <1>2, MeaningStays
<1>5. [key \in {k \in Keys : WritesGraph(k) # {}} |-> Given(Max(WritesGraph(key)), key)]'
       = [key \in {k \in Keys : WritesGraph(k) # {}} |-> Given(Max(WritesGraph(key)), key)]
  BY <1>2, MeaningStays
<1>6. [e \in DOMAIN WrittenEdges |->
         LET w == WrittenEdges[e] IN
         [from |-> w[1], to |-> w[2],
          attrs |-> [key \in {k \in Keys : WritesEdge(w[3], k)} |-> Written("edge", w[3], key)]]]'
       = [e \in DOMAIN WrittenEdges |->
         LET w == WrittenEdges[e] IN
         [from |-> w[1], to |-> w[2],
          attrs |-> [key \in {k \in Keys : WritesEdge(w[3], k)} |-> Written("edge", w[3], key)]]]
  BY <1>2, <1>4
<1>7. ASSUME graph' = graph PROVE MeaningOfText(graph)' <=> MeaningOfText(graph)
  BY <1>1, <1>3, <1>5, <1>6, <1>7 DEF MeaningOfText
<1>8. ASSUME parsed' = parsed PROVE MeaningOfText(parsed)' <=> MeaningOfText(parsed)
  BY <1>1, <1>3, <1>5, <1>6, <1>8 DEF MeaningOfText
<1> QED BY <1>7, <1>8

\* Whatever the text says, in any order and at any depth of subgraphs: what
\* the parser makes of it is what it means (dot/parser.go, model/graph.go).
THEOREM TextIsParsedAsWritten == Spec => []ParsedAsWritten
<1>1. Init => Meant
  BY AsWrittenInit DEF Init, Meant
<1>2. Typed /\ Meant /\ [Next]_vars => Meant'
  <2> SUFFICES ASSUME Typed, Meant, [Next]_vars PROVE Meant'
    OBVIOUS
  <2>1. CASE ParsePipeline
    <3>1. ParserTyped /\ AsWritten /\ Parse /\ parsed' = graph' /\ parsing = "reading"
      BY <2>1 DEF ParsePipeline, Typed, ParserTyped, Meant
    <3>2. CASE Statement
      <4>1. AsWritten'
        BY <3>1, <3>2, AsWrittenStep
      <4>2. parsing' = "reading"
        BY <3>1, <3>2 DEF Statement, GraphAttrStmt, DefaultsStmt, OpenSubgraph, CloseSubgraph,
                          NodeStmt, EdgeStmt, Reads
      <4>3. phase' = "parse"
        BY <2>1, <4>2 DEF ParsePipeline
      <4> QED BY <4>1, <4>3 DEF Meant
    <3>3. CASE UnexpectedToken
      BY <2>1, <3>3 DEF UnexpectedToken, ParsePipeline, Meant
    <3>4. CASE EndOfDigraph
      <4>1. MeaningOfText(graph)
        BY <3>1, AsWrittenMeans DEF ParserTyped
      <4>2. graph' = graph /\ text' = text /\ parsing' \in {"parsed", "error"}
        BY <3>4 DEF EndOfDigraph
      <4>3. MeaningOfText(parsed)'
        <5>1. MeaningOfText(parsed)' <=> MeaningOfText(graph)'
          BY <3>1 DEF MeaningOfText
        <5>2. MeaningOfText(graph)' <=> MeaningOfText(graph)
          BY <4>2, GraphMeaningStays
        <5> QED BY <4>1, <5>1, <5>2
      <4>4. phase' # "parse"
        BY <2>1, <4>2 DEF ParsePipeline
      <4> QED BY <4>3, <4>4 DEF Meant
    <3> QED BY <3>1, <3>2, <3>3, <3>4 DEF Parse
  <2>2. CASE ApplyStylesheet \/ Validate \/ Initialize \/ UNCHANGED vars
    <3>1. text' = text /\ parsed' = parsed /\ parsing' = parsing
      BY <2>2 DEF ApplyStylesheet, Validate, Initialize, vars, parserVars
    <3>2. MeaningOfText(parsed)' <=> MeaningOfText(parsed)
      BY <3>1, GraphMeaningStays
    <3>3. CASE UNCHANGED vars
      <4>1. graph' = graph /\ defaults' = defaults
        BY <3>3 DEF vars, parserVars
      <4>2. ScopesAsWritten' <=> ScopesAsWritten
        BY <3>1, <4>1, MeaningStays DEF ScopesAsWritten
      <4>3. NodesAsWritten' <=> NodesAsWritten
        BY <3>1, <4>1, MeaningStays DEF NodesAsWritten
      <4>4. EdgesAsWritten' <=> EdgesAsWritten
        BY <3>1, <4>1, MeaningStays DEF EdgesAsWritten, Holds
      <4>5. SetAsWritten' <=> SetAsWritten
        BY <3>1, <4>1, MeaningStays DEF SetAsWritten
      <4>6. AsWritten' <=> AsWritten
        BY <4>2, <4>3, <4>4, <4>5 DEF AsWritten
      <4> QED BY <3>1, <3>2, <3>3, <4>6 DEF Meant, vars
    <3>4. CASE ~UNCHANGED vars
      <4>1. phase # "parse" /\ phase' # "parse"
        BY <2>2, <3>4 DEF ApplyStylesheet, Validate, Initialize
      <4> QED BY <3>1, <3>2, <4>1 DEF Meant
    <3> QED BY <3>3, <3>4
  <2> QED BY <2>1, <2>2 DEF Next
<1>3. Typed /\ Meant => ParsedAsWritten
  <2> SUFFICES ASSUME Typed, Meant, parsing # "error" PROVE MeaningOfText(parsed)
    BY DEF ParsedAsWritten
  <2>1. CASE phase = "parse"
    <3>1. graph = parsed /\ graph \in Graph /\ Once(graph)
      BY <2>1 DEF Typed
    <3>2. MeaningOfText(graph)
      BY <2>1, <3>1, AsWrittenMeans DEF Meant
    <3> QED BY <3>1, <3>2
  <2>2. CASE phase # "parse"
    BY <2>2 DEF Meant
  <2> QED BY <2>1, <2>2
<1> QED BY <1>1, <1>2, <1>3, PrepareTyped, PTL DEF Spec

-----------------------------------------------------------------------------
(***************************************************************************)
(* What a stylesheet sets.                                                 *)
(***************************************************************************)
Selectors == [type : {"", "*", ".", "#"}, value : STRING]
SheetRule == [selector : Selectors, props : AttrMap]

\* The properties of a block are a map.
LEMMA PropertiesType ==
    ASSUME NEW body \in Seq(STRING \X STRING)
    PROVE  Properties(body) \in AttrMap
<1> DEFINE N     == Len(body)
           Read(a, n) == IF "" \in {body[n][1], body[n][2]} THEN a
                          ELSE Assigned(a, body[n][1], body[n][2])
           step  == [n \in 1..N |-> [a \in AttrMap |-> Read(a, n)]]
           Is(f) == f = [n \in 0..N |-> IF n = 0 THEN NoAttrs ELSE Read(f[n - 1], n)]
           props == CHOOSE f : Is(f)
<1>1. /\ N \in Nat
      /\ \A n \in 1..N : body[n][1] \in STRING /\ body[n][2] \in STRING
  <2>1. \A n \in 1..N : body[n] \in STRING \X STRING
    BY ElementOfSeq
  <2> QED BY <2>1
<1>2. \A n \in 1..N : \A a \in AttrMap : Read(a, n) \in AttrMap
  BY <1>1, AssignedType
<1>3. step \in Steps(N, AttrMap)
  <2> HIDE DEF Read, N
  <2> QED BY <1>2 DEF Steps
<1>4. PICK f : Recurs(f, N, AttrMap, NoAttrs, step)
  <2> HIDE DEF step, N
  <2> QED BY <1>1, <1>3, NoAttrsType, Recursion
<1>5. Is(f)
  <2>1. ASSUME NEW n \in 1..N PROVE f[n] = Read(f[n - 1], n)
    <3> HIDE DEF N, step, Read
    <3>1. f[n - 1] \in AttrMap /\ f[n] = step[n][f[n - 1]]
      BY <1>1, <1>4 DEF Recurs
    <3>2. step[n][f[n - 1]] = Read(f[n - 1], n)
      BY <3>1 DEF step
    <3> QED BY <3>1, <3>2
  <2> HIDE DEF Read, step, N
  <2> QED BY <1>1, <1>4, <2>1 DEF Recurs
<1>6. Is(props)
  BY <1>5
<1>7. Properties(body) = props[N]
  BY DEF Properties
<1> HIDE DEF props, step
<1> DEFINE Right == {n \in 0..N : props[n] \in AttrMap}
<1>8. 0 \in Right
  <2>1. 0 \in 0..N
    BY <1>1
  <2> HIDE DEF Read, N
  <2>2. props[0] = NoAttrs
    BY <1>6, <2>1
  <2> QED BY <2>1, <2>2, NoAttrsType
<1>9. ASSUME NEW n \in 0..N - 1, n \in Right PROVE n + 1 \in Right
  <2>1. n + 1 \in 1..N /\ n + 1 \in 0..N /\ (n + 1) - 1 = n /\ n + 1 # 0
    BY <1>1
  <2>2. props[n + 1] = Read(props[n], n + 1)
    <3> HIDE DEF N
    <3> QED BY <1>6, <2>1
  <2> HIDE DEF Read
  <2> QED BY <1>2, <1>9, <2>1, <2>2
<1>10. N \in Right
  <2>1. \A n \in 0..N - 1 : n \in Right => n + 1 \in Right
    BY <1>9
  <2> HIDE DEF Right
  <2>2. \A n \in 0..N : n \in Right
    BY <1>1, <1>8, <2>1, Induction
  <2> QED BY <1>1, <2>2
<1> QED BY <1>7, <1>10

Blocks == [selector : Selectors, body : Seq(STRING \X STRING), closed : BOOLEAN]

\* The rules of a sheet have a selector of one of its blocks and properties.
LEMMA RulesType ==
    ASSUME NEW sheet \in Seq(Blocks)
    PROVE  /\ Rules(sheet) \in Seq(SheetRule)
           /\ ~Malformed(sheet) => \A k \in DOMAIN Rules(sheet) : Rules(sheet)[k].selector.type # ""
<1> DEFINE N       == Len(sheet)
           Good    == {r \in SheetRule : ~Malformed(sheet) => r.selector.type # ""}
           All     == Seq(Good)
           Rule(n) == [selector |-> sheet[n].selector, props |-> Properties(sheet[n].body)]
           More(r, n) == IF DOMAIN Properties(sheet[n].body) = {} THEN r ELSE Append(r, Rule(n))
           step    == [n \in 1..N |-> [r \in All |-> More(r, n)]]
           Is(f)   == f = [n \in 0..N |-> IF n = 0 THEN <<>> ELSE More(f[n - 1], n)]
           rules   == CHOOSE f : Is(f)
<1>1. N \in Nat /\ \A n \in 1..N : sheet[n] \in Blocks
  BY ElementOfSeq
<1>2. \A n \in 1..N : Rule(n) \in Good
  <2> SUFFICES ASSUME NEW n \in 1..N PROVE Rule(n) \in Good
    OBVIOUS
  <2>1. sheet[n].selector \in Selectors /\ sheet[n].body \in Seq(STRING \X STRING)
    BY <1>1 DEF Blocks
  <2>2. Properties(sheet[n].body) \in AttrMap
    BY <2>1, PropertiesType
  <2>3. ~Malformed(sheet) => sheet[n].selector.type # ""
    BY <1>1, LenProperties DEF Malformed
  <2> QED BY <2>1, <2>2, <2>3 DEF SheetRule
<1>3. \A n \in 1..N : \A r \in All : More(r, n) \in All
  <2> HIDE DEF Rule, Good
  <2> QED BY <1>2, AppendProperties
<1>4. step \in Steps(N, All)
  <2> HIDE DEF More, N, All
  <2> QED BY <1>3 DEF Steps
<1>5. PICK f : Recurs(f, N, All, <<>>, step)
  <2>1. <<>> \in All
    OBVIOUS
  <2> HIDE DEF step, N, All
  <2> QED BY <1>1, <1>4, <2>1, Recursion
<1>6. Is(f)
  <2>1. ASSUME NEW n \in 1..N PROVE f[n] = More(f[n - 1], n)
    <3> HIDE DEF N, step, More, All
    <3>1. f[n - 1] \in All /\ f[n] = step[n][f[n - 1]]
      BY <1>1, <1>5 DEF Recurs
    <3>2. step[n][f[n - 1]] = More(f[n - 1], n)
      BY <3>1 DEF step
    <3> QED BY <3>1, <3>2
  <2> HIDE DEF All, More, step
  <2> QED BY <1>1, <1>5, <2>1 DEF Recurs
<1>7. Is(rules)
  BY <1>6
<1>8. Rules(sheet) = rules[N]
  BY DEF Rules
<1> HIDE DEF rules, step
<1> DEFINE Right == {n \in 0..N : rules[n] \in All}
<1>9. 0 \in Right
  <2>1. 0 \in 0..N /\ <<>> \in All
    BY <1>1
  <2> HIDE DEF More, N, All
  <2>2. rules[0] = <<>>
    BY <1>7, <2>1
  <2> QED BY <2>1, <2>2
<1>10. ASSUME NEW n \in 0..N - 1, n \in Right PROVE n + 1 \in Right
  <2>1. n + 1 \in 1..N /\ n + 1 \in 0..N /\ (n + 1) - 1 = n /\ n + 1 # 0
    BY <1>1
  <2>2. rules[n + 1] = More(rules[n], n + 1)
    <3> HIDE DEF N
    <3> QED BY <1>7, <2>1
  <2> HIDE DEF More, All
  <2> QED BY <1>3, <1>10, <2>1, <2>2
<1>11. N \in Right
  <2>1. \A n \in 0..N - 1 : n \in Right => n + 1 \in Right
    BY <1>10
  <2> HIDE DEF Right
  <2>2. \A n \in 0..N : n \in Right
    BY <1>1, <1>9, <2>1, Induction
  <2> QED BY <1>1, <2>2
<1>12. rules[N] \in Seq(Good)
  BY <1>11
<1>13. Good \subseteq SheetRule /\ \A r \in Good : ~Malformed(sheet) => r.selector.type # ""
  OBVIOUS
<1> HIDE DEF Good
<1>14. \A k \in DOMAIN rules[N] : rules[N][k] \in Good
  BY <1>12, LenProperties, ElementOfSeq
<1>15. rules[N] \in Seq(SheetRule)
  <2>1. /\ Len(rules[N]) \in Nat
        /\ rules[N] \in [1..Len(rules[N]) -> Good]
    BY <1>12, LenProperties
  <2>2. rules[N] \in [1..Len(rules[N]) -> SheetRule]
    BY <1>13, <2>1
  <2> QED BY <2>1, <2>2, IsASeq
<1> QED BY <1>8, <1>13, <1>14, <1>15

\* What is merged in the order of the sheet: a key has the value of the last
\* chosen rule that sets it, and else what it had before.
LEMMA InOrderHolds ==
    ASSUME NEW rules \in Seq(SheetRule), NEW chosen \in SUBSET DOMAIN rules, NEW props \in AttrMap
    PROVE  LET result   == InOrder(rules, chosen, props)
               Set(key) == {k \in chosen : key \in DOMAIN rules[k].props}
           IN  /\ result \in AttrMap
               /\ \A key : Holds(result, key, Set(key) # {} \/ key \in DOMAIN props,
                                 IF Set(key) # {} THEN rules[Max(Set(key))].props[key] ELSE props[key])
<1> DEFINE N       == Len(rules)
           On(a, n) == IF n \in chosen THEN Merged(rules[n].props, a) ELSE a
           step    == [n \in 1..N |-> [a \in AttrMap |-> On(a, n)]]
           Is(f)   == f = [n \in 0..N |-> IF n = 0 THEN props ELSE On(f[n - 1], n)]
           merged  == CHOOSE f : Is(f)
<1>1. /\ N \in Nat /\ DOMAIN rules = 1..N
      /\ \A n \in 1..N : rules[n].props \in AttrMap
  <2>1. N \in Nat /\ DOMAIN rules = 1..N
    BY LenProperties
  <2>2. \A n \in 1..N : rules[n] \in SheetRule
    BY ElementOfSeq
  <2> QED BY <2>1, <2>2 DEF SheetRule
<1>2. \A n \in 1..N : \A a \in AttrMap : On(a, n) \in AttrMap
  BY <1>1, MergedType
<1>3. step \in Steps(N, AttrMap)
  <2> HIDE DEF On, N
  <2> QED BY <1>2 DEF Steps
<1>4. PICK f : Recurs(f, N, AttrMap, props, step)
  <2> HIDE DEF step, N
  <2> QED BY <1>1, <1>3, Recursion
<1>5. Is(f)
  <2>1. ASSUME NEW n \in 1..N PROVE f[n] = On(f[n - 1], n)
    <3> HIDE DEF N, step, On
    <3>1. f[n - 1] \in AttrMap /\ f[n] = step[n][f[n - 1]]
      BY <1>1, <1>4 DEF Recurs
    <3>2. step[n][f[n - 1]] = On(f[n - 1], n)
      BY <3>1 DEF step
    <3> QED BY <3>1, <3>2
  <2> HIDE DEF On, step
  <2> QED BY <1>1, <1>4, <2>1 DEF Recurs
<1>6. Is(merged)
  BY <1>5
<1>7. InOrder(rules, chosen, props) = merged[N]
  BY DEF InOrder
<1> DEFINE Set(key, n) == {k \in chosen : k <= n /\ key \in DOMAIN rules[k].props}
           Result(n) ==
               /\ merged[n] \in AttrMap
               /\ \A key : Holds(merged[n], key, Set(key, n) # {} \/ key \in DOMAIN props,
                                 IF Set(key, n) # {} THEN rules[Max(Set(key, n))].props[key]
                                 ELSE props[key])
           Right == {n \in 0..N : Result(n)}
<1> HIDE DEF merged, step
<1>8. 0 \in Right
  <2>1. 0 \in 0..N /\ \A key : Set(key, 0) = {}
    BY <1>1
  <2>2. merged[0] = props
    <3> HIDE DEF On, N
    <3> QED BY <1>6, <2>1
  <2> QED BY <2>1, <2>2 DEF Holds
<1>9. ASSUME NEW n \in 0..N - 1, n \in Right PROVE n + 1 \in Right
  <2>1. n + 1 \in 1..N /\ n + 1 \in 0..N /\ (n + 1) - 1 = n /\ n + 1 # 0 /\ n \in Nat
    BY <1>1
  <2>2. merged[n + 1] = On(merged[n], n + 1)
    <3> HIDE DEF On, N
    <3> QED BY <1>6, <2>1
  <2>3. Result(n)
    BY <1>9
  <2>4. merged[n + 1] \in AttrMap
    BY <1>2, <2>1, <2>2, <2>3
  <2>5. ASSUME NEW key
        PROVE  Holds(merged[n + 1], key, Set(key, n + 1) # {} \/ key \in DOMAIN props,
                     IF Set(key, n + 1) # {} THEN rules[Max(Set(key, n + 1))].props[key] ELSE props[key])
    <3> DEFINE own == rules[n + 1].props
    <3>1. Holds(merged[n], key, Set(key, n) # {} \/ key \in DOMAIN props,
                IF Set(key, n) # {} THEN rules[Max(Set(key, n))].props[key] ELSE props[key])
      BY <2>3
    <3>2. Set(key, n) \in SUBSET (1..n)
      BY <1>1
    <3>3. CASE n + 1 \in chosen /\ key \in DOMAIN own
      <4>1. Set(key, n + 1) = Set(key, n) \cup {n + 1}
        BY <1>1, <2>1, <3>3
      <4>2. Max(Set(key, n + 1)) = n + 1
        <5> HIDE DEF Set
        <5> QED BY <2>1, <3>2, <4>1, GreatestNew
      <4>3. key \in DOMAIN merged[n + 1] /\ merged[n + 1][key] = own[key]
        BY <2>2, <3>3 DEF Merged
      <4>4. Set(key, n + 1) # {}
        BY <4>1
      <4> HIDE DEF Set
      <4> QED BY <4>2, <4>3, <4>4 DEF Holds
    <3>4. CASE ~(n + 1 \in chosen /\ key \in DOMAIN own)
      <4>1. Set(key, n + 1) = Set(key, n)
        BY <1>1, <2>1, <3>4
      <4>2. /\ key \in DOMAIN merged[n + 1] <=> key \in DOMAIN merged[n]
            /\ key \in DOMAIN merged[n] => merged[n + 1][key] = merged[n][key]
        BY <2>2, <3>4 DEF Merged
      <4> HIDE DEF Set
      <4> QED BY <3>1, <4>1, <4>2 DEF Holds
    <3> QED BY <3>3, <3>4
  <2> HIDE DEF Set
  <2>6. Result(n + 1)
    BY <2>4, <2>5
  <2> QED BY <2>1, <2>6
<1>10. N \in Right
  <2>1. \A n \in 0..N - 1 : n \in Right => n + 1 \in Right
    BY <1>9
  <2> HIDE DEF Right
  <2>2. \A n \in 0..N : n \in Right
    BY <1>1, <1>8, <2>1, Induction
  <2> QED BY <1>1, <2>2
<1>11. \A key : Set(key, N) = {k \in chosen : key \in DOMAIN rules[k].props}
  BY <1>1
<1> QED BY <1>7, <1>10, <1>11

\* The order of three numbers.
LEMMA ThreeOrdered ==
    /\ \A t \in {0, 1, 2} : ~(t > 2) /\ (t > 1 => t = 2) /\ (t > 0 => t \in {1, 2})
    /\ \A s, t \in {0, 1, 2} : t # s /\ ~(t > s) => t < s
    /\ \A n \in Nat : \A k \in 1..n : k \in Nat
    /\ \A j, k \in Nat : j <= k /\ j # k => j < k
OBVIOUS

\* What a rule says in the end: with no key, the value of the last rule among
\* the most specific that match and set it.
LEMMA Cascade ==
    ASSUME NEW rules \in Seq(SheetRule), \A k \in DOMAIN rules : rules[k].selector.type # "",
           NEW id, NEW attrs, NEW key
    PROVE  LET result == Resolve(rules, id, attrs)
               D == {k \in MatchingRules(rules, id, attrs) : key \in DOMAIN rules[k].props}
           IN  /\ result \in AttrMap
               /\ key \in DOMAIN result <=> D # {}
               /\ D # {} => \E k \in D :
                     /\ result[key] = rules[k].props[key]
                     /\ \A j \in D \ {k} :
                           LET s == Specificity(rules[j].selector)
                               t == Specificity(rules[k].selector)
                           IN  s < t \/ (s = t /\ j < k)
<1> DEFINE All   == MatchingRules(rules, id, attrs)
           Sp(k) == Specificity(rules[k].selector)
           Of(s) == {k \in All : Sp(k) = s}
           D     == {k \in All : key \in DOMAIN rules[k].props}
           Set(s) == {k \in Of(s) : key \in DOMAIN rules[k].props}
           r0 == InOrder(rules, Of(0), NoAttrs)
           r1 == InOrder(rules, Of(1), r0)
           r2 == InOrder(rules, Of(2), r1)
<1>1. /\ Len(rules) \in Nat /\ DOMAIN rules = 1..Len(rules)
      /\ All \in SUBSET (1..Len(rules))
      /\ \A k \in All : Sp(k) \in {0, 1, 2}
  <2>1. Len(rules) \in Nat /\ DOMAIN rules = 1..Len(rules)
    BY LenProperties
  <2>2. All \in SUBSET (1..Len(rules))
    BY <2>1 DEF MatchingRules
  <2>3. ASSUME NEW k \in All PROVE Sp(k) \in {0, 1, 2}
    <3>1. k \in DOMAIN rules /\ k \in 1..Len(rules)
      BY <2>1, <2>2
    <3>2. rules[k] \in SheetRule
      BY <3>1, ElementOfSeq
    <3>3. rules[k].selector \in Selectors /\ rules[k].selector.type # ""
      BY <3>1, <3>2 DEF SheetRule
    <3> QED BY <3>3 DEF Selectors, Specificity, Sp
  <2> QED BY <2>1, <2>2, <2>3
<1>2. Resolve(rules, id, attrs) = r2
  BY DEF Resolve
<1> HIDE DEF All, Sp
<1>3. Of(0) \in SUBSET DOMAIN rules /\ Of(1) \in SUBSET DOMAIN rules /\ Of(2) \in SUBSET DOMAIN rules
  BY <1>1
<1>4. /\ r0 \in AttrMap
      /\ Holds(r0, key, Set(0) # {} \/ key \in DOMAIN NoAttrs,
               IF Set(0) # {} THEN rules[Max(Set(0))].props[key] ELSE NoAttrs[key])
  <2> HIDE DEF Of
  <2> QED BY <1>3, InOrderHolds, NoAttrsType
<1> HIDE DEF r0
<1>5. /\ r1 \in AttrMap
      /\ Holds(r1, key, Set(1) # {} \/ key \in DOMAIN r0,
               IF Set(1) # {} THEN rules[Max(Set(1))].props[key] ELSE r0[key])
  <2> HIDE DEF Of
  <2> QED BY <1>3, <1>4, InOrderHolds
<1> HIDE DEF r1
<1>6. /\ r2 \in AttrMap
      /\ Holds(r2, key, Set(2) # {} \/ key \in DOMAIN r1,
               IF Set(2) # {} THEN rules[Max(Set(2))].props[key] ELSE r1[key])
  <2> HIDE DEF Of
  <2> QED BY <1>3, <1>5, InOrderHolds
<1> HIDE DEF r2
<1>7. /\ \A k \in D : Sp(k) \in {0, 1, 2} /\ k \in Set(Sp(k)) /\ k \in Nat
      /\ \A s : \A k \in Set(s) : k \in D /\ Sp(k) = s
  <2>1. ASSUME NEW k \in D PROVE Sp(k) \in {0, 1, 2} /\ k \in Set(Sp(k)) /\ k \in Nat
    <3>1. k \in All /\ k \in 1..Len(rules)
      BY <1>1
    <3>2. Sp(k) \in {0, 1, 2} /\ k \in Nat
      <4>1. Sp(k) \in {0, 1, 2}
        BY <1>1, <3>1
      <4>2. k \in Nat
        BY <1>1, <3>1, ThreeOrdered
      <4> QED BY <4>1, <4>2
    <3>3. key \in DOMAIN rules[k].props
      OBVIOUS
    <3>4. k \in Set(Sp(k))
      BY <3>1, <3>3
    <3> QED BY <3>2, <3>4
  <2>2. \A s : \A k \in Set(s) : k \in D /\ Sp(k) = s
    OBVIOUS
  <2> HIDE DEF Set, D
  <2> QED BY <2>1, <2>2
<1>8. ASSUME NEW s \in {0, 1, 2}, Set(s) # {}
      PROVE  Max(Set(s)) \in Set(s) /\ \A k \in Set(s) : k <= Max(Set(s))
  <2>1. Set(s) \in SUBSET (1..Len(rules))
    BY <1>1
  <2> HIDE DEF Set
  <2> QED BY <1>1, <1>8, <2>1, GreatestNumber
<1> HIDE DEF Set, D
<1>9. key \in DOMAIN r2 <=> D # {}
  <2>1. key \notin DOMAIN NoAttrs
    BY NoAttrsType
  <2>2. key \in DOMAIN r2 <=> Set(0) # {} \/ Set(1) # {} \/ Set(2) # {}
    BY <1>4, <1>5, <1>6, <2>1 DEF Holds
  <2> QED BY <1>7, <2>2
<1>10. ASSUME NEW s \in {0, 1, 2}, Set(s) # {}, \A t \in {0, 1, 2} : t > s => Set(t) = {},
              r2[key] = rules[Max(Set(s))].props[key]
       PROVE  \E k \in D : /\ r2[key] = rules[k].props[key]
                           /\ \A j \in D \ {k} : Sp(j) < Sp(k) \/ (Sp(j) = Sp(k) /\ j < k)
  <2> DEFINE k == Max(Set(s))
  <2>1. k \in Set(s) /\ \A j \in Set(s) : j <= k
    BY <1>8, <1>10
  <2>2. r2[key] = rules[k].props[key]
    BY <1>10
  <2> HIDE DEF k
  <2>3. k \in D /\ Sp(k) = s /\ k \in Nat
    BY <1>7, <2>1
  <2>4. ASSUME NEW j \in D, j # k PROVE Sp(j) < Sp(k) \/ (Sp(j) = Sp(k) /\ j < k)
    <3>1. Sp(j) \in {0, 1, 2} /\ j \in Set(Sp(j)) /\ j \in Nat
      BY <1>7
    <3>2. ~(Sp(j) > s)
      BY <1>10, <3>1
    <3>3. CASE Sp(j) = s
      <4>1. j <= k
        BY <2>1, <3>1, <3>3
      <4>2. j < k
        BY <2>3, <2>4, <3>1, <4>1, ThreeOrdered
      <4> QED BY <2>3, <3>3, <4>2
    <3>4. CASE Sp(j) # s
      <4>1. Sp(j) < s
        BY <1>10, <3>1, <3>2, <3>4, ThreeOrdered
      <4> QED BY <2>3, <4>1
    <3> QED BY <3>3, <3>4
  <2> QED BY <2>2, <2>3, <2>4
<1>11. ASSUME D # {}
       PROVE  \E k \in D : /\ r2[key] = rules[k].props[key]
                           /\ \A j \in D \ {k} : Sp(j) < Sp(k) \/ (Sp(j) = Sp(k) /\ j < k)
  <2>1. CASE Set(2) # {}
    <3>1. r2[key] = rules[Max(Set(2))].props[key]
      BY <1>6, <2>1 DEF Holds
    <3>2. 2 \in {0, 1, 2} /\ \A t \in {0, 1, 2} : t > 2 => Set(t) = {}
      BY <2>1, ThreeOrdered
    <3> QED BY <1>10, <2>1, <3>1, <3>2
  <2>2. CASE Set(2) = {} /\ Set(1) # {}
    <3>1. r2[key] = rules[Max(Set(1))].props[key]
      BY <1>5, <1>6, <2>2 DEF Holds
    <3>2. 1 \in {0, 1, 2} /\ \A t \in {0, 1, 2} : t > 1 => Set(t) = {}
      BY <2>2, ThreeOrdered
    <3> QED BY <1>10, <2>2, <3>1, <3>2
  <2>3. CASE Set(2) = {} /\ Set(1) = {}
    <3>1. Set(0) # {}
      BY <1>7, <1>11, <2>3
    <3>2. r2[key] = rules[Max(Set(0))].props[key]
      BY <1>4, <1>5, <1>6, <2>3, <3>1 DEF Holds
    <3>3. 0 \in {0, 1, 2} /\ \A t \in {0, 1, 2} : t > 0 => Set(t) = {}
      BY <2>3, ThreeOrdered
    <3> QED BY <1>10, <2>3, <3>1, <3>2, <3>3
  <2> QED BY <2>1, <2>2, <2>3
<1> QED BY <1>2, <1>6, <1>9, <1>11 DEF D, All, Sp

\* The text of the stylesheet is one that the model knows.
SheetKnown == Get(graph.set, "model_stylesheet") \in DOMAIN Sheets \cup {""}

\* A graph statement names a stylesheet that there is (PrepareAssumption), and
\* no other statement names one.
LEMMA SheetKnownStep ==
    ASSUME ParserTyped, SheetKnown, Parse
    PROVE  SheetKnown'
<1>1. CASE Statement
  <2>1. PICK stmt \in Statements :
            \/ GraphAttrStmt(stmt) \/ DefaultsStmt(stmt)
            \/ OpenSubgraph(stmt) \/ CloseSubgraph(stmt)
            \/ NodeStmt(stmt) \/ EdgeStmt(stmt)
    BY <1>1 DEF Statement
  <2> DEFINE pairs == stmt.attrs
             At    == {k \in DOMAIN pairs : pairs[k][1] = "model_stylesheet"}
  <2>2. graph'.set = IF stmt.kind = "graph" THEN Merged(AttrList(pairs), graph.set) ELSE graph.set
    BY <2>1, SetChanges
  <2>3. pairs \in Seq(STRING \X STRING)
    BY ParserAssumption
  <2>4. Holds(AttrList(pairs), "model_stylesheet", At # {}, pairs[Max(At)][2])
    <3>1. At # {} <=> \E k \in DOMAIN pairs : pairs[k][1] = "model_stylesheet"
      OBVIOUS
    <3> HIDE DEF pairs
    <3> QED BY <2>3, <3>1, ListHolds
  <2>5. At # {} => pairs[Max(At)][2] \in DOMAIN Sheets \cup {""}
    <3>1. Len(pairs) \in Nat /\ At \in SUBSET (1..Len(pairs))
      BY <2>3, LenProperties
    <3>2. At # {} => Max(At) \in At
      <4> HIDE DEF At
      <4> QED BY <3>1, GreatestNumber
    <3>3. \A k \in At : pairs[k][2] \in DOMAIN Sheets \cup {""}
      BY PrepareAssumption
    <3> HIDE DEF At, pairs
    <3> QED BY <3>2, <3>3
  <2> HIDE DEF At, pairs
  <2> QED BY <2>2, <2>4, <2>5 DEF SheetKnown, Holds, Get, Merged
<1>2. CASE UnexpectedToken \/ EndOfDigraph
  BY <1>2 DEF UnexpectedToken, EndOfDigraph, SheetKnown
<1> QED BY <1>1, <1>2 DEF Parse

\* The stylesheet in use is a sequence of blocks.
LEMMA SheetType ==
    ASSUME SheetKnown
    PROVE  Sheet \in Seq(Blocks)
<1>1. CASE Get(graph.set, "model_stylesheet") = ""
  BY <1>1, EmptySeq DEF Sheet
<1>2. CASE Get(graph.set, "model_stylesheet") # ""
  <2>1. PICK v \in DOMAIN Sheets : v = graph.set["model_stylesheet"]
    BY <1>2 DEF SheetKnown, Get
  <2>2. Sheets[v] \in Seq(Blocks)
    BY PrepareAssumption DEF Blocks, Selectors
  <2> QED BY <1>2, <2>1, <2>2 DEF Sheet
<1> QED BY <1>1, <1>2

\* Once the stylesheet is applied, the attributes of every node are those it
\* was written with on top of what the rules say of it.
StyledGraph ==
    /\ SheetKnown
    /\ phase \in {"validate", "initialize", "ready"} =>
          /\ ~Malformed(Sheet)
          /\ graph.attrs = [n \in NodeIds(graph) |-> Styled(Rules(Sheet), n, parsed.attrs[n])]

\* The styled graph stays so to the end, and no step but the styling makes one.
LEMMA StyledGraphStep == Typed /\ StyledGraph /\ [Next]_vars => StyledGraph'
<1> SUFFICES ASSUME Typed, StyledGraph, [Next]_vars PROVE StyledGraph'
  OBVIOUS
<1>0. phase = "style" => graph \in Graph /\ graph = parsed
  BY DEF Typed
<1> USE DEF StyledGraph
<1>1. CASE ParsePipeline
  <2>1. SheetKnown'
    BY <1>1, SheetKnownStep DEF ParsePipeline, Typed, ParserTyped
  <2>2. phase' \in {"style", "failed", "parse"}
    BY <1>1 DEF ParsePipeline
  <2> QED BY <2>1, <2>2
<1>2. CASE ApplyStylesheet
  <2>1. CASE phase' = "failed" /\ UNCHANGED graph
    BY <2>1 DEF SheetKnown
  <2>2. CASE /\ ~Malformed(Sheet)
             /\ phase' = "validate"
             /\ graph' = [graph EXCEPT !.attrs =
                   [n \in NodeIds(graph) |-> Styled(Rules(Sheet), n, graph.attrs[n])]]
    <3> DEFINE styled == [n \in NodeIds(graph) |-> Styled(Rules(Sheet), n, graph.attrs[n])]
    <3>1. graph \in Graph /\ graph = parsed /\ parsed' = parsed
      BY <1>0, <1>2 DEF ApplyStylesheet
    <3>2. graph \in Graph /\ graph' = [graph EXCEPT !.attrs = styled]
      <4> HIDE DEF StyledGraph
      <4> QED BY <2>2, <3>1
    <3> HIDE DEF styled
    <3>3. graph'.attrs = styled /\ graph'.set = graph.set /\ graph'.nodes = graph.nodes
      BY <3>2 DEF Graph
    <3>4. Sheet' = Sheet
      BY <3>3 DEF Sheet
    <3>5. NodeIds(graph)' = NodeIds(graph)
      BY <3>3 DEF NodeIds
    <3>6. styled = [n \in NodeIds(graph) |-> Styled(Rules(Sheet), n, parsed.attrs[n])]
      BY <3>1 DEF styled
    <3>7. Rules(Sheet)' = Rules(Sheet) /\ (Malformed(Sheet)' <=> Malformed(Sheet))
      <4>1. Rules(Sheet)' = Rules(Sheet)
        BY <3>4 DEF Rules
      <4>2. Malformed(Sheet)' <=> Malformed(Sheet)
        BY <3>4 DEF Malformed
      <4> QED BY <4>1, <4>2
    <3>8. [n \in NodeIds(graph) |-> Styled(Rules(Sheet), n, parsed.attrs[n])]'
           = [n \in NodeIds(graph) |-> Styled(Rules(Sheet), n, parsed.attrs[n])]
      <4>1. \A n : Styled(Rules(Sheet), n, parsed.attrs[n])' = Styled(Rules(Sheet), n, parsed.attrs[n])
        BY <3>1, <3>7 DEF Styled
      <4> QED BY <3>5, <4>1
    <3>9. SheetKnown'
      BY <3>3 DEF SheetKnown
    <3> QED BY <2>2, <3>3, <3>6, <3>7, <3>8, <3>9
  <2> QED BY <1>2, <2>1, <2>2 DEF ApplyStylesheet
<1>3. CASE Validate \/ Initialize \/ UNCHANGED vars
  <2>1. graph' = graph /\ parsed' = parsed
    BY <1>3 DEF Validate, Initialize, vars, parserVars
  <2>2. phase' \in {"validate", "initialize", "ready"}
           => phase \in {"validate", "initialize", "ready"}
    BY <1>3 DEF Validate, Initialize, vars
  <2>3. SheetKnown' /\ Sheet' = Sheet
    BY <2>1 DEF SheetKnown, Sheet
  <2>4. Rules(Sheet)' = Rules(Sheet) /\ (Malformed(Sheet)' <=> Malformed(Sheet))
    <3>1. Rules(Sheet)' = Rules(Sheet)
      BY <2>3 DEF Rules
    <3>2. Malformed(Sheet)' <=> Malformed(Sheet)
      BY <2>3 DEF Malformed
    <3> QED BY <3>1, <3>2
  <2>5. [n \in NodeIds(graph) |-> Styled(Rules(Sheet), n, parsed.attrs[n])]'
         = [n \in NodeIds(graph) |-> Styled(Rules(Sheet), n, parsed.attrs[n])]
    <3>1. \A n : Styled(Rules(Sheet), n, parsed.attrs[n])' = Styled(Rules(Sheet), n, parsed.attrs[n])
      BY <2>1, <2>4 DEF Styled
    <3>2. NodeIds(graph)' = NodeIds(graph)
      BY <2>1 DEF NodeIds
    <3> QED BY <3>1, <3>2
  <2> QED BY <2>1, <2>2, <2>3, <2>4, <2>5
<1> QED BY <1>1, <1>2, <1>3 DEF Next

\* Whatever the stylesheet and whatever the nodes say themselves: what a node
\* is given comes from the most specific rule that matches it, the last of
\* these if there are several, and what it says itself stays (style/
\* stylesheet.go, ParseStylesheet, Resolve, Apply).
THEOREM StyledBySpecificity == Spec => []StyleResolved
<1>1. Init => StyledGraph
  <2> SUFFICES ASSUME Init PROVE StyledGraph
    OBVIOUS
  <2>1. graph.set = NoAttrs /\ phase = "parse"
    BY DEF Init, ParserInit
  <2>2. Get(graph.set, "model_stylesheet") = ""
    BY <2>1, NoAttrsType DEF Get
  <2> QED BY <2>1, <2>2 DEF StyledGraph, SheetKnown
<1>2. Typed /\ StyledGraph => StyleResolved
  <2> SUFFICES ASSUME Typed, StyledGraph, phase \in {"validate", "initialize", "ready"},
                      NEW n \in NodeIds(graph)
               PROVE  /\ \A key \in DOMAIN parsed.attrs[n] :
                          graph.attrs[n][key] = parsed.attrs[n][key]
                      /\ \A key \in DOMAIN graph.attrs[n] \ DOMAIN parsed.attrs[n] :
                          \E k \in Deciding(n, key) :
                              /\ graph.attrs[n][key] = Rules(Sheet)[k].props[key]
                              /\ \A j \in Deciding(n, key) \ {k} :
                                  LET s == Specificity(Rules(Sheet)[j].selector)
                                      t == Specificity(Rules(Sheet)[k].selector)
                                  IN  s < t \/ (s = t /\ j < k)
                      /\ \A key \in UNION {DOMAIN Rules(Sheet)[k].props :
                                            k \in DOMAIN Rules(Sheet)} :
                          Deciding(n, key) # {} => key \in DOMAIN graph.attrs[n]
    BY DEF StyleResolved
  <2> DEFINE rules == Rules(Sheet)
             own   == parsed.attrs[n]
             given == Resolve(rules, n, own)
  <2>1. /\ rules \in Seq(SheetRule)
        /\ \A k \in DOMAIN rules : rules[k].selector.type # ""
    BY SheetType, RulesType DEF StyledGraph
  <2>2. graph.attrs[n] = Merged(own, given)
    BY DEF StyledGraph, Styled
  <2> HIDE DEF rules
  <2>3. ASSUME NEW key
        PROVE  /\ key \in DOMAIN given <=> Deciding(n, key) # {}
               /\ Deciding(n, key) # {} => \E k \in Deciding(n, key) :
                     /\ given[key] = rules[k].props[key]
                     /\ \A j \in Deciding(n, key) \ {k} :
                           LET s == Specificity(rules[j].selector)
                               t == Specificity(rules[k].selector)
                           IN  s < t \/ (s = t /\ j < k)
    <3> DEFINE D == {k \in MatchingRules(rules, n, own) : key \in DOMAIN rules[k].props}
    <3>1. Deciding(n, key) = D
      BY DEF Deciding, rules
    <3>2. /\ key \in DOMAIN given <=> D # {}
          /\ D # {} => \E k \in D :
                /\ given[key] = rules[k].props[key]
                /\ \A j \in D \ {k} :
                      LET s == Specificity(rules[j].selector)
                          t == Specificity(rules[k].selector)
                      IN  s < t \/ (s = t /\ j < k)
      <4> HIDE DEF own
      <4> QED BY <2>1, Cascade
    <3> HIDE DEF D, given, own
    <3> QED BY <3>1, <3>2
  <2> HIDE DEF given, own
  <2>4. \A key \in DOMAIN own : graph.attrs[n][key] = own[key]
    BY <2>2 DEF Merged
  <2>5. /\ DOMAIN graph.attrs[n] = DOMAIN own \cup DOMAIN given
        /\ \A key \in DOMAIN graph.attrs[n] \ DOMAIN own : graph.attrs[n][key] = given[key]
    BY <2>2 DEF Merged
  <2>6. ASSUME NEW key \in DOMAIN graph.attrs[n] \ DOMAIN own
        PROVE  \E k \in Deciding(n, key) :
                   /\ graph.attrs[n][key] = rules[k].props[key]
                   /\ \A j \in Deciding(n, key) \ {k} :
                         LET s == Specificity(rules[j].selector)
                             t == Specificity(rules[k].selector)
                         IN  s < t \/ (s = t /\ j < k)
    <3>1. key \in DOMAIN given /\ graph.attrs[n][key] = given[key]
      BY <2>5, <2>6
    <3> QED BY <2>3, <3>1
  <2>7. \A key : Deciding(n, key) # {} => key \in DOMAIN graph.attrs[n]
    BY <2>3, <2>5
  <2> QED BY <2>4, <2>6, <2>7 DEF rules, own
<1> QED BY <1>1, <1>2, StyledGraphStep, PrepareTyped, PTL DEF Spec

-----------------------------------------------------------------------------
(***************************************************************************)
(* What validation lets pass.                                              *)
(***************************************************************************)

\* A set of one element is not empty.
LEMMA OneElement ==
    ASSUME NEW S, Cardinality(S) = 1
    PROVE  S # {}
BY FS_EmptySet

\* A graph with one start node starts there.
LEMMA OneStart ==
    ASSUME NEW g, g.nodes \in Seq(STRING), Cardinality(Starts(g)) = 1
    PROVE  Start(g) \in Starts(g) /\ Starts(g) = {Start(g)}
<1> DEFINE at == {i \in DOMAIN g.nodes : g.nodes[i] \in Starts(g)}
<1>1. Starts(g) # {} /\ IsFiniteSet(Starts(g))
  <2>1. Starts(g) # {}
    BY OneElement
  <2>2. IsFiniteSet(Starts(g))
    <3>1. g.nodes \in [1..Len(g.nodes) -> STRING] /\ Len(g.nodes) \in Nat
      BY LenProperties
    <3>2. g.nodes \in Surjection(1..Len(g.nodes), ToSet(g.nodes))
      BY <3>1 DEF Surjection, ToSet
    <3>3. IsFiniteSet(1..Len(g.nodes))
      BY <3>1, FS_Interval
    <3>4. IsFiniteSet(ToSet(g.nodes))
      BY <3>2, <3>3, FS_Surjection
    <3> QED BY <3>4, FS_Subset DEF Starts, Shaped, NodeIds
  <2> QED BY <2>1, <2>2
<1>2. \E s : Starts(g) = {s}
  BY <1>1, FS_Singleton
<1>3. at \in SUBSET Nat /\ at # {}
  BY <1>1 DEF Starts, Shaped, NodeIds, ToSet
<1> HIDE DEF at
<1>4. PICK i \in at : \A j \in at : i <= j
  BY <1>3, LeastNumber
<1>5. Min(at) \in at
  BY <1>4 DEF Min
<1>6. Start(g) \in Starts(g)
  BY <1>5 DEF Start, at
<1> QED BY <1>2, <1>6

\* The rules with severity error leave a graph of which everything holds that
\* the engine's model assumes; that it is one connected walk from the start is
\* what the rule finds out by walking.
LEMMA ValidatedGraph ==
    ASSUME Typed, Errors(graph) = {}
    PROVE  /\ Pipeline!GraphAssumption
           /\ \A e \in DOMAIN graph.edges :
                 Get(graph.edges[e].attrs, "condition") \notin MalformedConditions
<1> DEFINE g == graph
<1>1. /\ startNodeRule(g) /\ terminalNodeRule(g) /\ startNoIncomingRule(g) /\ reachabilityRule(g)
      /\ exitNoOutgoingRule(g) /\ edgeTargetExistsRule(g) /\ conditionSyntaxRule(g)
  BY DEF Errors
<1>2. /\ g.nodes \in Seq(STRING) /\ DOMAIN g.nodes = 1..Len(g.nodes) /\ Len(g.nodes) \in Nat
      /\ \A i, j \in DOMAIN g.nodes : g.nodes[i] = g.nodes[j] => i = j
      /\ g.edges \in Seq([from : STRING, to : STRING, attrs : AttrMap])
      /\ DOMAIN g.edges = 1..Len(g.edges) /\ Len(g.edges) \in Nat
  BY LenProperties DEF Typed, Graph, Once, IsInjective
<1>3. Pipeline!Node = NodeIds(g)
  BY DEF Pipeline!Node, NodeIds, ToSet
<1>4. /\ Pipeline!StartNodes = Starts(g)
      /\ Pipeline!ExitNodes = Exits(g)
  BY <1>3 DEF Pipeline!StartNodes, Pipeline!ExitNodes, Starts, Exits, Shaped, EngineAttr
<1>5. Start(g) \in Starts(g) /\ Starts(g) = {Start(g)}
  BY <1>1, <1>2, OneStart DEF startNodeRule
<1>6. Pipeline!WellFormed
  <2>1. Unset \notin Pipeline!Node /\ Unset \notin Int
    <3>1. Unset \notin STRING /\ Unset \notin Int
      BY PrepareAssumption
    <3> QED BY <1>2, <1>3, <3>1 DEF NodeIds, ToSet
  <2>2. \A b : IsTrue(b) \in BOOLEAN
    BY DEF IsTrue
  <2> QED BY <1>2, <1>3, <2>1, <2>2 DEF Pipeline!WellFormed, EngineAttr
<1>7. Pipeline!EdgeTargetExists
  BY <1>1, <1>2, <1>3 DEF Pipeline!EdgeTargetExists, edgeTargetExistsRule
<1>8. Pipeline!StartNodeRule /\ Pipeline!TerminalNode
  <2>1. Cardinality(Starts(g)) = 1 /\ Exits(g) # {}
    BY <1>1 DEF startNodeRule, terminalNodeRule
  <2>2. Cardinality(Pipeline!StartNodes) = 1
    BY <1>4, <2>1, Zenon
  <2>3. Pipeline!StartNodeRule
    BY <2>2 DEF Pipeline!StartNodeRule, Cardinality, Pipeline!Cardinality
  <2> QED BY <1>4, <2>1, <2>3 DEF Pipeline!TerminalNode
<1>9. Pipeline!StartNoIncoming
  BY <1>1, <1>2, <1>4, <1>5 DEF Pipeline!StartNoIncoming, Pipeline!InEdges, startNoIncomingRule, To
<1>10. Pipeline!ExitNoOutgoing
  BY <1>1, <1>2, <1>4 DEF Pipeline!ExitNoOutgoing, Pipeline!OutEdges, exitNoOutgoingRule, From
<1>11. Pipeline!Reachability
  <2> SUFFICES ASSUME NEW S \in SUBSET NodeIds(g), Starts(g) \subseteq S,
                      \A e \in DOMAIN g.edges : g.edges[e].from \in S => g.edges[e].to \in S
               PROVE  S = NodeIds(g)
    BY <1>2, <1>3, <1>4 DEF Pipeline!Reachability
  <2>1. Walk(g) \subseteq S
    BY <1>2, <1>5, WalkStays
  <2>2. NodeIds(g) \subseteq Walk(g)
    BY <1>1, <1>5 DEF reachabilityRule
  <2> QED BY <2>1, <2>2
<1>12. Pipeline!GraphAssumption
  BY <1>6, <1>7, <1>8, <1>9, <1>10, <1>11 DEF Pipeline!GraphAssumption
<1> QED BY <1>1, <1>12 DEF conditionSyntaxRule

Validated == phase \in {"initialize", "ready"} => Errors(graph) = {}

\* Whatever text a pipeline comes from and however it is styled: once Prepare
\* lets it pass it is a graph the theorems about the engine hold for, for it
\* is all that they assume, and every condition can be evaluated (engine.go,
\* Prepare; validate/rules.go).
THEOREM PreparedForTheEngine == Spec => []PreparedIsValid
<1>1. Init => Validated
  BY DEF Init, Validated
<1>2. Validated /\ [Next]_vars => Validated'
  <2> SUFFICES ASSUME Validated, [Next]_vars PROVE Validated'
    OBVIOUS
  <2> USE DEF Validated
  <2>1. CASE ParsePipeline
    <3>1. phase' \in {"style", "failed", "parse"}
      BY <2>1 DEF ParsePipeline
    <3> QED BY <3>1
  <2>2. CASE ApplyStylesheet
    BY <2>2 DEF ApplyStylesheet
  <2>3. CASE Validate
    <3>1. UNCHANGED graph
      BY <2>3 DEF Validate, parserVars
    <3>2. Errors(graph)' = Errors(graph)
      BY <3>1 DEF Errors, startNodeRule, terminalNodeRule, startNoIncomingRule, reachabilityRule,
                  exitNoOutgoingRule, edgeTargetExistsRule, conditionSyntaxRule, Starts, Exits,
                  Shaped, NodeIds, To, From, Start, Walk
    <3> QED BY <2>3, <3>2 DEF Validate
  <2>4. CASE Initialize \/ UNCHANGED vars
    BY <2>4 DEF Initialize, vars, parserVars
  <2> QED BY <2>1, <2>2, <2>3, <2>4 DEF Next
<1>3. Typed /\ Validated => PreparedIsValid
  BY ValidatedGraph DEF Validated, PreparedIsValid
<1> QED BY <1>1, <1>2, <1>3, PrepareTyped, PTL DEF Spec
=============================================================================

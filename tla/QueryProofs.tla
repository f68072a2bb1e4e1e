---------------------------- MODULE QueryProofs -----------------------------
(***************************************************************************)
(* Theorems about QuerySets and CursorWalk.                                *)
(*                                                                         *)
(* QuerySets: a predicate of any depth over any lookups that cross at most *)
(* one relationship, on tables of any size.  What TLA+ defines by          *)
(* recursion over such a tree is unfolded once, in Recursion, and every    *)
(* other fact about trees is an induction over their levels.               *)
(*                                                                         *)
(* CursorWalk: NoRowTwice, NoRowLost and FlagsHonest, for tables of any    *)
(* size, all orders and page sizes, and any number of changes between the  *)
(* pages.                                                                  *)
(***************************************************************************)
EXTENDS QuerySets, CursorWalk, TLAPS, FiniteSetTheorems, FunctionTheorems, SequenceTheorems,
        NaturalsInduction, WellFoundedInduction

(* A set of numbers that is not empty has a least one. *)
LEMMA Smallest ==
    ASSUME NEW T \in SUBSET Nat, T # {}
    PROVE  \E x \in T : \A y \in T : x <= y
<1>1. PICK x \in T : \A y \in T : ~(<<y, x>> \in OpToRel(<, Nat))
  BY NatLessThanWellFounded, WFMin
<1>2. ASSUME NEW y \in T PROVE x <= y
  <2>1. x \in Nat /\ y \in Nat
    OBVIOUS
  <2>2. ~(y < x)
    BY <1>1, <2>1 DEF OpToRel
  <2>3. QED
    BY <2>1, <2>2
<1>3. QED
  BY <1>2

(* Induction up to N, for a set instead of a predicate. *)
LEMMA Induct ==
    ASSUME NEW N \in Nat, NEW P, 0 \in P, \A i \in 1..N : i - 1 \in P => i \in P
    PROVE  \A i \in 0..N : i \in P
<1> DEFINE Rest == (0..N) \ P
<1>1. CASE Rest # {}
  <2>1. Rest \in SUBSET Nat
    OBVIOUS
  <2> HIDE DEF Rest
  <2>2. PICK x \in Rest : \A y \in Rest : x <= y
    BY <1>1, <2>1, Smallest
  <2> USE DEF Rest
  <2>3. x \in 1..N
    BY <2>2
  <2>4. x - 1 \in P
    BY <2>2, <2>3
  <2>5. QED
    BY <2>2, <2>3, <2>4
<1>2. QED
  BY <1>1

-----------------------------------------------------------------------------
(* Trees of lookups.                                                       *)

(* A lookup is a leaf. *)
LEMMA LeafIs == ASSUME NEW leaf \in Leaves PROVE IsLeaf(leaf)
  BY QuerySetAssumption DEF QuerySetAssumption, IsLeaf

(* Trees of n levels have lookups, and trees of n - 1 levels, as children. *)
LEMMA TreesIs ==
    /\ Levels \in Nat /\ Levels >= 1 /\ Trees[0] = {}
    /\ \A n \in 1..Levels :
          Trees[n] = [children : Seq(Leaves \cup Trees[n - 1]), conn : {"AND", "OR"},
                      negated : BOOLEAN]
<1> DEFINE Step(T) == [children : Seq(Leaves \cup T), conn : {"AND", "OR"}, negated : BOOLEAN]
           Fix(f, n) == f = [i \in 0..n |-> IF i = 0 THEN {} ELSE Step(f[i - 1])]
           Determined(n) == \E f : Fix(f, n)
           P == {n \in 0..Levels : Determined(n)}
<1>a. Levels \in Nat /\ Levels >= 1
  BY QuerySetAssumption DEF QuerySetAssumption, Levels
<1> HIDE DEF Step
<1>1. Determined(0)
  <2>1. Fix([i \in 0..0 |-> {}], 0)
    OBVIOUS
  <2>2. QED
    BY <2>1
<1>2. ASSUME NEW n \in 1..Levels, Determined(n - 1) PROVE Determined(n)
  <2>1. PICK e : Fix(e, n - 1)
    BY <1>2
  <2> DEFINE f == [i \in 0..n |-> IF i = n THEN Step(e[n - 1]) ELSE e[i]]
  <2>a. n \in Nat /\ n # 0
    BY <1>a
  <2>d. \A j \in 0..(n - 1) : e[j] = IF j = 0 THEN {} ELSE Step(e[j - 1])
    BY <2>1
  <2>b. f[n] = Step(e[n - 1]) /\ n \in 0..n /\ n - 1 \in 0..n /\ n - 1 # n
    BY <2>a
  <2>c. \A i \in 0..n : i # n => f[i] = e[i]
    OBVIOUS
  <2>3. f = [i \in 0..n |-> f[i]]
    OBVIOUS
  <2> HIDE DEF f
  <2>2. \A i \in 0..n : f[i] = IF i = 0 THEN {} ELSE Step(f[i - 1])
    <3> SUFFICES ASSUME NEW i \in 0..n PROVE f[i] = IF i = 0 THEN {} ELSE Step(f[i - 1])
      OBVIOUS
    <3>1. CASE i = 0
      <4>1. i \in 0..(n - 1) /\ i # n /\ e[i] = {}
        BY <2>1, <2>a, <3>1
      <4>2. QED
        BY <2>c, <3>1, <4>1
    <3>2. CASE i # 0 /\ i # n
      <4>a. i \in 0..(n - 1) /\ i - 1 \in 0..n /\ i - 1 # n
        BY <2>a, <3>2
      <4>1. e[i] = Step(e[i - 1])
        BY <2>d, <3>2, <4>a
      <4>2. f[i] = e[i] /\ f[i - 1] = e[i - 1]
        BY <2>c, <3>2, <4>a
      <4>3. i # 0
        BY <3>2
      <4> HIDE DEF Step
      <4>4. QED
        BY <4>1, <4>2, <4>3
    <3>3. CASE i = n
      BY <2>a, <2>b, <2>c, <3>3
    <3>4. QED
      BY <3>1, <3>2, <3>3
  <2>4. Fix(f, n)
    BY <2>2, <2>3
  <2>5. QED
    BY <2>4
<1> HIDE DEF Determined
<1>3. 0 \in P /\ \A i \in 1..Levels : i - 1 \in P => i \in P
  BY <1>a, <1>1, <1>2
<1> HIDE DEF P
<1>4. \A i \in 0..Levels : i \in P
  BY <1>a, <1>3, Induct
<1>5. Determined(Levels)
  BY <1>a, <1>4 DEF P
<1>6. Fix(Trees, Levels)
  <2>1. \E f : Fix(f, Levels)
    BY <1>5 DEF Determined
  <2> DEFINE w == CHOOSE f : Fix(f, Levels)
  <2>2. Trees = w
    BY DEF Trees, Step
  <2>3. Fix(w, Levels)
    <3> HIDE DEF Fix
    <3>1. QED
      BY <2>1
  <2> HIDE DEF w
  <2>4. QED
    BY <2>2, <2>3
<1>7. \A i \in 0..Levels : Trees[i] = IF i = 0 THEN {} ELSE Step(Trees[i - 1])
  BY <1>6
<1>8. Trees[0] = {}
  BY <1>a, <1>7
<1>9. \A n \in 1..Levels : Trees[n] = Step(Trees[n - 1])
  BY <1>a, <1>7
<1>10. QED
  BY <1>a, <1>8, <1>9 DEF Step

(* A tree of n levels is one of more. *)
LEMMA TreesGrow ==
    \A n \in 0..Levels : Trees[n] \subseteq Predicate /\ (n > 0 => Trees[n - 1] \subseteq Trees[n])
<1> DEFINE P == {n \in 0..Levels : n > 0 => Trees[n - 1] \subseteq Trees[n]}
<1>1. Levels \in Nat /\ Levels >= 1
  BY TreesIs
<1>2. 0 \in P
  BY <1>1
<1>3. ASSUME NEW n \in 1..Levels, n - 1 \in P PROVE n \in P
  <2>1. CASE n = 1
    BY <2>1, TreesIs
  <2>2. CASE n # 1
    <3>1. /\ n - 1 \in 1..Levels /\ Trees[n - 1 - 1] \subseteq Trees[n - 1]
      BY <1>3, <2>2
    <3>2. Seq(Leaves \cup Trees[n - 1 - 1]) \subseteq Seq(Leaves \cup Trees[n - 1])
      BY <3>1
    <3>3. /\ Trees[n] = [children : Seq(Leaves \cup Trees[n - 1]), conn : {"AND", "OR"},
                        negated : BOOLEAN]
          /\ Trees[n - 1] = [children : Seq(Leaves \cup Trees[n - 1 - 1]), conn : {"AND", "OR"},
                            negated : BOOLEAN]
      BY <3>1, TreesIs
    <3>4. \A t \in Trees[n - 1] : t \in Trees[n]
      <4> DEFINE S == Seq(Leaves \cup Trees[n - 1 - 1])
                 R == Seq(Leaves \cup Trees[n - 1])
      <4>1. S \subseteq R
        BY <3>2
      <4>2. /\ Trees[n] = [children : R, conn : {"AND", "OR"}, negated : BOOLEAN]
            /\ Trees[n - 1] = [children : S, conn : {"AND", "OR"}, negated : BOOLEAN]
        BY <3>3
      <4> HIDE DEF S, R
      <4>3. QED
        BY <4>1, <4>2
    <3>5. QED
      BY <3>4
  <2>3. QED
    BY <2>1, <2>2
<1> HIDE DEF P
<1>4. \A n \in 0..Levels : n \in P
  BY <1>1, <1>2, <1>3, Induct
<1>5. \A n \in 1..Levels : Trees[n - 1] \subseteq Trees[n]
  BY <1>4 DEF P
<1> DEFINE R == {n \in 0..Levels : Trees[Levels - n] \subseteq Predicate}
<1>6. 0 \in R
  BY <1>1 DEF Predicate
<1>7. ASSUME NEW n \in 1..Levels, n - 1 \in R PROVE n \in R
  <2>1. /\ Levels - (n - 1) \in 1..Levels /\ Levels - (n - 1) - 1 = Levels - n
        /\ Trees[Levels - (n - 1)] \subseteq Predicate
    BY <1>1, <1>7
  <2>2. Trees[Levels - n] \subseteq Trees[Levels - (n - 1)]
    BY <1>5, <2>1
  <2>3. QED
    BY <2>1, <2>2
<1> HIDE DEF R
<1>8. \A n \in 0..Levels : n \in R
  BY <1>1, <1>6, <1>7, Induct
<1>9. ASSUME NEW n \in 0..Levels PROVE Trees[n] \subseteq Predicate
  <2>1. Levels - n \in 0..Levels /\ Levels - (Levels - n) = n
    BY <1>1
  <2>2. QED
    BY <1>8, <2>1 DEF R
<1>10. QED
  BY <1>5, <1>9

(* What a tree is. *)
LEMMA TreeIs ==
    ASSUME NEW n \in 1..Levels, NEW t \in Trees[n]
    PROVE  /\ t \in Predicate /\ ~IsLeaf(t)
           /\ t = Node(t.children, t.conn, t.negated)
           /\ t.conn \in {"AND", "OR"} /\ t.negated \in BOOLEAN
           /\ t.children \in Seq(Leaves \cup Trees[n - 1])
           /\ Len(t.children) \in Nat /\ DOMAIN t.children = 1..Len(t.children)
           /\ \A i \in DOMAIN t.children :
                 \/ t.children[i] \in Leaves /\ IsLeaf(t.children[i])
                 \/ t.children[i] \in Trees[n - 1] /\ ~IsLeaf(t.children[i])
<1>1. \A m \in 0..Levels : \A s \in Trees[m] : ~IsLeaf(s)
  <2> SUFFICES ASSUME NEW m \in 0..Levels, NEW s \in Trees[m] PROVE ~IsLeaf(s)
    OBVIOUS
  <2>1. m \in 1..Levels
    BY TreesIs
  <2>2. s \in [children : Seq(Leaves \cup Trees[m - 1]), conn : {"AND", "OR"}, negated : BOOLEAN]
    BY <2>1, TreesIs
  <2>3. "op" \notin DOMAIN s
    BY <2>2
  <2>4. QED
    BY <2>3 DEF IsLeaf
<1>2. t \in [children : Seq(Leaves \cup Trees[n - 1]), conn : {"AND", "OR"}, negated : BOOLEAN]
  BY TreesIs
<1>3. /\ t = Node(t.children, t.conn, t.negated)
      /\ t.conn \in {"AND", "OR"} /\ t.negated \in BOOLEAN
      /\ t.children \in Seq(Leaves \cup Trees[n - 1])
  BY <1>2 DEF Node
<1>4. /\ Len(t.children) \in Nat /\ DOMAIN t.children = 1..Len(t.children)
      /\ \A i \in DOMAIN t.children : t.children[i] \in Leaves \cup Trees[n - 1]
  BY <1>3
<1>5. n \in 0..Levels /\ n - 1 \in 0..Levels
  BY TreesIs
<1>6. QED
  BY <1>1, <1>3, <1>4, <1>5, LeafIs, TreesGrow

(* What recursion over a tree needs to know of its children. *)
Layered(T, N) ==
    /\ T[0] = {}
    /\ \A n \in 1..N :
          /\ T[n - 1] \subseteq T[n]
          /\ \A t \in T[n] :
                /\ t.children \in Seq(Leaves \cup T[n - 1])
                /\ \A i \in DOMAIN t.children :
                      \/ t.children[i] \in Leaves /\ IsLeaf(t.children[i])
                      \/ t.children[i] \in T[n - 1] /\ ~IsLeaf(t.children[i])

(* The lookups of a node, and what f makes of its other children. *)
Kids(f, t) ==
    [i \in DOMAIN t.children |->
        IF IsLeaf(t.children[i]) THEN t.children[i] ELSE f[t.children[i]]]

(* Trees of lookups are layered. *)
LEMMA TreesLayered == Layered(Trees, Levels)
<1>1. Trees[0] = {}
  BY TreesIs
<1>2. ASSUME NEW n \in 1..Levels
      PROVE  /\ Trees[n - 1] \subseteq Trees[n]
             /\ \A t \in Trees[n] :
                /\ t.children \in Seq(Leaves \cup Trees[n - 1])
                /\ \A i \in DOMAIN t.children :
                      \/ t.children[i] \in Leaves /\ IsLeaf(t.children[i])
                      \/ t.children[i] \in Trees[n - 1] /\ ~IsLeaf(t.children[i])
  <2>1. n \in 0..Levels /\ n > 0
    BY TreesIs
  <2>2. QED
    BY <2>1, TreesGrow, TreeIs
<1>3. QED
  BY <1>1, <1>2 DEF Layered

(* The nodes of a layer are in the last one. *)
LEMMA LayeredGrows ==
    ASSUME NEW N \in Nat, NEW T, Layered(T, N)
    PROVE  \A n \in 0..N : T[n] \subseteq T[N]
<1> DEFINE U == {n \in 0..N : T[N - n] \subseteq T[N]}
<1>1. 0 \in U
  OBVIOUS
<1>2. ASSUME NEW n \in 1..N, n - 1 \in U PROVE n \in U
  <2>1. N - (n - 1) \in 1..N /\ N - (n - 1) - 1 = N - n /\ T[N - (n - 1)] \subseteq T[N]
    BY <1>2
  <2>2. T[N - (n - 1) - 1] \subseteq T[N - (n - 1)]
    BY <2>1 DEF Layered
  <2>3. QED
    BY <2>1, <2>2
<1> HIDE DEF U
<1>3. \A n \in 0..N : n \in U
  BY <1>1, <1>2, Induct
<1>4. ASSUME NEW n \in 0..N PROVE T[n] \subseteq T[N]
  <2>1. N - n \in 0..N /\ N - (N - n) = n
    OBVIOUS
  <2>2. QED
    BY <1>3, <2>1 DEF U
<1>5. QED
  BY <1>4

(* A set that has every node whose subtrees it has has all of them. *)
LEMMA LayeredInduction ==
    ASSUME NEW N \in Nat, NEW T, Layered(T, N), NEW P,
           \A t \in T[N] :
              (\A i \in DOMAIN t.children : ~IsLeaf(t.children[i]) => t.children[i] \in P)
              => t \in P
    PROVE  T[N] \subseteq P
<1> DEFINE R == {n \in 0..N : T[n] \subseteq P}
<1>5. 0 \in R
  BY DEF Layered
<1>6. ASSUME NEW n \in 1..N, n - 1 \in R PROVE n \in R
  <2>1. T[n - 1] \subseteq P /\ n \in 0..N
    BY <1>6
  <2>2. ASSUME NEW t \in T[n] PROVE t \in P
    <3>1. \A i \in DOMAIN t.children : ~IsLeaf(t.children[i]) => t.children[i] \in T[n - 1]
      BY DEF Layered
    <3>2. QED
      BY <2>1, <3>1, LayeredGrows
  <2>3. QED
    BY <2>1, <2>2
<1> HIDE DEF R
<1>7. \A n \in 0..N : n \in R
  BY <1>5, <1>6, Induct
<1>8. QED
  BY <1>7 DEF R

(* G says what a node is, given what its children are: values of V.        *)
Says(G, T, N, V) ==
    \A n \in 1..N : \A t \in T[n] : \A k \in Seq(Leaves \cup V[n - 1]) :
        DOMAIN k = DOMAIN t.children
        /\ (\A i \in DOMAIN k : IF IsLeaf(t.children[i]) THEN k[i] = t.children[i]
                                ELSE k[i] \in V[n - 1])
        => G[<<t, k>>] \in V[n]

(* The one function that agrees with G. *)
Agrees(f, G, T, N, V) ==
    \A n \in 1..N : \A t \in T[n] :
        /\ t \in T[N]
        /\ f[t] = G[<<t, Kids(f, t)>>] /\ f[t] \in V[n]
        /\ Kids(f, t) \in Seq(Leaves \cup V[n - 1])

Only1(f, T, N) ==
    \A g : (\A t \in T[N] : Kids(g, t) = Kids(f, t) => g[t] = f[t])
           => \A t \in T[N] : g[t] = f[t]

(* What is said of a node, when it has been said of its children, defines  *)
(* one function, and the values of the nodes of layer n are in V[n].       *)
LEMMA Recursion ==
    ASSUME NEW N \in Nat, NEW T, Layered(T, N), NEW V, NEW G, Says(G, T, N, V)
    PROVE  \E f : f = [t \in T[N] |-> f[t]] /\ Agrees(f, G, T, N, V) /\ Only1(f, T, N)
<1> DEFINE Good(f, n) ==
              /\ f = [t \in T[n] |-> f[t]]
              /\ \A m \in 1..n : \A t \in T[m] :
                    /\ t \in T[n]
                    /\ f[t] = G[<<t, Kids(f, t)>>] /\ f[t] \in V[m]
                    /\ Kids(f, t) \in Seq(Leaves \cup V[m - 1])
           P == {n \in 0..N : \E f : Good(f, n)}
<1>1. 0 \in P
  <2>1. Good([t \in T[0] |-> 0], 0)
    BY DEF Layered
  <2> HIDE DEF Good
  <2>2. QED
    BY <2>1
<1>2. ASSUME NEW n \in 1..N, n - 1 \in P PROVE n \in P
  <2> HIDE DEF Good
  <2>1. PICK e : Good(e, n - 1)
    BY <1>2
  <2>2. T[n - 1] \subseteq T[n] /\ n - 1 \in 0..N
    <3> HIDE DEF P
    <3>1. T[n - 1] \subseteq T[n]
      BY DEF Layered
    <3>2. n - 1 \in 0..N
      OBVIOUS
    <3>3. QED
      BY <3>1, <3>2
  <2> USE DEF Good
  <2> DEFINE f == [t \in T[n] |-> G[<<t, Kids(e, t)>>]]
  <2>3. ASSUME NEW c \in T[n - 1] PROVE f[c] = e[c]
    <3>1. n - 1 # 0
      BY DEF Layered
    <3>2. n - 1 \in 1..(n - 1)
      BY <3>1
    <3>3. e[c] = G[<<c, Kids(e, c)>>]
      BY <2>1, <3>2
    <3>4. QED
      BY <2>2, <3>3
  <2> HIDE DEF f
  <2>4. ASSUME NEW t \in T[n]
        PROVE  /\ Kids(f, t) = Kids(e, t) /\ f[t] = G[<<t, Kids(f, t)>>]
               /\ \A i \in DOMAIN t.children :
                     ~IsLeaf(t.children[i]) => t.children[i] \in T[n - 1]
    <3>1. \A i \in DOMAIN t.children :
             ~IsLeaf(t.children[i]) => t.children[i] \in T[n - 1]
      BY DEF Layered
    <3>2. Kids(f, t) = Kids(e, t)
      BY <2>3, <3>1 DEF Kids
    <3>3. f[t] = G[<<t, Kids(e, t)>>]
      BY DEF f
    <3>4. QED
      BY <3>1, <3>2, <3>3
  <2>5. ASSUME NEW t \in T[n]
        PROVE  Kids(f, t) \in Seq(Leaves \cup V[n - 1]) /\ f[t] \in V[n]
    <3>1. /\ t.children \in Seq(Leaves \cup T[n - 1])
          /\ \A i \in DOMAIN t.children :
                \/ t.children[i] \in Leaves /\ IsLeaf(t.children[i])
                \/ t.children[i] \in T[n - 1] /\ ~IsLeaf(t.children[i])
      BY DEF Layered
    <3>2. ASSUME NEW c \in T[n - 1] PROVE f[c] \in V[n - 1]
      <4>1. n - 1 # 0
        BY DEF Layered
      <4>2. n - 1 \in 1..(n - 1)
        BY <4>1
      <4>3. QED
        BY <2>1, <2>3, <4>2
    <3> DEFINE k == Kids(f, t)
    <3>3. /\ DOMAIN k = DOMAIN t.children /\ DOMAIN t.children = 1..Len(t.children)
          /\ Len(t.children) \in Nat
      BY <3>1 DEF Kids
    <3>4. \A i \in DOMAIN k : IF IsLeaf(t.children[i]) THEN k[i] = t.children[i]
                              ELSE k[i] \in V[n - 1]
      BY <3>1, <3>2 DEF Kids
    <3>5. \A i \in DOMAIN k : k[i] \in Leaves \cup V[n - 1]
      BY <3>1, <3>3, <3>4
    <3>6. k = [i \in 1..Len(t.children) |-> k[i]]
      BY <3>3 DEF Kids
    <3> HIDE DEF k
    <3>7. k \in Seq(Leaves \cup V[n - 1])
      <4> DEFINE S == Leaves \cup V[n - 1]
                 l == Len(t.children)
      <4>1. l \in Nat /\ k = [i \in 1..l |-> k[i]] /\ \A i \in 1..l : k[i] \in S
        BY <3>3, <3>5, <3>6
      <4> HIDE DEF S, l
      <4>2. k \in [1..l -> S]
        BY <4>1
      <4>3. k \in Seq(S)
        BY <4>1, <4>2
      <4>4. QED
        BY <4>3 DEF S
    <3>8. G[<<t, k>>] \in V[n]
      BY <3>3, <3>4, <3>7 DEF Says
    <3>9. QED
      BY <2>4, <3>7, <3>8 DEF k
  <2>6. ASSUME NEW m \in 1..n, NEW t \in T[m]
        PROVE  /\ t \in T[n]
               /\ f[t] = G[<<t, Kids(f, t)>>] /\ f[t] \in V[m]
               /\ Kids(f, t) \in Seq(Leaves \cup V[m - 1])
    <3>1. CASE m = n
      BY <2>4, <2>5, <3>1
    <3>2. CASE m # n
      <4>1. m \in 1..(n - 1)
        BY <3>2
      <4>2. /\ t \in T[n - 1] /\ e[t] \in V[m]
            /\ Kids(e, t) \in Seq(Leaves \cup V[m - 1])
        BY <2>1, <4>1
      <4>3. QED
        BY <2>2, <2>3, <2>4, <4>2
    <3>3. QED
      BY <3>1, <3>2
  <2>7. f = [t \in T[n] |-> f[t]]
    BY DEF f
  <2>8. Good(f, n)
    BY <2>6, <2>7
  <2> HIDE DEF Good
  <2>9. QED
    BY <2>8
<1> HIDE DEF P
<1>3. \A n \in 0..N : n \in P
  BY <1>1, <1>2, Induct
<1> HIDE DEF Good
<1>4. PICK f : Good(f, N)
  BY <1>3 DEF P
<1> USE DEF Good
<1>5. ASSUME NEW g, \A t \in T[N] : Kids(g, t) = Kids(f, t) => g[t] = f[t]
      PROVE  \A t \in T[N] : g[t] = f[t]
  <2> DEFINE E == {t \in T[N] : g[t] = f[t]}
  <2>1. ASSUME NEW t \in T[N],
               \A i \in DOMAIN t.children : ~IsLeaf(t.children[i]) => t.children[i] \in E
        PROVE  t \in E
    <3>1. Kids(g, t) = Kids(f, t)
      BY <2>1 DEF Kids
    <3>2. QED
      BY <1>5, <3>1
  <2> HIDE DEF E
  <2>2. T[N] \subseteq E
    BY <2>1, LayeredInduction
  <2>3. QED
    BY <2>2 DEF E
<1>6. Agrees(f, G, T, N, V) /\ f = [t \in T[N] |-> f[t]]
  BY <1>4 DEF Agrees
<1>7. Only1(f, T, N)
  BY <1>5 DEF Only1
<1>8. QED
  BY <1>6, <1>7

-----------------------------------------------------------------------------
(* Encoding and decoding.                                                  *)

(* What the layers of Encoded hold. *)
LEMMA EncodedIs ==
    /\ Levels \in Nat /\ Levels >= 1 /\ Encoded[0] = {}
    /\ \A n \in 1..Levels :
          Encoded[n] = [conn : {0, 1}, neg : {0, 1},
                        children : Seq(Leaves \cup Encoded[n - 1])]
<1> DEFINE Step(T) == [conn : {0, 1}, neg : {0, 1}, children : Seq(Leaves \cup T)]
           Fix(f, n) == f = [i \in 0..n |-> IF i = 0 THEN {} ELSE Step(f[i - 1])]
           Determined(n) == \E f : Fix(f, n)
           P == {n \in 0..Levels : Determined(n)}
<1>a. Levels \in Nat /\ Levels >= 1
  BY QuerySetAssumption DEF QuerySetAssumption, Levels
<1> HIDE DEF Step
<1>1. Determined(0)
  <2>1. Fix([i \in 0..0 |-> {}], 0)
    OBVIOUS
  <2>2. QED
    BY <2>1
<1>2. ASSUME NEW n \in 1..Levels, Determined(n - 1) PROVE Determined(n)
  <2>1. PICK e : Fix(e, n - 1)
    BY <1>2
  <2> DEFINE f == [i \in 0..n |-> IF i = n THEN Step(e[n - 1]) ELSE e[i]]
  <2>a. n \in Nat /\ n # 0
    BY <1>a
  <2>d. \A j \in 0..(n - 1) : e[j] = IF j = 0 THEN {} ELSE Step(e[j - 1])
    BY <2>1
  <2>b. f[n] = Step(e[n - 1]) /\ n \in 0..n /\ n - 1 \in 0..n /\ n - 1 # n
    BY <2>a
  <2>c. \A i \in 0..n : i # n => f[i] = e[i]
    OBVIOUS
  <2>3. f = [i \in 0..n |-> f[i]]
    OBVIOUS
  <2> HIDE DEF f
  <2>2. \A i \in 0..n : f[i] = IF i = 0 THEN {} ELSE Step(f[i - 1])
    <3> SUFFICES ASSUME NEW i \in 0..n PROVE f[i] = IF i = 0 THEN {} ELSE Step(f[i - 1])
      OBVIOUS
    <3>1. CASE i = 0
      <4>1. i \in 0..(n - 1) /\ i # n /\ e[i] = {}
        BY <2>1, <2>a, <3>1
      <4>2. QED
        BY <2>c, <3>1, <4>1
    <3>2. CASE i # 0 /\ i # n
      <4>a. i \in 0..(n - 1) /\ i - 1 \in 0..n /\ i - 1 # n
        BY <2>a, <3>2
      <4>1. e[i] = Step(e[i - 1])
        BY <2>d, <3>2, <4>a
      <4>2. f[i] = e[i] /\ f[i - 1] = e[i - 1]
        BY <2>c, <3>2, <4>a
      <4>3. i # 0
        BY <3>2
      <4> HIDE DEF Step
      <4>4. QED
        BY <4>1, <4>2, <4>3
    <3>3. CASE i = n
      BY <2>a, <2>b, <2>c, <3>3
    <3>4. QED
      BY <3>1, <3>2, <3>3
  <2>4. Fix(f, n)
    BY <2>2, <2>3
  <2>5. QED
    BY <2>4
<1> HIDE DEF Determined
<1>3. 0 \in P /\ \A i \in 1..Levels : i - 1 \in P => i \in P
  BY <1>a, <1>1, <1>2
<1> HIDE DEF P
<1>4. \A i \in 0..Levels : i \in P
  BY <1>a, <1>3, Induct
<1>5. Determined(Levels)
  BY <1>a, <1>4 DEF P
<1>6. Fix(Encoded, Levels)
  <2>1. \E f : Fix(f, Levels)
    BY <1>5 DEF Determined
  <2> DEFINE w == CHOOSE f : Fix(f, Levels)
  <2>2. Encoded = w
    BY DEF Encoded, Step
  <2>3. Fix(w, Levels)
    <3> HIDE DEF Fix
    <3>1. QED
      BY <2>1
  <2> HIDE DEF w
  <2>4. QED
    BY <2>2, <2>3
<1>7. \A i \in 0..Levels : Encoded[i] = IF i = 0 THEN {} ELSE Step(Encoded[i - 1])
  BY <1>6
<1>8. Encoded[0] = {}
  BY <1>a, <1>7
<1>9. \A n \in 1..Levels : Encoded[n] = Step(Encoded[n - 1])
  BY <1>a, <1>7
<1>10. QED
  BY <1>a, <1>8, <1>9 DEF Step

(* Encoded trees are layered. *)
LEMMA EncodedLayered == Layered(Encoded, Levels)
<1> DEFINE P == {n \in 0..Levels : n > 0 => Encoded[n - 1] \subseteq Encoded[n]}
<1>1. Levels \in Nat /\ Levels >= 1 /\ Encoded[0] = {}
  BY EncodedIs
<1>2. 0 \in P
  BY <1>1
<1>3. ASSUME NEW n \in 1..Levels, n - 1 \in P PROVE n \in P
  <2>1. CASE n = 1
    BY <1>1, <2>1
  <2>2. CASE n # 1
    <3>1. n - 1 \in 1..Levels /\ Encoded[n - 1 - 1] \subseteq Encoded[n - 1]
      BY <1>1, <1>3, <2>2
    <3> DEFINE S == Seq(Leaves \cup Encoded[n - 1 - 1])
               R == Seq(Leaves \cup Encoded[n - 1])
    <3>2. S \subseteq R
      BY <3>1
    <3>3. /\ Encoded[n] = [conn : {0, 1}, neg : {0, 1}, children : R]
          /\ Encoded[n - 1] = [conn : {0, 1}, neg : {0, 1}, children : S]
      BY <3>1, EncodedIs
    <3> HIDE DEF S, R
    <3>4. Encoded[n - 1] \subseteq Encoded[n]
      BY <3>2, <3>3
    <3>5. QED
      BY <1>1, <3>4
  <2>3. QED
    BY <2>1, <2>2
<1> HIDE DEF P
<1>4. \A n \in 0..Levels : n \in P
  BY <1>1, <1>2, <1>3, Induct
<1>5. ASSUME NEW m \in 0..Levels, NEW s \in Encoded[m] PROVE ~IsLeaf(s)
  <2>1. m \in 1..Levels
    BY <1>1
  <2>2. s \in [conn : {0, 1}, neg : {0, 1}, children : Seq(Leaves \cup Encoded[m - 1])]
    BY <2>1, EncodedIs
  <2>3. "op" \notin DOMAIN s
    BY <2>2
  <2>4. QED
    BY <2>3 DEF IsLeaf
<1>6. ASSUME NEW n \in 1..Levels, NEW t \in Encoded[n]
      PROVE  /\ t.children \in Seq(Leaves \cup Encoded[n - 1])
             /\ \A i \in DOMAIN t.children :
                   \/ t.children[i] \in Leaves /\ IsLeaf(t.children[i])
                   \/ t.children[i] \in Encoded[n - 1] /\ ~IsLeaf(t.children[i])
  <2>1. t \in [conn : {0, 1}, neg : {0, 1}, children : Seq(Leaves \cup Encoded[n - 1])]
    BY EncodedIs
  <2>2. t.children \in Seq(Leaves \cup Encoded[n - 1])
    BY <2>1
  <2>3. \A i \in DOMAIN t.children : t.children[i] \in Leaves \cup Encoded[n - 1]
    BY <2>2
  <2>4. n - 1 \in 0..Levels
    BY <1>1
  <2>5. QED
    BY <1>5, <2>2, <2>3, <2>4, LeafIs
<1>7. \A n \in 1..Levels : Encoded[n - 1] \subseteq Encoded[n]
  BY <1>4 DEF P
<1>8. QED
  BY <1>1, <1>6, <1>7 DEF Layered

(* to_data: what the data of a node is, and where. *)
LEMMA DataIs ==
    \A n \in 1..Levels : \A t \in Trees[n] :
       /\ ToData(t) \in Encoded[n]
       /\ ToData(t) = [conn     |-> IF t.conn = "OR" THEN 1 ELSE 0,
                       neg      |-> IF t.negated THEN 1 ELSE 0,
                       children |-> [i \in DOMAIN t.children |->
                                        IF IsLeaf(t.children[i]) THEN t.children[i]
                                        ELSE ToData(t.children[i])]]
<1> DEFINE B(t, k) == [conn |-> IF t.conn = "OR" THEN 1 ELSE 0,
                       neg |-> IF t.negated THEN 1 ELSE 0, children |-> k]
           Body(e, t) == [conn |-> IF t.conn = "OR" THEN 1 ELSE 0,
      neg |-> IF t.negated THEN 1 ELSE 0,
      children |-> [i \in DOMAIN t.children |->
    IF IsLeaf(t.children[i]) THEN t.children[i] ELSE e[t.children[i]]]]
           Fix(f) == f = [t \in Predicate |-> Body(f, t)]
           w == CHOOSE f : Fix(f)
           G == [x \in Trees[Levels] \X Seq(Leaves \cup Encoded[Levels]) |-> B(x[1], x[2])]
<1>1. Levels \in Nat /\ Levels >= 1 /\ Predicate = Trees[Levels]
  BY TreesIs DEF Predicate
<1>2. \A n \in 0..Levels : Encoded[n] \subseteq Encoded[Levels]
  BY <1>1, EncodedLayered, LayeredGrows
<1>3. ASSUME NEW n \in 1..Levels, NEW t \in Trees[n], NEW k \in Seq(Leaves \cup Encoded[n - 1]),
             DOMAIN k = DOMAIN t.children,
             \A i \in DOMAIN k : ~IsLeaf(t.children[i]) => k[i] \in Encoded[n - 1]
      PROVE  G[<<t, k>>] = B(t, k) /\ B(t, k) \in Encoded[n]
  <2>1. n \in 0..Levels /\ n - 1 \in 0..Levels
    BY <1>1
  <2>2. t \in Trees[Levels]
    BY <1>1, <2>1, TreesLayered, LayeredGrows
  <2>3. Leaves \cup Encoded[n - 1] \subseteq Leaves \cup Encoded[Levels]
    <3> HIDE DEF B, w
    <3>1. QED
      BY <1>2, <2>1
  <2>4. k \in Seq(Leaves \cup Encoded[Levels])
    <3> HIDE DEF B, w
    <3>1. QED
      BY <2>3
  <2>5. G[<<t, k>>] = B(t, k)
    <3> HIDE DEF B, w
    <3>1. QED
      BY <2>2, <2>4
  <2>6. Encoded[n] = [conn : {0, 1}, neg : {0, 1}, children : Seq(Leaves \cup Encoded[n - 1])]
    BY EncodedIs
  <2>7. B(t, k) \in Encoded[n]
    BY <2>6
  <2>8. QED
    BY <2>5, <2>7
<1> HIDE DEF G
<1>4. Says(G, Trees, Levels, Encoded)
  <2> HIDE DEF B, w
  <2>1. QED
    BY <1>3 DEF Says
<1>5. PICK f : /\ f = [t \in Trees[Levels] |-> f[t]]
               /\ Agrees(f, G, Trees, Levels, Encoded) /\ Only1(f, Trees, Levels)
  <2> HIDE DEF B, Fix, w
  <2>1. QED
    BY <1>1, <1>4, TreesLayered, Recursion
<1>6. ASSUME NEW n \in 1..Levels, NEW t \in Trees[n]
      PROVE  f[t] = B(t, Kids(f, t)) /\ f[t] \in Encoded[n]
  <2> HIDE DEF B, w
  <2>1. /\ f[t] = G[<<t, Kids(f, t)>>] /\ f[t] \in Encoded[n]
        /\ Kids(f, t) \in Seq(Leaves \cup Encoded[n - 1])
        /\ DOMAIN Kids(f, t) = DOMAIN t.children
    BY <1>5 DEF Agrees, Kids
  <2>2. \A i \in DOMAIN t.children : ~IsLeaf(t.children[i]) => Kids(f, t)[i] \in Encoded[n - 1]
    <3> SUFFICES ASSUME NEW i \in DOMAIN t.children, ~IsLeaf(t.children[i])
                 PROVE  Kids(f, t)[i] \in Encoded[n - 1]
      OBVIOUS
    <3>1. t.children[i] \in Trees[n - 1] /\ Trees[0] = {}
      BY TreesLayered DEF Layered
    <3>2. n - 1 \in 1..Levels
      BY <1>1, <3>1
    <3>3. f[t.children[i]] \in Encoded[n - 1]
      BY <1>5, <3>1, <3>2 DEF Agrees
    <3>4. QED
      BY <3>3 DEF Kids
  <2>3. QED
    BY <1>3, <2>1, <2>2
<1>7. ASSUME NEW t \in Trees[Levels] PROVE f[t] = B(t, Kids(f, t))
  <2>1. Levels \in 1..Levels
    BY <1>1
  <2> HIDE DEF B, w
  <2>2. QED
    BY <1>6, <2>1
<1>8. ASSUME NEW e, NEW t \in Trees[Levels] PROVE Body(e, t) = B(t, Kids(e, t))
  BY DEF Kids
<1> HIDE DEF B
<1>9. Fix(f)
  <2> HIDE DEF Body, w
  <2>1. \A t \in Trees[Levels] : f[t] = Body(f, t)
    BY <1>7, <1>8
  <2>2. f = [t \in Trees[Levels] |-> Body(f, t)]
    BY <1>5, <2>1
  <2>3. QED
    BY <1>1, <2>2
<1>10. Fix(w)
  <2> HIDE DEF Fix
  <2>1. QED
    BY <1>9
<1>11. \A t \in Trees[Levels] : w[t] = Body(w, t) /\ w[t] = B(t, Kids(w, t))
  <2> HIDE DEF Body, w
  <2>1. w = [t \in Trees[Levels] |-> Body(w, t)]
    BY <1>1, <1>10
  <2>2. \A t \in Trees[Levels] : w[t] = Body(w, t)
    BY <2>1
  <2>3. QED
    BY <1>8, <2>2
<1>12. \A t : ToData(t) = w[t]
  BY DEF ToData
<1> HIDE DEF w
<1>13. \A t \in Trees[Levels] : w[t] = f[t]
  <2>1. \A t \in Trees[Levels] : Kids(w, t) = Kids(f, t) => w[t] = f[t]
    BY <1>7, <1>11
  <2>2. QED
    BY <1>5, <2>1 DEF Only1
<1>14. ASSUME NEW n \in 1..Levels, NEW t \in Trees[n]
       PROVE  ToData(t) \in Encoded[n] /\ ToData(t) = [conn |-> IF t.conn = "OR" THEN 1 ELSE 0,
      neg |-> IF t.negated THEN 1 ELSE 0,
      children |-> [i \in DOMAIN t.children |->
    IF IsLeaf(t.children[i]) THEN t.children[i] ELSE ToData(t.children[i])]]
  <2>1. t \in Trees[Levels] /\ n \in 0..Levels
    BY <1>1, TreesLayered, LayeredGrows
  <2>2. ToData(t) = w[t] /\ w[t] = f[t] /\ f[t] \in Encoded[n]
    BY <1>6, <1>12, <1>13, <2>1
  <2>3. w[t] = Body(w, t)
    BY <1>11, <2>1
  <2>4. Body(w, t) = [conn |-> IF t.conn = "OR" THEN 1 ELSE 0,
      neg |-> IF t.negated THEN 1 ELSE 0,
      children |-> [i \in DOMAIN t.children |->
    IF IsLeaf(t.children[i]) THEN t.children[i] ELSE ToData(t.children[i])]]
    BY <1>12
  <2>5. QED
    BY <2>2, <2>3, <2>4
<1>15. QED
  BY <1>14

(* from_data: what node the data stands for. *)
LEMMA NodeIs ==
    \A n \in 1..Levels : \A t \in Encoded[n] :
       /\ Decoded(t) \in Trees[n]
       /\ Decoded(t) = Node([i \in DOMAIN t.children |->
                                 IF IsLeaf(t.children[i]) THEN t.children[i]
                                 ELSE Decoded(t.children[i])],
                             IF t.conn = 1 THEN "OR" ELSE "AND", t.neg = 1)
<1> DEFINE B(t, k) == Node(k, IF t.conn = 1 THEN "OR" ELSE "AND", t.neg = 1)
           Body(e, t) == Node([i \in DOMAIN t.children |->
    IF IsLeaf(t.children[i]) THEN t.children[i] ELSE e[t.children[i]]],
         IF t.conn = 1 THEN "OR" ELSE "AND", t.neg = 1)
           Fix(f) == f = [t \in Encoded[Levels] |-> Body(f, t)]
           w == CHOOSE f : Fix(f)
           G == [x \in Encoded[Levels] \X Seq(Leaves \cup Trees[Levels]) |-> B(x[1], x[2])]
<1>1. Levels \in Nat /\ Levels >= 1 /\ Predicate = Trees[Levels]
  BY TreesIs DEF Predicate
<1>2. \A n \in 0..Levels : Trees[n] \subseteq Trees[Levels]
  BY <1>1, TreesLayered, LayeredGrows
<1>3. ASSUME NEW n \in 1..Levels, NEW t \in Encoded[n], NEW k \in Seq(Leaves \cup Trees[n - 1]),
             DOMAIN k = DOMAIN t.children,
             \A i \in DOMAIN k : ~IsLeaf(t.children[i]) => k[i] \in Trees[n - 1]
      PROVE  G[<<t, k>>] = B(t, k) /\ B(t, k) \in Trees[n]
  <2>1. n \in 0..Levels /\ n - 1 \in 0..Levels
    BY <1>1
  <2>2. t \in Encoded[Levels]
    BY <1>1, <2>1, EncodedLayered, LayeredGrows
  <2>3. Leaves \cup Trees[n - 1] \subseteq Leaves \cup Trees[Levels]
    <3> HIDE DEF B, w
    <3>1. QED
      BY <1>2, <2>1
  <2>4. k \in Seq(Leaves \cup Trees[Levels])
    <3> HIDE DEF B, w
    <3>1. QED
      BY <2>3
  <2>5. G[<<t, k>>] = B(t, k)
    <3> HIDE DEF B, w
    <3>1. QED
      BY <2>2, <2>4
  <2>6. Trees[n] = [children : Seq(Leaves \cup Trees[n - 1]), conn : {"AND", "OR"},
                    negated : BOOLEAN]
    BY TreesIs
  <2>7. B(t, k) \in Trees[n]
    BY <2>6 DEF Node
  <2>8. QED
    BY <2>5, <2>7
<1> HIDE DEF G
<1>4. Says(G, Encoded, Levels, Trees)
  <2> HIDE DEF B, w
  <2>1. QED
    BY <1>3 DEF Says
<1>5. PICK f : /\ f = [t \in Encoded[Levels] |-> f[t]]
               /\ Agrees(f, G, Encoded, Levels, Trees) /\ Only1(f, Encoded, Levels)
  <2> HIDE DEF B, Fix, w
  <2>1. QED
    BY <1>1, <1>4, EncodedLayered, Recursion
<1>6. ASSUME NEW n \in 1..Levels, NEW t \in Encoded[n]
      PROVE  f[t] = B(t, Kids(f, t)) /\ f[t] \in Trees[n]
  <2> HIDE DEF B, w
  <2>1. /\ f[t] = G[<<t, Kids(f, t)>>] /\ f[t] \in Trees[n]
        /\ Kids(f, t) \in Seq(Leaves \cup Trees[n - 1])
        /\ DOMAIN Kids(f, t) = DOMAIN t.children
    BY <1>5 DEF Agrees, Kids
  <2>2. \A i \in DOMAIN t.children : ~IsLeaf(t.children[i]) => Kids(f, t)[i] \in Trees[n - 1]
    <3> SUFFICES ASSUME NEW i \in DOMAIN t.children, ~IsLeaf(t.children[i])
                 PROVE  Kids(f, t)[i] \in Trees[n - 1]
      OBVIOUS
    <3>1. t.children[i] \in Encoded[n - 1] /\ Encoded[0] = {}
      BY EncodedLayered DEF Layered
    <3>2. n - 1 \in 1..Levels
      BY <1>1, <3>1
    <3>3. f[t.children[i]] \in Trees[n - 1]
      BY <1>5, <3>1, <3>2 DEF Agrees
    <3>4. QED
      BY <3>3 DEF Kids
  <2>3. QED
    BY <1>3, <2>1, <2>2
<1>7. ASSUME NEW t \in Encoded[Levels] PROVE f[t] = B(t, Kids(f, t))
  <2>1. Levels \in 1..Levels
    BY <1>1
  <2> HIDE DEF B, w
  <2>2. QED
    BY <1>6, <2>1
<1>8. ASSUME NEW e, NEW t \in Encoded[Levels] PROVE Body(e, t) = B(t, Kids(e, t))
  BY DEF Kids
<1> HIDE DEF B
<1>9. Fix(f)
  <2> HIDE DEF Body, w
  <2>1. \A t \in Encoded[Levels] : f[t] = Body(f, t)
    BY <1>7, <1>8
  <2>2. f = [t \in Encoded[Levels] |-> Body(f, t)]
    BY <1>5, <2>1
  <2>3. QED
    BY <1>1, <2>2
<1>10. Fix(w)
  <2> HIDE DEF Fix
  <2>1. QED
    BY <1>9
<1>11. \A t \in Encoded[Levels] : w[t] = Body(w, t) /\ w[t] = B(t, Kids(w, t))
  <2> HIDE DEF Body, w
  <2>1. w = [t \in Encoded[Levels] |-> Body(w, t)]
    BY <1>1, <1>10
  <2>2. \A t \in Encoded[Levels] : w[t] = Body(w, t)
    BY <2>1
  <2>3. QED
    BY <1>8, <2>2
<1>12. \A t : Decoded(t) = w[t]
  BY DEF Decoded
<1> HIDE DEF w
<1>13. \A t \in Encoded[Levels] : w[t] = f[t]
  <2>1. \A t \in Encoded[Levels] : Kids(w, t) = Kids(f, t) => w[t] = f[t]
    BY <1>7, <1>11
  <2>2. QED
    BY <1>5, <2>1 DEF Only1
<1>14. ASSUME NEW n \in 1..Levels, NEW t \in Encoded[n]
       PROVE  Decoded(t) \in Trees[n] /\ Decoded(t) = Node([i \in DOMAIN t.children |->
    IF IsLeaf(t.children[i]) THEN t.children[i] ELSE Decoded(t.children[i])],
         IF t.conn = 1 THEN "OR" ELSE "AND", t.neg = 1)
  <2>1. t \in Encoded[Levels] /\ n \in 0..Levels
    BY <1>1, EncodedLayered, LayeredGrows
  <2>2. Decoded(t) = w[t] /\ w[t] = f[t] /\ f[t] \in Trees[n]
    BY <1>6, <1>12, <1>13, <2>1
  <2>3. w[t] = Body(w, t)
    BY <1>11, <2>1
  <2>4. Body(w, t) = Node([i \in DOMAIN t.children |->
    IF IsLeaf(t.children[i]) THEN t.children[i] ELSE Decoded(t.children[i])],
         IF t.conn = 1 THEN "OR" ELSE "AND", t.neg = 1)
    BY <1>12
  <2>5. QED
    BY <2>2, <2>3, <2>4
<1>15. QED
  BY <1>14

-----------------------------------------------------------------------------
(* The lookups of a predicate, and what it says of a row.                  *)

(* A predicate has finitely many lookups: those of its children. *)
LEMMA LeavesAre ==
    \A n \in 1..Levels : \A t \in Trees[n] :
       /\ LeavesOf(t) \subseteq Leaves /\ IsFiniteSet(LeavesOf(t))
       /\ LeavesOf(t) = UNION {IF IsLeaf(child) THEN {child} ELSE LeavesOf(child)
                               : child \in Range(t.children)}
<1> DEFINE Finite == {S \in SUBSET Leaves : IsFiniteSet(S)}
           Kid(t, k, i) == IF IsLeaf(t.children[i]) THEN {t.children[i]} ELSE k[i]
           B(t, k) == UNION {Kid(t, k, i) : i \in DOMAIN t.children}
           Body(e, t) == UNION {IF IsLeaf(child) THEN {child} ELSE e[child]
    : child \in Range(t.children)}
           Fix(f) == f = [t \in Predicate |-> Body(f, t)]
           w == CHOOSE f : Fix(f)
           V == [n \in 0..Levels |-> Finite]
           G == [x \in Trees[Levels] \X Seq(Leaves \cup V[Levels]) |-> B(x[1], x[2])]
<1>1. Levels \in Nat /\ Levels >= 1 /\ Predicate = Trees[Levels]
  BY TreesIs DEF Predicate
<1>2. \A n \in 0..Levels : V[n] = Finite /\ V[n] \subseteq V[Levels]
  <2> HIDE DEF Finite
  <2>1. QED
    BY <1>1
<1>3. ASSUME NEW n \in 1..Levels, NEW t \in Trees[n], NEW k \in Seq(Leaves \cup V[n - 1]),
             DOMAIN k = DOMAIN t.children,
             \A i \in DOMAIN k : ~IsLeaf(t.children[i]) => k[i] \in V[n - 1]
      PROVE  G[<<t, k>>] = B(t, k) /\ B(t, k) \in V[n]
  <2>1. n \in 0..Levels /\ n - 1 \in 0..Levels
    BY <1>1
  <2>2. t \in Trees[Levels]
    BY <1>1, <2>1, TreesLayered, LayeredGrows
  <2>3. Leaves \cup V[n - 1] \subseteq Leaves \cup V[Levels]
    <3> HIDE DEF B, w, V, Finite
    <3>1. QED
      BY <1>2, <2>1
  <2>4. k \in Seq(Leaves \cup V[Levels])
    <3> HIDE DEF B, w, V, Finite
    <3>1. QED
      BY <2>3
  <2>5. G[<<t, k>>] = B(t, k)
    <3> HIDE DEF B, w
    <3>1. QED
      BY <2>2, <2>4
  <2>6. /\ t.children \in Seq(Leaves \cup Trees[n - 1])
        /\ \A i \in DOMAIN t.children :
              \/ t.children[i] \in Leaves /\ IsLeaf(t.children[i])
              \/ t.children[i] \in Trees[n - 1] /\ ~IsLeaf(t.children[i])
    BY TreesLayered DEF Layered
  <2>7. Len(t.children) \in Nat /\ DOMAIN t.children = 1..Len(t.children)
    BY <2>6
  <2>8. \A i \in DOMAIN t.children : Kid(t, k, i) \in Finite
    <3> SUFFICES ASSUME NEW i \in DOMAIN t.children PROVE Kid(t, k, i) \in Finite
      OBVIOUS
    <3>1. CASE IsLeaf(t.children[i])
      BY <2>6, <3>1, FS_Singleton
    <3>2. CASE ~IsLeaf(t.children[i])
      <4>1. k[i] \in V[n - 1] /\ V[n - 1] = Finite
        BY <1>2, <1>3, <2>1, <3>2
      <4>2. QED
        BY <3>2, <4>1
    <3>3. QED
      BY <3>1, <3>2
  <2> DEFINE sets == {Kid(t, k, i) : i \in DOMAIN t.children}
             h == [i \in 1..Len(t.children) |-> Kid(t, k, i)]
  <2>9. IsFiniteSet(sets)
    <3> HIDE DEF Kid
    <3>1. h \in Surjection(1..Len(t.children), sets)
      BY <2>7, Fun_IsSurj
    <3>2. IsFiniteSet(1..Len(t.children))
      BY <2>7, FS_Interval
    <3> HIDE DEF h, sets
    <3>3. QED
      BY <3>1, <3>2, FS_Surjection
  <2>10. UNION sets \subseteq Leaves /\ \A S \in sets : IsFiniteSet(S)
    BY <2>8
  <2>11. IsFiniteSet(UNION sets)
    <3> HIDE DEF sets
    <3>1. QED
      BY <2>9, <2>10, FS_UNION
  <2>12. B(t, k) \in Finite /\ Finite = V[n]
    <3>1. B(t, k) = UNION sets
      OBVIOUS
    <3>2. B(t, k) \in Finite
      <4> HIDE DEF sets, B
      <4>1. QED
        BY <2>10, <2>11, <3>1
    <3>3. QED
      BY <1>2, <2>1, <3>2
  <2>13. QED
    BY <2>5, <2>12
<1> HIDE DEF G
<1>4. Says(G, Trees, Levels, V)
  <2> HIDE DEF B, w, V, Finite
  <2>1. QED
    BY <1>3 DEF Says
<1>5. PICK f : /\ f = [t \in Trees[Levels] |-> f[t]]
               /\ Agrees(f, G, Trees, Levels, V) /\ Only1(f, Trees, Levels)
  <2> HIDE DEF B, Fix, w, V, Finite
  <2>1. QED
    BY <1>1, <1>4, TreesLayered, Recursion
<1>6. ASSUME NEW n \in 1..Levels, NEW t \in Trees[n]
      PROVE  f[t] = B(t, Kids(f, t)) /\ f[t] \in V[n]
  <2> HIDE DEF B, w, V, Finite
  <2>1. /\ f[t] = G[<<t, Kids(f, t)>>] /\ f[t] \in V[n]
        /\ Kids(f, t) \in Seq(Leaves \cup V[n - 1])
        /\ DOMAIN Kids(f, t) = DOMAIN t.children
    BY <1>5 DEF Agrees, Kids
  <2>2. \A i \in DOMAIN t.children : ~IsLeaf(t.children[i]) => Kids(f, t)[i] \in V[n - 1]
    <3> SUFFICES ASSUME NEW i \in DOMAIN t.children, ~IsLeaf(t.children[i])
                 PROVE  Kids(f, t)[i] \in V[n - 1]
      OBVIOUS
    <3>1. t.children[i] \in Trees[n - 1] /\ Trees[0] = {}
      BY TreesLayered DEF Layered
    <3>2. n - 1 \in 1..Levels
      BY <1>1, <3>1
    <3>3. f[t.children[i]] \in V[n - 1]
      BY <1>5, <3>1, <3>2 DEF Agrees
    <3>4. QED
      BY <3>3 DEF Kids
  <2>3. QED
    BY <1>3, <2>1, <2>2
<1>7. ASSUME NEW t \in Trees[Levels] PROVE f[t] = B(t, Kids(f, t))
  <2>1. Levels \in 1..Levels
    BY <1>1
  <2> HIDE DEF B, w, V, Finite
  <2>2. QED
    BY <1>6, <2>1
<1>8. ASSUME NEW e, NEW t \in Trees[Levels] PROVE Body(e, t) = B(t, Kids(e, t))
  BY DEF Kids, Range
<1> HIDE DEF B, V, Finite
<1>9. Fix(f)
  <2> HIDE DEF Body, w
  <2>1. \A t \in Trees[Levels] : f[t] = Body(f, t)
    BY <1>7, <1>8
  <2>2. f = [t \in Trees[Levels] |-> Body(f, t)]
    BY <1>5, <2>1
  <2>3. QED
    BY <1>1, <2>2
<1>10. Fix(w)
  <2> HIDE DEF Fix
  <2>1. QED
    BY <1>9
<1>11. \A t \in Trees[Levels] : w[t] = Body(w, t) /\ w[t] = B(t, Kids(w, t))
  <2> HIDE DEF Body, w
  <2>1. w = [t \in Trees[Levels] |-> Body(w, t)]
    BY <1>1, <1>10
  <2>2. \A t \in Trees[Levels] : w[t] = Body(w, t)
    BY <2>1
  <2>3. QED
    BY <1>8, <2>2
<1>12. \A t : LeavesOf(t) = w[t]
  BY DEF LeavesOf
<1> HIDE DEF w
<1>13. \A t \in Trees[Levels] : w[t] = f[t]
  <2>1. \A t \in Trees[Levels] : Kids(w, t) = Kids(f, t) => w[t] = f[t]
    BY <1>7, <1>11
  <2>2. QED
    BY <1>5, <2>1 DEF Only1
<1>14. ASSUME NEW n \in 1..Levels, NEW t \in Trees[n]
       PROVE  LeavesOf(t) \in V[n] /\ LeavesOf(t) = UNION {IF IsLeaf(child) THEN {child} ELSE LeavesOf(child)
    : child \in Range(t.children)}
  <2>1. t \in Trees[Levels] /\ n \in 0..Levels
    BY <1>1, TreesLayered, LayeredGrows
  <2>2. LeavesOf(t) = w[t] /\ w[t] = f[t] /\ f[t] \in V[n]
    BY <1>6, <1>12, <1>13, <2>1
  <2>3. w[t] = Body(w, t)
    BY <1>11, <2>1
  <2>4. Body(w, t) = UNION {IF IsLeaf(child) THEN {child} ELSE LeavesOf(child)
    : child \in Range(t.children)}
    BY <1>12
  <2>5. QED
    BY <2>2, <2>3, <2>4
<1>15. QED
  <2>1. \A n \in 1..Levels : V[n] = Finite
    BY <1>2
  <2>2. \A S \in Finite : S \subseteq Leaves /\ IsFiniteSet(S)
    BY DEF Finite
  <2>3. QED
    BY <1>14, <2>1, <2>2

Three == {"true", "false", "unknown"}

(* A predicate is true, false or unknown: what its children say, connected.*)
LEMMA TruthIs ==
    ASSUME NEW env
    PROVE  \A n \in 1..Levels : \A t \in Trees[n] :
              /\ Truth(t, env) \in Three
              /\ Truth(t, env) =
                    LET all == Connected(t.conn, {IF IsLeaf(child)
                                                  THEN Lookup(child.op, Column(child.path, env),
                                                              child.arg)
                                                  ELSE Truth(child, env)
                                                  : child \in Range(t.children)})
                    IN IF t.negated THEN Not3(all) ELSE all
<1> DEFINE Said(c) == Lookup(c.op, Column(c.path, env), c.arg)
           Signed(t, all) == IF t.negated THEN Not3(all) ELSE all
           B(t, k) == Signed(t, Connected(t.conn,
                         {IF IsLeaf(t.children[i]) THEN Said(t.children[i]) ELSE k[i]
                          : i \in DOMAIN t.children}))
           Body(e, t) == (LET all == Connected(t.conn, {IF IsLeaf(child)
      THEN Lookup(child.op, Column(child.path, env), child.arg)
      ELSE e[child]
      : child \in Range(t.children)})
  IN IF t.negated THEN Not3(all) ELSE all)
           Fix(f) == f = [t \in Predicate |-> Body(f, t)]
           w == CHOOSE f : Fix(f)
           V == [n \in 0..Levels |-> Three]
           G == [x \in Trees[Levels] \X Seq(Leaves \cup V[Levels]) |-> B(x[1], x[2])]
<1>1. Levels \in Nat /\ Levels >= 1 /\ Predicate = Trees[Levels]
  BY TreesIs DEF Predicate
<1>2. \A n \in 0..Levels : V[n] = Three /\ V[n] \subseteq V[Levels]
  <2> HIDE DEF Three
  <2>1. QED
    BY <1>1
<1>3. ASSUME NEW n \in 1..Levels, NEW t \in Trees[n], NEW k \in Seq(Leaves \cup V[n - 1]),
             DOMAIN k = DOMAIN t.children,
             \A i \in DOMAIN k : ~IsLeaf(t.children[i]) => k[i] \in V[n - 1]
      PROVE  G[<<t, k>>] = B(t, k) /\ B(t, k) \in V[n]
  <2>1. n \in 0..Levels /\ n - 1 \in 0..Levels
    BY <1>1
  <2>2. t \in Trees[Levels]
    BY <1>1, <2>1, TreesLayered, LayeredGrows
  <2>3. Leaves \cup V[n - 1] \subseteq Leaves \cup V[Levels]
    <3> HIDE DEF B, w, V
    <3>1. QED
      BY <1>2, <2>1
  <2>4. k \in Seq(Leaves \cup V[Levels])
    <3> HIDE DEF B, w, V
    <3>1. QED
      BY <2>3
  <2>5. G[<<t, k>>] = B(t, k)
    <3> HIDE DEF B, w
    <3>1. QED
      BY <2>2, <2>4
  <2>6. \A x \in Three : Not3(x) \in Three
    BY DEF Three, Not3
  <2>7. \A ts : Connected(t.conn, ts) \in Three
    BY DEF Three, Connected, And3, Or3
  <2>8. B(t, k) \in Three
    BY <2>6, <2>7
  <2>9. QED
    BY <1>2, <2>1, <2>5, <2>8
<1> HIDE DEF G
<1>4. Says(G, Trees, Levels, V)
  <2> HIDE DEF B, w, V
  <2>1. QED
    BY <1>3 DEF Says
<1>5. PICK f : /\ f = [t \in Trees[Levels] |-> f[t]]
               /\ Agrees(f, G, Trees, Levels, V) /\ Only1(f, Trees, Levels)
  <2> HIDE DEF B, Fix, w, V
  <2>1. QED
    BY <1>1, <1>4, TreesLayered, Recursion
<1>6. ASSUME NEW n \in 1..Levels, NEW t \in Trees[n]
      PROVE  f[t] = B(t, Kids(f, t)) /\ f[t] \in V[n]
  <2> HIDE DEF B, w, V
  <2>1. /\ f[t] = G[<<t, Kids(f, t)>>] /\ f[t] \in V[n]
        /\ Kids(f, t) \in Seq(Leaves \cup V[n - 1])
        /\ DOMAIN Kids(f, t) = DOMAIN t.children
    BY <1>5 DEF Agrees, Kids
  <2>2. \A i \in DOMAIN t.children : ~IsLeaf(t.children[i]) => Kids(f, t)[i] \in V[n - 1]
    <3> SUFFICES ASSUME NEW i \in DOMAIN t.children, ~IsLeaf(t.children[i])
                 PROVE  Kids(f, t)[i] \in V[n - 1]
      OBVIOUS
    <3>1. t.children[i] \in Trees[n - 1] /\ Trees[0] = {}
      BY TreesLayered DEF Layered
    <3>2. n - 1 \in 1..Levels
      BY <1>1, <3>1
    <3>3. f[t.children[i]] \in V[n - 1]
      BY <1>5, <3>1, <3>2 DEF Agrees
    <3>4. QED
      BY <3>3 DEF Kids
  <2>3. QED
    BY <1>3, <2>1, <2>2
<1>7. ASSUME NEW t \in Trees[Levels] PROVE f[t] = B(t, Kids(f, t))
  <2>1. Levels \in 1..Levels
    BY <1>1
  <2> HIDE DEF B, w, V
  <2>2. QED
    BY <1>6, <2>1
<1>8. ASSUME NEW e, NEW t \in Trees[Levels] PROVE Body(e, t) = B(t, Kids(e, t))
  BY DEF Kids, Range
<1> HIDE DEF B, V
<1>9. Fix(f)
  <2> HIDE DEF Body, w
  <2>1. \A t \in Trees[Levels] : f[t] = Body(f, t)
    BY <1>7, <1>8
  <2>2. f = [t \in Trees[Levels] |-> Body(f, t)]
    BY <1>5, <2>1
  <2>3. QED
    BY <1>1, <2>2
<1>10. Fix(w)
  <2> HIDE DEF Fix
  <2>1. QED
    BY <1>9
<1>11. \A t \in Trees[Levels] : w[t] = Body(w, t) /\ w[t] = B(t, Kids(w, t))
  <2> HIDE DEF Body, w
  <2>1. w = [t \in Trees[Levels] |-> Body(w, t)]
    BY <1>1, <1>10
  <2>2. \A t \in Trees[Levels] : w[t] = Body(w, t)
    BY <2>1
  <2>3. QED
    BY <1>8, <2>2
<1>12. \A t : Truth(t, env) = w[t]
  BY DEF Truth
<1> HIDE DEF w
<1>13. \A t \in Trees[Levels] : w[t] = f[t]
  <2>1. \A t \in Trees[Levels] : Kids(w, t) = Kids(f, t) => w[t] = f[t]
    BY <1>7, <1>11
  <2>2. QED
    BY <1>5, <2>1 DEF Only1
<1>14. ASSUME NEW n \in 1..Levels, NEW t \in Trees[n]
       PROVE  Truth(t, env) \in V[n] /\ Truth(t, env) = (LET all == Connected(t.conn, {IF IsLeaf(child)
      THEN Lookup(child.op, Column(child.path, env), child.arg)
      ELSE Truth(child, env)
      : child \in Range(t.children)})
  IN IF t.negated THEN Not3(all) ELSE all)
  <2>1. t \in Trees[Levels] /\ n \in 0..Levels
    BY <1>1, TreesLayered, LayeredGrows
  <2>2. Truth(t, env) = w[t] /\ w[t] = f[t] /\ f[t] \in V[n]
    BY <1>6, <1>12, <1>13, <2>1
  <2>3. w[t] = Body(w, t)
    BY <1>11, <2>1
  <2>4. Body(w, t) = (LET all == Connected(t.conn, {IF IsLeaf(child)
      THEN Lookup(child.op, Column(child.path, env), child.arg)
      ELSE Truth(child, env)
      : child \in Range(t.children)})
  IN IF t.negated THEN Not3(all) ELSE all)
    BY <1>12
  <2>5. QED
    BY <2>2, <2>3, <2>4
<1>15. QED
  <2>1. \A n \in 1..Levels : V[n] = Three
    BY <1>2
  <2>2. QED
    BY <1>14, <2>1

-----------------------------------------------------------------------------
(* Types.                                                                  *)

(* A tree of fewer levels is one of more. *)
LEMMA TreesAbove ==
    ASSUME NEW m \in 0..Levels, NEW n \in m..Levels
    PROVE  Trees[m] \subseteq Trees[n]
<1>1. Levels \in Nat
  BY TreesIs
<1>2. n \in Nat
  BY <1>1
<1>3. Layered(Trees, n)
  <2>1. 1..n \subseteq 1..Levels
    BY <1>1
  <2>2. QED
    BY <2>1, TreesLayered DEF Layered
<1>4. m \in 0..n
  BY <1>1
<1>5. QED
  BY <1>2, <1>3, <1>4, LayeredGrows

(* A node over leaves and trees of n levels has one level more. *)
LEMMA NodeType ==
    ASSUME NEW n \in 0..MaxCalls, NEW conn \in {"AND", "OR"}, NEW neg \in BOOLEAN,
           NEW kids \in Seq(Leaves \cup Trees[n])
    PROVE  Node(kids, conn, neg) \in Trees[n + 1]
<1>1. MaxCalls \in Nat
  BY QuerySetAssumption DEF QuerySetAssumption
<1>2. n + 1 \in 1..Levels /\ n + 1 - 1 = n
  BY <1>1 DEF Levels
<1>3. Trees[n + 1] = [children : Seq(Leaves \cup Trees[n]), conn : {"AND", "OR"},
                      negated : BOOLEAN]
  <2> DEFINE m == n + 1
  <2>1. m \in 1..Levels /\ m - 1 = n
    BY <1>2
  <2> HIDE DEF m
  <2>2. Trees[m] = [children : Seq(Leaves \cup Trees[m - 1]), conn : {"AND", "OR"},
                    negated : BOOLEAN]
    BY <2>1, TreesIs
  <2>3. QED
    BY <2>1, <2>2 DEF m
<1>4. QED
  BY <1>3 DEF Node

(* Q(leaf) has one level, Q(q) one more than q. *)
LEMMA QType ==
    /\ \A leaf \in Leaves : \A n \in 1..Levels : Q(<<leaf>>) \in Trees[n]
    /\ \A n \in 0..MaxCalls : \A t \in Trees[n] :
          /\ Q(<<t>>) \in Trees[n + 1] /\ Q(<<t>>) \in Predicate
          /\ Invert(Q(<<t>>)) \in Predicate
          /\ Invert(t) \in Trees[n]
<1>1. MaxCalls \in Nat /\ Levels = MaxCalls + 1 /\ Predicate = Trees[Levels]
  BY QuerySetAssumption DEF QuerySetAssumption, Levels, Predicate
<1>2. ASSUME NEW leaf \in Leaves, NEW n \in 1..Levels PROVE Q(<<leaf>>) \in Trees[n]
  <2>1. n - 1 \in 0..MaxCalls /\ n - 1 + 1 = n
    BY <1>1
  <2>2. <<leaf>> \in Seq(Leaves \cup Trees[n - 1])
    OBVIOUS
  <2>3. Node(<<leaf>>, "AND", FALSE) \in Trees[n - 1 + 1]
    BY <2>1, <2>2, NodeType
  <2>4. QED
    BY <2>1, <2>3 DEF Q
<1>3. ASSUME NEW n \in 0..MaxCalls, NEW t \in Trees[n]
      PROVE  /\ Q(<<t>>) \in Trees[n + 1] /\ Q(<<t>>) \in Predicate
             /\ Invert(Q(<<t>>)) \in Predicate
             /\ Invert(t) \in Trees[n]
  <2>1. <<t>> \in Seq(Leaves \cup Trees[n])
    OBVIOUS
  <2>2. Node(<<t>>, "AND", FALSE) \in Trees[n + 1] /\ Node(<<t>>, "AND", TRUE) \in Trees[n + 1]
    BY <2>1, NodeType
  <2>3. Trees[n + 1] \subseteq Predicate
    <3>1. n + 1 \in 0..Levels
      BY <1>1
    <3>2. QED
      BY <3>1, TreesGrow
  <2>4. Q(<<t>>) = Node(<<t>>, "AND", FALSE) /\ Invert(Q(<<t>>)) = Node(<<t>>, "AND", TRUE)
    BY DEF Q, Invert, Node
  <2>5. Invert(t) \in Trees[n]
    <3>1. n \in 1..Levels
      BY <1>1, TreesIs
    <3>2. Trees[n] = [children : Seq(Leaves \cup Trees[n - 1]), conn : {"AND", "OR"},
                      negated : BOOLEAN]
      BY <3>1, TreesIs
    <3>3. QED
      BY <3>2 DEF Invert, Node
  <2>6. QED
    BY <2>2, <2>3, <2>4, <2>5
<1>4. QED
  BY <1>2, <1>3

QuerySetType ==
    [where : Seq(Predicate), order : Orders \cup {<<>>},
     limit : Int \cup {Unset}, offset : Int \cup {Unset},
     distinct : BOOLEAN, only : {"pk", "val", Unset}, loaders : BOOLEAN,
     deleted : {"exclude", "include", "only"}]

(* A builder changes one part of a queryset. *)
LEMMA PartsType ==
    ASSUME NEW s \in QuerySetType
    PROVE  /\ \A by \in Orders : [s EXCEPT !.order = by] \in QuerySetType
           /\ \A n \in Int : /\ [s EXCEPT !.limit = n] \in QuerySetType
                             /\ [s EXCEPT !.offset = n] \in QuerySetType
           /\ \A start \in Int, stop \in Int \cup {Unset} : Slice(s, start, stop) \in QuerySetType
           /\ [s EXCEPT !.distinct = TRUE] \in QuerySetType
           /\ \A field \in {"pk", "val"} : [s EXCEPT !.only = field] \in QuerySetType
           /\ [s EXCEPT !.loaders = TRUE] \in QuerySetType
           /\ \A mode \in {"include", "only"} : [s EXCEPT !.deleted = mode] \in QuerySetType
           /\ \A t \in Predicate : [s EXCEPT !.where = Append(@, t)] \in QuerySetType
<1>1. \A start \in Int, stop \in Int \cup {Unset} : Slice(s, start, stop) \in QuerySetType
  <2> SUFFICES ASSUME NEW start \in Int, NEW stop \in Int \cup {Unset}
               PROVE  Slice(s, start, stop) \in QuerySetType
    OBVIOUS
  <2> DEFINE o == IF start = 0 THEN Unset ELSE start
             l == IF stop = Unset THEN s.limit ELSE stop - start
  <2>1. o \in Int \cup {Unset} /\ l \in Int \cup {Unset}
    BY DEF QuerySetType
  <2>2. Slice(s, start, stop) = [s EXCEPT !.offset = o, !.limit = l]
    BY DEF Slice, QuerySetType
  <2> HIDE DEF o, l
  <2>3. QED
    BY <2>1, <2>2 DEF QuerySetType
<1>2. \A t \in Predicate : [s EXCEPT !.where = Append(@, t)] \in QuerySetType
  <2> SUFFICES ASSUME NEW t \in Predicate
               PROVE  [s EXCEPT !.where = Append(@, t)] \in QuerySetType
    OBVIOUS
  <2>1. s.where \in Seq(Predicate)
    BY DEF QuerySetType
  <2>2. Append(s.where, t) \in Seq(Predicate)
    BY <2>1
  <2>3. QED
    BY <2>2 DEF QuerySetType
<1>3. QED
  BY <1>1, <1>2 DEF QuerySetType

(* QueryTypeOK holds always. *)
LEMMA QueryStartsTyped == QueryInit => QueryTypeOK
<1>1. MaxCalls \in Nat
  BY QuerySetAssumption DEF QuerySetAssumption
<1>2. <<>> \in Seq(Predicate)
  OBVIOUS
<1>3. QED
  BY <1>1, <1>2 DEF QueryInit, QueryTypeOK, NewQuerySet

(* Each call keeps the types. *)
LEMMA QueryKeepsTypes == QueryTypeOK /\ [QueryNext]_queryVars => QueryTypeOK'
<1> SUFFICES ASSUME QueryTypeOK, [QueryNext]_queryVars PROVE QueryTypeOK'
  OBVIOUS
<1>1. /\ MaxCalls \in Nat /\ Levels = MaxCalls + 1 /\ Bounds \subseteq Int
      /\ rows \in Tables /\ soft \in BOOLEAN /\ calls \in 0..MaxCalls
      /\ q = Unset \/ q \in Trees[calls]
      /\ qs \in QuerySetType /\ (~soft => qs.deleted = "exclude")
  BY QuerySetAssumption DEF QuerySetAssumption, QueryTypeOK, Levels, QuerySetType
<1>2. ASSUME rows' = rows, soft' = soft, calls' \in 0..MaxCalls,
             q' = Unset \/ q' \in Trees[calls'],
             qs' \in QuerySetType, ~soft => qs'.deleted = "exclude"
      PROVE  QueryTypeOK'
  <2>1. qs' \in [where : Seq(Predicate), order : Orders \cup {<<>>},
              limit : Int \cup {Unset}, offset : Int \cup {Unset},
              distinct : BOOLEAN, only : {"pk", "val", Unset}, loaders : BOOLEAN,
              deleted : {"exclude", "include", "only"}]
    BY <1>2 DEF QuerySetType
  <2>2. QED
    BY <1>1, <1>2, <2>1 DEF QueryTypeOK
<1>3. ASSUME Called PROVE calls' \in 1..MaxCalls /\ calls' = calls + 1 /\ Trees[calls] \subseteq Trees[calls']
  <2>1. calls' \in 1..MaxCalls /\ calls' = calls + 1
    BY <1>1, <1>3 DEF Called
  <2>2. calls \in 0..Levels /\ calls' \in calls..Levels
    BY <1>1, <2>1
  <2>3. QED
    BY <2>1, <2>2, TreesAbove
<1>4. ASSUME NEW leaf \in Leaves, MakeQ(leaf) PROVE QueryTypeOK'
  <2>1. calls' \in 1..MaxCalls
    BY <1>3, <1>4 DEF MakeQ
  <2>2. Q(<<leaf>>) \in Trees[calls']
    <3>1. calls' \in 1..Levels
      BY <1>1, <2>1
    <3>2. QED
      BY <3>1, QType
  <2>3. QED
    BY <1>1, <1>2, <1>4, <2>1, <2>2 DEF MakeQ
<1>5. ASSUME NEW leaf \in Leaves, NEW conn \in {"AND", "OR"}, CombineQ(leaf, conn)
      PROVE  QueryTypeOK'
  <2>1. calls' \in 1..MaxCalls /\ calls' = calls + 1 /\ q \in Trees[calls]
    BY <1>1, <1>3, <1>5 DEF CombineQ
  <2>2. calls \in 1..Levels
    BY <1>1, <2>1, TreesIs
  <2>3. Q(<<leaf>>) \in Trees[calls]
    BY <2>2, QType
  <2>4. <<q, Q(<<leaf>>)>> \in Seq(Leaves \cup Trees[calls])
    BY <2>1, <2>3
  <2>5. Combine(q, Q(<<leaf>>), conn) \in Trees[calls']
    BY <1>1, <2>1, <2>4, NodeType DEF Combine
  <2>6. QED
    BY <1>1, <1>2, <1>5, <2>1, <2>5 DEF CombineQ
<1>6. ASSUME InvertQ PROVE QueryTypeOK'
  <2>1. calls' \in 1..MaxCalls /\ Trees[calls] \subseteq Trees[calls'] /\ q \in Trees[calls]
    BY <1>1, <1>3, <1>6 DEF InvertQ
  <2>2. Invert(q) \in Trees[calls']
    BY <1>1, <2>1, QType
  <2>3. QED
    BY <1>1, <1>2, <1>6, <2>1, <2>2 DEF InvertQ
<1>7. ASSUME Filter PROVE QueryTypeOK'
  <2>1. q \in Trees[calls] /\ calls' = calls
    BY <1>1, <1>7 DEF Filter
  <2>2. Q(<<q>>) \in Predicate /\ Invert(Q(<<q>>)) \in Predicate
    BY <1>1, <2>1, QType
  <2>3. Filtered(qs, q) \in QuerySetType /\ Excluded(qs, q) \in QuerySetType
    BY <1>1, <2>2, PartsType DEF Filtered, Excluded
  <2>4. Filtered(qs, q).deleted = qs.deleted /\ Excluded(qs, q).deleted = qs.deleted
    BY <1>1 DEF Filtered, Excluded, QuerySetType
  <2>5. QED
    BY <1>1, <1>2, <1>7, <2>1, <2>3, <2>4 DEF Filter
<1>8. ASSUME NEW s \in QuerySetType, Build(s), ~soft => s.deleted = "exclude" PROVE QueryTypeOK'
  BY <1>1, <1>2, <1>3, <1>8 DEF Build
<1>9. CASE OrderBy
  <2>1. PICK by \in Orders : Build([qs EXCEPT !.order = by])
    BY <1>9 DEF OrderBy
  <2>2. [qs EXCEPT !.order = by] \in QuerySetType
    BY <1>1, PartsType
  <2>3. [qs EXCEPT !.order = by].deleted = qs.deleted
    BY <1>1 DEF QuerySetType
  <2>4. QED
    BY <1>1, <1>8, <2>1, <2>2, <2>3
<1>10. CASE Limit
  <2>1. PICK n \in Bounds : Build([qs EXCEPT !.limit = n])
    BY <1>10 DEF Limit
  <2>2. [qs EXCEPT !.limit = n] \in QuerySetType
    BY <1>1, PartsType
  <2>3. [qs EXCEPT !.limit = n].deleted = qs.deleted
    BY <1>1 DEF QuerySetType
  <2>4. QED
    BY <1>1, <1>8, <2>1, <2>2, <2>3
<1>11. CASE Offset
  <2>1. PICK n \in Bounds : Build([qs EXCEPT !.offset = n])
    BY <1>11 DEF Offset
  <2>2. [qs EXCEPT !.offset = n] \in QuerySetType
    BY <1>1, PartsType
  <2>3. [qs EXCEPT !.offset = n].deleted = qs.deleted
    BY <1>1 DEF QuerySetType
  <2>4. QED
    BY <1>1, <1>8, <2>1, <2>2, <2>3
<1>12. CASE GetItem
  <2>1. PICK start \in Bounds, stop \in Bounds \cup {Unset} : Build(Slice(qs, start, stop))
    BY <1>12 DEF GetItem
  <2>2. start \in Int /\ stop \in Int \cup {Unset}
    BY <1>1
  <2>3. Slice(qs, start, stop) \in QuerySetType
    BY <1>1, <2>2, PartsType
  <2>4. Slice(qs, start, stop).deleted = qs.deleted
    BY <1>1 DEF QuerySetType, Slice
  <2>5. QED
    BY <1>1, <1>8, <2>1, <2>3, <2>4
<1>13. CASE Distinct
  <2>1. [qs EXCEPT !.distinct = TRUE] \in QuerySetType
    BY <1>1, PartsType
  <2>2. [qs EXCEPT !.distinct = TRUE].deleted = qs.deleted
    BY <1>1 DEF QuerySetType
  <2>3. QED
    BY <1>1, <1>8, <1>13, <2>1, <2>2 DEF Distinct
<1>14. CASE Only
  <2>1. PICK field \in {"pk", "val"} : Build([qs EXCEPT !.only = field])
    BY <1>14 DEF Only
  <2>2. [qs EXCEPT !.only = field] \in QuerySetType
    BY <1>1, PartsType
  <2>3. [qs EXCEPT !.only = field].deleted = qs.deleted
    BY <1>1 DEF QuerySetType
  <2>4. QED
    BY <1>1, <1>8, <2>1, <2>2, <2>3
<1>15. CASE Loaders
  <2>1. [qs EXCEPT !.loaders = TRUE] \in QuerySetType
    BY <1>1, PartsType
  <2>2. [qs EXCEPT !.loaders = TRUE].deleted = qs.deleted
    BY <1>1 DEF QuerySetType
  <2>3. QED
    BY <1>1, <1>8, <1>15, <2>1, <2>2 DEF Loaders
<1>16. CASE Deleted
  <2>1. PICK mode \in {"include", "only"} : soft /\ Build([qs EXCEPT !.deleted = mode])
    BY <1>16 DEF Deleted
  <2>2. [qs EXCEPT !.deleted = mode] \in QuerySetType
    BY <1>1, PartsType
  <2>3. QED
    BY <1>8, <2>1, <2>2
<1>17. CASE UNCHANGED queryVars
  BY <1>1, <1>2, <1>17 DEF queryVars
<1>18. QED
  BY <1>4, <1>5, <1>6, <1>7, <1>9, <1>10, <1>11, <1>12, <1>13, <1>14, <1>15, <1>16, <1>17
     DEF QueryNext

(* QueryTypeOK: a predicate has one level for each call, and a queryset    *)
(* of a model without soft delete keeps the default deleted-mode.          *)
THEOREM QueryTypes == QuerySpec => []QueryTypeOK
  BY QueryStartsTyped, QueryKeepsTypes, PTL DEF QuerySpec

-----------------------------------------------------------------------------
(* Encoding and decoding a predicate.                                      *)

(* Decoding gives back the predicate that was encoded. *)
LEMMA SentIs == \A t \in Predicate : Decoded(ToData(t)) = t
<1> DEFINE P == {n \in 0..Levels : \A t \in Trees[n] : Decoded(ToData(t)) = t}
<1>1. Levels \in Nat /\ Levels >= 1 /\ Trees[0] = {} /\ Predicate = Trees[Levels]
  BY TreesIs DEF Predicate
<1>2. 0 \in P
  BY <1>1
<1>3. ASSUME NEW m \in 0..Levels, NEW c \in Trees[m] PROVE ~IsLeaf(ToData(c))
  <2>1. m \in 1..Levels
    BY <1>1
  <2>2. "op" \notin DOMAIN ToData(c)
    <3> DEFINE x == IF c.conn = "OR" THEN 1 ELSE 0
               y == IF c.negated THEN 1 ELSE 0
               z == [i \in DOMAIN c.children |-> IF IsLeaf(c.children[i]) THEN c.children[i]
                                                 ELSE ToData(c.children[i])]
    <3>1. ToData(c) = [conn |-> x, neg |-> y, children |-> z]
      BY <2>1, DataIs
    <3> HIDE DEF x, y, z
    <3>2. QED
      BY <3>1
  <2>3. QED
    BY <2>2 DEF IsLeaf
<1>4. ASSUME NEW n \in 1..Levels, n - 1 \in P PROVE n \in P
  <2>1. n \in 0..Levels /\ n - 1 \in 0..Levels /\ \A t \in Trees[n - 1] : Decoded(ToData(t)) = t
    BY <1>1, <1>4
  <2>2. ASSUME NEW t \in Trees[n] PROVE Decoded(ToData(t)) = t
    <3> DEFINE d == ToData(t)
               z == [i \in DOMAIN t.children |-> IF IsLeaf(t.children[i]) THEN t.children[i]
                                                 ELSE ToData(t.children[i])]
               x == IF t.conn = "OR" THEN 1 ELSE 0
               y == IF t.negated THEN 1 ELSE 0
               e == [i \in DOMAIN d.children |-> IF IsLeaf(d.children[i]) THEN d.children[i]
                                                 ELSE Decoded(d.children[i])]
    <3>1. /\ t = Node(t.children, t.conn, t.negated)
          /\ t.conn \in {"AND", "OR"} /\ t.negated \in BOOLEAN
          /\ t.children \in Seq(Leaves \cup Trees[n - 1])
          /\ \A i \in DOMAIN t.children :
                \/ t.children[i] \in Leaves /\ IsLeaf(t.children[i])
                \/ t.children[i] \in Trees[n - 1] /\ ~IsLeaf(t.children[i])
      BY TreeIs
    <3>2. d \in Encoded[n] /\ d = [conn |-> x, neg |-> y, children |-> z]
      BY DataIs
    <3>3. Decoded(d) = Node(e, IF d.conn = 1 THEN "OR" ELSE "AND", d.neg = 1)
      BY <3>2, NodeIs
    <3>4. d.conn = x /\ d.neg = y /\ d.children = z
      <4> HIDE DEF x, y, z, d
      <4>1. QED
        BY <3>2
    <3>5. (IF d.conn = 1 THEN "OR" ELSE "AND") = t.conn /\ (d.neg = 1) = t.negated
      BY <3>1, <3>4
    <3>6. DOMAIN z = DOMAIN t.children
      OBVIOUS
    <3>7. ASSUME NEW i \in DOMAIN t.children
          PROVE  (IF IsLeaf(z[i]) THEN z[i] ELSE Decoded(z[i])) = t.children[i]
      <4>1. CASE IsLeaf(t.children[i])
        BY <4>1
      <4>2. CASE ~IsLeaf(t.children[i])
        <5>1. t.children[i] \in Trees[n - 1]
          BY <3>1, <4>2
        <5>2. z[i] = ToData(t.children[i])
          BY <4>2
        <5>3. QED
          BY <1>3, <2>1, <5>1, <5>2
      <4>3. QED
        BY <4>1, <4>2
    <3> HIDE DEF d, z
    <3>8. e = t.children
      <4>1. DOMAIN e = DOMAIN t.children /\ \A i \in DOMAIN t.children : e[i] = t.children[i]
        BY <3>4, <3>6, <3>7
      <4>2. e = [i \in DOMAIN t.children |-> t.children[i]]
        BY <3>4, <3>6, <3>7
      <4>3. t.children = [i \in DOMAIN t.children |-> t.children[i]]
        BY <3>1
      <4>4. QED
        BY <4>2, <4>3
    <3> HIDE DEF e, x, y
    <3>9. Decoded(d) = Node(t.children, t.conn, t.negated)
      BY <3>3, <3>5, <3>8
    <3>10. QED
      BY <3>1, <3>9 DEF d
  <2>3. QED
    BY <2>1, <2>2
<1> HIDE DEF P
<1>5. \A n \in 0..Levels : n \in P
  BY <1>1, <1>2, <1>4, Induct
<1>6. QED
  BY <1>1, <1>5 DEF P

-----------------------------------------------------------------------------
(* filter() and exclude().                                                 *)

(* What a child says in one combination of rows. *)
Says3(child, env) ==
    IF IsLeaf(child) THEN Lookup(child.op, Column(child.path, env), child.arg)
    ELSE Truth(child, env)

(* TruthIs, with the values of the children by name. *)
LEMMA TruthSays ==
    ASSUME NEW env, NEW n \in 1..Levels, NEW t \in Trees[n]
    PROVE  LET all == Connected(t.conn, {Says3(child, env) : child \in Range(t.children)})
           IN Truth(t, env) \in Three /\ Truth(t, env) = IF t.negated THEN Not3(all) ELSE all
  BY TruthIs DEF Says3

(* The children of a tree are lookups of it or subtrees, whose lookups are *)
(* the tree's too.                                                         *)
LEMMA ChildrenAre ==
    ASSUME NEW n \in 1..Levels, NEW t \in Trees[n], NEW child \in Range(t.children)
    PROVE  \/ IsLeaf(child) /\ child \in LeavesOf(t)
           \/ ~IsLeaf(child) /\ child \in Trees[n - 1] /\ n - 1 \in 1..Levels
              /\ LeavesOf(child) \subseteq LeavesOf(t)
<1>1. PICK i \in DOMAIN t.children : child = t.children[i]
  BY DEF Range
<1>2. \/ child \in Leaves /\ IsLeaf(child)
      \/ child \in Trees[n - 1] /\ ~IsLeaf(child)
  BY <1>1, TreesLayered DEF Layered
<1>3. LeavesOf(t) = UNION {IF IsLeaf(c) THEN {c} ELSE LeavesOf(c) : c \in Range(t.children)}
  BY LeavesAre
<1>4. CASE IsLeaf(child)
  BY <1>3, <1>4
<1>5. CASE ~IsLeaf(child)
  <2>1. child \in Trees[n - 1] /\ Trees[0] = {} /\ Levels \in Nat
    BY <1>2, <1>5, TreesIs
  <2>2. n - 1 \in 1..Levels
    BY <2>1
  <2>3. LeavesOf(child) \subseteq LeavesOf(t)
    BY <1>3, <1>5
  <2>4. QED
    BY <1>5, <2>1, <2>2, <2>3
<1>6. QED
  BY <1>4, <1>5

(* Rows that give the lookups of a predicate the same columns give it the  *)
(* same value.                                                             *)
LEMMA TruthDependsOnColumns ==
    ASSUME NEW a, NEW b, NEW t \in Predicate,
           \A leaf \in LeavesOf(t) : Column(leaf.path, a) = Column(leaf.path, b)
    PROVE  Truth(t, a) = Truth(t, b)
<1> DEFINE Alike(s) == \A leaf \in LeavesOf(s) : Column(leaf.path, a) = Column(leaf.path, b)
           P == {n \in 0..Levels : \A s \in Trees[n] : Alike(s) => Truth(s, a) = Truth(s, b)}
<1>1. Levels \in Nat /\ Levels >= 1 /\ Trees[0] = {} /\ Predicate = Trees[Levels]
  BY TreesIs DEF Predicate
<1>2. 0 \in P
  BY <1>1
<1>3. ASSUME NEW n \in 1..Levels, n - 1 \in P PROVE n \in P
  <2>1. \A s \in Trees[n - 1] : Alike(s) => Truth(s, a) = Truth(s, b)
    BY <1>3
  <2>2. ASSUME NEW s \in Trees[n], Alike(s) PROVE Truth(s, a) = Truth(s, b)
    <3>1. ASSUME NEW child \in Range(s.children) PROVE Says3(child, a) = Says3(child, b)
      BY <2>1, <2>2, ChildrenAre DEF Says3
    <3> DEFINE A == {Says3(child, a) : child \in Range(s.children)}
               B == {Says3(child, b) : child \in Range(s.children)}
    <3>2. A = B
      BY <3>1
    <3>3. Truth(s, a) = IF s.negated THEN Not3(Connected(s.conn, A)) ELSE Connected(s.conn, A)
      BY TruthSays
    <3>4. Truth(s, b) = IF s.negated THEN Not3(Connected(s.conn, B)) ELSE Connected(s.conn, B)
      BY TruthSays
    <3> HIDE DEF A, B
    <3>5. QED
      BY <3>2, <3>3, <3>4
  <2>3. n \in 0..Levels
    BY <1>1
  <2> HIDE DEF Alike
  <2>4. QED
    BY <2>2, <2>3
<1> HIDE DEF P
<1>4. \A n \in 0..Levels : n \in P
  BY <1>1, <1>2, <1>3, Induct
<1>5. QED
  BY <1>1, <1>4 DEF P

(* A predicate is unknown only where one of its lookups is. *)
LEMMA UnknownLookup ==
    ASSUME NEW env, NEW t \in Predicate, Truth(t, env) \notin {"true", "false"}
    PROVE  \E leaf \in LeavesOf(t) :
              Lookup(leaf.op, Column(leaf.path, env), leaf.arg) = "unknown"
<1> DEFINE Unknown(s) == \E leaf \in LeavesOf(s) :
                            Lookup(leaf.op, Column(leaf.path, env), leaf.arg) = "unknown"
           P == {n \in 0..Levels : \A s \in Trees[n] : Truth(s, env) = "unknown" => Unknown(s)}
<1>1. Levels \in Nat /\ Levels >= 1 /\ Trees[0] = {} /\ Predicate = Trees[Levels]
  BY TreesIs DEF Predicate
<1>2. 0 \in P
  BY <1>1
<1>3. ASSUME NEW n \in 1..Levels, n - 1 \in P PROVE n \in P
  <2>1. \A s \in Trees[n - 1] : Truth(s, env) = "unknown" => Unknown(s)
    BY <1>3
  <2>2. ASSUME NEW s \in Trees[n], Truth(s, env) = "unknown" PROVE Unknown(s)
    <3> DEFINE A == {Says3(child, env) : child \in Range(s.children)}
    <3>1. Truth(s, env) = IF s.negated THEN Not3(Connected(s.conn, A)) ELSE Connected(s.conn, A)
      BY TruthSays
    <3>2. Connected(s.conn, A) = "unknown"
      BY <2>2, <3>1 DEF Not3, Connected, And3, Or3
    <3>3. "unknown" \in A
      <4> HIDE DEF A
      <4>1. QED
        BY <3>2 DEF Connected, And3, Or3
    <3>4. PICK child \in Range(s.children) : Says3(child, env) = "unknown"
      BY <3>3
    <3>5. QED
      BY <2>1, <3>4, ChildrenAre DEF Says3
  <2>3. n \in 0..Levels
    BY <1>1
  <2> HIDE DEF Unknown
  <2>4. QED
    BY <2>2, <2>3
<1> HIDE DEF P
<1>4. \A n \in 0..Levels : n \in P
  BY <1>1, <1>2, <1>3, Induct
<1>5. Truth(t, env) = "unknown"
  <2>1. Levels \in 1..Levels /\ t \in Trees[Levels]
    BY <1>1
  <2>2. Truth(t, env) \in Three
    BY <2>1, TruthIs
  <2>3. QED
    BY <2>2 DEF Three
<1>6. QED
  BY <1>1, <1>4, <1>5 DEF P

(* Q(q) says what q says, and ~Q(q) the contrary. *)
LEMMA QSays ==
    ASSUME NEW n \in 0..MaxCalls, NEW t \in Trees[n], NEW env
    PROVE  /\ Truth(Q(<<t>>), env) = Truth(t, env)
           /\ Truth(Invert(Q(<<t>>)), env) = Not3(Truth(t, env))
           /\ LeavesOf(Q(<<t>>)) = LeavesOf(t)
           /\ LeavesOf(Invert(Q(<<t>>))) = LeavesOf(t)
           /\ Truth(t, env) \in Three /\ t \in Predicate
<1>1. MaxCalls \in Nat /\ Levels = MaxCalls + 1 /\ Predicate = Trees[Levels] /\ Levels \in 1..Levels
  BY QuerySetAssumption DEF QuerySetAssumption, Levels, Predicate
<1>2. Q(<<t>>) \in Trees[Levels] /\ Invert(Q(<<t>>)) \in Trees[Levels]
  BY <1>1, QType
<1>3. n \in 1..Levels /\ Trees[n] \subseteq Predicate
  BY <1>1, TreesIs, TreesGrow
<1>4. ~IsLeaf(t) /\ Truth(t, env) \in Three
  BY <1>3, TreeIs, TruthIs
<1>5. /\ Q(<<t>>).children = <<t>> /\ Q(<<t>>).conn = "AND" /\ ~Q(<<t>>).negated
      /\ Invert(Q(<<t>>)).children = <<t>> /\ Invert(Q(<<t>>)).conn = "AND"
      /\ Invert(Q(<<t>>)).negated
  BY DEF Q, Invert, Node
<1>6. Range(<<t>>) = {t}
  BY DEF Range
<1>7. {Says3(child, env) : child \in Range(<<t>>)} = {Truth(t, env)}
  BY <1>4, <1>6 DEF Says3
<1>8. Connected("AND", {Truth(t, env)}) = Truth(t, env)
  BY <1>4 DEF Connected, And3, Three
<1>9. /\ Truth(Q(<<t>>), env) = Truth(t, env)
      /\ Truth(Invert(Q(<<t>>)), env) = Not3(Truth(t, env))
  <2>1. ASSUME NEW u \in Trees[Levels], u.children = <<t>>, u.conn = "AND"
        PROVE  Truth(u, env) = IF u.negated THEN Not3(Truth(t, env)) ELSE Truth(t, env)
    <3>1. Connected(u.conn, {Says3(child, env) : child \in Range(u.children)}) = Truth(t, env)
      BY <1>7, <1>8, <2>1
    <3>2. QED
      BY <1>1, <3>1, TruthSays
  <2>2. Truth(Q(<<t>>), env) = Truth(t, env)
    BY <1>2, <1>5, <2>1
  <2>3. Truth(Invert(Q(<<t>>)), env) = Not3(Truth(t, env))
    BY <1>2, <1>5, <2>1
  <2>4. QED
    BY <2>2, <2>3
<1>10. UNION {IF IsLeaf(child) THEN {child} ELSE LeavesOf(child) : child \in Range(<<t>>)} = LeavesOf(t)
  BY <1>4, <1>6
<1>11. LeavesOf(Q(<<t>>)) = LeavesOf(t) /\ LeavesOf(Invert(Q(<<t>>))) = LeavesOf(t)
  BY <1>1, <1>2, <1>5, <1>10, LeavesAre
<1>12. QED
  BY <1>3, <1>4, <1>9, <1>11

(* The combinations of joined rows depend on the names that are joined. *)
EnvOf(pk, names, g) == [n \in names \cup {"root"} |-> IF n = "root" THEN Entity(pk) ELSE g[n]]

Choice(pk, names, mode, g) ==
    /\ g \in [names -> UNION {rows[pk].related[n] : n \in names}]
    /\ \A n \in names : g[n] \in rows[pk].related[n]
    /\ ~soft \/ mode # "exclude" \/ ~Entity(pk).dead
    /\ \A n \in names : ~soft \/ mode # "exclude" \/ ~g[n].dead

(* Envs, with its parts by name. *)
LEMMA EnvsAre ==
    ASSUME NEW pk, NEW s, NEW mode
    PROVE  \A env : env \in Envs(pk, s, mode) <=>
              \E g : Choice(pk, JoinNames(s), mode, g) /\ env = EnvOf(pk, JoinNames(s), g)
  BY DEF Envs, Choice, EnvOf

(* A combination of more joined rows holds one of fewer. *)
LEMMA Narrowed ==
    ASSUME NEW pk, NEW mode, NEW s, NEW f, JoinNames(s) \subseteq JoinNames(f),
           NEW env \in Envs(pk, f, mode)
    PROVE  LET r == [n \in JoinNames(s) \cup {"root"} |-> env[n]]
           IN  /\ r \in Envs(pk, s, mode)
               /\ r["root"] = env["root"] /\ \A n \in JoinNames(s) : r[n] = env[n]
<1> DEFINE small == JoinNames(s)
           large == JoinNames(f)
           r == [n \in small \cup {"root"} |-> env[n]]
<1>1. PICK g : Choice(pk, large, mode, g) /\ env = EnvOf(pk, large, g)
  BY EnvsAre
<1> DEFINE h == [n \in small |-> g[n]]
<1> HIDE DEF small, large
<1>2. small \subseteq large
  BY DEF small, large
<1>3. Choice(pk, small, mode, h)
  BY <1>1, <1>2 DEF Choice
<1>4. r = EnvOf(pk, small, h)
  BY <1>1, <1>2 DEF EnvOf
<1>5. r \in Envs(pk, s, mode)
  BY <1>3, <1>4, EnvsAre DEF small
<1>6. QED
  BY <1>5 DEF small

(* A lookup through a relationship joins it. *)
LEMMA JoinedName ==
    ASSUME NEW s, NEW leaf \in WhereLeaves(s), leaf \in Leaves, Len(leaf.path) # 1
    PROVE  leaf.path[1] \in JoinNames(s)
<1>1. leaf.path \in Seq(STRING) /\ leaf.path # <<>>
  BY QuerySetAssumption DEF QuerySetAssumption
<1>2. Len(leaf.path) \in Nat /\ Len(leaf.path) # 0
  BY <1>1
<1>3. 1 \in 1..Len(leaf.path) - 1
  <2> DEFINE l == Len(leaf.path)
  <2>1. l \in Nat /\ l # 0 /\ l # 1
    BY <1>2
  <2> HIDE DEF l
  <2>2. 1 \in 1..l - 1
    BY <2>1
  <2>3. QED
    BY <2>2 DEF l
<1>4. <<Through(leaf.path)[1], leaf.path[1]>> \in JoinsOf(leaf.path)
  BY <1>3 DEF JoinsOf
<1>5. <<Through(leaf.path)[1], leaf.path[1]>> \in Joins(s)
  BY <1>4 DEF Joins
<1>6. QED
  BY <1>5 DEF JoinNames

(* Two combinations that share the joined rows of a lookup give it the     *)
(* same column.                                                            *)
LEMMA SameColumn ==
    ASSUME NEW s, NEW leaf \in WhereLeaves(s), leaf \in Leaves, NEW a, NEW b,
           a["root"] = b["root"], \A n \in JoinNames(s) : a[n] = b[n]
    PROVE  Column(leaf.path, a) = Column(leaf.path, b)
<1>1. CASE Len(leaf.path) = 1
  BY <1>1 DEF Column
<1>2. CASE Len(leaf.path) # 1
  <2>1. a[leaf.path[1]] = b[leaf.path[1]]
    BY <1>2, JoinedName
  <2>2. QED
    BY <1>2, <2>1 DEF Column
<1>3. QED
  BY <1>1, <1>2

(* The lookups of a queryset are leaves, and finitely many. *)
LEMMA WhereLeavesAre ==
    ASSUME NEW s \in QuerySetType
    PROVE  WhereLeaves(s) \subseteq Leaves /\ IsFiniteSet(WhereLeaves(s))
<1>1. s.where \in Seq(Predicate) /\ Levels \in 1..Levels /\ Predicate = Trees[Levels]
  BY TreesIs DEF QuerySetType, Predicate
<1>2. Len(s.where) \in Nat /\ DOMAIN s.where = 1..Len(s.where)
      /\ \A i \in DOMAIN s.where : s.where[i] \in Predicate
  BY <1>1
<1>3. \A i \in DOMAIN s.where : LeavesOf(s.where[i]) \subseteq Leaves
                                /\ IsFiniteSet(LeavesOf(s.where[i]))
  BY <1>1, <1>2, LeavesAre
<1> DEFINE sets == {LeavesOf(s.where[i]) : i \in DOMAIN s.where}
           h == [i \in 1..Len(s.where) |-> LeavesOf(s.where[i])]
<1>4. h \in Surjection(1..Len(s.where), sets)
  BY <1>2, Fun_IsSurj
<1>5. \A S \in sets : IsFiniteSet(S)
  BY <1>3
<1>6. IsFiniteSet(1..Len(s.where))
  BY <1>2, FS_Interval
<1> HIDE DEF h, sets
<1>7. IsFiniteSet(sets)
  BY <1>4, <1>6, FS_Surjection
<1>8. IsFiniteSet(UNION sets)
  BY <1>5, <1>7, FS_UNION
<1>9. QED
  BY <1>3, <1>8 DEF WhereLeaves, sets

AllTrue(s, env) == \A i \in DOMAIN s.where : Truth(s.where[i], env) = "true"

WithPredicate(s, x) == [s EXCEPT !.where = Append(@, x)]

(* What filter(q) and exclude(q) make of a queryset. *)
LEMMA OneMore ==
    ASSUME NEW s \in QuerySetType, NEW n \in 0..MaxCalls, NEW t \in Trees[n],
           NEW x, x = Q(<<t>>) \/ x = Invert(Q(<<t>>))
    PROVE  /\ WithPredicate(s, x).deleted = s.deleted /\ WithPredicate(s, x) \in QuerySetType
           /\ WhereLeaves(WithPredicate(s, x)) = WhereLeaves(s) \cup LeavesOf(t)
           /\ \A env : AllTrue(WithPredicate(s, x), env) <=> AllTrue(s, env) /\ Truth(x, env) = "true"
<1> DEFINE f == WithPredicate(s, x)
<1>1. s.where \in Seq(Predicate) /\ f.where = Append(s.where, x) /\ f.deleted = s.deleted
  BY DEF QuerySetType, WithPredicate
<1> DEFINE l == Len(s.where)
<1>2. l \in Nat /\ DOMAIN s.where = 1..l
  BY <1>1
<1>3. /\ DOMAIN f.where = 1..l + 1 /\ f.where[l + 1] = x
      /\ \A i \in 1..l : f.where[i] = s.where[i]
  BY <1>1
<1> HIDE DEF l, f
<1>4. DOMAIN f.where = DOMAIN s.where \cup {l + 1}
  BY <1>2, <1>3
<1>5. LeavesOf(x) = LeavesOf(t)
  BY QSays
<1>6. WhereLeaves(f) = WhereLeaves(s) \cup LeavesOf(t)
  BY <1>2, <1>3, <1>4, <1>5 DEF WhereLeaves
<1>7. f \in QuerySetType
  <2>1. x \in Predicate
    BY QType
  <2>2. QED
    BY <2>1, PartsType DEF f, WithPredicate
<1>8. ASSUME NEW env
      PROVE  AllTrue(f, env) <=> AllTrue(s, env) /\ Truth(x, env) = "true"
  BY <1>2, <1>3, <1>4 DEF AllTrue
<1>9. QED
  BY <1>1, <1>6, <1>7, <1>8 DEF f

(* ExcludeComplements holds in every state whose types are right. *)
LEMMA TypedExcludeComplements == QueryTypeOK => ExcludeComplements
<1> SUFFICES ASSUME QueryTypeOK, q # Unset PROVE ExcludeComplements
  BY DEF ExcludeComplements
<1> DEFINE f == Filtered(qs, q)
           e == Excluded(qs, q)
           E(pk) == Envs(pk, f, f.deleted)
<1>1. calls \in 0..MaxCalls /\ q \in Trees[calls] /\ qs \in QuerySetType
  BY DEF QueryTypeOK, QuerySetType
<1>a. f = WithPredicate(qs, Q(<<q>>)) /\ e = WithPredicate(qs, Invert(Q(<<q>>)))
  BY DEF Filtered, Excluded, WithPredicate
<1> HIDE DEF f, e
<1>2. /\ f.deleted = qs.deleted /\ f \in QuerySetType
      /\ WhereLeaves(f) = WhereLeaves(qs) \cup LeavesOf(q)
      /\ \A env : AllTrue(f, env) <=> AllTrue(qs, env) /\ Truth(Q(<<q>>), env) = "true"
  BY <1>1, <1>a, OneMore
<1>3. /\ e.deleted = qs.deleted /\ e \in QuerySetType
      /\ WhereLeaves(e) = WhereLeaves(qs) \cup LeavesOf(q)
      /\ \A env : AllTrue(e, env) <=> AllTrue(qs, env) /\ Truth(Invert(Q(<<q>>)), env) = "true"
  BY <1>1, <1>a, OneMore
<1>4. \A env : /\ Truth(Q(<<q>>), env) = Truth(q, env)
               /\ Truth(Invert(Q(<<q>>)), env) = Not3(Truth(q, env))
               /\ Truth(q, env) \in Three /\ q \in Predicate
  BY <1>1, QSays
<1>5. \A pk : Envs(pk, e, e.deleted) = E(pk)
  <2>1. Joins(e) = Joins(f)
    BY <1>2, <1>3 DEF Joins
  <2>2. JoinNames(e) = JoinNames(f)
    BY <2>1 DEF JoinNames
  <2>3. ASSUME NEW pk PROVE Envs(pk, e, e.deleted) = Envs(pk, f, f.deleted)
    BY <1>2, <1>3, <2>2 DEF Envs
  <2>4. QED
    BY <2>3
<1>6. JoinNames(qs) \subseteq JoinNames(f)
  BY <1>2 DEF JoinNames, Joins
<1>7. WhereLeaves(qs) \subseteq Leaves
  BY <1>1, WhereLeavesAre
<1> HIDE DEF E
<1>8. ASSUME NEW s \in {f, e, qs}, NEW pk
      PROVE  Matches(pk, s, s.deleted) =
                IF ~InMode(rows[pk], qs.deleted) THEN {}
                ELSE {env \in Envs(pk, s, s.deleted) : AllTrue(s, env)}
  BY <1>2, <1>3 DEF Matches, AllTrue
<1>9. ASSUME NEW pk, NEW env \in E(pk), AllTrue(qs, env), InMode(rows[pk], qs.deleted)
      PROVE  Matches(pk, qs, qs.deleted) # {}
  <2> DEFINE r == [n \in JoinNames(qs) \cup {"root"} |-> env[n]]
  <2>1. /\ r \in Envs(pk, qs, qs.deleted)
        /\ r["root"] = env["root"] /\ \A n \in JoinNames(qs) : r[n] = env[n]
    BY <1>2, <1>6, Narrowed DEF E
  <2> HIDE DEF r
  <2>2. \A leaf \in WhereLeaves(qs) : Column(leaf.path, r) = Column(leaf.path, env)
    BY <1>7, <2>1, SameColumn
  <2>3. ASSUME NEW i \in DOMAIN qs.where PROVE Truth(qs.where[i], r) = "true"
    <3>1. qs.where[i] \in Predicate
      BY <1>1 DEF QuerySetType
    <3>2. LeavesOf(qs.where[i]) \subseteq WhereLeaves(qs)
      BY DEF WhereLeaves
    <3>3. Truth(qs.where[i], r) = Truth(qs.where[i], env)
      BY <2>2, <3>1, <3>2, TruthDependsOnColumns
    <3>4. QED
      BY <1>9, <3>3 DEF AllTrue
  <2>4. AllTrue(qs, r)
    BY <2>3 DEF AllTrue
  <2>5. QED
    BY <1>8, <1>9, <2>1, <2>4
<1>10. ASSUME NEW pk
       PROVE  /\ Matches(pk, f, f.deleted) =
                    IF ~InMode(rows[pk], qs.deleted) THEN {}
                    ELSE {env \in E(pk) : AllTrue(qs, env) /\ Truth(q, env) = "true"}
              /\ Matches(pk, e, e.deleted) =
                    IF ~InMode(rows[pk], qs.deleted) THEN {}
                    ELSE {env \in E(pk) : AllTrue(qs, env) /\ Truth(q, env) = "false"}
  <2>1. \A env : (Not3(Truth(q, env)) = "true") <=> (Truth(q, env) = "false")
    BY <1>4 DEF Not3, Three
  <2>2. Envs(pk, f, f.deleted) = E(pk) /\ Envs(pk, e, e.deleted) = E(pk)
    BY <1>5 DEF E
  <2>3. /\ \A env : AllTrue(f, env) <=> AllTrue(qs, env) /\ Truth(q, env) = "true"
        /\ \A env : AllTrue(e, env) <=> AllTrue(qs, env) /\ Truth(q, env) = "false"
    BY <1>2, <1>3, <1>4, <2>1
  <2>4. /\ {env \in E(pk) : AllTrue(f, env)} =
              {env \in E(pk) : AllTrue(qs, env) /\ Truth(q, env) = "true"}
        /\ {env \in E(pk) : AllTrue(e, env)} =
              {env \in E(pk) : AllTrue(qs, env) /\ Truth(q, env) = "false"}
    BY <2>3
  <2>5. QED
    BY <1>8, <2>2, <2>4
<1>11. Picks(f) \cup Picks(e) \subseteq Picks(qs)
  BY <1>9, <1>10 DEF Picks
<1>12. ASSUME NEW pk \in Picks(qs), pk \in Picks(f) \cap Picks(e)
       PROVE  \E a, b \in Envs(pk, f, f.deleted) : a # b
  <2>1. PICK a \in E(pk) : Truth(q, a) = "true"
    BY <1>10, <1>12 DEF Picks
  <2>2. PICK b \in E(pk) : Truth(q, b) = "false"
    BY <1>10, <1>12 DEF Picks
  <2>3. QED
    BY <2>1, <2>2 DEF E
<1>13. ASSUME NEW pk \in Picks(qs), pk \notin Picks(f) \cup Picks(e),
              NEW env \in Envs(pk, f, f.deleted), AllTrue(qs, env)
       PROVE  \E leaf \in LeavesOf(q) :
                 Lookup(leaf.op, Column(leaf.path, env), leaf.arg) = "unknown"
  <2>1. pk \in DOMAIN rows /\ InMode(rows[pk], qs.deleted)
    BY <1>8, <1>13 DEF Picks
  <2>2. Matches(pk, f, f.deleted) = {} /\ Matches(pk, e, e.deleted) = {}
    BY <1>13, <2>1 DEF Picks
  <2>3. Truth(q, env) \notin {"true", "false"}
    <3>1. env \in E(pk) /\ AllTrue(qs, env)
      BY <1>13 DEF E
    <3>2. {x \in E(pk) : AllTrue(qs, x) /\ Truth(q, x) = "true"} = {}
      BY <1>10, <2>1, <2>2
    <3>3. {x \in E(pk) : AllTrue(qs, x) /\ Truth(q, x) = "false"} = {}
      BY <1>10, <2>1, <2>2
    <3>4. QED
      BY <3>1, <3>2, <3>3
  <2>4. QED
    BY <1>4, <2>3, UnknownLookup
<1>14. QED
  BY <1>11, <1>12, <1>13 DEF ExcludeComplements, AllTrue, f, e

(* ExcludeComplements: filter(q) and exclude(q) split what was there, but  *)
(* for lookups that are unknown and rows joined to several.                *)
THEOREM ExcludeAlways == QuerySpec => []ExcludeComplements
  BY QueryTypes, TypedExcludeComplements, PTL

-----------------------------------------------------------------------------
(* The tables are finite, and so are the joins.                            *)

(* There are finitely many functions between finite sets. *)
LEMMA FiniteFunctions ==
    ASSUME NEW S, IsFiniteSet(S), NEW T, IsFiniteSet(T)
    PROVE  IsFiniteSet([S -> T])
<1> DEFINE Pairs == SUBSET (S \X T)
           h == [f \in [S -> T] |-> {<<x, f[x]>> : x \in S}]
<1>1. IsFiniteSet(S \X T)
  BY FS_Product
<1>2. IsFiniteSet(Pairs)
  BY <1>1, FS_SUBSET
<1>3. h \in [[S -> T] -> Pairs]
  OBVIOUS
<1>4. ASSUME NEW f \in [S -> T], NEW g \in [S -> T], h[f] = h[g] PROVE f = g
  <2>1. ASSUME NEW x \in S PROVE f[x] = g[x]
    <3>1. <<x, f[x]>> \in h[g]
      BY <1>4
    <3>2. PICK y \in S : <<x, f[x]>> = <<y, g[y]>>
      BY <3>1
    <3>3. QED
      BY <3>2
  <2>2. QED
    BY <2>1
<1> HIDE DEF h, Pairs
<1>5. h \in Injection([S -> T], Pairs)
  BY <1>3, <1>4, Fun_IsInj
<1>6. QED
  BY <1>2, <1>5, FS_Injection

(* What a path leads through: the target of each of its steps. *)
LEMMA ThroughIs ==
    ASSUME NEW path \in Seq(STRING)
    PROVE  \A i \in 1..Len(path) :
              Through(path)[i] =
                 IF i = 1 THEN Root
                 ELSE LET step == <<Through(path)[i - 1], path[i - 1]>>
                      IN IF step \in DOMAIN Target THEN Target[step] ELSE Unset
<1> DEFINE Next1(m, p) == IF <<m, p>> \in DOMAIN Target THEN Target[<<m, p>>] ELSE Unset
           Body(f, i) == IF i = 1 THEN Root ELSE Next1(f[i - 1], path[i - 1])
           Fix(f, n) == f = [i \in 1..n |-> Body(f, i)]
           P == {n \in 0..Len(path) : \E f : Fix(f, n)}
<1>1. Len(path) \in Nat
  OBVIOUS
<1> HIDE DEF Next1
<1>2. 0 \in P
  <2>1. Fix([i \in 1..0 |-> Root], 0)
    OBVIOUS
  <2> HIDE DEF Fix
  <2>2. QED
    BY <1>1, <2>1
<1>3. ASSUME NEW n \in 1..Len(path), n - 1 \in P PROVE n \in P
  <2> HIDE DEF Fix
  <2>1. PICK e : Fix(e, n - 1)
    BY <1>3
  <2>2. \A i \in 1..n - 1 : e[i] = Body(e, i)
    <3> HIDE DEF Body
    <3>1. QED
      BY <2>1 DEF Fix
  <2> DEFINE f == [i \in 1..n |-> IF i = n THEN Body(e, n) ELSE e[i]]
  <2>3. n \in Nat /\ n >= 1
    BY <1>1
  <2>4. ASSUME NEW i \in 1..n PROVE f[i] = Body(f, i)
    <3>1. i - 1 \in 1..n - 1 \/ i = 1
      BY <2>3
    <3>2. \A j \in 1..n - 1 : f[j] = e[j]
      BY <2>3
    <3>3. f[i] = Body(e, i)
      <4>1. CASE i = n
        BY <4>1
      <4>2. CASE i # n
        <5>1. i \in 1..n - 1
          BY <2>3, <4>2
        <5> HIDE DEF f
        <5>2. QED
          BY <2>2, <3>2, <5>1
      <4>3. QED
        BY <4>1, <4>2
    <3> HIDE DEF f
    <3>4. Body(e, i) = Body(f, i)
      BY <3>1, <3>2
    <3>5. QED
      BY <3>3, <3>4
  <2>5. f = [i \in 1..n |-> f[i]]
    OBVIOUS
  <2> HIDE DEF f, Body
  <2>6. f = [i \in 1..n |-> Body(f, i)]
    BY <2>4, <2>5
  <2>7. Fix(f, n)
    BY <2>6 DEF Fix
  <2>8. QED
    BY <1>1, <2>7
<1> HIDE DEF P
<1>4. \A n \in 0..Len(path) : n \in P
  BY <1>1, <1>2, <1>3, Induct
<1> HIDE DEF Fix
<1>5. \E f : Fix(f, Len(path))
  BY <1>1, <1>4 DEF P
<1> DEFINE w == CHOOSE f : Fix(f, Len(path))
<1>6. Fix(w, Len(path))
  BY <1>5
<1>7. Through(path) = w
  BY DEF Through, Fix, Next1
<1> HIDE DEF w
<1>8. \A i \in 1..Len(path) : w[i] = Body(w, i)
  <2> HIDE DEF Body
  <2>1. QED
    BY <1>6 DEF Fix
<1>9. QED
  BY <1>7, <1>8 DEF Next1

(* A lookup that is not refused goes through one relationship of the root  *)
(* at most, one with a target.                                             *)
LEMMA OneJoin ==
    ASSUME NEW leaf \in Leaves, ~LeafRefused(leaf), ~JoinsRefused(JoinsOf(leaf.path))
    PROVE  /\ JoinsOf(leaf.path) \subseteq {<<Root, leaf.path[1]>>}
           /\ \A j \in JoinsOf(leaf.path) : j \in DOMAIN Target
<1> DEFINE path == leaf.path
           l == Len(leaf.path)
           at == Through(leaf.path)
<1>1. path \in Seq(STRING) /\ path # <<>>
  BY QuerySetAssumption DEF QuerySetAssumption
<1>2. l \in Nat /\ ~(l > 2)
  BY <1>1, OneRelationship
<1> HIDE DEF l
<1>3. \A i \in 1..l - 1 : i = 1 /\ 1 \in 1..l /\ 2 \in 1..l
  BY <1>2
<1>4. \A i \in 1..l : at[i] =
         IF i = 1 THEN Root
         ELSE IF <<at[i - 1], path[i - 1]>> \in DOMAIN Target
              THEN Target[<<at[i - 1], path[i - 1]>>] ELSE Unset
  <2>1. \A i \in 1..Len(path) : at[i] =
           IF i = 1 THEN Root
           ELSE LET step == <<at[i - 1], path[i - 1]>>
                IN IF step \in DOMAIN Target THEN Target[step] ELSE Unset
    BY <1>1, ThroughIs
  <2>2. QED
    BY <2>1 DEF l
<1>5. \A i \in 1..l : at[i] # Unset
  BY DEF LeafRefused, l
<1>6. JoinsOf(leaf.path) = {<<at[i], path[i]>> : i \in 1..l - 1}
  BY DEF JoinsOf, l
<1> HIDE DEF at, path
<1>7. ASSUME NEW i \in 1..l - 1 PROVE i = 1 /\ at[1] = Root /\ <<Root, path[1]>> \in DOMAIN Target
  <2>1. i = 1 /\ 1 \in 1..l /\ 2 \in 1..l
    BY <1>3
  <2>2. at[1] = Root
    BY <1>4, <2>1
  <2>3. at[2] # Unset
    BY <1>5, <2>1
  <2>4. at[2] = IF <<at[1], path[1]>> \in DOMAIN Target
                THEN Target[<<at[1], path[1]>>] ELSE Unset
    BY <1>4, <2>1
  <2>5. QED
    BY <2>1, <2>2, <2>3, <2>4
<1>8. QED
  BY <1>6, <1>7 DEF path

(* A queryset that compiles joins finitely many relationships of the root. *)
LEMMA JoinsAre ==
    ASSUME NEW s \in QuerySetType, ~Fails(s)
    PROVE  /\ IsFiniteSet(JoinNames(s))
           /\ \A n \in JoinNames(s) : \E j \in DOMAIN Target : j[1] = Root /\ j[2] = n
<1>1. WhereLeaves(s) \subseteq Leaves /\ IsFiniteSet(WhereLeaves(s))
  BY WhereLeavesAre
<1>2. ASSUME NEW leaf \in WhereLeaves(s)
      PROVE  /\ JoinsOf(leaf.path) \subseteq {<<Root, leaf.path[1]>>}
             /\ \A j \in JoinsOf(leaf.path) : j \in DOMAIN Target
  <2>1. leaf \in Leaves /\ ~LeafRefused(leaf)
    BY <1>1 DEF Fails
  <2>2. ~JoinsRefused(JoinsOf(leaf.path))
    <3>1. ~JoinsRefused(Joins(s))
      BY DEF Fails
    <3>2. JoinsOf(leaf.path) \subseteq Joins(s)
      BY DEF Joins
    <3>3. QED
      BY <3>1, <3>2 DEF JoinsRefused
  <2>3. QED
    BY <2>1, <2>2, OneJoin
<1>3. ASSUME NEW n \in JoinNames(s)
      PROVE  \E leaf \in WhereLeaves(s) : n = leaf.path[1] /\ <<Root, n>> \in DOMAIN Target
  <2>1. PICK j \in Joins(s) : n = j[2]
    BY DEF JoinNames
  <2>2. PICK leaf \in WhereLeaves(s) : j \in JoinsOf(leaf.path)
    BY DEF Joins
  <2>3. j = <<Root, leaf.path[1]>> /\ j \in DOMAIN Target
    BY <1>2, <2>2
  <2>4. QED
    BY <2>1, <2>3
<1> DEFINE names == {leaf.path[1] : leaf \in WhereLeaves(s)}
           h == [leaf \in WhereLeaves(s) |-> leaf.path[1]]
<1>4. h \in Surjection(WhereLeaves(s), names)
  BY Fun_IsSurj
<1>5. IsFiniteSet(names)
  <2> HIDE DEF h, names
  <2>1. QED
    BY <1>1, <1>4, FS_Surjection
<1>6. JoinNames(s) \subseteq names
  BY <1>3
<1> HIDE DEF names
<1>7. IsFiniteSet(JoinNames(s))
  BY <1>5, <1>6, FS_Subset
<1>8. ASSUME NEW n \in JoinNames(s) PROVE \E j \in DOMAIN Target : j[1] = Root /\ j[2] = n
  <2>1. <<Root, n>> \in DOMAIN Target /\ <<Root, n>>[1] = Root /\ <<Root, n>>[2] = n
    BY <1>3
  <2>2. QED
    BY <2>1
<1>9. QED
  BY <1>7, <1>8

(* A row matches in finitely many combinations. *)
LEMMA MatchesFinite ==
    ASSUME rows \in Tables, NEW s \in QuerySetType, ~Fails(s), NEW pk \in DOMAIN rows, NEW mode
    PROVE  IsFiniteSet(Envs(pk, s, mode)) /\ IsFiniteSet(Matches(pk, s, mode))
<1> DEFINE names == JoinNames(s)
           U == UNION {rows[pk].related[n] : n \in names}
<1>1. IsFiniteSet(names) /\ \A n \in names : IsFiniteSet(rows[pk].related[n])
  BY JoinsAre, QuerySetAssumption DEF QuerySetAssumption
<1> HIDE DEF names
<1>2. IsFiniteSet(U)
  <2> DEFINE sets == {rows[pk].related[n] : n \in names}
             h == [n \in names |-> rows[pk].related[n]]
  <2>1. h \in Surjection(names, sets)
    BY Fun_IsSurj
  <2>2. \A S \in sets : IsFiniteSet(S)
    BY <1>1
  <2> HIDE DEF h, sets
  <2>3. IsFiniteSet(sets)
    BY <1>1, <2>1, FS_Surjection
  <2>4. IsFiniteSet(UNION sets)
    BY <2>2, <2>3, FS_UNION
  <2>5. QED
    BY <2>4 DEF sets
<1> HIDE DEF U
<1>3. IsFiniteSet([names -> U])
  BY <1>1, <1>2, FiniteFunctions
<1> DEFINE C == {g \in [names -> U] : Choice(pk, names, mode, g)}
           h == [g \in C |-> EnvOf(pk, names, g)]
<1>4. IsFiniteSet(C)
  <2>1. C \subseteq [names -> U]
    OBVIOUS
  <2>2. QED
    BY <1>3, <2>1, FS_Subset
<1>5. \A g : Choice(pk, names, mode, g) => g \in C
  BY DEF Choice, U
<1> HIDE DEF C
<1>6. \A env \in Envs(pk, s, mode) : \E g \in C : h[g] = env
  BY <1>5, EnvsAre DEF names
<1>7. \A g \in C : h[g] \in Envs(pk, s, mode)
  BY EnvsAre DEF names, C
<1>8. h \in Surjection(C, Envs(pk, s, mode))
  <2>1. h \in [C -> Envs(pk, s, mode)]
    BY <1>7
  <2> HIDE DEF h
  <2>2. QED
    BY <1>6, <2>1, Fun_IsSurj
<1> HIDE DEF h
<1>9. IsFiniteSet(Envs(pk, s, mode))
  BY <1>4, <1>8, FS_Surjection
<1>10. Matches(pk, s, mode) \subseteq Envs(pk, s, mode)
  BY DEF Matches
<1>11. QED
  BY <1>9, <1>10, FS_Subset

-----------------------------------------------------------------------------
(* Predicates that were sent.                                              *)

(* A list permits only lookups that compile, but for self-references in a  *)
(* row and bounds that are NULL.                                           *)
LEMMA PermittedCompiles ==
    ASSUME NEW leaf \in Leaves, NEW allow, Permitted(leaf, allow), LeafRefused(leaf)
    PROVE  leaf.arg = <<Null>> \/ Len(leaf.path) > 2
<1> DEFINE n == Len(leaf.path)
           at == Through(leaf.path)
<1>1. leaf.path \in Seq(STRING)
  BY QuerySetAssumption DEF QuerySetAssumption
<1>2. n \in Nat
  BY <1>1
<1> HIDE DEF at
<1>3. (\A i \in 1..n : at[i] # Unset) /\ leaf.path[n] \in Fields[at[n]]
  BY DEF Permitted, at
<1>4. \/ \E i \in 1..n : at[i] = Unset
      \/ leaf.path[n] \notin Fields[at[n]]
      \/ \E i \in 1..n - 2 : at[i + 1] = at[i]
      \/ leaf.op \in {"gt", "lt"} /\ leaf.arg = <<Null>>
  BY DEF LeafRefused, at
<1> HIDE DEF n
<1>5. CASE \E i \in 1..n - 2 : at[i + 1] = at[i]
  <2>1. n > 2
    BY <1>2, <1>5
  <2>2. QED
    BY <2>1 DEF n
<1>6. QED
  BY <1>3, <1>4, <1>5

(* Only a path of several relationships comes back to the root's table     *)
(* from another one.                                                       *)
LEMMA JoinsToRoot ==
    ASSUME NEW leaf \in Leaves, NEW j \in JoinsOf(leaf.path), Target[j] # j[1], Target[j] = Root
    PROVE  Len(leaf.path) > 2
<1> DEFINE n == Len(leaf.path)
           at == Through(leaf.path)
<1>1. leaf.path \in Seq(STRING) /\ leaf.path # <<>>
  BY QuerySetAssumption DEF QuerySetAssumption
<1>2. n \in Nat /\ 1 \in 1..n
  BY <1>1
<1>3. at[1] = Root
  BY <1>1, <1>2, ThroughIs
<1>4. PICK i \in 1..n - 1 : j = <<at[i], leaf.path[i]>>
  BY DEF JoinsOf
<1> HIDE DEF at
<1>5. i # 1
  BY <1>3, <1>4
<1> HIDE DEF n
<1>6. n > 2
  BY <1>2, <1>4, <1>5
<1>7. QED
  BY <1>6 DEF n

(* What compilation refuses of a predicate alone. *)
LEMMA AloneFails ==
    ASSUME NEW n \in 0..MaxCalls, NEW t \in Trees[n], Fails(Filtered(NewQuerySet, t))
    PROVE  \/ \E leaf \in LeavesOf(t) : LeafRefused(leaf)
           \/ JoinsRefused(UNION {JoinsOf(leaf.path) : leaf \in LeavesOf(t)})
<1> DEFINE f == Filtered(NewQuerySet, t)
<1>1. NewQuerySet \in QuerySetType
  <2>1. <<>> \in Seq(Predicate)
    OBVIOUS
  <2>2. QED
    BY <2>1 DEF NewQuerySet, QuerySetType
<1>2. f = WithPredicate(NewQuerySet, Q(<<t>>))
  BY DEF Filtered, WithPredicate
<1>3. WhereLeaves(f) = WhereLeaves(NewQuerySet) \cup LeavesOf(t)
  BY <1>1, <1>2, OneMore
<1>4. NewQuerySet.where = <<>> /\ WhereLeaves(NewQuerySet) = {}
  BY DEF NewQuerySet, WhereLeaves
<1>5. Joins(f) = UNION {JoinsOf(leaf.path) : leaf \in LeavesOf(t)}
  BY <1>3, <1>4 DEF Joins
<1>6. f.limit = Unset /\ f.offset = Unset /\ f.distinct = FALSE
  BY DEF Filtered, NewQuerySet
<1> HIDE DEF f
<1>7. Fails(f)
  BY DEF f
<1>8. QED
  BY <1>3, <1>4, <1>5, <1>6, <1>7 DEF Fails

(* DecodedAlike holds in every state whose types are right. *)
LEMMA TypedDecodedAlike == QueryTypeOK => DecodedAlike
<1> DEFINE joins == UNION {JoinsOf(leaf.path) : leaf \in LeavesOf(q)}
<1> SUFFICES ASSUME QueryTypeOK, q # Unset, NEW allow
             PROVE  LET sent == FromData(ToData(q), allow)
                    IN /\ sent # Unset /\ ~Fails(Filtered(qs, q)) =>
                             Picks(Filtered(qs, sent)) = Picks(Filtered(qs, q))
                       /\ sent = Unset =>
                             \E leaf \in LeavesOf(q) :
                                ~Permitted(leaf, allow) \/ Null \in Range(leaf.arg)
                       /\ sent # Unset /\ Fails(Filtered(NewQuerySet, sent)) =>
                             \/ \E leaf \in LeavesOf(q) :
                                   leaf.arg = <<Null>> \/ Len(leaf.path) > 2
                             \/ \E j, k \in joins : j # k /\ Target[j] = Target[k]
  BY DEF DecodedAlike
<1>1. calls \in 0..MaxCalls /\ calls \in 0..Levels /\ q \in Trees[calls]
  BY QuerySetAssumption DEF QuerySetAssumption, QueryTypeOK, Levels
<1>2. q \in Predicate
  BY <1>1, TreesGrow
<1>3. FromData(ToData(q), allow) =
         IF \A leaf \in LeavesOf(q) : Permitted(leaf, allow) /\ ~Undecodable(leaf)
         THEN q ELSE Unset
  BY <1>2, SentIs DEF FromData
<1>4. LeavesOf(q) \subseteq Leaves
  <2>1. Levels \in 1..Levels /\ q \in Trees[Levels]
    BY <1>2, TreesIs DEF Predicate
  <2>2. QED
    BY <2>1, LeavesAre
<1>5. ASSUME NEW leaf \in LeavesOf(q), Undecodable(leaf) PROVE Null \in Range(leaf.arg)
  BY <1>5 DEF Undecodable
<1>6. ASSUME \A leaf \in LeavesOf(q) : Permitted(leaf, allow), Fails(Filtered(NewQuerySet, q))
      PROVE  \/ \E leaf \in LeavesOf(q) : leaf.arg = <<Null>> \/ Len(leaf.path) > 2
             \/ \E j, k \in joins : j # k /\ Target[j] = Target[k]
  <2>1. (\E leaf \in LeavesOf(q) : LeafRefused(leaf)) \/ JoinsRefused(joins)
    BY <1>1, <1>6, AloneFails
  <2>2. CASE \E leaf \in LeavesOf(q) : LeafRefused(leaf)
    BY <1>4, <1>6, <2>2, PermittedCompiles
  <2>3. CASE JoinsRefused(joins)
    <3> HIDE DEF joins
    <3>1. PICK j \in joins : /\ Target[j] # j[1]
                             /\ \/ Target[j] = Root
                                \/ \E k \in joins \ {j} : Target[k] = Target[j]
      BY <2>3 DEF JoinsRefused
    <3>2. CASE Target[j] = Root
      <4>1. PICK leaf \in LeavesOf(q) : j \in JoinsOf(leaf.path)
        BY DEF joins
      <4>2. QED
        BY <1>4, <3>1, <3>2, <4>1, JoinsToRoot
    <3>3. QED
      BY <3>1, <3>2
  <2>4. QED
    BY <2>1, <2>2, <2>3
<1> HIDE DEF joins
<1>7. CASE \A leaf \in LeavesOf(q) : Permitted(leaf, allow) /\ ~Undecodable(leaf)
  <2>1. FromData(ToData(q), allow) = q
    BY <1>3, <1>7
  <2>2. QED
    BY <1>6, <1>7, <2>1
<1>8. CASE ~\A leaf \in LeavesOf(q) : Permitted(leaf, allow) /\ ~Undecodable(leaf)
  <2>1. FromData(ToData(q), allow) = Unset
    BY <1>3, <1>8
  <2>2. QED
    BY <1>5, <1>8, <2>1
<1>9. QED
  BY <1>7, <1>8

(* DecodedAlike: a predicate that was sent and could be decoded is the     *)
(* same, and compiles but for the cases that are named; none is refused    *)
(* but for the allow-list and a NULL.                                      *)
THEOREM DecodedAlways == QuerySpec => []DecodedAlike
  BY QueryTypes, TypedDecodedAlike, PTL

-----------------------------------------------------------------------------
(* Sequences of rows.                                                      *)

(* A function on 1..n is a sequence of length n. *)
LEMMA IsSequence ==
    ASSUME NEW n \in Nat, NEW f, f = [i \in 1..n |-> f[i]]
    PROVE  /\ f \in Seq({f[i] : i \in 1..n}) /\ Len(f) = n
           /\ DOMAIN f = 1..n
<1> DEFINE S == {f[i] : i \in 1..n}
<1>1. \A i \in 1..n : f[i] \in S
  OBVIOUS
<1> HIDE DEF S
<1>2. f \in [1..n -> S]
  BY <1>1
<1>3. f \in Seq(S)
  BY <1>2
<1>4. QED
  BY <1>2, <1>3 DEF S

Start(offset) == IF offset = Unset THEN 0 ELSE offset

Stop(seq, offset, limit) ==
    IF limit = Unset \/ Start(offset) + limit >= Len(seq) THEN Len(seq) ELSE Start(offset) + limit

(* The part of a sequence in a window. *)
LEMMA WindowIs ==
    ASSUME NEW S, NEW seq \in Seq(S),
           NEW offset \in Nat \cup {Unset}, NEW limit \in Nat \cup {Unset}
    PROVE  /\ Window(seq, offset, limit) \in Seq(S)
           /\ Len(Window(seq, offset, limit)) =
                 IF Start(offset) < Stop(seq, offset, limit)
                 THEN Stop(seq, offset, limit) - Start(offset) ELSE 0
           /\ \A i \in 1..Len(Window(seq, offset, limit)) :
                 /\ Window(seq, offset, limit)[i] = seq[Start(offset) + i]
                 /\ Start(offset) + i \in 1..Len(seq)
           /\ Start(offset) \in Nat /\ Stop(seq, offset, limit) \in 0..Len(seq)
<1> DEFINE from == IF offset = Unset THEN 0 ELSE offset
           last == IF limit = Unset \/ from + limit >= Len(seq) THEN Len(seq) ELSE from + limit
           w    == Window(seq, offset, limit)
           to   == IF limit = Unset THEN Len(seq) ELSE from + limit
<1>1. from \in Nat /\ Len(seq) \in Nat /\ Unset \notin Nat
  BY QuerySetAssumption DEF QuerySetAssumption
<1>2. last \in Nat /\ last <= Len(seq)
  BY <1>1
<1>3. last = IF to < Len(seq) THEN to ELSE Len(seq)
  BY <1>1
<1>4. w = SubSeq(seq, from + 1, last)
  BY <1>3 DEF Window
<1> HIDE DEF from, last, to, w
<1>5. \A i \in from + 1 .. last : seq[i] \in S
  BY <1>1, <1>2
<1>6. /\ w \in Seq(S)
      /\ Len(w) = IF from + 1 <= last THEN last - (from + 1) + 1 ELSE 0
      /\ \A i \in 1..last - (from + 1) + 1 : w[i] = seq[from + 1 + i - 1]
  BY <1>1, <1>2, <1>4, <1>5, SubSeqProperties
<1>7. Len(w) = IF from < last THEN last - from ELSE 0
  BY <1>1, <1>2, <1>6
<1>8. ASSUME NEW i \in 1..Len(w) PROVE w[i] = seq[from + i] /\ from + i \in 1..Len(seq)
  <2>1. i \in 1..last - (from + 1) + 1 /\ from + 1 + i - 1 = from + i
    BY <1>1, <1>2, <1>7
  <2>2. w[i] = seq[from + i]
    BY <1>6, <2>1
  <2>3. from + i \in 1..Len(seq)
    BY <1>1, <1>2, <2>1
  <2>4. QED
    BY <2>2, <2>3
<1>9. Start(offset) = from /\ Stop(seq, offset, limit) = last /\ Window(seq, offset, limit) = w
  BY DEF from, last, w, Start, Stop
<1>10. QED
  BY <1>1, <1>2, <1>6, <1>7, <1>8, <1>9

(* Without the rows that repeat an earlier one, a sequence is empty only   *)
(* if it was.                                                              *)
LEMMA UniqueIs ==
    ASSUME NEW S, NEW seq \in Seq(S)
    PROVE  LET first == {i \in DOMAIN seq : \A j \in 1..i - 1 : seq[j] # seq[i]}
           IN  /\ IsFiniteSet(first) /\ Cardinality(first) \in Nat
               /\ Len(Unique(seq)) = Cardinality(first) /\ DOMAIN Unique(seq) = 1..Cardinality(first)
               /\ Unique(seq) = [i \in 1..Cardinality(first) |-> Unique(seq)[i]]
               /\ Cardinality(first) = 0 <=> seq = <<>>
<1> DEFINE first == {i \in DOMAIN seq : \A j \in 1..i - 1 : seq[j] # seq[i]}
           below == [i \in first |-> {j \in first : j < i}]
           at == Ranked(first, below)
<1>1. Len(seq) \in Nat /\ DOMAIN seq = 1..Len(seq)
  OBVIOUS
<1>2. IsFiniteSet(first)
  <2>1. IsFiniteSet(1..Len(seq)) /\ first \subseteq 1..Len(seq)
    BY <1>1, FS_Interval
  <2> HIDE DEF first
  <2>2. QED
    BY <2>1, FS_Subset
<1>3. first = {} <=> seq = <<>>
  <2>1. ASSUME seq # <<>> PROVE 1 \in first
    <3>1. 1 \in DOMAIN seq
      BY <1>1, <2>1
    <3>2. QED
      BY <3>1
  <2>2. ASSUME seq = <<>> PROVE first = {}
    BY <1>1, <2>2
  <2>3. QED
    BY <2>1, <2>2
<1>4. Unique(seq) = [n \in DOMAIN at |-> seq[at[n]]]
  BY DEF Unique
<1> HIDE DEF first, below
<1>5. Cardinality(first) \in Nat /\ (Cardinality(first) = 0 <=> first = {})
  BY <1>2, FS_CardinalityType, FS_EmptySet
<1>6. DOMAIN at = 1..Cardinality(first)
  BY DEF Ranked
<1> HIDE DEF at
<1>7. /\ Unique(seq) = [i \in 1..Cardinality(first) |-> Unique(seq)[i]]
      /\ DOMAIN Unique(seq) = 1..Cardinality(first)
  BY <1>4, <1>6
<1>8. Len(Unique(seq)) = Cardinality(first)
  BY <1>5, <1>7, IsSequence
<1>9. QED
  BY <1>2, <1>3, <1>5, <1>7, <1>8 DEF first

(* The tuples of a statement before the projection, and after it. *)
Copies(s, mode) ==
    [key \in {SortKey(pk) : pk \in DOMAIN rows} |-> Cardinality(Matches(key.pk, s, mode))]

Listed(s, mode) == Repeated(EffectiveOrder(s.order), Copies(s, mode))

Shown(s, mode) ==
    [i \in DOMAIN Listed(s, mode) |->
        IF s.only = Unset THEN Listed(s, mode)[i] ELSE Listed(s, mode)[i][s.only]]

(* Tuples, with its parts by name. *)
LEMMA TuplesAre ==
    ASSUME NEW s, NEW mode
    PROVE  Tuples(s, mode) = Window(IF s.distinct THEN Unique(Shown(s, mode)) ELSE Shown(s, mode),
                                    s.offset, s.limit)
  BY DEF Tuples, Shown, Listed, Copies

Entries(copies) == UNION {{k} \X (1..copies[k]) : k \in DOMAIN copies}

(* The copies of a statement that compiles are numbers. *)
LEMMA CopiesAre ==
    ASSUME rows \in Tables, NEW s \in QuerySetType, ~Fails(s), NEW mode
    PROVE  /\ DOMAIN Copies(s, mode) = {SortKey(pk) : pk \in DOMAIN rows}
           /\ IsFiniteSet(DOMAIN Copies(s, mode))
           /\ \A pk \in DOMAIN rows :
                 /\ Copies(s, mode)[SortKey(pk)] = Cardinality(Matches(pk, s, mode))
                 /\ Copies(s, mode)[SortKey(pk)] \in Nat
           /\ IsFiniteSet(Entries(Copies(s, mode))) /\ Cardinality(Entries(Copies(s, mode))) \in Nat
<1> DEFINE C == Copies(s, mode)
           keys == {SortKey(pk) : pk \in DOMAIN rows}
           h == [pk \in DOMAIN rows |-> SortKey(pk)]
<1>1. IsFiniteSet(DOMAIN rows)
  BY QuerySetAssumption DEF QuerySetAssumption
<1>2. h \in Surjection(DOMAIN rows, keys)
  BY Fun_IsSurj
<1>3. IsFiniteSet(keys)
  <2> HIDE DEF h, keys
  <2>1. QED
    BY <1>1, <1>2, FS_Surjection
<1>4. DOMAIN C = keys
  BY DEF Copies
<1>5. ASSUME NEW pk \in DOMAIN rows
      PROVE  C[SortKey(pk)] = Cardinality(Matches(pk, s, mode)) /\ C[SortKey(pk)] \in Nat
  <2>1. SortKey(pk) \in keys /\ SortKey(pk).pk = pk
    BY DEF SortKey
  <2>2. C[SortKey(pk)] = Cardinality(Matches(pk, s, mode))
    BY <2>1 DEF Copies
  <2>3. Cardinality(Matches(pk, s, mode)) \in Nat
    BY MatchesFinite, FS_CardinalityType
  <2>4. QED
    BY <2>2, <2>3
<1>6. \A k \in keys : C[k] \in Nat
  BY <1>5
<1> HIDE DEF C, keys
<1> DEFINE sets == {{k} \X (1..C[k]) : k \in keys}
           g == [k \in keys |-> {k} \X (1..C[k])]
<1>7. g \in Surjection(keys, sets)
  BY Fun_IsSurj
<1>8. \A S \in sets : IsFiniteSet(S)
  <2> SUFFICES ASSUME NEW k \in keys PROVE IsFiniteSet({k} \X (1..C[k]))
    OBVIOUS
  <2>1. IsFiniteSet({k}) /\ IsFiniteSet(1..C[k])
    <3>1. C[k] \in Int
      BY <1>6
    <3>2. IsFiniteSet(1..C[k])
      BY <3>1, FS_Interval
    <3>3. QED
      BY <3>2, FS_Singleton
  <2>2. QED
    BY <2>1, FS_Product
<1>9. Entries(C) = UNION sets
  BY <1>4 DEF Entries
<1> HIDE DEF g, sets
<1>10. IsFiniteSet(sets)
  BY <1>3, <1>7, FS_Surjection
<1>11. IsFiniteSet(UNION sets)
  BY <1>8, <1>10, FS_UNION
<1>12. Cardinality(Entries(C)) \in Nat
  BY <1>9, <1>11, FS_CardinalityType
<1>13. QED
  BY <1>3, <1>4, <1>5, <1>9, <1>11, <1>12 DEF C, keys

(* As many tuples are listed as there are matches, whatever the order. *)
LEMMA ListedIs ==
    ASSUME rows \in Tables, NEW s \in QuerySetType, ~Fails(s), NEW mode
    PROVE  LET n == Cardinality(Entries(Copies(s, mode)))
           IN  /\ n \in Nat
               /\ Listed(s, mode) = [i \in 1..n |-> Listed(s, mode)[i]]
               /\ Shown(s, mode) = [i \in 1..n |-> Shown(s, mode)[i]]
               /\ DOMAIN Listed(s, mode) = 1..n /\ DOMAIN Shown(s, mode) = 1..n
               /\ Len(Shown(s, mode)) = n
<1> DEFINE n == Cardinality(Entries(Copies(s, mode)))
<1>1. n \in Nat
  BY CopiesAre
<1>2. \E e : Listed(s, mode) = [i \in DOMAIN e |-> e[i][1]] /\ DOMAIN e = 1..n
  <2> DEFINE order_ == EffectiveOrder(s.order)
             below == [e \in Entries(Copies(s, mode)) |->
                         {f \in Entries(Copies(s, mode)) :
                            \/ Precedes(order_, f[1], e[1])
                            \/ f[1] = e[1] /\ f[2] < e[2]}]
             entry == Ranked(Entries(Copies(s, mode)), below)
  <2>1. Listed(s, mode) = [i \in DOMAIN entry |-> entry[i][1]]
    BY DEF Listed, Repeated, Entries
  <2>2. DOMAIN entry = 1..n
    <3> HIDE DEF below
    <3>1. QED
      BY DEF Ranked
  <2> HIDE DEF entry
  <2>3. QED
    BY <2>1, <2>2
<1> HIDE DEF n
<1>3. Listed(s, mode) = [i \in 1..n |-> Listed(s, mode)[i]] /\ DOMAIN Listed(s, mode) = 1..n
  BY <1>2
<1>4. Shown(s, mode) = [i \in 1..n |-> Shown(s, mode)[i]] /\ DOMAIN Shown(s, mode) = 1..n
  BY <1>3 DEF Shown
<1>5. Len(Shown(s, mode)) = n
  BY <1>1, <1>4, IsSequence
<1>6. QED
  BY <1>1, <1>3, <1>4, <1>5 DEF n

-----------------------------------------------------------------------------
(* Cache keys.                                                             *)

(* Matches depends on the predicates, the deleted-mode and the mode sent.  *)
LEMMA SameMatches ==
    ASSUME NEW a, NEW b, a.where = b.where, a.deleted = b.deleted, NEW mode
    PROVE  Copies(a, mode) = Copies(b, mode)
<1>1. WhereLeaves(a) = WhereLeaves(b)
  BY DEF WhereLeaves
<1>2. JoinNames(a) = JoinNames(b)
  BY <1>1 DEF JoinNames, Joins
<1>3. \A pk : Envs(pk, a, mode) = Envs(pk, b, mode)
  BY <1>2 DEF Envs
<1>4. \A pk : Matches(pk, a, mode) = Matches(pk, b, mode)
  BY <1>3 DEF Matches
<1>5. QED
  BY <1>4 DEF Copies

(* What a statement returns depends on nothing else than these parts. *)
LEMMA SameTuples ==
    ASSUME NEW a, NEW b, a.where = b.where, a.deleted = b.deleted, a.order = b.order,
           a.only = b.only, a.distinct = b.distinct, a.offset = b.offset, a.limit = b.limit,
           NEW mode
    PROVE  Tuples(a, mode) = Tuples(b, mode)
<1>1. Listed(a, mode) = Listed(b, mode)
  BY SameMatches DEF Listed
<1>2. Shown(a, mode) = Shown(b, mode)
  BY <1>1 DEF Shown
<1>3. QED
  BY <1>2, TuplesAre

(* Two predicates with the same data are the same. *)
LEMMA DataTells ==
    /\ \A s, t \in Predicate : ToData(s) = ToData(t) => s = t
    /\ \A a, b \in QuerySetType : WhereData(a) = WhereData(b) => a.where = b.where
<1>1. \A s, t \in Predicate : ToData(s) = ToData(t) => s = t
  BY SentIs
<1>2. ASSUME NEW a \in QuerySetType, NEW b \in QuerySetType, WhereData(a) = WhereData(b)
      PROVE  a.where = b.where
  <2>1. a.where \in Seq(Predicate) /\ b.where \in Seq(Predicate)
    BY DEF QuerySetType
  <2>2. DOMAIN a.where = DOMAIN b.where
    <3>1. DOMAIN WhereData(a) = DOMAIN a.where /\ DOMAIN WhereData(b) = DOMAIN b.where
      BY DEF WhereData
    <3>2. QED
      BY <1>2, <3>1
  <2>3. ASSUME NEW i \in DOMAIN a.where PROVE a.where[i] = b.where[i]
    <3>1. ToData(a.where[i]) = ToData(b.where[i])
      <4>1. WhereData(a)[i] = ToData(a.where[i]) /\ WhereData(b)[i] = ToData(b.where[i])
        BY <2>2 DEF WhereData
      <4>2. QED
        BY <1>2, <4>1
    <3>2. a.where[i] \in Predicate /\ b.where[i] \in Predicate
      BY <2>1, <2>2
    <3>3. QED
      BY <1>1, <3>1, <3>2
  <2>4. a.where = [i \in DOMAIN a.where |-> a.where[i]] /\ b.where = [i \in DOMAIN b.where |-> b.where[i]]
    BY <2>1
  <2>5. QED
    BY <2>2, <2>3, <2>4
<1>3. QED
  BY <1>1, <1>2

(* Whether a statement still compiles does not depend on LIMIT 1, OFFSET 0 *)
(* or the order being left out.                                            *)
LEMMA StillCompiles ==
    ASSUME NEW s \in QuerySetType, ~Fails(s)
    PROVE  /\ [s EXCEPT !.order = <<>>, !.limit = 1] \in QuerySetType
           /\ ~Fails([s EXCEPT !.order = <<>>, !.limit = 1])
           /\ Plain(s) \in QuerySetType /\ ~Fails(Plain(s))
           /\ s.offset \in Nat \cup {Unset} /\ s.limit \in Nat \cup {Unset}
<1> DEFINE a == [s EXCEPT !.order = <<>>, !.limit = 1]
           b == Plain(s)
<1>1. /\ a \in QuerySetType /\ a.where = s.where /\ a.limit = 1 /\ a.offset = s.offset
      /\ a.order = <<>> /\ a.only = s.only /\ a.distinct = s.distinct
  <2> DEFINE c == [s EXCEPT !.order = <<>>]
  <2>1. c \in QuerySetType /\ c.order = <<>>
    BY DEF QuerySetType
  <2> DEFINE k == 1
  <2>a. k \in Int
    OBVIOUS
  <2>2. a = [c EXCEPT !.limit = k]
    BY DEF QuerySetType
  <2>3. c.where = s.where /\ c.offset = s.offset /\ c.only = s.only /\ c.distinct = s.distinct
    BY DEF QuerySetType
  <2> HIDE DEF a, c, k
  <2>4. a \in QuerySetType
    BY <2>1, <2>2, <2>a DEF QuerySetType
  <2>5. a.where = c.where /\ a.limit = k /\ a.offset = c.offset /\ a.order = c.order
        /\ a.only = c.only /\ a.distinct = c.distinct
    BY <2>1, <2>2 DEF QuerySetType
  <2>6. QED
    BY <2>1, <2>3, <2>4, <2>5 DEF k
<1>2. /\ b \in QuerySetType /\ b.where = s.where /\ b.limit = Unset /\ b.offset = Unset
      /\ b.order = <<>> /\ b.only = s.only /\ b.distinct = s.distinct
  BY DEF QuerySetType, Plain
<1> HIDE DEF a, b
<1>3. /\ WhereLeaves(a) = WhereLeaves(s) /\ Joins(a) = Joins(s)
      /\ WhereLeaves(b) = WhereLeaves(s) /\ Joins(b) = Joins(s)
  BY <1>1, <1>2 DEF WhereLeaves, Joins
<1>4. ~Fails(a)
  BY <1>1, <1>3 DEF Fails
<1>5. ~Fails(b)
  BY <1>2, <1>3 DEF Fails
<1>6. s.offset \in Nat \cup {Unset} /\ s.limit \in Nat \cup {Unset}
  BY DEF Fails, QuerySetType
<1>7. QED
  BY <1>1, <1>2, <1>4, <1>5, <1>6 DEF a, b

(* exists(): the offset leaves a tuple, of those that DISTINCT leaves. *)
LEMMA ExistsIs ==
    ASSUME rows \in Tables, NEW s \in QuerySetType, ~Fails(s)
    PROVE  LET one   == [s EXCEPT !.order = <<>>, !.limit = 1]
               shown == Shown(one, s.deleted)
           IN  /\ Len(shown) = Cardinality(Entries(Copies(s, s.deleted))) /\ Len(shown) \in Nat
               /\ ~s.distinct => (Exists(s) <=> Start(s.offset) < Len(shown))
               /\ s.distinct /\ Start(s.offset) = 0 => (Exists(s) <=> 0 < Len(shown))
<1> DEFINE one   == [s EXCEPT !.order = <<>>, !.limit = 1]
           shown == Shown(one, s.deleted)
           n == Cardinality(Entries(Copies(s, s.deleted)))
           S == {shown[i] : i \in 1..n}
           seq == IF s.distinct THEN Unique(shown) ELSE shown
           T == {Unique(shown)[i] : i \in 1..Len(Unique(shown))}
<1>1. /\ one \in QuerySetType /\ ~Fails(one) /\ s.offset \in Nat \cup {Unset}
      /\ one.where = s.where /\ one.deleted = s.deleted
      /\ one.distinct = s.distinct /\ one.offset = s.offset /\ one.limit = 1
  BY StillCompiles DEF QuerySetType
<1> HIDE DEF one
<1>2. Copies(one, s.deleted) = Copies(s, s.deleted)
  BY <1>1, SameMatches
<1>3. n \in Nat /\ shown = [i \in 1..n |-> shown[i]] /\ Len(shown) = n
  BY <1>1, <1>2, ListedIs, SMTT(30)
<1> HIDE DEF n, shown
<1>4. shown \in Seq(S)
  BY <1>3, IsSequence
<1> HIDE DEF S
<1>5. Exists(s) <=> Window(seq, s.offset, 1) # <<>>
  BY <1>1, TuplesAre DEF Exists, one, shown
<1>6. /\ Len(Unique(shown)) \in Nat /\ (Len(Unique(shown)) = 0 <=> shown = <<>>)
      /\ Unique(shown) \in Seq(T)
  <2>1. \E m \in Nat : /\ Len(Unique(shown)) = m
                       /\ Unique(shown) = [i \in 1..m |-> Unique(shown)[i]]
                       /\ m = 0 <=> shown = <<>>
    BY <1>4, UniqueIs
  <2>2. PICK m \in Nat : /\ Len(Unique(shown)) = m
                         /\ Unique(shown) = [i \in 1..m |-> Unique(shown)[i]]
                         /\ m = 0 <=> shown = <<>>
    BY <2>1
  <2>3. Unique(shown) \in Seq(T)
    BY <2>2, IsSequence
  <2>4. QED
    BY <2>2, <2>3
<1> HIDE DEF T
<1>7. seq \in Seq(S) \/ seq \in Seq(T)
  BY <1>4, <1>6
<1> HIDE DEF seq
<1>8. ASSUME NEW U, seq \in Seq(U) PROVE Exists(s) <=> Start(s.offset) < Len(seq)
  <2> DEFINE k == 1
             w == Window(seq, s.offset, k)
  <2>1. k \in Nat \cup {Unset} /\ k # Unset /\ k = 1
    BY QuerySetAssumption DEF QuerySetAssumption
  <2> HIDE DEF k
  <2> DEFINE o == s.offset
  <2>0. o \in Nat \cup {Unset}
    BY <1>1
  <2> HIDE DEF w, o
  <2>a. /\ Window(seq, o, k) \in Seq(U) /\ Start(o) \in Nat
        /\ Len(Window(seq, o, k)) = IF Start(o) < Stop(seq, o, k)
                                    THEN Stop(seq, o, k) - Start(o) ELSE 0
    BY <1>8, <2>0, <2>1, WindowIs
  <2>2. /\ w \in Seq(U) /\ Start(s.offset) \in Nat
        /\ Len(w) = IF Start(s.offset) < Stop(seq, s.offset, k)
                    THEN Stop(seq, s.offset, k) - Start(s.offset) ELSE 0
    BY <2>a DEF w, o
  <2>3. Len(seq) \in Nat
    BY <1>8
  <2>4. Start(s.offset) < Stop(seq, s.offset, k) <=> Start(s.offset) < Len(seq)
    BY <2>1, <2>2, <2>3 DEF Stop
  <2>5. Stop(seq, s.offset, k) \in Nat
    BY <2>1, <2>2, <2>3 DEF Stop
  <2>6. w # <<>> <=> Len(w) # 0
    BY <2>2
  <2>7. Exists(s) <=> w # <<>>
    BY <1>5, <2>1 DEF w, o
  <2>8. QED
    BY <2>2, <2>4, <2>5, <2>6, <2>7
<1>9. Exists(s) <=> Start(s.offset) < Len(seq)
  BY <1>7, <1>8
<1>10. ~s.distinct => (Exists(s) <=> Start(s.offset) < Len(shown))
  BY <1>9 DEF seq
<1>11. ASSUME s.distinct, Start(s.offset) = 0 PROVE Exists(s) <=> 0 < Len(shown)
  <2>1. shown = <<>> <=> Len(shown) = 0
    BY <1>4
  <2>2. QED
    BY <1>3, <1>6, <1>9, <1>11, <2>1 DEF seq
<1>12. QED
  BY <1>3, <1>10, <1>11 DEF one, shown, n

(* count(), when DISTINCT is not asked for: the matches. *)
LEMMA CountIs ==
    ASSUME rows \in Tables, NEW s \in QuerySetType, ~Fails(s), ~s.distinct
    PROVE  Count(s) = Cardinality(Entries(Copies(s, "exclude")))
<1> DEFINE a == Plain(s)
           n == Cardinality(Entries(Copies(s, "exclude")))
           shown == Shown(a, "exclude")
           S == {shown[i] : i \in 1..n}
<1>1. /\ a \in QuerySetType /\ ~Fails(a) /\ a.where = s.where /\ a.deleted = s.deleted
      /\ ~a.distinct /\ a.offset = Unset /\ a.limit = Unset
  BY StillCompiles DEF QuerySetType, Plain
<1> HIDE DEF a
<1>2. Copies(a, "exclude") = Copies(s, "exclude")
  BY <1>1, SameMatches
<1>3. n \in Nat /\ shown = [i \in 1..n |-> shown[i]] /\ Len(shown) = n
  BY <1>1, <1>2, ListedIs, SMTT(30)
<1> HIDE DEF n
<1>4. Count(s) = Len(Window(shown, Unset, Unset))
  BY <1>1, TuplesAre DEF Count, a
<1> HIDE DEF shown
<1>5. shown \in Seq(S)
  BY <1>3, IsSequence
<1> HIDE DEF S
<1>6. /\ Start(Unset) = 0 /\ Stop(shown, Unset, Unset) = Len(shown)
      /\ Unset \in Nat \cup {Unset}
  BY DEF Start, Stop
<1>7. Len(Window(shown, Unset, Unset)) = IF 0 < Len(shown) THEN Len(shown) - 0 ELSE 0
  BY <1>5, <1>6, WindowIs
<1>8. QED
  BY <1>3, <1>4, <1>7 DEF n

(* KeysTellApart: no queryset is given the cached answer of another, but   *)
(* for the cases it names.                                                 *)
LEMMA TypedKeysTellApart ==
    ASSUME rows \in Tables, NEW a \in QuerySetType, NEW b \in QuerySetType, ~Fails(a), ~Fails(b)
    PROVE  /\ CachesRows(a) /\ CachesRows(b) /\ ListKey(a) = ListKey(b) => All(a) = All(b)
           /\ ScalarKey(a) = ScalarKey(b) =>
                 /\ /\ a.offset = b.offset
                    /\ ~a.distinct \/ a.only = b.only \/ a.offset \in {Unset, 0}
                    => Exists(a) = Exists(b)
                 /\ ~a.distinct \/ a.only = b.only => Count(a) = Count(b)
<1>1. WhereData(a) = WhereData(b) => a.where = b.where
  BY DataTells
<1>2. ASSUME CachesRows(a), CachesRows(b), ListKey(a) = ListKey(b) PROVE All(a) = All(b)
  <2>1. /\ a.where = b.where /\ a.order = b.order /\ a.limit = b.limit /\ a.offset = b.offset
        /\ a.distinct = b.distinct /\ a.deleted = b.deleted /\ a.only = b.only
    BY <1>1, <1>2 DEF ListKey, CachesRows
  <2>2. Tuples(a, a.deleted) = Tuples(b, b.deleted)
    BY <2>1, SameTuples
  <2>3. QED
    BY <2>2 DEF All
<1>3. ASSUME ScalarKey(a) = ScalarKey(b)
      PROVE  a.where = b.where /\ a.distinct = b.distinct /\ a.deleted = b.deleted
  BY <1>1, <1>3 DEF ScalarKey
<1>4. ASSUME ScalarKey(a) = ScalarKey(b), a.offset = b.offset,
             ~a.distinct \/ a.only = b.only \/ a.offset \in {Unset, 0}
      PROVE  Exists(a) = Exists(b)
  <2> DEFINE x == [a EXCEPT !.order = <<>>, !.limit = 1]
             y == [b EXCEPT !.order = <<>>, !.limit = 1]
  <2>1. /\ x.where = a.where /\ x.order = <<>> /\ x.limit = 1 /\ x.offset = a.offset
        /\ x.distinct = a.distinct /\ x.deleted = a.deleted /\ x.only = a.only
        /\ y.where = b.where /\ y.order = <<>> /\ y.limit = 1 /\ y.offset = b.offset
        /\ y.distinct = b.distinct /\ y.deleted = b.deleted /\ y.only = b.only
    BY DEF QuerySetType
  <2>2. Exists(a) = (Tuples(x, a.deleted) # <<>>) /\ Exists(b) = (Tuples(y, b.deleted) # <<>>)
    BY DEF Exists
  <2> HIDE DEF x, y
  <2>3. CASE a.only = b.only
    <3>1. Tuples(x, a.deleted) = Tuples(y, b.deleted)
      BY <1>3, <1>4, <2>1, <2>3, SameTuples
    <3>2. QED
      BY <2>2, <3>1
  <2>4. CASE a.only # b.only
    <3>a. a.distinct => Start(a.offset) = 0
      BY <1>4, <2>4 DEF Start
    <3> DEFINE k == Len(Shown(x, a.deleted))
               l == Len(Shown(y, b.deleted))
               from == Start(a.offset)
    <3>1. Copies(a, a.deleted) = Copies(b, b.deleted)
      BY <1>3, <1>4, SameMatches
    <3>2. /\ k = Cardinality(Entries(Copies(a, a.deleted)))
          /\ ~a.distinct => (Exists(a) <=> from < k)
          /\ a.distinct /\ from = 0 => (Exists(a) <=> 0 < k)
      BY ExistsIs DEF x
    <3>3. /\ l = Cardinality(Entries(Copies(b, b.deleted)))
          /\ ~b.distinct => (Exists(b) <=> from < l)
          /\ b.distinct /\ from = 0 => (Exists(b) <=> 0 < l)
      BY <1>4, ExistsIs DEF y
    <3>4. Exists(a) <=> Exists(b)
      BY <1>3, <1>4, <3>a, <3>1, <3>2, <3>3
    <3>5. Exists(a) \in BOOLEAN /\ Exists(b) \in BOOLEAN
      BY DEF Exists
    <3>6. QED
      BY <3>4, <3>5
  <2>5. QED
    BY <2>3, <2>4
<1>5. ASSUME ScalarKey(a) = ScalarKey(b), ~a.distinct \/ a.only = b.only
      PROVE  Count(a) = Count(b)
  <2>1. CASE a.only = b.only
    <3>1. /\ Plain(a).where = a.where /\ Plain(a).order = <<>> /\ Plain(a).limit = Unset
          /\ Plain(a).offset = Unset /\ Plain(a).distinct = a.distinct
          /\ Plain(a).deleted = a.deleted /\ Plain(a).only = a.only
          /\ Plain(b).where = b.where /\ Plain(b).order = <<>> /\ Plain(b).limit = Unset
          /\ Plain(b).offset = Unset /\ Plain(b).distinct = b.distinct
          /\ Plain(b).deleted = b.deleted /\ Plain(b).only = b.only
      BY DEF Plain, QuerySetType
    <3>2. Tuples(Plain(a), "exclude") = Tuples(Plain(b), "exclude")
      BY <1>3, <1>5, <2>1, <3>1, SameTuples
    <3>3. QED
      BY <3>2 DEF Count
  <2>2. CASE ~a.distinct
    <3>1. ~b.distinct /\ Copies(a, "exclude") = Copies(b, "exclude")
      BY <1>3, <1>5, <2>2, SameMatches
    <3>2. Count(a) = Cardinality(Entries(Copies(a, "exclude")))
      BY <2>2, CountIs
    <3>3. Count(b) = Cardinality(Entries(Copies(b, "exclude")))
      BY <3>1, CountIs
    <3>4. QED
      BY <3>1, <3>2, <3>3
  <2>3. QED
    BY <1>5, <2>1, <2>2
<1>6. QED
  BY <1>2, <1>4, <1>5

(* KeysTellApart, in every behaviour. *)
THEOREM KeysAlways == QuerySpec => KeysTellApart
<1> DEFINE A ==
      /\ q = Unset /\ q' = Unset /\ ~Fails(qs) /\ ~Fails(qs') =>
            /\ CachesRows(qs) /\ CachesRows(qs') /\ ListKey(qs) = ListKey(qs') =>
                  All(qs) = All(qs')
            /\ ScalarKey(qs) = ScalarKey(qs') =>
                  /\ /\ qs.offset = qs'.offset
                     /\ ~qs.distinct \/ qs.only = qs'.only \/ qs.offset \in {Unset, 0}
                     => Exists(qs) = Exists(qs')
                  /\ ~qs.distinct \/ qs.only = qs'.only => Count(qs) = Count(qs')
      /\ q # Unset /\ q' # Unset /\ ToData(q) = ToData(q') /\ ~Fails(Filtered(qs, q)) =>
            Picks(Filtered(qs, q)) = Picks(Filtered(qs, q'))
<1>1. ASSUME QueryTypeOK, QueryTypeOK' PROVE A
  <2>1. rows \in Tables /\ qs \in QuerySetType /\ qs' \in QuerySetType
    BY <1>1 DEF QueryTypeOK, QuerySetType
  <2>2. (q # Unset => q \in Predicate) /\ (q' # Unset => q' \in Predicate)
    <3>1. 0..MaxCalls \subseteq 0..Levels
      BY QuerySetAssumption DEF QuerySetAssumption, Levels
    <3>2. calls \in 0..MaxCalls /\ calls' \in 0..MaxCalls
          /\ (q = Unset \/ q \in Trees[calls]) /\ (q' = Unset \/ q' \in Trees[calls'])
      BY <1>1 DEF QueryTypeOK
    <3>3. QED
      BY <3>1, <3>2, TreesGrow
  <2>3. ASSUME q # Unset, q' # Unset, ToData(q) = ToData(q') PROVE q = q'
    BY <2>2, <2>3, DataTells
  <2>4. QED
    BY <2>1, <2>3, TypedKeysTellApart
<1>2. QueryTypeOK /\ QueryTypeOK' => [A]_queryVars
  BY <1>1
<1> HIDE DEF A
<1>3. QuerySpec => [][A]_queryVars
  BY <1>2, QueryTypes, PTL
<1>4. QED
  BY <1>3 DEF A, KeysTellApart

-----------------------------------------------------------------------------
(* Rows in order.                                                          *)

(* A strict total order of S; below[e] are the elements before e. *)
Orderly(S, below) ==
    /\ \A e \in S : below[e] \subseteq S /\ e \notin below[e]
    /\ \A e, f, g \in S : e \in below[f] /\ f \in below[g] => e \in below[g]
    /\ \A e, f \in S : e = f \/ e \in below[f] \/ f \in below[e]

(* Ranked lists the elements of a finite set from the first to the last. *)
LEMMA RankedIs ==
    ASSUME NEW S, IsFiniteSet(S), NEW below, Orderly(S, below)
    PROVE  LET at == Ranked(S, below)
               n  == Cardinality(S)
           IN  /\ n \in Nat /\ DOMAIN at = 1..n
               /\ \A i \in 1..n : at[i] \in S /\ Cardinality(below[at[i]]) = i - 1
               /\ \A e \in S : \E i \in 1..n : at[i] = e
               /\ \A i, j \in 1..n : i < j <=> at[i] \in below[at[j]]
<1> DEFINE n  == Cardinality(S)
           at == Ranked(S, below)
           rank == [e \in S |-> Cardinality(below[e])]
<1>1. n \in Nat
  BY FS_CardinalityType
<1>2. ASSUME NEW e \in S PROVE IsFiniteSet(below[e]) /\ rank[e] \in 0..n - 1
  <2>1. below[e] \subseteq S /\ below[e] # S
    BY DEF Orderly
  <2>2. IsFiniteSet(below[e]) /\ Cardinality(below[e]) <= n /\ Cardinality(below[e]) # n
    BY <2>1, FS_Subset
  <2>3. Cardinality(below[e]) \in Nat
    BY <2>2, FS_CardinalityType
  <2>4. QED
    BY <1>1, <2>2, <2>3
<1>3. ASSUME NEW e \in S, NEW f \in S, f \in below[e] PROVE rank[f] < rank[e]
  <2>1. below[f] \subseteq below[e] /\ f \notin below[f]
    BY <1>3 DEF Orderly
  <2>2. below[f] # below[e]
    BY <1>3, <2>1
  <2>3. Cardinality(below[f]) <= Cardinality(below[e]) /\ Cardinality(below[f]) # Cardinality(below[e])
    BY <1>2, <2>1, <2>2, FS_Subset
  <2>4. rank[f] \in Nat /\ rank[e] \in Nat
    BY <1>1, <1>2
  <2>5. QED
    BY <2>3, <2>4
<1>4. ASSUME NEW e \in S, NEW f \in S, rank[e] = rank[f] PROVE e = f
  <2>1. rank[f] \in Nat /\ rank[e] \in Nat
    BY <1>1, <1>2
  <2>2. e \notin below[f] /\ f \notin below[e]
    BY <1>3, <1>4, <2>1
  <2>3. QED
    BY <2>2 DEF Orderly
<1>5. rank \in Injection(S, 0..n - 1)
  <2>1. rank \in [S -> 0..n - 1]
    BY <1>2
  <2> HIDE DEF rank
  <2>2. QED
    BY <1>4, <2>1, Fun_IsInj
<1>6. IsFiniteSet(0..n - 1) /\ Cardinality(0..n - 1) = n
  <2>1. 0 \in Int /\ n - 1 \in Int
    BY <1>1
  <2>2. IsFiniteSet(0..n - 1) /\ Cardinality(0..n - 1) = IF 0 > n - 1 THEN 0 ELSE n - 1 - 0 + 1
    BY <2>1, FS_Interval
  <2>3. QED
    BY <1>1, <2>2
<1>7. rank \in Surjection(S, 0..n - 1)
  <2> HIDE DEF rank, n
  <2>1. QED
    BY <1>5, <1>6, FS_Injection DEF n
<1>8. \A k \in 0..n - 1 : \E e \in S : rank[e] = k
  <2> HIDE DEF rank
  <2>1. QED
    BY <1>7 DEF Surjection
<1>9. DOMAIN at = 1..n /\ \A i \in 1..n : at[i] = CHOOSE e \in S : Cardinality(below[e]) = i - 1
  BY DEF Ranked
<1>10. ASSUME NEW i \in 1..n PROVE at[i] \in S /\ rank[at[i]] = i - 1
  <2>1. i - 1 \in 0..n - 1
    BY <1>1
  <2>2. PICK e \in S : rank[e] = i - 1
    BY <1>8, <2>1
  <2>3. Cardinality(below[e]) = i - 1
    BY <2>2
  <2>4. at[i] \in S /\ Cardinality(below[at[i]]) = i - 1
    BY <1>9, <2>3
  <2>5. QED
    BY <2>4
<1>11. ASSUME NEW e \in S PROVE \E i \in 1..n : at[i] = e
  <2>1. rank[e] + 1 \in 1..n /\ rank[e] \in Nat /\ rank[e] + 1 - 1 = rank[e]
    BY <1>1, <1>2
  <2>2. at[rank[e] + 1] \in S /\ rank[at[rank[e] + 1]] = rank[e]
    BY <1>10, <2>1
  <2>3. QED
    BY <1>4, <2>1, <2>2
<1>12. ASSUME NEW i \in 1..n, NEW j \in 1..n PROVE i < j <=> at[i] \in below[at[j]]
  <2>1. at[i] \in S /\ at[j] \in S /\ rank[at[i]] = i - 1 /\ rank[at[j]] = j - 1
    BY <1>10
  <2>2. i \in Nat /\ j \in Nat
    OBVIOUS
  <2>3. ASSUME i < j PROVE at[i] \in below[at[j]]
    <3>1. at[i] # at[j]
      BY <2>1, <2>2, <2>3
    <3>2. at[j] \notin below[at[i]]
      BY <1>3, <2>1, <2>2, <2>3
    <3>3. QED
      BY <2>1, <3>1, <3>2 DEF Orderly
  <2>4. ASSUME at[i] \in below[at[j]] PROVE i < j
    BY <1>3, <2>1, <2>2, <2>4
  <2>5. QED
    BY <2>3, <2>4
<1>13. \A i \in 1..n : at[i] \in S /\ Cardinality(below[at[i]]) = i - 1
  BY <1>10
<1> HIDE DEF rank
<1>14. QED
  BY <1>1, <1>9, <1>11, <1>12, <1>13

(* No element twice. *)
Different(seq) == \A i, j \in DOMAIN seq : seq[i] = seq[j] => i = j

(* Element i of u is element at[i] of seq. *)
Embeds(at, u, seq) ==
    /\ at \in [DOMAIN u -> DOMAIN seq]
    /\ \A i, j \in DOMAIN u : i < j <=> at[i] < at[j]
    /\ \A i \in DOMAIN u : u[i] = seq[at[i]]

(* Unique keeps the first of equal elements, and their order. *)
LEMMA UniqueKeeps ==
    ASSUME NEW S, NEW seq \in Seq(S)
    PROVE  /\ \E at : Embeds(at, Unique(seq), seq)
           /\ \A k \in DOMAIN seq : \E i \in DOMAIN Unique(seq) : Unique(seq)[i] = seq[k]
           /\ Different(Unique(seq))
           /\ Unique(seq) \in Seq(S)
           /\ seq # <<>> => Unique(seq) # <<>> /\ Unique(seq)[1] = seq[1]
           /\ Different(seq) => Unique(seq) = seq
<1> DEFINE first == {i \in DOMAIN seq : \A j \in 1..i - 1 : seq[j] # seq[i]}
           below == [i \in first |-> {j \in first : j < i}]
           at == Ranked(first, below)
           n  == Cardinality(first)
           u  == Unique(seq)
<1>1. /\ IsFiniteSet(first) /\ n \in Nat /\ Len(u) = n /\ DOMAIN u = 1..n
      /\ u = [i \in 1..n |-> u[i]] /\ (n = 0 <=> seq = <<>>)
  BY UniqueIs
<1>2. Len(seq) \in Nat /\ DOMAIN seq = 1..Len(seq) /\ seq = [i \in 1..Len(seq) |-> seq[i]]
  OBVIOUS
<1>3. first \subseteq 1..Len(seq)
  BY <1>2
<1>4. Orderly(first, below)
  <2>1. \A i \in first : below[i] = {j \in first : j < i}
    OBVIOUS
  <2> HIDE DEF first, below
  <2>2. \A i \in first : i \in Nat
    BY <1>2, <1>3
  <2>3. QED
    BY <2>1, <2>2 DEF Orderly
<1>5. u = [i \in DOMAIN at |-> seq[at[i]]]
  BY DEF Unique
<1>a. \A k \in first : \A j \in 1..k - 1 : seq[j] # seq[k]
  OBVIOUS
<1>b. \A k \in 1..Len(seq) : (\A j \in 1..k - 1 : seq[j] # seq[k]) => k \in first
  BY <1>2
<1>c. \A i, j \in first : j \in below[i] <=> j < i
  OBVIOUS
<1> HIDE DEF first, below
<1>6. /\ DOMAIN at = 1..n
      /\ \A i \in 1..n : at[i] \in first /\ Cardinality(below[at[i]]) = i - 1
      /\ \A k \in first : \E i \in 1..n : at[i] = k
      /\ \A i, j \in 1..n : i < j <=> at[i] \in below[at[j]]
  BY <1>1, <1>4, RankedIs
<1> HIDE DEF at, n, u
<1>7. /\ \A i \in 1..n : u[i] = seq[at[i]] /\ at[i] \in first /\ at[i] \in 1..Len(seq)
      /\ \A i, j \in 1..n : i < j <=> at[i] < at[j]
  <2>1. \A i \in 1..n : u[i] = seq[at[i]] /\ at[i] \in first /\ at[i] \in 1..Len(seq)
    BY <1>3, <1>5, <1>6
  <2>2. \A i, j \in 1..n : i < j <=> at[i] < at[j]
    BY <1>6, <1>c, <2>1
  <2>3. QED
    BY <2>1, <2>2
<1>8. ASSUME NEW k \in 1..Len(seq) PROVE \E i \in 1..n : u[i] = seq[k]
  <2> DEFINE T == {j \in 1..Len(seq) : seq[j] = seq[k]}
  <2>1. T \in SUBSET Nat /\ T # {}
    BY <1>2
  <2>2. \A j \in T : j \in 1..Len(seq) /\ seq[j] = seq[k]
    OBVIOUS
  <2>3. \A j \in 1..Len(seq) : seq[j] = seq[k] => j \in T
    OBVIOUS
  <2> HIDE DEF T
  <2>4. PICK l \in T : \A j \in T : l <= j
    BY <2>1, Smallest
  <2>5. ASSUME NEW j \in 1..l - 1 PROVE seq[j] # seq[l]
    <3>1. j \in 1..Len(seq) /\ ~(l <= j)
      BY <1>2, <2>2, <2>5
    <3>2. QED
      BY <2>2, <2>3, <2>4, <3>1
  <2>6. l \in first
    BY <1>b, <2>2, <2>5
  <2>7. PICK i \in 1..n : at[i] = l
    BY <1>6, <2>6
  <2>8. QED
    BY <1>7, <2>2, <2>7
<1>9. ASSUME NEW i \in 1..n, NEW j \in 1..n, i < j PROVE u[i] # u[j]
  <2>1. at[i] < at[j] /\ at[i] \in 1..Len(seq) /\ at[j] \in 1..Len(seq) /\ at[j] \in first
    BY <1>7, <1>9
  <2>2. at[i] \in 1..at[j] - 1
    BY <1>2, <2>1
  <2>3. seq[at[i]] # seq[at[j]]
    BY <1>a, <2>1, <2>2
  <2>4. QED
    BY <1>7, <2>3
<1>10. \A i, j \in 1..n : u[i] = u[j] => i = j
  <2> SUFFICES ASSUME NEW i \in 1..n, NEW j \in 1..n, u[i] = u[j] PROVE i = j
    OBVIOUS
  <2>1. i \in Nat /\ j \in Nat
    BY <1>1
  <2>2. ~(i < j) /\ ~(j < i)
    BY <1>9
  <2>3. QED
    BY <2>1, <2>2
<1>11. u \in Seq(S)
  <2>1. \A i \in 1..n : u[i] \in S
    BY <1>2, <1>7
  <2>2. u \in [1..n -> S]
    BY <1>1, <2>1
  <2>3. QED
    BY <1>1, <2>2
<1>12. ASSUME seq # <<>> PROVE u # <<>> /\ u[1] = seq[1]
  <2>1. n # 0 /\ Len(u) # 0 /\ 1 \in 1..n /\ 1 \in 1..Len(seq)
    BY <1>1, <1>2, <1>12
  <2> DEFINE k == 1
  <2>2. k \in 1..n /\ k \in 1..Len(seq) /\ \A j \in Int : ~(j \in 1..k - 1)
    BY <2>1
  <2>3. k \in first
    BY <1>b, <2>2
  <2>4. \A i \in 1..n : k <= i
    OBVIOUS
  <2>5. \A i \in 1..Len(seq) : k <= i
    OBVIOUS
  <2> HIDE DEF k
  <2>6. PICK i \in 1..n : at[i] = k
    BY <1>6, <2>3
  <2>7. i = k
    <3>1. k <= at[k] /\ at[k] \in Int /\ k \in Int /\ i \in Int
      BY <1>7, <2>2, <2>5
    <3>2. ~(at[k] < at[i])
      BY <2>6, <3>1
    <3>3. ~(k < i)
      BY <1>7, <2>2, <3>2
    <3>4. QED
      BY <2>4, <3>1, <3>3
  <2>8. u[k] = seq[k]
    BY <1>7, <2>6, <2>7
  <2>9. u # <<>>
    BY <1>11, <2>1
  <2>10. QED
    BY <2>8, <2>9 DEF k
<1>13. ASSUME Different(seq) PROVE u = seq
  <2>1. first = 1..Len(seq)
    <3>1. ASSUME NEW k \in 1..Len(seq) PROVE k \in first
      <4>1. ASSUME NEW j \in 1..k - 1 PROVE seq[j] # seq[k]
        <5>1. j \in 1..Len(seq) /\ j # k
          BY <1>2, <4>1
        <5>2. QED
          BY <1>2, <1>13, <5>1 DEF Different
      <4>2. QED
        BY <1>b, <4>1
    <3>2. QED
      BY <1>3, <3>1
  <2>2. n = Len(seq)
    <3>1. Cardinality(1..Len(seq)) = IF 1 > Len(seq) THEN 0 ELSE Len(seq) - 1 + 1
      <4> DEFINE m == Len(seq)
      <4>1. m \in Int /\ 1 \in Int
        BY <1>2
      <4> HIDE DEF m
      <4>2. Cardinality(1..m) = IF 1 > m THEN 0 ELSE m - 1 + 1
        BY <4>1, FS_Interval
      <4>3. QED
        BY <4>2 DEF m
    <3>2. QED
      BY <1>2, <2>1, <3>1 DEF n
  <2>3. ASSUME NEW i \in 1..n PROVE at[i] = i
    <3>1. below[at[i]] = 1..at[i] - 1
      <4>1. below[at[i]] \subseteq first
        BY <1>4, <1>7 DEF Orderly
      <4>2. QED
        <5>1. at[i] \in first /\ at[i] \in 1..Len(seq)
          BY <1>7
        <5>2. \A x \in first : x \in below[at[i]] <=> x < at[i]
          BY <1>c, <5>1
        <5>3. \A x \in 1..Len(seq) : x < at[i] <=> x \in 1..at[i] - 1
          BY <1>2, <5>1
        <5>4. 1..at[i] - 1 \subseteq 1..Len(seq)
          BY <1>2, <5>1
        <5>5. QED
          BY <2>1, <4>1, <5>2, <5>3, <5>4
    <3>2. at[i] - 1 \in Nat
      BY <1>2, <1>7
    <3>3. Cardinality(1..at[i] - 1) = at[i] - 1
      <4> DEFINE m == at[i] - 1
      <4> HIDE DEF m
      <4>1. m \in Nat
        BY <3>2 DEF m
      <4>2. Cardinality(1..m) = IF 1 > m THEN 0 ELSE m - 1 + 1
        BY <4>1, FS_Interval
      <4>3. QED
        BY <4>1, <4>2 DEF m
    <3>4. at[i] - 1 = i - 1
      BY <1>6, <3>1, <3>3
    <3>5. QED
      <4>1. at[i] \in Int /\ i \in Int
        BY <1>2, <1>7
      <4>2. QED
        BY <3>4, <4>1
  <2>4. \A i \in 1..n : u[i] = seq[i]
    BY <1>7, <2>3
  <2>5. QED
    BY <1>1, <1>2, <2>2, <2>4
<1>14. \E f : Embeds(f, u, seq)
  <2> DEFINE f == [i \in 1..n |-> at[i]]
  <2>1. f \in [DOMAIN u -> DOMAIN seq] /\ \A i \in 1..n : f[i] = at[i]
    BY <1>1, <1>2, <1>7
  <2> HIDE DEF f
  <2>2. \A i, j \in DOMAIN u : i < j <=> f[i] < f[j]
    BY <1>1, <1>7, <2>1
  <2>3. \A i \in DOMAIN u : u[i] = seq[f[i]]
    BY <1>1, <1>7, <2>1
  <2>4. QED
    BY <2>1, <2>2, <2>3 DEF Embeds
<1>15. Different(u)
  BY <1>1, <1>10 DEF Different
<1>16. QED
  BY <1>1, <1>2, <1>8, <1>11, <1>12, <1>13, <1>14, <1>15 DEF u

(* The keys that rows are ordered by. *)
Keys == {SortKey(pk) : pk \in DOMAIN rows}

(* Keys have a number and a number or NULL; rows differ in the first. *)
LEMMA KeysAre ==
    ASSUME rows \in Tables
    PROVE  /\ \A a \in Keys : /\ a.pk \in DOMAIN rows /\ a = SortKey(a.pk)
                              /\ \A c \in {"pk", "val"} : a[c] \in Nat \cup {Null}
           /\ \A a, b \in Keys : a["pk"] = b["pk"] => a = b
<1>1. \A pk \in DOMAIN rows : pk \in Nat /\ rows[pk].val \in Nat \cup {Null}
  BY QuerySetAssumption DEF QuerySetAssumption
<1>2. ASSUME NEW a \in Keys
      PROVE  /\ a.pk \in DOMAIN rows /\ a = SortKey(a.pk)
             /\ \A c \in {"pk", "val"} : a[c] \in Nat \cup {Null}
  <2>1. PICK pk \in DOMAIN rows : a = SortKey(pk)
    BY DEF Keys
  <2>2. a.pk = pk /\ a.val = rows[pk].val
    BY <2>1 DEF SortKey
  <2>3. QED
    BY <1>1, <2>1, <2>2
<1>3. ASSUME NEW a \in Keys, NEW b \in Keys, a["pk"] = b["pk"] PROVE a = b
  <2>1. a = SortKey(a.pk) /\ b = SortKey(b.pk)
    BY <1>2
  <2>2. QED
    BY <1>3, <2>1
<1>4. QED
  BY <1>2, <1>3

(* One column sorts strictly and totally. *)
LEMMA SortsIs ==
    \A d \in BOOLEAN, x, y, z \in Nat \cup {Null} :
       /\ ~Sorts(x, x, d)
       /\ Sorts(x, y, d) /\ Sorts(y, z, d) => Sorts(x, z, d)
       /\ x = y \/ Sorts(x, y, d) \/ Sorts(y, x, d)
       /\ Sorts(x, y, d) => x # y
<1>1. Null \notin Nat
  BY QuerySetAssumption DEF QuerySetAssumption
<1>2. \A x, y, z \in Nat \cup {Null} :
         /\ ~Smaller(x, x)
         /\ Smaller(x, y) /\ Smaller(y, z) => Smaller(x, z)
         /\ x = y \/ Smaller(x, y) \/ Smaller(y, x)
         /\ Smaller(x, y) => x # y
  BY <1>1 DEF Smaller
<1>3. QED
  BY <1>2 DEF Sorts

(* An order that ends with every tie broken by the primary key. *)
LEMMA Precedence ==
    ASSUME rows \in Tables, NEW o \in Seq(OrderSpec), \E i \in DOMAIN o : o[i].col = "pk"
    PROVE  /\ \A a \in Keys : ~Precedes(o, a, a)
           /\ \A a, b, c \in Keys : Precedes(o, a, b) /\ Precedes(o, b, c) => Precedes(o, a, c)
           /\ \A a, b \in Keys : a = b \/ Precedes(o, a, b) \/ Precedes(o, b, a)
<1> DEFINE V == Nat \cup {Null}
<1>1. \A i \in DOMAIN o : i \in Nat /\ o[i].col \in {"pk", "val"} /\ o[i].desc \in BOOLEAN
  <2>1. \A i \in DOMAIN o : i \in Nat /\ o[i] \in OrderSpec
    OBVIOUS
  <2>2. \A e \in OrderSpec : e.col \in {"pk", "val"} /\ e.desc \in BOOLEAN
    BY DEF OrderSpec
  <2>3. QED
    BY <2>1, <2>2
<1>2. \A i \in DOMAIN o, a \in Keys : a[o[i].col] \in V
  BY <1>1, KeysAre
<1>3. \A d \in BOOLEAN, x, y, z \in V :
         /\ ~Sorts(x, x, d)
         /\ Sorts(x, y, d) /\ Sorts(y, z, d) => Sorts(x, z, d)
         /\ x = y \/ Sorts(x, y, d) \/ Sorts(y, x, d)
         /\ Sorts(x, y, d) => x # y
  BY SortsIs
<1> HIDE DEF V
<1>4. ASSUME NEW a \in Keys, Precedes(o, a, a) PROVE FALSE
  <2>1. PICK i \in DOMAIN o : Sorts(a[o[i].col], a[o[i].col], o[i].desc)
    BY <1>4 DEF Precedes
  <2>2. QED
    BY <1>1, <1>2, <1>3, <2>1
<1>5. ASSUME NEW a \in Keys, NEW b \in Keys, NEW c \in Keys, Precedes(o, a, b), Precedes(o, b, c)
      PROVE  Precedes(o, a, c)
  <2>1. PICK i \in DOMAIN o : /\ \A j \in DOMAIN o : j < i => a[o[j].col] = b[o[j].col]
                              /\ Sorts(a[o[i].col], b[o[i].col], o[i].desc)
    BY <1>5 DEF Precedes
  <2>2. PICK k \in DOMAIN o : /\ \A j \in DOMAIN o : j < k => b[o[j].col] = c[o[j].col]
                              /\ Sorts(b[o[k].col], c[o[k].col], o[k].desc)
    BY <1>5 DEF Precedes
  <2>3. i \in Nat /\ k \in Nat /\ \A j \in DOMAIN o : j \in Nat
    BY <1>1
  <2>4. CASE i < k
    <3>1. \A j \in DOMAIN o : j < i => a[o[j].col] = c[o[j].col]
      BY <2>1, <2>2, <2>3, <2>4
    <3>2. b[o[i].col] = c[o[i].col]
      BY <2>2, <2>4
    <3>3. QED
      BY <2>1, <3>1, <3>2 DEF Precedes
  <2>5. CASE k < i
    <3>1. \A j \in DOMAIN o : j < k => a[o[j].col] = c[o[j].col]
      BY <2>1, <2>2, <2>3, <2>5
    <3>2. a[o[k].col] = b[o[k].col]
      BY <2>1, <2>5
    <3>3. QED
      BY <2>2, <3>1, <3>2 DEF Precedes
  <2>6. CASE i = k
    <3>1. \A j \in DOMAIN o : j < k => a[o[j].col] = c[o[j].col]
      BY <2>1, <2>2, <2>6
    <3>2. Sorts(a[o[k].col], c[o[k].col], o[k].desc)
      <4>1. /\ a[o[k].col] \in V /\ b[o[k].col] \in V /\ c[o[k].col] \in V
            /\ o[k].desc \in BOOLEAN
        BY <1>1, <1>2
      <4>2. Sorts(a[o[k].col], b[o[k].col], o[k].desc) /\ Sorts(b[o[k].col], c[o[k].col], o[k].desc)
        BY <2>1, <2>2, <2>6
      <4>3. QED
        BY <1>3, <4>1, <4>2
    <3>3. QED
      BY <3>1, <3>2 DEF Precedes
  <2>7. QED
    BY <2>3, <2>4, <2>5, <2>6
<1>6. ASSUME NEW a \in Keys, NEW b \in Keys, a # b PROVE Precedes(o, a, b) \/ Precedes(o, b, a)
  <2> DEFINE T == {i \in DOMAIN o : a[o[i].col] # b[o[i].col]}
  <2>1. PICK p \in DOMAIN o : o[p].col = "pk"
    OBVIOUS
  <2>2. a["pk"] # b["pk"]
    BY <1>6, KeysAre
  <2>3. p \in T /\ T \in SUBSET Nat
    BY <1>1, <2>1, <2>2
  <2>4. \A i \in T : i \in DOMAIN o /\ a[o[i].col] # b[o[i].col]
    OBVIOUS
  <2>5. \A j \in DOMAIN o : j \notin T => a[o[j].col] = b[o[j].col]
    OBVIOUS
  <2> HIDE DEF T
  <2>6. PICK i \in T : \A j \in T : i <= j
    BY <2>3, Smallest
  <2>7. \A j \in DOMAIN o : j < i => a[o[j].col] = b[o[j].col] /\ b[o[j].col] = a[o[j].col]
    BY <1>1, <2>4, <2>5, <2>6
  <2>8. \/ Sorts(a[o[i].col], b[o[i].col], o[i].desc)
        \/ Sorts(b[o[i].col], a[o[i].col], o[i].desc)
    BY <1>1, <1>2, <1>3, <2>4
  <2>9. QED
    BY <2>4, <2>7, <2>8 DEF Precedes
<1>7. QED
  BY <1>4, <1>5, <1>6

(* The reverse of an order. *)
LEMMA ReverseIs ==
    ASSUME NEW o \in Seq(OrderSpec)
    PROVE  /\ ReverseOrder(o) \in Seq(OrderSpec) /\ DOMAIN ReverseOrder(o) = DOMAIN o
           /\ \A i \in DOMAIN o : ReverseOrder(o)[i].col = o[i].col
           /\ \A a, b : Precedes(ReverseOrder(o), a, b) <=> Precedes(o, b, a)
<1> DEFINE r == ReverseOrder(o)
<1>1. \A i \in DOMAIN o : o[i].col \in {"pk", "val"} /\ o[i].desc \in BOOLEAN
  <2>1. \A i \in DOMAIN o : o[i] \in OrderSpec
    OBVIOUS
  <2>2. \A e \in OrderSpec : e.col \in {"pk", "val"} /\ e.desc \in BOOLEAN
    BY DEF OrderSpec
  <2>3. QED
    BY <2>1, <2>2
<1>2. /\ DOMAIN r = DOMAIN o
      /\ \A i \in DOMAIN o : /\ r[i].col = o[i].col /\ r[i] \in OrderSpec
                             /\ (r[i].desc = TRUE) <=> (o[i].desc = FALSE)
                             /\ r[i].desc \in BOOLEAN
  BY <1>1 DEF ReverseOrder, OrderSpec
<1>3. r \in Seq(OrderSpec)
  <2>1. r \in [1..Len(o) -> OrderSpec]
    <3>1. r = [i \in 1..Len(o) |-> r[i]]
      BY DEF ReverseOrder
    <3>2. \A i \in 1..Len(o) : r[i] \in OrderSpec
      BY <1>2
    <3> HIDE DEF r
    <3>3. QED
      BY <3>1, <3>2
  <2>2. QED
    BY <2>1
<1> HIDE DEF r
<1>4. ASSUME NEW i \in DOMAIN o, NEW x, NEW y
      PROVE  Sorts(x, y, r[i].desc) <=> Sorts(y, x, o[i].desc)
  <2>1. CASE o[i].desc = TRUE
    <3>1. r[i].desc = FALSE
      BY <1>2, <2>1
    <3>2. QED
      BY <2>1, <3>1 DEF Sorts
  <2>2. CASE o[i].desc = FALSE
    <3>1. r[i].desc = TRUE
      BY <1>2, <2>2
    <3>2. QED
      BY <2>2, <3>1 DEF Sorts
  <2>3. QED
    BY <1>1, <2>1, <2>2
<1>5. ASSUME NEW a, NEW b PROVE Precedes(r, a, b) <=> Precedes(o, b, a)
  <2>1. ASSUME Precedes(r, a, b) PROVE Precedes(o, b, a)
    <3>1. PICK i \in DOMAIN o : /\ \A j \in DOMAIN o : j < i => a[o[j].col] = b[o[j].col]
                                /\ Sorts(a[o[i].col], b[o[i].col], r[i].desc)
      BY <1>2, <2>1 DEF Precedes
    <3>2. Sorts(b[o[i].col], a[o[i].col], o[i].desc)
      BY <1>4, <3>1
    <3>3. QED
      BY <3>1, <3>2 DEF Precedes
  <2>2. ASSUME Precedes(o, b, a) PROVE Precedes(r, a, b)
    <3>1. PICK i \in DOMAIN o : /\ \A j \in DOMAIN o : j < i => b[o[j].col] = a[o[j].col]
                                /\ Sorts(b[o[i].col], a[o[i].col], o[i].desc)
      BY <2>2 DEF Precedes
    <3>2. Sorts(a[o[i].col], b[o[i].col], r[i].desc)
      BY <1>4, <3>1
    <3>3. Sorts(a[r[i].col], b[r[i].col], r[i].desc)
      BY <1>2, <3>2
    <3>4. \A j \in DOMAIN r : j < i => a[r[j].col] = b[r[j].col]
      BY <1>2, <3>1
    <3>5. QED
      BY <1>2, <3>3, <3>4 DEF Precedes
  <2>3. QED
    BY <2>1, <2>2
<1>6. QED
  BY <1>2, <1>3, <1>5 DEF r

(* The effective order is such an order. *)
LEMMA EffectiveOrderIs ==
    ASSUME NEW o \in Seq(OrderSpec)
    PROVE  /\ EffectiveOrder(o) \in Seq(OrderSpec)
           /\ \E i \in DOMAIN EffectiveOrder(o) : EffectiveOrder(o)[i].col = "pk"
<1>2. CASE \E i \in DOMAIN o : o[i].col = "pk"
  BY <1>2 DEF EffectiveOrder
<1>3. CASE ~\E i \in DOMAIN o : o[i].col = "pk"
  <2> DEFINE a == Asc("pk")
             e == Append(o, a)
  <2>1. a \in OrderSpec /\ a.col = "pk"
    BY DEF Asc, OrderSpec
  <2> HIDE DEF a
  <2>2. e \in Seq(OrderSpec) /\ Len(e) = Len(o) + 1 /\ e[Len(o) + 1] = a /\ Len(o) + 1 \in DOMAIN e
    BY <2>1
  <2>3. EffectiveOrder(o) = e
    BY <1>3 DEF EffectiveOrder, a
  <2>4. QED
    BY <2>1, <2>2, <2>3
<1>4. QED
  BY <1>2, <1>3

(* Before(o, C)[e]: the entries that come before e. *)
Before(o, C) ==
    [e \in Entries(C) |-> {f \in Entries(C) : \/ Precedes(o, f[1], e[1])
                                              \/ (f[1] = e[1] /\ f[2] < e[2])}]

(* The copies of the rows are totally ordered. *)
LEMMA EntriesOrderly ==
    ASSUME rows \in Tables, NEW C, DOMAIN C = Keys, \A k \in Keys : C[k] \in Nat,
           NEW o \in Seq(OrderSpec), \E i \in DOMAIN o : o[i].col = "pk"
    PROVE  /\ Orderly(Entries(C), Before(o, C))
           /\ \A e \in Entries(C) : /\ e[1] \in Keys /\ e[2] \in 1..C[e[1]] /\ e[2] \in Nat
                                    /\ e = <<e[1], e[2]>>
           /\ \A k \in Keys : C[k] >= 1 => <<k, 1>> \in Entries(C)
<1> DEFINE E == Entries(C)
           below == Before(o, C)
<1>1. \A e \in E : /\ e[1] \in Keys /\ e[2] \in 1..C[e[1]] /\ e[2] \in Nat
                   /\ e = <<e[1], e[2]>>
  BY DEF Entries
<1>2. \A k \in Keys : C[k] >= 1 => <<k, 1>> \in E
  <2> SUFFICES ASSUME NEW k \in Keys, C[k] >= 1 PROVE <<k, 1>> \in E
    OBVIOUS
  <2>1. C[k] \in Nat
    OBVIOUS
  <2>2. 1 \in 1..C[k]
    BY <2>1
  <2>3. <<k, 1>> \in {k} \X (1..C[k])
    BY <2>2
  <2>4. QED
    BY <2>3 DEF Entries
<1>3. \A e, f \in E : f \in below[e] <=> \/ Precedes(o, f[1], e[1])
                                         \/ (f[1] = e[1] /\ f[2] < e[2])
  BY DEF Before
<1>4. \A e \in E : below[e] \subseteq E
  BY DEF Before
<1>5. /\ \A a \in Keys : ~Precedes(o, a, a)
      /\ \A a, b, c \in Keys : Precedes(o, a, b) /\ Precedes(o, b, c) => Precedes(o, a, c)
      /\ \A a, b \in Keys : a = b \/ Precedes(o, a, b) \/ Precedes(o, b, a)
  BY Precedence
<1> HIDE DEF E, below
<1>6. \A e \in E : e \notin below[e]
  BY <1>1, <1>3, <1>5
<1>7. ASSUME NEW e \in E, NEW f \in E, NEW g \in E, e \in below[f], f \in below[g]
      PROVE  e \in below[g]
  <2>1. e[1] \in Keys /\ f[1] \in Keys /\ g[1] \in Keys
        /\ e[2] \in Nat /\ f[2] \in Nat /\ g[2] \in Nat
    BY <1>1
  <2>2. Precedes(o, e[1], f[1]) \/ (e[1] = f[1] /\ e[2] < f[2])
    BY <1>3, <1>7
  <2>3. Precedes(o, f[1], g[1]) \/ (f[1] = g[1] /\ f[2] < g[2])
    BY <1>3, <1>7
  <2>4. Precedes(o, e[1], g[1]) \/ (e[1] = g[1] /\ e[2] < g[2])
    BY <1>5, <2>1, <2>2, <2>3
  <2>5. QED
    BY <1>3, <2>4
<1>8. ASSUME NEW e \in E, NEW f \in E, e # f PROVE e \in below[f] \/ f \in below[e]
  <2>1. /\ e[1] \in Keys /\ f[1] \in Keys /\ e[2] \in Nat /\ f[2] \in Nat
        /\ e = <<e[1], e[2]>> /\ f = <<f[1], f[2]>>
    BY <1>1
  <2>2. e[1] # f[1] \/ e[2] # f[2]
    BY <1>8, <2>1
  <2>3. CASE e[1] # f[1]
    BY <1>3, <1>5, <2>1, <2>3
  <2>4. CASE e[1] = f[1] /\ e[2] # f[2]
    BY <1>3, <2>1, <2>4
  <2>5. QED
    BY <2>2, <2>3, <2>4
<1>9. Orderly(E, below)
  BY <1>4, <1>6, <1>7, <1>8 DEF Orderly
<1>10. QED
  BY <1>1, <1>2, <1>9 DEF E, below

(* ORDER BY: the rows that match, in order, and once if none matches twice. *)
LEMMA ListedInOrder ==
    ASSUME rows \in Tables, NEW t \in QuerySetType, ~Fails(t), NEW mode,
           NEW s, s.where = t.where, s.deleted = t.deleted, s.order \in Seq(OrderSpec)
    PROVE  LET o == EffectiveOrder(s.order)
               n == Cardinality(Entries(Copies(s, mode)))
               listed == Listed(s, mode)
           IN  /\ listed \in Seq(Keys) /\ n \in Nat /\ Len(listed) = n /\ DOMAIN listed = 1..n
               /\ \A i \in 1..n : Copies(s, mode)[listed[i]] >= 1
               /\ \A k \in Keys : Copies(s, mode)[k] >= 1 => \E i \in 1..n : listed[i] = k
               /\ \A i, j \in 1..n :
                     i < j => listed[i] = listed[j] \/ Precedes(o, listed[i], listed[j])
               /\ (\A k \in Keys : Copies(s, mode)[k] <= 1) => Different(listed)
<1> DEFINE o == EffectiveOrder(s.order)
           C == Copies(s, mode)
           E == Entries(C)
           n == Cardinality(E)
           below == Before(o, C)
           entry == Ranked(E, below)
           listed == Listed(s, mode)
<1>0. C = Copies(t, mode)
  BY SameMatches
<1>1. DOMAIN C = Keys /\ IsFiniteSet(E) /\ n \in Nat
  BY <1>0, CopiesAre DEF Keys
<1>2. \A k \in Keys : C[k] \in Nat
  BY <1>0, CopiesAre DEF Keys
<1>4. o \in Seq(OrderSpec) /\ \E i \in DOMAIN o : o[i].col = "pk"
  BY EffectiveOrderIs
<1>5. listed = [i \in DOMAIN entry |-> entry[i][1]]
  BY DEF Listed, Repeated, Before, Entries
<1> HIDE DEF o, C
<1>6. /\ Orderly(E, below)
      /\ \A e \in E : e[1] \in Keys /\ e[2] \in 1..C[e[1]] /\ e[2] \in Nat /\ e = <<e[1], e[2]>>
      /\ \A k \in Keys : C[k] >= 1 => <<k, 1>> \in E
  BY <1>1, <1>2, <1>4, EntriesOrderly
<1>7. \A e, f \in E : f \in below[e] <=> \/ Precedes(o, f[1], e[1])
                                         \/ (f[1] = e[1] /\ f[2] < e[2])
  BY DEF Before
<1> HIDE DEF E, below
<1>8. /\ DOMAIN entry = 1..n
      /\ \A i \in 1..n : entry[i] \in E
      /\ \A e \in E : \E i \in 1..n : entry[i] = e
      /\ \A i, j \in 1..n : i < j <=> entry[i] \in below[entry[j]]
  BY <1>1, <1>6, RankedIs
<1> HIDE DEF entry, n, listed
<1>9. listed = [i \in 1..n |-> listed[i]] /\ \A i \in 1..n : listed[i] = entry[i][1]
  BY <1>5, <1>8
<1>10. \A i \in 1..n : listed[i] \in Keys
  BY <1>6, <1>8, <1>9
<1>11. listed \in Seq(Keys) /\ Len(listed) = n /\ DOMAIN listed = 1..n
  <2>1. listed \in [1..n -> Keys]
    BY <1>9, <1>10
  <2>2. QED
    BY <1>1, <2>1
<1>12. ASSUME NEW i \in 1..n PROVE C[listed[i]] >= 1
  <2>1. entry[i][2] \in 1..C[listed[i]]
    BY <1>6, <1>8, <1>9
  <2>2. C[listed[i]] \in Nat
    BY <1>2, <1>10
  <2>3. QED
    BY <2>1, <2>2
<1>13. ASSUME NEW k \in Keys, C[k] >= 1 PROVE \E i \in 1..n : listed[i] = k
  <2>1. <<k, 1>> \in E
    BY <1>6, <1>13
  <2>2. PICK i \in 1..n : entry[i] = <<k, 1>>
    BY <1>8, <2>1
  <2>3. QED
    BY <1>9, <2>2
<1>14. ASSUME NEW i \in 1..n, NEW j \in 1..n, i < j
       PROVE  listed[i] = listed[j] \/ Precedes(o, listed[i], listed[j])
  <2>1. entry[i] \in E /\ entry[j] \in E /\ entry[i] \in below[entry[j]]
    BY <1>8, <1>14
  <2>2. QED
    BY <1>7, <1>9, <2>1
<1>15. ASSUME \A k \in Keys : C[k] <= 1, NEW i \in 1..n, NEW j \in 1..n, listed[i] = listed[j], i < j
       PROVE  FALSE
  <2>1. entry[i] \in E /\ entry[j] \in E /\ entry[i] \in below[entry[j]] /\ entry[i][1] = entry[j][1]
    BY <1>8, <1>9, <1>15
  <2>2. entry[i][2] = 1 /\ entry[j][2] = 1
    <3>1. ASSUME NEW e \in E PROVE e[2] = 1
      <4>1. e[1] \in Keys /\ e[2] \in 1..C[e[1]]
        BY <1>6
      <4>2. C[e[1]] \in Nat /\ C[e[1]] <= 1
        BY <1>2, <1>15, <4>1
      <4>3. QED
        BY <4>1, <4>2
    <3>2. QED
      BY <2>1, <3>1
  <2>3. entry[i] = entry[j]
    BY <1>6, <2>1, <2>2
  <2>4. QED
    BY <1>6, <2>1, <2>3 DEF Orderly
<1>16. ASSUME \A k \in Keys : C[k] <= 1 PROVE Different(listed)
  <2>1. ASSUME NEW i \in 1..n, NEW j \in 1..n, listed[i] = listed[j] PROVE i = j
    <3>1. i \in Nat /\ j \in Nat /\ ~(i < j) /\ ~(j < i)
      BY <1>1, <1>15, <1>16, <2>1
    <3>2. QED
      BY <3>1
  <2>2. QED
    BY <1>11, <2>1 DEF Different
<1>17. QED
  BY <1>1, <1>11, <1>12, <1>13, <1>14, <1>16 DEF o, C, E, n, listed

-----------------------------------------------------------------------------
(* What the terminals have in common.                                      *)

(* seq has the rows that match, in order. *)
InOrder(seq, o, copies) ==
    /\ seq \in Seq(Keys)
    /\ \A i \in DOMAIN seq : copies[seq[i]] >= 1
    /\ \A k \in Keys : copies[k] >= 1 => \E i \in DOMAIN seq : seq[i] = k
    /\ \A i, j \in DOMAIN seq : i < j => seq[i] = seq[j] \/ Precedes(o, seq[i], seq[j])

(* unique() leaves the rows in order. *)
LEMMA UniqueInOrder ==
    ASSUME NEW seq, NEW o, NEW copies, InOrder(seq, o, copies)
    PROVE  InOrder(Unique(seq), o, copies)
<1> DEFINE u == Unique(seq)
<1>1. seq \in Seq(Keys)
  BY DEF InOrder
<1> HIDE DEF u
<1>2. u \in Seq(Keys) /\ \A k \in DOMAIN seq : \E i \in DOMAIN u : u[i] = seq[k]
  <2>1. Unique(seq) \in Seq(Keys)
    BY <1>1, UniqueKeeps
  <2>2. \A k \in DOMAIN seq : \E i \in DOMAIN Unique(seq) : Unique(seq)[i] = seq[k]
    BY <1>1, UniqueKeeps
  <2>3. QED
    BY <2>1, <2>2 DEF u
<1>a. \E at : Embeds(at, u, seq)
  BY <1>1, UniqueKeeps DEF u
<1>3. PICK at : /\ at \in [DOMAIN u -> DOMAIN seq]
                /\ \A i, j \in DOMAIN u : i < j <=> at[i] < at[j]
                /\ \A i \in DOMAIN u : u[i] = seq[at[i]]
  BY <1>a DEF Embeds
<1>4. \A i \in DOMAIN u : copies[u[i]] >= 1
  BY <1>3 DEF InOrder
<1>5. \A k \in Keys : copies[k] >= 1 => \E i \in DOMAIN u : u[i] = k
  BY <1>2 DEF InOrder
<1>6. \A i, j \in DOMAIN u : i < j => u[i] = u[j] \/ Precedes(o, u[i], u[j])
  <2> SUFFICES ASSUME NEW i \in DOMAIN u, NEW j \in DOMAIN u, i < j
               PROVE  u[i] = u[j] \/ Precedes(o, u[i], u[j])
    OBVIOUS
  <2>1. at[i] \in DOMAIN seq /\ at[j] \in DOMAIN seq /\ at[i] < at[j]
    BY <1>3
  <2>2. seq[at[i]] = seq[at[j]] \/ Precedes(o, seq[at[i]], seq[at[j]])
    BY <2>1 DEF InOrder
  <2>3. QED
    BY <1>3, <2>2
<1>7. QED
  BY <1>2, <1>4, <1>5, <1>6 DEF InOrder, u

(* Two orders of the same rows are both empty or not. *)
LEMMA EmptyInAnyOrder ==
    ASSUME NEW a, NEW b, NEW o, NEW p, NEW copies, InOrder(a, o, copies), InOrder(b, p, copies),
           a # <<>>
    PROVE  b # <<>>
<1>1. a \in Seq(Keys) /\ b \in Seq(Keys)
  BY DEF InOrder
<1>2. 1 \in DOMAIN a
  BY <1>1
<1>3. a[1] \in Keys /\ copies[a[1]] >= 1
  BY <1>1, <1>2 DEF InOrder
<1>4. PICK i \in DOMAIN b : b[i] = a[1]
  BY <1>3 DEF InOrder
<1>5. QED
  BY <1>1, <1>4

(* The first row of the reverse order is the last one. *)
LEMMA LastOfReversed ==
    ASSUME rows \in Tables, NEW o \in Seq(OrderSpec), \E i \in DOMAIN o : o[i].col = "pk",
           NEW copies, NEW a, NEW b, InOrder(a, o, copies), InOrder(b, ReverseOrder(o), copies),
           Different(a), a # <<>>
    PROVE  b # <<>> /\ b[1] = a[Len(a)]
<1>1. a \in Seq(Keys) /\ b \in Seq(Keys) /\ b # <<>>
  BY EmptyInAnyOrder DEF InOrder
<1> DEFINE m == Len(a)
           x == a[m]
           one == 1
           z == b[one]
<1>2. m \in DOMAIN a /\ x \in Keys /\ one \in DOMAIN b /\ z \in Keys
  BY <1>1
<1>3. \A i \in DOMAIN a : i <= m /\ i \in Nat
  BY <1>1
<1>4. \A i \in DOMAIN b : one <= i /\ i \in Nat
  BY <1>1
<1>5. m \in Nat /\ one \in Nat
  BY <1>1
<1> HIDE DEF m, one
<1>6. PICK i \in DOMAIN a : a[i] = z
  BY <1>2 DEF InOrder
<1>7. PICK j \in DOMAIN b : b[j] = x
  BY <1>2 DEF InOrder
<1>8. ASSUME x # z PROVE FALSE
  <2>1. i < m /\ one < j
    BY <1>3, <1>4, <1>5, <1>6, <1>7, <1>8
  <2>2. Precedes(o, z, x)
    BY <1>2, <1>6, <1>8, <2>1 DEF InOrder
  <2>3. Precedes(ReverseOrder(o), z, x)
    BY <1>2, <1>7, <1>8, <2>1 DEF InOrder
  <2>4. Precedes(o, x, z)
    BY <2>3, ReverseIs
  <2>5. Precedes(o, x, x)
    BY <1>2, <2>2, <2>4, Precedence
  <2>6. QED
    BY <1>2, <2>5, Precedence
<1>9. QED
  BY <1>1, <1>8 DEF m, one

(* Sequences of the same rows without repetition are equally long. *)
LEMMA SameLength ==
    ASSUME NEW a, NEW o, NEW copies, InOrder(a, o, copies), Different(a)
    PROVE  Len(a) = Cardinality({k \in Keys : copies[k] >= 1})
<1> DEFINE K == {k \in Keys : copies[k] >= 1}
           n == Len(a)
<1>1. a \in Seq(Keys) /\ n \in Nat /\ DOMAIN a = 1..n
  BY DEF InOrder
<1>2. \A i \in 1..n : a[i] \in K
  BY <1>1 DEF InOrder
<1>3. a \in [1..n -> K]
  <2>1. a = [i \in 1..n |-> a[i]]
    BY <1>1
  <2> HIDE DEF K, n
  <2>2. QED
    BY <1>2, <2>1
<1>4. \A k \in K : \E i \in 1..n : a[i] = k
  BY <1>1 DEF InOrder
<1>5. \A i, j \in 1..n : a[i] = a[j] => i = j
  BY <1>1 DEF Different
<1> HIDE DEF K, n
<1>6. a \in Bijection(1..n, K)
  BY <1>3, <1>4, <1>5, Fun_IsBij
<1>7. ExistsBijection(1..n, K)
  BY <1>6 DEF ExistsBijection
<1>8. Cardinality(K) = n
  BY <1>1, <1>7, FS_CountingElements
<1>9. QED
  BY <1>8 DEF K, n

(* A queryset's rows before LIMIT and OFFSET. *)
Whole(s, mode) == IF s.distinct THEN Unique(Shown(s, mode)) ELSE Shown(s, mode)

(* They depend on these parts of it only. *)
LEMMA SameWhole ==
    ASSUME NEW a, NEW b, a.where = b.where, a.deleted = b.deleted, a.order = b.order,
           a.only = b.only, a.distinct = b.distinct, NEW mode
    PROVE  Whole(a, mode) = Whole(b, mode)
<1>1. Listed(a, mode) = Listed(b, mode)
  BY SameMatches DEF Listed
<1>2. Shown(a, mode) = Shown(b, mode)
  BY <1>1 DEF Shown
<1>3. QED
  BY <1>2 DEF Whole

(* Without a projection they are in order, and different if DISTINCT says  *)
(* so or no row matches twice.                                             *)
LEMMA WholeInOrder ==
    ASSUME rows \in Tables, NEW t \in QuerySetType, ~Fails(t), NEW mode,
           NEW s, s.where = t.where, s.deleted = t.deleted, s.order \in Seq(OrderSpec),
           s.only = Unset
    PROVE  /\ InOrder(Whole(s, mode), EffectiveOrder(s.order), Copies(s, mode))
           /\ s.distinct \/ (\A k \in Keys : Copies(s, mode)[k] <= 1) => Different(Whole(s, mode))
<1> DEFINE o == EffectiveOrder(s.order)
           C == Copies(s, mode)
           n == Cardinality(Entries(C))
           listed == Listed(s, mode)
<1>1. /\ listed \in Seq(Keys) /\ n \in Nat /\ Len(listed) = n /\ DOMAIN listed = 1..n
      /\ \A i \in 1..n : C[listed[i]] >= 1
      /\ \A k \in Keys : C[k] >= 1 => \E i \in 1..n : listed[i] = k
      /\ \A i, j \in 1..n : i < j => listed[i] = listed[j] \/ Precedes(o, listed[i], listed[j])
      /\ (\A k \in Keys : C[k] <= 1) => Different(listed)
  BY ListedInOrder
<1>2. Shown(s, mode) = [i \in DOMAIN listed |-> listed[i]]
  BY DEF Shown
<1> HIDE DEF o, C, n, listed
<1>3. Shown(s, mode) = listed
  BY <1>1, <1>2
<1>4. InOrder(listed, o, C)
  BY <1>1 DEF InOrder
<1>5. InOrder(Unique(listed), o, C) /\ Different(Unique(listed))
  BY <1>1, <1>4, UniqueInOrder, UniqueKeeps
<1>6. QED
  BY <1>1, <1>3, <1>4, <1>5 DEF Whole, o, C, listed

(* The three windows of the terminals. *)
LEMMA Windows ==
    ASSUME NEW S, NEW seq \in Seq(S)
    PROVE  /\ Window(seq, Unset, Unset) = seq
           /\ Window(seq, Unset, 1) = IF seq = <<>> THEN <<>> ELSE <<seq[1]>>
           /\ Window(seq, Unset, 2) \in Seq(S)
           /\ Len(Window(seq, Unset, 2)) = IF Len(seq) < 2 THEN Len(seq) ELSE 2
           /\ Different(seq) => Different(Window(seq, Unset, 2))
<1> DEFINE none == Unset
           k == 1
           l == 2
<1>1. /\ none \in Nat \cup {Unset} /\ k \in Nat \cup {Unset} /\ l \in Nat \cup {Unset}
      /\ none = Unset /\ k # Unset /\ l # Unset /\ k = 1 /\ l = 2
  BY QuerySetAssumption DEF QuerySetAssumption
<1> HIDE DEF none, k, l
<1>2. Start(none) = 0 /\ Len(seq) \in Nat
  BY <1>1 DEF Start
<1>3. Stop(seq, none, none) = Len(seq)
  BY <1>1 DEF Stop
<1>4. Stop(seq, none, k) = IF Len(seq) < 1 THEN Len(seq) ELSE 1
  BY <1>1, <1>2 DEF Stop
<1>5. Stop(seq, none, l) = IF Len(seq) < 2 THEN Len(seq) ELSE 2
  BY <1>1, <1>2 DEF Stop
<1>6. ASSUME NEW lim \in {none, k, l}
      PROVE  /\ Window(seq, none, lim) \in Seq(S)
             /\ Len(Window(seq, none, lim)) = Stop(seq, none, lim)
             /\ \A i \in 1..Len(Window(seq, none, lim)) :
                   Window(seq, none, lim)[i] = seq[i] /\ i \in 1..Len(seq)
  <2> DEFINE w == Window(seq, none, lim)
             to == Stop(seq, none, lim)
             from == Start(none)
  <2>1. lim \in Nat \cup {Unset}
    BY <1>1
  <2>2. /\ w \in Seq(S) /\ Len(w) = (IF from < to THEN to - from ELSE 0)
        /\ \A i \in 1..Len(w) : w[i] = seq[from + i] /\ from + i \in 1..Len(seq)
        /\ to \in 0..Len(seq)
    BY <1>1, <2>1, WindowIs
  <2> HIDE DEF w, to
  <2>3. \A i \in 1..Len(w) : from + i = i
    BY <1>2, <2>2
  <2>4. Len(w) = to
    BY <1>2, <2>2
  <2> HIDE DEF from
  <2>5. \A i \in 1..Len(w) : w[i] = seq[i] /\ i \in 1..Len(seq)
    BY <2>2, <2>3
  <2>6. QED
    BY <2>2, <2>4, <2>5 DEF w, to
<1>7. Window(seq, none, none) = seq
  <2> DEFINE w == Window(seq, none, none)
  <2>1. w \in Seq(S) /\ Len(w) = Len(seq) /\ \A i \in 1..Len(w) : w[i] = seq[i]
    BY <1>3, <1>6
  <2> HIDE DEF w
  <2>2. w = seq
    BY <2>1
  <2>3. QED
    BY <2>2 DEF w
<1>8. Window(seq, none, k) = IF seq = <<>> THEN <<>> ELSE <<seq[1]>>
  <2> DEFINE w == Window(seq, none, k)
  <2>1. w \in Seq(S) /\ Len(w) = (IF Len(seq) < 1 THEN Len(seq) ELSE 1)
        /\ \A i \in 1..Len(w) : w[i] = seq[i]
    BY <1>4, <1>6
  <2> HIDE DEF w
  <2>2. w = IF seq = <<>> THEN <<>> ELSE <<seq[1]>>
    BY <1>2, <2>1
  <2>3. QED
    BY <2>2 DEF w
<1>9. ASSUME Different(seq) PROVE Different(Window(seq, none, l))
  <2> DEFINE w == Window(seq, none, l)
  <2>1. w \in Seq(S) /\ \A i \in 1..Len(w) : w[i] = seq[i] /\ i \in 1..Len(seq)
    BY <1>6
  <2> HIDE DEF w
  <2>2. Different(w)
    BY <1>9, <2>1 DEF Different
  <2>3. QED
    BY <2>2 DEF w
<1>10. QED
  BY <1>1, <1>5, <1>6, <1>7, <1>8, <1>9

(* Pages of two, one after the other, are the whole. *)
LEMMA PagesConcatenate ==
    ASSUME NEW S, NEW w \in Seq(S), NEW p \in Nat, 2 * p = Len(w) \/ 2 * p = Len(w) + 1,
           NEW seqs, seqs = [n \in 1..p |-> seqs[n]],
           \A n \in 1..p : seqs[n] = SubSeq(w, 2 * n - 1, IF 2 * n < Len(w) THEN 2 * n ELSE Len(w))
    PROVE  FlattenSeq(seqs) = w
<1> DEFINE L == Len(w)
           To(n) == IF 2 * n < L THEN 2 * n ELSE L
           g == [i \in 1..p |-> SubSeq(w, 1, To(i))]
           Fix(f) == f = [i \in 1..p |-> IF i = 1 THEN seqs[i] ELSE f[i - 1] \o seqs[i]]
           flat == CHOOSE f : Fix(f)
<1>1. L \in Nat /\ Len(seqs) = p
  <2>1. Len(w) \in Nat
    OBVIOUS
  <2>2. Len(seqs) = p
    BY IsSequence
  <2>3. QED
    BY <2>1, <2>2
<1>2. CASE p = 0
  <2>1. L = 0
    BY <1>1, <1>2
  <2>2. w = <<>>
    BY <2>1
  <2>3. seqs = <<>>
    BY <1>2
  <2>4. FlattenSeq(seqs) = seqs
    BY <1>1, <1>2 DEF FlattenSeq
  <2>5. QED
    BY <2>2, <2>3, <2>4
<1>3. CASE p # 0
  <2>1. FlattenSeq(seqs) = flat[p]
    BY <1>1, <1>3 DEF FlattenSeq
  <2>2. ASSUME NEW i \in 1..p
        PROVE  /\ To(i) \in 0..L /\ 2 * i - 1 \in 1..L /\ To(i) >= 2 * i - 1
               /\ i # 1 => To(i - 1) = 2 * i - 2 /\ i - 1 \in 1..p
               /\ i = 1 => 2 * i - 1 = 1
               /\ i = p => To(i) = L
    <3>1. i \in Nat /\ 1 <= i /\ i <= p /\ p \in Nat
      OBVIOUS
    <3>2. 2 * i \in Nat /\ 2 <= 2 * i /\ 2 * i <= L + 1
      BY <1>1, <3>1
    <3>3. i = 1 \/ i - 1 \in 1..p
      BY <3>1
    <3>4. 2 * (i - 1) = 2 * i - 2 /\ 2 * i - 2 < L
      BY <1>1, <3>1, <3>2
    <3>5. To(i - 1) = 2 * i - 2
      BY <3>4
    <3>6. i = p => To(i) = L
      BY <1>1
    <3>7. To(i) \in 0..L /\ 2 * i - 1 \in 1..L /\ To(i) >= 2 * i - 1
      <4> DEFINE m == 2 * i
                 k == To(i)
      <4>1. m \in Nat /\ 2 <= m /\ m <= L + 1 /\ L \in Nat
        BY <1>1, <3>2
      <4>2. k = IF m < L THEN m ELSE L
        OBVIOUS
      <4> HIDE DEF m, k, L, To
      <4>3. k \in 0..L /\ m - 1 \in 1..L /\ k >= m - 1
        BY <4>1, <4>2
      <4>4. QED
        BY <4>3 DEF m, k
    <3> HIDE DEF To
    <3>8. QED
      BY <3>3, <3>5, <3>6, <3>7
  <2>3. ASSUME NEW i \in 1..p
        PROVE  IF i = 1 THEN g[i] = seqs[i] ELSE g[i] = g[i - 1] \o seqs[i]
    <3>1. g[i] = SubSeq(w, 1, To(i)) /\ seqs[i] = SubSeq(w, 2 * i - 1, To(i))
      OBVIOUS
    <3>2. CASE i = 1
      BY <2>2, <3>1, <3>2
    <3>3. CASE i # 1
      <4>1. g[i - 1] = SubSeq(w, 1, To(i - 1)) /\ To(i - 1) = 2 * i - 2
        BY <2>2, <3>3
      <4> DEFINE a == 1
                 b == 2 * i - 2
                 c == To(i)
      <4>2. a \in 1..L + 1 /\ b \in a - 1..L /\ c \in b..L /\ b + 1 = 2 * i - 1
        <5> DEFINE m == 2 * i
        <5>1. /\ To(i) \in 0..L /\ m - 1 \in 1..L /\ To(i) >= m - 1 /\ L \in Nat
              /\ m \in Int /\ b = m - 2
          <6> HIDE DEF L, To
          <6>1. i \in Int
            OBVIOUS
          <6>2. m \in Int /\ b = m - 2
            BY <6>1
          <6>3. To(i) \in 0..L /\ m - 1 \in 1..L /\ To(i) >= m - 1 /\ L \in Nat
            BY <1>1, <2>2
          <6>4. QED
            BY <6>2, <6>3
        <5>2. c \in 0..L /\ c >= m - 1
          BY <5>1
        <5> HIDE DEF m, L, b, c, To
        <5>3. a \in 1..L + 1
          BY <5>1
        <5>4. b \in a - 1..L /\ c \in b..L /\ b + 1 = m - 1
          <6>1. b \in Int /\ 0 <= b /\ b <= L /\ b + 1 = m - 1
            BY <5>1
          <6>2. b \in a - 1..L
            BY <5>1, <6>1
          <6>3. c \in b..L
            BY <5>1, <5>2, <6>1
          <6>4. QED
            BY <6>1, <6>2, <6>3
        <5>5. QED
          BY <5>3, <5>4 DEF m
      <4>3. SubSeq(w, a, b) \o SubSeq(w, b + 1, c) = SubSeq(w, a, c)
        <5> HIDE DEF a, b, c
        <5>1. QED
          BY <4>2, ConcatAdjacentSubSeq
      <4>4. QED
        BY <3>1, <3>3, <4>1, <4>2, <4>3
    <3>4. QED
      BY <3>2, <3>3
  <2>4. g = [i \in 1..p |-> g[i]]
    OBVIOUS
  <2>5. g[p] = w
    <3>1. p \in 1..p
      BY <1>3
    <3>2. g[p] = SubSeq(w, 1, L)
      BY <2>2, <3>1
    <3>3. QED
      BY <3>2, SubSeqFull
  <2> HIDE DEF g, To
  <2>6. Fix(g)
    BY <2>3, <2>4
  <2>7. Fix(flat)
    BY <2>6
  <2> HIDE DEF flat
  <2>8. flat = [i \in 1..p |-> IF i = 1 THEN seqs[i] ELSE flat[i - 1] \o seqs[i]]
    BY <2>7
  <2>9. \A i \in 1..p : flat[i] = IF i = 1 THEN seqs[i] ELSE flat[i - 1] \o seqs[i]
    BY <2>8
  <2>10. \A i \in 0..p : i # 0 => flat[i] = g[i]
    <3> DEFINE P == {i \in 0..p : i # 0 => flat[i] = g[i]}
    <3>1. 0 \in P
      OBVIOUS
    <3>2. ASSUME NEW i \in 1..p, i - 1 \in P PROVE i \in P
      <4>1. CASE i = 1
        BY <2>3, <2>9, <4>1
      <4>2. CASE i # 1
        <5>1. i - 1 # 0 /\ i - 1 \in 1..p
          BY <4>2
        <5>2. flat[i - 1] = g[i - 1]
          BY <3>2, <5>1
        <5>3. g[i] = g[i - 1] \o seqs[i]
          BY <2>3, <4>2
        <5>4. flat[i] = flat[i - 1] \o seqs[i]
          BY <2>9, <4>2
        <5>5. flat[i] = g[i]
          BY <5>2, <5>3, <5>4
        <5>6. QED
          BY <5>5
      <4>3. QED
        BY <4>1, <4>2
    <3> HIDE DEF P
    <3>3. \A i \in 0..p : i \in P
      BY <3>1, <3>2, Induct
    <3>4. QED
      BY <3>3 DEF P
  <2>11. QED
    BY <1>3, <2>1, <2>5, <2>10
<1>4. QED
  BY <1>2, <1>3

(* The rows of a statement are a sequence, empty if nothing matches. *)
LEMMA WholeIs ==
    ASSUME rows \in Tables, NEW s \in QuerySetType, ~Fails(s), NEW mode
    PROVE  /\ \E T : Whole(s, mode) \in Seq(T)
           /\ Whole(s, mode) = <<>> <=> Cardinality(Entries(Copies(s, mode))) = 0
<1> DEFINE shown == Shown(s, mode)
           n == Cardinality(Entries(Copies(s, mode)))
           S == {shown[i] : i \in 1..n}
<1>1. n \in Nat /\ shown = [i \in 1..n |-> shown[i]]
  BY ListedIs
<1> HIDE DEF shown, n
<1>2. shown \in Seq(S) /\ Len(shown) = n
  BY <1>1, IsSequence
<1> HIDE DEF S
<1>3. Unique(shown) \in Seq(S)
  BY <1>2, UniqueKeeps
<1>4. Unique(shown) = <<>> => shown = <<>>
  BY <1>2, UniqueKeeps
<1>5. shown = <<>> => Unique(shown) = <<>>
  <2>1. Different(<<>>)
    BY DEF Different
  <2>2. ASSUME shown = <<>> PROVE Unique(shown) = <<>>
    BY <1>2, <2>1, <2>2, UniqueKeeps
  <2>3. QED
    BY <2>2
<1>6. shown = <<>> <=> n = 0
  BY <1>1, <1>2
<1>7. Whole(s, mode) \in Seq(S)
  BY <1>2, <1>3 DEF Whole, shown
<1>8. Whole(s, mode) = <<>> <=> n = 0
  BY <1>4, <1>5, <1>6 DEF Whole, shown
<1>9. QED
  BY <1>7, <1>8 DEF n

(* all() of a queryset that is not sliced. *)
LEMMA AllIs ==
    ASSUME rows \in Tables, NEW s \in QuerySetType, ~Fails(s), Unsliced(s)
    PROVE  /\ \A mode : Tuples(s, mode) = Whole(s, mode)
           /\ All(s) = Unique(Whole(s, s.deleted))
           /\ All(s) = <<>> <=> Whole(s, s.deleted) = <<>>
<1>1. ASSUME NEW mode PROVE Tuples(s, mode) = Whole(s, mode)
  <2> DEFINE w == Whole(s, mode)
  <2>1. Tuples(s, mode) = Window(w, Unset, Unset)
    BY TuplesAre DEF Whole, Unsliced
  <2>2. PICK T : w \in Seq(T)
    BY WholeIs
  <2> HIDE DEF w
  <2>3. Window(w, Unset, Unset) = w
    BY <2>2, Windows
  <2>4. QED
    BY <2>1, <2>3 DEF w
<1>2. All(s) = Unique(Whole(s, s.deleted))
  BY <1>1 DEF All
<1>3. All(s) = <<>> <=> Whole(s, s.deleted) = <<>>
  <2> DEFINE w == Whole(s, s.deleted)
  <2>1. PICK T : w \in Seq(T)
    BY WholeIs
  <2> HIDE DEF w
  <2>2. w # <<>> => Unique(w) # <<>>
    BY <2>1, UniqueKeeps
  <2>3. Different(<<>>)
    BY DEF Different
  <2>4. ASSUME w = <<>> PROVE Unique(w) = <<>>
    BY <2>1, <2>3, <2>4, UniqueKeeps
  <2>5. QED
    BY <1>2, <2>2, <2>4 DEF w
<1>4. QED
  BY <1>1, <1>2, <1>3

(* exists() says whether all() has rows. *)
LEMMA ExistsAgrees ==
    ASSUME rows \in Tables, NEW s \in QuerySetType, ~Fails(s), Unsliced(s)
    PROVE  Exists(s) = (All(s) # <<>>)
<1> DEFINE one   == [s EXCEPT !.order = <<>>, !.limit = 1]
           shown == Shown(one, s.deleted)
           n     == Cardinality(Entries(Copies(s, s.deleted)))
<1>1. Start(s.offset) = 0
  BY DEF Unsliced, Start
<1>2. /\ Len(shown) = n /\ Len(shown) \in Nat
      /\ ~s.distinct => (Exists(s) <=> Start(s.offset) < Len(shown))
      /\ s.distinct /\ Start(s.offset) = 0 => (Exists(s) <=> 0 < Len(shown))
  BY ExistsIs
<1> HIDE DEF shown, n, one
<1>3. Exists(s) <=> n # 0
  BY <1>1, <1>2
<1>4. All(s) = <<>> <=> n = 0
  BY AllIs, WholeIs DEF n
<1>5. Exists(s) \in BOOLEAN
  BY DEF Exists
<1>6. QED
  BY <1>3, <1>4, <1>5

(* No row twice, in whatever order. *)
LEMMA OnceInAnyOrder ==
    ASSUME rows \in Tables, NEW s \in QuerySetType, ~Fails(s), s.distinct \/ ~Repeats(s),
           NEW t, t.where = s.where, t.deleted = s.deleted, t.order \in Seq(OrderSpec),
           t.only = Unset, t.distinct = s.distinct
    PROVE  /\ Different(Whole(t, s.deleted))
           /\ InOrder(Whole(t, s.deleted), EffectiveOrder(t.order), Copies(s, s.deleted))
<1> DEFINE mode == s.deleted
           C == Copies(s, mode)
<1>1. Copies(t, mode) = C
  BY SameMatches
<1>2. ~Repeats(s) => \A k \in Keys : C[k] <= 1
  <2> SUFFICES ASSUME ~Repeats(s), NEW k \in Keys PROVE C[k] <= 1
    OBVIOUS
  <2>1. k.pk \in DOMAIN rows /\ k = SortKey(k.pk)
    BY KeysAre
  <2>2. C[k] = Cardinality(Matches(k.pk, s, mode)) /\ C[k] \in Nat
    BY <2>1, CopiesAre
  <2>3. ~(Cardinality(Matches(k.pk, s, s.deleted)) > 1)
    BY <2>1 DEF Repeats
  <2>4. QED
    BY <2>2, <2>3
<1>3. /\ InOrder(Whole(t, mode), EffectiveOrder(t.order), Copies(t, mode))
      /\ t.distinct \/ (\A k \in Keys : Copies(t, mode)[k] <= 1) => Different(Whole(t, mode))
  BY WholeInOrder
<1>4. QED
  BY <1>1, <1>2, <1>3

(* The parts of the querysets that the terminals derive. *)
LEMMA DerivedParts ==
    ASSUME NEW s \in QuerySetType, Unsliced(s)
    PROVE  /\ s.order \in Seq(OrderSpec)
           /\ \A n, o : LET t == [[s EXCEPT !.order = o] EXCEPT !.limit = n]
                        IN  /\ t.where = s.where /\ t.deleted = s.deleted /\ t.order = o
                            /\ t.only = s.only /\ t.distinct = s.distinct
                            /\ t.limit = n /\ t.offset = Unset
           /\ \A n : LET t == [s EXCEPT !.limit = n]
                     IN  /\ t.where = s.where /\ t.deleted = s.deleted /\ t.order = s.order
                         /\ t.only = s.only /\ t.distinct = s.distinct
                         /\ t.limit = n /\ t.offset = Unset
           /\ Plain(s).where = s.where /\ Plain(s).deleted = s.deleted /\ Plain(s).order = <<>>
           /\ Plain(s).only = s.only /\ Plain(s).distinct = s.distinct
           /\ Plain(s).limit = Unset /\ Plain(s).offset = Unset
<1>1. s.order \in Seq(OrderSpec)
  <2>1. <<>> \in Seq(OrderSpec)
    OBVIOUS
  <2>2. Orders \subseteq Seq(OrderSpec)
    BY QuerySetAssumption DEF QuerySetAssumption
  <2>3. s.order \in Orders \cup {<<>>}
    BY DEF QuerySetType
  <2>4. QED
    BY <2>1, <2>2, <2>3
<1>2. /\ Plain(s).where = s.where /\ Plain(s).deleted = s.deleted /\ Plain(s).order = <<>>
      /\ Plain(s).only = s.only /\ Plain(s).distinct = s.distinct
      /\ Plain(s).limit = Unset /\ Plain(s).offset = Unset
  BY DEF Plain, QuerySetType
<1>3. ASSUME NEW n, NEW o
      PROVE  LET t == [[s EXCEPT !.order = o] EXCEPT !.limit = n]
             IN  /\ t.where = s.where /\ t.deleted = s.deleted /\ t.order = o
                 /\ t.only = s.only /\ t.distinct = s.distinct
                 /\ t.limit = n /\ t.offset = Unset
  BY DEF QuerySetType, Unsliced
<1>4. ASSUME NEW n
      PROVE  LET t == [s EXCEPT !.limit = n]
             IN  /\ t.where = s.where /\ t.deleted = s.deleted /\ t.order = s.order
                 /\ t.only = s.only /\ t.distinct = s.distinct
                 /\ t.limit = n /\ t.offset = Unset
  BY DEF QuerySetType, Unsliced
<1>5. QED
  BY <1>1, <1>2, <1>3, <1>4

(* A terminal that sets the limit. *)
LEMMA LimitedIs ==
    ASSUME NEW t, t.offset = Unset
    PROVE  All(t) = Unique(Window(Whole(t, t.deleted), Unset, t.limit))
  BY TuplesAre DEF All, Whole

(* get() looks at two rows, and sees whether there is more than one. *)
LEMMA GetAgrees ==
    ASSUME rows \in Tables, NEW s \in QuerySetType, ~Fails(s), Unsliced(s), s.only = Unset,
           s.distinct \/ ~Repeats(s)
    PROVE  (Len(GetOf(s)) > 1) = (Len(All(s)) > 1)
<1> DEFINE two == 2
           t == [s EXCEPT !.limit = two]
           w == Whole(s, s.deleted)
<1>1. /\ t.where = s.where /\ t.deleted = s.deleted /\ t.order = s.order /\ t.only = s.only
      /\ t.distinct = s.distinct /\ t.limit = two /\ t.offset = Unset
      /\ s.order \in Seq(OrderSpec)
  BY DerivedParts
<1>2. GetOf(s) = All(t)
  BY DEF GetOf
<1>a. two = 2
  OBVIOUS
<1> HIDE DEF t, two
<1>3. Whole(t, s.deleted) = w
  BY <1>1, SameWhole
<1>4. GetOf(s) = Unique(Window(w, Unset, 2))
  BY <1>1, <1>2, <1>3, <1>a, LimitedIs
<1>5. Different(w) /\ InOrder(w, EffectiveOrder(s.order), Copies(s, s.deleted))
  BY <1>1, OnceInAnyOrder
<1>6. All(s) = Unique(w)
  BY AllIs
<1> HIDE DEF w
<1>7. w \in Seq(Keys)
  BY <1>5 DEF InOrder
<1>8. Unique(w) = w
  BY <1>5, <1>7, UniqueKeeps
<1> DEFINE v == Window(w, Unset, 2)
<1>9. v \in Seq(Keys) /\ Len(v) = (IF Len(w) < 2 THEN Len(w) ELSE 2) /\ Different(v)
  BY <1>5, <1>7, Windows
<1> HIDE DEF v
<1>10. Unique(v) = v
  BY <1>9, UniqueKeeps
<1>11. Len(GetOf(s)) = (IF Len(w) < 2 THEN Len(w) ELSE 2) /\ Len(All(s)) = Len(w)
  BY <1>4, <1>6, <1>8, <1>9, <1>10 DEF v
<1>12. Len(w) \in Nat
  BY <1>7
<1>13. Len(GetOf(s)) > 1 <=> Len(All(s)) > 1
  BY <1>11, <1>12
<1>14. QED
  BY <1>13

(* count() counts the rows of all(). *)
LEMMA CountAgrees ==
    ASSUME rows \in Tables, NEW s \in QuerySetType, ~Fails(s), Unsliced(s), s.only = Unset,
           s.distinct \/ ~Repeats(s), s.deleted = "exclude"
    PROVE  /\ Count(s) = Len(All(s)) /\ All(s) = Whole(s, s.deleted)
           /\ Different(All(s)) /\ All(s) \in Seq(Keys)
<1> DEFINE p == Plain(s)
           w == Whole(s, s.deleted)
           v == Whole(p, s.deleted)
           C == Copies(s, s.deleted)
<1>1. /\ p.where = s.where /\ p.deleted = s.deleted /\ p.order = <<>>
      /\ p.only = s.only /\ p.distinct = s.distinct
      /\ p.limit = Unset /\ p.offset = Unset /\ s.order \in Seq(OrderSpec)
  BY DerivedParts
<1>2. p \in QuerySetType /\ ~Fails(p) /\ Unsliced(p)
  BY <1>1, StillCompiles DEF Unsliced
<1>3. Count(s) = Len(Tuples(p, s.deleted))
  BY DEF Count
<1> HIDE DEF p
<1>4. Tuples(p, s.deleted) = v
  BY <1>2, AllIs
<1>5. <<>> \in Seq(OrderSpec)
  OBVIOUS
<1>6. Different(v) /\ InOrder(v, EffectiveOrder(p.order), C)
  BY <1>1, <1>5, OnceInAnyOrder
<1>7. Different(w) /\ InOrder(w, EffectiveOrder(s.order), C)
  BY <1>1, OnceInAnyOrder
<1> HIDE DEF v, C
<1>8. Len(v) = Cardinality({k \in Keys : C[k] >= 1})
  BY <1>6, SameLength
<1>9. All(s) = Unique(w)
  BY AllIs
<1> HIDE DEF w
<1>10. Len(w) = Cardinality({k \in Keys : C[k] >= 1})
  BY <1>7, SameLength
<1>11. w \in Seq(Keys)
  BY <1>7 DEF InOrder
<1>12. Unique(w) = w
  BY <1>7, <1>11, UniqueKeeps
<1>13. QED
  BY <1>3, <1>4, <1>7, <1>8, <1>9, <1>10, <1>11, <1>12 DEF w

(* first() and last() are the ends of all(), if the order is total. *)
LEMMA EndsAgree ==
    ASSUME rows \in Tables, NEW s \in QuerySetType, ~Fails(s), Unsliced(s), s.only = Unset,
           TotalOrder(s)
    PROVE  /\ All(s) = <<>> => FirstOf(s) = <<>> /\ LastOf(s) = <<>>
           /\ All(s) # <<>> =>
                 FirstOf(s) = <<Head(All(s))>> /\ LastOf(s) = <<All(s)[Len(All(s))]>>
<1> DEFINE one == 1
           back == ReverseOrder(s.order)
           f == [s EXCEPT !.limit = one]
           l == [[s EXCEPT !.order = back] EXCEPT !.limit = one]
           w == Whole(s, s.deleted)
           v == Whole(l, s.deleted)
           C == Copies(s, s.deleted)
           all == All(s)
<1>1. /\ f.where = s.where /\ f.deleted = s.deleted /\ f.order = s.order /\ f.only = s.only
      /\ f.distinct = s.distinct /\ f.limit = one /\ f.offset = Unset
      /\ s.order \in Seq(OrderSpec)
  BY DerivedParts
<1>2. /\ l.where = s.where /\ l.deleted = s.deleted /\ l.order = back /\ l.only = s.only
      /\ l.distinct = s.distinct /\ l.limit = one /\ l.offset = Unset
  BY DerivedParts
<1>3. FirstOf(s) = All(f)
  BY DEF FirstOf
<1>4. LastOf(s) = All(l)
  <2>1. s.order # <<>> /\ s.order = s["order"]
    BY DEF TotalOrder
  <2>2. LastOf(s) = FirstOf([s EXCEPT !.order = back])
    BY <2>1 DEF LastOf
  <2>3. QED
    BY <2>2 DEF FirstOf
<1>a. one = 1
  OBVIOUS
<1> HIDE DEF f, l, one
<1>5. EffectiveOrder(s.order) = s.order
  BY DEF TotalOrder
<1>6. \E i \in DOMAIN s.order : s.order[i].col = "pk"
  BY <1>1, <1>5, EffectiveOrderIs
<1>7. /\ back \in Seq(OrderSpec) /\ DOMAIN back = DOMAIN s.order
      /\ \A i \in DOMAIN s.order : back[i].col = s.order[i].col
  BY <1>1, ReverseIs
<1>8. EffectiveOrder(back) = back
  BY <1>6, <1>7 DEF EffectiveOrder
<1>9. InOrder(w, s.order, C)
  BY <1>1, <1>5, WholeInOrder
<1>10. InOrder(v, back, C)
  <2>1. Copies(l, s.deleted) = C
    BY <1>2, SameMatches
  <2>2. InOrder(v, EffectiveOrder(l.order), Copies(l, s.deleted))
    BY <1>2, <1>7, WholeInOrder
  <2>3. QED
    BY <1>2, <1>8, <2>1, <2>2
<1>11. Whole(f, s.deleted) = w
  BY <1>1, SameWhole
<1>12. FirstOf(s) = Unique(Window(w, Unset, 1)) /\ LastOf(s) = Unique(Window(v, Unset, 1))
  BY <1>1, <1>2, <1>3, <1>4, <1>11, <1>a, LimitedIs
<1>13. all = Unique(w) /\ (all = <<>> <=> w = <<>>)
  BY AllIs
<1> HIDE DEF w, v, C, back, all
<1>14. w \in Seq(Keys) /\ v \in Seq(Keys)
  BY <1>9, <1>10 DEF InOrder
<1>15. /\ Window(w, Unset, 1) = IF w = <<>> THEN <<>> ELSE <<w[1]>>
       /\ Window(v, Unset, 1) = IF v = <<>> THEN <<>> ELSE <<v[1]>>
  BY <1>14, Windows
<1>16. \A x : Unique(<<x>>) = <<x>>
  <2> SUFFICES ASSUME NEW x PROVE Unique(<<x>>) = <<x>>
    OBVIOUS
  <2> DEFINE S == {x}
             y == <<x>>
  <2>1. y \in Seq(S)
    OBVIOUS
  <2>2. Different(y)
    BY DEF Different
  <2> HIDE DEF S, y
  <2>3. Unique(y) = y
    BY <2>1, <2>2, UniqueKeeps
  <2>4. QED
    BY <2>3 DEF y
<1>17. Unique(<<>>) = <<>>
  <2> DEFINE y == <<>>
  <2>1. y \in Seq(Keys)
    OBVIOUS
  <2>2. Different(y)
    BY DEF Different
  <2> HIDE DEF y
  <2>3. Unique(y) = y
    BY <2>1, <2>2, UniqueKeeps
  <2>4. QED
    BY <2>3 DEF y
<1>18. ASSUME all = <<>> PROVE FirstOf(s) = <<>> /\ LastOf(s) = <<>>
  <2>1. w = <<>>
    BY <1>13, <1>18
  <2>2. v = <<>>
    BY <1>9, <1>10, <2>1, EmptyInAnyOrder
  <2>3. QED
    BY <1>12, <1>15, <1>17, <2>1, <2>2
<1>19. ASSUME all # <<>> PROVE FirstOf(s) = <<Head(all)>> /\ LastOf(s) = <<all[Len(all)]>>
  <2>1. w # <<>>
    BY <1>13, <1>19
  <2>2. all \in Seq(Keys) /\ all[1] = w[1] /\ Different(all)
    BY <1>13, <1>14, <2>1, UniqueKeeps
  <2>3. Head(all) = all[1]
    BY <2>2
  <2>4. FirstOf(s) = <<Head(all)>>
    BY <1>12, <1>15, <1>16, <2>1, <2>2, <2>3
  <2>5. InOrder(all, s.order, C)
    BY <1>9, <1>13, UniqueInOrder
  <2>6. InOrder(v, ReverseOrder(s.order), C)
    BY <1>10 DEF back
  <2>7. v # <<>> /\ v[1] = all[Len(all)]
    <3> DEFINE o == s.order
    <3>1. o \in Seq(OrderSpec) /\ \E i \in DOMAIN o : o[i].col = "pk"
      BY <1>1, <1>6
    <3> HIDE DEF o
    <3>2. InOrder(all, o, C) /\ InOrder(v, ReverseOrder(o), C)
      BY <2>5, <2>6 DEF o
    <3>3. QED
      BY <1>19, <2>2, <3>1, <3>2, LastOfReversed
  <2>8. LastOf(s) = <<all[Len(all)]>>
    BY <1>12, <1>15, <1>16, <2>7
  <2>9. QED
    BY <2>4, <2>8
<1>20. QED
  BY <1>18, <1>19 DEF all

(* A count that keeps the deleted-mode: aggregate() counts what count()    *)
(* does, where the mode is the default and no DISTINCT comes between.      *)
LEMMA AggregateAgrees ==
    ASSUME NEW s \in QuerySetType, s.deleted = "exclude", ~s.distinct
    PROVE  CountAggregate(s) = Count(s)
<1> DEFINE p == Plain(s)
<1>1. p = [p EXCEPT !.distinct = FALSE]
  <2>1. p.distinct = FALSE
    BY DEF Plain, QuerySetType
  <2>2. p = [p EXCEPT !.distinct = p.distinct]
    BY DEF Plain, QuerySetType
  <2> HIDE DEF p
  <2>3. QED
    BY <2>1, <2>2
<1> HIDE DEF p
<1>2. CountAggregate(s) = Len(Tuples([p EXCEPT !.distinct = FALSE], s.deleted))
  BY DEF CountAggregate, p
<1>3. Count(s) = Len(Tuples(p, "exclude"))
  BY DEF Count, p
<1>4. QED
  BY <1>1, <1>2, <1>3

(* A window repeats nothing that the whole does not repeat. *)
LEMMA WindowKeepsDifferent ==
    ASSUME NEW S, NEW seq \in Seq(S), Different(seq),
           NEW offset \in Nat \cup {Unset}, NEW limit \in Nat \cup {Unset}
    PROVE  Unique(Window(seq, offset, limit)) = Window(seq, offset, limit)
<1> DEFINE w == Window(seq, offset, limit)
           from == Start(offset)
<1>1. /\ w \in Seq(S) /\ from \in Nat
      /\ \A i \in 1..Len(w) : w[i] = seq[from + i] /\ from + i \in 1..Len(seq)
  BY WindowIs
<1> HIDE DEF w, from
<1>2. Different(w)
  <2> SUFFICES ASSUME NEW i \in DOMAIN w, NEW j \in DOMAIN w, i # j PROVE w[i] # w[j]
    BY DEF Different
  <2>1. DOMAIN w = 1..Len(w) /\ DOMAIN seq = 1..Len(seq)
    BY <1>1
  <2>2. w[i] = seq[from + i] /\ from + i \in DOMAIN seq
    BY <1>1, <2>1
  <2>3. w[j] = seq[from + j] /\ from + j \in DOMAIN seq
    BY <1>1, <2>1
  <2>4. i \in Nat /\ j \in Nat
    BY <2>1
  <2>5. from + i # from + j
    BY <1>1, <2>4
  <2>6. QED
    BY <2>2, <2>3, <2>5 DEF Different
<1>3. Unique(w) = w
  BY <1>1, <1>2, UniqueKeeps
<1>4. QED
  BY <1>3 DEF w

(* The number of pages of two. *)
LEMMA PageCount ==
    ASSUME NEW n \in Nat
    PROVE  /\ (n + 2 - 1) \div 2 \in Nat
           /\ \/ 2 * ((n + 2 - 1) \div 2) = n
              \/ 2 * ((n + 2 - 1) \div 2) = n + 1
  OBVIOUS

(* The parts of the queryset of a page of two. *)
LEMMA PageParts ==
    ASSUME NEW s \in QuerySetType, NEW n \in Nat \ {0}
    PROVE  LET t == Slice(s, (n - 1) * 2, n * 2)
           IN  /\ t.where = s.where /\ t.deleted = s.deleted /\ t.order = s.order
               /\ t.only = s.only /\ t.distinct = s.distinct /\ t.limit = 2
               /\ t.offset = IF n = 1 THEN Unset ELSE 2 * n - 2
               /\ t.offset \in Nat \cup {Unset} /\ Start(t.offset) = 2 * n - 2
<1> DEFINE from == (n - 1) * 2
           stop == n * 2
           t == Slice(s, from, stop)
<1>1. from \in Nat /\ stop \in Nat /\ from = 2 * n - 2 /\ stop - from = 2
  OBVIOUS
<1>2. from = 0 <=> n = 1
  OBVIOUS
<1>3. Unset \notin Nat
  BY QuerySetAssumption DEF QuerySetAssumption
<1> HIDE DEF from, stop
<1>4. /\ t.where = s.where /\ t.deleted = s.deleted /\ t.order = s.order
      /\ t.only = s.only /\ t.distinct = s.distinct
      /\ t.offset = IF from = 0 THEN Unset ELSE from
      /\ t.limit = IF stop = Unset THEN s.limit ELSE stop - from
  BY DEF Slice, QuerySetType
<1> HIDE DEF t
<1>5. t.limit = 2
  BY <1>1, <1>3, <1>4
<1>6. t.offset = IF n = 1 THEN Unset ELSE 2 * n - 2
  BY <1>1, <1>2, <1>4
<1>7. t.offset \in Nat \cup {Unset} /\ Start(t.offset) = 2 * n - 2
  BY <1>1, <1>3, <1>4 DEF Start
<1>8. QED
  BY <1>4, <1>5, <1>6, <1>7 DEF t, from, stop

(* paginate() in pages of two returns the rows of all(), page after page.  *)
LEMMA PagesAgree ==
    ASSUME rows \in Tables, NEW s \in QuerySetType, ~Fails(s), Unsliced(s), s.only = Unset,
           s.distinct \/ ~Repeats(s), s.deleted = "exclude"
    PROVE  LET pages == PageOf(s, 1, 2).pages
           IN  /\ FlattenSeq([n \in 1..pages |-> PageOf(s, n, 2).items]) = All(s)
               /\ \A n \in 1..pages : PageOf(s, n, 2).hasNext = (n < pages)
<1> DEFINE w == All(s)
           L == Len(w)
           p == (Count(s) + 2 - 1) \div 2
           items(n) == PageOf(s, n, 2).items
<1>1. Count(s) = L /\ w = Whole(s, s.deleted) /\ Different(w) /\ w \in Seq(Keys)
  BY CountAgrees
<1>2. /\ \A n : PageOf(s, n, 2).pages = p /\ PageOf(s, n, 2).hasNext = (n < p)
      /\ \A n : items(n) = All(Slice(s, (n - 1) * 2, n * 2))
  BY DEF PageOf
<1> HIDE DEF w, items
<1>3. L \in Nat
  BY <1>1
<1>4. p \in Nat /\ (2 * p = L \/ 2 * p = L + 1)
  BY <1>1, <1>3, PageCount
<1> HIDE DEF p
<1>5. ASSUME NEW n \in 1..p
      PROVE  items(n) = SubSeq(w, 2 * n - 1, IF 2 * n < L THEN 2 * n ELSE L)
  <2> DEFINE t == Slice(s, (n - 1) * 2, n * 2)
             two == 2
             cut == Window(w, t.offset, two)
  <2>1. n \in Nat \ {0}
    OBVIOUS
  <2>2. /\ t.where = s.where /\ t.deleted = s.deleted /\ t.order = s.order
        /\ t.only = s.only /\ t.distinct = s.distinct /\ t.limit = 2
        /\ t.offset \in Nat \cup {Unset} /\ Start(t.offset) = 2 * n - 2
    BY <2>1, PageParts
  <2>3. items(n) = All(t)
    BY <1>2
  <2>a. two \in Nat \cup {Unset} /\ two = 2 /\ two # Unset
    BY QuerySetAssumption DEF QuerySetAssumption
  <2> HIDE DEF t, two
  <2>4. Whole(t, s.deleted) = w
    BY <1>1, <2>2, SameWhole
  <2>5. Tuples(t, t.deleted) = cut
    BY <2>2, <2>4, <2>a, TuplesAre DEF Whole
  <2>6. All(t) = Unique(cut)
    BY <2>5 DEF All
  <2>7. Unique(cut) = cut
    BY <1>1, <2>2, <2>a, WindowKeepsDifferent
  <2>8. cut = SubSeq(w, 2 * n - 1, IF 2 * n < L THEN 2 * n ELSE L)
    <3> DEFINE from == Start(t.offset)
    <3>1. cut = SubSeq(w, from + 1, IF from + two < Len(w) THEN from + two ELSE Len(w))
      BY <2>a DEF Window, Start
    <3>2. from + 1 = 2 * n - 1 /\ from + two = 2 * n
      BY <2>1, <2>2, <2>a
    <3> HIDE DEF from
    <3>3. QED
      BY <3>1, <3>2
  <2>9. QED
    BY <2>3, <2>6, <2>7, <2>8
<1>6. FlattenSeq([n \in 1..p |-> items(n)]) = w
  <2> DEFINE seqs == [n \in 1..p |-> items(n)]
  <2>1. seqs = [n \in 1..p |-> seqs[n]]
    OBVIOUS
  <2>2. \A n \in 1..p :
            seqs[n] = SubSeq(w, 2 * n - 1, IF 2 * n < Len(w) THEN 2 * n ELSE Len(w))
    BY <1>5
  <2>3. 2 * p = Len(w) \/ 2 * p = Len(w) + 1
    BY <1>4
  <2> HIDE DEF seqs, L
  <2>4. FlattenSeq(seqs) = w
    BY <1>1, <1>4, <2>1, <2>2, <2>3, PagesConcatenate
  <2>5. QED
    BY <2>4 DEF seqs
<1>7. PageOf(s, 1, 2).pages = p /\ \A n \in 1..p : PageOf(s, n, 2).hasNext = (n < p)
  BY <1>2
<1>8. QED
  BY <1>6, <1>7 DEF items, w

(* A queryset of the right type tells one story. *)
LEMMA TypedTerminalsAgree == QueryTypeOK => TerminalsAgree
<1> SUFFICES ASSUME QueryTypeOK, Unsliced(qs), ~Fails(qs)
             PROVE  /\ Exists(qs) = (All(qs) # <<>>)
                    /\ qs.only = Unset /\ (qs.distinct \/ ~Repeats(qs)) =>
                          (Len(GetOf(qs)) > 1) = (Len(All(qs)) > 1)
                    /\ qs.only = Unset /\ (qs.distinct \/ ~Repeats(qs)) /\ qs.deleted = "exclude" =>
                          Count(qs) = Len(All(qs))
                    /\ qs.deleted = "exclude" /\ ~qs.distinct => CountAggregate(qs) = Count(qs)
                    /\ TotalOrder(qs) /\ qs.only = Unset /\ All(qs) = <<>> =>
                          FirstOf(qs) = <<>> /\ LastOf(qs) = <<>>
                    /\ TotalOrder(qs) /\ qs.only = Unset /\ All(qs) # <<>> =>
                          /\ FirstOf(qs) = <<Head(All(qs))>>
                          /\ LastOf(qs) = <<All(qs)[Len(All(qs))]>>
                    /\ (qs.only = Unset /\ (qs.distinct \/ ~Repeats(qs)) /\ qs.deleted = "exclude" =>
                          LET pages == PageOf(qs, 1, 2).pages
                          IN /\ FlattenSeq([n \in 1..pages |-> PageOf(qs, n, 2).items]) = All(qs)
                             /\ \A n \in 1..pages : PageOf(qs, n, 2).hasNext = (n < pages))
  BY DEF TerminalsAgree
<1>1. rows \in Tables /\ qs \in QuerySetType
  BY DEF QueryTypeOK, QuerySetType
<1>2. Exists(qs) = (All(qs) # <<>>)
  BY <1>1, ExistsAgrees
<1>3. qs.only = Unset /\ (qs.distinct \/ ~Repeats(qs)) =>
          (Len(GetOf(qs)) > 1) = (Len(All(qs)) > 1)
  BY <1>1, GetAgrees
<1>4. qs.only = Unset /\ (qs.distinct \/ ~Repeats(qs)) /\ qs.deleted = "exclude" =>
          Count(qs) = Len(All(qs))
  BY <1>1, CountAgrees
<1>5. qs.deleted = "exclude" /\ ~qs.distinct => CountAggregate(qs) = Count(qs)
  BY <1>1, AggregateAgrees
<1>6. TotalOrder(qs) /\ qs.only = Unset =>
          /\ All(qs) = <<>> => FirstOf(qs) = <<>> /\ LastOf(qs) = <<>>
          /\ All(qs) # <<>> =>
                FirstOf(qs) = <<Head(All(qs))>> /\ LastOf(qs) = <<All(qs)[Len(All(qs))]>>
  BY <1>1, EndsAgree
<1>7. qs.only = Unset /\ (qs.distinct \/ ~Repeats(qs)) /\ qs.deleted = "exclude" =>
          LET pages == PageOf(qs, 1, 2).pages
          IN /\ FlattenSeq([n \in 1..pages |-> PageOf(qs, n, 2).items]) = All(qs)
             /\ \A n \in 1..pages : PageOf(qs, n, 2).hasNext = (n < pages)
  BY <1>1, PagesAgree
<1>8. QED
  BY <1>2, <1>3, <1>4, <1>5, <1>6, <1>7

(* exists(), count(), aggregate(), first(), last(), get() and paginate()   *)
(* tell of one queryset what all() does, on every table, however it was    *)
(* composed.                                                               *)
THEOREM TerminalsAlways == QuerySpec => []TerminalsAgree
  BY QueryTypes, TypedTerminalsAgree, PTL
-----------------------------------------------------------------------------
(* The walk by cursors.                                                    *)

(* The cursor and the flag of the direction the client goes in.            *)
Token == IF page.backward THEN page.prev ELSE page.next
More  == IF page.backward THEN page.hasPrev ELSE page.hasNext

Hidden(r) == NullsHidden /\ table[r] = Null

MarkedThere == \A r \in Rows : mark[r] \in {"seen", "due"} => table[r] # Absent

(* Rows that were returned are not past the cursor. *)
SeenBehind ==
    page # None /\ Token # None /\ Usable(Token)
    => \A r \in Rows : mark[r] = "seen" => ~Seek(KeyOf(r), Token, page.backward)

(* Rows that are still due are, and the flag announces them. *)
DueAhead ==
    page # None /\ repeated = {}
    => \A r \in Rows : mark[r] = "due" /\ ~Hidden(r) =>
          /\ More
          /\ Token # None /\ Usable(Token) => Seek(KeyOf(r), Token, page.backward)

IInv == WalkTypeOK /\ twice = {} /\ MarkedThere /\ SeenBehind /\ DueAhead

-----------------------------------------------------------------------------
(* Keys and orders.                                                        *)

(* None is not the key of a row. *)
LEMMA NoneIsNoKey == None \notin Key
  BY CursorAssumption DEF CursorAssumption, Key

(* The effective order, primary key appended, is an order again. *)
LEMMA EffectiveIsOrder == WalkTypeOK => Effective \in Seq(OrderSpec)
<1> SUFFICES ASSUME WalkTypeOK PROVE Effective \in Seq(OrderSpec)
  OBVIOUS
<1>1. order \in Seq(OrderSpec)
  BY CursorAssumption DEF CursorAssumption, WalkTypeOK
<1>2. Asc("pk") \in OrderSpec
  BY DEF Asc, OrderSpec
<1>3. Append(order, Asc("pk")) \in Seq(OrderSpec)
  BY <1>1, <1>2
<1> QED
  BY <1>1, <1>3 DEF Effective, EffectiveOrder

(* The effective order compares known columns, up or down. *)
LEMMA Columns ==
  ASSUME WalkTypeOK, NEW i \in DOMAIN Effective
  PROVE  Effective[i].col \in {"pk", "val"} /\ Effective[i].desc \in BOOLEAN
<1>1. Effective[i] \in OrderSpec
  BY EffectiveIsOrder
<1> QED
  BY <1>1 DEF OrderSpec

(* A column of a row holds a number or NULL. *)
LEMMA ColumnValue ==
  ASSUME NEW k \in Key, NEW c \in {"pk", "val"}
  PROVE  k[c] \in Nat \cup {Null}
  BY CursorAssumption DEF CursorAssumption, Key

(* The columns of the effective order are numbered. *)
LEMMA Indices == WalkTypeOK => DOMAIN Effective \subseteq Nat
  BY EffectiveIsOrder

(* What SQL's comparison and the order have to do with each other.         *)
LEMMA NotBothWays ==
  ASSUME NEW x \in Nat \cup {Null}, NEW v \in Nat, NEW desc \in BOOLEAN, NEW backward \in BOOLEAN,
         Beyond(x, v, desc, backward)
  PROVE  /\ x # v
         /\ ~Sorts(x, v, desc) \/ backward
         /\ ~Sorts(v, x, desc) \/ ~backward
  BY CursorAssumption DEF CursorAssumption, Beyond, Sorts, Smaller

(* What lies beyond a row that lies beyond a cursor lies beyond the cursor. *)
LEMMA SeekTransitive ==
  ASSUME WalkTypeOK, NEW k \in Key, NEW l \in Key, NEW t \in Key, NEW backward \in BOOLEAN,
         Usable(t), Seek(k, l, backward), Seek(l, t, backward)
  PROVE  Seek(k, t, backward)
<1> DEFINE o == Effective
<1>1. PICK i \in DOMAIN o :
         /\ \A j \in DOMAIN o : j < i => k[o[j].col] = l[o[j].col]
         /\ Beyond(k[o[i].col], l[o[i].col], o[i].desc, backward)
  BY DEF Seek
<1>2. PICK h \in DOMAIN o :
         /\ \A j \in DOMAIN o : j < h => l[o[j].col] = t[o[j].col]
         /\ Beyond(l[o[h].col], t[o[h].col], o[h].desc, backward)
  BY DEF Seek
<1>3. i \in Nat /\ h \in Nat
  BY Indices
<1>4. CASE i < h
  <2>1. \A j \in DOMAIN o : j < i => k[o[j].col] = t[o[j].col]
    BY <1>1, <1>2, <1>3, <1>4, Indices
  <2>2. Beyond(k[o[i].col], t[o[i].col], o[i].desc, backward)
    BY <1>1, <1>2, <1>4
  <2> QED BY <2>1, <2>2 DEF Seek
<1>5. CASE h < i
  <2>1. \A j \in DOMAIN o : j < h => k[o[j].col] = t[o[j].col]
    BY <1>1, <1>2, <1>3, <1>5, Indices
  <2>2. Beyond(k[o[h].col], t[o[h].col], o[h].desc, backward)
    BY <1>1, <1>2, <1>5
  <2> QED BY <2>1, <2>2 DEF Seek
<1>6. CASE i = h
  <2>1. \A j \in DOMAIN o : j < i => k[o[j].col] = t[o[j].col]
    BY <1>1, <1>2, <1>6
  <2>2. Beyond(k[o[i].col], t[o[i].col], o[i].desc, backward)
    <3>1. o[i].col \in {"pk", "val"} /\ o[i].desc \in BOOLEAN
      BY Columns
    <3>2. /\ k[o[i].col] \in Nat \cup {Null} /\ l[o[i].col] \in Nat \cup {Null}
          /\ t[o[i].col] \in Nat \cup {Null}
      BY <3>1, ColumnValue
    <3>3. t[o[i].col] \in Nat
      BY <3>2, NoneIsNoKey DEF Usable
    <3>4. /\ Beyond(k[o[i].col], l[o[i].col], o[i].desc, backward)
          /\ Beyond(l[o[i].col], t[o[i].col], o[i].desc, backward)
      BY <1>1, <1>2, <1>6
    <3> HIDE DEF o
    <3> QED BY <3>1, <3>2, <3>3, <3>4, CursorAssumption DEF CursorAssumption, Beyond
  <2> QED BY <2>1, <2>2 DEF Seek
<1> QED
  BY <1>3, <1>4, <1>5, <1>6

(* A row that the order has before the cursor, or after it when the client *)
(* goes back, is not past it.                                              *)
LEMMA BeforeIsBehind ==
  ASSUME WalkTypeOK, NEW k \in Key, NEW t \in Key, NEW backward \in BOOLEAN, Usable(t),
         k = t \/ (IF backward THEN Precedes(Effective, t, k) ELSE Precedes(Effective, k, t))
  PROVE  ~Seek(k, t, backward)
<1> DEFINE o == Effective
<1> SUFFICES ASSUME Seek(k, t, backward) PROVE FALSE
  OBVIOUS
<1>1. PICK h \in DOMAIN o :
         /\ \A j \in DOMAIN o : j < h => k[o[j].col] = t[o[j].col]
         /\ Beyond(k[o[h].col], t[o[h].col], o[h].desc, backward)
  BY DEF Seek
<1>2. \A i \in DOMAIN o : /\ o[i].col \in {"pk", "val"} /\ o[i].desc \in BOOLEAN
                          /\ k[o[i].col] \in Nat \cup {Null} /\ t[o[i].col] \in Nat
  BY Columns, ColumnValue, NoneIsNoKey DEF Usable
<1>3. k[o[h].col] # t[o[h].col]
  <2> HIDE DEF o
  <2> QED BY <1>1, <1>2, NotBothWays
<1>4. k # t
  BY <1>3
<1>5. PICK i \in DOMAIN o :
         /\ \A j \in DOMAIN o : j < i => k[o[j].col] = t[o[j].col]
         /\ IF backward THEN Sorts(t[o[i].col], k[o[i].col], o[i].desc)
                        ELSE Sorts(k[o[i].col], t[o[i].col], o[i].desc)
  BY <1>4 DEF Precedes
<1>6. k[o[i].col] # t[o[i].col]
  <2> HIDE DEF o
  <2> QED BY <1>2, <1>5, CursorAssumption DEF CursorAssumption, Sorts, Smaller
<1>7. i = h
  BY <1>1, <1>3, <1>5, <1>6, Indices
<1>8. /\ Beyond(k[o[i].col], t[o[i].col], o[i].desc, backward)
      /\ IF backward THEN Sorts(t[o[i].col], k[o[i].col], o[i].desc)
                     ELSE Sorts(k[o[i].col], t[o[i].col], o[i].desc)
  BY <1>1, <1>5, <1>7
<1>9. /\ o[i].desc \in BOOLEAN
      /\ k[o[i].col] \in Nat \cup {Null} /\ t[o[i].col] \in Nat
  BY <1>2
<1> HIDE DEF o
<1> QED
  BY <1>8, <1>9, NotBothWays

(* A row that comes after the cursor in the direction of travel is past    *)
(* it, unless a NULL hides it.                                             *)
LEMMA AheadIsPast ==
  ASSUME WalkTypeOK, NEW k \in Key, NEW t \in Key, NEW backward \in BOOLEAN, Usable(t),
         Precedes(Travel(backward), t, k), ~(NullsHidden /\ k.val = Null)
  PROVE  Seek(k, t, backward)
<1> DEFINE o == Effective
<1>1. /\ DOMAIN Travel(backward) = DOMAIN o
      /\ \A i \in DOMAIN o : /\ Travel(backward)[i].col = o[i].col
                             /\ Travel(backward)[i].desc = (IF backward THEN ~o[i].desc ELSE o[i].desc)
  BY DEF Travel, ReverseOrder
<1>2. PICK i \in DOMAIN o :
         /\ \A j \in DOMAIN o : j < i => t[o[j].col] = k[o[j].col]
         /\ Sorts(t[o[i].col], k[o[i].col], IF backward THEN ~o[i].desc ELSE o[i].desc)
  BY <1>1 DEF Precedes
<1>3. /\ o[i].col \in {"pk", "val"} /\ o[i].desc \in BOOLEAN
      /\ k[o[i].col] \in Nat \cup {Null} /\ t[o[i].col] \in Nat
  BY Columns, ColumnValue, NoneIsNoKey DEF Usable
<1>4. k[o[i].col] # Null
  <2>1. CASE o[i].col = "val"
    BY <2>1 DEF NullsHidden
  <2>2. CASE o[i].col = "pk"
    BY <2>2, CursorAssumption DEF CursorAssumption, Key
  <2> QED BY <1>3, <2>1, <2>2
<1>5. Beyond(k[o[i].col], t[o[i].col], o[i].desc, backward)
  <2> HIDE DEF o
  <2> QED BY <1>2, <1>3, <1>4, CursorAssumption DEF CursorAssumption, Sorts, Smaller, Beyond
<1> QED
  BY <1>2, <1>5 DEF Seek

-----------------------------------------------------------------------------
(* One page.                                                               *)

(* The table has finitely many rows. *)
LEMMA PresentFinite == IsFiniteSet(Present)
<1> DEFINE there == {r \in Rows : table[r] # Absent}
           f == [r \in there |-> KeyOf(r)]
<1>1. IsFiniteSet(there)
  BY CursorAssumption, FS_Subset DEF CursorAssumption
<1>2. f \in Surjection(there, Present)
  BY DEF Surjection, Present
<1> QED
  BY <1>1, <1>2, FS_Surjection

(* A row beyond the cursor that is not on the page was cut off, so the     *)
(* flag is set and the new cursor is before it.                            *)
LEMMA CutOff ==
  ASSUME WalkTypeOK, repeated = {}, NEW o, NEW S, IsFiniteSet(S),
         NEW got \in SUBSET S, Cut(o, RowLimit, S, got), NEW items \in Kept(o, got),
         NEW k \in S, k \notin items
  PROVE  Extra(got) /\ items # {} /\ \A l \in items : Precedes(o, l, k)
<1>1. IsFiniteSet(got) /\ Cardinality(got) \in Nat /\ size \in Nat /\ size # 0
  BY FS_Subset, FS_CardinalityType, CursorAssumption DEF CursorAssumption, WalkTypeOK
<1>2. TupleCount(got) = Cardinality(got)
  <2>1. {l \in got : l.pk \in repeated} = {}
    OBVIOUS
  <2> QED BY <1>1, <2>1, FS_EmptySet DEF TupleCount
<1>3. Extra(got)
  <2> SUFFICES ASSUME ~Extra(got) PROVE FALSE
    OBVIOUS
  <2>1. items = got
    BY DEF Kept
  <2>2. got # S
    BY <2>1
  <2>3. TupleCount(got) >= size + 1
    BY <2>2 DEF Cut, RowLimit
  <2> QED BY <1>1, <1>2, <2>3 DEF Extra
<1>4. items \in SUBSET got /\ Cardinality(items) = size /\ Leading(o, items, got)
  BY <1>3 DEF Kept
<1>5. items # {}
  BY <1>1, <1>4, FS_EmptySet
<1>6. ASSUME NEW l \in items PROVE Precedes(o, l, k)
  BY <1>4 DEF Cut, Leading
<1> QED
  BY <1>3, <1>5, <1>6

(* Where a call may start from. *)
From(cursor, backward) ==
    /\ cursor \in Cursor
    /\ IF page = None THEN cursor = None
       ELSE cursor # None /\ (page.backward = backward => cursor = Token)

(* Every row of a page was past the cursor, and the new cursor is one of   *)
(* them, with the others behind.                                           *)
LEMMA FetchKeeps ==
  ASSUME IInv, NEW cursor, NEW backward \in BOOLEAN, From(cursor, backward),
         Fetch(cursor, backward)
  PROVE  IInv'
<1> DEFINE o == Travel(backward)
           S == {k \in Present : cursor # None => Seek(k, cursor, backward)}
           turned == page = None \/ page.backward # backward
<1> USE DEF IInv
<1>1. /\ Usable(cursor)
      /\ UNCHANGED table /\ UNCHANGED order /\ UNCHANGED size
      /\ UNCHANGED repeated /\ UNCHANGED changes
  BY DEF Fetch
<1>a. PICK got \in SUBSET S :
         /\ Cut(o, RowLimit, S, got)
         /\ \E items \in Kept(o, got) :
               /\ \E first \in Firsts(items), last \in Lasts(items) :
                     page' = MakePage(cursor, backward, items, Extra(got), first, last)
               /\ mark' = Marks(cursor, backward, turned, items)
               /\ twice' = twice \cup
                     IF turned THEN {} ELSE {r \in Rows : mark[r] = "seen" /\ KeyOf(r) \in items}
  BY DEF Fetch
<1>b. PICK items \in Kept(o, got) :
         /\ \E first \in Firsts(items), last \in Lasts(items) :
               page' = MakePage(cursor, backward, items, Extra(got), first, last)
         /\ mark' = Marks(cursor, backward, turned, items)
         /\ twice' = twice \cup
               IF turned THEN {} ELSE {r \in Rows : mark[r] = "seen" /\ KeyOf(r) \in items}
  BY <1>a
<1>2. PICK first \in Firsts(items), last \in Lasts(items) :
         /\ page' = MakePage(cursor, backward, items, Extra(got), first, last)
         /\ mark' = Marks(cursor, backward, turned, items)
         /\ twice' = twice \cup
               IF turned THEN {} ELSE {r \in Rows : mark[r] = "seen" /\ KeyOf(r) \in items}
  BY <1>b
<1>3. Present \subseteq Key /\ \A r \in Rows : table[r] # Absent => KeyOf(r) \in Present
  BY DEF WalkTypeOK, Present, KeyOf, Key
<1>4. items \subseteq got /\ items \subseteq S /\ items \subseteq Key
  BY <1>2, <1>3 DEF Kept
<1>5. /\ items = {} => first = None /\ last = None
      /\ items # {} => /\ first \in items /\ last \in items
                       /\ \A l \in items : l = last \/ Precedes(Effective, l, last)
                       /\ \A l \in items : l = first \/ Precedes(Effective, first, l)
  BY <1>2 DEF Firsts, Lasts, IsFirst, IsLast
<1>6. /\ page'.backward = backward
      /\ Token' = (IF items # {} /\ Extra(got) THEN IF backward THEN first ELSE last ELSE None)
      /\ More' = Extra(got)
  BY <1>2 DEF MakePage, Token, More
<1>7. /\ \A r : KeyOf(r)' = KeyOf(r)
      /\ \A r : Hidden(r)' <=> Hidden(r)
      /\ \A t : Usable(t)' <=> Usable(t)
      /\ \A k, t, b : Seek(k, t, b)' <=> Seek(k, t, b)
  <2>1. Effective' = Effective
    BY <1>1 DEF Effective
  <2>2. \A r : KeyOf(r)' = KeyOf(r)
    BY <1>1 DEF KeyOf
  <2>3. \A r : Hidden(r)' <=> Hidden(r)
    BY <1>1, <2>1 DEF Hidden, NullsHidden
  <2>4. \A t : Usable(t)' <=> Usable(t)
    BY <2>1 DEF Usable
  <2>5. \A k, t, b : Seek(k, t, b)' <=> Seek(k, t, b)
    BY <2>1 DEF Seek, Beyond
  <2> QED BY <2>2, <2>3, <2>4, <2>5
<1>8. ASSUME NEW r \in Rows
      PROVE  /\ mark'[r] \in {"seen", "due", "free"}
             /\ mark'[r] \in {"seen", "due"} => table[r] # Absent
             /\ mark'[r] = "seen" => KeyOf(r) \in items \/ (~turned /\ mark[r] = "seen")
             /\ mark'[r] = "due" =>
                   /\ KeyOf(r) \notin items /\ KeyOf(r) \in Present
                   /\ IF turned THEN KeyOf(r) \in Ahead(cursor, backward) ELSE mark[r] = "due"
  BY <1>2, <1>3 DEF Marks, WalkTypeOK, MarkedThere
<1>9. WalkTypeOK'
  <2>1. page' \in Page
    <3>1. first \in Cursor /\ last \in Cursor
      BY <1>4, <1>5 DEF Cursor
    <3>2. (items # {}) \in BOOLEAN /\ Extra(got) \in BOOLEAN /\ (cursor # None) \in BOOLEAN
      BY DEF Extra
    <3>3. None \in Cursor
      BY DEF Cursor
    <3> QED BY <1>2, <1>4, <3>1, <3>2, <3>3 DEF MakePage, Page
  <2>2. mark' \in [Rows -> {"seen", "due", "free"}]
    BY <1>2, <1>8 DEF Marks
  <2>3. twice' \subseteq Rows
    BY <1>2 DEF WalkTypeOK
  <2> QED BY <1>1, <2>1, <2>2, <2>3 DEF WalkTypeOK
<1>10. twice' = {}
  <2>1. ASSUME ~turned, NEW r \in Rows, mark[r] = "seen", KeyOf(r) \in items PROVE FALSE
    <3>1. Seek(KeyOf(r), cursor, backward) /\ cursor # None /\ cursor = Token
      BY <1>4, <2>1 DEF From
    <3> QED BY <1>1, <2>1, <3>1 DEF SeenBehind
  <2> QED BY <1>2, <2>1
<1>11. MarkedThere'
  BY <1>1, <1>8 DEF MarkedThere
<1>12. SeenBehind'
  <2> SUFFICES ASSUME Token' # None, Usable(Token'), NEW r \in Rows, mark'[r] = "seen"
               PROVE  ~Seek(KeyOf(r), Token', backward)
    BY <1>6, <1>7 DEF SeenBehind
  <2>1. items # {} /\ Token' \in items /\ Token' = (IF backward THEN first ELSE last)
    BY <1>5, <1>6
  <2>2. KeyOf(r) \in Key
    BY <1>3, <1>8
  <2>3. CASE KeyOf(r) \in items
    <3>1. KeyOf(r) = Token' \/ (IF backward THEN Precedes(Effective, Token', KeyOf(r))
                                            ELSE Precedes(Effective, KeyOf(r), Token'))
      BY <1>5, <2>1, <2>3
    <3> QED BY <1>4, <2>1, <2>2, <3>1, BeforeIsBehind
  <2>4. CASE KeyOf(r) \notin items
    <3>1. ~turned /\ mark[r] = "seen"
      BY <1>8, <2>4
    <3>2. cursor # None /\ cursor = Token /\ cursor \in Key /\ Seek(Token', cursor, backward)
      BY <1>4, <2>1, <3>1 DEF From, Cursor
    <3>3. ~Seek(KeyOf(r), cursor, backward)
      BY <1>1, <3>1, <3>2 DEF SeenBehind
    <3> QED BY <1>1, <1>4, <2>1, <2>2, <3>2, <3>3, SeekTransitive
  <2> QED BY <2>3, <2>4
<1>13. DueAhead'
  <2> SUFFICES ASSUME repeated = {}, NEW r \in Rows, mark'[r] = "due", ~Hidden(r)
               PROVE  /\ More'
                      /\ Token' # None /\ Usable(Token') => Seek(KeyOf(r), Token', backward)
    BY <1>1, <1>6, <1>7 DEF DueAhead
  <2>1. KeyOf(r) \in Present /\ KeyOf(r) \notin items /\ KeyOf(r) \in Key
        /\ ~(NullsHidden /\ KeyOf(r).val = Null)
    BY <1>3, <1>8 DEF Hidden, KeyOf
  <2>2. KeyOf(r) \in S
    <3>1. CASE cursor = None
      BY <2>1, <3>1
    <3>2. CASE cursor # None /\ turned
      <4>1. Precedes(Travel(backward), cursor, KeyOf(r)) /\ cursor \in Key
        BY <1>8, <3>2 DEF Ahead, From, Cursor
      <4> QED BY <1>1, <2>1, <4>1, AheadIsPast
    <3>3. CASE cursor # None /\ ~turned
      BY <1>1, <1>8, <2>1, <3>3 DEF DueAhead, From
    <3> QED BY <3>1, <3>2, <3>3
  <2>3. IsFiniteSet(S)
    BY PresentFinite, FS_Subset
  <2>4. Extra(got) /\ items # {} /\ \A l \in items : Precedes(o, l, KeyOf(r))
    <3> HIDE DEF o, S
    <3> QED BY <1>a, <2>1, <2>2, <2>3, CutOff
  <2>5. Token' \in items
    BY <1>5, <1>6, <2>4
  <2> QED BY <1>4, <1>6, <2>1, <2>4, <2>5, AheadIsPast
<1> QED
  BY <1>9, <1>10, <1>11, <1>12, <1>13

-----------------------------------------------------------------------------
(* The walk.                                                               *)

(* The invariant holds at the start of a walk. *)
LEMMA StartsWell == WalkInit => IInv
<1> SUFFICES ASSUME WalkInit PROVE IInv
  OBVIOUS
<1>1. WalkTypeOK
  BY DEF WalkInit, WalkTypeOK
<1>2. MarkedThere
  BY DEF WalkInit, MarkedThere
<1>3. page = None /\ twice = {}
  BY DEF WalkInit
<1> QED
  BY <1>1, <1>2, <1>3 DEF IInv, SeenBehind, DueAhead

(* A changed row is neither seen nor due, and the others are as they were. *)
LEMMA ChangeKeeps ==
  ASSUME IInv, NEW r \in Rows, NEW x \in Values \cup {Null, Absent}, Change(r, x)
  PROVE  IInv'
<1> USE DEF IInv
<1>1. /\ UNCHANGED order /\ UNCHANGED size /\ UNCHANGED repeated
      /\ UNCHANGED page /\ UNCHANGED twice
      /\ table' = [table EXCEPT ![r] = x] /\ mark' = [mark EXCEPT ![r] = "free"]
      /\ changes' = changes + 1
  BY DEF Change
<1>2. WalkTypeOK'
  BY <1>1 DEF WalkTypeOK
<1>3. ASSUME NEW s \in Rows, mark'[s] \in {"seen", "due"}
      PROVE  s # r /\ mark'[s] = mark[s] /\ table'[s] = table[s] /\ KeyOf(s)' = KeyOf(s)
  BY <1>1, <1>3 DEF WalkTypeOK, KeyOf
<1>4. /\ Token' = Token /\ More' = More
      /\ NullsHidden' <=> NullsHidden
      /\ \A t : Usable(t)' <=> Usable(t)
      /\ \A k, t, b : Seek(k, t, b)' <=> Seek(k, t, b)
  <2>1. Effective' = Effective
    BY <1>1 DEF Effective
  <2> QED BY <1>1, <2>1 DEF Token, More, NullsHidden, Usable, Seek, Beyond
<1>5. MarkedThere'
  BY <1>3 DEF MarkedThere
<1>6. SeenBehind'
  BY <1>1, <1>3, <1>4 DEF SeenBehind
<1>7. DueAhead'
  BY <1>1, <1>3, <1>4 DEF DueAhead, Hidden
<1> QED
  BY <1>1, <1>2, <1>5, <1>6, <1>7

(* A page that is refused keeps the invariant. *)
LEMMA RefusedKeeps ==
  ASSUME IInv, RefusedPage
  PROVE  IInv'
<1> USE DEF IInv
<1>1. /\ UNCHANGED table /\ UNCHANGED order /\ UNCHANGED size
      /\ UNCHANGED repeated /\ UNCHANGED changes /\ UNCHANGED twice
      /\ page' = NoPage /\ mark' = [r \in Rows |-> "free"]
  BY DEF RefusedPage, Refused
<1>2. NoPage \in Page
  BY DEF NoPage, Page, Cursor
<1>3. WalkTypeOK'
  BY <1>1, <1>2 DEF WalkTypeOK
<1> QED
  BY <1>1, <1>3 DEF MarkedThere, SeenBehind, DueAhead

(* Every step of a walk keeps the invariant. *)
LEMMA Inductive == IInv /\ [WalkNext]_walkVars => IInv'
<1> SUFFICES ASSUME IInv, [WalkNext]_walkVars PROVE IInv'
  OBVIOUS
<1>a. page \in Page \cup {None} /\ None \in Cursor
  BY DEF IInv, WalkTypeOK, Cursor
<1>b. page # None => page.next \in Cursor /\ page.prev \in Cursor /\ page.backward \in BOOLEAN
  BY <1>a DEF Page
<1>1. CASE FirstPage
  BY <1>1, <1>a, FetchKeeps DEF FirstPage, From
<1>2. CASE NextPage
  <2>1. From(page.next, FALSE)
    BY <1>2, <1>b DEF NextPage, From, Token
  <2> QED BY <1>2, <2>1, FetchKeeps DEF NextPage
<1>3. CASE PrevPage
  <2>1. From(page.prev, TRUE)
    BY <1>3, <1>b DEF PrevPage, From, Token
  <2> QED BY <1>3, <2>1, FetchKeeps DEF PrevPage
<1>4. CASE RefusedPage
  BY <1>4, RefusedKeeps
<1>5. ASSUME NEW r \in Rows, InsertRow(r) \/ RemoveRow(r) \/ UpdateRow(r) PROVE IInv'
  BY <1>5, ChangeKeeps DEF InsertRow, RemoveRow, UpdateRow
<1>6. CASE UNCHANGED walkVars
  <2>1. WalkTypeOK' /\ twice' = {}
    BY <1>6 DEF walkVars, IInv, WalkTypeOK
  <2>2. MarkedThere'
    BY <1>6 DEF walkVars, IInv, MarkedThere
  <2>3. SeenBehind'
    BY <1>6 DEF walkVars, IInv, SeenBehind, Token, Usable, Seek, Beyond, KeyOf, Effective
  <2>4. DueAhead'
    BY <1>6 DEF walkVars, IInv, DueAhead, Hidden, Token, More, NullsHidden, Usable, Seek,
                Beyond, KeyOf, Effective
  <2>5. QED
    BY <2>1, <2>2, <2>3, <2>4 DEF IInv
<1> QED
  BY <1>1, <1>2, <1>3, <1>4, <1>5, <1>6 DEF WalkNext

(* The invariant holds in every state of every walk. *)
LEMMA Walks == WalkSpec => []IInv
<1>1. WalkInit => IInv
  BY StartsWell
<1>2. IInv /\ [WalkNext]_walkVars => IInv'
  BY Inductive
<1> QED
  BY <1>1, <1>2, PTL DEF WalkSpec

-----------------------------------------------------------------------------
(* has_next and has_prev.                                                  *)

(* As long as nothing changes, cursors are rows of the table. *)
TokensPresent ==
    page # None /\ changes = 0 => {page.next, page.prev} \subseteq Present \cup {None}

(* Going one way turns the order of the other way round. *)
LEMMA Direction ==
  ASSUME NEW backward \in BOOLEAN
  PROVE  /\ DOMAIN Travel(backward) = DOMAIN Effective
         /\ \A i \in DOMAIN Effective :
               /\ Travel(backward)[i].col = Effective[i].col
               /\ Travel(backward)[i].desc = (IF backward THEN ~Effective[i].desc ELSE Effective[i].desc)
BY DEF Travel, ReverseOrder

(* A row past the cursor has the cursor ahead of it on the way back. *)
LEMMA PastIsAhead ==
  ASSUME WalkTypeOK, NEW k \in Key, NEW t \in Key, NEW backward \in BOOLEAN, Usable(t),
         Seek(k, t, backward)
  PROVE  Precedes(Travel(~backward), k, t)
<1> DEFINE o == Effective
<1>1. PICK i \in DOMAIN o :
         /\ \A j \in DOMAIN o : j < i => k[o[j].col] = t[o[j].col]
         /\ Beyond(k[o[i].col], t[o[i].col], o[i].desc, backward)
  BY DEF Seek
<1>2. /\ o[i].col \in {"pk", "val"} /\ o[i].desc \in BOOLEAN
      /\ k[o[i].col] \in Nat \cup {Null} /\ t[o[i].col] \in Nat
  BY Columns, ColumnValue, NoneIsNoKey DEF Usable
<1>3. Sorts(k[o[i].col], t[o[i].col], IF ~backward THEN ~o[i].desc ELSE o[i].desc)
  <2> HIDE DEF o
  <2> QED BY <1>1, <1>2, CursorAssumption DEF CursorAssumption, Sorts, Smaller, Beyond
<1>4. /\ DOMAIN Travel(~backward) = DOMAIN o
      /\ \A j \in DOMAIN o :
            /\ Travel(~backward)[j].col = o[j].col
            /\ Travel(~backward)[j].desc = (IF ~backward THEN ~o[j].desc ELSE o[j].desc)
  BY Direction
<1> HIDE DEF o
<1>5. QED
  BY <1>1, <1>3, <1>4 DEF Precedes

(* No two rows come before each other, and no row before itself. *)
LEMMA OneWay ==
  ASSUME WalkTypeOK, NEW k \in Key, NEW l \in Key
  PROVE  ~(Precedes(Travel(FALSE), k, l) /\ Precedes(Travel(TRUE), k, l))
         /\ \A backward \in BOOLEAN : ~Precedes(Travel(backward), k, k)
<1> DEFINE o == Effective
<1>1. \A i \in DOMAIN o : /\ o[i].col \in {"pk", "val"} /\ o[i].desc \in BOOLEAN
                          /\ k[o[i].col] \in Nat \cup {Null} /\ l[o[i].col] \in Nat \cup {Null}
                          /\ i \in Nat
  BY Columns, ColumnValue, Indices
<1>2. \A x, y \in Nat \cup {Null}, desc \in BOOLEAN :
         ~Sorts(x, x, desc) /\ ~(Sorts(x, y, desc) /\ Sorts(x, y, ~desc))
  BY CursorAssumption DEF CursorAssumption, Sorts, Smaller
<1>3. \A backward \in BOOLEAN :
         /\ DOMAIN Travel(backward) = DOMAIN o
         /\ \A i \in DOMAIN o :
               /\ Travel(backward)[i].col = o[i].col
               /\ Travel(backward)[i].desc = (IF backward THEN ~o[i].desc ELSE o[i].desc)
  BY Direction
<1> HIDE DEF o
<1>4. ASSUME NEW backward \in BOOLEAN, Precedes(Travel(backward), k, k) PROVE FALSE
  <2>1. PICK i \in DOMAIN o :
           Sorts(k[o[i].col], k[o[i].col], IF backward THEN ~o[i].desc ELSE o[i].desc)
    BY <1>3, <1>4 DEF Precedes
  <2> QED BY <1>1, <1>2, <2>1
<1>5. ASSUME Precedes(Travel(FALSE), k, l), Precedes(Travel(TRUE), k, l) PROVE FALSE
  <2>1. ASSUME NEW backward \in BOOLEAN, Precedes(Travel(backward), k, l)
        PROVE  \E i \in DOMAIN o :
                  /\ \A j \in DOMAIN o : j < i => k[o[j].col] = l[o[j].col]
                  /\ Sorts(k[o[i].col], l[o[i].col], IF backward THEN ~o[i].desc ELSE o[i].desc)
    BY <1>3, <2>1 DEF Precedes
  <2>a. \E i \in DOMAIN o :
           /\ \A j \in DOMAIN o : j < i => k[o[j].col] = l[o[j].col]
           /\ Sorts(k[o[i].col], l[o[i].col], IF FALSE THEN ~o[i].desc ELSE o[i].desc)
    <3>1. FALSE \in BOOLEAN /\ Precedes(Travel(FALSE), k, l)
      BY <1>5
    <3> QED BY ONLY <2>1, <3>1, Zenon
  <2>b. \E h \in DOMAIN o :
           /\ \A j \in DOMAIN o : j < h => k[o[j].col] = l[o[j].col]
           /\ Sorts(k[o[h].col], l[o[h].col], IF TRUE THEN ~o[h].desc ELSE o[h].desc)
    <3>1. TRUE \in BOOLEAN /\ Precedes(Travel(TRUE), k, l)
      BY <1>5
    <3> QED BY ONLY <2>1, <3>1, Zenon
  <2>c. PICK i \in DOMAIN o :
           /\ \A j \in DOMAIN o : j < i => k[o[j].col] = l[o[j].col]
           /\ Sorts(k[o[i].col], l[o[i].col], o[i].desc)
    BY <2>a
  <2>d. PICK h \in DOMAIN o :
           /\ \A j \in DOMAIN o : j < h => k[o[j].col] = l[o[j].col]
           /\ Sorts(k[o[h].col], l[o[h].col], IF TRUE THEN ~o[h].desc ELSE o[h].desc)
    BY <2>b
  <2>3. k[o[i].col] # l[o[i].col] /\ k[o[h].col] # l[o[h].col]
    <3>1. (IF TRUE THEN ~o[h].desc ELSE o[h].desc) \in BOOLEAN
      OBVIOUS
    <3>2. k[o[i].col] # l[o[i].col]
      BY <1>1, <1>2, <2>c
    <3>3. k[o[h].col] # l[o[h].col]
      BY <1>1, <1>2, <2>d, <3>1
    <3> QED BY <3>2, <3>3
  <2>4. i = h
    BY <1>1, <2>c, <2>d, <2>3
  <2> QED BY <1>1, <1>2, <2>c, <2>d, <2>4
<1>6. QED
  BY <1>4, <1>5

(* A row whose NULL is not compared can be a cursor. *)
LEMMA VisibleIsUsable ==
  ASSUME WalkTypeOK, NEW k \in Key, ~(NullsHidden /\ k.val = Null)
  PROVE  Usable(k)
<1>1. SUFFICES ASSUME NEW i \in DOMAIN Effective PROVE k[Effective[i].col] # Null
  BY DEF Usable
<1>2. CASE Effective[i].col = "val"
  BY <1>2 DEF NullsHidden
<1>3. CASE Effective[i].col = "pk"
  BY <1>3, CursorAssumption DEF CursorAssumption, Key
<1>4. QED
  BY <1>2, <1>3, Columns

(* One row too many was found exactly if rows lie beyond the page. *)
LEMMA ExtraMeansMore ==
  ASSUME WalkTypeOK, repeated = {}, NEW backward \in BOOLEAN, NEW cursor \in Key \cup {None},
         Usable(cursor), \A k \in Present : ~(NullsHidden /\ k.val = Null),
         NEW S, S = {k \in Present : cursor # None => Seek(k, cursor, backward)},
         NEW got \in SUBSET S, Cut(Travel(backward), RowLimit, S, got),
         NEW items \in Kept(Travel(backward), got), items # {}
  PROVE  Extra(got) <=> \E k \in Present : \A l \in items : Precedes(Travel(backward), l, k)
<1>1. Present \subseteq Key
  BY DEF WalkTypeOK, Present, KeyOf, Key
<1>2. IsFiniteSet(S) /\ IsFiniteSet(got) /\ S \subseteq Present
  BY PresentFinite, FS_Subset
<1>3. items \subseteq got
  BY DEF Kept
<1>4. ASSUME Extra(got)
      PROVE  \E k \in Present : \A l \in items : Precedes(Travel(backward), l, k)
  <2>1. Cardinality(items) = size /\ Leading(Travel(backward), items, got)
    BY <1>4 DEF Kept
  <2>2. size \in Nat
    BY CursorAssumption DEF CursorAssumption, WalkTypeOK
  <2>3. items # got
    BY <1>4, <2>1, <2>2 DEF Extra
  <2>4. PICK k \in got : k \notin items
    BY <1>3, <2>3
  <2>5. \A l \in items : Precedes(Travel(backward), l, k)
    BY <2>1, <2>4 DEF Leading
  <2>6. QED
    BY <1>2, <2>4, <2>5
<1>5. ASSUME NEW k \in Present, \A l \in items : Precedes(Travel(backward), l, k)
      PROVE  Extra(got)
  <2>1. PICK l \in items : Precedes(Travel(backward), l, k)
    BY <1>5
  <2>2. l \in S /\ l \in Present /\ l \in Key /\ k \in Key
    BY <1>1, <1>2, <1>3
  <2>3. k \notin items
    BY <1>5, <2>2, OneWay
  <2>4. k \in S
    <3>1. CASE cursor = None
      BY <3>1
    <3>2. CASE cursor # None
      <4>1. Seek(l, cursor, backward) /\ cursor \in Key
        BY <2>2, <3>2
      <4>2. Usable(l)
        BY <2>2, VisibleIsUsable
      <4>3. Seek(k, l, backward)
        BY <2>1, <2>2, <4>2, AheadIsPast
      <4>4. Seek(k, cursor, backward)
        BY <2>2, <4>1, <4>3, SeekTransitive
      <4>5. QED
        BY <4>4
    <3>3. QED
      BY <3>1, <3>2
  <2>5. ASSUME NEW o, NEW T, IsFiniteSet(T), NEW some \in SUBSET T, Cut(o, RowLimit, T, some),
               NEW rest \in Kept(o, some), NEW j \in T, j \notin rest
        PROVE  Extra(some)
    BY <2>5, CutOff
  <2>6. QED
    BY <1>2, <2>3, <2>4, <2>5
<1>6. QED
  BY <1>4, <1>5

(* Where the page came from lies behind it: a cursor, if there was one. *)
LEMMA BehindIsCursor ==
  ASSUME WalkTypeOK, NEW backward \in BOOLEAN, NEW cursor \in Present \cup {None},
         Usable(cursor), cursor = None => ~backward,
         NEW S, S = {k \in Present : cursor # None => Seek(k, cursor, backward)},
         NEW got \in SUBSET S, Cut(Travel(backward), RowLimit, S, got),
         NEW items \in Kept(Travel(backward), got), items # {}
  PROVE  cursor # None <=> \E k \in Present : \A l \in items : Precedes(Travel(~backward), l, k)
<1>1. Present \subseteq Key
  BY DEF WalkTypeOK, Present, KeyOf, Key
<1>2. items \subseteq got /\ items \subseteq S /\ S \subseteq Present
  BY DEF Kept
<1>3. ASSUME cursor # None
      PROVE  \E k \in Present : \A l \in items : Precedes(Travel(~backward), l, k)
  <2>1. cursor \in Present /\ cursor \in Key
    BY <1>1, <1>3
  <2>2. ASSUME NEW l \in items PROVE Precedes(Travel(~backward), l, cursor)
    <3>1. Seek(l, cursor, backward) /\ l \in Key
      BY <1>1, <1>2, <1>3
    <3>2. QED
      BY <2>1, <3>1, PastIsAhead
  <2>3. QED
    BY <2>1, <2>2
<1>4. ASSUME cursor = None, NEW k \in Present,
             \A l \in items : Precedes(Travel(~backward), l, k)
      PROVE  FALSE
  <2>1. backward = FALSE /\ k \in S /\ k \in Key
    BY <1>1, <1>4
  <2>2. PICK l \in items : l \in Key /\ Precedes(Travel(TRUE), l, k)
    BY <1>1, <1>2, <1>4, <2>1
  <2>3. k \notin items
    BY <1>4, <2>1, OneWay
  <2>4. Precedes(Travel(FALSE), l, k)
    <3>1. CASE k \in got
      <4>1. Leading(Travel(FALSE), items, got)
        BY <2>1, <2>3, <3>1 DEF Kept
      <4>2. QED
        BY <2>2, <2>3, <3>1, <4>1 DEF Leading
    <3>2. CASE k \notin got
      BY <1>2, <2>1, <2>2, <3>2 DEF Cut, Leading
    <3>3. QED
      BY <3>1, <3>2
  <2>5. QED
    BY <2>1, <2>2, <2>4, OneWay
<1>5. QED
  BY <1>3, <1>4

(* Types of the walk, whatever the table and the order.                    *)
THEOREM WalkTypes == WalkSpec => []WalkTypeOK
<1>1. IInv => WalkTypeOK
  BY DEF IInv
<1> QED
  BY <1>1, Walks, PTL

(* cursor_paginate returns no unchanged row twice in one direction, for    *)
(* tables and pages of any size, any order, and any changes in between.    *)
THEOREM NeverTwice == WalkSpec => []NoRowTwice
<1>1. IInv => NoRowTwice
  BY DEF IInv, NoRowTwice
<1> QED
  BY <1>1, Walks, PTL

(* A direction of cursor_paginate that has ended has returned every row    *)
(* without NULL that lay ahead and was not changed, if no filter repeats   *)
(* rows, for tables and pages of any size and any order.                   *)
THEOREM NeverLost == WalkSpec => []NoRowLost
<1>1. IInv => NoRowLost
  BY DEF IInv, NoRowLost, DueAhead, Hidden, More
<1> QED
  BY <1>1, Walks, PTL

(* A page brings cursors that are rows of the table, and true flags. *)
LEMMA FetchTells ==
  ASSUME WalkTypeOK, NEW backward \in BOOLEAN, NEW cursor \in Cursor,
         changes = 0 => cursor \in Present \cup {None}, cursor = None => ~backward,
         Fetch(cursor, backward)
  PROVE  TokensPresent' /\ FlagsHonest'
<1> DEFINE o == Travel(backward)
           S == {k \in Present : cursor # None => Seek(k, cursor, backward)}
<1>1. PICK got \in SUBSET S :
         /\ Cut(o, RowLimit, S, got)
         /\ \E items \in Kept(o, got) :
               \E first \in Firsts(items), last \in Lasts(items) :
                  page' = MakePage(cursor, backward, items, Extra(got), first, last)
  BY DEF Fetch
<1>2. PICK items \in Kept(o, got) :
         \E first \in Firsts(items), last \in Lasts(items) :
            page' = MakePage(cursor, backward, items, Extra(got), first, last)
  BY <1>1
<1>3. PICK first \in Firsts(items), last \in Lasts(items) :
         page' = MakePage(cursor, backward, items, Extra(got), first, last)
  BY <1>2
<1>4. items \subseteq got /\ got \subseteq S /\ S \subseteq Present
  BY DEF Kept
<1>5. Present \subseteq Key
  BY DEF WalkTypeOK, Present, KeyOf, Key
<1>6. items # {} => first \in items /\ last \in items
  BY <1>3 DEF Firsts, Lasts, IsFirst, IsLast
<1>7. Usable(cursor) /\ UNCHANGED <<table, order, repeated, changes>>
  BY DEF Fetch
<1>8. /\ Present' = Present /\ Effective' = Effective /\ (NullsHidden' <=> NullsHidden)
      /\ \A b : Travel(b)' = Travel(b)
  <2>1. Effective' = Effective
    BY <1>7 DEF Effective
  <2>2. QED
    BY <1>7, <2>1 DEF Present, KeyOf, NullsHidden, Travel
<1>9. /\ page'.items = items
      /\ page'.hasNext = (IF backward THEN items # {} ELSE Extra(got))
      /\ page'.hasPrev = (IF backward THEN Extra(got) ELSE cursor # None)
      /\ page'.next = (IF items # {} /\ (backward \/ Extra(got)) THEN last ELSE None)
      /\ page'.prev = (IF items # {} /\ (IF backward THEN Extra(got) ELSE cursor # None)
                       THEN first ELSE None)
  BY <1>3 DEF MakePage
<1>10. TokensPresent'
  <2>1. page'.next \in Present \cup {None} /\ page'.prev \in Present \cup {None}
    BY <1>4, <1>6, <1>9
  <2>2. QED
    BY <1>8, <2>1 DEF TokensPresent
<1>11. FlagsHonest'
  <2> DEFINE beyond(b) == {k \in Present : \A l \in items : Precedes(Travel(b), l, k)}
  <2>1. SUFFICES ASSUME items # {}, changes = 0, repeated = {},
                        NullsHidden => \A r \in Rows : table[r] # Null
        PROVE  /\ page'.hasNext = (beyond(FALSE) # {}) /\ page'.hasNext = (page'.next # None)
               /\ page'.hasPrev = (beyond(TRUE) # {}) /\ page'.hasPrev = (page'.prev # None)
    BY <1>7, <1>8, <1>9 DEF FlagsHonest
  <2>2. \A k \in Present : ~(NullsHidden /\ k.val = Null)
    BY <2>1 DEF Present, KeyOf
  <2>3. cursor \in Present \cup {None} /\ cursor \in Key \cup {None}
    BY <1>5, <2>1
  <2>4. Extra(got) <=> beyond(backward) # {}
    <3>1. Extra(got) <=> \E k \in Present : \A l \in items : Precedes(Travel(backward), l, k)
      BY <1>1, <1>2, <1>7, <2>1, <2>2, <2>3, ExtraMeansMore
    <3>2. QED
      BY <3>1
  <2>5. cursor # None <=> beyond(~backward) # {}
    <3>1. cursor # None <=> \E k \in Present : \A l \in items : Precedes(Travel(~backward), l, k)
      BY <1>1, <1>2, <1>7, <2>1, <2>3, BehindIsCursor
    <3>2. QED
      BY <3>1
  <2>6. first # None /\ last # None
    BY <1>4, <1>5, <1>6, <2>1, NoneIsNoKey
  <2> HIDE DEF beyond
  <2> DEFINE e == Extra(got)
             c == (cursor # None)
  <2>a. e \in BOOLEAN /\ c \in BOOLEAN
    BY DEF Extra
  <2>7. CASE backward
    <3>1. cursor # None /\ beyond(FALSE) # {} /\ (e <=> beyond(TRUE) # {})
      BY <2>4, <2>5, <2>7
    <3>2. page'.hasNext = TRUE /\ page'.next = last
      BY <1>9, <2>1, <2>7
    <3>3. page'.hasPrev = e /\ page'.prev = (IF e THEN first ELSE None)
      BY <1>9, <2>1, <2>7
    <3> HIDE DEF e
    <3>4. page'.hasNext = (beyond(FALSE) # {}) /\ page'.hasNext = (page'.next # None)
      BY <2>6, <3>1, <3>2
    <3>5. CASE e
      BY <2>6, <2>a, <3>1, <3>3, <3>4, <3>5
    <3>6. CASE ~e
      BY <2>a, <3>1, <3>3, <3>4, <3>6
    <3>7. QED
      BY <3>5, <3>6
  <2>8. CASE ~backward
    <3>1. (c <=> beyond(TRUE) # {}) /\ (e <=> beyond(FALSE) # {})
      BY <2>4, <2>5, <2>8
    <3>2. page'.hasNext = e /\ page'.next = (IF e THEN last ELSE None)
      BY <1>9, <2>1, <2>8
    <3>3. page'.hasPrev = c /\ page'.prev = (IF c THEN first ELSE None)
      BY <1>9, <2>1, <2>8
    <3> HIDE DEF e, c
    <3>4. page'.hasNext = (beyond(FALSE) # {}) /\ page'.hasNext = (page'.next # None)
      BY <2>6, <2>a, <3>1, <3>2
    <3>5. page'.hasPrev = (beyond(TRUE) # {}) /\ page'.hasPrev = (page'.prev # None)
      BY <2>6, <2>a, <3>1, <3>3
    <3>6. QED
      BY <3>4, <3>5
  <2>9. QED
    BY <2>7, <2>8
<1>12. QED
  BY <1>10, <1>11

(* While nothing changes, the flags and cursors of cursor_paginate tell    *)
(* exactly whether rows lie beyond the page, for tables and pages of any   *)
(* size and any order, unless NULLs are compared or a filter repeats rows. *)
THEOREM FlagsTellTheTruth == WalkSpec => []FlagsHonest
<1> DEFINE J == TokensPresent /\ FlagsHonest
<1>1. WalkInit => J
  BY DEF WalkInit, TokensPresent, FlagsHonest
<1>2. IInv /\ J /\ [WalkNext]_walkVars => J'
  <2> SUFFICES ASSUME IInv, J, [WalkNext]_walkVars PROVE J'
    OBVIOUS
  <2>1. WalkTypeOK /\ None \in Cursor
    BY DEF IInv, Cursor
  <2>2. page # None => page.next \in Cursor /\ page.prev \in Cursor
    BY <2>1 DEF WalkTypeOK, Page
  <2>3. page # None /\ changes = 0 =>
           page.next \in Present \cup {None} /\ page.prev \in Present \cup {None}
    BY DEF TokensPresent
  <2>4. CASE FirstPage
    BY <2>1, <2>4, FetchTells DEF FirstPage
  <2>5. CASE NextPage
    BY <2>1, <2>2, <2>3, <2>5, FetchTells DEF NextPage
  <2>6. CASE PrevPage
    BY <2>1, <2>2, <2>3, <2>6, FetchTells DEF PrevPage
  <2>7. CASE RefusedPage
    <3>1. page' = NoPage
      BY <2>7 DEF RefusedPage, Refused
    <3>2. page'.items = {} /\ page'.next = None /\ page'.prev = None
      BY <3>1 DEF NoPage
    <3>3. QED
      BY <3>2 DEF TokensPresent, FlagsHonest
  <2>8. ASSUME NEW r \in Rows, InsertRow(r) \/ RemoveRow(r) \/ UpdateRow(r) PROVE J'
    <3>1. changes' = changes + 1 /\ changes \in Nat
      BY <2>1, <2>8 DEF InsertRow, RemoveRow, UpdateRow, Change, WalkTypeOK
    <3>2. changes' # 0
      BY <3>1
    <3>3. QED
      BY <3>2 DEF TokensPresent, FlagsHonest
  <2>9. CASE UNCHANGED walkVars
    BY <2>9 DEF walkVars, TokensPresent, FlagsHonest, Present, KeyOf, Travel, Effective, NullsHidden
  <2>10. QED
    BY <2>4, <2>5, <2>6, <2>7, <2>8, <2>9 DEF WalkNext
<1>3. J => FlagsHonest
  OBVIOUS
<1> HIDE DEF J
<1>4. QED
  BY <1>1, <1>2, <1>3, Walks, PTL DEF WalkSpec
=============================================================================

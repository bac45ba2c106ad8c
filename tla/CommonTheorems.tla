---------------------------- MODULE CommonTheorems ----------------------------
(***************************************************************************)
(* What the proofs share: what a method of InventoryItem does to a row,    *)
(* what is left of a batch without its first event, and how a sum over     *)
(* rows or calls changes with its summands and with its set.               *)
(*                                                                         *)
(* Of sums only their recursive definition is given, and the library's     *)
(* induction theorems take an operator as a parameter, for which no prover *)
(* at hand finds the instance.  Least says the same of sets: what fails    *)
(* for some number fails for a least one.                                  *)
(***************************************************************************)
EXTENDS InventoryItem, SequencesExt, FiniteSetTheorems, WellFoundedInduction, TLAPS

\* What each method writes into the row.
LEMMA ApplyIs ==
    ASSUME NEW m, NEW i, NEW n
    PROVE  /\ m = "receiveStock" =>
                Apply(m, i, n) = Revised(i, i.quantity + n, i.allocated, i.inTransit)
           /\ m = "dispatchStock" =>
                Apply(m, i, n) = Revised(i, i.quantity - n, i.allocated, i.inTransit)
           /\ m = "allocateStock" =>
                Apply(m, i, n) = Revised(i, i.quantity, i.allocated + n, i.inTransit)
           /\ m = "releaseAllocation" =>
                Apply(m, i, n) = Revised(i, i.quantity, i.allocated - n, i.inTransit)
           /\ m = "fulfillAllocation" =>
                Apply(m, i, n) = Revised(i, i.quantity - n, i.allocated - n, i.inTransit)
           /\ m = "createInTransit" =>
                Apply(m, i, n) = Revised(i, i.quantity, i.allocated, i.inTransit + n)
           /\ m = "receiveInTransit" =>
                Apply(m, i, n) = Revised(i, i.quantity + n, i.allocated, i.inTransit - n)
           /\ m = "cancelInTransit" =>
                Apply(m, i, n) = Revised(i, i.quantity, i.allocated, i.inTransit - n)
           /\ m = "reconcileStock" =>
                Apply(m, i, n) = Revised(i, n, i.allocated, i.inTransit)
BY DEF Apply, ReceiveStock, DispatchStock, AllocateStock, ReleaseAllocation,
       FulfillAllocation, CreateInTransit, ReceiveInTransit, CancelInTransit,
       ReconcileStock

\* j is an item, one version after i.
NextOf(i, j) == j \in Item /\ j.version = i.version + 1

LEMMA RevisedNext ==
    ASSUME NEW i \in Item, NEW q \in Nat, NEW a \in Nat, NEW t \in Nat
    PROVE  NextOf(i, Revised(i, q, a, t))
BY DEF NextOf, Revised, Item

\* A method that does not throw yields the next item.
LEMMA ApplyNext ==
    ASSUME NEW m \in Methods, NEW i \in Item, NEW n \in Nat, Permits(m, i, n)
    PROVE  NextOf(i, Apply(m, i, n))
  <1>1. /\ i.quantity \in Nat /\ i.allocated \in Nat /\ i.inTransit \in Nat
        /\ i.quantity + n \in Nat /\ i.allocated + n \in Nat /\ i.inTransit + n \in Nat
    BY DEF Item
  <1>2. CASE m = "receiveStock"
    BY RevisedNext, <1>1, <1>2, ApplyIs
  <1>3. CASE m = "dispatchStock"
    <2>1. i.quantity - n \in Nat
      BY <1>1, <1>3 DEF Permits
    <2> QED
      BY RevisedNext, <1>1, <1>3, <2>1, ApplyIs
  <1>4. CASE m = "allocateStock"
    BY RevisedNext, <1>1, <1>4, ApplyIs
  <1>5. CASE m = "releaseAllocation"
    <2>1. i.allocated - n \in Nat
      BY <1>1, <1>5 DEF Permits
    <2> QED
      BY RevisedNext, <1>1, <1>5, <2>1, ApplyIs
  <1>6. CASE m = "fulfillAllocation"
    <2>1. i.quantity - n \in Nat /\ i.allocated - n \in Nat
      BY <1>1, <1>6 DEF Permits
    <2> QED
      BY RevisedNext, <1>1, <1>6, <2>1, ApplyIs
  <1>7. CASE m = "createInTransit"
    BY RevisedNext, <1>1, <1>7, ApplyIs
  <1>8. CASE m = "receiveInTransit"
    <2>1. i.inTransit - n \in Nat
      BY <1>1, <1>8 DEF Permits
    <2> QED
      BY RevisedNext, <1>1, <1>8, <2>1, ApplyIs
  <1>9. CASE m = "cancelInTransit"
    <2>1. i.inTransit - n \in Nat
      BY <1>1, <1>9 DEF Permits
    <2> QED
      BY RevisedNext, <1>1, <1>9, <2>1, ApplyIs
  <1>10. CASE m = "reconcileStock"
    BY RevisedNext, <1>1, <1>10, ApplyIs
  <1> QED
    BY <1>2, <1>3, <1>4, <1>5, <1>6, <1>7, <1>8, <1>9, <1>10 DEF Methods

LEMMA ApplyItem ==
    ASSUME NEW m \in Methods, NEW i \in Item, NEW n \in Nat, Permits(m, i, n)
    PROVE  /\ Apply(m, i, n) \in Item
           /\ Apply(m, i, n).version = i.version + 1
BY ApplyNext DEF NextOf

-----------------------------------------------------------------------------
\* Nothing is twice in a batch.
Distinct(s) == \A i, j \in DOMAIN s : s[i] = s[j] => i = j

\* A batch without its first event.
LEMMA TailOf ==
    ASSUME NEW S, NEW s \in Seq(S), s # <<>>
    PROVE  /\ Head(s) \in S
           /\ Tail(s) \in Seq(S)
           /\ ToSet(s) = ToSet(Tail(s)) \cup {Head(s)}
           /\ Distinct(s) => Distinct(Tail(s)) /\ Head(s) \notin ToSet(Tail(s))
  <1>1. /\ Len(s) \in Nat \ {0}
        /\ DOMAIN s = 1..Len(s)
        /\ Head(s) = s[1]
        /\ Head(s) \in S
        /\ Tail(s) \in Seq(S)
        /\ DOMAIN Tail(s) = 1..(Len(s) - 1)
        /\ \A i \in 1..(Len(s) - 1) : Tail(s)[i] = s[i + 1]
    OBVIOUS
  <1>2. ToSet(s) = ToSet(Tail(s)) \cup {Head(s)}
    <2>1. ASSUME NEW i \in 1..Len(s)
          PROVE  s[i] \in ToSet(Tail(s)) \cup {Head(s)}
      <3>1. CASE i = 1
        BY <1>1, <3>1
      <3>2. CASE i # 1
        <4>1. i - 1 \in 1..(Len(s) - 1) /\ (i - 1) + 1 = i
          BY <1>1, <3>2
        <4>2. Tail(s)[i - 1] = s[i]
          BY <1>1, <4>1
        <4> QED
          BY <1>1, <4>1, <4>2 DEF ToSet
      <3> QED
        BY <3>1, <3>2
    <2>2. ASSUME NEW i \in 1..(Len(s) - 1)
          PROVE  Tail(s)[i] \in ToSet(s)
      <3>1. i + 1 \in 1..Len(s)
        BY <1>1
      <3> QED
        BY <1>1, <3>1 DEF ToSet
    <2>3. Head(s) \in ToSet(s)
      BY <1>1 DEF ToSet
    <2> QED
      BY <1>1, <2>1, <2>2, <2>3 DEF ToSet
  <1>3. Distinct(s) => Distinct(Tail(s)) /\ Head(s) \notin ToSet(Tail(s))
    BY <1>1 DEF Distinct, ToSet
  <1> QED
    BY <1>1, <1>2, <1>3

LEMMA ToSetType ==
    ASSUME NEW S, NEW s \in Seq(S)
    PROVE  ToSet(s) \subseteq S
BY DEF ToSet

LEMMA ToSetEmpty == ToSet(<<>>) = {} /\ Distinct(<<>>)
BY DEF ToSet, Distinct

-----------------------------------------------------------------------------
\* A set of numbers that has a member has a least one.
LEMMA Least ==
    ASSUME NEW T \in SUBSET Nat, T # {}
    PROVE  \E n \in T : \A m \in T : n <= m
  <1>1. PICK n \in T : \A m \in T : <<m, n>> \notin OpToRel(<, Nat)
    BY NatLessThanWellFounded, WFMin
  <1>2. \A m \in T : ~(m < n)
    BY <1>1 DEF OpToRel
  <1> QED
    BY <1>2

-----------------------------------------------------------------------------
\* The sum takes the elements in the order in which CHOOSE picks them: it is
\* the value at S of a function g that solves this equation over the subsets.
Choice(s) == CHOOSE x \in s : TRUE

Solves(g, f, D) ==
    g = [s \in D |-> IF s = {} THEN 0 ELSE f[Choice(s)] + g[s \ {Choice(s)}]]

LEMMA SumUnfolds ==
    ASSUME NEW f, NEW S
    PROVE  SumFunctionOnSet(f, S) = (CHOOSE g : Solves(g, f, SUBSET S))[S]
BY DEF SumFunctionOnSet, FoldFunctionOnSet, MapThenFoldSet, Solves, Choice

LEMMA ChoiceIsIn == \A s : s # {} => Choice(s) \in s
BY DEF Choice

\* Taking an element out of a finite set leaves a smaller one.
LEMMA WithoutOne ==
    ASSUME NEW S, IsFiniteSet(S), NEW s \in SUBSET S, NEW x \in s
    PROVE  /\ s \ {x} \in SUBSET S
           /\ Cardinality(s) \in Nat \ {0}
           /\ Cardinality(s \ {x}) = Cardinality(s) - 1
  <1>1. IsFiniteSet(s)
    BY FS_Subset
  <1>2. Cardinality(s) \in Nat /\ Cardinality(s) # 0
    BY <1>1, FS_CardinalityType, FS_EmptySet
  <1>3. Cardinality(s \ {x}) = Cardinality(s) - 1
    BY <1>1, FS_RemoveElement
  <1> QED
    BY <1>2, <1>3

\* The equation has a solution: one for the subsets of at most n elements
\* gives one for those of n + 1.
LEMMA Solvable ==
    ASSUME NEW S, IsFiniteSet(S), NEW f, \A x \in S : f[x] \in Int
    PROVE  \E g : Solves(g, f, SUBSET S) /\ \A s \in SUBSET S : g[s] \in Int
  <1> DEFINE Upto(n) == {s \in SUBSET S : Cardinality(s) <= n}
             Good(g, n) == Solves(g, f, Upto(n)) /\ \A s \in Upto(n) : g[s] \in Int
             Bad == {n \in Nat : ~ \E g : Good(g, n)}
  <1>0. \A s \in SUBSET S : IsFiniteSet(s) /\ Cardinality(s) \in Nat
    BY FS_Subset, FS_CardinalityType
  <1>1. Bad = {}
    <2> SUFFICES ASSUME Bad # {} PROVE FALSE
      OBVIOUS
    <2>1. PICK n \in Bad : \A m \in Bad : n <= m
      BY Least
    <2>2. CASE n = 0
      <3> DEFINE g == [s \in Upto(0) |-> 0]
      <3>1. Upto(0) = {{}}
        BY <1>0, FS_EmptySet
      <3>2. g = [s \in Upto(0) |-> IF s = {} THEN 0 ELSE f[Choice(s)] + g[s \ {Choice(s)}]]
        BY <3>1
      <3>3. \A s \in Upto(0) : g[s] \in Int
        OBVIOUS
      <3>4. Good(g, 0)
        BY <3>2, <3>3 DEF Solves
      <3> QED
        BY <2>2, <3>4
    <2>3. CASE n # 0
      <3>1. n - 1 \in Nat /\ n - 1 \notin Bad
        <4>1. n \in Nat
          OBVIOUS
        <4>2. n - 1 \in Nat /\ ~(n <= n - 1)
          BY <4>1, <2>3
        <4> QED
          BY <4>2, <2>1
      <3>2. PICK g : Good(g, n - 1)
        BY <3>1
      <3> DEFINE h == [s \in Upto(n) |-> IF s = {} THEN 0 ELSE f[Choice(s)] + g[s \ {Choice(s)}]]
      <3>3. ASSUME NEW s \in Upto(n), s # {}
            PROVE  s \ {Choice(s)} \in Upto(n - 1) /\ f[Choice(s)] \in Int
        <4>1. Choice(s) \in s /\ Choice(s) \in S
          BY <3>3, ChoiceIsIn
        <4>2. Cardinality(s) \in Nat /\ Cardinality(s) <= n /\ n \in Nat
          BY <1>0
        <4> QED
          BY <4>1, <4>2, WithoutOne
      <3>4. \A s \in Upto(n - 1) : s \in Upto(n)
        BY <1>0
      <3>5. ASSUME NEW s \in Upto(n - 1) PROVE h[s] = g[s]
        BY <3>2, <3>4, <3>5 DEF Solves
      <3>6. \A s \in Upto(n) : h[s] \in Int
        BY <3>2, <3>3
      <3>7. h = [s \in Upto(n) |-> IF s = {} THEN 0 ELSE f[Choice(s)] + h[s \ {Choice(s)}]]
        BY <3>3, <3>5
      <3>8. Good(h, n)
        BY <3>6, <3>7 DEF Solves
      <3> QED
        BY <2>1, <3>8
    <2> QED
      BY <2>2, <2>3
  <1>2. Cardinality(S) \in Nat /\ Upto(Cardinality(S)) = SUBSET S
    BY FS_CardinalityType, FS_Subset
  <1> QED
    BY <1>1, <1>2

\* Solutions for functions that agree on a set agree on the set.
LEMMA SolutionsAgree ==
    ASSUME NEW S, NEW T, NEW U, IsFiniteSet(U), U \subseteq S, U \subseteq T,
           NEW f, NEW k, \A x \in U : f[x] = k[x],
           NEW g, NEW h, Solves(g, f, SUBSET S), Solves(h, k, SUBSET T)
    PROVE  g[U] = h[U]
  <1> DEFINE Bad == {n \in Nat : \E s \in SUBSET U : Cardinality(s) = n /\ g[s] # h[s]}
  <1>1. Bad = {}
    <2> SUFFICES ASSUME Bad # {} PROVE FALSE
      OBVIOUS
    <2>1. PICK n \in Bad : \A m \in Bad : n <= m
      BY Least
    <2>2. PICK s \in SUBSET U : Cardinality(s) = n /\ g[s] # h[s]
      OBVIOUS
    <2>3. s # {}
      BY <2>2 DEF Solves
    <2> DEFINE x == Choice(s)
    <2>4. x \in s
      BY <2>3, ChoiceIsIn
    <2>5. /\ s \ {x} \in SUBSET U
          /\ Cardinality(s) \in Nat \ {0}
          /\ Cardinality(s \ {x}) = Cardinality(s) - 1
      BY <2>4, WithoutOne
    <2>6. n - 1 \in Nat /\ ~(n <= n - 1)
      BY <2>2, <2>5
    <2>7. g[s \ {x}] = h[s \ {x}]
      BY <2>1, <2>2, <2>5, <2>6
    <2>8. g[s] = f[x] + g[s \ {x}] /\ h[s] = k[x] + h[s \ {x}]
      BY <2>3 DEF Solves
    <2> QED
      BY <2>2, <2>4, <2>7, <2>8
  <1>2. Cardinality(U) \in Nat
    BY FS_CardinalityType
  <1> QED
    BY <1>1, <1>2

\* So every solution tells the sum, over its set and over subsets.
Summable(f, S) == IsFiniteSet(S) /\ \A x \in S : f[x] \in Int

Tells(g, f, S) ==
    /\ Solves(g, f, SUBSET S)
    /\ \A s \in SUBSET S : g[s] \in Int /\ SumFunctionOnSet(f, s) = g[s]

LEMMA SolutionTells == \A f, S : Summable(f, S) => \E g : Tells(g, f, S)
  <1> SUFFICES ASSUME NEW f, NEW S, Summable(f, S) PROVE \E g : Tells(g, f, S)
    OBVIOUS
  <1>1. PICK g : Solves(g, f, SUBSET S) /\ \A s \in SUBSET S : g[s] \in Int
    BY Solvable DEF Summable
  <1>2. ASSUME NEW s \in SUBSET S PROVE SumFunctionOnSet(f, s) = g[s]
    <2>1. IsFiniteSet(s)
      BY FS_Subset DEF Summable
    <2>2. \A x \in s : f[x] \in Int
      BY DEF Summable
    <2>3. PICK h : h = CHOOSE k : Solves(k, f, SUBSET s)
      OBVIOUS
    <2>4. Solves(h, f, SUBSET s)
      <3>1. \E k : Solves(k, f, SUBSET s)
        BY <2>1, <2>2, Solvable
      <3> QED
        BY <2>3, <3>1
    <2>5. h[s] = g[s]
      <3>1. s \subseteq s /\ s \subseteq S /\ \A x \in s : f[x] = f[x]
        OBVIOUS
      <3> HIDE <2>3
      <3> QED
        BY <1>1, <2>1, <2>4, <3>1, SolutionsAgree, SMTT(30)
    <2> QED
      BY <2>3, <2>5, SumUnfolds
  <1> QED
    BY <1>1, <1>2 DEF Tells

-----------------------------------------------------------------------------
\* The sum of integers is one.
THEOREM SumType == \A f, S : Summable(f, S) => SumFunctionOnSet(f, S) \in Int
  <1> SUFFICES ASSUME NEW f, NEW S, Summable(f, S) PROVE SumFunctionOnSet(f, S) \in Int
    OBVIOUS
  <1>1. PICK g : Tells(g, f, S)
    BY SolutionTells
  <1> QED
    BY <1>1 DEF Tells

\* Nothing sums to zero.
THEOREM SumEmpty == \A f : SumFunctionOnSet(f, {}) = 0
  <1> SUFFICES ASSUME NEW f PROVE SumFunctionOnSet(f, {}) = 0
    OBVIOUS
  <1>1. Summable(f, {})
    BY FS_EmptySet DEF Summable
  <1>2. PICK g : Tells(g, f, {})
    BY <1>1, SolutionTells
  <1> QED
    BY <1>2 DEF Tells, Solves

\* The sum depends on the summands alone.
THEOREM SumSame ==
    ASSUME NEW f, NEW S, Summable(f, S), NEW k, \A x \in S : f[x] = k[x]
    PROVE  SumFunctionOnSet(f, S) = SumFunctionOnSet(k, S)
  <1>1. Summable(k, S) /\ IsFiniteSet(S)
    BY DEF Summable
  <1>2. PICK g : Tells(g, f, S)
    BY SolutionTells
  <1>3. PICK h : Tells(h, k, S)
    BY <1>1, SolutionTells
  <1>4. Solves(g, f, SUBSET S) /\ Solves(h, k, SUBSET S)
    BY <1>2, <1>3 DEF Tells
  <1>5. g[S] = h[S]
    BY <1>1, <1>4, SolutionsAgree
  <1> QED
    BY <1>2, <1>3, <1>5 DEF Tells

\* Any element may be taken out, not only the one that is chosen: for a least
\* set that is different, take out the chosen one first.
THEOREM SumTakeOut ==
    ASSUME NEW f, NEW S, Summable(f, S), NEW x \in S
    PROVE  SumFunctionOnSet(f, S) = f[x] + SumFunctionOnSet(f, S \ {x})
  <1>1. PICK g : Tells(g, f, S)
    BY SolutionTells
  <1> DEFINE Fails(s) == \E y \in s : g[s] # f[y] + g[s \ {y}]
             Bad == {n \in Nat : \E s \in SUBSET S : Cardinality(s) = n /\ Fails(s)}
  <1>2. Bad = {}
    <2> SUFFICES ASSUME Bad # {} PROVE FALSE
      OBVIOUS
    <2>1. PICK n \in Bad : \A m \in Bad : n <= m
      BY Least
    <2>2. PICK s \in SUBSET S : Cardinality(s) = n /\ Fails(s)
      OBVIOUS
    <2>3. PICK y \in s : g[s] # f[y] + g[s \ {y}]
      BY <2>2
    <2>4. PICK z \in s : g[s] = f[z] + g[s \ {z}]
      BY <1>1, <2>3, ChoiceIsIn DEF Tells, Solves
    <2>5. y # z
      BY <2>3, <2>4
    <2> DEFINE rest == (s \ {y}) \ {z}
    <2>6. \A u \in s : s \ {u} \in SUBSET S /\ Cardinality(s \ {u}) = n - 1
      BY <2>2, WithoutOne DEF Summable
    <2>7. \A t \in SUBSET S : Cardinality(t) = n - 1 => ~Fails(t)
      <3>1. n \in Nat \ {0}
        BY <2>2, <2>4, WithoutOne DEF Summable
      <3>2. n - 1 \in Nat /\ ~(n <= n - 1)
        BY <3>1
      <3> QED
        BY <2>1, <3>2
    <2>8. ~Fails(s \ {y}) /\ ~Fails(s \ {z})
      BY <2>6, <2>7
    <2>9. (s \ {z}) \ {y} = rest /\ z \in s \ {y} /\ y \in s \ {z}
      BY <2>5
    <2>10. g[s \ {y}] = f[z] + g[rest] /\ g[s \ {z}] = f[y] + g[rest]
      BY <2>8, <2>9
    <2>11. f[y] \in Int /\ f[z] \in Int /\ g[rest] \in Int
      BY <1>1 DEF Tells, Summable
    <2> QED
      BY <2>3, <2>4, <2>10, <2>11
  <1>3. Cardinality(S) \in Nat
    BY FS_CardinalityType DEF Summable
  <1>4. g[S] = f[x] + g[S \ {x}]
    BY <1>2, <1>3
  <1> QED
    BY <1>1, <1>4 DEF Tells

\* A further element adds its summand.
THEOREM SumAddElement ==
    ASSUME NEW f, NEW S, NEW x, x \notin S, Summable(f, S \cup {x})
    PROVE  /\ Summable(f, S)
           /\ SumFunctionOnSet(f, S \cup {x}) = SumFunctionOnSet(f, S) + f[x]
  <1>1. (S \cup {x}) \ {x} = S /\ x \in S \cup {x}
    OBVIOUS
  <1>2. Summable(f, S)
    BY <1>1, FS_RemoveElement DEF Summable
  <1>3. f[x] \in Int /\ SumFunctionOnSet(f, S) \in Int
    BY <1>2, SumType DEF Summable
  <1>4. SumFunctionOnSet(f, S \cup {x}) = f[x] + SumFunctionOnSet(f, S)
    BY <1>1, SumTakeOut
  <1> QED
    BY <1>2, <1>3, <1>4

\* One summand changes: the sum changes by the same.
THEOREM SumUpdate ==
    ASSUME NEW f, NEW k, NEW S, Summable(f, S), Summable(k, S), NEW x \in S,
           \A y \in S : y # x => f[y] = k[y]
    PROVE  SumFunctionOnSet(k, S) = SumFunctionOnSet(f, S) + (k[x] - f[x])
  <1>1. Summable(f, S \ {x})
    BY FS_RemoveElement DEF Summable
  <1>2. SumFunctionOnSet(f, S \ {x}) = SumFunctionOnSet(k, S \ {x})
    BY <1>1, SumSame
  <1>3. /\ SumFunctionOnSet(f, S) = f[x] + SumFunctionOnSet(f, S \ {x})
        /\ SumFunctionOnSet(k, S) = k[x] + SumFunctionOnSet(k, S \ {x})
    BY SumTakeOut
  <1>4. f[x] \in Int /\ k[x] \in Int /\ SumFunctionOnSet(f, S \ {x}) \in Int
    BY <1>1, SumType DEF Summable
  <1> QED
    BY <1>2, <1>3, <1>4

\* What one summand gains another loses: the sum stays.
THEOREM SumMove ==
    ASSUME NEW f, NEW k, NEW S, Summable(f, S), Summable(k, S),
           NEW x \in S, NEW y \in S, x # y, k[x] + k[y] = f[x] + f[y],
           \A z \in S : z # x /\ z # y => f[z] = k[z]
    PROVE  SumFunctionOnSet(k, S) = SumFunctionOnSet(f, S)
  <1> DEFINE T == S \ {x}
  <1>1. Summable(f, T) /\ Summable(k, T) /\ y \in T
    BY FS_RemoveElement DEF Summable
  <1>2. \A z \in T : z # y => f[z] = k[z]
    OBVIOUS
  <1>3. /\ SumFunctionOnSet(f, S) = f[x] + SumFunctionOnSet(f, T)
        /\ SumFunctionOnSet(k, S) = k[x] + SumFunctionOnSet(k, T)
    BY SumTakeOut
  <1> HIDE DEF T
  <1>4. SumFunctionOnSet(k, T) = SumFunctionOnSet(f, T) + (k[y] - f[y])
    BY <1>1, <1>2, SumUpdate
  <1>5. /\ f[x] \in Int /\ k[x] \in Int /\ f[y] \in Int /\ k[y] \in Int
        /\ SumFunctionOnSet(f, T) \in Int
    BY <1>1, SumType DEF Summable
  <1> QED
    BY <1>3, <1>4, <1>5

\* Zeros sum to zero: in a least set that is different, take out an element.
THEOREM SumZero ==
    ASSUME NEW f, NEW S, IsFiniteSet(S), \A x \in S : f[x] = 0
    PROVE  SumFunctionOnSet(f, S) = 0
  <1>1. Summable(f, S)
    BY DEF Summable
  <1>2. PICK g : Tells(g, f, S)
    BY <1>1, SolutionTells
  <1> DEFINE Bad == {n \in Nat : \E s \in SUBSET S : Cardinality(s) = n /\ g[s] # 0}
  <1>3. Bad = {}
    <2> SUFFICES ASSUME Bad # {} PROVE FALSE
      OBVIOUS
    <2>1. PICK n \in Bad : \A m \in Bad : n <= m
      BY Least
    <2>2. PICK s \in SUBSET S : Cardinality(s) = n /\ g[s] # 0
      OBVIOUS
    <2> DEFINE x == Choice(s)
    <2>3. s # {}
      BY <1>2, <2>2 DEF Tells, Solves
    <2>4. x \in s /\ g[s] = f[x] + g[s \ {x}]
      BY <1>2, <2>3, ChoiceIsIn DEF Tells, Solves
    <2>5. /\ s \ {x} \in SUBSET S
          /\ Cardinality(s) \in Nat \ {0}
          /\ Cardinality(s \ {x}) = Cardinality(s) - 1
      BY <2>4, WithoutOne
    <2>6. n - 1 \in Nat /\ ~(n <= n - 1)
      BY <2>2, <2>5
    <2>7. g[s \ {x}] = 0
      BY <2>1, <2>2, <2>5, <2>6
    <2> QED
      BY <2>2, <2>4, <2>7
  <1>4. Cardinality(S) \in Nat
    BY FS_CardinalityType
  <1> QED
    BY <1>2, <1>3, <1>4 DEF Tells

\* A sum of natural numbers is one.
THEOREM SumNat ==
    ASSUME NEW f, NEW S, IsFiniteSet(S), \A x \in S : f[x] \in Nat
    PROVE  SumFunctionOnSet(f, S) \in Nat
  <1>1. Summable(f, S)
    BY DEF Summable
  <1>2. PICK g : Tells(g, f, S)
    BY <1>1, SolutionTells
  <1> DEFINE Bad == {n \in Nat : \E s \in SUBSET S : Cardinality(s) = n /\ g[s] \notin Nat}
  <1>3. Bad = {}
    <2> SUFFICES ASSUME Bad # {} PROVE FALSE
      OBVIOUS
    <2>1. PICK n \in Bad : \A m \in Bad : n <= m
      BY Least
    <2>2. PICK s \in SUBSET S : Cardinality(s) = n /\ g[s] \notin Nat
      OBVIOUS
    <2> DEFINE x == Choice(s)
    <2>3. s # {}
      BY <1>2, <2>2 DEF Tells, Solves
    <2>4. x \in s /\ g[s] = f[x] + g[s \ {x}]
      BY <1>2, <2>3, ChoiceIsIn DEF Tells, Solves
    <2>5. /\ s \ {x} \in SUBSET S
          /\ Cardinality(s) \in Nat \ {0}
          /\ Cardinality(s \ {x}) = Cardinality(s) - 1
      BY <2>4, WithoutOne
    <2>6. n - 1 \in Nat /\ ~(n <= n - 1)
      BY <2>2, <2>5
    <2>7. g[s \ {x}] \in Nat
      BY <2>1, <2>2, <2>5, <2>6
    <2> QED
      BY <2>2, <2>4, <2>7
  <1>4. Cardinality(S) \in Nat
    BY FS_CardinalityType
  <1> QED
    BY <1>2, <1>3, <1>4 DEF Tells

\* Larger summands have a larger sum: of a least set for which this fails, take
\* an element out.
THEOREM SumGrows ==
    ASSUME NEW f, NEW k, NEW S, Summable(f, S), Summable(k, S), \A x \in S : f[x] <= k[x]
    PROVE  SumFunctionOnSet(f, S) <= SumFunctionOnSet(k, S)
  <1>1. PICK g : Tells(g, f, S)
    BY SolutionTells
  <1>2. PICK h : Tells(h, k, S)
    BY SolutionTells
  <1> DEFINE Bad == {n \in Nat : \E s \in SUBSET S : Cardinality(s) = n /\ ~(g[s] <= h[s])}
  <1>3. Bad = {}
    <2> SUFFICES ASSUME Bad # {} PROVE FALSE
      OBVIOUS
    <2>1. PICK n \in Bad : \A m \in Bad : n <= m
      BY Least
    <2>2. PICK s \in SUBSET S : Cardinality(s) = n /\ ~(g[s] <= h[s])
      OBVIOUS
    <2> DEFINE x == Choice(s)
    <2>3. s # {}
      BY <1>1, <1>2, <2>2 DEF Tells, Solves
    <2>4. x \in s /\ g[s] = f[x] + g[s \ {x}] /\ h[s] = k[x] + h[s \ {x}]
      BY <1>1, <1>2, <2>3, ChoiceIsIn DEF Tells, Solves
    <2>5. /\ s \ {x} \in SUBSET S
          /\ Cardinality(s) \in Nat \ {0}
          /\ Cardinality(s \ {x}) = Cardinality(s) - 1
      <3>1. IsFiniteSet(S) /\ x \in s
        BY <2>4 DEF Summable
      <3> QED
        BY <2>2, <3>1, WithoutOne
    <2>6. n - 1 \in Nat /\ ~(n <= n - 1)
      BY <2>2, <2>5
    <2>7. g[s \ {x}] <= h[s \ {x}]
      BY <2>1, <2>5, <2>6, <2>2
    <2>8. /\ f[x] \in Int /\ k[x] \in Int /\ f[x] <= k[x]
          /\ g[s \ {x}] \in Int /\ h[s \ {x}] \in Int
      BY <1>1, <1>2, <2>4, <2>5 DEF Summable, Tells
    <2> QED
      BY <2>2, <2>4, <2>7, <2>8
  <1>4. Cardinality(S) \in Nat
    BY FS_CardinalityType DEF Summable
  <1> QED
    BY <1>1, <1>2, <1>3, <1>4 DEF Tells

-----------------------------------------------------------------------------
\* The values of a function on a finite set are finitely many.
THEOREM ImageIsFinite ==
    ASSUME NEW S, IsFiniteSet(S), NEW f
    PROVE  IsFiniteSet({f[x] : x \in S})
  <1> DEFINE T == {f[x] : x \in S}
             g == [x \in S |-> f[x]]
  <1>1. g \in Surjection(S, T)
    BY DEF Surjection
  <1> QED
    BY <1>1, FS_Surjection

\* A finite set of numbers that has a member has a largest one: from a least
\* set that has none, take out an element.
THEOREM MaxIsLargest ==
    ASSUME NEW S \in SUBSET Nat, IsFiniteSet(S), S # {}
    PROVE  Max(S) \in S /\ \A y \in S : y <= Max(S)
  <1> DEFINE Has(s) == \E x \in s : \A y \in s : x >= y
             Bad == {n \in Nat : \E s \in SUBSET S : s # {} /\ Cardinality(s) = n /\ ~Has(s)}
  <1>1. Bad = {}
    <2> SUFFICES ASSUME Bad # {} PROVE FALSE
      OBVIOUS
    <2>1. PICK n \in Bad : \A m \in Bad : n <= m
      BY Least
    <2>2. PICK s \in SUBSET S : s # {} /\ Cardinality(s) = n /\ ~Has(s)
      OBVIOUS
    <2>3. PICK x \in s : TRUE
      BY <2>2
    <2>4. /\ s \ {x} \in SUBSET S
          /\ Cardinality(s) \in Nat \ {0}
          /\ Cardinality(s \ {x}) = Cardinality(s) - 1
      BY <2>3, WithoutOne
    <2>5. n - 1 \in Nat /\ ~(n <= n - 1)
      BY <2>2, <2>4
    <2>6. s \ {x} # {}
      <3> SUFFICES ASSUME s \ {x} = {} PROVE FALSE
        OBVIOUS
      <3>1. s = {x} /\ x \in Nat
        BY <2>3
      <3> QED
        BY <2>2, <3>1
    <2>7. Has(s \ {x})
      BY <2>1, <2>2, <2>4, <2>5, <2>6
    <2>8. PICK z \in s \ {x} : \A y \in s \ {x} : z >= y
      BY <2>7
    <2>9. x \in Nat /\ z \in Nat /\ s \subseteq Nat
      OBVIOUS
    <2>10. \A y \in s : y = x \/ y \in s \ {x}
      OBVIOUS
    <2>11. (\A y \in s : x >= y) \/ (\A y \in s : z >= y)
      BY <2>8, <2>9, <2>10
    <2> QED
      BY <2>2, <2>11
  <1>2. Cardinality(S) \in Nat
    BY FS_CardinalityType
  <1>3. Has(S)
    BY <1>1, <1>2
  <1>4. \E x \in S : \A y \in S : x >= y
    BY <1>3
  <1>5. Max(S) \in S /\ \A y \in S : Max(S) >= y
    BY <1>4 DEF Max
  <1> QED
    BY <1>5

-----------------------------------------------------------------------------
\* Induction over the subsets of a finite set, of a family of them instead of a
\* predicate.
THEOREM SubsetInduction ==
    ASSUME NEW S, IsFiniteSet(S), NEW F, {} \in F,
           \A s \in SUBSET S : \A x \in s : s \ {x} \in F => s \in F
    PROVE  S \in F
  <1> DEFINE Bad == {n \in Nat : \E s \in SUBSET S : Cardinality(s) = n /\ s \notin F}
  <1>1. Bad = {}
    <2> SUFFICES ASSUME Bad # {} PROVE FALSE
      OBVIOUS
    <2>1. PICK n \in Bad : \A m \in Bad : n <= m
      BY Least
    <2>2. PICK s \in SUBSET S : Cardinality(s) = n /\ s \notin F
      OBVIOUS
    <2>3. PICK x \in s : TRUE
      BY <2>2
    <2>4. /\ s \ {x} \in SUBSET S
          /\ Cardinality(s) \in Nat \ {0}
          /\ Cardinality(s \ {x}) = Cardinality(s) - 1
      BY <2>3, WithoutOne
    <2>5. n - 1 \in Nat /\ ~(n <= n - 1)
      BY <2>2, <2>4
    <2>6. s \ {x} \in F
      BY <2>1, <2>2, <2>4, <2>5
    <2> QED
      BY <2>2, <2>3, <2>6
  <1>2. Cardinality(S) \in Nat
    BY FS_CardinalityType
  <1> QED
    BY <1>1, <1>2

\* What is summable is so over subsets, and an element may be taken out of each.
LEMMA SumOfSubset ==
    ASSUME NEW f, NEW S, Summable(f, S), NEW s \in SUBSET S
    PROVE  /\ Summable(f, s) /\ SumFunctionOnSet(f, s) \in Int
           /\ \A x \in s : /\ f[x] \in Int /\ SumFunctionOnSet(f, s \ {x}) \in Int
                           /\ SumFunctionOnSet(f, s) = f[x] + SumFunctionOnSet(f, s \ {x})
  <1>1. Summable(f, s)
    BY FS_Subset DEF Summable
  <1>2. ASSUME NEW x \in s PROVE Summable(f, s \ {x})
    BY <1>1, FS_RemoveElement DEF Summable
  <1>3. ASSUME NEW x \in s
        PROVE  SumFunctionOnSet(f, s) = f[x] + SumFunctionOnSet(f, s \ {x})
    BY <1>1, SumTakeOut
  <1> QED
    BY <1>1, <1>2, <1>3, SumType DEF Summable

\* Two sums over a set are one.
THEOREM SumPlus ==
    ASSUME NEW f, NEW k, NEW m, NEW S, Summable(f, S), Summable(k, S),
           \A x \in S : m[x] = f[x] + k[x]
    PROVE  SumFunctionOnSet(m, S) = SumFunctionOnSet(f, S) + SumFunctionOnSet(k, S)
  <1> DEFINE F == {s \in SUBSET S : SumFunctionOnSet(m, s)
                                      = SumFunctionOnSet(f, s) + SumFunctionOnSet(k, s)}
  <1>1. Summable(m, S)
    BY DEF Summable
  <1>2. {} \in F
    BY SumEmpty
  <1>3. ASSUME NEW s \in SUBSET S, NEW x \in s, s \ {x} \in F PROVE s \in F
    <2>1. /\ SumFunctionOnSet(m, s) = m[x] + SumFunctionOnSet(m, s \ {x})
          /\ SumFunctionOnSet(f, s) = f[x] + SumFunctionOnSet(f, s \ {x})
          /\ SumFunctionOnSet(k, s) = k[x] + SumFunctionOnSet(k, s \ {x})
      BY <1>1, SumOfSubset
    <2>2. /\ f[x] \in Int /\ k[x] \in Int
          /\ SumFunctionOnSet(f, s \ {x}) \in Int /\ SumFunctionOnSet(k, s \ {x}) \in Int
      BY SumOfSubset
    <2>3. SumFunctionOnSet(m, s \ {x})
            = SumFunctionOnSet(f, s \ {x}) + SumFunctionOnSet(k, s \ {x})
      BY <1>3
    <2>4. m[x] = f[x] + k[x]
      BY <1>3
    <2> QED
      BY <2>1, <2>2, <2>3, <2>4
  <1> HIDE DEF F
  <1>4. S \in F
    BY <1>2, <1>3, SubsetInduction DEF Summable
  <1> QED
    BY <1>4 DEF F

\* The sum over two sets that share nothing.
THEOREM SumUnion ==
    ASSUME NEW f, NEW S, NEW T, Summable(f, S), Summable(f, T), S \cap T = {}
    PROVE  /\ Summable(f, S \cup T)
           /\ SumFunctionOnSet(f, S \cup T) = SumFunctionOnSet(f, S) + SumFunctionOnSet(f, T)
  <1> DEFINE F == {s \in SUBSET T : SumFunctionOnSet(f, S \cup s)
                                      = SumFunctionOnSet(f, S) + SumFunctionOnSet(f, s)}
  <1>1. Summable(f, S \cup T)
    BY FS_Union DEF Summable
  <1>0. \A s \in SUBSET T : \A x \in s :
          /\ f[x] \in Int /\ SumFunctionOnSet(f, s \ {x}) \in Int
          /\ SumFunctionOnSet(f, s) = f[x] + SumFunctionOnSet(f, s \ {x})
    <2> HIDE DEF F
    <2>1. ASSUME NEW D, Summable(f, D), NEW s \in SUBSET D, NEW x \in s
          PROVE  /\ f[x] \in Int /\ SumFunctionOnSet(f, s \ {x}) \in Int
                 /\ SumFunctionOnSet(f, s) = f[x] + SumFunctionOnSet(f, s \ {x})
      BY <2>1, SumOfSubset
    <2> QED
      BY <2>1
  <1>2. {} \in F
    <2>1. S \cup {} = S /\ SumFunctionOnSet(f, {}) = 0 /\ SumFunctionOnSet(f, S) \in Int
      BY SumEmpty, SumType
    <2> QED
      BY <2>1
  <1>3. ASSUME NEW s \in SUBSET T, NEW x \in s, s \ {x} \in F PROVE s \in F
    <2>1. S \cup s \in SUBSET (S \cup T) /\ x \in S \cup s /\ (S \cup s) \ {x} = S \cup (s \ {x})
      OBVIOUS
    <2>2. SumFunctionOnSet(f, S \cup s) = f[x] + SumFunctionOnSet(f, S \cup (s \ {x}))
      BY <1>1, <2>1, SumOfSubset
    <2>3. /\ SumFunctionOnSet(f, s) = f[x] + SumFunctionOnSet(f, s \ {x})
          /\ f[x] \in Int /\ SumFunctionOnSet(f, s \ {x}) \in Int
      BY <1>3, <1>0
    <2>4. SumFunctionOnSet(f, S \cup (s \ {x}))
            = SumFunctionOnSet(f, S) + SumFunctionOnSet(f, s \ {x})
      BY <1>3
    <2>5. SumFunctionOnSet(f, S) \in Int
      BY SumType
    <2> QED
      BY <2>2, <2>3, <2>4, <2>5
  <1> HIDE DEF F
  <1>4. T \in F
    BY <1>2, <1>3, SubsetInduction DEF Summable
  <1> QED
    BY <1>1, <1>4 DEF F

\* The sum over things of which each belongs to one element of a set is one
\* over the set.
THEOREM SumImage ==
    ASSUME NEW S, IsFiniteSet(S), NEW g, NEW h, NEW k,
           \A x \in S : k[x] \in Int /\ h[g[x]] = k[x],
           \A x, y \in S : g[x] = g[y] => x = y,
           NEW R, \A r : r \in R <=> \E x \in S : r = g[x]
    PROVE  /\ Summable(h, R)
           /\ SumFunctionOnSet(h, R) = SumFunctionOnSet(k, S)
  <1> DEFINE Image(s) == {g[x] : x \in s}
             F == {s \in SUBSET S : SumFunctionOnSet(h, Image(s)) = SumFunctionOnSet(k, s)}
  <1>1. Summable(h, Image(S)) /\ Summable(k, S)
    BY ImageIsFinite DEF Summable
  <1>2. {} \in F
    BY SumEmpty
  <1>3. ASSUME NEW s \in SUBSET S, NEW x \in s, s \ {x} \in F PROVE s \in F
    <2>1. Image(s) \in SUBSET Image(S) /\ g[x] \in Image(s) /\ Image(s) \ {g[x]} = Image(s \ {x})
      OBVIOUS
    <2> HIDE DEF Image
    <2>2. SumFunctionOnSet(h, Image(s)) = h[g[x]] + SumFunctionOnSet(h, Image(s \ {x}))
      <3>1. \A y \in Image(s) :
              SumFunctionOnSet(h, Image(s)) = h[y] + SumFunctionOnSet(h, Image(s) \ {y})
        BY <1>1, <2>1, SumOfSubset
      <3> QED
        BY <2>1, <3>1
    <2>3. SumFunctionOnSet(k, s) = k[x] + SumFunctionOnSet(k, s \ {x})
      BY <1>1, SumOfSubset
    <2>4. h[g[x]] = k[x]
      BY <1>3
    <2> QED
      BY <1>3, <2>2, <2>3, <2>4
  <1> HIDE DEF F
  <1>4. S \in F
    BY <1>2, <1>3, SubsetInduction
  <1>5. R = Image(S)
    OBVIOUS
  <1> QED
    BY <1>1, <1>4, <1>5 DEF F
=============================================================================

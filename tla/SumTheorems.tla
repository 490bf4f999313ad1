---------------------------- MODULE SumTheorems ----------------------------
(***************************************************************************)
(* What SumFunctionOnSet of the community modules computes.  It is a        *)
(* recursive function over the subsets of its argument; the facts below are *)
(* proved from the well-foundedness of the strict subset ordering: a set of *)
(* finite sets for which a fact fails would have a smallest member.          *)
(***************************************************************************)
EXTENDS Integers, FiniteSets, Functions, FiniteSetTheorems, TLAPS

Pick(s) == CHOOSE x \in s : TRUE
Step(f, g, s) == IF s = {} THEN 0 ELSE f[Pick(s)] + g[s \ {Pick(s)}]
Sums(f, S, g) == g = [s \in SUBSET S |-> Step(f, g, s)]
Iter(f, S) == CHOOSE g : Sums(f, S, g)

LEMMA SumIsIter ==
    ASSUME NEW f, NEW S
    PROVE  SumFunctionOnSet(f, S) = Iter(f, S)[S]
BY DEF SumFunctionOnSet, FoldFunctionOnSet, MapThenFoldSet, Iter, Sums, Step, Pick

LEMMA PickIn == ASSUME NEW S, S # {} PROVE Pick(S) \in S
BY DEF Pick

(* A property of the finite sets that fails for one fails for a smallest one. *)
LEMMA SmallestSubset ==
    ASSUME NEW S, IsFiniteSet(S), NEW T, T \subseteq SUBSET S, T # {}
    PROVE  \E s \in T : \A t \in T : t \subseteq s => t = s
<1>1. IsWellFoundedOn(StrictSubsetOrdering(S), FiniteSubsetsOf(S))
  BY FS_StrictSubsetOrderingWellFounded
<1>2. T \subseteq FiniteSubsetsOf(S)
  BY FS_FiniteSubsetsOfFinite
<1>3. \E s \in T : \A t \in T : ~(<<t, s>> \in StrictSubsetOrdering(S))
  BY <1>1, <1>2, WFMin
<1> QED BY <1>3 DEF StrictSubsetOrdering

(* The recursion has at most one solution ... *)
LEMMA SumsUnique ==
    ASSUME NEW f, NEW S, IsFiniteSet(S), NEW g, NEW h, Sums(f, S, g), Sums(f, S, h)
    PROVE  g = h
<1> DEFINE T == {s \in SUBSET S : g[s] # h[s]}
<1>1. ASSUME T # {} PROVE FALSE
  <2>0. T \subseteq SUBSET S
    OBVIOUS
  <2>1. PICK s \in T : \A t \in T : t \subseteq s => t = s
    <3> HIDE DEF T
    <3> QED BY <1>1, <2>0, SmallestSubset
  <2>2. g[s] = Step(f, g, s) /\ h[s] = Step(f, h, s)
    BY <2>1 DEF Sums
  <2>3. s # {}
    BY <2>1, <2>2 DEF Step
  <2>4. s \ {Pick(s)} \in SUBSET S /\ s \ {Pick(s)} # s
    BY <2>1, <2>3, PickIn
  <2>5. g[s \ {Pick(s)}] = h[s \ {Pick(s)}]
    BY <2>1, <2>4
  <2> QED BY <2>1, <2>2, <2>5 DEF Step
<1>2. \A s \in SUBSET S : g[s] = h[s]
  BY <1>1
<1>3. g = [s \in SUBSET S |-> g[s]] /\ h = [s \in SUBSET S |-> h[s]]
  BY DEF Sums
<1> QED BY <1>2, <1>3

(* ... which solves it for the subsets too ... *)
LEMMA SumsRestrict ==
    ASSUME NEW f, NEW S, NEW g, Sums(f, S, g), NEW t \in SUBSET S
    PROVE  Sums(f, t, [u \in SUBSET t |-> g[u]])
<1> DEFINE h == [u \in SUBSET t |-> g[u]]
<1>1. \A u \in SUBSET t : g[u] = Step(f, h, u)
  <2> TAKE u \in SUBSET t
  <2>1. g[u] = Step(f, g, u)
    BY DEF Sums
  <2>2. CASE u = {}
    BY <2>1, <2>2 DEF Step
  <2>3. CASE u # {}
    <3>1. u \ {Pick(u)} \in SUBSET t
      OBVIOUS
    <3>2. h[u \ {Pick(u)}] = g[u \ {Pick(u)}]
      BY <3>1
    <3> QED BY <2>1, <2>3, <3>2 DEF Step
  <2> QED BY <2>2, <2>3
<1>2. h = [u \in SUBSET t |-> Step(f, h, u)]
  BY <1>1
<1> HIDE DEF h
<1>3. Sums(f, t, h)
  BY <1>2 DEF Sums
<1> QED BY <1>3 DEF h

(* ... and it has one for every finite set. *)
LEMMA SumsExist ==
    ASSUME NEW f, NEW S, IsFiniteSet(S)
    PROVE  Sums(f, S, Iter(f, S))
<1> DEFINE T == {s \in SUBSET S : ~Sums(f, s, Iter(f, s))}
<1>1. ASSUME T # {} PROVE FALSE
  <2>0. T \subseteq SUBSET S
    OBVIOUS
  <2>1. PICK s \in T : \A t \in T : t \subseteq s => t = s
    <3> HIDE DEF T
    <3> QED BY <1>1, <2>0, SmallestSubset
  <2>2. \A t \in SUBSET s : t # s => Sums(f, t, Iter(f, t))
    BY <2>1
  <2> DEFINE v(t) == Iter(f, t)[t]
             g == [t \in SUBSET s |-> IF t = {} THEN 0 ELSE f[Pick(t)] + v(t \ {Pick(t)})]
  <2>3. ASSUME NEW t \in SUBSET s, t # s
        PROVE  g[t] = v(t)
    <3>1. Sums(f, t, Iter(f, t)) /\ IsFiniteSet(t)
      BY <2>1, <2>2, <2>3, FS_Subset
    <3>2. v(t) = Step(f, Iter(f, t), t)
      BY <3>1 DEF Sums
    <3>3. CASE t = {}
      BY <3>2, <3>3 DEF Step
    <3>4. CASE t # {}
      <4> DEFINE u == t \ {Pick(t)}
      <4>1. u \in SUBSET t /\ u \in SUBSET s /\ u # s
        BY <2>3
      <4>2. Sums(f, u, [x \in SUBSET u |-> Iter(f, t)[x]])
        BY <3>1, <4>1, SumsRestrict
      <4>3. Sums(f, u, Iter(f, u)) /\ IsFiniteSet(u)
        BY <2>2, <3>1, <4>1, FS_Subset
      <4>4. Iter(f, u) = [x \in SUBSET u |-> Iter(f, t)[x]]
        BY <4>2, <4>3, SumsUnique
      <4>5. v(u) = Iter(f, t)[u]
        BY <4>4
      <4> QED BY <3>2, <3>4, <4>5 DEF Step
    <3> QED BY <3>3, <3>4
  <2>4. ASSUME NEW t \in SUBSET s
        PROVE  g[t] = Step(f, g, t)
    <3>1. CASE t = {}
      BY <3>1 DEF Step
    <3>2. CASE t # {}
      <4>1. t \ {Pick(t)} \in SUBSET s /\ t \ {Pick(t)} # s
        BY <3>2, PickIn
      <4>2. g[t \ {Pick(t)}] = v(t \ {Pick(t)})
        BY <2>3, <4>1
      <4> QED BY <3>2, <4>2 DEF Step
    <3> QED BY <3>1, <3>2
  <2> HIDE DEF v
  <2>5. g = [t \in SUBSET s |-> g[t]]
    OBVIOUS
  <2> HIDE DEF g
  <2>6. g = [t \in SUBSET s |-> Step(f, g, t)]
    BY <2>4, <2>5
  <2>7. Sums(f, s, g)
    BY <2>6 DEF Sums
  <2>8. Sums(f, s, Iter(f, s))
    BY <2>7 DEF Iter
  <2> QED BY <2>1, <2>8
<1> QED BY <1>1

-----------------------------------------------------------------------------
(* The sum over no element, and over one element more than the rest. *)
THEOREM SumEmpty ==
    ASSUME NEW f
    PROVE  SumFunctionOnSet(f, {}) = 0
<1>1. Sums(f, {}, Iter(f, {}))
  BY SumsExist, FS_EmptySet
<1>2. Iter(f, {})[{}] = Step(f, Iter(f, {}), {})
  BY <1>1 DEF Sums
<1> QED BY <1>2, SumIsIter DEF Step

LEMMA SumPick ==
    ASSUME NEW f, NEW S, IsFiniteSet(S), S # {}
    PROVE  SumFunctionOnSet(f, S) = f[Pick(S)] + SumFunctionOnSet(f, S \ {Pick(S)})
<1> DEFINE u == S \ {Pick(S)}
<1>1. Sums(f, S, Iter(f, S)) /\ Sums(f, u, Iter(f, u)) /\ IsFiniteSet(u)
  BY SumsExist, FS_Subset
<1>2. Sums(f, u, [x \in SUBSET u |-> Iter(f, S)[x]])
  BY <1>1, SumsRestrict
<1>3. Iter(f, u) = [x \in SUBSET u |-> Iter(f, S)[x]]
  BY <1>1, <1>2, SumsUnique
<1>4. Iter(f, u)[u] = Iter(f, S)[u]
  BY <1>3
<1>5. Iter(f, S)[S] = Step(f, Iter(f, S), S)
  BY <1>1 DEF Sums
<1> QED BY <1>4, <1>5, SumIsIter DEF Step

THEOREM SumType ==
    ASSUME NEW f, NEW S, IsFiniteSet(S), \A x \in S : f[x] \in Int
    PROVE  SumFunctionOnSet(f, S) \in Int
<1> DEFINE T == {s \in SUBSET S : SumFunctionOnSet(f, s) \notin Int}
<1>1. ASSUME T # {} PROVE FALSE
  <2>0. T \subseteq SUBSET S
    OBVIOUS
  <2>1. PICK s \in T : \A t \in T : t \subseteq s => t = s
    <3> HIDE DEF T
    <3> QED BY <1>1, <2>0, SmallestSubset
  <2>2. s # {} /\ IsFiniteSet(s)
    <3>0. SumFunctionOnSet(f, {}) \in Int
      BY SumEmpty
    <3>1. s # {}
      BY <2>1, <3>0
    <3>2. s \in SUBSET S
      BY <2>0, <2>1
    <3> QED BY <3>1, <3>2, FS_Subset
  <2>3. Pick(s) \in S /\ SumFunctionOnSet(f, s \ {Pick(s)}) \in Int
    BY <2>1, <2>2, PickIn
  <2>4. SumFunctionOnSet(f, s) = f[Pick(s)] + SumFunctionOnSet(f, s \ {Pick(s)})
    BY <2>2, SumPick
  <2> QED BY <2>1, <2>3, <2>4
<1> QED BY <1>1

THEOREM SumNat ==
    ASSUME NEW f, NEW S, IsFiniteSet(S), \A x \in S : f[x] \in Nat
    PROVE  SumFunctionOnSet(f, S) \in Nat
<1> DEFINE T == {s \in SUBSET S : SumFunctionOnSet(f, s) \notin Nat}
<1>1. ASSUME T # {} PROVE FALSE
  <2>0. T \subseteq SUBSET S
    OBVIOUS
  <2>1. PICK s \in T : \A t \in T : t \subseteq s => t = s
    <3> HIDE DEF T
    <3> QED BY <1>1, <2>0, SmallestSubset
  <2>2. s # {} /\ IsFiniteSet(s)
    <3>0. SumFunctionOnSet(f, {}) \in Nat
      BY SumEmpty
    <3>1. s # {}
      BY <2>1, <3>0
    <3>2. s \in SUBSET S
      BY <2>0, <2>1
    <3> QED BY <3>1, <3>2, FS_Subset
  <2>3. Pick(s) \in S /\ SumFunctionOnSet(f, s \ {Pick(s)}) \in Nat
    BY <2>1, <2>2, PickIn
  <2>4. SumFunctionOnSet(f, s) = f[Pick(s)] + SumFunctionOnSet(f, s \ {Pick(s)})
    BY <2>2, SumPick
  <2> QED BY <2>1, <2>3, <2>4
<1> QED BY <1>1

(* The order of addition does not matter: any element may be taken out. *)
THEOREM SumRemove ==
    ASSUME NEW f, NEW S, IsFiniteSet(S), \A y \in S : f[y] \in Int, NEW x \in S
    PROVE  SumFunctionOnSet(f, S) = f[x] + SumFunctionOnSet(f, S \ {x})
<1> DEFINE F(s) == SumFunctionOnSet(f, s)
           T == {s \in SUBSET S : \E y \in s : F(s) # f[y] + F(s \ {y})}
<1>0. \A s \in SUBSET S : IsFiniteSet(s) /\ F(s) \in Int
  BY FS_Subset, SumType
<1>1. ASSUME T # {} PROVE FALSE
  <2>0. T \subseteq SUBSET S
    OBVIOUS
  <2>1. PICK s \in T : \A t \in T : t \subseteq s => t = s
    <3> HIDE DEF T
    <3> QED BY <1>1, <2>0, SmallestSubset
  <2>2. PICK y \in s : F(s) # f[y] + F(s \ {y})
    BY <2>1
  <2>i. \A t \in SUBSET S : t \subseteq s /\ t # s => \A z \in t : F(t) = f[z] + F(t \ {z})
    BY <2>1
  <2> DEFINE p == Pick(s)
             r == (s \ {p}) \ {y}
  <2>3. p \in s /\ F(s) = f[p] + F(s \ {p})
    BY <1>0, <2>1, <2>2, PickIn, SumPick
  <2>4. p # y
    BY <2>2, <2>3
  <2> HIDE DEF p
  <2>5. y \in s \ {p} /\ p \in s \ {y} /\ s \ {p} \in SUBSET S /\ s \ {y} \in SUBSET S
    BY <2>1, <2>2, <2>3, <2>4
  <2>6. F(s \ {p}) = f[y] + F((s \ {p}) \ {y})
    BY <2>i, <2>3, <2>5
  <2>7. F(s \ {y}) = f[p] + F((s \ {y}) \ {p})
    BY <2>i, <2>2, <2>5
  <2>8. r = (s \ {p}) \ {y} /\ r = (s \ {y}) \ {p}
    OBVIOUS
  <2>9. F(r) \in Int /\ f[p] \in Int /\ f[y] \in Int
    BY <1>0, <2>0, <2>1, <2>2, <2>3
  <2> HIDE DEF r, F, T
  <2>10. F(s \ {p}) = f[y] + F(r) /\ F(s \ {y}) = f[p] + F(r)
    BY <2>6, <2>7, <2>8
  <2>11. F(s) = f[p] + (f[y] + F(r)) /\ F(s) # f[y] + (f[p] + F(r))
    BY <2>2, <2>3, <2>10
  <2> QED BY <2>9, <2>11
<1> QED BY <1>1

THEOREM SumAdd ==
    ASSUME NEW f, NEW S, IsFiniteSet(S), NEW x, x \notin S,
           \A y \in S \cup {x} : f[y] \in Int
    PROVE  SumFunctionOnSet(f, S \cup {x}) = f[x] + SumFunctionOnSet(f, S)
<1>1. IsFiniteSet(S \cup {x}) /\ (S \cup {x}) \ {x} = S
  BY FS_AddElement
<1> QED BY <1>1, SumRemove

(* The sum depends on the values at the elements alone. *)
THEOREM SumSame ==
    ASSUME NEW S, IsFiniteSet(S), NEW f, NEW g, \A x \in S : f[x] = g[x]
    PROVE  SumFunctionOnSet(f, S) = SumFunctionOnSet(g, S)
<1> DEFINE T == {s \in SUBSET S : SumFunctionOnSet(f, s) # SumFunctionOnSet(g, s)}
<1>1. ASSUME T # {} PROVE FALSE
  <2>0. T \subseteq SUBSET S
    OBVIOUS
  <2>1. PICK s \in T : \A t \in T : t \subseteq s => t = s
    <3> HIDE DEF T
    <3> QED BY <1>1, <2>0, SmallestSubset
  <2>2. s # {} /\ IsFiniteSet(s)
    <3>1. s # {}
      BY <2>1, SumEmpty
    <3>2. s \in SUBSET S
      BY <2>0, <2>1
    <3> QED BY <3>1, <3>2, FS_Subset
  <2>3. /\ Pick(s) \in s
        /\ SumFunctionOnSet(f, s \ {Pick(s)}) = SumFunctionOnSet(g, s \ {Pick(s)})
    BY <2>1, <2>2, PickIn
  <2>4. /\ SumFunctionOnSet(f, s) = f[Pick(s)] + SumFunctionOnSet(f, s \ {Pick(s)})
        /\ SumFunctionOnSet(g, s) = g[Pick(s)] + SumFunctionOnSet(g, s \ {Pick(s)})
    BY <2>2, SumPick
  <2> QED BY <2>1, <2>3, <2>4
<1> QED BY <1>1

(* Changing the value at one element. *)
THEOREM SumChange ==
    ASSUME NEW S, IsFiniteSet(S), NEW f, NEW g, NEW x \in S,
           \A y \in S : f[y] \in Int /\ g[y] \in Int, \A y \in S \ {x} : f[y] = g[y]
    PROVE  SumFunctionOnSet(g, S) = SumFunctionOnSet(f, S) + g[x] - f[x]
<1>1. IsFiniteSet(S \ {x})
  BY FS_Subset
<1>2. /\ SumFunctionOnSet(f, S) = f[x] + SumFunctionOnSet(f, S \ {x})
      /\ SumFunctionOnSet(g, S) = g[x] + SumFunctionOnSet(g, S \ {x})
  BY SumRemove
<1>3. SumFunctionOnSet(f, S \ {x}) = SumFunctionOnSet(g, S \ {x})
  BY <1>1, SumSame
<1>4. SumFunctionOnSet(f, S \ {x}) \in Int
  BY <1>1, SumType
<1> QED BY <1>2, <1>3, <1>4

THEOREM SumShift ==
    ASSUME NEW S, IsFiniteSet(S), NEW f, NEW g, NEW x \in S, NEW a \in Int,
           \A z \in S : f[z] \in Int, g[x] = f[x] + a, \A z \in S \ {x} : g[z] = f[z]
    PROVE  SumFunctionOnSet(g, S) = SumFunctionOnSet(f, S) + a
<1>1. \A z \in S : f[z] \in Int /\ g[z] \in Int
  OBVIOUS
<1>2. SumFunctionOnSet(g, S) = SumFunctionOnSet(f, S) + g[x] - f[x]
  BY <1>1, SumChange
<1>3. SumFunctionOnSet(f, S) \in Int
  BY SumType
<1> QED BY <1>1, <1>2, <1>3

(* Moving: x gives a and y takes b, where x may be y. *)
THEOREM SumMove ==
    ASSUME NEW S, IsFiniteSet(S), NEW f, NEW g, NEW x \in S, NEW y \in S,
           NEW a \in Int, NEW b \in Int, \A z \in S : f[z] \in Int,
           \A z \in S : g[z] = f[z] - (IF z = x THEN a ELSE 0) + (IF z = y THEN b ELSE 0)
    PROVE  SumFunctionOnSet(g, S) = SumFunctionOnSet(f, S) - a + b
<1>1. PICK h : h = [z \in S |-> f[z] - (IF z = x THEN a ELSE 0)]
  OBVIOUS
<1>0. PICK m \in Int : m = 0 - a
  OBVIOUS
<1>2. /\ \A z \in S : h[z] \in Int
      /\ h[x] = f[x] + m /\ \A z \in S \ {x} : h[z] = f[z]
      /\ g[y] = h[y] + b /\ \A z \in S \ {y} : g[z] = h[z]
  BY <1>0, <1>1
<1>3. SumFunctionOnSet(h, S) = SumFunctionOnSet(f, S) + m
  BY <1>2, SumShift
<1>4. SumFunctionOnSet(g, S) = SumFunctionOnSet(h, S) + b
  BY <1>2, SumShift
<1>5. SumFunctionOnSet(f, S) \in Int
  BY SumType
<1> QED BY <1>0, <1>3, <1>4, <1>5

(* Nothing adds up to nothing. *)
THEOREM SumZero ==
    ASSUME NEW S, IsFiniteSet(S), NEW f, \A x \in S : f[x] = 0
    PROVE  SumFunctionOnSet(f, S) = 0
<1> DEFINE T == {s \in SUBSET S : SumFunctionOnSet(f, s) # 0}
<1>1. ASSUME T # {} PROVE FALSE
  <2>0. T \subseteq SUBSET S
    OBVIOUS
  <2>1. PICK s \in T : \A t \in T : t \subseteq s => t = s
    <3> HIDE DEF T
    <3> QED BY <1>1, <2>0, SmallestSubset
  <2>2. s # {} /\ IsFiniteSet(s)
    <3>1. s # {}
      BY <2>1, SumEmpty
    <3>2. s \in SUBSET S
      BY <2>0, <2>1
    <3> QED BY <3>1, <3>2, FS_Subset
  <2>3. f[Pick(s)] = 0 /\ SumFunctionOnSet(f, s \ {Pick(s)}) = 0
    BY <2>1, <2>2, PickIn
  <2>4. SumFunctionOnSet(f, s) = f[Pick(s)] + SumFunctionOnSet(f, s \ {Pick(s)})
    BY <2>2, SumPick
  <2> QED BY <2>1, <2>3, <2>4
<1> QED BY <1>1
=============================================================================

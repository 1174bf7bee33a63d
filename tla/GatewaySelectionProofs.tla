----------------------- MODULE GatewaySelectionProofs -----------------------
(***************************************************************************)
(* The theorems of WeightedScheduler: its map holds integers, the rounds   *)
(* of a scope share its turns by the weights, nobody's credit or debt      *)
(* grows beyond a bound, nobody waits beyond one; and that the gateway,    *)
(* where it is asked inside the session table, implements both: the        *)
(* scheduler, because nothing else touches its accounts, and the table,    *)
(* because the scheduler's order names each candidate once.                *)
(*                                                                         *)
(* Shares.  Take a scope that always finds the candidates C, each with     *)
(* one weight only, T together, in whose round n turns have been taken,    *)
(* b[p] of them by p.  Its accounts follow from the turns alone:           *)
(*                                                                         *)
(*     current[p] = n * weight[p] - b[p] * T                               *)
(*                                                                         *)
(* and at the end of a round, where b[p] = weight[p] and n = T, they are   *)
(* zero again, as at its beginning.  When the next turn is taken each has  *)
(* gained its weight, and sums up to T: so one of them, and the first all  *)
(* the more, has more than nothing, (n + 1) * weight[p] > b[p] * T.  With  *)
(* n + 1 <= T that gives b[p] < weight[p]: the turn is within the share.   *)
(* The selections of the other scopes, and the providers removed, created  *)
(* and weighed, touch none of these accounts.                              *)
(*                                                                         *)
(* Bounds.  Where the candidates change from request to request no         *)
(* account is bounded by itself, for whoever is first pays to the others.  *)
(* What is bounded is what any k of the n providers have together, or      *)
(* owe:                                                                    *)
(*                                                                         *)
(*     T * k * (2 * n - 1 - k) / 2                                         *)
(*                                                                         *)
(* T being the most that all can weigh.  A turn in which q pays gives      *)
(* nothing to a set with q in it, and takes nothing from one without.  A   *)
(* set S without q gains by its candidates, m of them, but none of these   *)
(* has more than q had, and S together with q has no more than before: as  *)
(* the room of k, m + 1 times, is more than m times that of k + 1 and      *)
(* once that of k - m, S is within it.  The debt of a set with q is        *)
(* bounded likewise, by those of it without q and of it with all other     *)
(* candidates.  A provider that is removed makes a set one smaller, which  *)
(* has less room.                                                          *)
(*                                                                         *)
(* Waiting.  While a candidate is passed over it gains what was read of    *)
(* its weight, on the way from its deepest debt to its highest credit.     *)
(* Only the requests that had read a lower weight when it was changed      *)
(* give less, and each of them once.                                       *)
(*                                                                         *)
(* The sums are folds over sets of any size.  The library's induction      *)
(* theorems take an operator, but its well-founded orders have a minimal   *)
(* element theorem that takes a set: what does not hold of every subset    *)
(* of a finite set fails for a smallest one.                               *)
(***************************************************************************)
EXTENDS GatewaySelection, FiniteSetTheorems, WellFoundedInduction, TLAPS

-----------------------------------------------------------------------------
(* Finite sets and sums over them. *)

\* Of some subsets of a finite set there is one that none of the others is a part of.
LEMMA SmallestSet ==
    ASSUME NEW S, IsFiniteSet(S), NEW T, T \subseteq SUBSET S, T # {}
    PROVE  \E x \in T : \A y \in T : y \subseteq x => y = x
<1>1. IsWellFoundedOn(StrictSubsetOrdering(S), SUBSET S)
  BY FS_StrictSubsetOrderingWellFounded, FS_FiniteSubsetsOfFinite
<1>2. PICK x \in T : \A y \in T : ~(<<y, x>> \in StrictSubsetOrdering(S))
  BY <1>1, WFMin
<1> QED BY <1>2 DEF StrictSubsetOrdering

\* Induction over the subsets of a finite set: what holds of a set as soon as it holds
\* of all smaller ones holds of every one.
LEMMA SetInduction ==
    ASSUME NEW S, IsFiniteSet(S), NEW Good,
           \A T \in SUBSET S : (\A U \in SUBSET T : U # T => U \in Good) => T \in Good
    PROVE  S \in Good /\ SUBSET S \subseteq Good
<1> DEFINE Bad == (SUBSET S) \ Good
<1>1. ASSUME Bad # {} PROVE FALSE
  <2>1. Bad \subseteq SUBSET S
    OBVIOUS
  <2> HIDE DEF Bad
  <2>2. PICK T \in Bad : \A U \in Bad : U \subseteq T => U = T
    BY <1>1, <2>1, SmallestSet
  <2>3. T \in SUBSET S /\ \A U \in SUBSET T : U # T => U \notin Bad
    BY <2>1, <2>2
  <2>4. \A U \in SUBSET T : U # T => U \in Good
    BY <2>3 DEF Bad
  <2>5. T \in Good
    BY <2>3, <2>4
  <2> QED BY <2>2, <2>5 DEF Bad
<1> QED BY <1>1, S \in SUBSET S

\* The element that a fold takes next, and what it makes of the subsets of S.
Chosen(s) == CHOOSE x \in s : TRUE
SumsOf(f, S, g) ==
    g = [s \in SUBSET S |-> IF s = {} THEN 0 ELSE f[Chosen(s)] + g[s \ {Chosen(s)}]]

\* The library's sum is what a function with these sums gives.
LEMMA SumUnfolded ==
    ASSUME NEW f, NEW S
    PROVE  SumFunctionOnSet(f, S) = (CHOOSE g : SumsOf(f, S, g))[S]
  BY DEF SumFunctionOnSet, FoldFunctionOnSet, MapThenFoldSet, SumsOf, Chosen

\* The chosen element of a set is one of its elements.
LEMMA ChosenIn == ASSUME NEW s, s # {} PROVE Chosen(s) \in s
  BY DEF Chosen

\* What has these sums is the same on all subsets of both sets.
LEMMA SumsUnique ==
    ASSUME NEW f, NEW S, NEW T, IsFiniteSet(S), NEW g, NEW h,
           SumsOf(f, S, g), SumsOf(f, T, h), NEW s, s \subseteq S, s \subseteq T
    PROVE  g[s] = h[s]
<1> DEFINE Good == {u \in SUBSET S : u \subseteq T => g[u] = h[u]}
<1>1. ASSUME NEW u \in SUBSET S, \A v \in SUBSET u : v # u => v \in Good, u \subseteq T
      PROVE  g[u] = h[u]
  <2>1. CASE u = {}
    BY <1>1, <2>1 DEF SumsOf
  <2>2. CASE u # {}
    <3>1. Chosen(u) \in u
      BY <2>2, ChosenIn
    <3>2. g[u \ {Chosen(u)}] = h[u \ {Chosen(u)}]
      BY <1>1, <3>1
    <3>3. g[u] = f[Chosen(u)] + g[u \ {Chosen(u)}] /\ h[u] = f[Chosen(u)] + h[u \ {Chosen(u)}]
      BY <1>1, <2>2 DEF SumsOf
    <3> QED BY <3>2, <3>3
  <2> QED BY <2>1, <2>2
<1>2. \A u \in SUBSET S : (\A v \in SUBSET u : v # u => v \in Good) => u \in Good
  BY <1>1
<1> HIDE DEF Good
<1>3. SUBSET S \subseteq Good
  BY <1>2, SetInduction
<1> QED BY <1>3 DEF Good

\* There is a function that has them.
LEMMA SumsExist ==
    ASSUME NEW f, NEW S, IsFiniteSet(S)
    PROVE  \E g : SumsOf(f, S, g)
<1> DEFINE Good == {u \in SUBSET S : \E g : SumsOf(f, u, g)}
           G(u) == CHOOSE g : SumsOf(f, u, g)
           Rest(u) == u \ {Chosen(u)}
<1>1. ASSUME NEW T \in SUBSET S, \A u \in SUBSET T : u # T => u \in Good
      PROVE  T \in Good
  <2> DEFINE h == [u \in SUBSET T |->
                      IF u = {} THEN 0 ELSE f[Chosen(u)] + G(Rest(u))[Rest(u)]]
  <2>1. \A u \in SUBSET T : u # T => SumsOf(f, u, G(u))
    BY <1>1
  <2>2. \A u \in SUBSET T : IsFiniteSet(u)
    BY FS_Subset
  <2>3. \A u \in SUBSET T :
            u # {} => Rest(u) \in SUBSET T /\ Rest(u) # T /\ Rest(u) \subseteq u
    BY ChosenIn
  <2> HIDE DEF Good, G
  <2>4. ASSUME NEW v \in SUBSET T, v # T
        PROVE  h[v] = G(v)[v]
    <3>1. SumsOf(f, v, G(v))
      BY <2>1, <2>4
    <3>2. CASE v = {}
      BY <3>1, <3>2 DEF SumsOf
    <3>3. CASE v # {}
      <4>1. G(v)[v] = f[Chosen(v)] + G(v)[Rest(v)]
        BY <3>1, <3>3 DEF SumsOf
      <4>2. SumsOf(f, Rest(v), G(Rest(v))) /\ Rest(v) \subseteq v
        BY <2>1, <2>3, <3>3
      <4>3. G(v)[Rest(v)] = G(Rest(v))[Rest(v)]
        BY <2>2, <3>1, <4>2, SumsUnique
      <4> QED BY <3>3, <4>1, <4>3
    <3> QED BY <3>2, <3>3
  <2>5. ASSUME NEW u \in SUBSET T, u # {}
        PROVE  h[u] = f[Chosen(u)] + h[Rest(u)]
    <3>1. h[u] = f[Chosen(u)] + G(Rest(u))[Rest(u)]
      BY <2>5
    <3>2. h[Rest(u)] = G(Rest(u))[Rest(u)]
      BY <2>3, <2>4, <2>5
    <3> QED BY <3>1, <3>2
  <2>6. h[{}] = 0
    OBVIOUS
  <2>7. h = [u \in SUBSET T |-> IF u = {} THEN 0 ELSE f[Chosen(u)] + h[Rest(u)]]
    BY <2>5, <2>6
  <2>8. SumsOf(f, T, h)
    BY <2>7 DEF SumsOf
  <2> QED BY <2>8 DEF Good
<1> HIDE DEF Good, G
<1>2. S \in Good
  BY <1>1, SetInduction
<1> QED BY <1>2 DEF Good

\* The sum over a finite set, with one element at a time.
LEMMA SumStep ==
    ASSUME NEW f, NEW S, IsFiniteSet(S)
    PROVE  /\ SumFunctionOnSet(f, {}) = 0
           /\ S # {} => SumFunctionOnSet(f, S) =
                f[Chosen(S)] + SumFunctionOnSet(f, S \ {Chosen(S)})
<1> DEFINE G(u) == CHOOSE g : SumsOf(f, u, g)
           R == S \ {Chosen(S)}
<1>1. \A u \in SUBSET S : SumsOf(f, u, G(u)) /\ SumFunctionOnSet(f, u) = G(u)[u]
  <2> TAKE u \in SUBSET S
  <2>1. IsFiniteSet(u)
    BY FS_Subset
  <2>2. \E g : SumsOf(f, u, g)
    BY <2>1, SumsExist
  <2> QED BY <2>2, SumUnfolded
<1> HIDE DEF G
<1>2. SumFunctionOnSet(f, {}) = 0
  <2>1. SumsOf(f, {}, G({})) /\ SumFunctionOnSet(f, {}) = G({})[{}]
    BY <1>1
  <2> QED BY <2>1 DEF SumsOf
<1>3. ASSUME S # {}
      PROVE  SumFunctionOnSet(f, S) = f[Chosen(S)] + SumFunctionOnSet(f, R)
  <2>1. G(S)[S] = f[Chosen(S)] + G(S)[R]
    BY <1>1, <1>3 DEF SumsOf
  <2>2. G(S)[R] = G(R)[R]
    BY <1>1, SumsUnique
  <2> QED BY <1>1, <2>1, <2>2
<1> QED BY <1>2, <1>3

\* Integers make an integer sum.
LEMMA SumTyped ==
    ASSUME NEW f, NEW S, IsFiniteSet(S), \A x \in S : f[x] \in Int
    PROVE  SumFunctionOnSet(f, S) \in Int
<1> DEFINE Good == {u \in SUBSET S : SumFunctionOnSet(f, u) \in Int}
<1>1. ASSUME NEW u \in SUBSET S, \A v \in SUBSET u : v # u => v \in Good
      PROVE  SumFunctionOnSet(f, u) \in Int
  <2>1. IsFiniteSet(u)
    BY FS_Subset
  <2>2. CASE u = {}
    BY <2>1, <2>2, SumStep
  <2>3. CASE u # {}
    <3>1. Chosen(u) \in u /\ f[Chosen(u)] \in Int
      BY <2>3, ChosenIn
    <3>2. SumFunctionOnSet(f, u \ {Chosen(u)}) \in Int
      BY <1>1, <3>1
    <3>3. SumFunctionOnSet(f, u) = f[Chosen(u)] + SumFunctionOnSet(f, u \ {Chosen(u)})
      BY <2>1, <2>3, SumStep
    <3> QED BY <3>1, <3>2, <3>3
  <2> QED BY <2>2, <2>3
<1>2. \A u \in SUBSET S : (\A v \in SUBSET u : v # u => v \in Good) => u \in Good
  BY <1>1
<1> HIDE DEF Good
<1>3. S \in Good
  BY <1>2, SetInduction
<1> QED BY <1>3 DEF Good

\* Any element may be the one that is taken.
LEMMA SumRemove ==
    ASSUME NEW f, NEW S, IsFiniteSet(S), \A y \in S : f[y] \in Int, NEW x \in S
    PROVE  SumFunctionOnSet(f, S) = f[x] + SumFunctionOnSet(f, S \ {x})
<1> DEFINE Good == {u \in SUBSET S : \A z \in u :
                SumFunctionOnSet(f, u) = f[z] + SumFunctionOnSet(f, u \ {z})}
<1>1. ASSUME NEW u \in SUBSET S, \A v \in SUBSET u : v # u => v \in Good, NEW z \in u
      PROVE  SumFunctionOnSet(f, u) = f[z] + SumFunctionOnSet(f, u \ {z})
  <2> DEFINE c == Chosen(u)
  <2>1. IsFiniteSet(u)
    BY FS_Subset
  <2>2. c \in u /\ SumFunctionOnSet(f, u) = f[c] + SumFunctionOnSet(f, u \ {c})
    BY <2>1, SumStep, ChosenIn
  <2> HIDE DEF c
  <2>3. CASE c = z
    BY <2>2, <2>3
  <2>4. CASE c # z
    <3>1. u \ {c} \in Good /\ u \ {z} \in Good
      BY <1>1, <2>2
    <3>2. SumFunctionOnSet(f, u \ {c}) = f[z] + SumFunctionOnSet(f, (u \ {c}) \ {z})
      BY <2>4, <3>1
    <3>3. SumFunctionOnSet(f, u \ {z}) = f[c] + SumFunctionOnSet(f, (u \ {z}) \ {c})
      BY <2>2, <2>4, <3>1
    <3>4. (u \ {c}) \ {z} = (u \ {z}) \ {c}
      OBVIOUS
    <3>5. IsFiniteSet((u \ {c}) \ {z}) /\ \A y \in (u \ {c}) \ {z} : f[y] \in Int
      BY FS_Subset, (u \ {c}) \ {z} \in SUBSET S
    <3>6. f[c] \in Int /\ f[z] \in Int /\ SumFunctionOnSet(f, (u \ {c}) \ {z}) \in Int
      BY <2>2, <3>5, SumTyped
    <3> DEFINE n == SumFunctionOnSet(f, (u \ {c}) \ {z})
    <3>7. f[c] + (f[z] + n) = f[z] + (f[c] + n)
      BY <3>6
    <3> QED BY <2>2, <3>2, <3>3, <3>4, <3>7
  <2> QED BY <2>3, <2>4
<1>2. \A u \in SUBSET S : (\A v \in SUBSET u : v # u => v \in Good) => u \in Good
  BY <1>1
<1> HIDE DEF Good
<1>3. S \in Good
  BY <1>2, SetInduction
<1> QED BY <1>3 DEF Good

\* Larger elements make a larger sum.
LEMMA SumMonotone ==
    ASSUME NEW S, IsFiniteSet(S), NEW f, NEW g,
           \A x \in S : f[x] \in Int /\ g[x] \in Int /\ f[x] <= g[x]
    PROVE  SumFunctionOnSet(f, S) <= SumFunctionOnSet(g, S)
<1> DEFINE Good == {u \in SUBSET S : SumFunctionOnSet(f, u) <= SumFunctionOnSet(g, u)}
<1>1. ASSUME NEW u \in SUBSET S, \A v \in SUBSET u : v # u => v \in Good
      PROVE  SumFunctionOnSet(f, u) <= SumFunctionOnSet(g, u)
  <2>1. IsFiniteSet(u)
    BY FS_Subset
  <2>2. CASE u = {}
    <3>1. SumFunctionOnSet(f, {}) = 0 /\ SumFunctionOnSet(g, {}) = 0
      BY <2>1, SumStep
    <3> QED BY <2>2, <3>1
  <2>3. CASE u # {}
    <3>1. PICK x \in u : TRUE
      BY <2>3
    <3> DEFINE v == u \ {x}
    <3>2. v \in Good /\ IsFiniteSet(v)
      BY <1>1, <2>1, FS_Subset
    <3>3. /\ SumFunctionOnSet(f, u) = f[x] + SumFunctionOnSet(f, v)
          /\ SumFunctionOnSet(g, u) = g[x] + SumFunctionOnSet(g, v)
      BY <2>1, SumRemove
    <3>4. SumFunctionOnSet(f, v) \in Int /\ SumFunctionOnSet(g, v) \in Int
      BY <3>2, SumTyped
    <3>5. f[x] \in Int /\ g[x] \in Int /\ f[x] <= g[x]
      BY <3>1
    <3> QED BY <3>2, <3>3, <3>4, <3>5
  <2> QED BY <2>2, <2>3
<1>2. \A u \in SUBSET S : (\A v \in SUBSET u : v # u => v \in Good) => u \in Good
  BY <1>1
<1> HIDE DEF Good
<1>3. S \in Good
  BY <1>2, SetInduction
<1> QED BY <1>3 DEF Good

\* The same elements make the same sum.
LEMMA SumSame ==
    ASSUME NEW S, IsFiniteSet(S), NEW f, NEW g,
           \A x \in S : f[x] \in Int /\ g[x] = f[x]
    PROVE  SumFunctionOnSet(f, S) = SumFunctionOnSet(g, S)
<1>1. /\ SumFunctionOnSet(f, S) <= SumFunctionOnSet(g, S)
      /\ SumFunctionOnSet(g, S) <= SumFunctionOnSet(f, S)
  BY SumMonotone
<1>2. SumFunctionOnSet(f, S) \in Int /\ SumFunctionOnSet(g, S) \in Int
  BY SumTyped
<1> QED BY <1>1, <1>2

\* Each element of f is at most that of g, and each is the same.
Below(f, g, S) == \A y \in S : f[y] \in Int /\ g[y] \in Int /\ f[y] <= g[y]
Agree(f, g, S) == \A y \in S : f[y] = g[y]

\* Larger elements make the same sum only if they are the same.
LEMMA SumTight ==
    ASSUME NEW S, IsFiniteSet(S), NEW f, NEW g, Below(f, g, S),
           SumFunctionOnSet(g, S) <= SumFunctionOnSet(f, S)
    PROVE  Agree(f, g, S)
<1> USE DEF Below
<1> SUFFICES ASSUME NEW x \in S PROVE f[x] = g[x]
  BY DEF Agree
<1>1. /\ SumFunctionOnSet(f, S) = f[x] + SumFunctionOnSet(f, S \ {x})
      /\ SumFunctionOnSet(g, S) = g[x] + SumFunctionOnSet(g, S \ {x})
  BY SumRemove
<1>2. IsFiniteSet(S \ {x})
  BY FS_Subset
<1>3. /\ SumFunctionOnSet(f, S \ {x}) <= SumFunctionOnSet(g, S \ {x})
      /\ SumFunctionOnSet(f, S \ {x}) \in Int /\ SumFunctionOnSet(g, S \ {x}) \in Int
  BY <1>2, SumMonotone, SumTyped
<1> QED BY <1>1, <1>3

\* Each element of g is n times that of f.
Multiple(g, n, f, S) == \A y \in S : f[y] \in Int /\ g[y] = n * f[y]

\* The sum of a multiple is the multiple of the sum.
LEMMA SumScaled ==
    ASSUME NEW S, IsFiniteSet(S), NEW f, NEW g, NEW n \in Int, Multiple(g, n, f, S)
    PROVE  SumFunctionOnSet(g, S) = n * SumFunctionOnSet(f, S)
<1> USE DEF Multiple
<1> DEFINE Good == {u \in SUBSET S : SumFunctionOnSet(g, u) = n * SumFunctionOnSet(f, u)}
<1>1. ASSUME NEW u \in SUBSET S, \A v \in SUBSET u : v # u => v \in Good
      PROVE  SumFunctionOnSet(g, u) = n * SumFunctionOnSet(f, u)
  <2>1. IsFiniteSet(u)
    BY FS_Subset
  <2>2. CASE u = {}
    <3>1. SumFunctionOnSet(f, {}) = 0 /\ SumFunctionOnSet(g, {}) = 0
      BY <2>1, SumStep
    <3> QED BY <2>2, <3>1
  <2>3. CASE u # {}
    <3>1. PICK x \in u : TRUE
      BY <2>3
    <3> DEFINE v == u \ {x}
    <3>2. SumFunctionOnSet(g, v) = n * SumFunctionOnSet(f, v) /\ IsFiniteSet(v)
      BY <1>1, <2>1, FS_Subset
    <3>3. \A y \in u : f[y] \in Int /\ g[y] \in Int
      OBVIOUS
    <3>4. /\ SumFunctionOnSet(f, u) = f[x] + SumFunctionOnSet(f, v)
          /\ SumFunctionOnSet(g, u) = g[x] + SumFunctionOnSet(g, v)
      BY <2>1, <3>3, SumRemove
    <3>5. SumFunctionOnSet(f, v) \in Int
      BY <3>2, SumTyped
    <3>6. f[x] \in Int /\ g[x] = n * f[x]
      BY <3>1
    <3>7. \A a, b \in Int : n * (a + b) = n * a + n * b
      OBVIOUS
    <3> HIDE DEF v
    <3> QED BY <3>2, <3>4, <3>5, <3>6, <3>7
  <2> QED BY <2>2, <2>3
<1>2. \A u \in SUBSET S : (\A v \in SUBSET u : v # u => v \in Good) => u \in Good
  BY <1>1
<1> HIDE DEF Good
<1>3. S \in Good
  BY <1>2, SetInduction
<1> QED BY <1>3 DEF Good

\* Natural numbers make a natural sum.
LEMMA SumNatural ==
    ASSUME NEW S, IsFiniteSet(S), NEW f, \A x \in S : f[x] \in Nat
    PROVE  SumFunctionOnSet(f, S) \in Nat
<1> DEFINE none == [x \in S |-> 0]
<1>1. \A x \in S : none[x] \in Int /\ none[x] = 0 * none[x]
  OBVIOUS
<1>2. \A x \in S : none[x] \in Int /\ f[x] \in Int /\ none[x] <= f[x]
  OBVIOUS
<1> HIDE DEF none
<1>3. SumFunctionOnSet(none, S) = 0 * SumFunctionOnSet(none, S)
  <2>1. Multiple(none, 0, none, S)
    BY <1>1 DEF Multiple
  <2> QED BY <2>1, SumScaled, 0 \in Int
<1>4. SumFunctionOnSet(none, S) \in Int
  BY <1>1, SumTyped
<1>5. SumFunctionOnSet(none, S) <= SumFunctionOnSet(f, S)
  BY <1>2, SumMonotone
<1>6. SumFunctionOnSet(f, S) \in Int
  BY <1>2, SumTyped
<1> QED BY <1>3, <1>4, <1>5, <1>6

\* One element is more by one.
LEMMA SumBumped ==
    ASSUME NEW S, IsFiniteSet(S), NEW f, NEW g, NEW x \in S,
           \A y \in S : f[y] \in Int /\ g[y] = f[y] + IF y = x THEN 1 ELSE 0
    PROVE  SumFunctionOnSet(g, S) = SumFunctionOnSet(f, S) + 1
<1>1. IsFiniteSet(S \ {x})
  BY FS_Subset
<1>2. SumFunctionOnSet(f, S \ {x}) = SumFunctionOnSet(g, S \ {x})
  BY <1>1, SumSame
<1>3. \A y \in S : g[y] \in Int
  OBVIOUS
<1>4. /\ SumFunctionOnSet(f, S) = f[x] + SumFunctionOnSet(f, S \ {x})
      /\ SumFunctionOnSet(g, S) = g[x] + SumFunctionOnSet(g, S \ {x})
  BY <1>3, SumRemove
<1>5. SumFunctionOnSet(f, S \ {x}) \in Int
  BY <1>1, SumTyped
<1> QED BY <1>2, <1>4, <1>5

\* What t has at the keys of P in scope s is f for those in C and zero for the others.
SpreadOver(t, P, s, f, C) ==
    /\ \A p \in P : t[<<p, s>>] \in Int
    /\ \A p \in P \ C : t[<<p, s>>] = 0
    /\ \A p \in C : f[p] = t[<<p, s>>]

\* The keys of P in a scope.
ScopedBy(P, s) == P \X {s}

\* The sum over the keys of a scope is the sum over the candidates: the others add
\* nothing to it.
LEMMA SumOfScope ==
    ASSUME NEW P, IsFiniteSet(P), NEW C, C \subseteq P, NEW s, NEW t, NEW f,
           SpreadOver(t, P, s, f, C)
    PROVE  SumFunctionOnSet(t, ScopedBy(P, s)) = SumFunctionOnSet(f, C)
<1> USE DEF SpreadOver, ScopedBy
<1> DEFINE Good == {u \in SUBSET P :
                SumFunctionOnSet(t, u \X {s}) = SumFunctionOnSet(f, u \cap C)}
<1>1. ASSUME NEW u \in SUBSET P, \A v \in SUBSET u : v # u => v \in Good
      PROVE  SumFunctionOnSet(t, u \X {s}) = SumFunctionOnSet(f, u \cap C)
  <2>1. IsFiniteSet(u)
    BY FS_Subset
  <2>2. CASE u = {}
    <3>1. u \X {s} = {} /\ u \cap C = {}
      BY <2>2
    <3> QED BY <2>1, <2>2, <3>1, SumStep
  <2>3. CASE u # {}
    <3>1. PICK x \in u : TRUE
      BY <2>3
    <3> DEFINE v == u \ {x}
    <3>2. v \in Good
      BY <1>1
    <3>3. SumFunctionOnSet(t, v \X {s}) = SumFunctionOnSet(f, v \cap C)
      BY <3>2
    <3>4. /\ IsFiniteSet(u \X {s}) /\ IsFiniteSet({s})
          /\ IsFiniteSet(u \cap C) /\ IsFiniteSet(v \cap C)
      BY <2>1, FS_Product, FS_Singleton, FS_Subset, FS_Intersection
    <3>5. \A k \in u \X {s} : t[k] \in Int
      OBVIOUS
    <3>6. <<x, s>> \in u \X {s} /\ (u \X {s}) \ {<<x, s>>} = v \X {s}
      OBVIOUS
    <3>7. SumFunctionOnSet(t, u \X {s}) = t[<<x, s>>] + SumFunctionOnSet(t, v \X {s})
      BY <3>4, <3>5, <3>6, SumRemove
    <3>8. \A p \in u \cap C : f[p] \in Int
      OBVIOUS
    <3>9. SumFunctionOnSet(f, v \cap C) \in Int
      BY <3>4, <3>8, SumTyped
    <3>10. CASE x \in C
      <4>1. x \in u \cap C /\ (u \cap C) \ {x} = v \cap C
        BY <3>10
      <4>2. SumFunctionOnSet(f, u \cap C) = f[x] + SumFunctionOnSet(f, v \cap C)
        BY <3>4, <3>8, <4>1, SumRemove
      <4> QED BY <3>3, <3>7, <3>10, <4>2
    <3>11. CASE x \notin C
      <4>1. u \cap C = v \cap C /\ t[<<x, s>>] = 0
        BY <3>11
      <4>2. SumFunctionOnSet(f, u \cap C) = SumFunctionOnSet(f, v \cap C)
        BY <4>1
      <4>3. SumFunctionOnSet(t, u \X {s}) = SumFunctionOnSet(t, v \X {s})
        <5>1. SumFunctionOnSet(t, v \X {s}) \in Int
          BY <3>3, <3>9
        <5> QED BY <3>7, <4>1, <5>1
      <4> QED BY <3>3, <4>2, <4>3
    <3> QED BY <3>10, <3>11
  <2> QED BY <2>2, <2>3
<1>2. \A u \in SUBSET P : (\A v \in SUBSET u : v # u => v \in Good) => u \in Good
  BY <1>1
<1> HIDE DEF Good
<1>3. P \in Good
  BY <1>2, SetInduction
<1>4. P \cap C = C
  OBVIOUS
<1> QED BY <1>3, <1>4 DEF Good

\* The sum over a set is that over a part of it and that over the others.
LEMMA SumSplit ==
    ASSUME NEW S, IsFiniteSet(S), NEW f, \A y \in S : f[y] \in Int, NEW R, R \subseteq S
    PROVE  SumFunctionOnSet(f, S) = SumFunctionOnSet(f, R) + SumFunctionOnSet(f, S \ R)
<1> DEFINE Good == {u \in SUBSET S : SumFunctionOnSet(f, S)
                        = SumFunctionOnSet(f, u) + SumFunctionOnSet(f, S \ u)}
<1>0. \A u \in SUBSET S : IsFiniteSet(u) /\ SumFunctionOnSet(f, u) \in Int
  <2> TAKE u \in SUBSET S
  <2>1. IsFiniteSet(u) /\ \A y \in u : f[y] \in Int
    BY FS_Subset
  <2> QED BY <2>1, SumTyped
<1>1. ASSUME NEW u \in SUBSET S, \A v \in SUBSET u : v # u => v \in Good
      PROVE  SumFunctionOnSet(f, S) = SumFunctionOnSet(f, u) + SumFunctionOnSet(f, S \ u)
  <2>1. CASE u = {}
    <3>1. SumFunctionOnSet(f, {}) = 0 /\ S \ {} = S /\ SumFunctionOnSet(f, S) \in Int
      BY <1>0, SumStep
    <3> QED BY <2>1, <3>1
  <2>2. CASE u # {}
    <3>1. PICK x \in u : TRUE
      BY <2>2
    <3>2. PICK v : v = u \ {x}
      OBVIOUS
    <3>3. SumFunctionOnSet(f, S) = SumFunctionOnSet(f, v) + SumFunctionOnSet(f, S \ v)
      BY <1>1, <3>2
    <3>4. x \in S \ v /\ (S \ v) \ {x} = S \ u /\ v \in SUBSET S /\ S \ v \in SUBSET S
      BY <3>2
    <3>5. SumFunctionOnSet(f, u) = f[x] + SumFunctionOnSet(f, v)
      BY <1>0, <3>2, SumRemove
    <3>6. SumFunctionOnSet(f, S \ v) = f[x] + SumFunctionOnSet(f, S \ u)
      BY <1>0, <3>4, SumRemove
    <3>7. /\ f[x] \in Int /\ SumFunctionOnSet(f, v) \in Int
          /\ SumFunctionOnSet(f, S \ u) \in Int
      BY <1>0, <3>4
    <3> QED BY <3>3, <3>5, <3>6, <3>7
  <2> QED BY <2>1, <2>2
<1>2. \A u \in SUBSET S : (\A v \in SUBSET u : v # u => v \in Good) => u \in Good
  BY <1>1
<1> HIDE DEF Good
<1>3. SUBSET S \subseteq Good
  BY <1>2, SetInduction
<1> QED BY <1>3 DEF Good

\* The sum of the sums of two.
LEMMA SumPlus ==
    ASSUME NEW S, IsFiniteSet(S), NEW f, NEW g, NEW h,
           \A y \in S : f[y] \in Int /\ g[y] \in Int /\ h[y] = f[y] + g[y]
    PROVE  SumFunctionOnSet(h, S) = SumFunctionOnSet(f, S) + SumFunctionOnSet(g, S)
<1> DEFINE Good == {u \in SUBSET S : SumFunctionOnSet(h, u)
                        = SumFunctionOnSet(f, u) + SumFunctionOnSet(g, u)}
<1>1. ASSUME NEW u \in SUBSET S, \A v \in SUBSET u : v # u => v \in Good
      PROVE  SumFunctionOnSet(h, u) = SumFunctionOnSet(f, u) + SumFunctionOnSet(g, u)
  <2>0. IsFiniteSet(u)
    BY FS_Subset
  <2>1. CASE u = {}
    <3>1. SumFunctionOnSet(h, {}) = 0 /\ SumFunctionOnSet(f, {}) = 0 /\ SumFunctionOnSet(g, {}) = 0
      BY <2>0, SumStep
    <3> QED BY <2>1, <3>1
  <2>2. CASE u # {}
    <3>1. PICK x \in u : TRUE
      BY <2>2
    <3>2. PICK v : v = u \ {x}
      OBVIOUS
    <3>3. SumFunctionOnSet(h, v) = SumFunctionOnSet(f, v) + SumFunctionOnSet(g, v)
      BY <1>1, <3>2
    <3>4. IsFiniteSet(v) /\ v \subseteq S
      BY <2>0, <3>2, FS_Subset
    <3>5. \A y \in S : h[y] \in Int
      OBVIOUS
    <3>6. /\ SumFunctionOnSet(h, u) = h[x] + SumFunctionOnSet(h, v)
          /\ SumFunctionOnSet(f, u) = f[x] + SumFunctionOnSet(f, v)
          /\ SumFunctionOnSet(g, u) = g[x] + SumFunctionOnSet(g, v)
      BY <2>0, <3>2, <3>5, SumRemove
    <3>7. SumFunctionOnSet(f, v) \in Int /\ SumFunctionOnSet(g, v) \in Int
      BY <3>4, SumTyped
    <3>8. f[x] \in Int /\ g[x] \in Int /\ h[x] = f[x] + g[x]
      OBVIOUS
    <3> QED BY <3>3, <3>6, <3>7, <3>8
  <2> QED BY <2>1, <2>2
<1>2. \A u \in SUBSET S : (\A v \in SUBSET u : v # u => v \in Good) => u \in Good
  BY <1>1
<1> HIDE DEF Good
<1>3. S \in Good
  BY <1>2, SetInduction
<1> QED BY <1>3 DEF Good

\* A sum is at most as many times the largest as it has elements.
LEMMA SumAtMost ==
    ASSUME NEW S, IsFiniteSet(S), NEW f, NEW b \in Int, \A y \in S : f[y] \in Int /\ f[y] <= b
    PROVE  SumFunctionOnSet(f, S) <= Cardinality(S) * b
<1> DEFINE Good == {u \in SUBSET S : SumFunctionOnSet(f, u) <= Cardinality(u) * b}
<1>1. ASSUME NEW u \in SUBSET S, \A v \in SUBSET u : v # u => v \in Good
      PROVE  SumFunctionOnSet(f, u) <= Cardinality(u) * b
  <2>0. IsFiniteSet(u)
    BY FS_Subset
  <2>1. CASE u = {}
    <3>1. SumFunctionOnSet(f, {}) = 0 /\ Cardinality({}) = 0
      BY <2>0, <2>1, SumStep, FS_EmptySet
    <3>2. 0 <= 0 * b
      OBVIOUS
    <3> QED BY <2>1, <3>1, <3>2
  <2>2. CASE u # {}
    <3>1. PICK x \in u : TRUE
      BY <2>2
    <3>2. PICK v : v = u \ {x}
      OBVIOUS
    <3>3. SumFunctionOnSet(f, v) <= Cardinality(v) * b
      BY <1>1, <3>2
    <3>4. IsFiniteSet(v) /\ v \subseteq S /\ Cardinality(v) = Cardinality(u) - 1
          /\ Cardinality(u) \in Nat
      BY <2>0, <3>2, FS_RemoveElement, FS_CardinalityType
    <3>5. SumFunctionOnSet(f, u) = f[x] + SumFunctionOnSet(f, v)
      BY <2>0, <3>2, SumRemove
    <3>6. SumFunctionOnSet(f, v) \in Int
      BY <3>4, SumTyped
    <3>7. f[x] \in Int /\ f[x] <= b
      OBVIOUS
    <3>8. PICK n \in Nat : n = Cardinality(u)
      BY <3>4
    <3>9. (n - 1) * b = n * b - b /\ n * b \in Int
      OBVIOUS
    <3>10. SumFunctionOnSet(f, v) <= n * b - b
      BY <3>3, <3>4, <3>8, <3>9
    <3> QED BY <3>5, <3>6, <3>7, <3>8, <3>9, <3>10
  <2> QED BY <2>1, <2>2
<1>2. \A u \in SUBSET S : (\A v \in SUBSET u : v # u => v \in Good) => u \in Good
  BY <1>1
<1> HIDE DEF Good
<1>3. S \in Good
  BY <1>2, SetInduction
<1> QED BY <1>3 DEF Good

\* A finite set of numbers has a largest one.
LEMMA LargestExists ==
    ASSUME NEW S, IsFiniteSet(S), S \subseteq Int, S # {}
    PROVE  Max(S) \in S /\ \A y \in S : y <= Max(S)
<1> DEFINE Largest(u) == \E x \in u : \A y \in u : x >= y
           Good == {u \in SUBSET S : u # {} => Largest(u)}
<1>1. ASSUME NEW u \in SUBSET S, \A v \in SUBSET u : v # u => v \in Good, u # {}
      PROVE  Largest(u)
  <2>1. PICK z \in u : TRUE
    BY <1>1
  <2>2. PICK v : v = u \ {z}
    OBVIOUS
  <2>3. v # {} => Largest(v)
    BY <1>1, <2>2
  <2>4. CASE v = {}
    BY <2>2, <2>4
  <2>5. CASE v # {}
    <3>1. PICK x \in v : \A y \in v : x >= y
      BY <2>3, <2>5
    <3>2. x \in Int /\ z \in Int /\ \A y \in v : y \in Int
      BY <2>2, <3>1
    <3>3. CASE x >= z
      BY <2>2, <3>1, <3>3
    <3>4. CASE ~(x >= z)
      <4>1. \A y \in v : z >= y
        BY <3>1, <3>2, <3>4
      <4> QED BY <2>2, <3>2, <4>1
    <3> QED BY <3>3, <3>4
  <2> QED BY <2>4, <2>5
<1>2. \A u \in SUBSET S : (\A v \in SUBSET u : v # u => v \in Good) => u \in Good
  BY <1>1
<1> HIDE DEF Good
<1>3. S \in Good
  BY <1>2, SetInduction
<1>4. \E x \in S : \A y \in S : x >= y
  BY <1>3 DEF Good
<1> QED BY <1>4 DEF Max

-----------------------------------------------------------------------------
(* What several can have together, and owe. *)

\* Twice what k of n candidates may have, or owe, together in units of the total weight.
Room(n, k) == k * (2 * n - 1 - k)

\* The room of k is more than the mean of the rooms around it.
LEMMA RoomIsRound ==
    ASSUME NEW n \in Int, NEW k \in Int, NEW m \in Int, m >= 1
    PROVE  /\ (m + 1) * Room(n, k) >= m * Room(n, k + 1) + Room(n, k - m) + 2 * m
           /\ (m + 1) * Room(n, k) >= m * Room(n, k - 1) + Room(n, k + m) + 2 * m
<1> DEFINE kk == k * k
           mm == m * m
           a == 2 * n - 1
<1>1. \A x \in Int : Room(n, x) = a * x - x * x
  BY DEF Room
<1>2. /\ (k + 1) * (k + 1) = kk + 2 * k + 1 /\ (k - 1) * (k - 1) = kk - 2 * k + 1
      /\ (k + m) * (k + m) = kk + 2 * (k * m) + mm
      /\ (k - m) * (k - m) = kk - 2 * (k * m) + mm
  OBVIOUS
<1> QED BY <1>1, <1>2 DEF Room

\* More candidates have more room.
LEMMA RoomGrows ==
    ASSUME NEW n \in Int, NEW k \in Int, k <= n
    PROVE  Room(n, k - 1) <= Room(n, k)
  BY DEF Room

\* What the credit of a set comes to.
LEMMA CreditArithmetic ==
    ASSUME NEW x \in Int, NEW y \in Int, NEW z \in Int, NEW a \in Int, NEW W \in Int, NEW T \in Int,
           NEW m \in Int, NEW g0 \in Int, NEW g1 \in Int, NEW g2 \in Int,
           x = y + z, z <= m * a, 2 * (x + a - W) <= T * g1, 2 * y <= T * g2,
           0 <= W, W <= T, m >= 1, (m + 1) * g0 >= m * g1 + g2 + 2 * m
    PROVE  2 * x <= T * g0
<1>1. m * (2 * (x + a - W)) <= m * (T * g1)
  OBVIOUS
<1>2. 2 * ((m + 1) * x) <= m * (T * g1) + T * g2 + 2 * (m * T)
  <2>1. m * (2 * (x + a - W)) = 2 * (m * x) + 2 * (m * a) - 2 * (m * W)
    OBVIOUS
  <2>2. m * W <= m * T
    OBVIOUS
  <2>3. (m + 1) * x = m * x + x
    OBVIOUS
  <2>4. /\ m * x \in Int /\ m * a \in Int /\ m * W \in Int /\ m * T \in Int
        /\ m * (T * g1) \in Int /\ T * g2 \in Int
    OBVIOUS
  <2> QED BY <1>1, <2>1, <2>2, <2>3, <2>4
<1>3. m * (T * g1) + T * g2 + 2 * (m * T) = T * (m * g1 + g2 + 2 * m)
  OBVIOUS
<1>4. T * (m * g1 + g2 + 2 * m) <= T * ((m + 1) * g0)
  OBVIOUS
<1>5. T * ((m + 1) * g0) = (m + 1) * (T * g0) /\ 2 * ((m + 1) * x) = (m + 1) * (2 * x)
  OBVIOUS
<1>6. (m + 1) * (2 * x) <= (m + 1) * (T * g0)
  <2>1. /\ (m + 1) * (2 * x) \in Int /\ (m + 1) * (T * g0) \in Int
        /\ T * (m * g1 + g2 + 2 * m) \in Int
    OBVIOUS
  <2> QED BY <1>2, <1>3, <1>4, <1>5, <2>1
<1>7. SUFFICES ASSUME 2 * x > T * g0 PROVE FALSE
  OBVIOUS
<1>8. \A u, v \in Int : u > v => (m + 1) * u > (m + 1) * v
  OBVIOUS
<1>9. (m + 1) * (2 * x) > (m + 1) * (T * g0)
  <2>1. 2 * x \in Int /\ T * g0 \in Int
    OBVIOUS
  <2> QED BY <1>7, <1>8, <2>1
<1> QED BY <1>6, <1>9

\* What the debt of a set comes to.
LEMMA DebtArithmetic ==
    ASSUME NEW x \in Int, NEW y \in Int, NEW z \in Int, NEW a \in Int, NEW W \in Int, NEW T \in Int,
           NEW v \in Int, NEW m \in Int, NEW g0 \in Int, NEW g1 \in Int, NEW g2 \in Int,
           x = y - z, z <= m * a, -(2 * y) <= T * g2, x = v + a - W, -(2 * v) <= T * g1,
           0 <= W, W <= T, m >= 1, (m + 1) * g0 >= m * g1 + g2 + 2 * m
    PROVE  -(2 * x) <= T * g0
<1>1. PICK X \in Int, Y \in Int, A \in Int :
        X = 0 - x /\ Y = 0 - y /\ A = a
  OBVIOUS
<1>2. X = Y + z /\ 2 * (X + A - W) <= T * g1 /\ 2 * Y <= T * g2
  BY <1>1
<1>3. X \in Int /\ A \in Int /\ z <= m * A
  BY <1>1
<1>4. 2 * X <= T * g0
  <2> HIDE <1>1
  <2> QED BY <1>2, <1>3, CreditArithmetic
<1> QED BY <1>1, <1>4

\* What any set of the P has together on the accounts c, or owes, is within its room.
Within(c, P, T) == \A S \in SUBSET P :
    /\ 2 * SumFunctionOnSet(c, S) <= T * Room(Cardinality(P), Cardinality(S))
    /\ -(2 * SumFunctionOnSet(c, S)) <= T * Room(Cardinality(P), Cardinality(S))

\* Everybody gains e, and q, who has the most of those that gain something, pays it all.
Turn(P, c, e, q, d) ==
    /\ q \in P
    /\ \A p \in P : c[p] \in Int /\ e[p] \in Nat
    /\ \A p \in P : e[p] > 0 => c[p] + e[p] <= c[q] + e[q]
    /\ \A p \in P : d[p] = c[p] + e[p] - IF p = q THEN SumFunctionOnSet(e, P) ELSE 0

\* Together the members of a set gain what they are given, less all of it if q is one.
LEMMA SetGains ==
    ASSUME NEW P, IsFiniteSet(P), NEW c, NEW e, NEW q, NEW d, Turn(P, c, e, q, d),
           NEW S \in SUBSET P
    PROVE  /\ SumFunctionOnSet(c, S) \in Int /\ SumFunctionOnSet(d, S) \in Int
           /\ SumFunctionOnSet(e, S) \in Nat /\ SumFunctionOnSet(e, P) \in Nat
           /\ SumFunctionOnSet(e, S) <= SumFunctionOnSet(e, P)
           /\ (\A p \in P \ S : e[p] = 0) => SumFunctionOnSet(e, S) = SumFunctionOnSet(e, P)
           /\ SumFunctionOnSet(d, S) = SumFunctionOnSet(c, S) + SumFunctionOnSet(e, S)
                - IF q \in S THEN SumFunctionOnSet(e, P) ELSE 0
<1>1. IsFiniteSet(S) /\ IsFiniteSet(P \ S) /\ S \subseteq P
  BY FS_Subset
<1>2. PICK W : W = SumFunctionOnSet(e, P)
  OBVIOUS
<1>3. /\ q \in P
      /\ \A p \in P : c[p] \in Int /\ e[p] \in Nat
      /\ \A p \in P : d[p] = c[p] + e[p] - IF p = q THEN W ELSE 0
  BY <1>2 DEF Turn
<1>4. SumFunctionOnSet(e, P) \in Nat /\ SumFunctionOnSet(e, S) \in Nat
      /\ SumFunctionOnSet(e, P \ S) \in Nat
  <2>1. /\ \A p \in S : e[p] \in Nat
        /\ \A p \in P \ S : e[p] \in Nat
    BY <1>3
  <2> QED BY <1>1, <1>3, <2>1, SumNatural
<1>5. SumFunctionOnSet(e, P) = SumFunctionOnSet(e, S) + SumFunctionOnSet(e, P \ S)
  <2>1. \A p \in P : e[p] \in Int
    BY <1>3
  <2> QED BY <1>1, <2>1, SumSplit
<1>6. ASSUME \A p \in P \ S : e[p] = 0
      PROVE  SumFunctionOnSet(e, P \ S) = 0
  <2>1. Multiple(e, 0, e, P \ S)
    BY <1>6 DEF Multiple
  <2>2. SumFunctionOnSet(e, P \ S) = 0 * SumFunctionOnSet(e, P \ S)
    BY <1>1, <2>1, SumScaled, 0 \in Int
  <2> QED BY <1>4, <2>2
<1>7. PICK a : a = [p \in P |-> c[p] + e[p]]
  OBVIOUS
<1>8. \A p \in P : a[p] = c[p] + e[p] /\ a[p] \in Int /\ c[p] \in Int /\ e[p] \in Int
  BY <1>3, <1>7
<1>9. SumFunctionOnSet(a, S) = SumFunctionOnSet(c, S) + SumFunctionOnSet(e, S)
  BY <1>1, <1>8, SumPlus
<1>10. SumFunctionOnSet(c, S) \in Int /\ SumFunctionOnSet(a, S) \in Int
  <2>1. \A p \in S : c[p] \in Int /\ a[p] \in Int
    BY <1>8
  <2> QED BY <1>1, <2>1, SumTyped
<1>11. CASE q \notin S
  <2>1. \A p \in S : a[p] \in Int /\ d[p] = a[p]
    BY <1>1, <1>3, <1>8, <1>11
  <2>2. SumFunctionOnSet(a, S) = SumFunctionOnSet(d, S)
    BY <1>1, <2>1, SumSame
  <2> QED BY <1>4, <1>5, <1>6, <1>9, <1>10, <1>11, <2>2
<1>12. CASE q \in S
  <2>1. PICK R : R = S \ {q}
    OBVIOUS
  <2>2. IsFiniteSet(R) /\ R \subseteq P /\ q \notin R
    BY <1>1, <2>1, FS_Subset
  <2>3. \A p \in R : a[p] \in Int /\ d[p] = a[p]
    BY <1>3, <1>8, <2>2
  <2>4. SumFunctionOnSet(a, R) = SumFunctionOnSet(d, R) /\ SumFunctionOnSet(a, R) \in Int
    BY <2>2, <2>3, SumSame, SumTyped
  <2>5. d[q] = a[q] - W /\ a[q] \in Int /\ W \in Int
    BY <1>2, <1>3, <1>4, <1>8
  <2>6. \A p \in S : a[p] \in Int /\ d[p] \in Int
    BY <1>8, <2>1, <2>3, <2>5
  <2>7. /\ SumFunctionOnSet(a, S) = a[q] + SumFunctionOnSet(a, R)
        /\ SumFunctionOnSet(d, S) = d[q] + SumFunctionOnSet(d, R)
    BY <1>1, <1>12, <2>1, <2>6, SumRemove
  <2>8. SumFunctionOnSet(d, S) = SumFunctionOnSet(a, S) - W
    BY <2>4, <2>5, <2>7
  <2> QED BY <1>2, <1>4, <1>5, <1>6, <1>9, <1>10, <1>12, <2>8
<1> QED BY <1>11, <1>12

\* Those that gain and do not pay have no more than the one that pays had.
LEMMA GainersBounded ==
    ASSUME NEW P, IsFiniteSet(P), NEW c, NEW e, NEW q, NEW d, Turn(P, c, e, q, d),
           NEW R \in SUBSET P, q \notin R, \A p \in R : e[p] > 0
    PROVE  SumFunctionOnSet(d, R) <= Cardinality(R) * (c[q] + e[q])
<1>1. IsFiniteSet(R)
  BY FS_Subset
<1>2. PICK b : b = c[q] + e[q]
  OBVIOUS
<1>3. b \in Int /\ \A p \in R : d[p] \in Int /\ d[p] <= b
  BY <1>2 DEF Turn
<1>4. SumFunctionOnSet(d, R) <= Cardinality(R) * b
  BY <1>1, <1>3, SumAtMost
<1> QED BY <1>2, <1>4

\* A set without the one that pays: its gainers have no more than that one had, and
\* together with it they have no more than before.
LEMMA CreditKept ==
    ASSUME NEW P, IsFiniteSet(P), NEW c, NEW e, NEW q, NEW d, Turn(P, c, e, q, d),
           NEW T \in Nat, SumFunctionOnSet(e, P) <= T, Within(c, P, T),
           NEW S \in SUBSET P, q \notin S
    PROVE  2 * SumFunctionOnSet(d, S) <= T * Room(Cardinality(P), Cardinality(S))
<1>1. PICK n, k, W : n = Cardinality(P) /\ k = Cardinality(S) /\ W = SumFunctionOnSet(e, P)
  OBVIOUS
<1>2. PICK R : R = {p \in S : e[p] > 0}
  OBVIOUS
<1>3. PICK m : m = Cardinality(R)
  OBVIOUS
<1>4. /\ IsFiniteSet(S) /\ IsFiniteSet(R) /\ n \in Nat /\ k \in Nat /\ m \in Nat
      /\ R \in SUBSET P /\ R \subseteq S
  BY <1>1, <1>2, <1>3, FS_Subset, FS_CardinalityType
<1>5. \A U \in SUBSET P :
        /\ SumFunctionOnSet(c, U) \in Int /\ SumFunctionOnSet(d, U) \in Int
        /\ SumFunctionOnSet(e, U) \in Nat /\ W \in Nat /\ SumFunctionOnSet(e, U) <= W
        /\ (\A p \in P \ U : e[p] = 0) => SumFunctionOnSet(e, U) = W
        /\ SumFunctionOnSet(d, U) = SumFunctionOnSet(c, U) + SumFunctionOnSet(e, U)
             - IF q \in U THEN W ELSE 0
  BY <1>1, SetGains
<1>6. \A p \in P : c[p] \in Int /\ e[p] \in Nat /\ d[p] \in Int
  <2>1. W \in Int
    BY <1>1, SetGains
  <2> QED BY <1>1, <2>1 DEF Turn
<1>7. CASE R = {}
  <2>1. \A p \in S : c[p] \in Int /\ d[p] = c[p]
    BY <1>2, <1>6, <1>7 DEF Turn
  <2>2. SumFunctionOnSet(c, S) = SumFunctionOnSet(d, S)
    BY <1>4, <2>1, SumSame
  <2> QED BY <2>2 DEF Within
<1>8. CASE R # {}
  <2>1. m >= 1
    BY <1>3, <1>4, <1>8, FS_EmptySet
  <2>2. PICK Q, U : Q = S \cup {q} /\ U = S \ R
    OBVIOUS
  <2>3. q \in P /\ Q \in SUBSET P /\ U \in SUBSET P /\ Cardinality(Q) = k + 1 /\ IsFiniteSet(Q)
    BY <1>1, <1>4, <2>2, FS_AddElement DEF Turn
  <2>4. Cardinality(U) = k - m
    <3>1. R \cap S = R
      BY <1>4
    <3>2. Cardinality(S \ R) = Cardinality(S) - Cardinality(S \cap R)
      BY <1>4, FS_Difference
    <3>3. S \cap R = R
      BY <1>4
    <3> QED BY <1>1, <1>3, <2>2, <3>2, <3>3
  <2>5. \A p \in S : d[p] \in Int
    BY <1>6
  <2>6. SumFunctionOnSet(d, S) = SumFunctionOnSet(d, R) + SumFunctionOnSet(d, U)
    BY <1>4, <2>2, <2>5, SumSplit
  <2>7. SumFunctionOnSet(d, U) = SumFunctionOnSet(c, U)
    <3>1. \A p \in U : c[p] \in Int /\ d[p] = c[p]
      BY <1>2, <1>6, <2>2 DEF Turn
    <3>2. IsFiniteSet(U)
      BY <1>4, <2>2, FS_Subset
    <3> QED BY <3>1, <3>2, SumSame
  <2>8. SumFunctionOnSet(d, R) <= m * (c[q] + e[q])
    <3>1. q \notin R /\ \A p \in R : e[p] > 0
      BY <1>2
    <3> QED BY <1>3, <1>4, <3>1, GainersBounded
  <2>9. SumFunctionOnSet(d, Q) = d[q] + SumFunctionOnSet(d, S)
    <3>1. Q \ {q} = S /\ q \in Q
      BY <2>2
    <3>2. \A p \in Q : d[p] \in Int
      BY <1>6, <2>3
    <3> QED BY <2>3, <3>1, <3>2, SumRemove
  <2>10. SumFunctionOnSet(d, Q) <= SumFunctionOnSet(c, Q)
    <3>1. q \in Q
      BY <2>2
    <3> QED BY <1>5, <2>3, <3>1
  <2>11. d[q] = (c[q] + e[q]) - W /\ c[q] + e[q] \in Int
    <3>1. d[q] = c[q] + e[q] - W
      BY <1>1, <2>3 DEF Turn
    <3>2. c[q] \in Int /\ e[q] \in Int /\ W \in Int
      BY <1>5, <1>6, <2>3
    <3> QED BY <3>1, <3>2
  <2>12. /\ 2 * SumFunctionOnSet(c, Q) <= T * Room(n, k + 1)
         /\ 2 * SumFunctionOnSet(c, U) <= T * Room(n, k - m)
    BY <1>1, <2>3, <2>4 DEF Within
  <2>13. (m + 1) * Room(n, k) >= m * Room(n, k + 1) + Room(n, k - m) + 2 * m
    BY <1>4, <2>1, RoomIsRound
  <2>14. Room(n, k) \in Int /\ Room(n, k + 1) \in Int /\ Room(n, k - m) \in Int
    BY <1>4 DEF Room
  <2>15. PICK x, y, z, a : /\ x = SumFunctionOnSet(d, S) /\ y = SumFunctionOnSet(d, U)
                           /\ z = SumFunctionOnSet(d, R) /\ a = c[q] + e[q]
    OBVIOUS
  <2>16. x \in Int /\ y \in Int /\ z \in Int /\ a \in Int /\ W \in Nat
    BY <1>4, <1>5, <2>3, <2>11, <2>15
  <2>17. 2 * (x + a - W) <= T * Room(n, k + 1)
    <3>1. x + a - W = SumFunctionOnSet(d, Q)
      BY <2>9, <2>11, <2>15, <2>16
    <3>2. SumFunctionOnSet(d, Q) \in Int /\ SumFunctionOnSet(c, Q) \in Int
      BY <1>5, <2>3
    <3>3. T * Room(n, k + 1) \in Int
      BY <2>14
    <3> QED BY <2>10, <2>12, <3>1, <3>2, <3>3
  <2>18. x = y + z
    BY <2>6, <2>15, <2>16
  <2>19. z <= m * a /\ 2 * y <= T * Room(n, k - m)
    BY <2>7, <2>8, <2>12, <2>15
  <2>20. 0 <= W /\ W <= T /\ T \in Int /\ W \in Int /\ m \in Int
    BY <1>1, <1>4, <2>16
  <2>21. 2 * x <= T * Room(n, k)
    <3>1. PICK g0, g1, g2 :
            g0 = Room(n, k) /\ g1 = Room(n, k + 1) /\ g2 = Room(n, k - m)
      OBVIOUS
    <3>2. /\ g0 \in Int /\ g1 \in Int /\ g2 \in Int
          /\ 2 * (x + a - W) <= T * g1 /\ 2 * y <= T * g2
          /\ (m + 1) * g0 >= m * g1 + g2 + 2 * m
      BY <2>13, <2>14, <2>17, <2>19, <3>1
    <3>3. 2 * x <= T * g0
      BY <2>1, <2>16, <2>18, <2>19, <2>20, <3>2, CreditArithmetic
    <3> QED BY <3>1, <3>3
  <2> QED BY <1>1, <2>15, <2>21
<1> QED BY <1>7, <1>8

\* A set with the one that pays: without it it has no less than before, nor has it
\* together with all that gain.
LEMMA DebtKept ==
    ASSUME NEW P, IsFiniteSet(P), NEW c, NEW e, NEW q, NEW d, Turn(P, c, e, q, d),
           NEW T \in Nat, SumFunctionOnSet(e, P) <= T, Within(c, P, T),
           NEW S \in SUBSET P, q \in S
    PROVE  -(2 * SumFunctionOnSet(d, S)) <= T * Room(Cardinality(P), Cardinality(S))
<1>1. PICK n, k, W : n = Cardinality(P) /\ k = Cardinality(S) /\ W = SumFunctionOnSet(e, P)
  OBVIOUS
<1>2. PICK R : R = {p \in P \ S : e[p] > 0}
  OBVIOUS
<1>3. PICK m : m = Cardinality(R)
  OBVIOUS
<1>4. /\ IsFiniteSet(S) /\ IsFiniteSet(R) /\ n \in Nat /\ k \in Nat /\ m \in Nat
      /\ R \in SUBSET P /\ R \cap S = {} /\ q \notin R /\ q \in P
  BY <1>1, <1>2, <1>3, FS_Subset, FS_CardinalityType
<1>5. \A U \in SUBSET P :
        /\ SumFunctionOnSet(c, U) \in Int /\ SumFunctionOnSet(d, U) \in Int
        /\ SumFunctionOnSet(e, U) \in Nat /\ W \in Nat /\ SumFunctionOnSet(e, U) <= W
        /\ (\A p \in P \ U : e[p] = 0) => SumFunctionOnSet(e, U) = W
        /\ SumFunctionOnSet(d, U) = SumFunctionOnSet(c, U) + SumFunctionOnSet(e, U)
             - IF q \in U THEN W ELSE 0
  BY <1>1, SetGains
<1>6. \A p \in P : c[p] \in Int /\ e[p] \in Nat /\ d[p] \in Int
  <2>1. W \in Int
    BY <1>1, SetGains
  <2> QED BY <1>1, <2>1 DEF Turn
<1>7. CASE R = {}
  <2>1. \A p \in P \ S : e[p] = 0
    BY <1>2, <1>6, <1>7
  <2>2. SumFunctionOnSet(d, S) = SumFunctionOnSet(c, S)
    BY <1>5, <2>1
  <2> QED BY <2>2 DEF Within
<1>8. CASE R # {}
  <2>1. m >= 1
    BY <1>3, <1>4, <1>8, FS_EmptySet
  <2>2. PICK Q, U : Q = S \cup R /\ U = S \ {q}
    OBVIOUS
  <2>3. Q \in SUBSET P /\ U \in SUBSET P /\ Cardinality(U) = k - 1
    BY <1>1, <1>4, <2>2, FS_RemoveElement
  <2>4. Cardinality(Q) = k + m /\ IsFiniteSet(Q)
    <3>1. /\ IsFiniteSet(S \cup R)
          /\ Cardinality(S \cup R) = Cardinality(S) + Cardinality(R) - Cardinality(S \cap R)
      BY <1>4, FS_Union
    <3>2. Cardinality(S \cap R) = 0
      <4>1. S \cap R = {}
        BY <1>4
      <4> QED BY <4>1, FS_EmptySet
    <3> QED BY <1>1, <1>3, <1>4, <2>2, <3>1, <3>2
  <2>5. \A p \in Q : d[p] \in Int
    BY <1>6, <2>3
  <2>6. SumFunctionOnSet(d, Q) = SumFunctionOnSet(d, R) + SumFunctionOnSet(d, S)
    <3>1. Q \ R = S /\ R \subseteq Q
      BY <1>4, <2>2
    <3> QED BY <2>4, <2>5, <3>1, SumSplit
  <2>7. SumFunctionOnSet(d, Q) = SumFunctionOnSet(c, Q)
    <3>1. \A p \in P \ Q : e[p] = 0
      BY <1>2, <1>6, <2>2
    <3>2. q \in Q
      BY <2>2
    <3> QED BY <1>5, <2>3, <3>1, <3>2
  <2>8. SumFunctionOnSet(d, R) <= m * (c[q] + e[q])
    <3>1. \A p \in R : e[p] > 0
      BY <1>2
    <3> QED BY <1>3, <1>4, <3>1, GainersBounded
  <2>9. SumFunctionOnSet(d, S) = d[q] + SumFunctionOnSet(d, U)
    <3>1. \A p \in S : d[p] \in Int
      BY <1>6
    <3> QED BY <1>4, <2>2, <3>1, SumRemove
  <2>10. SumFunctionOnSet(d, U) >= SumFunctionOnSet(c, U)
    <3>1. q \notin U
      BY <2>2
    <3> QED BY <1>5, <2>3, <3>1
  <2>11. d[q] = (c[q] + e[q]) - W /\ c[q] + e[q] \in Int
    <3>1. d[q] = c[q] + e[q] - W
      BY <1>1, <1>4 DEF Turn
    <3>2. c[q] \in Int /\ e[q] \in Int /\ W \in Int
      BY <1>4, <1>5, <1>6
    <3> QED BY <3>1, <3>2
  <2>12. /\ -(2 * SumFunctionOnSet(c, U)) <= T * Room(n, k - 1)
         /\ -(2 * SumFunctionOnSet(c, Q)) <= T * Room(n, k + m)
    BY <1>1, <2>3, <2>4 DEF Within
  <2>13. (m + 1) * Room(n, k) >= m * Room(n, k - 1) + Room(n, k + m) + 2 * m
    BY <1>4, <2>1, RoomIsRound
  <2>14. Room(n, k) \in Int /\ Room(n, k - 1) \in Int /\ Room(n, k + m) \in Int
    BY <1>4 DEF Room
  <2>15. PICK x, y, z, v, a :
           /\ x = SumFunctionOnSet(d, S) /\ y = SumFunctionOnSet(d, Q)
           /\ z = SumFunctionOnSet(d, R) /\ v = SumFunctionOnSet(d, U) /\ a = c[q] + e[q]
    OBVIOUS
  <2>16. x \in Int /\ y \in Int /\ z \in Int /\ v \in Int /\ a \in Int /\ W \in Nat
    BY <1>4, <1>5, <2>3, <2>11, <2>15
  <2>17. -(2 * v) <= T * Room(n, k - 1)
    <3>1. SumFunctionOnSet(c, U) \in Int /\ T * Room(n, k - 1) \in Int
      BY <1>5, <2>3, <2>14
    <3> QED BY <2>10, <2>12, <2>15, <2>16, <3>1
  <2>18. x = y - z /\ x = v + a - W
    BY <2>6, <2>9, <2>11, <2>15, <2>16
  <2>19. z <= m * a /\ -(2 * y) <= T * Room(n, k + m)
    BY <2>7, <2>8, <2>12, <2>15
  <2>20. 0 <= W /\ W <= T /\ T \in Int /\ W \in Int /\ m \in Int
    BY <1>1, <1>4, <2>16
  <2>21. -(2 * x) <= T * Room(n, k)
    <3>1. PICK g0, g1, g2 :
            g0 = Room(n, k) /\ g1 = Room(n, k - 1) /\ g2 = Room(n, k + m)
      OBVIOUS
    <3>2. /\ g0 \in Int /\ g1 \in Int /\ g2 \in Int
          /\ -(2 * v) <= T * g1 /\ -(2 * y) <= T * g2
          /\ (m + 1) * g0 >= m * g1 + g2 + 2 * m
      BY <2>13, <2>14, <2>17, <2>19, <3>1
    <3>3. -(2 * x) <= T * g0
      BY <2>1, <2>16, <2>18, <2>19, <2>20, <3>2, DebtArithmetic
    <3> QED BY <3>1, <3>3
  <2> QED BY <1>1, <2>15, <2>21
<1> QED BY <1>7, <1>8

\* A turn leaves every set within its room.
LEMMA TurnKeepsWithin ==
    ASSUME NEW P, IsFiniteSet(P), NEW c, NEW e, NEW q, NEW d, Turn(P, c, e, q, d),
           NEW T \in Nat, SumFunctionOnSet(e, P) <= T, Within(c, P, T)
    PROVE  Within(d, P, T)
<1>1. SUFFICES ASSUME NEW S \in SUBSET P
               PROVE  /\ 2 * SumFunctionOnSet(d, S) <= T * Room(Cardinality(P), Cardinality(S))
                      /\ -(2 * SumFunctionOnSet(d, S)) <= T * Room(Cardinality(P), Cardinality(S))
  BY DEF Within
<1>2. PICK room : room = T * Room(Cardinality(P), Cardinality(S))
  OBVIOUS
<1>3. room \in Int
  <2>1. IsFiniteSet(S)
    BY FS_Subset
  <2>2. Cardinality(P) \in Int /\ Cardinality(S) \in Int
    BY <2>1, FS_CardinalityType
  <2> QED BY <1>2, <2>2 DEF Room
<1>4. /\ SumFunctionOnSet(c, S) \in Int /\ SumFunctionOnSet(d, S) \in Int
      /\ SumFunctionOnSet(e, S) \in Nat /\ SumFunctionOnSet(e, P) \in Nat
      /\ SumFunctionOnSet(e, S) <= SumFunctionOnSet(e, P)
      /\ SumFunctionOnSet(d, S) = SumFunctionOnSet(c, S) + SumFunctionOnSet(e, S)
           - IF q \in S THEN SumFunctionOnSet(e, P) ELSE 0
  BY SetGains
<1>5. 2 * SumFunctionOnSet(c, S) <= room /\ -(2 * SumFunctionOnSet(c, S)) <= room
  BY <1>2 DEF Within
<1>6. CASE q \in S
  <2>1. -(2 * SumFunctionOnSet(d, S)) <= room
    BY <1>2, <1>6, DebtKept
  <2>2. 2 * SumFunctionOnSet(d, S) <= room
    BY <1>3, <1>4, <1>5, <1>6
  <2> QED BY <1>2, <2>1, <2>2
<1>7. CASE q \notin S
  <2>1. 2 * SumFunctionOnSet(d, S) <= room
    BY <1>2, <1>7, CreditKept
  <2>2. -(2 * SumFunctionOnSet(d, S)) <= room
    BY <1>3, <1>4, <1>5, <1>7
  <2> QED BY <1>2, <2>1, <2>2
<1> QED BY <1>6, <1>7

\* A candidate that is forgotten leaves every set within its room.
LEMMA ForgettingKeepsWithin ==
    ASSUME NEW P, IsFiniteSet(P), NEW c, NEW d, NEW q \in P, NEW T \in Nat, Within(c, P, T),
           \A p \in P : c[p] \in Int /\ d[p] = IF p = q THEN 0 ELSE c[p]
    PROVE  Within(d, P, T)
<1>1. SUFFICES ASSUME NEW S \in SUBSET P
               PROVE  /\ 2 * SumFunctionOnSet(d, S) <= T * Room(Cardinality(P), Cardinality(S))
                      /\ -(2 * SumFunctionOnSet(d, S)) <= T * Room(Cardinality(P), Cardinality(S))
  BY DEF Within
<1>2. PICK n, k : n = Cardinality(P) /\ k = Cardinality(S)
  OBVIOUS
<1>3. IsFiniteSet(S) /\ n \in Nat /\ k \in Nat /\ k <= n
  BY <1>2, FS_Subset, FS_CardinalityType
<1>4. PICK R : R = S \ {q}
  OBVIOUS
<1>5. IsFiniteSet(R) /\ R \in SUBSET P
  BY <1>3, <1>4, FS_Subset
<1>6. \A p \in R : c[p] \in Int /\ d[p] = c[p]
  BY <1>4
<1>7. SumFunctionOnSet(c, R) = SumFunctionOnSet(d, R) /\ SumFunctionOnSet(c, R) \in Int
  BY <1>5, <1>6, SumSame, SumTyped
<1>8. /\ 2 * SumFunctionOnSet(c, R) <= T * Room(n, Cardinality(R))
      /\ -(2 * SumFunctionOnSet(c, R)) <= T * Room(n, Cardinality(R))
  BY <1>2, <1>5 DEF Within
<1>9. CASE q \notin S
  BY <1>2, <1>4, <1>7, <1>8, <1>9
<1>10. CASE q \in S
  <2>1. Cardinality(R) = k - 1
    BY <1>2, <1>3, <1>4, <1>10, FS_RemoveElement
  <2>2. SumFunctionOnSet(d, S) = d[q] + SumFunctionOnSet(d, R)
    <3>1. \A p \in S : d[p] \in Int
      OBVIOUS
    <3> QED BY <1>3, <1>4, <1>10, <3>1, SumRemove
  <2>3. SumFunctionOnSet(d, S) = SumFunctionOnSet(c, R)
    BY <1>7, <2>2
  <2>4. T * Room(n, k - 1) <= T * Room(n, k)
    <3>1. Room(n, k - 1) <= Room(n, k)
      BY <1>3, RoomGrows
    <3>2. Room(n, k - 1) \in Int /\ Room(n, k) \in Int
      BY <1>3 DEF Room
    <3>3. PICK g, h : g = Room(n, k - 1) /\ h = Room(n, k)
      OBVIOUS
    <3>4. g \in Int /\ h \in Int /\ g <= h
      BY <3>1, <3>2, <3>3
    <3>5. T * g <= T * h
      BY <3>4
    <3> QED BY <3>3, <3>5
  <2>5. T * Room(n, k - 1) \in Int /\ T * Room(n, k) \in Int
    BY <1>3 DEF Room
  <2> QED BY <1>2, <1>7, <1>8, <2>1, <2>3, <2>4, <2>5
<1> QED BY <1>9, <1>10

-----------------------------------------------------------------------------
(* The order of the candidates. *)

\* What weighs something: the weights of some candidates.
Weighing(W) ==
    /\ DOMAIN W \in (SUBSET Providers) \ {{}}
    /\ \A p \in DOMAIN W : W[p] \in Nat \ {0}

\* The scheduler's map.
CurrentTyped ==
    /\ DOMAIN current \subseteq ScopedKeys
    /\ \A k \in DOMAIN current : current[k] \in Int

\* What the candidates have gained, and the others kept.
LEMMA AccruedTyped ==
    ASSUME CurrentTyped, NEW W, Weighing(W), NEW s \in Scopes
    PROVE  /\ KeysOf(W, s) \in (SUBSET ScopedKeys) \ {{}}
           /\ \A k : Entry(k) \in Int
           /\ DOMAIN Accrued(W, s) = DOMAIN current \cup KeysOf(W, s)
           /\ \A k \in DOMAIN Accrued(W, s) :
                /\ Accrued(W, s)[k] \in Int
                /\ k \in KeysOf(W, s) => Accrued(W, s)[k] = Entry(k) + W[k[1]]
                /\ k \notin KeysOf(W, s) => Accrued(W, s)[k] = Entry(k)
<1>1. KeysOf(W, s) \in (SUBSET ScopedKeys) \ {{}}
  <2>1. PICK p \in DOMAIN W : TRUE
    BY DEF Weighing
  <2>2. <<p, s>> \in KeysOf(W, s)
    BY DEF KeysOf
  <2>3. KeysOf(W, s) \subseteq ScopedKeys
    BY DEF KeysOf, ScopedKeys, Weighing
  <2> QED BY <2>2, <2>3
<1>2. \A k : Entry(k) \in Int
  BY DEF Entry, CurrentTyped
<1>3. \A k \in KeysOf(W, s) : W[k[1]] \in Int
  BY DEF KeysOf, Weighing
<1> QED BY <1>1, <1>2, <1>3 DEF Accrued

\* There are finitely many candidates, at least one, and together they weigh something.
LEMMA WeighingFinite ==
    ASSUME NEW W, Weighing(W), NEW s
    PROVE  /\ IsFiniteSet(DOMAIN W) /\ IsFiniteSet(KeysOf(W, s))
           /\ Total(W) \in Nat /\ Total(W) >= 1
           /\ Cardinality(DOMAIN W) \in Nat /\ Cardinality(DOMAIN W) >= 1
<1>1. IsFiniteSet(DOMAIN W)
  BY FS_Subset, WeightedSchedulerAssumption DEF Weighing
<1>2. IsFiniteSet(KeysOf(W, s))
  BY <1>1, FS_Product, FS_Singleton DEF KeysOf
<1>3. Total(W) \in Nat /\ Total(W) >= 1
  <2>1. PICK p \in DOMAIN W : TRUE
    BY DEF Weighing
  <2> DEFINE rest == SumFunctionOnSet(W, DOMAIN W \ {p})
  <2>2. IsFiniteSet(DOMAIN W \ {p})
    BY <1>1, FS_Subset
  <2>3. \A q \in DOMAIN W : W[q] \in Int /\ W[q] \in Nat /\ 0 < W[q]
    BY DEF Weighing
  <2>4. Total(W) = W[p] + rest
    BY <1>1, <2>1, <2>3, SumRemove DEF Total
  <2>5. rest \in Nat
    BY <2>2, <2>3, SumNatural
  <2> HIDE DEF rest
  <2> QED BY <2>1, <2>3, <2>4, <2>5
<1>4. Cardinality(DOMAIN W) \in Nat /\ Cardinality(DOMAIN W) # 0
  BY <1>1, FS_CardinalityType, FS_EmptySet DEF Weighing
<1> QED BY <1>1, <1>2, <1>3, <1>4

\* Of some keys of one scope one comes before the others.
LEMMA FirstExists ==
    ASSUME NEW s, NEW K, K \subseteq Providers \X {s}, K # {},
           IsFiniteSet(K), NEW cw, \A k \in K : cw[k] \in Int
    PROVE  \E k \in K : \A l \in K \ {k} : Before(cw, k, l)
<1> DEFINE First(u) == \E k \in u : \A l \in u \ {k} : Before(cw, k, l)
           Good == {u \in SUBSET K : u # {} => First(u)}
<1>1. ASSUME NEW u \in SUBSET K, \A v \in SUBSET u : v # u => v \in Good, u # {}
      PROVE  First(u)
  <2>1. PICK x \in u : TRUE
    BY <1>1
  <2>2. CASE u = {x}
    BY <2>2
  <2>3. CASE u # {x}
    <3>1. u \ {x} \in Good /\ u \ {x} # {}
      BY <1>1, <2>1, <2>3
    <3>2. PICK k \in u \ {x} : \A l \in (u \ {x}) \ {k} : Before(cw, k, l)
      BY <3>1
    <3>3. \A l \in u : cw[l] \in Int /\ l[1] \in Int /\ l = <<l[1], s>>
      <4>1. Providers \subseteq Int
        BY WeightedSchedulerAssumption
      <4>2. \A l \in Providers \X {s} : l[1] \in Providers /\ l = <<l[1], s>>
        OBVIOUS
      <4>3. u \subseteq Providers \X {s} /\ u \subseteq K
        BY <1>1
      <4> QED BY <4>1, <4>2, <4>3
    <3>4. x[1] # k[1]
      BY <3>2, <3>3
    <3>5. CASE Before(cw, x, k)
      <4>1. \A l \in u \ {x} : Before(cw, x, l)
        <5> TAKE l \in u \ {x}
        <5>1. l = k \/ Before(cw, k, l)
          BY <3>2
        <5> QED BY <3>3, <3>5, <5>1 DEF Before
      <4> QED BY <4>1
    <3>6. CASE ~Before(cw, x, k)
      <4>1. Before(cw, k, x)
        BY <3>3, <3>4, <3>6 DEF Before
      <4> QED BY <3>2, <4>1
    <3> QED BY <3>5, <3>6
  <2> QED BY <2>2, <2>3
<1>2. \A u \in SUBSET K : (\A v \in SUBSET u : v # u => v \in Good) => u \in Good
  BY <1>1
<1> HIDE DEF Good
<1>3. K \in Good
  BY <1>2, SetInduction
<1> QED BY <1>3 DEF Good

\* The first candidate is one of the candidates, and none has more.
LEMMA PrimaryFirst ==
    ASSUME CurrentTyped, NEW W, Weighing(W), NEW s \in Scopes
    PROVE  /\ Primary(W, s) \in KeysOf(W, s)
           /\ \A l \in KeysOf(W, s) : Accrued(W, s)[l] <= Accrued(W, s)[Primary(W, s)]
<1> DEFINE K == KeysOf(W, s)
           A == Accrued(W, s)
<1>1. \A k \in K : A[k] \in Int
  BY AccruedTyped
<1>2. K \subseteq Providers \X {s} /\ K # {} /\ IsFiniteSet(K)
  BY AccruedTyped, WeighingFinite DEF KeysOf, Weighing
<1>3. Primary(W, s) = CHOOSE k \in K : \A l \in K \ {k} : Before(A, k, l)
  BY DEF Primary
<1> HIDE DEF K, A
<1>4. \E k \in K : \A l \in K \ {k} : Before(A, k, l)
  <2>1. \A cw : (\A k \in K : cw[k] \in Int) =>
            \E k \in K : \A l \in K \ {k} : Before(cw, k, l)
    BY <1>2, FirstExists
  <2> QED BY <1>1, <2>1
<1>5. Primary(W, s) \in K /\ \A l \in K \ {Primary(W, s)} : Before(A, Primary(W, s), l)
  BY <1>3, <1>4
<1>6. \A l \in K : A[l] <= A[Primary(W, s)]
  BY <1>1, <1>5 DEF Before
<1> QED BY <1>5, <1>6 DEF K, A

\* Whom the order names first.
LEMMA OrderFirst ==
    ASSUME CurrentTyped, NEW W, Weighing(W), NEW s \in Scopes
    PROVE  /\ Order(W, s)[1] \in DOMAIN W
           /\ Cardinality(DOMAIN W) # 1 => Order(W, s)[1] = Primary(W, s)[1]
<1> DEFINE D == DOMAIN W
<1>1. IsFiniteSet(D) /\ Cardinality(D) \in Nat /\ Cardinality(D) >= 1
  BY WeighingFinite
<1>2. CASE Cardinality(D) = 1
  <2>1. Order(W, s) = CHOOSE f \in [1..Cardinality(D) -> D] : IsInjective(f)
    BY <1>2 DEF Order, SetToSeq
  <2>2. \E f \in [1..Cardinality(D) -> D] : IsInjective(f)
    <3>1. ExistsBijection(1..Cardinality(D), D)
      BY <1>1, FS_CardinalityType
    <3> QED BY <3>1 DEF ExistsBijection, Bijection, Injection, IsInjective
  <2> HIDE DEF D
  <2>3. Order(W, s) \in [1..Cardinality(D) -> D]
    BY <2>1, <2>2
  <2> QED BY <1>2, <2>3 DEF D
<1>3. CASE Cardinality(D) # 1
  <2>1. Order(W, s)[1] = Primary(W, s)[1]
    BY <1>1, <1>3 DEF Order
  <2>2. Primary(W, s) \in D \X {s}
    BY PrimaryFirst DEF KeysOf
  <2> QED BY <2>1, <2>2
<1> QED BY <1>2, <1>3

\* What the selection leaves of the accounts.
LEMMA ChargedTyped ==
    ASSUME CurrentTyped, NEW W, Weighing(W), NEW s \in Scopes
    PROVE  /\ DOMAIN Charged(W, s) = DOMAIN current \cup KeysOf(W, s)
           /\ \A k \in DOMAIN Charged(W, s) :
                /\ Charged(W, s)[k] \in Int
                /\ Charged(W, s)[k] =
                     Accrued(W, s)[k] - IF k = Primary(W, s) THEN Total(W) ELSE 0
<1>1. Primary(W, s) \in KeysOf(W, s)
  BY PrimaryFirst
<1>2. Total(W) \in Int
  BY WeighingFinite
<1>3. DOMAIN Accrued(W, s) = DOMAIN current \cup KeysOf(W, s)
  BY AccruedTyped
<1>4. DOMAIN Charged(W, s) = DOMAIN current \cup KeysOf(W, s)
  BY <1>3 DEF Charged
<1>5. ASSUME NEW k \in DOMAIN Charged(W, s)
      PROVE  /\ Charged(W, s)[k] \in Int
             /\ Charged(W, s)[k] =
                  Accrued(W, s)[k] - IF k = Primary(W, s) THEN Total(W) ELSE 0
  <2>1. k \in DOMAIN Accrued(W, s) /\ Primary(W, s) \in DOMAIN Accrued(W, s)
    BY <1>1, <1>3, <1>4, <1>5
  <2>2. Accrued(W, s)[k] \in Int
    BY <2>1, AccruedTyped
  <2>3. Charged(W, s)[k] = IF k = Primary(W, s) THEN Accrued(W, s)[k] - Total(W)
                           ELSE Accrued(W, s)[k]
    BY <2>1 DEF Charged
  <2> QED BY <1>2, <2>2, <2>3
<1> QED BY <1>4, <1>5

\* Any keys of one scope can be put in their order.
LEMMA RankedExists ==
    ASSUME NEW s, NEW K, K \subseteq Providers \X {s}, IsFiniteSet(K),
           NEW cw, \A k \in K : cw[k] \in Int
    PROVE  Ranked(K, cw) \in SetToSeqs(K)
<1> DEFINE Sorted(o) == \A i, j \in DOMAIN o : i < j => Before(cw, o[i], o[j])
           HasOrder(u) == \E o \in SetToSeqs(u) : Sorted(o)
           Good == {u \in SUBSET K : HasOrder(u)}
<1>1. ASSUME NEW u \in SUBSET K, \A v \in SUBSET u : v # u => v \in Good
      PROVE  HasOrder(u)
  <2>1. CASE u = {}
    <3>1. Cardinality(u) = 0
      BY <2>1, FS_EmptySet
    <3> DEFINE o == [i \in 1..0 |-> i]
    <3>2. o \in SetToSeqs(u)
      BY <2>1, <3>1 DEF SetToSeqs
    <3>3. Sorted(o)
      OBVIOUS
    <3> QED BY <3>2, <3>3
  <2>2. CASE u # {}
    <3>1. IsFiniteSet(u) /\ u \subseteq Providers \X {s} /\ \A k \in u : cw[k] \in Int
      BY <1>1, FS_Subset
    <3>2. PICK k \in u : \A l \in u \ {k} : Before(cw, k, l)
      BY <2>2, <3>1, FirstExists
    <3>3. PICK q \in SetToSeqs(u \ {k}) : Sorted(q)
      BY <1>1, <3>2
    <3>4. /\ Cardinality(u) \in Nat /\ Cardinality(u) > 0
          /\ Cardinality(u \ {k}) = Cardinality(u) - 1
      BY <2>2, <3>1, <3>2, FS_CardinalityType, FS_EmptySet, FS_RemoveElement
    <3> DEFINE n == Cardinality(u)
               o == [i \in 1..n |-> IF i = 1 THEN k ELSE q[i - 1]]
    <3>5. /\ q \in [1..(n - 1) -> u \ {k}]
          /\ \A i, j \in 1..(n - 1) : i # j => q[i] # q[j]
      BY <3>3, <3>4 DEF SetToSeqs
    <3>6. n \in Nat /\ n > 0
      BY <3>4
    <3> HIDE DEF n
    <3>7. \A i \in 1..n : o[i] = IF i = 1 THEN k ELSE q[i - 1]
      OBVIOUS
    <3>8. \A i \in 1..n : i # 1 => i - 1 \in 1..(n - 1)
      BY <3>6
    <3>9. \A i \in 1..n : i # 1 => o[i] = q[i - 1] /\ o[i] \in u \ {k}
      BY <3>5, <3>7, <3>8
    <3>10. o \in [1..n -> u]
      BY <3>2, <3>7, <3>9
    <3>11. \A i, j \in 1..n : i # j => o[i] # o[j]
      <4> SUFFICES ASSUME NEW i \in 1..n, NEW j \in 1..n, i # j PROVE o[i] # o[j]
        OBVIOUS
      <4>1. CASE i = 1 \/ j = 1
        BY <3>7, <3>9, <4>1
      <4>2. CASE i # 1 /\ j # 1
        <5>1. i - 1 \in 1..(n - 1) /\ j - 1 \in 1..(n - 1) /\ i - 1 # j - 1
          BY <3>8, <4>2
        <5> QED BY <3>5, <3>9, <4>2, <5>1
      <4> QED BY <4>1, <4>2
    <3>12. Sorted(o)
      <4> SUFFICES ASSUME NEW i \in 1..n, NEW j \in 1..n, i < j
                   PROVE  Before(cw, o[i], o[j])
        BY <3>10
      <4>0. j # 1
        BY <3>6
      <4>1. CASE i = 1
        BY <3>2, <3>7, <3>9, <4>0, <4>1
      <4>2. CASE i # 1
        <5>1. i - 1 \in DOMAIN q /\ j - 1 \in DOMAIN q /\ i - 1 < j - 1
          BY <3>5, <3>8, <4>0, <4>2
        <5>2. Before(cw, q[i - 1], q[j - 1])
          BY <3>3, <5>1
        <5> QED BY <3>9, <4>0, <4>2, <5>2
      <4> QED BY <4>1, <4>2
    <3> HIDE DEF o
    <3>13. o \in SetToSeqs(u)
      BY <3>10, <3>11 DEF SetToSeqs, n
    <3> QED BY <3>12, <3>13
  <2> QED BY <2>1, <2>2
<1>2. \A u \in SUBSET K : (\A v \in SUBSET u : v # u => v \in Good) => u \in Good
  BY <1>1
<1> HIDE DEF Good
<1>3. K \in Good
  BY <1>2, SetInduction
<1>4. \E o \in SetToSeqs(K) : Sorted(o)
  BY <1>3 DEF Good
<1> QED BY <1>4 DEF Ranked

\* The order names every candidate once.
LEMMA OrderShuffles ==
    ASSUME CurrentTyped, NEW W, Weighing(W), NEW s \in Scopes
    PROVE  Order(W, s) \in SetToSeqs(DOMAIN W)
<1> DEFINE D == DOMAIN W
           n == Cardinality(D)
<1>1. IsFiniteSet(D) /\ n \in Nat /\ n >= 1
  BY WeighingFinite
<1>2. CASE n = 1
  <2>1. Order(W, s) = CHOOSE f \in [1..n -> D] : IsInjective(f)
    BY <1>2 DEF Order, SetToSeq
  <2>2. \E f \in [1..n -> D] : IsInjective(f)
    <3>1. ExistsBijection(1..n, D)
      BY <1>1, FS_CardinalityType
    <3> QED BY <3>1 DEF ExistsBijection, Bijection, Injection, IsInjective
  <2> HIDE DEF n
  <2>3. Order(W, s) \in [1..n -> D] /\ IsInjective(Order(W, s))
    BY <2>1, <2>2
  <2>4. \A i, j \in 1..n : i # j => Order(W, s)[i] # Order(W, s)[j]
    BY <2>3 DEF IsInjective
  <2> QED BY <2>3, <2>4 DEF SetToSeqs, n
<1>3. CASE n # 1
  <2> DEFINE k == Primary(W, s)
             K == KeysOf(W, s) \ {k}
             rest == Ranked(K, Charged(W, s))
  <2>1. KeysOf(W, s) = D \X {s} /\ k \in D \X {s} /\ k = <<k[1], s>> /\ k[1] \in D
    BY PrimaryFirst DEF KeysOf
  <2>2. D \subseteq Providers
    BY DEF Weighing
  <2>3. IsFiniteSet(D \X {s}) /\ Cardinality(D \X {s}) = n
    <3>1. /\ IsFiniteSet({s}) /\ Cardinality({s}) = 1
      BY FS_Singleton
    <3>2. /\ IsFiniteSet(D \X {s})
          /\ Cardinality(D \X {s}) = Cardinality(D) * Cardinality({s})
      BY <1>1, <3>1, FS_Product
    <3> QED BY <1>1, <3>1, <3>2
  <2>4. /\ IsFiniteSet(K) /\ Cardinality(K) = n - 1 /\ K \subseteq Providers \X {s}
    <3>1. /\ IsFiniteSet((D \X {s}) \ {k})
          /\ Cardinality((D \X {s}) \ {k}) = n - 1
      <4> HIDE DEF D, n, k
      <4> QED BY <2>1, <2>3, FS_RemoveElement
    <3>2. K = (D \X {s}) \ {k}
      BY <2>1
    <3>3. (D \X {s}) \ {k} \subseteq Providers \X {s}
      BY <2>2
    <3> QED BY <3>1, <3>2, <3>3
  <2>5. \A l \in K : Charged(W, s)[l] \in Int
    BY ChargedTyped
  <2>6. rest \in SetToSeqs(K)
    <3> DEFINE cw == Charged(W, s)
    <3>1. \A l \in K : cw[l] \in Int
      BY <2>5
    <3> HIDE DEF cw, K
    <3>2. Ranked(K, cw) \in SetToSeqs(K)
      BY <2>4, <3>1, RankedExists
    <3> QED BY <3>2 DEF cw
  <2>7. /\ rest \in [1..(n - 1) -> K]
        /\ \A i, j \in 1..(n - 1) : i # j => rest[i] # rest[j]
    BY <2>4, <2>6 DEF SetToSeqs
  <2>8. Order(W, s) = [i \in 1..n |-> IF i = 1 THEN k[1] ELSE rest[i - 1][1]]
    BY <1>3 DEF Order
  <2>9. \A l \in K : l[1] \in D /\ l[1] # k[1] /\ l = <<l[1], s>>
    BY <2>1
  <2> HIDE DEF n, k, K, rest
  <2>10. \A i \in 1..n : i # 1 => i - 1 \in 1..(n - 1) /\ rest[i - 1] \in K
    BY <1>1, <2>7
  <2>11. Order(W, s) \in [1..n -> D]
    BY <2>1, <2>8, <2>9, <2>10
  <2>12. \A i, j \in 1..n : i # j => Order(W, s)[i] # Order(W, s)[j]
    <3> SUFFICES ASSUME NEW i \in 1..n, NEW j \in 1..n, i # j
                 PROVE  Order(W, s)[i] # Order(W, s)[j]
      OBVIOUS
    <3>1. CASE i = 1 \/ j = 1
      BY <2>8, <2>9, <2>10, <3>1
    <3>2. CASE i # 1 /\ j # 1
      <4>1. /\ i - 1 \in 1..(n - 1) /\ j - 1 \in 1..(n - 1) /\ i - 1 # j - 1
            /\ rest[i - 1] \in K /\ rest[j - 1] \in K
        BY <2>10, <3>2
      <4>2. rest[i - 1] # rest[j - 1]
        BY <2>7, <4>1
      <4>3. rest[i - 1][1] # rest[j - 1][1]
        BY <2>9, <4>1, <4>2
      <4>4. Order(W, s)[i] = rest[i - 1][1] /\ Order(W, s)[j] = rest[j - 1][1]
        BY <2>8, <3>2
      <4> QED BY <4>3, <4>4
    <3> QED BY <3>1, <3>2
  <2> QED BY <2>11, <2>12 DEF SetToSeqs, n
<1> QED BY <1>2, <1>3

-----------------------------------------------------------------------------
(* The invariant. *)

\* The weight a provider has if it has one only, and those of some candidates.
OnlyWeight(p) == CHOOSE w \in Weights[p] : TRUE
Share(C) == [p \in C |-> OnlyWeight(p)]

\* Every provider has a weight that it can be given.
WeightsGiven == \A p \in Providers : weight[p] \in Weights[p]

\* What a request has read: candidates its scope may find, with weights they can be given.
SnapsKnown == \A r \in Requests : snap[r] # Idle =>
    /\ snap[r].scope \in Scopes /\ DOMAIN snap[r].cands \in CandidateSets[snap[r].scope]
    /\ \A p \in DOMAIN snap[r].cands : snap[r].cands[p] \in Weights[p]

\* A scope that always finds the same candidates with the same weights.
Steady(s, C) ==
    /\ CandidateSets[s] = {C} /\ C \cap Removable = {}
    /\ \A p \in C : Cardinality(Weights[p]) = 1

\* The turns a candidate has had in the round, and what it has on its account.
Taken(p, s) == turns[<<p, s>>]
Account(p, s) == Entry(<<p, s>>)

\* The selections of the round so far.
RoundOf(s) == SumFunctionOnSet(turns, Providers \X {s})

\* What a candidate has is what it has gained in the round less what it has paid.
Balanced(s, C) ==
    /\ \A p \in Providers \ C : Taken(p, s) = 0
    /\ \A p \in C : Taken(p, s) <= OnlyWeight(p)
    /\ Cardinality(C) # 1 =>
        \A p \in C :
            Account(p, s) = RoundOf(s) * OnlyWeight(p) - Taken(p, s) * Total(Share(C))

\* The rounds of all scopes that always find the same candidates.
RoundsBalanced == \A s \in Scopes, C \in SUBSET Providers : Steady(s, C) => Balanced(s, C)

\* The inductive invariant.
SchedulerInv == TypeOK /\ WeightsGiven /\ SnapsKnown /\ RoundsBalanced

\* The candidates of such a scope and their weights.
LEMMA SteadyShare ==
    ASSUME NEW s \in Scopes, NEW C \in SUBSET Providers, Steady(s, C)
    PROVE  /\ C # {} /\ IsFiniteSet(C)
           /\ \A p \in C : OnlyWeight(p) \in Nat \ {0} /\ Weights[p] = {OnlyWeight(p)}
           /\ DOMAIN Share(C) = C /\ Weighing(Share(C))
           /\ \A p \in C : Share(C)[p] = OnlyWeight(p)
<1>1. C # {} /\ IsFiniteSet(C)
  BY FS_Subset, WeightedSchedulerAssumption DEF Steady
<1>2. ASSUME NEW p \in C
      PROVE  OnlyWeight(p) \in Nat \ {0} /\ Weights[p] = {OnlyWeight(p)}
  <2>1. IsFiniteSet(Weights[p]) /\ Cardinality(Weights[p]) = 1 /\ Weights[p] \subseteq Nat \ {0}
    BY WeightedSchedulerAssumption DEF Steady
  <2>2. PICK w : Weights[p] = {w}
    BY <2>1, FS_Singleton
  <2> QED BY <2>1, <2>2 DEF OnlyWeight
<1> QED BY <1>1, <1>2 DEF Share, Weighing

\* The turns of a candidate are counted from zero.
LEMMA TakenTyped == ASSUME TypeOK, NEW s \in Scopes PROVE \A p \in Providers : Taken(p, s) \in Nat
<1>1. \A k \in ScopedKeys : turns[k] \in Nat
  BY DEF TypeOK
<1>2. ASSUME NEW p \in Providers
      PROVE  Taken(p, s) \in Nat
  <2>1. <<p, s>> \in ScopedKeys
    BY DEF ScopedKeys
  <2> QED BY <1>1, <2>1 DEF Taken
<1> QED BY <1>2

\* The turns of the keys of a scope sum up to the turns of the candidates.
LEMMA RoundSum ==
    ASSUME NEW s, NEW C \in SUBSET Providers, NEW f, NEW t, SpreadOver(t, Providers, s, f, C)
    PROVE  SumFunctionOnSet(t, Providers \X {s}) = SumFunctionOnSet(f, C)
<1>1. IsFiniteSet(Providers) /\ C \subseteq Providers
  BY WeightedSchedulerAssumption
<1>2. SumFunctionOnSet(t, ScopedBy(Providers, s)) = SumFunctionOnSet(f, C)
  BY <1>1, SumOfScope
<1> QED BY <1>2 DEF ScopedBy

\* The rounds of a scope are not disturbed by what leaves its turns and its accounts.
LEMMA OtherScope ==
    ASSUME TypeOK, NEW s \in Scopes, NEW C \in SUBSET Providers, Balanced(s, C),
           \A p \in Providers : Taken(p, s)' = Taken(p, s),
           \A p \in C : Account(p, s)' = Account(p, s)
    PROVE  Balanced(s, C)'
<1>1. RoundOf(s)' = RoundOf(s)
  <2>1. IsFiniteSet(Providers \X {s})
    BY FS_Product, FS_Singleton, WeightedSchedulerAssumption
  <2>2. \A k \in Providers \X {s} : turns[k] \in Int /\ turns'[k] = turns[k]
    <3>1. \A k \in Providers \X {s} : k = <<k[1], s>> /\ k[1] \in Providers
      OBVIOUS
    <3>2. \A p \in Providers : turns[<<p, s>>] \in Int /\ turns'[<<p, s>>] = turns[<<p, s>>]
      BY TakenTyped DEF Taken
    <3> QED BY <3>1, <3>2
  <2>3. SumFunctionOnSet(turns, Providers \X {s}) = SumFunctionOnSet(turns', Providers \X {s})
    BY <2>1, <2>2, SumSame
  <2> QED BY <2>3 DEF RoundOf
<1> QED BY <1>1 DEF Balanced

\* How far the round is.
LEMMA RoundTyped ==
    ASSUME TypeOK, NEW s \in Scopes, NEW C \in SUBSET Providers, Steady(s, C), Balanced(s, C)
    PROVE  /\ RoundOf(s) \in Nat /\ RoundOf(s) <= Total(Share(C))
           /\ RoundOf(s) >= Total(Share(C)) => \A p \in C : Taken(p, s) = OnlyWeight(p)
<1>0. PICK t, w : t = [p \in C |-> Taken(p, s)] /\ w = Share(C)
  OBVIOUS
<1>1. IsFiniteSet(C) /\ C \subseteq Providers
  BY SteadyShare
<1>2. \A p \in C : t[p] \in Nat /\ t[p] = Taken(p, s)
  BY <1>0, <1>1, TakenTyped
<1>3. \A p \in C : w[p] \in Nat /\ w[p] = OnlyWeight(p)
  BY <1>0, SteadyShare
<1>4. Below(t, w, C)
  <2>1. \A p \in C : Taken(p, s) <= OnlyWeight(p)
    BY DEF Balanced
  <2> QED BY <1>2, <1>3, <2>1 DEF Below
<1>5. RoundOf(s) = SumFunctionOnSet(t, C)
  <2>1. \A p \in Providers : turns[<<p, s>>] \in Int
    BY TakenTyped DEF Taken
  <2>2. \A p \in Providers \ C : turns[<<p, s>>] = 0
    BY DEF Balanced, Taken
  <2>3. \A p \in C : t[p] = turns[<<p, s>>]
    BY <1>2 DEF Taken
  <2>4. SpreadOver(turns, Providers, s, t, C)
    BY <2>1, <2>2, <2>3 DEF SpreadOver
  <2>5. SumFunctionOnSet(turns, Providers \X {s}) = SumFunctionOnSet(t, C)
    BY <2>4, RoundSum
  <2> QED BY <2>5 DEF RoundOf
<1>6. Total(Share(C)) = SumFunctionOnSet(w, C)
  BY <1>0, SteadyShare DEF Total
<1>7. SumFunctionOnSet(t, C) <= SumFunctionOnSet(w, C)
  BY <1>1, <1>4, SumMonotone DEF Below
<1>8. SumFunctionOnSet(t, C) \in Nat /\ SumFunctionOnSet(w, C) \in Nat
  BY <1>1, <1>2, <1>3, SumNatural
<1>9. ASSUME RoundOf(s) >= Total(Share(C))
      PROVE  \A p \in C : Taken(p, s) = OnlyWeight(p)
  <2>1. SumFunctionOnSet(w, C) <= SumFunctionOnSet(t, C)
    BY <1>5, <1>6, <1>8, <1>9
  <2>2. Agree(t, w, C)
    BY <1>1, <1>4, <2>1, SumTight
  <2> QED BY <1>2, <1>3, <2>2 DEF Agree
<1> QED BY <1>5, <1>6, <1>7, <1>8, <1>9

\* A gain and a payment.
LEMMA Gains ==
    ASSUME NEW n \in Int, NEW w \in Int, NEW b \in Int, NEW total \in Int
    PROVE  /\ (n * w - b * total) + w = (n + 1) * w - b * total
           /\ ((n + 1) * w - b * total) - total = (n + 1) * w - (b + 1) * total
           /\ total * w - w * total = 0
           /\ 0 * w - 0 * total = 0
  OBVIOUS

\* Who has more than nothing after the gain has not had all its turns.
LEMMA Ahead ==
    ASSUME NEW n \in Nat, NEW w \in Nat, NEW b \in Nat, NEW total \in Nat,
           n + 1 <= total, (n + 1) * w > b * total
    PROVE  b < w
<1>1. SUFFICES ASSUME b >= w PROVE FALSE
  OBVIOUS
<1>2. b * total >= w * total
  BY <1>1
<1>3. w * total >= w * (n + 1)
  OBVIOUS
<1>4. b * total \in Int /\ w * total \in Int /\ w * (n + 1) \in Int
      /\ (n + 1) * w = w * (n + 1)
  OBVIOUS
<1> QED BY <1>2, <1>3, <1>4

\* Of those who share n turns by their weights one has not had its part of n + 1.
LEMMA OneIsDue ==
    ASSUME NEW C, IsFiniteSet(C), NEW w, NEW b, NEW n \in Nat,
           \A p \in C : w[p] \in Nat /\ b[p] \in Nat,
           SumFunctionOnSet(b, C) = n, SumFunctionOnSet(w, C) >= 1
    PROVE  \E p \in C : (n + 1) * w[p] > b[p] * SumFunctionOnSet(w, C)
<1>1. PICK total : total = SumFunctionOnSet(w, C)
  OBVIOUS
<1>2. total \in Nat
  BY <1>1, SumNatural
<1>3. SUFFICES ASSUME \A p \in C : ~((n + 1) * w[p] > b[p] * total)
               PROVE  FALSE
  BY <1>1
<1>4. PICK f, g : f = [p \in C |-> (n + 1) * w[p]] /\ g = [p \in C |-> total * b[p]]
  OBVIOUS
<1>5. \A p \in C : /\ f[p] = (n + 1) * w[p] /\ g[p] = total * b[p]
                   /\ w[p] \in Int /\ b[p] \in Int
  BY <1>4
<1>6. SumFunctionOnSet(f, C) = (n + 1) * total
  <2>1. Multiple(f, n + 1, w, C)
    BY <1>5 DEF Multiple
  <2> QED BY <1>1, <2>1, SumScaled
<1>7. SumFunctionOnSet(g, C) = total * n
  <2>1. Multiple(g, total, b, C)
    BY <1>5 DEF Multiple
  <2> QED BY <1>2, <2>1, SumScaled
<1>8. SumFunctionOnSet(f, C) <= SumFunctionOnSet(g, C)
  <2>1. \A p \in C : f[p] \in Int /\ g[p] \in Int /\ f[p] <= g[p]
    <3> TAKE p \in C
    <3>1. w[p] \in Nat /\ b[p] \in Nat /\ f[p] = (n + 1) * w[p] /\ g[p] = total * b[p]
      BY <1>5
    <3>2. (n + 1) * w[p] \in Int /\ total * b[p] \in Int /\ total * b[p] = b[p] * total
      BY <1>2, <3>1
    <3> QED BY <1>3, <3>1, <3>2
  <2> QED BY <2>1, SumMonotone
<1>9. (n + 1) * total = total * n + total
  BY <1>2
<1>10. total * n \in Int
  BY <1>2
<1> QED BY <1>1, <1>2, <1>6, <1>7, <1>8, <1>9, <1>10

\* What the accounts and the turns are when the next turn of a round is taken: of
\* a round that is over nothing is left.
LEMMA RoundResumed ==
    ASSUME TypeOK, NEW s \in Scopes, NEW C \in SUBSET Providers, Steady(s, C), Balanced(s, C),
           NEW b, b = [p \in Providers |->
                         IF RoundOf(s) >= Total(Share(C)) THEN 0 ELSE Taken(p, s)]
    PROVE  \E n \in Nat :
             /\ n < Total(Share(C)) /\ SumFunctionOnSet(b, C) = n
             /\ \A p \in Providers : b[p] \in Nat
             /\ \A p \in Providers \ C : b[p] = 0
             /\ \A p \in C : b[p] <= OnlyWeight(p)
             /\ Cardinality(C) # 1 => \A p \in C :
                  Account(p, s) = n * OnlyWeight(p) - b[p] * Total(Share(C))
<1>1. PICK n : n = IF RoundOf(s) >= Total(Share(C)) THEN 0 ELSE RoundOf(s)
  OBVIOUS
<1>2. /\ Total(Share(C)) \in Nat /\ Total(Share(C)) >= 1
      /\ RoundOf(s) \in Nat /\ RoundOf(s) <= Total(Share(C))
  BY RoundTyped, SteadyShare, WeighingFinite
<1>3. n \in Nat /\ n < Total(Share(C))
  BY <1>1, <1>2
<1>4. /\ IsFiniteSet(C) /\ C \subseteq Providers
      /\ \A p \in C : OnlyWeight(p) \in Nat
      /\ \A p \in Providers : Taken(p, s) \in Nat
      /\ \A p \in Providers \ C : Taken(p, s) = 0
      /\ \A p \in C : Taken(p, s) <= OnlyWeight(p)
  BY SteadyShare, TakenTyped DEF Balanced
<1>5. CASE RoundOf(s) >= Total(Share(C))
  <2>1. n = 0 /\ \A p \in Providers : b[p] = 0
    BY <1>1, <1>5
  <2>2. SumFunctionOnSet(b, C) = 0
    <3>1. \A p \in C : b[p] \in Int
      BY <1>4, <2>1
    <3>4. Multiple(b, 0, b, C)
      BY <1>4, <2>1 DEF Multiple
    <3>2. SumFunctionOnSet(b, C) = 0 * SumFunctionOnSet(b, C)
      BY <1>4, <3>4, SumScaled
    <3>3. SumFunctionOnSet(b, C) \in Int
      BY <1>4, <3>1, SumTyped
    <3> QED BY <3>2, <3>3
  <2>3. ASSUME Cardinality(C) # 1, NEW p \in C
        PROVE  Account(p, s) = n * OnlyWeight(p) - b[p] * Total(Share(C))
    <3>1. RoundOf(s) = Total(Share(C))
      BY <1>2, <1>5
    <3>2. Taken(p, s) = OnlyWeight(p)
      BY <1>5, RoundTyped
    <3>3. Account(p, s) = RoundOf(s) * OnlyWeight(p) - Taken(p, s) * Total(Share(C))
      BY <2>3 DEF Balanced
    <3>4. Account(p, s) = 0
      BY <1>2, <1>4, <3>1, <3>2, <3>3
    <3>5. b[p] = 0
      BY <1>4, <2>1
    <3> QED BY <1>2, <1>4, <2>1, <3>4, <3>5
  <2> QED BY <1>3, <1>4, <2>1, <2>2, <2>3
<1>6. CASE ~(RoundOf(s) >= Total(Share(C)))
  <2>1. n = RoundOf(s) /\ \A p \in Providers : b[p] = Taken(p, s)
    BY <1>1, <1>6
  <2>2. SumFunctionOnSet(b, C) = n
    <3>1. SpreadOver(turns, Providers, s, b, C)
      BY <1>4, <2>1 DEF SpreadOver, Taken
    <3>2. SumFunctionOnSet(turns, Providers \X {s}) = SumFunctionOnSet(b, C)
      BY <3>1, RoundSum
    <3> QED BY <2>1, <3>2 DEF RoundOf
  <2>3. Cardinality(C) # 1 => \A p \in C :
          Account(p, s) = n * OnlyWeight(p) - b[p] * Total(Share(C))
    BY <1>4, <2>1 DEF Balanced
  <2> QED BY <1>3, <1>4, <2>1, <2>2, <2>3
<1> QED BY <1>5, <1>6

\* The turns of a scope after a selection: the first candidate has one more.
LEMMA TurnCounted ==
    ASSUME TypeOK, NEW s \in Scopes, NEW C \in SUBSET Providers, Steady(s, C),
           NEW b, b = [p \in Providers |->
                         IF RoundOf(s) >= Total(Share(C)) THEN 0 ELSE Taken(p, s)],
           turns' = Counted(Share(C), s)
    PROVE  \A p \in Providers :
             Taken(p, s)' = b[p] + IF p = Order(Share(C), s)[1] THEN 1 ELSE 0
<1>1. DOMAIN Share(C) = C /\ CandidateSets[s] = {C}
  BY SteadyShare DEF Steady
<1>2. ASSUME NEW p \in Providers
      PROVE  Taken(p, s)' = b[p] + IF p = Order(Share(C), s)[1] THEN 1 ELSE 0
  <2>1. <<p, s>> \in ScopedKeys /\ <<p, s>>[1] = p /\ <<p, s>>[2] = s
    BY DEF ScopedKeys
  <2>2. Counted(Share(C), s)[<<p, s>>] =
          (IF RoundOf(s) >= Total(Share(C)) THEN 0 ELSE turns[<<p, s>>])
          + IF p = Order(Share(C), s)[1] THEN 1 ELSE 0
    BY <1>1, <2>1 DEF Counted, RoundOf
  <2> QED BY <2>2 DEF Taken
<1> QED BY <1>2

\* What the candidates have after a selection of several, whatever they weigh.
LEMMA AccountsCharged ==
    ASSUME CurrentTyped, NEW W, Weighing(W), NEW s \in Scopes,
           Cardinality(DOMAIN W) # 1, Schedule(W, s), NEW q, q = Order(W, s)[1]
    PROVE  /\ q \in DOMAIN W
           /\ \A p \in DOMAIN W :
                /\ Account(p, s) + W[p] <= Account(q, s) + W[q]
                /\ Account(p, s)' = (Account(p, s) + W[p]) - IF p = q THEN Total(W) ELSE 0
           /\ \A p \in Providers \ DOMAIN W : Account(p, s)' = Account(p, s)
<1>1. q \in DOMAIN W /\ q = Primary(W, s)[1]
  BY OrderFirst
<1>2. /\ Primary(W, s) \in KeysOf(W, s)
      /\ \A l \in KeysOf(W, s) : Accrued(W, s)[l] <= Accrued(W, s)[Primary(W, s)]
  BY PrimaryFirst
<1>3. Primary(W, s) = <<q, s>>
  BY <1>1, <1>2 DEF KeysOf
<1>4. current' = Charged(W, s)
  BY DEF Schedule
<1>5. /\ DOMAIN Accrued(W, s) = DOMAIN current \cup KeysOf(W, s)
      /\ DOMAIN Charged(W, s) = DOMAIN current \cup KeysOf(W, s)
  BY AccruedTyped, ChargedTyped
<1>6. ASSUME NEW p \in DOMAIN W
      PROVE  /\ <<p, s>> \in KeysOf(W, s)
             /\ Accrued(W, s)[<<p, s>>] = Account(p, s) + W[p]
             /\ Account(p, s)' = Charged(W, s)[<<p, s>>]
  <2>1. <<p, s>> \in KeysOf(W, s) /\ <<p, s>>[1] = p
    BY DEF KeysOf
  <2>2. <<p, s>> \in DOMAIN Accrued(W, s) /\ <<p, s>> \in DOMAIN Charged(W, s)
    BY <1>5, <2>1
  <2>3. Accrued(W, s)[<<p, s>>] = Entry(<<p, s>>) + W[<<p, s>>[1]]
    BY <2>1, <2>2, AccruedTyped
  <2>4. Accrued(W, s)[<<p, s>>] = Account(p, s) + W[p]
    BY <2>1, <2>3 DEF Account
  <2>5. Account(p, s)' = Charged(W, s)[<<p, s>>]
    BY <1>4, <2>2 DEF Account, Entry
  <2> QED BY <2>1, <2>4, <2>5
<1>7. ASSUME NEW p \in DOMAIN W
      PROVE  /\ Account(p, s) + W[p] <= Account(q, s) + W[q]
             /\ Account(p, s)' = (Account(p, s) + W[p]) - IF p = q THEN Total(W) ELSE 0
  <2>1. Accrued(W, s)[<<p, s>>] <= Accrued(W, s)[<<q, s>>]
    BY <1>2, <1>3, <1>6
  <2>2. <<p, s>> \in DOMAIN Charged(W, s)
    BY <1>5, <1>6
  <2>3. Charged(W, s)[<<p, s>>] =
          Accrued(W, s)[<<p, s>>] - IF <<p, s>> = Primary(W, s) THEN Total(W) ELSE 0
    BY <2>2, ChargedTyped
  <2>4. (<<p, s>> = Primary(W, s)) <=> (p = q)
    BY <1>3
  <2>5. /\ Accrued(W, s)[<<p, s>>] = Account(p, s) + W[p]
        /\ Accrued(W, s)[<<q, s>>] = Account(q, s) + W[q]
        /\ Account(p, s)' = Charged(W, s)[<<p, s>>]
    BY <1>1, <1>6
  <2> QED BY <2>1, <2>3, <2>4, <2>5
<1>8. ASSUME NEW p \in Providers \ DOMAIN W
      PROVE  Account(p, s)' = Account(p, s)
  <2>1. <<p, s>> \notin KeysOf(W, s) /\ <<p, s>> # Primary(W, s)
    BY <1>1, <1>3 DEF KeysOf
  <2>2. CASE <<p, s>> \in DOMAIN current
    <3>1. <<p, s>> \in DOMAIN Accrued(W, s) /\ <<p, s>> \in DOMAIN Charged(W, s)
      BY <1>5, <2>2
    <3>2. Charged(W, s)[<<p, s>>] =
            Accrued(W, s)[<<p, s>>] - IF <<p, s>> = Primary(W, s) THEN Total(W) ELSE 0
      BY <3>1, ChargedTyped
    <3>3. /\ Accrued(W, s)[<<p, s>>] = Entry(<<p, s>>)
          /\ Accrued(W, s)[<<p, s>>] \in Int
      BY <2>1, <3>1, AccruedTyped
    <3>4. Charged(W, s)[<<p, s>>] = Entry(<<p, s>>)
      BY <2>1, <3>2, <3>3
    <3>5. Entry(<<p, s>>)' = Charged(W, s)[<<p, s>>]
      BY <1>4, <3>1 DEF Entry
    <3> QED BY <3>4, <3>5 DEF Account
  <2>3. CASE <<p, s>> \notin DOMAIN current
    <3>1. <<p, s>> \notin DOMAIN Charged(W, s)
      BY <1>5, <2>1, <2>3
    <3> QED BY <1>4, <2>3, <3>1 DEF Account, Entry
  <2> QED BY <2>2, <2>3
<1> QED BY <1>1, <1>7, <1>8

\* What the candidates of such a scope have after a selection.
LEMMA TurnCharged ==
    ASSUME TypeOK, NEW s \in Scopes, NEW C \in SUBSET Providers, Steady(s, C),
           Cardinality(C) # 1, Schedule(Share(C), s), NEW q, q = Order(Share(C), s)[1]
    PROVE  /\ q \in C
           /\ \A p \in C :
                /\ Account(p, s) + OnlyWeight(p) <= Account(q, s) + OnlyWeight(q)
                /\ Account(p, s)' = (Account(p, s) + OnlyWeight(p))
                                    - IF p = q THEN Total(Share(C)) ELSE 0
<1>1. PICK W : W = Share(C)
  OBVIOUS
<1>2. CurrentTyped /\ DOMAIN W = C /\ Weighing(W) /\ \A p \in C : W[p] = OnlyWeight(p)
  BY <1>1, SteadyShare DEF TypeOK, CurrentTyped
<1>3. /\ q \in C
      /\ \A p \in C :
           /\ Account(p, s) + W[p] <= Account(q, s) + W[q]
           /\ Account(p, s)' = (Account(p, s) + W[p]) - IF p = q THEN Total(W) ELSE 0
  BY <1>1, <1>2, AccountsCharged
<1> QED BY <1>1, <1>2, <1>3

\* A turn of a round: nobody takes more than it weighs, and the accounts follow.
LEMMA TurnTaken ==
    ASSUME TypeOK, NEW s \in Scopes, NEW C \in SUBSET Providers, Steady(s, C), Balanced(s, C),
           Schedule(Share(C), s), turns' = Counted(Share(C), s)
    PROVE  Balanced(s, C)'
<1>1. PICK b : b = [p \in Providers |->
                      IF RoundOf(s) >= Total(Share(C)) THEN 0 ELSE Taken(p, s)]
  OBVIOUS
<1>2. PICK n \in Nat :
             /\ n < Total(Share(C)) /\ SumFunctionOnSet(b, C) = n
             /\ \A p \in Providers : b[p] \in Nat
             /\ \A p \in Providers \ C : b[p] = 0
             /\ \A p \in C : b[p] <= OnlyWeight(p)
             /\ Cardinality(C) # 1 => \A p \in C :
                  Account(p, s) = n * OnlyWeight(p) - b[p] * Total(Share(C))
  BY <1>1, RoundResumed
<1>3. PICK q : q = Order(Share(C), s)[1]
  OBVIOUS
<1>4. /\ IsFiniteSet(C) /\ C \subseteq Providers
      /\ \A p \in C : OnlyWeight(p) \in Nat /\ Share(C)[p] = OnlyWeight(p)
      /\ DOMAIN Share(C) = C /\ Weighing(Share(C)) /\ CurrentTyped
  BY SteadyShare DEF TypeOK, CurrentTyped
<1>5. q \in C
  BY <1>3, <1>4, OrderFirst
<1>6. \A p \in Providers : Taken(p, s)' = b[p] + IF p = q THEN 1 ELSE 0
  BY <1>1, <1>3, TurnCounted
<1>7. Total(Share(C)) = SumFunctionOnSet(Share(C), C)
      /\ Total(Share(C)) \in Nat /\ Total(Share(C)) >= 1
  BY <1>4, WeighingFinite DEF Total
<1>8. b[q] < OnlyWeight(q)
  <2>1. CASE Cardinality(C) = 1
    <3>1. C = {q}
      BY <1>4, <1>5, <2>1, FS_Singleton
    <3>2. IsFiniteSet({}) /\ C \ {q} = {}
      BY <3>1, FS_EmptySet
    <3>3. b[q] \in Nat /\ OnlyWeight(q) \in Nat /\ Share(C)[q] = OnlyWeight(q)
      BY <1>2, <1>4, <1>5
    <3>4. SumFunctionOnSet(b, {}) = 0 /\ SumFunctionOnSet(Share(C), {}) = 0
      BY <3>2, SumStep
    <3>5. SumFunctionOnSet(b, C) = b[q] + SumFunctionOnSet(b, {})
      <4>1. \A p \in C : b[p] \in Int
        BY <1>2, <1>4
      <4> QED BY <1>4, <1>5, <3>2, <4>1, SumRemove
    <3>6. SumFunctionOnSet(Share(C), C) = Share(C)[q] + SumFunctionOnSet(Share(C), {})
      <4>1. \A p \in C : Share(C)[p] \in Int
        BY <1>4
      <4> QED BY <1>4, <1>5, <3>2, <4>1, SumRemove
    <3> QED BY <1>2, <1>7, <3>3, <3>4, <3>5, <3>6
  <2>2. CASE Cardinality(C) # 1
    <3>1. PICK total : total = Total(Share(C))
      OBVIOUS
    <3>2. PICK p \in C : (n + 1) * Share(C)[p] > b[p] * total
      <4>1. \A p \in C : Share(C)[p] \in Nat /\ b[p] \in Nat
        BY <1>2, <1>4
      <4> QED BY <1>2, <1>4, <1>7, <3>1, <4>1, OneIsDue
    <3>3. /\ b[p] \in Nat /\ b[q] \in Nat /\ total \in Nat
          /\ OnlyWeight(p) \in Nat /\ OnlyWeight(q) \in Nat
          /\ Share(C)[p] = OnlyWeight(p)
      BY <1>2, <1>4, <1>5, <1>7, <3>1
    <3>4. /\ Account(p, s) = n * OnlyWeight(p) - b[p] * total
          /\ Account(q, s) = n * OnlyWeight(q) - b[q] * total
      BY <1>2, <1>5, <2>2, <3>1
    <3>5. Account(p, s) + OnlyWeight(p) <= Account(q, s) + OnlyWeight(q)
      BY <1>3, <2>2, TurnCharged
    <3>6. /\ (n * OnlyWeight(p) - b[p] * total) + OnlyWeight(p)
               = (n + 1) * OnlyWeight(p) - b[p] * total
          /\ (n * OnlyWeight(q) - b[q] * total) + OnlyWeight(q)
               = (n + 1) * OnlyWeight(q) - b[q] * total
      <4>1. /\ n \in Int /\ total \in Int /\ b[p] \in Int /\ b[q] \in Int
            /\ OnlyWeight(p) \in Int /\ OnlyWeight(q) \in Int
        BY <3>3
      <4>2. (n * OnlyWeight(p) - b[p] * total) + OnlyWeight(p)
               = (n + 1) * OnlyWeight(p) - b[p] * total
        BY <4>1, Gains
      <4>3. (n * OnlyWeight(q) - b[q] * total) + OnlyWeight(q)
               = (n + 1) * OnlyWeight(q) - b[q] * total
        BY <4>1, Gains
      <4> QED BY <4>2, <4>3
    <3>7. (n + 1) * OnlyWeight(q) > b[q] * total
      <4>1. /\ (n + 1) * OnlyWeight(p) \in Int /\ b[p] * total \in Int
            /\ (n + 1) * OnlyWeight(q) \in Int /\ b[q] * total \in Int
        BY <3>3
      <4> QED BY <3>2, <3>3, <3>4, <3>5, <3>6, <4>1
    <3>8. n + 1 <= total
      BY <1>2, <1>7, <3>1
    <3> QED BY <3>3, <3>7, <3>8, Ahead
  <2> QED BY <2>1, <2>2
<1>9. RoundOf(s)' = n + 1
  <2>1. PICK f : f = [p \in Providers |-> b[p] + IF p = q THEN 1 ELSE 0]
    OBVIOUS
  <2>2. SpreadOver(turns', Providers, s, f, C)
    <3>1. \A p \in Providers : turns'[<<p, s>>] = f[p] /\ f[p] \in Int
      BY <1>2, <1>6, <2>1 DEF Taken
    <3>2. \A p \in Providers \ C : f[p] = 0
      BY <1>2, <1>5, <2>1
    <3> QED BY <1>4, <3>1, <3>2 DEF SpreadOver
  <2>3. SumFunctionOnSet(turns', Providers \X {s}) = SumFunctionOnSet(f, C)
    BY <2>2, RoundSum
  <2>4. SumFunctionOnSet(f, C) = SumFunctionOnSet(b, C) + 1
    <3>1. \A p \in C : b[p] \in Int /\ f[p] = b[p] + IF p = q THEN 1 ELSE 0
      BY <1>2, <1>4, <2>1
    <3> QED BY <1>4, <1>5, <3>1, SumBumped
  <2> QED BY <1>2, <2>3, <2>4 DEF RoundOf
<1>10. (\A p \in Providers \ C : Taken(p, s) = 0)'
  BY <1>2, <1>5, <1>6
<1>11. (\A p \in C : Taken(p, s) <= OnlyWeight(p))'
  <2>1. ASSUME NEW p \in C
        PROVE  Taken(p, s)' <= OnlyWeight(p)
    <3>1. /\ b[p] \in Nat /\ OnlyWeight(p) \in Nat /\ b[p] <= OnlyWeight(p)
          /\ Taken(p, s)' = b[p] + IF p = q THEN 1 ELSE 0
      BY <1>2, <1>4, <1>6
    <3> QED BY <1>8, <3>1
  <2> QED BY <2>1
<1>12. ASSUME Cardinality(C) # 1, NEW p \in C
       PROVE  Account(p, s)' =
                RoundOf(s)' * OnlyWeight(p) - Taken(p, s)' * Total(Share(C))
  <2>1. PICK total : total = Total(Share(C))
    OBVIOUS
  <2>2. /\ b[p] \in Nat /\ OnlyWeight(p) \in Nat /\ total \in Nat
        /\ Taken(p, s)' = b[p] + IF p = q THEN 1 ELSE 0
    BY <1>2, <1>4, <1>6, <1>7, <2>1
  <2>3. Account(p, s) = n * OnlyWeight(p) - b[p] * total
    BY <1>2, <1>12, <2>1
  <2>4. Account(p, s)' = (Account(p, s) + OnlyWeight(p)) - IF p = q THEN total ELSE 0
    BY <1>3, <1>12, <2>1, TurnCharged
  <2>5. /\ (n * OnlyWeight(p) - b[p] * total) + OnlyWeight(p)
             = (n + 1) * OnlyWeight(p) - b[p] * total
        /\ ((n + 1) * OnlyWeight(p) - b[p] * total) - total
             = (n + 1) * OnlyWeight(p) - (b[p] + 1) * total
    BY <2>2, Gains
  <2>6. CASE p = q
    <3>1. /\ Account(p, s)' = (Account(p, s) + OnlyWeight(p)) - total
          /\ Taken(p, s)' = b[p] + 1
      BY <2>2, <2>4, <2>6
    <3>2. Account(p, s)' = (n + 1) * OnlyWeight(p) - (b[p] + 1) * total
      BY <2>3, <2>5, <3>1
    <3> QED BY <1>9, <2>1, <3>1, <3>2
  <2>7. CASE p # q
    <3>1. /\ (n + 1) * OnlyWeight(p) \in Int /\ b[p] * total \in Int
          /\ n * OnlyWeight(p) \in Int
      BY <2>2
    <3>2. /\ Account(p, s)' = Account(p, s) + OnlyWeight(p)
          /\ Taken(p, s)' = b[p]
      BY <2>2, <2>3, <2>4, <2>7, <3>1
    <3> QED BY <1>9, <2>1, <2>3, <2>5, <3>2
  <2> QED BY <2>6, <2>7
<1> QED BY <1>10, <1>11, <1>12 DEF Balanced

-----------------------------------------------------------------------------
(* The steps. *)

\* What a request has read.
Weighed(r) == snap[r].cands
ScopeOf(r) == snap[r].scope

\* A scope and the weights of some candidates are something a request can read.
LEMMA Readable ==
    ASSUME NEW s \in Scopes, NEW C \in (SUBSET Providers) \ {{}}, NEW f \in [C -> AnyWeight]
    PROVE  [scope |-> s, cands |-> f] \in Snapshots
<1>1. f \in UNION {[D -> AnyWeight] : D \in (SUBSET Providers) \ {{}}}
  OBVIOUS
<1> QED BY <1>1 DEF Snapshots

\* The given weights are weights.
LEMMA GivenWeight ==
    ASSUME NEW p \in Providers, NEW w \in Weights[p]
    PROVE  w \in AnyWeight /\ w \in Nat \ {0}
<1>1. Weights[p] \in SUBSET (Nat \ {0})
  BY WeightedSchedulerAssumption
<1> QED BY <1>1 DEF AnyWeight

\* What a request orders.
LEMMA RequestWeighs ==
    ASSUME TypeOK, SnapsKnown, NEW r \in Requests, snap[r] # Idle
    PROVE  /\ ScopeOf(r) \in Scopes /\ Weighing(Weighed(r)) /\ CurrentTyped
           /\ DOMAIN Weighed(r) \in CandidateSets[ScopeOf(r)]
           /\ Weighed(r) = [p \in DOMAIN Weighed(r) |-> Weighed(r)[p]]
<1>1. /\ ScopeOf(r) \in Scopes /\ DOMAIN Weighed(r) \in CandidateSets[ScopeOf(r)]
      /\ \A p \in DOMAIN Weighed(r) : Weighed(r)[p] \in Weights[p]
  BY DEF SnapsKnown, Weighed, ScopeOf
<1>2. DOMAIN Weighed(r) \in (SUBSET Providers) \ {{}}
  <2>1. CandidateSets[ScopeOf(r)] \in SUBSET ((SUBSET Providers) \ {{}})
    BY <1>1, WeightedSchedulerAssumption
  <2> QED BY <1>1, <2>1
<1>3. \A p \in DOMAIN Weighed(r) : Weighed(r)[p] \in Nat \ {0}
  BY <1>1, <1>2, GivenWeight
<1>4. Weighing(Weighed(r))
  BY <1>2, <1>3 DEF Weighing
<1>5. Weighed(r) = [p \in DOMAIN Weighed(r) |-> Weighed(r)[p]]
  <2>1. snap[r] \in Snapshots
    BY DEF TypeOK
  <2>2. Weighed(r) \in UNION {[C -> AnyWeight] : C \in (SUBSET Providers) \ {{}}}
    BY <2>1 DEF Snapshots, Weighed
  <2>3. PICK C : Weighed(r) \in [C -> AnyWeight]
    BY <2>2
  <2> QED BY <2>3
<1> QED BY <1>1, <1>4, <1>5 DEF TypeOK, CurrentTyped

\* A scope that a step does not concern stays balanced.
LEMMA Undisturbed ==
    ASSUME TypeOK, RoundsBalanced, UNCHANGED turns,
           \A s \in Scopes, p \in Providers \ Removable : Account(p, s)' = Account(p, s)
    PROVE  RoundsBalanced'
<1>1. SUFFICES ASSUME NEW s \in Scopes, NEW C \in SUBSET Providers, Steady(s, C)
               PROVE  Balanced(s, C)'
  BY DEF RoundsBalanced, Steady
<1>2. Balanced(s, C)
  BY <1>1 DEF RoundsBalanced
<1>3. \A p \in Providers : Taken(p, s)' = Taken(p, s)
  BY DEF Taken
<1>4. \A p \in C : Account(p, s)' = Account(p, s)
  BY <1>1 DEF Steady
<1> QED BY <1>2, <1>3, <1>4, OtherScope

\* At the start nothing is on any account and no round has begun.
LEMMA InitKeeps == Init => SchedulerInv
<1>1. SUFFICES ASSUME Init PROVE SchedulerInv
  OBVIOUS
<1>2. WeightsGiven
  BY <1>1 DEF Init, WeightsGiven
<1>3. SnapsKnown
  BY <1>1 DEF Init, SnapsKnown
<1>4. TypeOK
  BY <1>1 DEF Init, TypeOK, Snapshots
<1>5. ASSUME NEW s \in Scopes, NEW C \in SUBSET Providers, Steady(s, C)
      PROVE  Balanced(s, C)
  <2>1. \A p \in Providers : Taken(p, s) = 0
    BY <1>1 DEF Init, Taken, ScopedKeys
  <2>2. \A p \in C : OnlyWeight(p) \in Nat /\ Account(p, s) = 0
    BY <1>1, <1>5, SteadyShare DEF Init, Account, Entry
  <2>3. RoundOf(s) = 0
    <3>1. IsFiniteSet(Providers \X {s})
      BY FS_Product, FS_Singleton, WeightedSchedulerAssumption
    <3>2. \A k \in Providers \X {s} : turns[k] = 0
      BY <1>1 DEF Init, ScopedKeys
    <3>3. Multiple(turns, 0, turns, Providers \X {s})
      BY <3>2 DEF Multiple
    <3>4. SumFunctionOnSet(turns, Providers \X {s})
            = 0 * SumFunctionOnSet(turns, Providers \X {s})
      BY <3>1, <3>3, SumScaled, 0 \in Int
    <3>5. SumFunctionOnSet(turns, Providers \X {s}) \in Int
      <4>1. \A k \in Providers \X {s} : turns[k] \in Int
        BY <3>2
      <4> QED BY <3>1, <4>1, SumTyped
    <3> QED BY <3>4, <3>5 DEF RoundOf
  <2>4. Total(Share(C)) \in Nat
    BY <1>5, SteadyShare, WeighingFinite
  <2>5. \A p \in C : Account(p, s) = RoundOf(s) * OnlyWeight(p) - Taken(p, s) * Total(Share(C))
    BY <2>1, <2>2, <2>3, <2>4
  <2>6. \A p \in C : Taken(p, s) <= OnlyWeight(p)
    BY <2>1, <2>2
  <2> QED BY <2>1, <2>5, <2>6 DEF Balanced
<1> QED BY <1>2, <1>3, <1>4, <1>5 DEF SchedulerInv, RoundsBalanced

\* A request that reads the configuration finds given weights.
LEMMA ReadConfigKeeps ==
    ASSUME SchedulerInv, NEW r \in Requests, ReadConfig(r)
    PROVE  SchedulerInv'
<1> USE DEF SchedulerInv
<1>1. PICK s \in Scopes : \E C \in CandidateSets[s] :
        snap' = [snap EXCEPT ![r] = [scope |-> s, cands |-> Restrict(weight, C)]]
  BY DEF ReadConfig
<1>1a. PICK C \in CandidateSets[s] :
        snap' = [snap EXCEPT ![r] = [scope |-> s, cands |-> Restrict(weight, C)]]
  BY <1>1
<1>2. UNCHANGED <<current, providers, weight, turns, passed>>
  BY DEF ReadConfig
<1>3. C \in (SUBSET Providers) \ {{}}
  BY WeightedSchedulerAssumption
<1>4. PICK f : f = Restrict(weight, C)
  OBVIOUS
<1>5. /\ DOMAIN f = C /\ f = [p \in C |-> weight[p]]
      /\ \A p \in C : f[p] = weight[p]
  BY <1>4 DEF Restrict
<1>6. \A p \in C : f[p] \in Weights[p]
  BY <1>3, <1>5 DEF WeightsGiven
<1>7. f \in [C -> AnyWeight]
  BY <1>3, <1>5, <1>6, GivenWeight
<1>8. PICK new : new = [scope |-> s, cands |-> f]
  OBVIOUS
<1>9. new \in Snapshots /\ new.scope = s /\ new.cands = f
  BY <1>3, <1>7, <1>8, Readable
<1>10. snap' = [snap EXCEPT ![r] = new]
  BY <1>4, <1>8, <1>1a
<1>11. snap \in [Requests -> Snapshots]
  BY DEF TypeOK
<1>12. snap' \in [Requests -> Snapshots] /\ \A q \in Requests :
         snap'[q] = IF q = r THEN new ELSE snap[q]
  BY <1>9, <1>10, <1>11
<1>13. TypeOK'
  BY <1>2, <1>12 DEF TypeOK
<1>14. SnapsKnown'
  <2>1. ASSUME NEW q \in Requests, snap'[q] # Idle
        PROVE  /\ snap'[q].scope \in Scopes
               /\ DOMAIN snap'[q].cands \in CandidateSets[snap'[q].scope]
               /\ \A p \in DOMAIN snap'[q].cands : snap'[q].cands[p] \in Weights[p]
    <3>1. CASE q = r
      BY <1>5, <1>6, <1>9, <1>12, <3>1
    <3>2. CASE q # r
      BY <1>12, <2>1, <3>2 DEF SnapsKnown
    <3> QED BY <3>1, <3>2
  <2> QED BY <2>1 DEF SnapsKnown
<1>15. WeightsGiven'
  BY <1>2 DEF WeightsGiven
<1>16. RoundsBalanced'
  BY <1>2, Undisturbed DEF Account, Entry
<1> QED BY <1>13, <1>14, <1>15, <1>16

\* A request that is done leaves what the others have read.
LEMMA Answered ==
    ASSUME TypeOK, SnapsKnown, NEW r \in Requests, snap' = [snap EXCEPT ![r] = Idle]
    PROVE  snap' \in [Requests -> Snapshots] /\ SnapsKnown'
<1>1. snap \in [Requests -> Snapshots] /\ Idle \in Snapshots
  BY DEF TypeOK, Snapshots
<1>2. /\ snap' \in [Requests -> Snapshots]
      /\ \A q \in Requests : snap'[q] = IF q = r THEN Idle ELSE snap[q]
  BY <1>1
<1>3. SnapsKnown'
  BY <1>2 DEF SnapsKnown
<1> QED BY <1>2, <1>3

\* A rejected request leaves the accounts alone.
LEMMA RejectKeeps ==
    ASSUME SchedulerInv, NEW r \in Requests, Reject(r)
    PROVE  SchedulerInv'
<1> USE DEF SchedulerInv
<1>1. snap' = [snap EXCEPT ![r] = Idle] /\ UNCHANGED <<current, providers, weight, turns, passed>>
  BY DEF Reject
<1>2. snap' \in [Requests -> Snapshots] /\ SnapsKnown'
  BY <1>1, Answered
<1>3. TypeOK'
  BY <1>1, <1>2 DEF TypeOK
<1>4. WeightsGiven'
  BY <1>1 DEF WeightsGiven
<1>5. RoundsBalanced'
  BY <1>1, Undisturbed DEF Account, Entry
<1> QED BY <1>2, <1>3, <1>4, <1>5

\* The turns a selection leaves.
LEMMA TurnsTyped ==
    ASSUME TypeOK, NEW W, NEW s \in Scopes
    PROVE  Counted(W, s) \in [ScopedKeys -> Nat] /\ PassedOver(W, s) \in [ScopedKeys -> Nat]
<1>1. turns \in [ScopedKeys -> Nat] /\ passed \in [ScopedKeys -> Nat]
  BY DEF TypeOK
<1>2. Counted(W, s) \in [ScopedKeys -> Nat]
  BY <1>1 DEF Counted
<1>3. PassedOver(W, s) \in [ScopedKeys -> Nat]
  BY <1>1 DEF PassedOver
<1> QED BY <1>2, <1>3

\* The accounts a selection leaves.
LEMMA AccountsTyped ==
    ASSUME CurrentTyped, NEW W, Weighing(W), NEW s \in Scopes, Schedule(W, s)
    PROVE  CurrentTyped'
<1>1. CASE Cardinality(DOMAIN W) = 1
  BY <1>1 DEF Schedule, CurrentTyped
<1>2. CASE Cardinality(DOMAIN W) # 1
  <2>1. current' = Charged(W, s)
    BY <1>2 DEF Schedule
  <2>2. DOMAIN Charged(W, s) \subseteq ScopedKeys
    <3>1. DOMAIN Charged(W, s) = DOMAIN current \cup KeysOf(W, s)
      BY ChargedTyped
    <3>2. KeysOf(W, s) \in (SUBSET ScopedKeys) \ {{}}
      BY AccruedTyped
    <3> QED BY <3>1, <3>2 DEF CurrentTyped
  <2>3. \A k \in DOMAIN Charged(W, s) : Charged(W, s)[k] \in Int
    BY ChargedTyped
  <2> QED BY <2>1, <2>2, <2>3 DEF CurrentTyped
<1> QED BY <1>1, <1>2

\* A selection in one scope leaves the accounts and the turns of another.
LEMMA OthersUntouched ==
    ASSUME CurrentTyped, NEW W, Weighing(W), NEW t \in Scopes, Schedule(W, t),
           turns' = Counted(W, t), NEW s \in Scopes, s # t, NEW p \in Providers
    PROVE  Account(p, s)' = Account(p, s) /\ Taken(p, s)' = Taken(p, s)
<1>1. <<p, s>> \in ScopedKeys /\ <<p, s>>[2] # t /\ <<p, s>> \notin KeysOf(W, t)
  BY DEF ScopedKeys, KeysOf
<1>2. Taken(p, s)' = Taken(p, s)
  BY <1>1 DEF Taken, Counted
<1>3. CASE Cardinality(DOMAIN W) = 1
  BY <1>2, <1>3 DEF Schedule, Account, Entry
<1>4. CASE Cardinality(DOMAIN W) # 1
  <2>1. current' = Charged(W, t)
    BY <1>4 DEF Schedule
  <2>2. DOMAIN Charged(W, t) = DOMAIN current \cup KeysOf(W, t)
    BY ChargedTyped
  <2>3. CASE <<p, s>> \in DOMAIN current
    <3>1. <<p, s>> \in DOMAIN Charged(W, t) /\ <<p, s>> # Primary(W, t)
      BY <1>1, <2>2, <2>3, PrimaryFirst
    <3>2. /\ Charged(W, t)[<<p, s>>] \in Int
          /\ Charged(W, t)[<<p, s>>] =
               Accrued(W, t)[<<p, s>>] - IF <<p, s>> = Primary(W, t) THEN Total(W) ELSE 0
      BY <3>1, ChargedTyped
    <3>3. <<p, s>> \in DOMAIN Accrued(W, t)
      BY <2>2, <3>1, AccruedTyped
    <3>4. /\ Accrued(W, t)[<<p, s>>] \in Int
          /\ Accrued(W, t)[<<p, s>>] = Entry(<<p, s>>)
      BY <1>1, <3>3, AccruedTyped
    <3>5. Charged(W, t)[<<p, s>>] = Entry(<<p, s>>)
      BY <3>1, <3>2, <3>4
    <3>6. Entry(<<p, s>>)' = Charged(W, t)[<<p, s>>]
      BY <2>1, <3>1 DEF Entry
    <3> QED BY <1>2, <3>5, <3>6 DEF Account
  <2>4. CASE <<p, s>> \notin DOMAIN current
    <3>1. <<p, s>> \notin DOMAIN Charged(W, t)
      BY <1>1, <2>2, <2>4
    <3> QED BY <1>2, <2>1, <2>4, <3>1 DEF Account, Entry
  <2> QED BY <2>3, <2>4
<1> QED BY <1>3, <1>4

\* A selection takes a turn in its own scope.
LEMMA SelectKeeps ==
    ASSUME SchedulerInv, NEW r \in Requests, Select(r)
    PROVE  SchedulerInv'
<1> USE DEF SchedulerInv
<1>1. PICK W : W = Weighed(r)
  OBVIOUS
<1>2. PICK t : t = ScopeOf(r)
  OBVIOUS
<1>3. /\ snap[r] # Idle /\ Schedule(W, t) /\ turns' = Counted(W, t)
      /\ passed' = PassedOver(W, t) /\ snap' = [snap EXCEPT ![r] = Idle]
      /\ UNCHANGED <<providers, weight>>
  BY <1>1, <1>2 DEF Select, Weighed, ScopeOf
<1>4. /\ t \in Scopes /\ Weighing(W) /\ CurrentTyped
      /\ DOMAIN W \in CandidateSets[t] /\ W = [p \in DOMAIN W |-> W[p]]
  BY <1>1, <1>2, <1>3, RequestWeighs
<1>5. snap' \in [Requests -> Snapshots] /\ SnapsKnown'
  BY <1>3, Answered
<1>6. turns' \in [ScopedKeys -> Nat] /\ passed' \in [ScopedKeys -> Nat]
  BY <1>3, <1>4, TurnsTyped
<1>7. CurrentTyped'
  BY <1>3, <1>4, AccountsTyped
<1>8. TypeOK'
  <2>1. DOMAIN current' \subseteq ScopedKeys /\ \A k \in DOMAIN current' : current'[k] \in Int
    BY <1>7 DEF CurrentTyped
  <2>2. providers' \subseteq Providers /\ weight' \in [Providers -> AnyWeight]
    BY <1>3 DEF TypeOK
  <2> QED BY <1>5, <1>6, <2>1, <2>2 DEF TypeOK
<1>9. WeightsGiven'
  BY <1>3 DEF WeightsGiven
<1>10. ASSUME NEW s \in Scopes, NEW C \in SUBSET Providers, Steady(s, C)
       PROVE  Balanced(s, C)'
  <2>1. Balanced(s, C)
    BY <1>10 DEF RoundsBalanced
  <2>2. CASE s = t
    <3>1. DOMAIN W = C
      BY <1>4, <1>10, <2>2 DEF Steady
    <3>2. \A p \in C : W[p] = OnlyWeight(p)
      <4>1. \A p \in C : W[p] \in Weights[p]
        BY <1>1, <1>3, <3>1 DEF SnapsKnown, Weighed
      <4>2. \A p \in C : Weights[p] = {OnlyWeight(p)}
        BY <1>10, SteadyShare
      <4> QED BY <4>1, <4>2
    <3>3. W = Share(C)
      BY <1>4, <3>1, <3>2 DEF Share
    <3>4. Schedule(Share(C), s) /\ turns' = Counted(Share(C), s)
      BY <1>3, <2>2, <3>3
    <3> QED BY <1>10, <2>1, <3>4, TurnTaken
  <2>3. CASE s # t
    <3>1. \A p \in Providers : Account(p, s)' = Account(p, s) /\ Taken(p, s)' = Taken(p, s)
      BY <1>3, <1>4, <2>3, OthersUntouched
    <3> QED BY <2>1, <3>1, OtherScope
  <2> QED BY <2>2, <2>3
<1>11. RoundsBalanced'
  BY <1>10 DEF RoundsBalanced, Steady
<1> QED BY <1>5, <1>8, <1>9, <1>11

\* A removed provider is a candidate of no such scope.
LEMMA RemoveKeeps ==
    ASSUME SchedulerInv, NEW p \in Providers, RemoveProvider(p)
    PROVE  SchedulerInv'
<1> USE DEF SchedulerInv
<1>1. /\ p \in Removable /\ providers' = providers \ {p}
      /\ current' = [k \in {l \in DOMAIN current : l[1] # p} |-> current[k]]
      /\ passed' = [k \in ScopedKeys |-> IF k[1] = p THEN 0 ELSE passed[k]]
      /\ UNCHANGED <<weight, snap, turns>>
  <2>1. Pruned(p) = [k \in DOMAIN current \cap {l \in DOMAIN current : l[1] # p} |-> current[k]]
        \/ Pruned(p) = [k \in {l \in DOMAIN current : l[1] # p} |-> current[k]]
    BY DEF Pruned, Restrict
  <2>2. DOMAIN current \cap {l \in DOMAIN current : l[1] # p}
          = {l \in DOMAIN current : l[1] # p}
    OBVIOUS
  <2> QED BY <2>1, <2>2 DEF RemoveProvider
<1>2. TypeOK'
  <2>1. DOMAIN current' \subseteq ScopedKeys /\ \A k \in DOMAIN current' : current'[k] \in Int
    BY <1>1 DEF TypeOK
  <2>2. passed' \in [ScopedKeys -> Nat]
    BY <1>1 DEF TypeOK
  <2>3. providers' \subseteq Providers
    BY <1>1 DEF TypeOK
  <2> QED BY <1>1, <2>1, <2>2, <2>3 DEF TypeOK
<1>3. SnapsKnown' /\ WeightsGiven'
  BY <1>1 DEF SnapsKnown, WeightsGiven
<1>4. ASSUME NEW s \in Scopes, NEW q \in Providers \ Removable
      PROVE  Account(q, s)' = Account(q, s)
  <2>1. q # p /\ <<q, s>>[1] = q
    BY <1>1
  <2>2. /\ <<q, s>> \in DOMAIN current' <=> <<q, s>> \in DOMAIN current
        /\ <<q, s>> \in DOMAIN current => current'[<<q, s>>] = current[<<q, s>>]
    BY <1>1, <2>1
  <2> QED BY <2>2 DEF Account, Entry
<1>5. RoundsBalanced'
  BY <1>1, <1>4, Undisturbed
<1> QED BY <1>2, <1>3, <1>5

\* A provider is weighed anew with one of the weights it can be given.
LEMMA WeighedAnew ==
    ASSUME TypeOK, WeightsGiven, NEW p \in Providers, NEW w \in Weights[p],
           weight' = [weight EXCEPT ![p] = w]
    PROVE  weight' \in [Providers -> AnyWeight] /\ WeightsGiven'
<1>1. weight \in [Providers -> AnyWeight] /\ w \in AnyWeight
  BY GivenWeight DEF TypeOK
<1>2. weight' \in [Providers -> AnyWeight]
  BY <1>1
<1>3. \A q \in Providers : weight'[q] = IF q = p THEN w ELSE weight[q]
  BY <1>1
<1> QED BY <1>2, <1>3 DEF WeightsGiven

\* A created provider has no account yet.
LEMMA CreateKeeps ==
    ASSUME SchedulerInv, NEW p \in Providers, CreateProvider(p)
    PROVE  SchedulerInv'
<1> USE DEF SchedulerInv
<1>1. PICK w \in Weights[p] : weight' = [weight EXCEPT ![p] = w]
  BY DEF CreateProvider
<1>2. providers' = providers \cup {p} /\ UNCHANGED <<current, snap, turns, passed>>
  BY DEF CreateProvider
<1>3. weight' \in [Providers -> AnyWeight] /\ WeightsGiven'
  BY <1>1, WeighedAnew
<1>4. TypeOK'
  BY <1>2, <1>3 DEF TypeOK
<1>5. SnapsKnown'
  BY <1>2 DEF SnapsKnown
<1>6. RoundsBalanced'
  BY <1>2, Undisturbed DEF Account, Entry
<1> QED BY <1>3, <1>4, <1>5, <1>6

\* The scheduler is not told of a new weight.
LEMMA WeighKeeps ==
    ASSUME SchedulerInv, NEW p \in Providers, Weigh(p)
    PROVE  SchedulerInv'
<1> USE DEF SchedulerInv
<1>1. PICK w \in Weights[p] : weight' = [weight EXCEPT ![p] = w]
  BY DEF Weigh
<1>2. /\ passed' = [k \in ScopedKeys |-> IF k[1] = p THEN 0 ELSE passed[k]]
      /\ UNCHANGED <<current, providers, snap, turns>>
  BY DEF Weigh
<1>3. weight' \in [Providers -> AnyWeight] /\ WeightsGiven'
  BY <1>1, WeighedAnew
<1>4. passed' \in [ScopedKeys -> Nat]
  BY <1>2 DEF TypeOK
<1>5. TypeOK'
  BY <1>2, <1>3, <1>4 DEF TypeOK
<1>6. SnapsKnown'
  BY <1>2 DEF SnapsKnown
<1>7. RoundsBalanced'
  BY <1>2, Undisturbed DEF Account, Entry
<1> QED BY <1>3, <1>5, <1>6, <1>7

\* Every step keeps the invariant.
LEMMA StepKeeps == SchedulerInv /\ [Next]_vars => SchedulerInv'
<1>1. SUFFICES ASSUME SchedulerInv, [Next]_vars PROVE SchedulerInv'
  OBVIOUS
<1>2. ASSUME NEW r \in Requests, ReadConfig(r) PROVE SchedulerInv'
  BY <1>1, <1>2, ReadConfigKeeps
<1>3. ASSUME NEW r \in Requests, Select(r) PROVE SchedulerInv'
  BY <1>1, <1>3, SelectKeeps
<1>4. ASSUME NEW r \in Requests, Reject(r) PROVE SchedulerInv'
  BY <1>1, <1>4, RejectKeeps
<1>5. ASSUME NEW p \in Providers, RemoveProvider(p) PROVE SchedulerInv'
  BY <1>1, <1>5, RemoveKeeps
<1>6. ASSUME NEW p \in Providers, CreateProvider(p) PROVE SchedulerInv'
  BY <1>1, <1>6, CreateKeeps
<1>7. ASSUME NEW p \in Providers, Weigh(p) PROVE SchedulerInv'
  BY <1>1, <1>7, WeighKeeps
<1>8. CASE UNCHANGED vars
  <2>1. RoundsBalanced'
    BY <1>1, <1>8, Undisturbed DEF vars, Account, Entry, SchedulerInv
  <2>2. TypeOK' /\ WeightsGiven' /\ SnapsKnown'
    BY <1>1, <1>8 DEF vars, SchedulerInv, TypeOK, WeightsGiven, SnapsKnown
  <2> QED BY <2>1, <2>2 DEF SchedulerInv
<1> QED BY <1>1, <1>2, <1>3, <1>4, <1>5, <1>6, <1>7, <1>8 DEF Next

\* In a balanced round nobody has taken more than it weighs.
LEMMA BalanceIsFair == SchedulerInv => FairShare
<1>1. SUFFICES ASSUME SchedulerInv, NEW s \in Scopes, NEW C \in SUBSET (Providers \ Removable),
                      CandidateSets[s] = {C}, \A p \in C : Cardinality(Weights[p]) = 1,
                      NEW p \in C
               PROVE  turns[<<p, s>>] <= weight[p]
  BY DEF FairShare
<1>2. C \in SUBSET Providers /\ Steady(s, C)
  BY <1>1 DEF Steady
<1>3. Balanced(s, C)
  BY <1>1, <1>2 DEF SchedulerInv, RoundsBalanced
<1>4. weight[p] \in Weights[p] /\ Weights[p] = {OnlyWeight(p)}
  BY <1>1, <1>2, SteadyShare DEF SchedulerInv, WeightsGiven
<1>5. Taken(p, s) <= OnlyWeight(p)
  BY <1>1, <1>3 DEF Balanced
<1> QED BY <1>4, <1>5 DEF Taken

\* The invariant holds throughout.
THEOREM AlwaysBalanced == Spec => []SchedulerInv
<1> QED BY InitKeeps, StepKeeps, PTL DEF Spec

\* The scheduler's map holds an integer for keys of providers and scopes only.
THEOREM SchedulerTypeCorrect == Spec => []TypeOK
<1>1. SchedulerInv => TypeOK
  BY DEF SchedulerInv
<1> QED BY <1>1, AlwaysBalanced, PTL

\* Whatever the candidates and their weights, and whatever is selected in the
\* other scopes meanwhile, no candidate of a scope that always finds the same
\* ones takes more turns of a round than it weighs.
THEOREM SharesAreFair == Spec => []FairShare
<1> QED BY BalanceIsFair, AlwaysBalanced, PTL

-----------------------------------------------------------------------------
(* Credits and debts. *)

\* What the providers weigh at most, each and together.
LEMMA HeaviestBounds ==
    /\ DOMAIN Heaviest = Providers
    /\ \A p \in Providers : Heaviest[p] \in Nat /\ \A w \in Weights[p] : w <= Heaviest[p]
    /\ Total(Heaviest) = SumFunctionOnSet(Heaviest, Providers) /\ Total(Heaviest) \in Nat
<1>1. DOMAIN Heaviest = Providers
  BY DEF Heaviest
<1>2. ASSUME NEW p \in Providers
      PROVE  Heaviest[p] \in Nat /\ \A w \in Weights[p] : w <= Heaviest[p]
  <2>1. Weights[p] \in (SUBSET (Nat \ {0})) \ {{}} /\ IsFiniteSet(Weights[p])
    BY WeightedSchedulerAssumption
  <2>2. Max(Weights[p]) \in Weights[p] /\ \A w \in Weights[p] : w <= Max(Weights[p])
    <3>1. Weights[p] \subseteq Int /\ Weights[p] # {}
      BY <2>1
    <3> QED BY <2>1, <3>1, LargestExists
  <2> QED BY <2>1, <2>2 DEF Heaviest
<1>3. SumFunctionOnSet(Heaviest, Providers) \in Nat
  BY <1>2, SumNatural, WeightedSchedulerAssumption
<1> QED BY <1>1, <1>2, <1>3 DEF Total

\* The accounts of a scope.
Accounts(s) == [p \in Providers |-> Account(p, s)]

\* What a selection gives every provider.
Given(W) == [p \in Providers |-> IF p \in DOMAIN W THEN W[p] ELSE 0]

\* Every set of providers is within its room in every scope.
Drifting == \A s \in Scopes : Within(Accounts(s), Providers, Total(Heaviest))

\* The weights of the candidates sum up to their total, which all providers together outweigh.
LEMMA GivenTotal ==
    ASSUME NEW W, Weighing(W), \A p \in DOMAIN W : W[p] \in Weights[p]
    PROVE  /\ SumFunctionOnSet(Given(W), Providers) = Total(W)
           /\ Total(W) \in Nat /\ Total(W) <= Total(Heaviest)
           /\ \A p \in Providers : Given(W)[p] \in Nat /\ Given(W)[p] <= Heaviest[p]
<1>1. /\ IsFiniteSet(Providers) /\ IsFiniteSet(DOMAIN W) /\ DOMAIN W \subseteq Providers
      /\ Total(W) \in Nat
  BY WeighingFinite, WeightedSchedulerAssumption DEF Weighing
<1>2. PICK e : e = Given(W)
  OBVIOUS
<1>3. \A p \in Providers : e[p] = IF p \in DOMAIN W THEN W[p] ELSE 0
  BY <1>2 DEF Given
<1>4. \A p \in DOMAIN W : W[p] \in Nat /\ W[p] \in Int /\ e[p] = W[p]
  BY <1>1, <1>3 DEF Weighing
<1>5. \A p \in Providers :
        e[p] \in Nat /\ e[p] \in Int /\ Heaviest[p] \in Int /\ e[p] <= Heaviest[p]
  <2> TAKE p \in Providers
  <2>1. Heaviest[p] \in Nat /\ \A w \in Weights[p] : w <= Heaviest[p]
    BY HeaviestBounds
  <2>2. CASE p \in DOMAIN W
    BY <1>4, <2>1, <2>2
  <2>3. CASE p \notin DOMAIN W
    BY <1>3, <2>1, <2>3
  <2> QED BY <2>2, <2>3
<1>6. SumFunctionOnSet(W, DOMAIN W) = SumFunctionOnSet(e, DOMAIN W)
  BY <1>1, <1>4, SumSame
<1>7. PICK R : R = Providers \ DOMAIN W
  OBVIOUS
<1>8. SumFunctionOnSet(e, R) = 0
  <2>1. IsFiniteSet(R) /\ \A p \in R : e[p] = 0 /\ e[p] \in Int
    BY <1>1, <1>3, <1>7, FS_Subset
  <2>2. Multiple(e, 0, e, R)
    BY <2>1 DEF Multiple
  <2>3. SumFunctionOnSet(e, R) = 0 * SumFunctionOnSet(e, R)
    BY <2>1, <2>2, SumScaled, 0 \in Int
  <2>4. SumFunctionOnSet(e, R) \in Int
    BY <2>1, SumTyped
  <2> QED BY <2>3, <2>4
<1>9. SumFunctionOnSet(e, Providers) = SumFunctionOnSet(e, DOMAIN W) + SumFunctionOnSet(e, R)
  BY <1>1, <1>5, <1>7, SumSplit
<1>10. SumFunctionOnSet(e, Providers) = Total(W)
  BY <1>1, <1>6, <1>8, <1>9 DEF Total
<1>11. SumFunctionOnSet(e, Providers) <= SumFunctionOnSet(Heaviest, Providers)
  BY <1>1, <1>5, SumMonotone
<1> QED BY <1>1, <1>2, <1>5, <1>10, <1>11, HeaviestBounds

\* The accounts hold integers.
LEMMA AccountsInt ==
    ASSUME TypeOK, NEW s \in Scopes
    PROVE  \A p \in Providers : Accounts(s)[p] = Account(p, s) /\ Account(p, s) \in Int
  BY DEF TypeOK, Accounts, Account, Entry

\* Accounts that stay as they are stay within their room.
LEMMA SameAccounts ==
    ASSUME NEW s \in Scopes, \A p \in Providers : Account(p, s)' = Account(p, s),
           Within(Accounts(s), Providers, Total(Heaviest))
    PROVE  Within(Accounts(s), Providers, Total(Heaviest))'
<1>1. Accounts(s)' = Accounts(s)
  BY DEF Accounts
<1> QED BY <1>1 DEF Within

\* A selection is a turn.
LEMMA SelectDrifts ==
    ASSUME SchedulerInv, Drifting, NEW r \in Requests, Select(r)
    PROVE  Drifting'
<1>1. PICK W, t : W = Weighed(r) /\ t = ScopeOf(r)
  OBVIOUS
<1>2. snap[r] # Idle /\ Schedule(W, t) /\ turns' = Counted(W, t)
  BY <1>1 DEF Select, Weighed, ScopeOf
<1>3. TypeOK /\ SnapsKnown
  BY DEF SchedulerInv
<1>4. /\ t \in Scopes /\ Weighing(W) /\ CurrentTyped
      /\ \A p \in DOMAIN W : W[p] \in Weights[p]
  BY <1>1, <1>2, <1>3, RequestWeighs DEF SnapsKnown, Weighed
<1>5. ASSUME NEW s \in Scopes
      PROVE  Within(Accounts(s), Providers, Total(Heaviest))'
  <2>1. Within(Accounts(s), Providers, Total(Heaviest))
    BY DEF Drifting
  <2>2. CASE s # t
    <3>1. \A p \in Providers : Account(p, s)' = Account(p, s)
      BY <1>2, <1>4, <2>2, OthersUntouched
    <3> QED BY <2>1, <3>1, SameAccounts
  <2>3. CASE s = t /\ Cardinality(DOMAIN W) = 1
    <3>1. \A p \in Providers : Account(p, s)' = Account(p, s)
      BY <1>2, <2>3 DEF Schedule, Account, Entry
    <3> QED BY <2>1, <3>1, SameAccounts
  <2>4. CASE s = t /\ Cardinality(DOMAIN W) # 1
    <3>1. PICK q : q = Order(W, s)[1]
      OBVIOUS
    <3>2. /\ q \in DOMAIN W
          /\ \A p \in DOMAIN W :
                /\ Account(p, s) + W[p] <= Account(q, s) + W[q]
                /\ Account(p, s)' = (Account(p, s) + W[p]) - IF p = q THEN Total(W) ELSE 0
          /\ \A p \in Providers \ DOMAIN W : Account(p, s)' = Account(p, s)
      BY <1>2, <1>4, <2>4, <3>1, AccountsCharged
    <3>3. PICK c, d, e, T : /\ c = Accounts(s) /\ d = Accounts(s)' /\ e = Given(W)
                            /\ T = Total(Heaviest)
      OBVIOUS
    <3>4. /\ \A p \in Providers : c[p] = Account(p, s) /\ c[p] \in Int
          /\ \A p \in Providers : d[p] = Account(p, s)'
      BY <1>3, <3>3, AccountsInt DEF Accounts
    <3>5. /\ SumFunctionOnSet(e, Providers) = Total(W) /\ Total(W) \in Nat
          /\ Total(W) <= T /\ T \in Nat
          /\ \A p \in Providers : e[p] \in Nat
          /\ \A p \in Providers : e[p] = IF p \in DOMAIN W THEN W[p] ELSE 0
      BY <1>4, <3>3, GivenTotal, HeaviestBounds DEF Given
    <3>6. DOMAIN W \subseteq Providers /\ IsFiniteSet(Providers)
      BY <1>4, WeightedSchedulerAssumption DEF Weighing
    <3>7. q \in Providers /\ \A p \in Providers : e[p] > 0 => c[p] + e[p] <= c[q] + e[q]
      BY <3>2, <3>4, <3>5, <3>6
    <3>8. \A p \in Providers :
            d[p] = c[p] + e[p] - IF p = q THEN SumFunctionOnSet(e, Providers) ELSE 0
      <4> TAKE p \in Providers
      <4>1. c[p] \in Int /\ e[p] \in Int /\ Total(W) \in Int
        BY <3>4, <3>5
      <4>2. CASE p \in DOMAIN W
        BY <3>2, <3>4, <3>5, <4>1, <4>2
      <4>3. CASE p \notin DOMAIN W
        <5>1. p # q /\ e[p] = 0 /\ d[p] = c[p]
          BY <3>2, <3>4, <3>5, <4>3
        <5> QED BY <4>1, <5>1
      <4> QED BY <4>2, <4>3
    <3>9. Turn(Providers, c, e, q, d)
      BY <3>4, <3>5, <3>7, <3>8 DEF Turn
    <3>10. Within(c, Providers, T)
      BY <2>1, <3>3
    <3>11. Within(d, Providers, T)
      BY <3>5, <3>6, <3>9, <3>10, TurnKeepsWithin
    <3> QED BY <3>3, <3>11 DEF Within
  <2> QED BY <2>2, <2>3, <2>4
<1> QED BY <1>5 DEF Drifting

\* A removed provider is forgotten.
LEMMA RemoveDrifts ==
    ASSUME SchedulerInv, Drifting, NEW q \in Providers, RemoveProvider(q)
    PROVE  Drifting'
<1>1. ASSUME NEW s \in Scopes
      PROVE  Within(Accounts(s), Providers, Total(Heaviest))'
  <2>1. PICK c, d, T : c = Accounts(s) /\ d = Accounts(s)' /\ T = Total(Heaviest)
    OBVIOUS
  <2>2. current' = [k \in {l \in DOMAIN current : l[1] # q} |-> current[k]]
    <3>1. DOMAIN current \cap {l \in DOMAIN current : l[1] # q}
            = {l \in DOMAIN current : l[1] # q}
      OBVIOUS
    <3> QED BY <3>1 DEF RemoveProvider, Pruned, Restrict
  <2>3. \A p \in Providers : c[p] \in Int /\ d[p] = IF p = q THEN 0 ELSE c[p]
    <3> TAKE p \in Providers
    <3>1. c[p] = Account(p, s) /\ c[p] \in Int /\ d[p] = Account(p, s)'
      BY <2>1, AccountsInt DEF Accounts, SchedulerInv
    <3>2. <<p, s>>[1] = p
      OBVIOUS
    <3>3. CASE p = q
      <4>1. <<p, s>> \notin DOMAIN current'
        BY <2>2, <3>2, <3>3
      <4> QED BY <3>1, <3>3, <4>1 DEF Account, Entry
    <3>4. CASE p # q
      <4>1. /\ <<p, s>> \in DOMAIN current' <=> <<p, s>> \in DOMAIN current
            /\ <<p, s>> \in DOMAIN current => current'[<<p, s>>] = current[<<p, s>>]
        BY <2>2, <3>2, <3>4
      <4> QED BY <3>1, <3>4, <4>1 DEF Account, Entry
    <3> QED BY <3>3, <3>4
  <2>4. Within(c, Providers, T) /\ T \in Nat /\ IsFiniteSet(Providers)
    BY <2>1, HeaviestBounds, WeightedSchedulerAssumption DEF Drifting
  <2>5. Within(d, Providers, T)
    BY <2>3, <2>4, ForgettingKeepsWithin
  <2> QED BY <2>1, <2>5 DEF Within
<1> QED BY <1>1 DEF Drifting

\* The other steps leave the accounts alone.
LEMMA StepDrifts == SchedulerInv /\ Drifting /\ [Next]_vars => Drifting'
<1>1. SUFFICES ASSUME SchedulerInv, Drifting, [Next]_vars PROVE Drifting'
  OBVIOUS
<1>2. ASSUME UNCHANGED current PROVE Drifting'
  <2>1. ASSUME NEW s \in Scopes
        PROVE  Within(Accounts(s), Providers, Total(Heaviest))'
    <3>1. \A p \in Providers : Account(p, s)' = Account(p, s)
      BY <1>2 DEF Account, Entry
    <3> QED BY <1>1, <3>1, SameAccounts DEF Drifting
  <2> QED BY <2>1 DEF Drifting
<1>3. ASSUME NEW r \in Requests, ReadConfig(r) \/ Reject(r) PROVE Drifting'
  BY <1>2, <1>3 DEF ReadConfig, Reject
<1>4. ASSUME NEW r \in Requests, Select(r) PROVE Drifting'
  BY <1>1, <1>4, SelectDrifts
<1>5. ASSUME NEW p \in Providers, RemoveProvider(p) PROVE Drifting'
  BY <1>1, <1>5, RemoveDrifts
<1>6. ASSUME NEW p \in Providers, CreateProvider(p) \/ Weigh(p) PROVE Drifting'
  BY <1>2, <1>6 DEF CreateProvider, Weigh
<1>7. CASE UNCHANGED vars
  BY <1>2, <1>7 DEF vars
<1> QED BY <1>1, <1>3, <1>4, <1>5, <1>6, <1>7 DEF Next

\* At the start everybody has nothing.
LEMMA InitDrifts == Init => Drifting
<1>1. SUFFICES ASSUME Init, NEW s \in Scopes
               PROVE  Within(Accounts(s), Providers, Total(Heaviest))
  BY DEF Drifting
<1>2. PICK c, T, n : c = Accounts(s) /\ T = Total(Heaviest) /\ n = Cardinality(Providers)
  OBVIOUS
<1>3. T \in Nat /\ IsFiniteSet(Providers) /\ n \in Nat
  BY <1>2, HeaviestBounds, FS_CardinalityType, WeightedSchedulerAssumption
<1>4. \A p \in Providers : c[p] = 0
  BY <1>1, <1>2 DEF Init, Accounts, Account, Entry
<1>5. ASSUME NEW S \in SUBSET Providers
      PROVE  /\ 2 * SumFunctionOnSet(c, S) <= T * Room(n, Cardinality(S))
             /\ -(2 * SumFunctionOnSet(c, S)) <= T * Room(n, Cardinality(S))
  <2>1. IsFiniteSet(S) /\ Cardinality(S) \in Nat /\ Cardinality(S) <= n
    BY <1>2, <1>3, FS_Subset, FS_CardinalityType
  <2>2. SumFunctionOnSet(c, S) = 0
    <3>1. \A p \in S : c[p] = 0 /\ c[p] \in Int
      BY <1>4
    <3>2. Multiple(c, 0, c, S)
      BY <3>1 DEF Multiple
    <3>3. SumFunctionOnSet(c, S) = 0 * SumFunctionOnSet(c, S)
      BY <2>1, <3>2, SumScaled, 0 \in Int
    <3>4. SumFunctionOnSet(c, S) \in Int
      BY <2>1, <3>1, SumTyped
    <3> QED BY <3>3, <3>4
  <2>3. T * Room(n, Cardinality(S)) >= 0
    <3>1. PICK k : k = Cardinality(S)
      OBVIOUS
    <3>2. k \in Nat /\ k <= n
      BY <2>1, <3>1
    <3>3. Room(n, k) >= 0 /\ Room(n, k) \in Int
      <4>1. CASE k = 0
        BY <1>3, <4>1 DEF Room
      <4>2. CASE k # 0
        <5>1. 2 * n - 1 - k >= 0 /\ 2 * n - 1 - k \in Int
          BY <1>3, <3>2, <4>2
        <5> QED BY <3>2, <5>1 DEF Room
      <4> QED BY <4>1, <4>2
    <3>4. PICK g : g = Room(n, k)
      OBVIOUS
    <3>5. T * g >= 0
      BY <1>3, <3>3, <3>4
    <3> QED BY <3>1, <3>4, <3>5
  <2> QED BY <1>3, <2>2, <2>3
<1> QED BY <1>2, <1>5 DEF Within

\* The most one provider can have or owe.
Bound == (Cardinality(Providers) - 1) * Total(Heaviest)

\* One provider has, or owes, no more than the bound.
LEMMA AccountBounded ==
    ASSUME TypeOK, Drifting, NEW p \in Providers, NEW s \in Scopes
    PROVE  /\ Bound \in Nat /\ Account(p, s) \in Int
           /\ Account(p, s) <= Bound /\ -Account(p, s) <= Bound
<1>1. PICK n, T : n = Cardinality(Providers) /\ T = Total(Heaviest)
  OBVIOUS
<1>2. IsFiniteSet(Providers) /\ n \in Nat /\ n >= 1 /\ T \in Nat
  <2>1. IsFiniteSet(Providers) /\ n \in Nat
    BY <1>1, FS_CardinalityType, WeightedSchedulerAssumption
  <2>2. n # 0
    BY <1>1, <2>1, FS_EmptySet
  <2> QED BY <1>1, <2>1, <2>2, HeaviestBounds
<1>3. PICK c : c = Accounts(s)
  OBVIOUS
<1>4. Account(p, s) = c[p] /\ c[p] \in Int
  BY <1>3, AccountsInt
<1>5. SumFunctionOnSet(c, {p}) = c[p] /\ Cardinality({p}) = 1 /\ {p} \in SUBSET Providers
  <2>1. IsFiniteSet({p}) /\ Cardinality({p}) = 1 /\ IsFiniteSet({}) /\ {p} \ {p} = {}
    BY FS_Singleton, FS_EmptySet
  <2>2. SumFunctionOnSet(c, {}) = 0
    BY <2>1, SumStep
  <2>3. SumFunctionOnSet(c, {p}) = c[p] + SumFunctionOnSet(c, {p} \ {p})
    BY <1>4, <2>1, SumRemove
  <2> QED BY <1>4, <2>1, <2>2, <2>3
<1>6. 2 * c[p] <= T * Room(n, 1) /\ -(2 * c[p]) <= T * Room(n, 1)
  BY <1>1, <1>3, <1>5 DEF Drifting, Within
<1>7. T * Room(n, 1) = 2 * ((n - 1) * T)
  BY <1>2 DEF Room
<1>8. (n - 1) * T \in Nat
  BY <1>2
<1> QED BY <1>1, <1>4, <1>6, <1>7, <1>8 DEF Bound

\* Both invariants hold throughout.
LEMMA AlwaysDrifting == Spec => [](SchedulerInv /\ Drifting)
<1>1. Init => SchedulerInv /\ Drifting
  BY InitKeeps, InitDrifts
<1>2. SchedulerInv /\ Drifting /\ [Next]_vars => (SchedulerInv /\ Drifting)'
  BY StepKeeps, StepDrifts
<1> QED BY <1>1, <1>2, PTL DEF Spec

\* However the candidates come and go and whatever they are made to weigh, no
\* credit and no debt outgrows the number of the other providers times the
\* weight of all.
THEOREM CreditsAreBounded == Spec => []NoDrift
<1>1. SchedulerInv /\ Drifting => NoDrift
  <2>1. SUFFICES ASSUME SchedulerInv, Drifting, NEW k \in DOMAIN current
                 PROVE  AbsoluteValue(current[k]) <= Bound
    BY DEF NoDrift, Bound
  <2>2. TypeOK
    BY <2>1 DEF SchedulerInv
  <2>3. PICK p \in Providers, s \in Scopes : k = <<p, s>>
    BY <2>2 DEF TypeOK, ScopedKeys
  <2>4. Account(p, s) = current[k]
    BY <2>3 DEF Account, Entry
  <2>5. current[k] \in Int /\ current[k] <= Bound /\ -current[k] <= Bound
    BY <2>1, <2>2, <2>4, AccountBounded
  <2> QED BY <2>5 DEF AbsoluteValue
<1> QED BY <1>1, AlwaysDrifting, PTL

-----------------------------------------------------------------------------
(* Waiting. *)

\* The requests that count less for a candidate than it weighs now, or have read it before
\* it was removed.
Behind(p, s) == {r \in Requests :
    /\ snap[r] # Idle /\ snap[r].scope = s /\ p \in DOMAIN snap[r].cands
    /\ p \in providers => snap[r].cands[p] < weight[p]}

\* How many requests may have done so already.
Spare(p, s) == Cardinality(Requests) - Cardinality(Behind(p, s))

Passed(p, s) == passed[<<p, s>>]

\* What a candidate would have gained it has gained from its deepest debt on, but for
\* the requests that were behind.
Patient(p, s) ==
    /\ p \in providers =>
         Passed(p, s) * weight[p] <= Account(p, s) + Bound + Spare(p, s) * Heaviest[p]
    /\ p \notin providers => Passed(p, s) <= Spare(p, s)

AllPatient == \A p \in Providers, s \in Scopes : Patient(p, s)

\* What is known of the accounts in every state.
AccountsBounded ==
    \A p \in Providers, s \in Scopes :
        Account(p, s) \in Int /\ Account(p, s) <= Bound /\ -Account(p, s) <= Bound

\* The bound is a number.
LEMMA BoundTyped == ASSUME NEW p \in Providers PROVE Bound \in Nat
<1>1. IsFiniteSet(Providers) /\ Cardinality(Providers) \in Nat
  BY FS_CardinalityType, WeightedSchedulerAssumption
<1>2. Cardinality(Providers) # 0
  BY <1>1, FS_EmptySet
<1>3. PICK n, T : n = Cardinality(Providers) - 1 /\ T = Total(Heaviest)
  OBVIOUS
<1>4. n \in Nat /\ T \in Nat
  BY <1>1, <1>2, <1>3, HeaviestBounds
<1>5. n * T \in Nat
  BY <1>4
<1> QED BY <1>3, <1>5 DEF Bound

\* How many requests are not behind.
LEMMA SpareTyped ==
    ASSUME NEW p, NEW s
    PROVE  /\ Spare(p, s) \in Nat /\ Spare(p, s) <= Cardinality(Requests)
           /\ Cardinality(Requests) \in Nat
<1>1. IsFiniteSet(Requests) /\ Behind(p, s) \in SUBSET Requests
  BY WeightedSchedulerAssumption DEF Behind
<1>2. /\ IsFiniteSet(Behind(p, s)) /\ Cardinality(Behind(p, s)) <= Cardinality(Requests)
  BY <1>1, FS_Subset
<1>3. Cardinality(Behind(p, s)) \in Nat /\ Cardinality(Requests) \in Nat
  BY <1>1, <1>2, FS_CardinalityType
<1> QED BY <1>2, <1>3 DEF Spare

\* The same afterwards.
LEMMA SpareTypedThen ==
    ASSUME NEW p, NEW s
    PROVE  Spare(p, s)' \in Nat
<1>1. IsFiniteSet(Requests) /\ Behind(p, s)' \in SUBSET Requests
  BY WeightedSchedulerAssumption DEF Behind
<1>2. IsFiniteSet(Behind(p, s)') /\ Cardinality(Behind(p, s)') <= Cardinality(Requests)
  BY <1>1, FS_Subset
<1>3. Cardinality(Behind(p, s)') \in Nat /\ Cardinality(Requests) \in Nat
  BY <1>1, <1>2, FS_CardinalityType
<1> QED BY <1>2, <1>3 DEF Spare

\* With fewer requests behind, more may have been.
LEMMA SpareGrows ==
    ASSUME NEW p, NEW s, Behind(p, s)' \subseteq Behind(p, s)
    PROVE  /\ Spare(p, s)' >= Spare(p, s)
           /\ \A r \in Behind(p, s) : r \notin Behind(p, s)' => Spare(p, s)' >= Spare(p, s) + 1
<1>1. PICK B, C : B = Behind(p, s) /\ C = Behind(p, s)'
  OBVIOUS
<1>2. IsFiniteSet(B) /\ C \subseteq B
  <2>1. IsFiniteSet(Requests) /\ B \in SUBSET Requests
    BY <1>1, WeightedSchedulerAssumption DEF Behind
  <2> QED BY <1>1, <2>1, FS_Subset
<1>3. /\ Cardinality(C) <= Cardinality(B) /\ (Cardinality(B) = Cardinality(C) => B = C)
      /\ Cardinality(B) \in Nat /\ Cardinality(C) \in Nat
  BY <1>2, FS_Subset, FS_CardinalityType
<1>4. Cardinality(Requests) \in Nat
  BY FS_CardinalityType, WeightedSchedulerAssumption
<1>5. /\ Spare(p, s) = Cardinality(Requests) - Cardinality(B)
      /\ Spare(p, s)' = Cardinality(Requests) - Cardinality(C)
  BY <1>1 DEF Spare
<1> QED BY <1>1, <1>3, <1>4, <1>5

\* What is needed of a provider.
LEMMA ProviderFacts ==
    ASSUME SchedulerInv, NEW p \in Providers, NEW s \in Scopes
    PROVE  /\ Passed(p, s) \in Nat /\ weight[p] \in Nat /\ weight[p] \in Weights[p]
           /\ Heaviest[p] \in Nat /\ weight[p] <= Heaviest[p]
           /\ <<p, s>> \in ScopedKeys
<1>1. <<p, s>> \in ScopedKeys
  BY DEF ScopedKeys
<1>2. Passed(p, s) \in Nat
  BY <1>1 DEF Passed, SchedulerInv, TypeOK
<1>3. weight[p] \in Weights[p] /\ weight[p] \in Nat
  BY GivenWeight DEF SchedulerInv, WeightsGiven
<1> QED BY <1>1, <1>2, <1>3, HeaviestBounds

\* A candidate that has not waited is patient.
LEMMA PatientAfresh ==
    ASSUME SchedulerInv, AccountsBounded', NEW p \in Providers, NEW s \in Scopes,
           Passed(p, s)' = 0, weight'[p] \in Nat
    PROVE  Patient(p, s)'
<1>1. Bound \in Nat /\ Account(p, s)' \in Int /\ -(Account(p, s)') <= Bound
  BY BoundTyped DEF AccountsBounded
<1>2. Heaviest[p] \in Nat
  BY HeaviestBounds
<1>3. PICK spare : spare = Spare(p, s)'
  OBVIOUS
<1>4. spare \in Nat
  BY <1>3, SpareTypedThen
<1>5. spare * Heaviest[p] \in Nat
  BY <1>2, <1>4
<1>6. 0 * weight'[p] = 0
  OBVIOUS
<1> QED BY <1>1, <1>3, <1>4, <1>5, <1>6 DEF Patient

\* A candidate that waits no longer than before, with no more requests behind, is as
\* patient as it was.
LEMMA PatientStill ==
    ASSUME SchedulerInv, AccountsBounded, NEW p \in Providers, NEW s \in Scopes, Patient(p, s),
           Behind(p, s)' \subseteq Behind(p, s), Passed(p, s)' = Passed(p, s),
           Account(p, s)' = Account(p, s), weight'[p] = weight[p],
           p \in providers' <=> p \in providers
    PROVE  Patient(p, s)'
<1>1. Bound \in Nat /\ Account(p, s) \in Int /\ Heaviest[p] \in Nat
      /\ weight[p] \in Nat /\ Passed(p, s) \in Nat
  BY BoundTyped, ProviderFacts DEF AccountsBounded
<1>2. PICK u, v, h : u = Spare(p, s) /\ v = Spare(p, s)' /\ h = Heaviest[p]
  OBVIOUS
<1>3. u \in Nat /\ v \in Nat /\ u <= v /\ h \in Nat
  BY <1>1, <1>2, SpareTyped, SpareTypedThen, SpareGrows
<1>4. u * h <= v * h /\ u * h \in Nat /\ v * h \in Nat
  BY <1>3
<1>5. Passed(p, s) * weight[p] \in Int
  BY <1>1
<1>6. CASE p \in providers
  <2>1. Passed(p, s) * weight[p] <= Account(p, s) + Bound + u * h
    BY <1>2, <1>6 DEF Patient
  <2>2. Passed(p, s)' * weight'[p] <= Account(p, s)' + Bound + v * h
    BY <1>1, <1>4, <1>5, <2>1
  <2> QED BY <1>2, <1>6, <2>2 DEF Patient
<1>7. CASE p \notin providers
  BY <1>1, <1>2, <1>3, <1>7 DEF Patient
<1> QED BY <1>6, <1>7

\* A request that is done is behind no more.
LEMMA DoneIsNotBehind ==
    ASSUME TypeOK, NEW r \in Requests, snap' = [snap EXCEPT ![r] = Idle],
           UNCHANGED <<providers, weight>>, NEW p, NEW s
    PROVE  Behind(p, s)' \subseteq Behind(p, s) /\ r \notin Behind(p, s)'
<1>1. \A q \in Requests : snap'[q] = IF q = r THEN Idle ELSE snap[q]
  BY DEF TypeOK
<1> QED BY <1>1 DEF Behind

\* The turns waited of a candidate that gains what it weighs, or has read too little.
LEMMA WaitArithmetic ==
    ASSUME NEW n \in Nat, NEW w \in Nat, NEW a \in Int, NEW b \in Nat, NEW u \in Nat, NEW v \in Nat,
           NEW h \in Nat, NEW g \in Nat, n * w <= a + b + u * h, w <= h, u <= v,
           g >= w \/ v >= u + 1
    PROVE  (n + 1) * w <= a + g + b + v * h
<1>1. (n + 1) * w = n * w + w /\ n * w \in Int /\ u * h \in Nat /\ v * h \in Nat
  OBVIOUS
<1>2. CASE g >= w
  <2>1. u * h <= v * h
    OBVIOUS
  <2> QED BY <1>1, <1>2, <2>1
<1>3. CASE v >= u + 1
  <2>1. (u + 1) * h <= v * h
    BY <1>3
  <2>2. (u + 1) * h = u * h + h
    OBVIOUS
  <2> QED BY <1>1, <2>1, <2>2
<1> QED BY <1>2, <1>3

\* A selection: who comes first waits no more, the others gain what was read of them.
LEMMA SelectPatient ==
    ASSUME SchedulerInv, AccountsBounded, AccountsBounded', AllPatient,
           NEW r \in Requests, Select(r)
    PROVE  AllPatient'
<1>1. PICK W, t : W = Weighed(r) /\ t = ScopeOf(r)
  OBVIOUS
<1>2. /\ snap[r] # Idle /\ Schedule(W, t) /\ turns' = Counted(W, t)
      /\ passed' = PassedOver(W, t) /\ snap' = [snap EXCEPT ![r] = Idle]
      /\ UNCHANGED <<providers, weight>>
  BY <1>1 DEF Select, Weighed, ScopeOf
<1>3. TypeOK /\ SnapsKnown
  BY DEF SchedulerInv
<1>4. t \in Scopes /\ Weighing(W) /\ CurrentTyped
  BY <1>1, <1>2, <1>3, RequestWeighs
<1>5. PICK first : first = Order(W, t)[1]
  OBVIOUS
<1>6. ASSUME NEW p \in Providers, NEW s \in Scopes
      PROVE  Patient(p, s)'
  <2>1. /\ Patient(p, s) /\ weight'[p] = weight[p] /\ (p \in providers' <=> p \in providers)
        /\ Behind(p, s)' \subseteq Behind(p, s) /\ r \notin Behind(p, s)'
    BY <1>2, <1>3, DoneIsNotBehind DEF AllPatient
  <2>2. /\ Passed(p, s) \in Nat /\ weight[p] \in Nat /\ Heaviest[p] \in Nat
        /\ weight[p] <= Heaviest[p] /\ <<p, s>> \in ScopedKeys
    BY ProviderFacts
  <2>3. Passed(p, s)' = IF <<p, s>> \notin (DOMAIN W) \X {t} THEN Passed(p, s)
                        ELSE IF p = first THEN 0 ELSE Passed(p, s) + 1
    BY <1>2, <1>5, <2>2 DEF PassedOver, Passed
  <2>4. CASE s # t
    <3>1. Account(p, s)' = Account(p, s)
      BY <1>2, <1>4, <2>4, OthersUntouched
    <3>2. Passed(p, s)' = Passed(p, s)
      BY <2>3, <2>4
    <3> QED BY <2>1, <3>1, <3>2, PatientStill
  <2>5. CASE s = t /\ p \notin DOMAIN W
    <3>1. Account(p, s)' = Account(p, s)
      <4>1. CASE Cardinality(DOMAIN W) = 1
        BY <1>2, <4>1 DEF Schedule, Account, Entry
      <4>2. CASE Cardinality(DOMAIN W) # 1
        BY <1>2, <1>4, <1>5, <2>5, <4>2, AccountsCharged
      <4> QED BY <4>1, <4>2
    <3>2. Passed(p, s)' = Passed(p, s)
      BY <2>3, <2>5
    <3> QED BY <2>1, <3>1, <3>2, PatientStill
  <2>6. CASE s = t /\ p \in DOMAIN W /\ p = first
    <3>1. Passed(p, s)' = 0
      BY <2>3, <2>6
    <3>2. weight'[p] \in Nat
      BY <2>1, <2>2
    <3> QED BY <3>1, <3>2, PatientAfresh
  <2>7. CASE s = t /\ p \in DOMAIN W /\ p # first
    <3>1. Passed(p, s)' = Passed(p, s) + 1
      BY <2>3, <2>7
    <3>2. Cardinality(DOMAIN W) # 1
      <4>1. ASSUME Cardinality(DOMAIN W) = 1 PROVE FALSE
        <5>1. first \in DOMAIN W
          BY <1>4, <1>5, OrderFirst
        <5>2. IsFiniteSet(DOMAIN W)
          BY <1>4, WeighingFinite
        <5>3. PICK x : DOMAIN W = {x}
          BY <4>1, <5>2, FS_Singleton
        <5> QED BY <2>7, <5>1, <5>3
      <4> QED BY <4>1
    <3>3. W[p] \in Nat /\ Account(p, s) \in Int /\ Bound \in Nat
      BY <1>4, <2>7, BoundTyped DEF Weighing, AccountsBounded
    <3>4. Account(p, s)' = Account(p, s) + W[p]
      <4>1. Account(p, s)' = (Account(p, s) + W[p]) - IF p = first THEN Total(W) ELSE 0
        BY <1>2, <1>4, <1>5, <2>7, <3>2, AccountsCharged
      <4> QED BY <2>7, <3>3, <4>1
    <3>5. PICK u, v, h : u = Spare(p, s) /\ v = Spare(p, s)' /\ h = Heaviest[p]
      OBVIOUS
    <3>6. u \in Nat /\ v \in Nat /\ u <= v /\ (r \in Behind(p, s) => v >= u + 1) /\ h \in Nat
          /\ weight[p] <= h
      BY <2>1, <2>2, <3>5, SpareTyped, SpareTypedThen, SpareGrows
    <3>7. CASE p \in providers
      <4>1. W[p] >= weight[p] \/ v >= u + 1
        <5>1. CASE W[p] < weight[p]
          <6>1. r \in Behind(p, s)
            BY <1>1, <1>2, <2>7, <5>1 DEF Behind, Weighed, ScopeOf
          <6> QED BY <3>6, <6>1
        <5> QED BY <2>2, <3>3, <5>1
      <4>2. Passed(p, s) * weight[p] <= Account(p, s) + Bound + u * h
        BY <2>1, <3>5, <3>7 DEF Patient
      <4>3. (Passed(p, s) + 1) * weight[p] <= Account(p, s) + W[p] + Bound + v * h
        BY <2>2, <3>3, <3>6, <4>1, <4>2, WaitArithmetic
      <4>4. Passed(p, s)' * weight'[p] <= Account(p, s)' + Bound + v * h
        BY <2>1, <3>1, <3>3, <3>4, <4>3
      <4> QED BY <2>1, <3>5, <3>7, <4>4 DEF Patient
    <3>8. CASE p \notin providers
      <4>1. r \in Behind(p, s)
        BY <1>1, <1>2, <2>7, <3>8 DEF Behind, Weighed, ScopeOf
      <4>2. Passed(p, s) <= u
        BY <2>1, <3>5, <3>8 DEF Patient
      <4>3. Passed(p, s)' <= v
        BY <2>2, <3>1, <3>6, <4>1, <4>2
      <4> QED BY <2>1, <3>5, <3>8, <4>3 DEF Patient
    <3> QED BY <3>7, <3>8
  <2> QED BY <2>4, <2>5, <2>6, <2>7
<1> QED BY <1>6 DEF AllPatient

\* A request reads the weights there are, and of the providers there are only.
LEMMA ReadPatient ==
    ASSUME SchedulerInv, AccountsBounded, AllPatient, NEW r \in Requests, ReadConfig(r)
    PROVE  AllPatient'
<1>1. PICK s1 \in Scopes : \E C \in CandidateSets[s1] :
        C \subseteq providers /\
        snap' = [snap EXCEPT ![r] = [scope |-> s1, cands |-> Restrict(weight, C)]]
  BY DEF ReadConfig
<1>2. PICK C \in CandidateSets[s1] :
        C \subseteq providers /\
        snap' = [snap EXCEPT ![r] = [scope |-> s1, cands |-> Restrict(weight, C)]]
  BY <1>1
<1>3. snap[r] = Idle /\ UNCHANGED <<current, providers, weight, turns, passed>>
  BY DEF ReadConfig
<1>4. PICK f : f = Restrict(weight, C)
  OBVIOUS
<1>5. DOMAIN f \subseteq providers /\ \A p \in DOMAIN f : f[p] = weight[p]
  BY <1>2, <1>4 DEF Restrict
<1>6. \A q \in Requests : snap'[q] = IF q = r THEN [scope |-> s1, cands |-> f] ELSE snap[q]
  BY <1>2, <1>4 DEF SchedulerInv, TypeOK
<1>7. ASSUME NEW p \in Providers, NEW s \in Scopes
      PROVE  Patient(p, s)'
  <2>1. weight[p] \in Nat
    BY ProviderFacts
  <2>2. r \notin Behind(p, s)'
    <3>1. ASSUME r \in Behind(p, s)' PROVE FALSE
      <4>1. p \in DOMAIN f /\ (p \in providers => f[p] < weight[p])
        BY <1>3, <1>6, <3>1 DEF Behind
      <4> QED BY <1>5, <2>1, <4>1
    <3> QED BY <3>1
  <2>3. Behind(p, s)' \subseteq Behind(p, s)
    BY <1>3, <1>6, <2>2 DEF Behind
  <2> QED BY <1>3, <2>3, PatientStill DEF AllPatient, Passed, Account, Entry
<1> QED BY <1>7 DEF AllPatient

\* What concerns one provider leaves the others as patient as they were.
LEMMA OthersPatient ==
    ASSUME SchedulerInv, AccountsBounded, AllPatient, NEW q \in Providers, UNCHANGED snap,
           NEW p \in Providers, p # q, NEW s \in Scopes,
           p \in providers' <=> p \in providers, weight'[p] = weight[p],
           Passed(p, s)' = Passed(p, s), Account(p, s)' = Account(p, s)
    PROVE  Patient(p, s)'
<1>1. Behind(p, s)' \subseteq Behind(p, s)
  BY DEF Behind
<1> QED BY <1>1, PatientStill DEF AllPatient

\* A removed provider waits for nothing.
LEMMA RemovePatient ==
    ASSUME SchedulerInv, AccountsBounded, AccountsBounded', AllPatient,
           NEW q \in Providers, RemoveProvider(q)
    PROVE  AllPatient'
<1>1. /\ providers' = providers \ {q}
      /\ current' = [k \in {l \in DOMAIN current : l[1] # q} |-> current[k]]
      /\ passed' = [k \in ScopedKeys |-> IF k[1] = q THEN 0 ELSE passed[k]]
      /\ UNCHANGED <<weight, snap, turns>>
  <2>1. DOMAIN current \cap {l \in DOMAIN current : l[1] # q}
          = {l \in DOMAIN current : l[1] # q}
    OBVIOUS
  <2> QED BY <2>1 DEF RemoveProvider, Pruned, Restrict
<1>2. ASSUME NEW p \in Providers, NEW s \in Scopes
      PROVE  Patient(p, s)'
  <2>1. <<p, s>> \in ScopedKeys /\ <<p, s>>[1] = p /\ weight[p] \in Nat
    BY ProviderFacts
  <2>2. Passed(p, s)' = IF p = q THEN 0 ELSE Passed(p, s)
    BY <1>1, <2>1 DEF Passed
  <2>3. CASE p = q
    BY <1>1, <2>1, <2>2, <2>3, PatientAfresh
  <2>4. CASE p # q
    <3>1. /\ <<p, s>> \in DOMAIN current' <=> <<p, s>> \in DOMAIN current
          /\ <<p, s>> \in DOMAIN current => current'[<<p, s>>] = current[<<p, s>>]
      BY <1>1, <2>1, <2>4
    <3>2. Account(p, s)' = Account(p, s)
      BY <3>1 DEF Account, Entry
    <3> QED BY <1>1, <2>2, <2>4, <3>2, OthersPatient
  <2> QED BY <2>3, <2>4
<1> QED BY <1>2 DEF AllPatient

\* A provider that is created anew has waited for requests that read it before only.
LEMMA CreatePatient ==
    ASSUME SchedulerInv, SchedulerInv', AccountsBounded, AccountsBounded', AllPatient,
           NEW q \in Providers, CreateProvider(q)
    PROVE  AllPatient'
<1>1. PICK w \in Weights[q] : weight' = [weight EXCEPT ![q] = w]
  BY DEF CreateProvider
<1>2. /\ q \notin providers /\ providers' = providers \cup {q}
      /\ UNCHANGED <<current, snap, turns, passed>>
  BY DEF CreateProvider
<1>3. weight \in [Providers -> AnyWeight]
  BY DEF SchedulerInv, TypeOK
<1>4. ASSUME NEW p \in Providers, NEW s \in Scopes
      PROVE  Patient(p, s)'
  <2>1. Passed(p, s)' = Passed(p, s) /\ Account(p, s)' = Account(p, s)
    BY <1>2 DEF Passed, Account, Entry
  <2>2. CASE p # q
    BY <1>1, <1>2, <1>3, <2>1, <2>2, OthersPatient
  <2>3. CASE p = q
    <3>1. Behind(p, s)' \subseteq Behind(p, s)
      BY <1>2, <2>3 DEF Behind
    <3>2. PICK n, u, v, h : /\ n = Passed(p, s) /\ u = Spare(p, s) /\ v = Spare(p, s)'
                            /\ h = Heaviest[p]
      OBVIOUS
    <3>3. n \in Nat /\ u \in Nat /\ v \in Nat /\ u <= v /\ h \in Nat
      BY <3>1, <3>2, ProviderFacts, SpareTyped, SpareTypedThen, SpareGrows
    <3>4. n <= u
      BY <1>2, <2>3, <3>2 DEF AllPatient, Patient
    <3>5. weight'[p] = w /\ w \in Nat /\ w <= h
      BY <1>1, <1>3, <2>3, <3>2, GivenWeight, HeaviestBounds
    <3>6. n * w <= v * h
      <4>1. n * w <= v * w
        BY <3>3, <3>4, <3>5
      <4>2. v * w <= v * h
        BY <3>3, <3>5
      <4>3. n * w \in Int /\ v * w \in Int /\ v * h \in Int
        BY <3>3, <3>5
      <4> QED BY <4>1, <4>2, <4>3
    <3>7. Account(p, s)' \in Int /\ -(Account(p, s)') <= Bound /\ Bound \in Nat
      BY BoundTyped DEF AccountsBounded
    <3>8. n * w <= Account(p, s)' + Bound + v * h
      <4>1. n * w \in Int /\ v * h \in Int
        BY <3>3, <3>5
      <4> QED BY <3>6, <3>7, <4>1
    <3>9. p \in providers'
      BY <1>2, <2>3
    <3> QED BY <2>1, <3>2, <3>5, <3>8, <3>9 DEF Patient
  <2> QED BY <2>2, <2>3
<1> QED BY <1>4 DEF AllPatient

\* A provider that is weighed anew begins to wait anew.
LEMMA WeighPatient ==
    ASSUME SchedulerInv, AccountsBounded, AccountsBounded', AllPatient,
           NEW q \in Providers, Weigh(q)
    PROVE  AllPatient'
<1>1. PICK w \in Weights[q] : weight' = [weight EXCEPT ![q] = w]
  BY DEF Weigh
<1>2. /\ passed' = [k \in ScopedKeys |-> IF k[1] = q THEN 0 ELSE passed[k]]
      /\ UNCHANGED <<current, providers, snap, turns>>
  BY DEF Weigh
<1>3. weight \in [Providers -> AnyWeight]
  BY DEF SchedulerInv, TypeOK
<1>4. ASSUME NEW p \in Providers, NEW s \in Scopes
      PROVE  Patient(p, s)'
  <2>1. <<p, s>> \in ScopedKeys /\ <<p, s>>[1] = p
    BY ProviderFacts
  <2>2. Passed(p, s)' = IF p = q THEN 0 ELSE Passed(p, s)
    BY <1>2, <2>1 DEF Passed
  <2>3. CASE p = q
    <3>1. weight'[p] \in Nat
      BY <1>1, <1>3, <2>3, GivenWeight
    <3> QED BY <2>2, <2>3, <3>1, PatientAfresh
  <2>4. CASE p # q
    <3>1. Account(p, s)' = Account(p, s)
      BY <1>2 DEF Account, Entry
    <3>2. weight'[p] = weight[p]
      BY <1>1, <1>3, <2>4
    <3> QED BY <1>2, <2>2, <2>4, <3>1, <3>2, OthersPatient
  <2> QED BY <2>3, <2>4
<1> QED BY <1>4 DEF AllPatient

\* Every step leaves everybody patient.
LEMMA StepPatient ==
    /\ SchedulerInv /\ AccountsBounded /\ AllPatient /\ [Next]_vars
    /\ SchedulerInv' /\ AccountsBounded'
    => AllPatient'
<1>1. SUFFICES ASSUME SchedulerInv, AccountsBounded, AllPatient, [Next]_vars,
                      SchedulerInv', AccountsBounded'
               PROVE  AllPatient'
  OBVIOUS
<1>2. ASSUME NEW r \in Requests, ReadConfig(r) PROVE AllPatient'
  BY <1>1, <1>2, ReadPatient
<1>3. ASSUME NEW r \in Requests, Select(r) PROVE AllPatient'
  BY <1>1, <1>3, SelectPatient
<1>4. ASSUME NEW r \in Requests, Reject(r) PROVE AllPatient'
  <2>1. /\ snap' = [snap EXCEPT ![r] = Idle]
        /\ UNCHANGED <<current, providers, weight, turns, passed>>
    BY <1>4 DEF Reject
  <2>2. ASSUME NEW p \in Providers, NEW s \in Scopes
        PROVE  Patient(p, s)'
    <3>1. Behind(p, s)' \subseteq Behind(p, s)
      BY <1>1, <2>1, DoneIsNotBehind DEF SchedulerInv
    <3> QED BY <1>1, <2>1, <3>1, PatientStill DEF AllPatient, Passed, Account, Entry
  <2> QED BY <2>2 DEF AllPatient
<1>5. ASSUME NEW p \in Providers, RemoveProvider(p) PROVE AllPatient'
  BY <1>1, <1>5, RemovePatient
<1>6. ASSUME NEW p \in Providers, CreateProvider(p) PROVE AllPatient'
  BY <1>1, <1>6, CreatePatient
<1>7. ASSUME NEW p \in Providers, Weigh(p) PROVE AllPatient'
  BY <1>1, <1>7, WeighPatient
<1>8. CASE UNCHANGED vars
  <2>1. ASSUME NEW p \in Providers, NEW s \in Scopes
        PROVE  Patient(p, s)'
    <3>1. Behind(p, s)' \subseteq Behind(p, s)
      BY <1>8 DEF vars, Behind
    <3> QED BY <1>1, <1>8, <3>1, PatientStill DEF vars, AllPatient, Passed, Account, Entry
  <2> QED BY <2>1 DEF AllPatient
<1> QED BY <1>1, <1>2, <1>3, <1>4, <1>5, <1>6, <1>7, <1>8 DEF Next

\* At the start nobody has waited.
LEMMA InitPatient == Init => AllPatient
<1>1. SUFFICES ASSUME Init, NEW p \in Providers, NEW s \in Scopes
               PROVE  Patient(p, s)
  BY DEF AllPatient
<1>2. Passed(p, s) = 0 /\ Account(p, s) = 0 /\ p \in providers /\ weight[p] \in Nat
  BY <1>1, GivenWeight DEF Init, Passed, Account, Entry, ScopedKeys
<1>3. Bound \in Nat /\ Spare(p, s) \in Nat /\ Heaviest[p] \in Nat
  BY BoundTyped, SpareTyped, HeaviestBounds
<1>4. Spare(p, s) * Heaviest[p] \in Nat /\ 0 * weight[p] = 0
  BY <1>2, <1>3
<1> QED BY <1>2, <1>3, <1>4 DEF Patient

\* Whatever the candidates weigh and however they come and go, what a candidate
\* would have gained while others came first stays below twice the bound of the
\* credits, and the requests that had read a lower weight of it.
THEOREM NobodyStarves == Spec => []NoStarvation
<1>1. SchedulerInv /\ Drifting => AccountsBounded
  BY AccountBounded DEF SchedulerInv, AccountsBounded
<1>2. SchedulerInv /\ AccountsBounded /\ AllPatient => NoStarvation
  <2>1. SUFFICES ASSUME SchedulerInv, AccountsBounded, AllPatient, NEW k \in ScopedKeys
                 PROVE  passed[k] * weight[k[1]]
                          <= 2 * Bound + Cardinality(Requests) * Heaviest[k[1]]
    BY DEF NoStarvation, Bound
  <2>2. PICK p \in Providers, s \in Scopes : k = <<p, s>>
    BY DEF ScopedKeys
  <2>3. PICK n, w, u, h, a, b, m : /\ n = Passed(p, s) /\ w = weight[p] /\ u = Spare(p, s)
                                   /\ h = Heaviest[p] /\ a = Account(p, s) /\ b = Bound
                                   /\ m = Cardinality(Requests)
    OBVIOUS
  <2>4. /\ n \in Nat /\ w \in Nat /\ u \in Nat /\ h \in Nat /\ a \in Int /\ b \in Nat /\ m \in Nat
        /\ w <= h /\ u <= m /\ a <= b
    BY <2>1, <2>3, ProviderFacts, SpareTyped, BoundTyped DEF AccountsBounded
  <2>5. Patient(p, s)
    BY <2>1 DEF AllPatient
  <2>6. u * h <= m * h /\ u * h \in Int /\ m * h \in Int /\ n * w \in Int
    BY <2>4
  <2>7. n * w <= 2 * b + m * h
    <3>1. CASE p \in providers
      <4>1. n * w <= a + b + u * h
        BY <2>3, <2>5, <3>1 DEF Patient
      <4> QED BY <2>4, <2>6, <4>1
    <3>2. CASE p \notin providers
      <4>1. n <= u
        BY <2>3, <2>5, <3>2 DEF Patient
      <4>2. n * w <= u * w /\ u * w <= u * h /\ u * w \in Int
        BY <2>4, <4>1
      <4> QED BY <2>4, <2>6, <4>2
    <3> QED BY <3>1, <3>2
  <2>8. passed[k] = n /\ weight[k[1]] = w /\ Heaviest[k[1]] = h
    BY <2>2, <2>3 DEF Passed
  <2> QED BY <2>3, <2>7, <2>8
<1> QED BY <1>1, <1>2, AlwaysDrifting, InitPatient, StepPatient, PTL DEF Spec

-----------------------------------------------------------------------------
(* The scheduler in the gateway. *)

\* Every step of the gateway is a turn of the scheduler, an edit of the providers, or
\* none of its business.
LEMMA StepOfScheduler ==
    ASSUME [SelectionNext]_selectionVars
    PROVE  [Next]_vars
<1>1. ASSUME NEW r \in Requests, Arrive(r)
      PROVE  Next
  BY <1>1 DEF Arrive, Next
<1>2. ASSUME NEW r \in Requests, SelectPlain(r)
      PROVE  Next
  BY <1>2 DEF SelectPlain, Next
<1>3. ASSUME NEW r \in Requests, TurnAway(r)
      PROVE  Next
  BY <1>3 DEF TurnAway, Next
<1>4. ASSUME NEW r \in Requests, NEW k \in Keys, SelectBound(r, k) \/ SelectFirst(r, k)
      PROVE  Next
  BY <1>4 DEF SelectBound, SelectFirst, Next
<1>5. CASE Affine
  BY <1>5 DEF Affine
<1>6. CASE Edit
  BY <1>6 DEF Edit, Next
<1>7. CASE UNCHANGED selectionVars
  BY <1>7 DEF selectionVars
<1> QED BY <1>1, <1>2, <1>3, <1>4, <1>5, <1>6, <1>7 DEF SelectionNext

\* What the proofs on the scheduler say holds of the gateway.
LEMMA GatewaySchedules == SelectionSpec => Spec
<1>1. SelectionInit => Init
  BY DEF SelectionInit
<1>2. [SelectionNext]_selectionVars => [Next]_vars
  BY StepOfScheduler
<1> QED BY <1>1, <1>2, PTL DEF SelectionSpec, Spec

\* A request that is selected for has candidates its scope may find, and its order is
\* one of theirs.
LEMMA SelectedOrder ==
    ASSUME SchedulerInv, NEW r \in Requests, Select(r)
    PROVE  \E C \in UNION {CandidateSets[s] : s \in Scopes} :
              Order(snap[r].cands, snap[r].scope) \in Affinity!SetToSeqs(C)
<1>1. snap[r] # Idle
  BY DEF Select
<1>2. /\ ScopeOf(r) \in Scopes /\ Weighing(Weighed(r)) /\ CurrentTyped
      /\ DOMAIN Weighed(r) \in CandidateSets[ScopeOf(r)]
  BY <1>1, RequestWeighs DEF SchedulerInv, SnapsKnown, ScopeOf, Weighed
<1>3. Order(Weighed(r), ScopeOf(r)) \in SetToSeqs(DOMAIN Weighed(r))
  BY <1>2, OrderShuffles
<1>4. Weighed(r) = snap[r].cands /\ ScopeOf(r) = snap[r].scope
  BY DEF Weighed, ScopeOf
<1>5. DOMAIN snap[r].cands \in UNION {CandidateSets[s] : s \in Scopes}
  BY <1>2, <1>4
<1>6. ASSUME NEW C, NEW o \in SetToSeqs(C)
      PROVE  o \in Affinity!SetToSeqs(C)
  <2>1. Cardinality(C) = Affinity!Cardinality(C)
    BY DEF Cardinality, Affinity!Cardinality
  <2> QED BY <1>6, <2>1 DEF SetToSeqs, Affinity!SetToSeqs
<1>7. Order(snap[r].cands, snap[r].scope) \in Affinity!SetToSeqs(DOMAIN snap[r].cands)
  <2>1. Order(snap[r].cands, snap[r].scope) \in SetToSeqs(DOMAIN snap[r].cands)
    BY <1>3, <1>4
  <2> QED BY <1>6, <2>1
<1> QED BY <1>5, <1>7

\* Every step of the gateway is one of the session table or none of its business.
LEMMA StepOfTable ==
    ASSUME SchedulerInv, [SelectionNext]_selectionVars
    PROVE  [Affinity!Next]_(Affinity!vars)
<1>1. ASSUME NEW r \in Requests, Arrive(r) \/ TurnAway(r)
      PROVE  UNCHANGED Affinity!vars
  BY <1>1 DEF Arrive, TurnAway, affinityVars, Affinity!vars
<1>2. ASSUME NEW r \in Requests, SelectPlain(r)
      PROVE  Affinity!Next
  <2>1. PICK C \in UNION {CandidateSets[s] : s \in Scopes} :
          Order(snap[r].cands, snap[r].scope) \in Affinity!SetToSeqs(C)
    BY <1>2, SelectedOrder DEF SelectPlain
  <2>2. Affinity!Resolve(r)
    BY <1>2, <2>1 DEF SelectPlain, Affinity!Resolve
  <2> QED BY <2>2 DEF Affinity!Next
<1>3. ASSUME NEW r \in Requests, NEW k \in Keys, SelectBound(r, k) \/ SelectFirst(r, k)
      PROVE  Affinity!Next
  <2>1. PICK C \in UNION {CandidateSets[s] : s \in Scopes} :
          Order(snap[r].cands, snap[r].scope) \in Affinity!SetToSeqs(C)
    BY <1>3, SelectedOrder DEF SelectBound, SelectFirst
  <2>2. Affinity!Resolve(r)
    BY <1>3, <2>1 DEF SelectBound, SelectFirst, Affinity!Resolve
  <2> QED BY <2>2 DEF Affinity!Next
<1>4. CASE Affine
  BY <1>4 DEF Affine, Affinity!Next
<1>5. CASE Edit
  BY <1>5 DEF Edit, affinityVars, Affinity!vars
<1>6. CASE UNCHANGED selectionVars
  BY <1>6 DEF selectionVars, affinityVars, Affinity!vars
<1> QED BY <1>1, <1>2, <1>3, <1>4, <1>5, <1>6 DEF SelectionNext

\* The composition implements the session table: what the scheduler answers inside the
\* table's critical section is one of the orders of its candidates.
THEOREM ImplementsTable == SelectionSpec => TableSpec
<1>1. SelectionInit => Affinity!Init
  BY DEF SelectionInit
<1>2. SchedulerInv /\ [SelectionNext]_selectionVars => [Affinity!Next]_(Affinity!vars)
  BY StepOfTable
<1>3. SelectionSpec => []SchedulerInv
  BY GatewaySchedules, AlwaysBalanced, PTL
<1> QED BY <1>1, <1>2, <1>3, PTL DEF SelectionSpec, TableSpec, Affinity!Spec

\* So the shares are fair whatever the sessions do: no candidate takes more turns of
\* a round than it weighs, those of bound sessions included; no credit piles up,
\* and nobody starves.
THEOREM SharesAreFairToSessions ==
    SelectionSpec => [](TypeOK /\ FairShare /\ NoDrift /\ NoStarvation)
<1> QED BY GatewaySchedules, SchedulerTypeCorrect, SharesAreFair, CreditsAreBounded, NobodyStarves, PTL
=============================================================================

----------------------------- MODULE AsaProofs -----------------------------
(***************************************************************************)
(* Proofs about Asa: a transfer the chain accepts keeps a ledger a ledger, *)
(* and what all its accounts hold together.  That is a sum over a finite   *)
(* set, so the module begins with induction, over natural numbers and over *)
(* finite sets, stated with the set of what is good in the place of a      *)
(* predicate, and with the laws of sums that the other proofs rest on.     *)
(***************************************************************************)
EXTENDS Asa, FiniteSetTheorems, TLAPS

(***************************************************************************)
(* A subset of S that is not good, and smallest among those, cannot exist. *)
(***************************************************************************)
LEMMA SetInduction ==
    ASSUME NEW S, IsFiniteSet(S), NEW good,
           \A T \in SUBSET S : (\A U \in SUBSET T : U # T => U \in good) => T \in good
    PROVE  S \in good
<1> DEFINE bad == {T \in SUBSET S : T \notin good}
<1> SUFFICES ASSUME S \notin good PROVE FALSE
  OBVIOUS
<1>1. bad \subseteq FiniteSubsetsOf(S) /\ bad # {}
  BY FS_FiniteSubsetsOfFinite
<1>2. PICK T \in bad : \A U \in bad : ~ (<<U, T>> \in StrictSubsetOrdering(S))
  <2> HIDE DEF bad
  <2> QED
    BY <1>1, FS_StrictSubsetOrderingWellFounded, WFMin
<1>3. \A U \in SUBSET T : U # T => U \in good
  BY <1>2 DEF StrictSubsetOrdering
<1> QED
  BY <1>2, <1>3

LEMMA NatSetInduction ==
    ASSUME NEW good, 0 \in good, \A n \in Nat : n \in good => n + 1 \in good
    PROVE  \A n \in Nat : n \in good
<1> DEFINE bad == {n \in Nat : n \notin good}
<1> SUFFICES ASSUME bad # {} PROVE FALSE
  OBVIOUS
<1>1. PICK n \in bad : \A m \in bad : ~ (<<m, n>> \in OpToRel(<, Nat))
  <2>1. bad \subseteq Nat
    OBVIOUS
  <2> HIDE DEF bad
  <2> QED
    BY <2>1, NatLessThanWellFounded, WFMin, Zenon
<1>2. \A m \in bad : ~ (m < n)
  BY <1>1 DEF OpToRel
<1>3. n # 0
  OBVIOUS
<1>4. n - 1 \in Nat /\ n - 1 \notin bad
  BY <1>2, <1>3
<1> QED
  BY <1>4
-----------------------------------------------------------------------------
\* What makes sum the sums of f over the subsets of S.
AddsUp(f, S, sum) ==
    sum = [T \in SUBSET S |->
              IF T = {} THEN 0
              ELSE f[CHOOSE x \in T : TRUE] + sum[T \ {CHOOSE x \in T : TRUE}]]

LEMMA SumIsChosen ==
    ASSUME NEW f, NEW S
    PROVE  SumFunctionOnSet(f, S) = (CHOOSE sum : AddsUp(f, S, sum))[S]
  BY Zenon DEF SumFunctionOnSet, FoldFunctionOnSet, MapThenFoldSet, AddsUp

(***************************************************************************)
(* The recursion is well defined: a function that adds up the sets of at   *)
(* most n elements gives one that adds up those of n + 1.                  *)
(***************************************************************************)
LEMMA SumsExist ==
    ASSUME NEW f, NEW S, IsFiniteSet(S)
    PROVE  \E sum : AddsUp(f, S, sum)
<1> DEFINE next(g) == [T \in SUBSET S |->
                IF T = {} THEN 0
                ELSE f[CHOOSE x \in T : TRUE] + g[T \ {CHOOSE x \in T : TRUE}]]
           upTo(g, n) == \A T \in SUBSET S : Cardinality(T) <= n => g[T] = next(g)[T]
           good == {n \in Nat : \E g : upTo(g, n)}
<1>1. 0 \in good
  <2>1. \A T \in SUBSET S : Cardinality(T) <= 0 => T = {}
    <3> TAKE T \in SUBSET S
    <3>1. IsFiniteSet(T) /\ Cardinality(T) \in Nat
      BY FS_Subset, FS_CardinalityType
    <3> QED
      BY <3>1, FS_EmptySet
  <2>2. upTo([T \in SUBSET S |-> 0], 0)
    BY <2>1
  <2> QED
    BY <2>2
<1>2. ASSUME NEW n \in Nat, n \in good PROVE n + 1 \in good
  <2>1. PICK g : upTo(g, n)
    BY <1>2
  <2>2. upTo(next(g), n + 1)
    <3> SUFFICES ASSUME NEW T \in SUBSET S, Cardinality(T) <= n + 1, T # {}
                 PROVE  next(g)[T] = next(next(g))[T]
      OBVIOUS
    <3> DEFINE x == CHOOSE x \in T : TRUE
    <3>1. x \in T
      OBVIOUS
    <3>2. IsFiniteSet(T) /\ Cardinality(T) \in Nat
      BY FS_Subset, FS_CardinalityType
    <3>3. Cardinality(T \ {x}) <= n
      <4>1. Cardinality(T \ {x}) = Cardinality(T) - 1
        <5> HIDE DEF x
        <5> QED
          BY <3>1, <3>2, FS_RemoveElement
      <4> HIDE DEF x
      <4> QED
        BY <3>2, <4>1
    <3>4. g[T \ {x}] = next(g)[T \ {x}]
      BY <2>1, <3>3
    <3>5. next(g)[T] = f[x] + g[T \ {x}] /\ next(next(g))[T] = f[x] + next(g)[T \ {x}]
      OBVIOUS
    <3> QED
      BY <3>4, <3>5
  <2>3. \E h : upTo(h, n + 1)
    <3> HIDE DEF upTo
    <3> QED
      BY <2>2
  <2> HIDE DEF upTo
  <2> QED
    BY <2>3
<1>3. Cardinality(S) \in Nat
  BY FS_CardinalityType
<1>4. PICK g : upTo(g, Cardinality(S))
  <2>1. Cardinality(S) \in good
    <3> HIDE DEF good
    <3> QED
      BY <1>1, <1>2, <1>3, NatSetInduction
  <2> QED
    BY <2>1
<1>5. \A T \in SUBSET S : g[T] = next(g)[T]
  BY <1>4, FS_Subset
<1> DEFINE sum == [T \in SUBSET S |-> g[T]]
<1>6. sum = next(sum)
  <2> SUFFICES ASSUME NEW T \in SUBSET S PROVE sum[T] = next(sum)[T]
    OBVIOUS
  <2>1. sum[T] = next(g)[T]
    BY <1>5
  <2>2. next(g)[T] = next(sum)[T]
    OBVIOUS
  <2> QED
    BY <2>1, <2>2
<1>7. AddsUp(f, S, sum)
  BY <1>6 DEF AddsUp
<1> QED
  BY <1>7

LEMMA SumsAgree ==
    ASSUME NEW f, NEW S, NEW T \in SUBSET S, IsFiniteSet(S), NEW g, NEW h,
           AddsUp(f, S, g), AddsUp(f, T, h)
    PROVE  g[T] = h[T]
<1> DEFINE good == {U \in SUBSET T : g[U] = h[U]}
<1>1. ASSUME NEW U \in SUBSET T, \A V \in SUBSET U : V # U => V \in good
      PROVE  U \in good
  <2>1. CASE U = {}
    BY <2>1 DEF AddsUp
  <2>2. CASE U # {}
    <3> DEFINE x == CHOOSE x \in U : TRUE
    <3>1. x \in U
      BY <2>2
    <3>2. g[U] = f[x] + g[U \ {x}] /\ h[U] = f[x] + h[U \ {x}]
      BY <2>2 DEF AddsUp
    <3>3. g[U \ {x}] = h[U \ {x}]
      BY <1>1, <3>1
    <3> QED
      BY <3>2, <3>3
  <2> QED
    BY <2>1, <2>2
<1>2. IsFiniteSet(T)
  BY FS_Subset
<1>3. T \in good
  <2> HIDE DEF good
  <2> QED
    BY <1>1, <1>2, SetInduction
<1> QED
  BY <1>3

LEMMA SumAddsUp ==
    ASSUME NEW f, NEW S, IsFiniteSet(S)
    PROVE  AddsUp(f, S, CHOOSE sum : AddsUp(f, S, sum))
  BY SumsExist

LEMMA SumEmpty == ASSUME NEW f PROVE SumFunctionOnSet(f, {}) = 0
<1>1. AddsUp(f, {}, CHOOSE sum : AddsUp(f, {}, sum))
  BY SumAddsUp, FS_EmptySet
<1> QED
  BY <1>1, SumIsChosen DEF AddsUp

LEMMA SumChosen ==
    ASSUME NEW f, NEW S, IsFiniteSet(S), S # {}
    PROVE  LET x == CHOOSE x \in S : TRUE
           IN  SumFunctionOnSet(f, S) = f[x] + SumFunctionOnSet(f, S \ {x})
<1> DEFINE x == CHOOSE x \in S : TRUE
           g == CHOOSE sum : AddsUp(f, S, sum)
           h == CHOOSE sum : AddsUp(f, S \ {x}, sum)
<1>1. S \ {x} \in SUBSET S /\ IsFiniteSet(S \ {x})
  BY FS_Subset
<1>2. AddsUp(f, S, g) /\ AddsUp(f, S \ {x}, h)
  BY <1>1, SumAddsUp
<1>3. SumFunctionOnSet(f, S) = g[S] /\ SumFunctionOnSet(f, S \ {x}) = h[S \ {x}]
  BY SumIsChosen
<1>4. g[S \ {x}] = h[S \ {x}]
  <2> HIDE DEF g, h, x
  <2> QED
    BY <1>1, <1>2, SumsAgree
<1>5. g[S] = f[x] + g[S \ {x}]
  <2> HIDE DEF g
  <2> QED
    BY <1>2 DEF AddsUp
<1> QED
  BY <1>3, <1>4, <1>5
-----------------------------------------------------------------------------
(***************************************************************************)
(* A sum of naturals is a natural.                                         *)
(***************************************************************************)
LEMMA SumNat ==
    ASSUME NEW f, NEW S, IsFiniteSet(S), \A x \in S : f[x] \in Nat
    PROVE  SumFunctionOnSet(f, S) \in Nat
<1> DEFINE good == {T \in SUBSET S : SumFunctionOnSet(f, T) \in Nat}
<1>1. ASSUME NEW T \in SUBSET S, \A U \in SUBSET T : U # T => U \in good
      PROVE  T \in good
  <2>1. CASE T = {}
    BY <2>1, SumEmpty
  <2>2. CASE T # {}
    <3> DEFINE x == CHOOSE x \in T : TRUE
    <3>1. x \in T /\ IsFiniteSet(T)
      BY <2>2, FS_Subset
    <3>2. SumFunctionOnSet(f, T) = f[x] + SumFunctionOnSet(f, T \ {x})
      BY <2>2, <3>1, SumChosen
    <3>3. SumFunctionOnSet(f, T \ {x}) \in Nat
      BY <1>1, <3>1
    <3> QED
      BY <3>1, <3>2, <3>3
  <2> QED
    BY <2>1, <2>2
<1>2. S \in good
  <2> HIDE DEF good
  <2> QED
    BY <1>1, SetInduction
<1> QED
  BY <1>2

(***************************************************************************)
(* The order of the summands does not matter: any of them may come first.  *)
(***************************************************************************)
LEMMA SumSplit ==
    ASSUME NEW f, NEW S, IsFiniteSet(S), \A x \in S : f[x] \in Nat, NEW x \in S
    PROVE  SumFunctionOnSet(f, S) = f[x] + SumFunctionOnSet(f, S \ {x})
<1> DEFINE Sum(T) == SumFunctionOnSet(f, T)
           good == {T \in SUBSET S : \A y \in T : Sum(T) = f[y] + Sum(T \ {y})}
<1>1. ASSUME NEW T \in SUBSET S PROVE IsFiniteSet(T) /\ Sum(T) \in Nat
  BY FS_Subset, SumNat
<1>2. ASSUME NEW T \in SUBSET S, \A U \in SUBSET T : U # T => U \in good, NEW y \in T
      PROVE  Sum(T) = f[y] + Sum(T \ {y})
  <2> DEFINE c == CHOOSE z \in T : TRUE
  <2>1. c \in T
    OBVIOUS
  <2>2. Sum(T) = f[c] + Sum(T \ {c})
    BY <1>1, SumChosen
  <2>3. CASE y = c
    BY <2>2, <2>3
  <2>4. CASE y # c
    <3>1. T \ {c} \in good /\ T \ {y} \in good
      BY <1>2, <2>1
    <3>2. Sum(T \ {c}) = f[y] + Sum((T \ {c}) \ {y})
      BY <2>4, <3>1
    <3>3. Sum(T \ {y}) = f[c] + Sum((T \ {y}) \ {c})
      BY <2>1, <2>4, <3>1
    <3>4. (T \ {c}) \ {y} = (T \ {y}) \ {c}
      OBVIOUS
    <3>5. f[c] \in Nat /\ f[y] \in Nat /\ Sum((T \ {y}) \ {c}) \in Nat
      BY <1>1, <2>1
    <3> HIDE DEF Sum, c, good
    <3> QED
      BY <2>2, <3>2, <3>3, <3>4, <3>5
  <2> QED
    BY <2>3, <2>4
<1>3. S \in good
  <2>1. \A T \in SUBSET S : (\A U \in SUBSET T : U # T => U \in good) => T \in good
    BY <1>2
  <2> HIDE DEF good
  <2> QED
    BY <2>1, SetInduction
<1> QED
  BY <1>3

(***************************************************************************)
(* Summands that are no larger have a sum that is no larger.               *)
(***************************************************************************)
LEMMA SumMonotone ==
    ASSUME NEW f, NEW g, NEW S, IsFiniteSet(S),
           \A x \in S : f[x] \in Nat /\ g[x] \in Nat /\ f[x] <= g[x]
    PROVE  SumFunctionOnSet(f, S) <= SumFunctionOnSet(g, S)
<1> DEFINE good == {T \in SUBSET S : SumFunctionOnSet(f, T) <= SumFunctionOnSet(g, T)}
<1>1. ASSUME NEW T \in SUBSET S, \A U \in SUBSET T : U # T => U \in good
      PROVE  T \in good
  <2>1. CASE T = {}
    BY <2>1, SumEmpty
  <2>2. CASE T # {}
    <3>1. PICK x \in T : TRUE
      BY <2>2
    <3>2. IsFiniteSet(T) /\ IsFiniteSet(T \ {x})
      BY FS_Subset
    <3>3. /\ SumFunctionOnSet(f, T) = f[x] + SumFunctionOnSet(f, T \ {x})
          /\ SumFunctionOnSet(g, T) = g[x] + SumFunctionOnSet(g, T \ {x})
      BY <3>2, SumSplit
    <3>4. SumFunctionOnSet(f, T \ {x}) \in Nat /\ SumFunctionOnSet(g, T \ {x}) \in Nat
      BY <3>2, SumNat
    <3>5. SumFunctionOnSet(f, T \ {x}) <= SumFunctionOnSet(g, T \ {x})
      BY <1>1, <3>1
    <3>6. f[x] \in Nat /\ g[x] \in Nat /\ f[x] <= g[x]
      BY <3>1
    <3> QED
      BY <3>3, <3>4, <3>5, <3>6
  <2> QED
    BY <2>1, <2>2
<1>2. S \in good
  <2> HIDE DEF good
  <2> QED
    BY <1>1, SetInduction
<1> QED
  BY <1>2

LEMMA SumSame ==
    ASSUME NEW f, NEW g, NEW S, IsFiniteSet(S),
           \A x \in S : f[x] \in Nat /\ f[x] = g[x]
    PROVE  SumFunctionOnSet(f, S) = SumFunctionOnSet(g, S)
<1>1. SumFunctionOnSet(f, S) <= SumFunctionOnSet(g, S)
  BY SumMonotone
<1>2. SumFunctionOnSet(g, S) <= SumFunctionOnSet(f, S)
  BY SumMonotone
<1>3. SumFunctionOnSet(f, S) \in Nat /\ SumFunctionOnSet(g, S) \in Nat
  BY SumNat
<1> QED
  BY <1>1, <1>2, <1>3

(***************************************************************************)
(* A sum in which one summand changes, changes by as much.                 *)
(***************************************************************************)
LEMMA SumUpdate ==
    ASSUME NEW f, NEW g, NEW S, IsFiniteSet(S), NEW x \in S,
           \A y \in S : f[y] \in Nat /\ g[y] \in Nat,
           \A y \in S \ {x} : g[y] = f[y]
    PROVE  SumFunctionOnSet(g, S) + f[x] = SumFunctionOnSet(f, S) + g[x]
<1>1. IsFiniteSet(S \ {x})
  BY FS_Subset
<1>2. /\ SumFunctionOnSet(f, S) = f[x] + SumFunctionOnSet(f, S \ {x})
      /\ SumFunctionOnSet(g, S) = g[x] + SumFunctionOnSet(g, S \ {x})
  BY SumSplit
<1>3. SumFunctionOnSet(f, S \ {x}) = SumFunctionOnSet(g, S \ {x})
  BY <1>1, SumSame
<1>4. SumFunctionOnSet(f, S \ {x}) \in Nat
  BY <1>1, SumNat
<1> QED
  BY <1>2, <1>3, <1>4

LEMMA SumOfZeros ==
    ASSUME NEW f, NEW S, IsFiniteSet(S), \A x \in S : f[x] = 0
    PROVE  SumFunctionOnSet(f, S) = 0
<1> DEFINE good == {T \in SUBSET S : SumFunctionOnSet(f, T) = 0}
<1>1. ASSUME NEW T \in SUBSET S, \A U \in SUBSET T : U # T => U \in good
      PROVE  T \in good
  <2>1. CASE T = {}
    BY <2>1, SumEmpty
  <2>2. CASE T # {}
    <3>1. PICK x \in T : TRUE
      BY <2>2
    <3>2. SumFunctionOnSet(f, T) = f[x] + SumFunctionOnSet(f, T \ {x})
      BY FS_Subset, SumSplit
    <3> QED
      BY <1>1, <3>1, <3>2
  <2> QED
    BY <2>1, <2>2
<1>2. S \in good
  <2> HIDE DEF good
  <2> QED
    BY <1>1, SetInduction
<1> QED
  BY <1>2

(***************************************************************************)
(* Fewer summands have a sum that is no larger.                            *)
(***************************************************************************)
LEMMA SumSubset ==
    ASSUME NEW f, NEW S, IsFiniteSet(S), \A x \in S : f[x] \in Nat, NEW T \in SUBSET S
    PROVE  SumFunctionOnSet(f, T) <= SumFunctionOnSet(f, S)
<1> DEFINE good == {U \in SUBSET S : SumFunctionOnSet(f, U \cap T) <= SumFunctionOnSet(f, U)}
<1>1. ASSUME NEW U \in SUBSET S, \A V \in SUBSET U : V # U => V \in good
      PROVE  U \in good
  <2>1. CASE U \subseteq T
    <3>1. U \cap T = U /\ SumFunctionOnSet(f, U) \in Nat
      BY <2>1, FS_Subset, SumNat
    <3> QED
      BY <3>1
  <2>2. CASE ~ (U \subseteq T)
    <3>1. PICK x \in U : x \notin T
      BY <2>2
    <3>2. (U \ {x}) \cap T = U \cap T
      BY <3>1
    <3>3. IsFiniteSet(U) /\ IsFiniteSet(U \ {x}) /\ IsFiniteSet(U \cap T)
      BY FS_Subset
    <3>4. SumFunctionOnSet(f, U) = f[x] + SumFunctionOnSet(f, U \ {x})
      BY <3>3, SumSplit
    <3>5. SumFunctionOnSet(f, U \ {x}) \in Nat /\ SumFunctionOnSet(f, U \cap T) \in Nat
      BY <3>3, SumNat
    <3>6. SumFunctionOnSet(f, U \cap T) <= SumFunctionOnSet(f, U \ {x})
      BY <1>1, <3>1, <3>2
    <3>7. f[x] \in Nat
      OBVIOUS
    <3> QED
      BY <3>4, <3>5, <3>6, <3>7
  <2> QED
    BY <2>1, <2>2
<1>2. S \in good
  <2> HIDE DEF good
  <2> QED
    BY <1>1, SetInduction
<1>3. S \cap T = T
  OBVIOUS
<1> QED
  BY <1>2, <1>3

LEMMA SumMember ==
    ASSUME NEW f, NEW S, IsFiniteSet(S), \A x \in S : f[x] \in Nat, NEW x \in S
    PROVE  f[x] <= SumFunctionOnSet(f, S)
<1>1. SumFunctionOnSet(f, S) = f[x] + SumFunctionOnSet(f, S \ {x})
  BY SumSplit
<1>2. SumFunctionOnSet(f, S \ {x}) \in Nat
  BY FS_Subset, SumNat
<1> QED
  BY <1>1, <1>2
-----------------------------------------------------------------------------
LEMMA TransferType ==
    ASSUME NEW accounts, NEW ledger \in [accounts -> Holding],
           NEW from \in accounts, NEW to \in accounts, NEW n \in Nat,
           CanTransfer(ledger, from, to, n)
    PROVE  Transfer(ledger, from, to, n) \in [accounts -> Holding]
<1>1. CASE n = 0
  <2>1. ledger[from] \in Holding
    OBVIOUS
  <2>2. [ledger[from] EXCEPT !.optedin = TRUE] \in Holding
    BY <2>1 DEF Holding
  <2> QED
    BY <1>1, <2>2 DEF Transfer
<1>2. CASE n # 0
  <2> DEFINE less == [ledger EXCEPT ![from].amount = @ - n]
  <2>1. ledger[from] \in Holding /\ ledger[from].amount >= n
    BY <1>2 DEF CanTransfer
  <2>2. ledger[from].amount - n \in Nat
    BY <2>1 DEF Holding
  <2>3. [ledger[from] EXCEPT !.amount = @ - n] \in Holding
    BY <2>1, <2>2 DEF Holding
  <2>4. less \in [accounts -> Holding]
    BY <2>3
  <2> HIDE DEF less
  <2>5. less[to] \in Holding
    BY <2>4
  <2>6. [less[to] EXCEPT !.amount = @ + n] \in Holding
    BY <2>5 DEF Holding
  <2>7. [less EXCEPT ![to].amount = @ + n] \in [accounts -> Holding]
    BY <2>4, <2>6
  <2> QED
    BY <1>2, <2>7 DEF Transfer, less
<1> QED
  BY <1>1, <1>2

(***************************************************************************)
(* Only the receiver's holding grows, and only the sender's shrinks.       *)
(***************************************************************************)
LEMMA TransferAmounts ==
    ASSUME NEW accounts, NEW ledger \in [accounts -> Holding],
           NEW from \in accounts, NEW to \in accounts, NEW n \in Nat,
           NEW a \in accounts, a # from
    PROVE  Transfer(ledger, from, to, n)[a].amount =
               IF a = to THEN ledger[a].amount + n ELSE ledger[a].amount
<1>1. ledger[a] \in Holding /\ ledger[a].amount + 0 = ledger[a].amount
  BY DEF Holding
<1>2. CASE n = 0
  BY <1>1, <1>2 DEF Transfer, Holding
<1>3. CASE n # 0
  <2> DEFINE less == [ledger EXCEPT ![from].amount = @ - n]
  <2>1. less[a] = ledger[a] /\ DOMAIN less = accounts
    OBVIOUS
  <2> HIDE DEF less
  <2>2. [less EXCEPT ![to].amount = @ + n][a].amount
            = IF a = to THEN ledger[a].amount + n ELSE ledger[a].amount
    BY <1>1, <2>1 DEF Holding
  <2> QED
    BY <1>3, <2>2 DEF Transfer, less
<1> QED
  BY <1>2, <1>3

\* The units of an asset that the accounts hold together.
Units(ledger, accounts) == SumFunctionOnSet([a \in accounts |-> ledger[a].amount], accounts)

LEMMA UnitsUpdate ==
    ASSUME NEW accounts, IsFiniteSet(accounts), NEW before, NEW after, NEW a \in accounts,
           \A b \in accounts : before[b].amount \in Nat /\ after[b].amount \in Nat,
           \A b \in accounts \ {a} : after[b].amount = before[b].amount
    PROVE  Units(after, accounts) + before[a].amount = Units(before, accounts) + after[a].amount
<1> DEFINE f == [b \in accounts |-> before[b].amount]
           g == [b \in accounts |-> after[b].amount]
<1>1. /\ \A b \in accounts : f[b] \in Nat /\ g[b] \in Nat
      /\ \A b \in accounts \ {a} : g[b] = f[b]
      /\ f[a] = before[a].amount /\ g[a] = after[a].amount
  OBVIOUS
<1>2. Units(before, accounts) = SumFunctionOnSet(f, accounts)
      /\ Units(after, accounts) = SumFunctionOnSet(g, accounts)
  BY DEF Units
<1> HIDE DEF f, g
<1>3. SumFunctionOnSet(g, accounts) + f[a] = SumFunctionOnSet(f, accounts) + g[a]
  BY <1>1, SumUpdate
<1> QED
  BY <1>1, <1>2, <1>3

LEMMA UnitsNat ==
    ASSUME NEW accounts, IsFiniteSet(accounts), NEW ledger,
           \A a \in accounts : ledger[a].amount \in Nat
    PROVE  Units(ledger, accounts) \in Nat
<1> DEFINE f == [b \in accounts |-> ledger[b].amount]
<1>1. \A b \in accounts : f[b] \in Nat
  OBVIOUS
<1> HIDE DEF f
<1>2. SumFunctionOnSet(f, accounts) \in Nat
  BY <1>1, SumNat
<1> QED
  BY <1>2 DEF Units, f

(***************************************************************************)
(* A transfer makes no units and loses none, also one to oneself.          *)
(***************************************************************************)
THEOREM TransferConserves ==
    ASSUME NEW accounts, IsFiniteSet(accounts), NEW ledger \in [accounts -> Holding],
           NEW from \in accounts, NEW to \in accounts, NEW n \in Nat,
           CanTransfer(ledger, from, to, n)
    PROVE  Units(Transfer(ledger, from, to, n), accounts) = Units(ledger, accounts)
<1>1. \A a \in accounts : ledger[a] \in Holding /\ ledger[a].amount \in Nat
  BY DEF Holding
<1>2. CASE n = 0
  <2>1. \A a \in accounts : Transfer(ledger, from, to, n)[a].amount = ledger[a].amount
    BY <1>1, <1>2 DEF Transfer, Holding
  <2> QED
    BY <2>1 DEF Units
<1>3. CASE n # 0
  <2> DEFINE less == [ledger EXCEPT ![from].amount = @ - n]
             more == [less EXCEPT ![to].amount = @ + n]
  <2>1. ledger[from].amount >= n
    BY <1>3 DEF CanTransfer
  <2>2. /\ less[from].amount = ledger[from].amount - n
        /\ \A a \in accounts \ {from} : less[a] = ledger[a]
    BY <1>1 DEF Holding
  <2>3. \A a \in accounts : less[a].amount \in Nat
    BY <1>1, <2>1, <2>2
  <2>4. DOMAIN less = accounts /\ \A a \in accounts : "amount" \in DOMAIN less[a]
    BY <1>1 DEF Holding
  <2> HIDE DEF less
  <2>5. /\ more[to].amount = less[to].amount + n
        /\ \A a \in accounts \ {to} : more[a] = less[a]
    BY <2>4
  <2> HIDE DEF more
  <2>6. \A a \in accounts : more[a].amount \in Nat
    BY <2>3, <2>5
  <2>7. Units(less, accounts) + ledger[from].amount
            = Units(ledger, accounts) + less[from].amount
    BY <1>1, <2>2, <2>3, UnitsUpdate
  <2>8. Units(more, accounts) + less[to].amount = Units(less, accounts) + more[to].amount
    BY <2>3, <2>5, <2>6, UnitsUpdate
  <2>9. /\ Units(ledger, accounts) \in Nat /\ Units(less, accounts) \in Nat
        /\ Units(more, accounts) \in Nat
    BY <1>1, <2>3, <2>6, UnitsNat
  <2>10. Units(more, accounts) = Units(ledger, accounts)
    BY <1>1, <2>1, <2>2, <2>3, <2>5, <2>7, <2>8, <2>9
  <2>11. Transfer(ledger, from, to, n) = more
    BY <1>3 DEF Transfer, more, less
  <2> QED
    BY <2>10, <2>11
<1> QED
  BY <1>2, <1>3

(***************************************************************************)
(* A new asset has the units it was created with.                          *)
(***************************************************************************)
LEMMA NewAssetUnits ==
    ASSUME NEW accounts, IsFiniteSet(accounts), NEW creator \in accounts, NEW total \in Nat
    PROVE  /\ NewAsset(accounts, creator, total) \in [accounts -> Holding]
           /\ Units(NewAsset(accounts, creator, total), accounts) = total
<1> DEFINE none == [a \in accounts |-> NoHolding]
           new  == NewAsset(accounts, creator, total)
<1>1. new \in [accounts -> Holding]
  BY DEF NewAsset, NoHolding, Holding
<1>2. new[creator].amount = total /\ \A a \in accounts \ {creator} : new[a] = none[a]
  BY DEF NewAsset
<1>3. \A a \in accounts : none[a].amount = 0 /\ new[a].amount \in Nat
  BY <1>1 DEF NoHolding, Holding
<1>4. Units(none, accounts) = 0
  <2> DEFINE f == [a \in accounts |-> none[a].amount]
  <2>1. \A a \in accounts : f[a] = 0
    BY <1>3
  <2> HIDE DEF f
  <2>2. SumFunctionOnSet(f, accounts) = 0
    BY <2>1, SumOfZeros
  <2> QED
    BY <2>2 DEF Units, f
<1>5. Units(new, accounts) \in Nat
  <2> HIDE DEF new
  <2> QED
    BY <1>3, UnitsNat
<1>6. Units(new, accounts) + none[creator].amount = Units(none, accounts) + new[creator].amount
  <2> HIDE DEF none, new
  <2> QED
    BY <1>2, <1>3, UnitsUpdate
<1> HIDE DEF none, new
<1>7. Units(new, accounts) = total
  BY <1>2, <1>3, <1>4, <1>5, <1>6
<1> QED
  BY <1>1, <1>7 DEF new
=============================================================================

-------------------------- MODULE VaultMath_proofs --------------------------
(* Facts about the share arithmetic, for all amounts, and about sums over  *)
(* finite sets.                                                            *)
EXTENDS VaultMath, FiniteSetTheorems, TLAPS

(* The rounded quotient of multiply_ratio: it is a natural number, and the *)
(* divisor times it is at most the product and misses it by less than one  *)
(* divisor.                                                                *)
LEMMA MultiplyRatioBounds ==
  ASSUME NEW a \in Nat, NEW b \in Nat, NEW c \in Nat \ {0}
  PROVE  LET q == MultiplyRatio(a, b, c)
         IN  /\ q \in Nat
             /\ c * q <= a * b
             /\ a * b < c * q + c
<1> DEFINE p == a * b
           q == p \div c
<1>1. p \in Nat
  OBVIOUS
<1> HIDE DEF p
<1>2. q \in Nat /\ c * q <= p /\ p < c * q + c
  BY <1>1, Z3
<1> QED
  BY <1>2 DEF MultiplyRatio, p

(* The conversions return natural numbers.                                 *)
LEMMA CalculateVaultTokensType ==
  ASSUME NEW base \in Nat, NEW staked \in Nat, NEW supply \in Nat
  PROVE  CalculateVaultTokens(base, staked, supply) \in Nat
<1>1. CASE staked = 0
  BY <1>1, VaultMathAssumption, base * VaultTokensPerBaseToken \in Nat
  DEF CalculateVaultTokens, VaultMathAssumption
<1>2. CASE staked # 0
  BY <1>2, staked \in Nat \ {0}, MultiplyRatioBounds DEF CalculateVaultTokens
<1> QED
  BY <1>1, <1>2

LEMMA CalculateBaseTokensType ==
  ASSUME NEW shares \in Nat, NEW staked \in Nat, NEW supply \in Nat
  PROVE  CalculateBaseTokens(shares, staked, supply) \in Nat
<1>1. CASE supply = 0
  <2>1. shares \div VaultTokensPerBaseToken \in Nat
    <3>1. VaultTokensPerBaseToken \in Nat \ {0}
      BY VaultMathAssumption DEF VaultMathAssumption
    <3> QED
      BY <3>1, Z3
  <2> QED
    BY <1>1, <2>1 DEF CalculateBaseTokens
<1>2. CASE supply # 0
  BY <1>2, supply \in Nat \ {0}, MultiplyRatioBounds DEF CalculateBaseTokens
<1> QED
  BY <1>1, <1>2

(* Multiplication by a natural number keeps an order (used for comparing  *)
(* prices, which are compared as products).                                *)
LEMMA TimesMonotone ==
  ASSUME NEW a \in Nat, NEW b \in Nat, NEW c \in Nat, a <= b
  PROVE  a * c <= b * c
  BY Z3

(* ... and a common positive factor can be cancelled.                      *)
LEMMA TimesCancel ==
  ASSUME NEW a \in Nat, NEW b \in Nat, NEW c \in Nat \ {0}, a * c <= b * c
  PROVE  a <= b
<1> SUFFICES ASSUME b + 1 <= a PROVE FALSE
  OBVIOUS
<1>1. (b + 1) * c <= a * c
  BY TimesMonotone, b + 1 \in Nat, c \in Nat
<1>2. (b + 1) * c = b * c + c
  BY Z3
<1> QED
  BY <1>1, <1>2, a * c \in Nat, b * c \in Nat

(* The shares minted for a deposit never dilute the shares there are: the  *)
(* price staked / supply does not fall (execute_callback_mint_vault_token).*)
LEMMA DepositKeepsPrice ==
  ASSUME NEW amount \in Nat, NEW staked \in Nat \ {0}, NEW supply \in Nat
  PROVE  LET shares == CalculateVaultTokens(amount, staked, supply)
         IN  /\ shares \in Nat
             /\ (staked + amount) * supply >= staked * (supply + shares)
<1> DEFINE shares == MultiplyRatio(supply, amount, staked)
<1>1. shares \in Nat /\ staked * shares <= supply * amount
  BY MultiplyRatioBounds
<1>2. shares = CalculateVaultTokens(amount, staked, supply)
  BY DEF CalculateVaultTokens
<1> HIDE DEF shares
<1>3. /\ (staked + amount) * supply = staked * supply + supply * amount
      /\ staked * (supply + shares) = staked * supply + staked * shares
  BY <1>1, Z3
<1> QED
  BY <1>1, <1>2, <1>3, staked * supply \in Nat, staked * shares \in Nat,
     supply * amount \in Nat

(* A redemption never takes more than there is, takes everything only when *)
(* every share is redeemed, and never lowers the price of the shares that  *)
(* stay (burn_vault_tokens_for_base_tokens, whose checked_sub never fails).*)
LEMMA RedeemKeepsPrice ==
  ASSUME NEW staked \in Nat, NEW supply \in Nat \ {0},
         NEW vaultTokens \in 0..supply
  PROVE  LET baseTokens == CalculateBaseTokens(vaultTokens, staked, supply)
         IN  /\ baseTokens \in 0..staked
             /\ vaultTokens = supply => baseTokens = staked
             /\ staked > 0 /\ vaultTokens < supply => baseTokens < staked
             /\ (staked - baseTokens) * supply >= staked * (supply - vaultTokens)
<1> DEFINE baseTokens == MultiplyRatio(staked, vaultTokens, supply)
           left == staked * (supply - vaultTokens)
<1>1. /\ baseTokens \in Nat
      /\ supply * baseTokens <= staked * vaultTokens
      /\ staked * vaultTokens < supply * baseTokens + supply
  BY MultiplyRatioBounds
<1>2. baseTokens = CalculateBaseTokens(vaultTokens, staked, supply)
  BY DEF CalculateBaseTokens
<1> HIDE DEF baseTokens
<1>3. left \in Nat /\ staked * supply = staked * vaultTokens + left
  <2>1. PICK rest \in Nat : supply = vaultTokens + rest
    BY supply - vaultTokens \in Nat
  <2>2. staked * (vaultTokens + rest) = staked * vaultTokens + staked * rest
    BY <2>1, Z3
  <2> QED
    BY <2>1, <2>2, staked * rest \in Nat DEF left
<1>4. baseTokens * supply <= staked * supply
  BY <1>1, <1>3, supply * baseTokens = baseTokens * supply,
     staked * vaultTokens \in Nat, baseTokens * supply \in Nat
<1>5. baseTokens <= staked
  BY <1>1, <1>4, TimesCancel
<1>6. ASSUME vaultTokens = supply PROVE baseTokens = staked
  <2>1. staked * supply < (baseTokens + 1) * supply
    <3>1. (baseTokens + 1) * supply = supply * baseTokens + supply
      BY <1>1, Z3
    <3> QED
      BY <1>1, <1>6, <3>1
  <2>2. staked < baseTokens + 1
    <3> SUFFICES ASSUME baseTokens + 1 <= staked PROVE FALSE
      BY <1>1
    <3>1. (baseTokens + 1) * supply <= staked * supply
      BY <1>1, TimesMonotone
    <3> QED
      BY <1>1, <2>1, <3>1, (baseTokens + 1) * supply \in Nat,
         staked * supply \in Nat
  <2> QED
    BY <1>1, <1>5, <2>2
<1>7. ASSUME staked > 0, vaultTokens < supply PROVE baseTokens < staked
  <2>1. left > 0
    <3>1. supply - vaultTokens \in Nat \ {0}
      BY <1>7
    <3> QED
      BY <1>7, <3>1, Z3 DEF left
  <2>2. baseTokens # staked
    BY <1>1, <1>3, <2>1, supply * staked = staked * supply,
       staked * vaultTokens \in Nat, staked * supply \in Nat
  <2> QED
    BY <1>1, <1>5, <2>2
<1>8. (staked - baseTokens) * supply >= left
  <2>1. PICK rest \in Nat : staked = baseTokens + rest
    BY <1>1, <1>5, staked - baseTokens \in Nat
  <2>2. /\ staked - baseTokens = rest
        /\ (baseTokens + rest) * supply = supply * baseTokens + rest * supply
    BY <1>1, <2>1, Z3
  <2> QED
    BY <1>1, <1>3, <2>1, <2>2, rest * supply \in Nat,
       supply * baseTokens \in Nat, staked * vaultTokens \in Nat
<1> QED
  BY <1>1, <1>2, <1>5, <1>6, <1>7, <1>8 DEF left

(* Depositing and redeeming the shares at once never pays: the redemption  *)
(* returns at most the deposit (execute_deposit, then execute_redeem or    *)
(* execute_unlock, with nothing compounded in between).                    *)
THEOREM RoundTripNeverPays ==
  ASSUME NEW amount \in Nat, NEW staked \in Nat \ {0}, NEW supply \in Nat
  PROVE  LET shares == CalculateVaultTokens(amount, staked, supply)
         IN  shares > 0 =>
               CalculateBaseTokens(shares, staked + amount, supply + shares)
                 <= amount
<1> DEFINE shares == MultiplyRatio(supply, amount, staked)
           total == supply + shares
           paid == MultiplyRatio(staked + amount, shares, total)
<1>1. shares \in Nat /\ staked * shares <= supply * amount
  BY MultiplyRatioBounds
<1>2. shares = CalculateVaultTokens(amount, staked, supply)
  BY DEF CalculateVaultTokens
<1> HIDE DEF shares
<1> SUFFICES ASSUME shares > 0 PROVE paid <= amount
  BY <1>1, <1>2 DEF CalculateBaseTokens
<1>3. total \in Nat \ {0} /\ staked + amount \in Nat
  BY <1>1
<1>4. paid \in Nat /\ total * paid <= (staked + amount) * shares
  BY <1>1, <1>3, MultiplyRatioBounds
<1>5. (staked + amount) * shares = staked * shares + amount * shares
  BY <1>1, Z3
<1>6. amount * total = supply * amount + amount * shares
  BY <1>1, Z3
<1>7. paid * total <= amount * total
  BY <1>1, <1>3, <1>4, <1>5, <1>6, total * paid = paid * total,
     staked * shares \in Nat, amount * shares \in Nat, supply * amount \in Nat,
     paid * total \in Nat, amount * total \in Nat
<1> QED
  BY <1>3, <1>4, <1>7, TimesCancel

(* The performance fee is never more than the balance it is taken from, so *)
(* checked_sub in execute_callback_sell_rewards never fails.               *)
THEOREM FeeWithinBalance ==
  ASSUME NEW balance \in Nat,
         NEW performanceFee \in 0..DecimalOne
  PROVE  BalanceAfterFee(balance, performanceFee) \in 0..balance
<1> DEFINE keep == DecimalOne - performanceFee
           rest == MultiplyRatio(balance, keep, DecimalOne)
<1>1. DecimalOne \in Nat \ {0} /\ keep \in Nat /\ keep <= DecimalOne
  BY VaultMathAssumption DEF VaultMathAssumption
<1>2. rest \in Nat /\ DecimalOne * rest <= balance * keep
  BY <1>1, MultiplyRatioBounds
<1> HIDE DEF rest, keep
<1>3. keep * balance <= DecimalOne * balance
  BY <1>1, TimesMonotone
<1>4. rest * DecimalOne <= balance * DecimalOne
  BY <1>1, <1>2, <1>3, keep * balance = balance * keep,
     DecimalOne * balance = balance * DecimalOne,
     DecimalOne * rest = rest * DecimalOne,
     balance * keep \in Nat, balance * DecimalOne \in Nat, rest * DecimalOne \in Nat
<1>5. rest <= balance
  BY <1>1, <1>2, <1>4, TimesCancel
<1> QED
  BY <1>2, <1>5 DEF BalanceAfterFee, rest, keep

----------------------------------------------------------------------------
(* Sums.  MapThenSumSet is defined by recursion over the subsets of a set; *)
(* that the recursion has a solution, and what holds of every sum, is      *)
(* proved from the least element of a set of natural numbers.              *)

(* A set of natural numbers has a least one, and induction follows.        *)
LEMMA LeastNumber ==
  ASSUME NEW N \in SUBSET Nat, N # {}
  PROVE  \E least \in N : \A n \in N : least <= n
<1>1. \E least \in N : \A n \in N : ~ (<<n, least>> \in OpToRel(<, Nat))
  BY NatLessThanWellFounded, WFMin
<1>2. OpToRel(<, Nat) = {pair \in Nat \X Nat : pair[1] < pair[2]}
  BY DEF OpToRel
<1>3. ASSUME NEW least \in Nat, NEW n \in Nat,
             <<n, least>> \notin OpToRel(<, Nat)
      PROVE  least <= n
  <2>1. ~ n < least
    BY <1>2, <1>3
  <2> QED
    BY <2>1
<1> QED
  BY <1>1, <1>3

LEMMA NatSetInduction ==
  ASSUME NEW N \in SUBSET Nat, 0 \in N, \A n \in N : n + 1 \in N
  PROVE  N = Nat
<1> SUFFICES ASSUME Nat \ N # {} PROVE FALSE
  OBVIOUS
<1>1. PICK least \in Nat \ N : \A n \in Nat \ N : least <= n
  BY LeastNumber
<1>2. least - 1 \in Nat \ N
  BY (least - 1) + 1 = least
<1> QED
  BY <1>1, <1>2

(* A set of subsets that has the empty set, and a set whenever it has the  *)
(* set without any one of its elements, has every finite set.              *)
LEMMA SubsetInduction ==
  ASSUME NEW S, IsFiniteSet(S), NEW Good, {} \in Good,
         \A T \in SUBSET S : (\A x \in T : T \ {x} \in Good) => T \in Good
  PROVE  SUBSET S \subseteq Good
<1> DEFINE Bad == {T \in SUBSET S : T \notin Good}
<1> SUFFICES ASSUME Bad # {} PROVE FALSE
  OBVIOUS
<1>1. IsWellFoundedOn(StrictSubsetOrdering(S), SUBSET S)
  <2>1. FiniteSubsetsOf(S) = SUBSET S
    BY FS_FiniteSubsetsOfFinite
  <2>2. IsWellFoundedOn(StrictSubsetOrdering(S), FiniteSubsetsOf(S))
    BY FS_StrictSubsetOrderingWellFounded
  <2> QED
    BY <2>1, <2>2
<1>2. \E T \in Bad : \A U \in Bad : <<U, T>> \notin StrictSubsetOrdering(S)
  <2>1. Bad \subseteq SUBSET S
    OBVIOUS
  <2> HIDE DEF Bad
  <2> QED
    BY <1>1, <2>1, WFMin
<1>3. PICK T \in Bad : \A U \in Bad : <<U, T>> \notin StrictSubsetOrdering(S)
  BY <1>2
<1>4. \A x \in T : T \ {x} \in Good
  <2> SUFFICES ASSUME NEW x \in T, T \ {x} \notin Good PROVE FALSE
    OBVIOUS
  <2>1. T \ {x} \in Bad /\ T \in SUBSET S
    OBVIOUS
  <2>2. <<T \ {x}, T>> \in StrictSubsetOrdering(S)
    <3>1. <<T \ {x}, T>> \in (SUBSET S) \X (SUBSET S)
      BY <2>1
    <3>2. T \ {x} # T
      OBVIOUS
    <3> QED
      BY <3>1, <3>2 DEF StrictSubsetOrdering
  <2> QED
    BY <1>3, <2>1, <2>2
<1> QED
  BY <1>4

(* The recursion that a sum unfolds to: the next element, and the rest.    *)
NextOf(s) == CHOOSE x \in s : TRUE
Unfold(f, g, s) == IF s = {} THEN 0 ELSE f[NextOf(s)] + g[s \ {NextOf(s)}]

LEMMA NextOfIsElement == ASSUME NEW s, s # {} PROVE NextOf(s) \in s
  BY DEF NextOf


(* There is a function that satisfies the recursion on all subsets: it is  *)
(* built one cardinality at a time.                                        *)
LEMMA SumsExist ==
  ASSUME NEW S, IsFiniteSet(S), NEW f
  PROVE  \E g : g = [s \in SUBSET S |-> Unfold(f, g, s)]
<1> DEFINE IsSumUpTo(g, n) ==
             \A s \in SUBSET S : Cardinality(s) <= n => g[s] = Unfold(f, g, s)
           N == {n \in Nat : \E g : IsSumUpTo(g, n)}
<1>1. ASSUME NEW s \in SUBSET S
      PROVE  /\ Cardinality(s) \in Nat
             /\ Cardinality(s) = 0 => s = {}
             /\ s # {} => /\ s \ {NextOf(s)} \in SUBSET S
                          /\ Cardinality(s \ {NextOf(s)}) = Cardinality(s) - 1
  <2>1. IsFiniteSet(s)
    BY FS_Subset
  <2>2. Cardinality(s) \in Nat /\ (Cardinality(s) = 0 <=> s = {})
    BY <2>1, FS_CardinalityType, FS_EmptySet
  <2>3. s # {} => Cardinality(s \ {NextOf(s)}) = Cardinality(s) - 1
    BY <2>1, FS_RemoveElement, NextOfIsElement
  <2> QED
    BY <2>2, <2>3
<1>2. 0 \in N
  <2> DEFINE g == [s \in SUBSET S |-> 0]
  <2>1. IsSumUpTo(g, 0)
    BY <1>1 DEF Unfold
  <2> HIDE DEF g
  <2> QED
    BY <2>1
<1>3. ASSUME NEW n \in N PROVE n + 1 \in N
  <2>1. PICK g : IsSumUpTo(g, n)
    OBVIOUS
  <2> DEFINE h == [s \in SUBSET S |-> Unfold(f, g, s)]
  <2>2. IsSumUpTo(h, n + 1)
    <3> SUFFICES ASSUME NEW s \in SUBSET S, Cardinality(s) <= n + 1
                 PROVE  h[s] = Unfold(f, h, s)
      OBVIOUS
    <3>1. CASE s = {}
      BY <3>1 DEF Unfold
    <3>2. CASE s # {}
      <4> DEFINE rest == s \ {NextOf(s)}
      <4>1. rest \in SUBSET S /\ Cardinality(rest) <= n
        BY <1>1, <3>2
      <4>2. h[rest] = g[rest]
        BY <2>1, <4>1
      <4>3. h[s] = f[NextOf(s)] + g[rest]
        BY <3>2 DEF Unfold
      <4> QED
        BY <3>2, <4>2, <4>3 DEF Unfold
    <3> QED
      BY <3>1, <3>2
  <2> HIDE DEF h
  <2> QED
    BY <2>2
<1>4. Cardinality(S) \in N
  <2>1. N \in SUBSET Nat
    OBVIOUS
  <2> HIDE DEF N
  <2> QED
    BY <1>1, <1>2, <1>3, <2>1, NatSetInduction, FS_CardinalityType
<1>5. PICK g : IsSumUpTo(g, Cardinality(S))
  BY <1>4
<1> DEFINE h == [s \in SUBSET S |-> g[s]]
<1>6. \A s \in SUBSET S : h[s] = Unfold(f, h, s)
  <2> SUFFICES ASSUME NEW s \in SUBSET S PROVE h[s] = Unfold(f, h, s)
    OBVIOUS
  <2>1. Cardinality(s) <= Cardinality(S)
    BY FS_Subset
  <2>2. g[s] = Unfold(f, g, s)
    BY <1>5, <2>1
  <2>3. s # {} => h[s \ {NextOf(s)}] = g[s \ {NextOf(s)}]
    BY <1>1
  <2> QED
    BY <2>2, <2>3 DEF Unfold
<1>7. h = [s \in SUBSET S |-> Unfold(f, h, s)]
  <2>1. h = [s \in SUBSET S |-> h[s]]
    OBVIOUS
  <2> HIDE DEF h
  <2> QED
    BY <1>6, <2>1
<1> HIDE DEF h
<1> QED
  BY <1>7

(* A sum is a value of that function, for the set or any set around it.    *)
LEMMA SumUnfolds ==
  ASSUME NEW S, NEW f, IsFiniteSet(S)
  PROVE  \E g : /\ g = [s \in SUBSET S |-> Unfold(f, g, s)]
                /\ SumOver(f, S) = g[S]
<1> DEFINE iter == CHOOSE g : g = [s \in SUBSET S |-> Unfold(f, g, s)]
<1>1. SumOver(f, S) = iter[S]
  BY DEF SumOver, MapThenSumSet, MapThenFoldSet, Unfold, NextOf
<1>2. iter = [s \in SUBSET S |-> Unfold(f, iter, s)]
  BY SumsExist
<1> HIDE DEF iter
<1> QED
  BY <1>1, <1>2

LEMMA SumOfSubset ==
  ASSUME NEW S, NEW f, NEW T \in SUBSET S, IsFiniteSet(S),
         NEW g, g = [s \in SUBSET S |-> Unfold(f, g, s)]
  PROVE  SumOver(f, T) = g[T]
<1>1. IsFiniteSet(T)
  BY FS_Subset
<1>2. PICK h : h = [s \in SUBSET T |-> Unfold(f, h, s)] /\ SumOver(f, T) = h[T]
  BY <1>1, SumUnfolds
<1> DEFINE Good == {s \in SUBSET T : h[s] = g[s]}
<1>3. {} \in Good
  <2>1. h[{}] = Unfold(f, h, {}) /\ g[{}] = Unfold(f, g, {})
    BY <1>2
  <2> QED
    BY <2>1 DEF Unfold
<1>4. ASSUME NEW s \in SUBSET T, \A x \in s : s \ {x} \in Good
      PROVE  s \in Good
  <2>1. CASE s = {}
    BY <2>1, <1>3
  <2>2. CASE s # {}
    <3>1. h[s] = Unfold(f, h, s) /\ g[s] = Unfold(f, g, s)
      BY <1>2
    <3>2. h[s \ {NextOf(s)}] = g[s \ {NextOf(s)}]
      BY <1>4, <2>2, NextOfIsElement
    <3> QED
      BY <2>2, <3>1, <3>2 DEF Unfold
  <2> QED
    BY <2>1, <2>2
<1>5. T \in Good
  <2> HIDE DEF Good
  <2> QED
    BY <1>1, <1>3, <1>4, SubsetInduction
<1> QED
  BY <1>2, <1>5

LEMMA SumStep ==
  ASSUME NEW S, NEW f, IsFiniteSet(S)
  PROVE  /\ S = {} => SumOver(f, S) = 0
         /\ S # {} => SumOver(f, S) = f[NextOf(S)] + SumOver(f, S \ {NextOf(S)})
<1>1. PICK g : /\ g = [s \in SUBSET S |-> Unfold(f, g, s)]
               /\ SumOver(f, S) = g[S]
  BY SumUnfolds
<1>2. SumOver(f, S \ {NextOf(S)}) = g[S \ {NextOf(S)}]
  BY <1>1, SumOfSubset, S \ {NextOf(S)} \in SUBSET S
<1>3. g[S] = Unfold(f, g, S)
  BY <1>1
<1> QED
  BY <1>1, <1>2, <1>3 DEF Unfold

(* A sum of natural numbers is one.                                        *)
LEMMA SumType ==
  ASSUME NEW S, NEW f, IsFiniteSet(S), \A x \in S : f[x] \in Nat
  PROVE  SumOver(f, S) \in Nat
<1> DEFINE Good == {T \in SUBSET S : SumOver(f, T) \in Nat}
<1>1. {} \in Good
  BY SumStep, FS_EmptySet
<1>2. ASSUME NEW T \in SUBSET S, \A x \in T : T \ {x} \in Good
      PROVE  T \in Good
  <2>1. CASE T # {}
    <3>1. IsFiniteSet(T) /\ NextOf(T) \in T
      BY <2>1, FS_Subset, NextOfIsElement
    <3>2. SumOver(f, T) = f[NextOf(T)] + SumOver(f, T \ {NextOf(T)})
      BY <2>1, <3>1, SumStep
    <3>3. SumOver(f, T \ {NextOf(T)}) \in Nat /\ f[NextOf(T)] \in Nat
      BY <1>2, <3>1
    <3> QED
      BY <3>2, <3>3
  <2> QED
    BY <1>1, <2>1
<1>3. S \in Good
  <2> HIDE DEF Good
  <2> QED
    BY <1>1, <1>2, SubsetInduction
<1> QED
  BY <1>3

(* Any element may be taken out of the sum first.                          *)
LEMMA SumRemove ==
  ASSUME NEW S, NEW f, IsFiniteSet(S), \A x \in S : f[x] \in Nat, NEW e \in S
  PROVE  SumOver(f, S) = f[e] + SumOver(f, S \ {e})
<1> DEFINE Good == {T \in SUBSET S : \A x \in T : SumOver(f, T) = f[x] + SumOver(f, T \ {x})}
<1>1. {} \in Good
  OBVIOUS
<1>2. ASSUME NEW T \in SUBSET S, \A x \in T : T \ {x} \in Good
      PROVE  T \in Good
  <2> SUFFICES ASSUME NEW x \in T
               PROVE  SumOver(f, T) = f[x] + SumOver(f, T \ {x})
    OBVIOUS
  <2> DEFINE p == NextOf(T)
             rest == T \ {x, p}
  <2>1. IsFiniteSet(T) /\ p \in T
    BY FS_Subset, NextOfIsElement
  <2>2. SumOver(f, T) = f[p] + SumOver(f, T \ {p})
    BY <2>1, SumStep
  <2>3. CASE x # p
    <3>1. /\ SumOver(f, T \ {p}) = f[x] + SumOver(f, (T \ {p}) \ {x})
          /\ SumOver(f, T \ {x}) = f[p] + SumOver(f, (T \ {x}) \ {p})
      BY <1>2, <2>1, <2>3
    <3>2. (T \ {p}) \ {x} = rest /\ (T \ {x}) \ {p} = rest
      OBVIOUS
    <3>3. SumOver(f, rest) \in Nat /\ f[x] \in Nat /\ f[p] \in Nat
      <4>1. IsFiniteSet(rest) /\ rest \subseteq S
        BY FS_Subset
      <4> QED
        BY <2>1, <4>1, SumType
    <3> HIDE DEF p, rest
    <3> QED
      BY <2>2, <3>1, <3>2, <3>3
  <2> QED
    BY <2>2, <2>3
<1>3. S \in Good
  <2> HIDE DEF Good
  <2> QED
    BY <1>1, <1>2, SubsetInduction
<1> QED
  BY <1>3

(* A sum depends only on the summands.                                     *)
LEMMA SumAgrees ==
  ASSUME NEW S, NEW f, NEW g, IsFiniteSet(S), \A x \in S : f[x] = g[x]
  PROVE  SumOver(f, S) = SumOver(g, S)
<1> DEFINE Good == {T \in SUBSET S : SumOver(f, T) = SumOver(g, T)}
<1>1. {} \in Good
  BY SumStep, FS_EmptySet
<1>2. ASSUME NEW T \in SUBSET S, \A x \in T : T \ {x} \in Good
      PROVE  T \in Good
  <2>1. CASE T # {}
    <3>1. /\ SumOver(f, T) = f[NextOf(T)] + SumOver(f, T \ {NextOf(T)})
          /\ SumOver(g, T) = g[NextOf(T)] + SumOver(g, T \ {NextOf(T)})
      BY <2>1, SumStep, FS_Subset
    <3> QED
      BY <1>2, <2>1, <3>1, NextOfIsElement
  <2> QED
    BY <1>1, <2>1
<1>3. S \in Good
  <2> HIDE DEF Good
  <2> QED
    BY <1>1, <1>2, SubsetInduction
<1> QED
  BY <1>3
(* A summand is at most the sum.                                           *)
LEMMA SumBounds ==
  ASSUME NEW S, NEW f, IsFiniteSet(S), \A x \in S : f[x] \in Nat, NEW e \in S
  PROVE  f[e] <= SumOver(f, S)
<1>1. IsFiniteSet(S \ {e})
  BY FS_Subset, S \ {e} \in SUBSET S
<1>2. SumOver(f, S \ {e}) \in Nat /\ f[e] \in Nat
  BY <1>1, SumType
<1> QED
  BY <1>2, SumRemove

(* One summand changes, and the sum by as much.                            *)
LEMMA SumChanges ==
  ASSUME NEW S, NEW f, NEW g, IsFiniteSet(S), NEW e \in S,
         \A x \in S : f[x] \in Nat /\ g[x] \in Nat,
         \A x \in S \ {e} : f[x] = g[x]
  PROVE  SumOver(g, S) = SumOver(f, S) + g[e] - f[e]
<1>1. IsFiniteSet(S \ {e})
  BY FS_Subset, S \ {e} \in SUBSET S
<1>2. /\ SumOver(f, S) = f[e] + SumOver(f, S \ {e})
      /\ SumOver(g, S) = g[e] + SumOver(g, S \ {e})
  BY SumRemove
<1>3. SumOver(f, S \ {e}) = SumOver(g, S \ {e})
  BY <1>1, SumAgrees
<1>4. SumOver(f, S \ {e}) \in Nat /\ f[e] \in Nat /\ g[e] \in Nat
  BY <1>1, SumType
<1> QED
  BY <1>2, <1>3, <1>4

(* A sum of nothing but zeros is zero.                                     *)
LEMMA SumOfZeros ==
  ASSUME NEW S, NEW f, IsFiniteSet(S), \A x \in S : f[x] = 0
  PROVE  SumOver(f, S) = 0
<1> DEFINE Good == {T \in SUBSET S : SumOver(f, T) = 0}
<1>1. {} \in Good
  BY SumStep, FS_EmptySet
<1>2. ASSUME NEW T \in SUBSET S, \A x \in T : T \ {x} \in Good
      PROVE  T \in Good
  <2>1. CASE T # {}
    <3>1. IsFiniteSet(T) /\ NextOf(T) \in T
      BY <2>1, FS_Subset, NextOfIsElement
    <3>2. SumOver(f, T) = f[NextOf(T)] + SumOver(f, T \ {NextOf(T)})
      BY <2>1, <3>1, SumStep
    <3>3. SumOver(f, T \ {NextOf(T)}) = 0 /\ f[NextOf(T)] = 0
      BY <1>2, <3>1
    <3> QED
      BY <3>2, <3>3
  <2> QED
    BY <1>1, <2>1
<1>3. S \in Good
  <2> HIDE DEF Good
  <2> QED
    BY <1>1, <1>2, SubsetInduction
<1> QED
  BY <1>3

(* One more summand.                                                       *)
LEMMA SumAdd ==
  ASSUME NEW S, NEW f, NEW g, IsFiniteSet(S), NEW e, e \notin S,
         \A x \in S : f[x] \in Nat /\ g[x] = f[x], g[e] \in Nat
  PROVE  /\ SumOver(f, S) \in Nat
         /\ SumOver(g, S \cup {e}) = SumOver(f, S) + g[e]
<1>1. IsFiniteSet(S \cup {e}) /\ (S \cup {e}) \ {e} = S
  BY FS_AddElement
<1>2. \A x \in S \cup {e} : g[x] \in Nat
  OBVIOUS
<1>3. e \in S \cup {e}
  OBVIOUS
<1>4. SumOver(g, S \cup {e}) = g[e] + SumOver(g, (S \cup {e}) \ {e})
  BY <1>1, <1>2, <1>3, SumRemove
<1>5. SumOver(f, S) = SumOver(g, S)
  BY SumAgrees
<1>6. SumOver(f, S) \in Nat /\ g[e] \in Nat
  BY SumType
<1>7. SumOver(g, (S \cup {e}) \ {e}) = SumOver(f, S)
  BY <1>1, <1>5
<1> QED
  BY <1>4, <1>6, <1>7

(* The sum over two sets that have nothing in common.                      *)
LEMMA SumJoin ==
  ASSUME NEW A, NEW B, NEW f, IsFiniteSet(A), IsFiniteSet(B), A \cap B = {},
         \A x \in A \cup B : f[x] \in Nat
  PROVE  SumOver(f, A \cup B) = SumOver(f, A) + SumOver(f, B)
<1> DEFINE Joins(T) == SumOver(f, A \cup T) = SumOver(f, A) + SumOver(f, T)
           Good == {T \in SUBSET B : Joins(T)}
<1>1. SumOver(f, A) \in Nat
  BY SumType
<1>2. {} \in Good
  <2>1. SumOver(f, {}) = 0
    BY SumStep, FS_EmptySet
  <2>2. A \cup {} = A
    OBVIOUS
  <2> QED
    BY <1>1, <2>1, <2>2
<1>3. ASSUME NEW T \in SUBSET B, \A x \in T : T \ {x} \in Good
      PROVE  T \in Good
  <2>1. CASE T = {}
    BY <1>2, <2>1
  <2>2. CASE T # {}
    <3>1. PICK x \in T : TRUE
      BY <2>2
    <3>2. IsFiniteSet(T) /\ IsFiniteSet(A \cup T) /\ IsFiniteSet(T \ {x})
      BY FS_Subset, FS_Union, T \ {x} \in SUBSET B
    <3>3. (A \cup T) \ {x} = A \cup (T \ {x}) /\ x \in A \cup T
      BY <3>1
    <3>4. \A y \in A \cup T : f[y] \in Nat
      OBVIOUS
    <3>5. SumOver(f, A \cup T) = f[x] + SumOver(f, (A \cup T) \ {x})
      BY <3>2, <3>3, <3>4, SumRemove
    <3>6. SumOver(f, T) = f[x] + SumOver(f, T \ {x}) /\ SumOver(f, T \ {x}) \in Nat
      BY <3>1, <3>2, <3>4, SumRemove, SumType
    <3>7. Joins(T \ {x})
      BY <1>3, <3>1
    <3>8. f[x] \in Nat
      BY <3>1
    <3> QED
      BY <1>1, <3>3, <3>5, <3>6, <3>7, <3>8
  <2> QED
    BY <2>1, <2>2
<1>4. B \in Good
  <2> HIDE DEF Good
  <2> QED
    BY <1>2, <1>3, SubsetInduction
<1> QED
  BY <1>4
=============================================================================

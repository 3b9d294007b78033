----------------------------- MODULE LedgerProofs -----------------------------
(***************************************************************************)
(* pcoinsTip is always the replay of its chain, and the pool fits it; with *)
(* the ledger alone, with the miner, and with the wallet, kills and        *)
(* restarts.  What the miner builds from the pool always connects.         *)
(*                                                                         *)
(* A view is compared with a set of unspent outputs (Rep).  UpdateCoins    *)
(* takes a view that represents the outputs before a transaction to one    *)
(* that represents those after it, and leaves undo records from which      *)
(* DisconnectBlock gets the first set back, though a record has the height *)
(* of the last output only.  The invariant says at each step of            *)
(* ConnectBlock and DisconnectBlock which outputs the temporary view       *)
(* represents (Part), and that the undo data of every block connected once *)
(* is that of its place in the tree, so it is right for every later visit. *)
(*                                                                         *)
(* The pool's invariant (PoolInv) says what is still in conflict while the *)
(* loops of ConnectTip and DisconnectTip have transactions ahead of them.  *)
(* A further part follows CreateNewBlock over the pool as it was checked   *)
(* when its transactions came, on chains that may have gone since; the     *)
(* last two follow the calls of SyncWithWallets and the wallet's cached    *)
(* credits.  The invariants are defined in LedgerInvariants.               *)
(***************************************************************************)
EXTENDS LedgerInvariants, FiniteSetTheorems, TLAPS

-----------------------------------------------------------------------------
(* Induction *)

\* Induction over the numbers, stated with a set.
LEMMA NatInd ==
  ASSUME NEW S \in SUBSET Nat, 0 \in S, \A k \in S : k + 1 \in S
  PROVE  \A k \in Nat : k \in S
<1> SUFFICES ASSUME NEW t \in Nat, t \notin S PROVE FALSE
  OBVIOUS
<1> DEFINE T == {x \in 0..t : x \notin S}
<1>1. T \subseteq 0..t /\ t \in T /\ IsFiniteSet(0..t)
  BY FS_Interval
<1>2. IsFiniteSet(T)
  BY <1>1, FS_Subset
<1> DEFINE U == {u \in SUBSET T : u # {} /\ \A x \in u : \A y \in 0..t : y < x /\ y \in T => y \in u}
           below(x) == {y \in T : y <= x}
<1>3. \A x \in T : below(x) \in U
  OBVIOUS
<1>4. PICK u \in U : \A v \in U : ~(<<v, u>> \in StrictSubsetOrdering(T))
  <2>1. IsWellFoundedOn(StrictSubsetOrdering(T), SUBSET T)
    BY <1>2, FS_StrictSubsetOrderingWellFounded, FS_FiniteSubsetsOfFinite
  <2>2. U \subseteq SUBSET T /\ U # {}
    BY <1>1, <1>3
  <2> HIDE DEF T, U
  <2> QED
    BY <2>1, <2>2, WFMin
<1>5. PICK x \in u : TRUE
  OBVIOUS
<1>6. x \in Nat /\ x \in T /\ x # 0
  OBVIOUS
<1>7. x - 1 \in T
  <2>1. x - 1 \notin S
    BY <1>6
  <2> QED
    BY <1>6, <2>1
<1>8. below(x - 1) \in U
  BY <1>3, <1>7
<1>9. below(x - 1) \subseteq u /\ x \notin below(x - 1)
  BY <1>6, <1>7
<1>10. <<below(x - 1), u>> \in StrictSubsetOrdering(T)
  BY <1>5, <1>8, <1>9 DEF StrictSubsetOrdering
<1> QED
  BY <1>4, <1>8, <1>10

\* Induction over the subsets of a finite set.
LEMMA SetInd ==
  ASSUME NEW S, IsFiniteSet(S), NEW F, {} \in F,
         \A T \in SUBSET S : \A x \in S \ T : T \in F => T \cup {x} \in F
  PROVE  \A T \in SUBSET S : T \in F
<1> DEFINE C == (SUBSET S) \ F
<1> SUFFICES ASSUME C # {} PROVE FALSE
  OBVIOUS
<1>1. PICK u \in C : \A v \in C : ~(<<v, u>> \in StrictSubsetOrdering(S))
  <2>1. IsWellFoundedOn(StrictSubsetOrdering(S), SUBSET S)
    BY FS_StrictSubsetOrderingWellFounded, FS_FiniteSubsetsOfFinite
  <2>2. C \subseteq SUBSET S
    OBVIOUS
  <2> HIDE DEF C
  <2> QED
    BY <2>1, <2>2, WFMin
<1>2. PICK x \in u : TRUE
  OBVIOUS
<1>3. u \ {x} \in SUBSET S /\ x \in S \ (u \ {x}) /\ u = (u \ {x}) \cup {x}
  OBVIOUS
<1>4. u \ {x} \in C
  BY <1>3
<1>5. <<u \ {x}, u>> \in StrictSubsetOrdering(S)
  BY <1>2, <1>3 DEF StrictSubsetOrdering
<1> QED
  BY <1>1, <1>4, <1>5

\* f folds step over each subset of S, taking the elements in the order of pick.
Iterates(f, S, base, step, pick) ==
    \A s \in SUBSET S : f[s] = IF s = {} THEN base ELSE step[<<pick[s], f[s \ {pick[s]}]>>]

\* A fold over a finite set is well defined.
LEMMA IterExists ==
  ASSUME NEW S, IsFiniteSet(S), NEW V, NEW base \in V, NEW step \in [S \X V -> V],
         NEW pick, \A s \in SUBSET S : s # {} => pick[s] \in s
  PROVE  \E f \in [SUBSET S -> V] : Iterates(f, S, base, step, pick)
<1> DEFINE Rest(s) == s \ {pick[s]}
           Eqn(f, s) == f[s] = IF s = {} THEN base ELSE step[<<pick[s], f[Rest(s)]>>]
           Good(f, m) == \A s \in SUBSET S : Cardinality(s) <= m => Eqn(f, s)
           K == {m \in Nat : \E f \in [SUBSET S -> V] : Good(f, m)}
<1>1. \A s \in SUBSET S : IsFiniteSet(s) /\ Cardinality(s) \in Nat /\ (Cardinality(s) = 0 <=> s = {})
  BY FS_Subset, FS_CardinalityType, FS_EmptySet
<1>2. \A s \in SUBSET S : s # {} => /\ Rest(s) \in SUBSET S /\ pick[s] \in S
                                    /\ Cardinality(Rest(s)) = Cardinality(s) - 1
  BY <1>1, FS_RemoveElement
<1>3. 0 \in K
  <2> DEFINE f == [s \in SUBSET S |-> base]
  <2>1. f \in [SUBSET S -> V]
    OBVIOUS
  <2>2. \A s \in SUBSET S : Cardinality(s) <= 0 => s = {}
    BY <1>1
  <2>3. Good(f, 0)
    BY <2>2
  <2> QED
    BY <2>1, <2>3
<1>4. ASSUME NEW m \in K PROVE m + 1 \in K
  <2>1. PICK f \in [SUBSET S -> V] : Good(f, m)
    OBVIOUS
  <2> DEFINE g == [s \in SUBSET S |-> IF s = {} THEN base ELSE step[<<pick[s], f[Rest(s)]>>]]
  <2>2. g \in [SUBSET S -> V]
    BY <1>2
  <2>3. ASSUME NEW s \in SUBSET S, Cardinality(s) <= m + 1 PROVE Eqn(g, s)
    <3>1. CASE s = {}
      BY <3>1
    <3>2. CASE s # {}
      <4>1. Rest(s) \in SUBSET S /\ Cardinality(Rest(s)) <= m
        BY <1>1, <1>2, <2>3, <3>2
      <4>2. Eqn(f, Rest(s))
        BY <2>1, <4>1
      <4>3. g[Rest(s)] = f[Rest(s)]
        BY <4>1, <4>2
      <4> QED
        BY <3>2, <4>3
    <3> QED
      BY <3>1, <3>2
  <2>4. m \in Nat
    OBVIOUS
  <2> HIDE DEF g, Eqn
  <2> QED
    BY <2>2, <2>3, <2>4
<1>5. Cardinality(S) \in K
  <2>1. K \subseteq Nat /\ Cardinality(S) \in Nat
    BY <1>1
  <2> HIDE DEF K
  <2> QED
    BY <1>3, <1>4, <2>1, NatInd
<1>6. PICK f \in [SUBSET S -> V] : Good(f, Cardinality(S))
  BY <1>5
<1>7. \A s \in SUBSET S : Cardinality(s) <= Cardinality(S)
  BY FS_Subset
<1>8. \A s \in SUBSET S : Eqn(f, s)
  BY <1>6, <1>7
<1> QED
  BY <1>8 DEF Iterates

-----------------------------------------------------------------------------
(* Sums *)

\* There are finitely many outpoints, each with a value.
LEMMA OutPointFacts ==
  /\ IsFiniteSet(OutPoints)
  /\ \A o \in OutPoints : /\ o = <<o[1], o[2]>> /\ o[1] \in Txs /\ o[2] \in DOMAIN Vout[o[1]]
                          /\ o[2] \in Nat \ {0} /\ Val(o) \in Nat
  /\ \A t \in Txs : \A i \in DOMAIN Vout[t] : <<t, i>> \in OutPoints
<1>1. \A t \in Txs : Vout[t] \in Seq(Nat)
  BY DataAssumption
<1>2. \A t \in Txs : IsFiniteSet({t} \X DOMAIN Vout[t])
  <2> SUFFICES ASSUME NEW t \in Txs PROVE IsFiniteSet({t} \X DOMAIN Vout[t])
    OBVIOUS
  <2>1. DOMAIN Vout[t] = 1..Len(Vout[t]) /\ Len(Vout[t]) \in Nat
    BY <1>1
  <2>2. IsFiniteSet(1..Len(Vout[t])) /\ IsFiniteSet({t})
    <3>1. 1 \in Int /\ Len(Vout[t]) \in Int
      BY <2>1
    <3> QED
      BY <3>1, FS_Interval, FS_Singleton
  <2>3. IsFiniteSet({t} \X (1..Len(Vout[t])))
    BY <2>2, FS_Product
  <2> QED
    BY <2>1, <2>3, Zenon
<1>3. IsFiniteSet({{t} \X DOMAIN Vout[t] : t \in Txs})
  <2> DEFINE f == [t \in Txs |-> {t} \X DOMAIN Vout[t]]
             T == {{t} \X DOMAIN Vout[t] : t \in Txs}
  <2>1. f \in [Txs -> T] /\ \A x \in T : \E t \in Txs : f[t] = x
    OBVIOUS
  <2>2. f \in Surjection(Txs, T)
    BY <2>1 DEF Surjection
  <2> HIDE DEF f, T
  <2>3. IsFiniteSet(T)
    BY <2>2, DataAssumption, FS_Surjection
  <2> QED
    BY <2>3 DEF T
<1>4. IsFiniteSet(OutPoints)
  BY <1>2, <1>3, FS_UNION DEF OutPoints
<1>5. ASSUME NEW o \in OutPoints
      PROVE  /\ o = <<o[1], o[2]>> /\ o[1] \in Txs /\ o[2] \in DOMAIN Vout[o[1]]
             /\ o[2] \in Nat \ {0} /\ Val(o) \in Nat
  <2>1. PICK t \in Txs : o \in {t} \X DOMAIN Vout[t]
    BY DEF OutPoints
  <2>2. o = <<t, o[2]>> /\ o[1] = t /\ o[2] \in DOMAIN Vout[t]
    BY <2>1
  <2>3. Vout[t] \in Seq(Nat)
    BY <1>1
  <2>4. o[2] \in Nat \ {0} /\ Vout[t][o[2]] \in Nat
    BY <2>2, <2>3
  <2> QED
    BY <2>2, <2>4 DEF Val
<1>6. \A t \in Txs : \A i \in DOMAIN Vout[t] : <<t, i>> \in OutPoints
  BY DEF OutPoints
<1> QED
  BY <1>4, <1>5, <1>6

Member(s) == CHOOSE x \in s : TRUE
\* f is the sum of the values in each subset of S.
SumsUp(f, S) == f = [s \in SUBSET S |-> IF s = {} THEN 0 ELSE Val(Member(s)) + f[s \ {Member(s)}]]

\* Member picks an element.
LEMMA MemberFacts ==
  ASSUME NEW s, s # {}
  PROVE  Member(s) \in s
  BY DEF Member

\* A sum of the values over the subsets exists.
LEMMA SumExists ==
  ASSUME NEW S \in SUBSET OutPoints
  PROVE  \E f \in [SUBSET S -> Nat] : SumsUp(f, S)
<1> DEFINE step == [x \in S \X Nat |-> Val(x[1]) + x[2]]
           pick == [s \in SUBSET S |-> Member(s)]
<1>1. IsFiniteSet(S) /\ \A x \in S : Val(x) \in Nat
  BY OutPointFacts, FS_Subset
<1>2. step \in [S \X Nat -> Nat]
  BY <1>1
<1>3. \A s \in SUBSET S : s # {} => pick[s] \in s
  BY MemberFacts
<1>4. PICK f \in [SUBSET S -> Nat] : Iterates(f, S, 0, step, pick)
  <2>1. 0 \in Nat
    OBVIOUS
  <2> HIDE DEF step, pick
  <2> QED
    BY <1>1, <1>2, <1>3, <2>1, IterExists
<1>5. \A s \in SUBSET S : f[s] = IF s = {} THEN 0 ELSE step[<<pick[s], f[s \ {pick[s]}]>>]
  BY <1>4 DEF Iterates
<1>6. ASSUME NEW s \in SUBSET S, s # {}
      PROVE  f[s] = Val(Member(s)) + f[s \ {Member(s)}]
  <2>1. pick[s] = Member(s) /\ Member(s) \in S /\ f[s \ {Member(s)}] \in Nat
    BY <1>3, <1>6
  <2> QED
    BY <1>5, <1>6, <2>1
<1>7. f = [s \in SUBSET S |-> IF s = {} THEN 0 ELSE Val(Member(s)) + f[s \ {Member(s)}]]
  BY <1>5, <1>6
<1> QED
  BY <1>7 DEF SumsUp

\* The sum does not depend on the set the subsets are taken of.
LEMMA SumUnique ==
  ASSUME NEW S \in SUBSET OutPoints, NEW T \in SUBSET S,
         NEW f, SumsUp(f, S), NEW g, SumsUp(g, T)
  PROVE  \A s \in SUBSET T : f[s] = g[s]
<1> DEFINE K == {m \in Nat : \A s \in SUBSET T : Cardinality(s) <= m => f[s] = g[s]}
<1>1. IsFiniteSet(T)
  BY OutPointFacts, FS_Subset
<1>2. \A s \in SUBSET T : IsFiniteSet(s) /\ Cardinality(s) \in Nat /\ (Cardinality(s) = 0 <=> s = {})
  BY <1>1, FS_Subset, FS_CardinalityType, FS_EmptySet
<1>3. /\ \A s \in SUBSET S : f[s] = IF s = {} THEN 0 ELSE Val(Member(s)) + f[s \ {Member(s)}]
      /\ \A s \in SUBSET T : g[s] = IF s = {} THEN 0 ELSE Val(Member(s)) + g[s \ {Member(s)}]
  BY DEF SumsUp
<1>4. 0 \in K
  <2>1. \A s \in SUBSET T : Cardinality(s) <= 0 => s = {}
    BY <1>2
  <2>2. f[{}] = g[{}]
    BY <1>3
  <2> QED
    BY <2>1, <2>2
<1>5. ASSUME NEW m \in K PROVE m + 1 \in K
  <2>1. ASSUME NEW s \in SUBSET T, Cardinality(s) <= m + 1 PROVE f[s] = g[s]
    <3>1. CASE s = {}
      BY <1>3, <3>1
    <3>2. CASE s # {}
      <4> DEFINE r == s \ {Member(s)}
      <4>1. r \in SUBSET T /\ Cardinality(r) <= m
        BY <1>2, <2>1, <3>2, MemberFacts, FS_RemoveElement
      <4>2. f[r] = g[r]
        BY <4>1
      <4> HIDE DEF r
      <4>3. f[s] = Val(Member(s)) + f[r] /\ g[s] = Val(Member(s)) + g[r]
        BY <1>3, <3>2 DEF r
      <4> QED
        BY <4>2, <4>3
    <3> QED
      BY <3>1, <3>2
  <2> QED
    BY <2>1
<1>6. \A m \in Nat : m \in K
  <2>1. K \in SUBSET Nat
    OBVIOUS
  <2> HIDE DEF K
  <2> QED
    BY <1>4, <1>5, <2>1, NatInd
<1> QED
  BY <1>2, <1>6

\* One more outpoint adds its value, whichever is summed first.
LEMMA SumAdds ==
  ASSUME NEW S \in SUBSET OutPoints, NEW f \in [SUBSET S -> Nat], SumsUp(f, S)
  PROVE  \A T \in SUBSET S : \A x \in S \ T : f[T \cup {x}] = f[T] + Val(x)
<1> DEFINE K == {m \in Nat : \A T \in SUBSET S : \A x \in S \ T :
                               Cardinality(T) <= m => f[T \cup {x}] = f[T] + Val(x)}
<1>1. IsFiniteSet(S)
  BY OutPointFacts, FS_Subset
<1>2. \A s \in SUBSET S : IsFiniteSet(s) /\ Cardinality(s) \in Nat /\ (Cardinality(s) = 0 <=> s = {})
  BY <1>1, FS_Subset, FS_CardinalityType, FS_EmptySet
<1>3. \A s \in SUBSET S : f[s] \in Nat /\ f[s] = IF s = {} THEN 0 ELSE Val(Member(s)) + f[s \ {Member(s)}]
  BY DEF SumsUp
<1>4. \A x \in S : Val(x) \in Nat
  BY OutPointFacts
<1>5. ASSUME NEW T \in SUBSET S, NEW x \in S \ T, Member(T \cup {x}) = x
      PROVE  f[T \cup {x}] = f[T] + Val(x)
  <2>1. (T \cup {x}) \ {x} = T /\ T \cup {x} # {} /\ T \cup {x} \in SUBSET S
    OBVIOUS
  <2>2. f[T \cup {x}] = Val(x) + f[T]
    BY <1>3, <1>5, <2>1
  <2> QED
    BY <1>3, <1>4, <2>2
<1>6. 0 \in K
  <2>1. ASSUME NEW T \in SUBSET S, NEW x \in S \ T, Cardinality(T) <= 0 PROVE Member(T \cup {x}) = x
    <3>1. T = {}
      BY <1>2, <2>1
    <3> QED
      BY <3>1, MemberFacts
  <2> QED
    BY <1>5, <2>1
<1>7. ASSUME NEW m \in K PROVE m + 1 \in K
  <2>1. ASSUME NEW T \in SUBSET S, NEW x \in S \ T, Cardinality(T) <= m + 1, Member(T \cup {x}) # x
        PROVE  f[T \cup {x}] = f[T] + Val(x)
    <3> DEFINE y == Member(T \cup {x})
               R == T \ {y}
    <3>1. y \in T /\ y \in S
      BY <2>1, MemberFacts
    <3>2. /\ R \in SUBSET S /\ Cardinality(R) <= m /\ x \in S \ R /\ y \in S \ R
          /\ R \cup {y} = T /\ (T \cup {x}) \ {y} = R \cup {x}
      <4>1. IsFiniteSet(T) /\ Cardinality(T) \in Nat /\ m \in Nat
        BY <1>2
      <4>2. Cardinality(R) = Cardinality(T) - 1
        BY <3>1, <4>1, FS_RemoveElement
      <4>3. Cardinality(R) <= m
        BY <2>1, <4>1, <4>2
      <4>4. x # y
        BY <3>1
      <4> HIDE DEF y
      <4> QED
        BY <3>1, <4>3, <4>4
    <3>3. f[R \cup {x}] = f[R] + Val(x) /\ f[R \cup {y}] = f[R] + Val(y)
      BY <3>2
    <3>4. f[T \cup {x}] = Val(y) + f[(T \cup {x}) \ {y}]
      BY <1>3
    <3> HIDE DEF y, R
    <3>5. f[T \cup {x}] = Val(y) + f[R \cup {x}] /\ f[T] = f[R] + Val(y)
      BY <3>2, <3>3, <3>4
    <3> QED
      BY <1>3, <1>4, <3>1, <3>2, <3>3, <3>5
  <2> QED
    BY <1>5, <2>1
<1>8. \A m \in Nat : m \in K
  <2>1. K \in SUBSET Nat
    OBVIOUS
  <2> HIDE DEF K
  <2> QED
    BY <1>6, <1>7, <2>1, NatInd
<1> SUFFICES ASSUME NEW T \in SUBSET S, NEW x \in S \ T
             PROVE  f[T \cup {x}] = f[T] + Val(x)
  OBVIOUS
<1>9. Cardinality(T) \in Nat /\ Cardinality(T) <= Cardinality(T)
  BY <1>2
<1>10. Cardinality(T) \in K
  BY <1>8, <1>9
<1> QED
  BY <1>9, <1>10

\* What Amount is: a natural number, none for no outpoint, and additive.
LEMMA AmountFacts ==
  /\ Amount({}) = 0
  /\ \A T \in SUBSET OutPoints : Amount(T) \in Nat
  /\ \A T \in SUBSET OutPoints : \A x \in OutPoints \ T : Amount(T \cup {x}) = Amount(T) + Val(x)
<1>1. PICK F \in [SUBSET OutPoints -> Nat] : SumsUp(F, OutPoints)
  BY SumExists
<1>2. ASSUME NEW T \in SUBSET OutPoints PROVE Amount(T) = F[T]
  <2>1. PICK f : SumsUp(f, T)
    BY SumExists
  <2>2. \E g : SumsUp(g, T) /\ Amount(T) = g[T]
    BY <2>1 DEF SumsUp, Amount, Val, Member, MapThenSumSet, MapThenFoldSet
  <2>3. PICK g : SumsUp(g, T) /\ Amount(T) = g[T]
    BY <2>2
  <2>4. F[T] = g[T]
    BY <1>1, <2>3, SumUnique
  <2> QED
    BY <2>3, <2>4
<1>3. F[{}] = 0
  BY <1>1 DEF SumsUp
<1>4. \A T \in SUBSET OutPoints : \A x \in OutPoints \ T : F[T \cup {x}] = F[T] + Val(x)
  <2>1. OutPoints \in SUBSET OutPoints
    OBVIOUS
  <2> QED
    BY <1>1, <2>1, SumAdds
<1>5. Amount({}) = 0 /\ \A T \in SUBSET OutPoints : Amount(T) \in Nat
  BY <1>2, <1>3
<1>6. ASSUME NEW T \in SUBSET OutPoints, NEW x \in OutPoints \ T
      PROVE  Amount(T \cup {x}) = Amount(T) + Val(x)
  <2>1. T \cup {x} \in SUBSET OutPoints
    OBVIOUS
  <2>2. Amount(T \cup {x}) = F[T \cup {x}] /\ Amount(T) = F[T]
    BY <1>2, <2>1
  <2> QED
    BY <1>4, <2>2
<1> QED
  BY <1>5, <1>6

\* Disjoint sets of outpoints add up.
LEMMA AmountUnion ==
  ASSUME NEW A \in SUBSET OutPoints, NEW B \in SUBSET OutPoints, A \cap B = {}
  PROVE  Amount(A \cup B) = Amount(A) + Amount(B)
<1> DEFINE F == {T \in SUBSET B : Amount(A \cup T) = Amount(A) + Amount(T)}
<1>1. IsFiniteSet(B)
  BY OutPointFacts, FS_Subset
<1>2. {} \in F
  <2>1. A \cup {} = A /\ Amount(A) \in Nat /\ Amount({}) = 0
    BY AmountFacts
  <2> HIDE DEF Amount
  <2>2. Amount(A \cup {}) = Amount(A) + Amount({})
    BY <2>1
  <2> QED
    BY <2>2
<1>3. \A T \in SUBSET B : \A x \in B \ T : T \in F => T \cup {x} \in F
  <2> SUFFICES ASSUME NEW T \in SUBSET B, NEW x \in B \ T, T \in F
               PROVE  Amount(A \cup (T \cup {x})) = Amount(A) + Amount(T \cup {x})
    OBVIOUS
  <2> DEFINE U == A \cup T
             W == A \cup (T \cup {x})
  <2>1. W = U \cup {x} /\ U \in SUBSET OutPoints /\ x \in OutPoints \ U /\ x \in OutPoints \ T
        /\ T \in SUBSET OutPoints
    OBVIOUS
  <2>2. Amount(U) = Amount(A) + Amount(T)
    OBVIOUS
  <2> HIDE DEF U, W, F
  <2>3. Amount(U \cup {x}) = Amount(U) + Val(x) /\ Amount(T \cup {x}) = Amount(T) + Val(x)
    BY <2>1, AmountFacts
  <2>4. Amount(A) \in Nat /\ Amount(T) \in Nat /\ Val(x) \in Nat
    BY <2>1, AmountFacts, OutPointFacts
  <2>5. Amount(W) = Amount(U) + Val(x)
    BY <2>1, <2>3, Zenon
  <2>6. Amount(W) = Amount(A) + Amount(T \cup {x})
    BY <2>2, <2>3, <2>4, <2>5
  <2> QED
    BY <2>6 DEF W
<1>4. \A T \in SUBSET B : T \in F
  <2> HIDE DEF F
  <2> QED
    BY <1>1, <1>2, <1>3, SetInd, Zenon
<1> QED
  BY <1>4

\* Fewer outpoints are worth no more.
LEMMA AmountMono ==
  ASSUME NEW B \in SUBSET OutPoints, NEW A \in SUBSET B
  PROVE  Amount(A) <= Amount(B)
<1> DEFINE C == B \ A
           D == A \cup C
<1>1. A \in SUBSET OutPoints /\ C \in SUBSET OutPoints /\ A \cap C = {} /\ D = B
  OBVIOUS
<1>2. Amount(D) = Amount(A) + Amount(C)
  BY <1>1, AmountUnion
<1> HIDE DEF C, D
<1>3. Amount(B) = Amount(A) + Amount(C)
  BY <1>1, <1>2, Zenon
<1>4. Amount(A) \in Nat /\ Amount(C) \in Nat
  BY <1>1, AmountFacts
<1> QED
  BY <1>3, <1>4

-----------------------------------------------------------------------------
(* Folds over sequences *)

\* The maximum of a set of positions is one of them.
LEMMA MaxIn ==
  ASSUME NEW m \in Nat, NEW s \in SUBSET (1..m), s # {}
  PROVE  Max(s) \in s /\ \A y \in s : y <= Max(s)
<1> DEFINE K == {k \in Nat : \A r \in SUBSET (1..m) :
                   (r # {} /\ r \subseteq 1..k) => \E x \in r : \A y \in r : y <= x}
<1>1. 0 \in K
  <2>1. \A r \in SUBSET (1..m) : r \subseteq 1..0 => r = {}
    OBVIOUS
  <2> QED
    BY <2>1
<1>2. ASSUME NEW k \in K PROVE k + 1 \in K
  <2> SUFFICES ASSUME NEW r \in SUBSET (1..m), r # {}, r \subseteq 1..(k + 1)
               PROVE  \E x \in r : \A y \in r : y <= x
    OBVIOUS
  <2>1. CASE k + 1 \in r
    BY <2>1
  <2>2. CASE k + 1 \notin r
    <3>1. r \subseteq 1..k
      BY <2>2
    <3> QED
      BY <3>1
  <2> QED
    BY <2>1, <2>2
<1>3. m \in K
  <2>1. K \in SUBSET Nat
    OBVIOUS
  <2> HIDE DEF K
  <2> QED
    BY <1>1, <1>2, <2>1, NatInd
<1>4. \E x \in s : \A y \in s : x >= y
  BY <1>3
<1> QED
  BY <1>4 DEF Max

\* The last of the first k positions is k.
LEMMA MaxPrefix ==
  ASSUME NEW k \in Nat \ {0}
  PROVE  Max(1..k) = k /\ (1..k) \ {Max(1..k)} = 1..(k - 1) /\ 1..k # {}
<1>1. 1..k \in SUBSET (1..k) /\ k \in 1..k
  OBVIOUS
<1>2. Max(1..k) \in 1..k /\ k <= Max(1..k)
  BY <1>1, MaxIn
<1>3. Max(1..k) = k
  BY <1>2
<1>4. (1..k) \ {k} = 1..(k - 1)
  OBVIOUS
<1> QED
  BY <1>1, <1>3, <1>4

MaxOf(m) == [s \in SUBSET (1..m) |-> Max(s)]

\* A fold over positions, the last one first, is well defined.
LEMMA SeqIter ==
  ASSUME NEW m \in Nat, NEW V, NEW base \in V, NEW step \in [(1..m) \X V -> V]
  PROVE  \E f \in [SUBSET (1..m) -> V] : Iterates(f, 1..m, base, step, MaxOf(m))
<1>1. IsFiniteSet(1..m)
  BY FS_Interval
<1>2. \A s \in SUBSET (1..m) : s # {} => MaxOf(m)[s] \in s
  BY MaxIn DEF MaxOf
<1> QED
  BY <1>1, <1>2, IterExists

\* What FoldLeft does to a sequence, one element after the other.
LEMMA SumFold ==
  ASSUME NEW s \in Seq(Nat)
  PROVE  \E h \in [0..Len(s) -> Nat] :
            /\ h[0] = 0 /\ Sum(s) = h[Len(s)]
            /\ \A k \in 1..Len(s) : h[k] = h[k - 1] + s[k]
<1> DEFINE m == Len(s)
           step == [x \in (1..m) \X Nat |-> x[2] + s[x[1]]]
<1>1. m \in Nat /\ DOMAIN s = 1..m /\ \A i \in 1..m : s[i] \in Nat
  OBVIOUS
<1>2. step \in [(1..m) \X Nat -> Nat]
  BY <1>1
<1>3. PICK f \in [SUBSET (1..m) -> Nat] : Iterates(f, 1..m, 0, step, MaxOf(m))
  <2>1. 0 \in Nat
    OBVIOUS
  <2> HIDE DEF step, m
  <2> QED
    BY <1>1, <1>2, <2>1, SeqIter
<1>4. f = [i \in SUBSET DOMAIN s |-> IF i = {} THEN 0 ELSE f[i \ {Max(i)}] + s[Max(i)]]
  <2>1. ASSUME NEW i \in SUBSET (1..m), i # {}
        PROVE  f[i] = f[i \ {Max(i)}] + s[Max(i)]
    <3>1. Max(i) \in i /\ Max(i) \in 1..m /\ i \ {Max(i)} \in SUBSET (1..m)
      BY <1>1, <2>1, MaxIn
    <3>2. f[i] = step[<<Max(i), f[i \ {Max(i)}]>>]
      BY <1>3, <2>1 DEF Iterates, MaxOf
    <3>3. f[i \ {Max(i)}] \in Nat
      BY <3>1
    <3> QED
      BY <3>1, <3>2, <3>3
  <2>2. f[{}] = 0
    BY <1>3 DEF Iterates
  <2> HIDE DEF step, m
  <2> QED
    BY <1>1, <2>1, <2>2
<1>5. \E g : /\ g = [i \in SUBSET DOMAIN s |-> IF i = {} THEN 0 ELSE g[i \ {Max(i)}] + s[Max(i)]]
             /\ Sum(s) = g[DOMAIN s]
  BY <1>4 DEF Sum, FoldLeft, MapThenFoldSet
<1>6. PICK g : /\ g = [i \in SUBSET DOMAIN s |-> IF i = {} THEN 0 ELSE g[i \ {Max(i)}] + s[Max(i)]]
               /\ Sum(s) = g[DOMAIN s]
  BY <1>5
<1> DEFINE h == [k \in 0..m |-> g[1..k]]
<1>7. h[0] = 0
  <2> DEFINE none == 1..0
  <2>1. none = {} /\ h[0] = g[none]
    BY <1>1
  <2> HIDE DEF h, none
  <2>2. {} \in SUBSET DOMAIN s
    OBVIOUS
  <2>3. g[{}] = 0
    BY <1>6, <2>2
  <2> QED
    BY <2>1, <2>3
<1>8. ASSUME NEW k \in 1..m PROVE h[k] = h[k - 1] + s[k]
  <2>1. k \in Nat \ {0} /\ 1..k \in SUBSET DOMAIN s /\ k \in 0..m /\ k - 1 \in 0..m
    BY <1>1
  <2>2. Max(1..k) = k /\ (1..k) \ {Max(1..k)} = 1..(k - 1) /\ 1..k # {}
    BY <2>1, MaxPrefix
  <2>3. g[1..k] = g[(1..k) \ {Max(1..k)}] + s[Max(1..k)]
    BY <1>6, <2>1, <2>2
  <2> DEFINE all == 1..k
             less == (1..k) \ {Max(1..k)}
             less1 == 1..(k - 1)
  <2>4. less = less1 /\ Max(all) = k /\ g[all] = g[less] + s[Max(all)]
        /\ h[k] = g[all] /\ h[k - 1] = g[less1]
    BY <2>1, <2>2, <2>3
  <2> HIDE DEF all, less, less1, h
  <2> QED
    BY <2>4
<1>9. Sum(s) = h[m]
  BY <1>1, <1>6
<1>10. h \in [0..m -> Nat]
  <2> DEFINE K == {k \in Nat : k \in 0..m => h[k] \in Nat}
  <2> HIDE DEF h
  <2>1. 0 \in K
    BY <1>7
  <2>2. ASSUME NEW k \in K PROVE k + 1 \in K
    <3>1. CASE k + 1 \in 1..m
      <4>1. h[k + 1] = h[k] + s[k + 1]
        BY <1>8, <3>1
      <4> QED
        BY <1>1, <3>1, <4>1
    <3>2. CASE k + 1 \notin 1..m
      BY <3>2
    <3> QED
      BY <3>1, <3>2
  <2>3. K \in SUBSET Nat
    OBVIOUS
  <2>4. \A k \in Nat : k \in K
    <3> HIDE DEF K
    <3> QED
      BY <2>1, <2>2, <2>3, NatInd
  <2>5. \A k \in 0..m : h[k] \in Nat
    BY <1>1, <2>4
  <2> QED
    BY <2>5 DEF h
<1> HIDE DEF h
<1> QED
  BY <1>7, <1>8, <1>9, <1>10

\* h holds what a fold over the subsets of 1..m gives for the prefixes.
PrefixesOf(h, g, m) ==
    /\ h[0] = g[{}] /\ h[m] = g[1..m]
    /\ \A k \in 1..m : \E r \in SUBSET (1..m) :
          r # {} /\ Max(r) = k /\ h[k] = g[r] /\ h[k - 1] = g[r \ {Max(r)}]

\* The values a fold over positions takes on the prefixes.
LEMMA FoldPrefixes ==
  ASSUME NEW m \in Nat, NEW g
  PROVE  \E h : PrefixesOf(h, g, m)
<1> DEFINE h == [k \in 0..m |-> g[1..k]]
<1>1. h[0] = g[{}]
  <2> DEFINE none == 1..0
  <2>1. none = {}
    OBVIOUS
  <2>2. h[0] = g[none]
    <3>1. 0 \in 0..m
      OBVIOUS
    <3> HIDE DEF none
    <3> QED
      BY <3>1 DEF none
  <2> HIDE DEF h, none
  <2> QED
    BY <2>1, <2>2
<1>2. h[m] = g[1..m]
  OBVIOUS
<1>3. ASSUME NEW k \in 1..m
      PROVE  \E r \in SUBSET (1..m) :
                r # {} /\ Max(r) = k /\ h[k] = g[r] /\ h[k - 1] = g[r \ {Max(r)}]
  <2>1. k \in Nat \ {0} /\ 1..k \in SUBSET (1..m) /\ k \in 0..m /\ k - 1 \in 0..m
    OBVIOUS
  <2>2. Max(1..k) = k /\ (1..k) \ {Max(1..k)} = 1..(k - 1) /\ 1..k # {}
    BY <2>1, MaxPrefix
  <2> DEFINE all == 1..k
             less == (1..k) \ {Max(1..k)}
             less1 == 1..(k - 1)
  <2>3. less = less1 /\ h[k] = g[all] /\ h[k - 1] = g[less1]
    BY <2>1, <2>2
  <2> HIDE DEF less1, h
  <2>4. h[k - 1] = g[less]
    BY <2>3, Zenon
  <2> QED
    BY <2>1, <2>2, <2>3, <2>4, Zenon
<1>4. PrefixesOf(h, g, m)
  <2> HIDE DEF h
  <2> QED
    BY <1>1, <1>2, <1>3 DEF PrefixesOf
<1> HIDE DEF h
<1> QED
  BY <1>4

\* What each step keeps, all prefixes have.
LEMMA PrefixTypes ==
  ASSUME NEW m \in Nat, NEW V, NEW h, h[0] \in V, \A k \in 1..m : h[k - 1] \in V => h[k] \in V
  PROVE  \A k \in 0..m : h[k] \in V
<1> DEFINE K == {k \in Nat : k \in 0..m => h[k] \in V}
<1>1. 0 \in K
  OBVIOUS
<1>2. ASSUME NEW k \in K PROVE k + 1 \in K
  <2>1. CASE k + 1 \in 1..m
    <3>1. h[(k + 1) - 1] \in V => h[k + 1] \in V
      BY <2>1
    <3>2. (k + 1) - 1 = k /\ k \in 0..m
      BY <2>1
    <3> QED
      BY <3>1, <3>2
  <2>2. CASE k + 1 \notin 1..m
    BY <2>2
  <2> QED
    BY <2>1, <2>2
<1>3. K \in SUBSET Nat
  OBVIOUS
<1>4. \A k \in Nat : k \in K
  <2> HIDE DEF K
  <2> QED
    BY <1>1, <1>2, <1>3, NatInd
<1> QED
  BY <1>4

-----------------------------------------------------------------------------
(* Views *)

\* A new cache is a view.
LEMMA EmptyView == Empty \in Views
<1>1. Empty \in [{} -> CCoins]
  BY DEF Empty
<1> QED
  BY <1>1 DEF Views

\* The views are those of the type invariant.
LEMMA ViewTypes ==
  ASSUME NEW v \in Views
  PROVE  IsView(v)
<1>1. PICK D \in SUBSET Txs : v \in [D -> CCoins]
  BY DEF Views
<1> QED
  BY <1>1 DEF IsView

\* BatchWrite of one cache into another gives a view.
LEMMA OverlayView ==
  ASSUME NEW v \in Views, NEW w \in Views
  PROVE  Overlay(v, w) \in Views
<1>1. IsView(v) /\ IsView(w)
  BY ViewTypes
<1>2. Overlay(v, w) \in [DOMAIN v \cup DOMAIN w -> CCoins]
  BY <1>1 DEF Overlay, IsView
<1> QED
  BY <1>1, <1>2 DEF Views, IsView

\* SetCoins gives a view.
LEMMA SetCoinsView ==
  ASSUME NEW v \in Views, NEW t \in Txs, NEW c \in CCoins
  PROVE  SetCoins(v, t, c) \in Views
<1>1. [x \in {t} |-> c] \in [{t} -> CCoins]
  OBVIOUS
<1>2. [x \in {t} |-> c] \in Views
  BY <1>1 DEF Views
<1> QED
  BY <1>2, OverlayView DEF SetCoins

\* GetCoins returns what SetCoins put in.
LEMMA GetSetCoins ==
  ASSUME NEW v, NEW t, NEW c, NEW x
  PROVE  GetCoins(SetCoins(v, t, c), x) = IF x = t THEN c ELSE GetCoins(v, x)
BY DEF GetCoins, SetCoins, Overlay

\* A default CCoins is a CCoins.
LEMMA NoCoinsType == NoCoins \in CCoins
BY DEF NoCoins, CCoins

\* GetCoins returns a CCoins.
LEMMA GetCoinsType ==
  ASSUME TipTypes, NEW v \in Views, NEW t
  PROVE  GetCoins(v, t) \in CCoins
<1>1. IsView(v) /\ IsView(coinsDB) /\ IsView(cacheCoins)
  BY ViewTypes DEF TipTypes
<1> QED
  BY <1>1, NoCoinsType DEF GetCoins, TipCoins, IsView

\* The coins of a transaction are a CCoins.
LEMMA CoinsOfType ==
  ASSUME NEW t \in Txs, NEW h \in Nat
  PROVE  CoinsOf(t, h) \in CCoins
<1>1. Vout[t] \in Seq(Nat)
  BY DataAssumption
<1>2. DOMAIN Vout[t] \subseteq Nat
  BY <1>1
<1> QED
  BY <1>2 DEF CoinsOf, CCoins

-----------------------------------------------------------------------------
(* Spending and restoring the inputs of a transaction *)

SpendResult == [view : Views, undo : Seq(UndoRecord)]

\* CCoins::Spend keeps the view and the undo data well formed.
LEMMA SpendType ==
  ASSUME TipTypes, NEW acc \in SpendResult, NEW o \in OutPoints
  PROVE  SpendInput(acc, o) \in SpendResult
<1> DEFINE coins == GetCoins(acc.view, o[1])
           spent == [coins EXCEPT !.vout = @ \ {o[2]}]
           rec == IF IsPruned(spent)
                  THEN [nHeight |-> coins.nHeight, fCoinBase |-> coins.fCoinBase]
                  ELSE [nHeight |-> 0, fCoinBase |-> FALSE]
<1>1. acc.view \in Views /\ acc.undo \in Seq(UndoRecord) /\ o[1] \in Txs
  BY OutPointFacts DEF SpendResult
<1>2. coins \in CCoins
  BY <1>1, GetCoinsType
<1> HIDE DEF coins
<1>3. spent \in CCoins
  BY <1>2 DEF CCoins
<1>4. rec \in UndoRecord
  BY <1>2 DEF CCoins, UndoRecord
<1> HIDE DEF spent, rec
<1>5. SetCoins(acc.view, o[1], spent) \in Views
  BY <1>1, <1>3, SetCoinsView
<1>6. Append(acc.undo, rec) \in Seq(UndoRecord)
  BY <1>1, <1>4
<1>7. SpendInput(acc, o) = [view |-> SetCoins(acc.view, o[1], spent), undo |-> Append(acc.undo, rec)]
  BY DEF SpendInput, coins, spent, rec
<1> QED
  BY <1>5, <1>6, <1>7 DEF SpendResult

\* The loop of UpdateCoins over the inputs, input by input.
LEMMA SpendFold ==
  ASSUME TipTypes, NEW v \in Views, NEW s \in Seq(OutPoints)
  PROVE  \E h : /\ h[0] = [view |-> v, undo |-> <<>>]
                /\ FoldLeft(SpendInput, [view |-> v, undo |-> <<>>], s) = h[Len(s)]
                /\ \A k \in 1..Len(s) : h[k] = SpendInput(h[k - 1], s[k])
                /\ \A k \in 0..Len(s) : h[k] \in SpendResult
<1> DEFINE m == Len(s)
           base == [view |-> v, undo |-> <<>>]
           step == [x \in (1..m) \X SpendResult |-> SpendInput(x[2], s[x[1]])]
<1>1. m \in Nat /\ DOMAIN s = 1..m /\ \A i \in 1..m : s[i] \in OutPoints
  OBVIOUS
<1>2. base \in SpendResult
  BY DEF SpendResult
<1>3. step \in [(1..m) \X SpendResult -> SpendResult]
  BY <1>1, SpendType
<1>4. PICK f \in [SUBSET (1..m) -> SpendResult] : Iterates(f, 1..m, base, step, MaxOf(m))
  <2> HIDE DEF step, m, base
  <2> QED
    BY <1>1, <1>2, <1>3, SeqIter
<1> HIDE DEF base
<1>5. f = [i \in SUBSET DOMAIN s |-> IF i = {} THEN base ELSE SpendInput(f[i \ {Max(i)}], s[Max(i)])]
  <2>1. ASSUME NEW i \in SUBSET (1..m), i # {}
        PROVE  f[i] = SpendInput(f[i \ {Max(i)}], s[Max(i)])
    <3>1. Max(i) \in i /\ Max(i) \in 1..m /\ i \ {Max(i)} \in SUBSET (1..m)
      BY <1>1, <2>1, MaxIn
    <3>2. f[i] = step[<<Max(i), f[i \ {Max(i)}]>>]
      BY <1>4, <2>1 DEF Iterates, MaxOf
    <3>3. f[i \ {Max(i)}] \in SpendResult
      BY <3>1
    <3> QED
      BY <3>1, <3>2, <3>3
  <2>2. f[{}] = base
    BY <1>4 DEF Iterates
  <2> HIDE DEF step, m
  <2> QED
    BY <1>1, <2>1, <2>2
<1>6. \E g : /\ g = [i \in SUBSET DOMAIN s |-> IF i = {} THEN base ELSE SpendInput(g[i \ {Max(i)}], s[Max(i)])]
             /\ FoldLeft(SpendInput, base, s) = g[DOMAIN s]
  BY <1>5 DEF FoldLeft, MapThenFoldSet
<1>7. PICK g : /\ g = [i \in SUBSET DOMAIN s |-> IF i = {} THEN base ELSE SpendInput(g[i \ {Max(i)}], s[Max(i)])]
               /\ FoldLeft(SpendInput, base, s) = g[DOMAIN s]
  BY <1>6
<1>8. PICK h : PrefixesOf(h, g, m)
  BY <1>1, FoldPrefixes
<1>9. h[0] = base
  <2>1. {} \in SUBSET DOMAIN s
    OBVIOUS
  <2>2. g[{}] = base
    BY <1>7, <2>1
  <2> QED
    BY <1>8, <2>2 DEF PrefixesOf
<1>10. ASSUME NEW k \in 1..m PROVE h[k] = SpendInput(h[k - 1], s[k])
  <2>1. PICK r \in SUBSET (1..m) : r # {} /\ Max(r) = k /\ h[k] = g[r] /\ h[k - 1] = g[r \ {Max(r)}]
    BY <1>8 DEF PrefixesOf
  <2>2. g[r] = SpendInput(g[r \ {Max(r)}], s[Max(r)])
    BY <1>1, <1>7, <2>1
  <2> QED
    BY <2>1, <2>2
<1>11. \A k \in 0..m : h[k] \in SpendResult
  <2>1. \A k \in 1..m : h[k - 1] \in SpendResult => h[k] \in SpendResult
    BY <1>1, <1>10, SpendType
  <2> HIDE DEF m
  <2> QED
    BY <1>1, <1>2, <1>9, <2>1, PrefixTypes
<1>12. FoldLeft(SpendInput, base, s) = h[m]
  BY <1>1, <1>7, <1>8 DEF PrefixesOf
<1> QED
  BY <1>9, <1>10, <1>11, <1>12 DEF base

RestoreResult == [view : Views, fClean : BOOLEAN]

\* Restoring an input keeps the view well formed.
LEMMA RestoreType ==
  ASSUME TipTypes, NEW acc \in RestoreResult, NEW in \in OutPoints \X UndoRecord
  PROVE  RestoreInput(acc, in) \in RestoreResult
<1> DEFINE o == in[1]
           coins == GetCoins(acc.view, o[1])
           base == IF in[2].nHeight # 0
                   THEN [fCoinBase |-> in[2].fCoinBase, nHeight |-> in[2].nHeight, vout |-> {}]
                   ELSE coins
           back == [base EXCEPT !.vout = @ \cup {o[2]}]
           clean == /\ acc.fClean
                    /\ IsPruned(coins) <=> in[2].nHeight # 0
                    /\ ~IsAvailable(base, o[2])
<1>1. acc.view \in Views /\ o \in OutPoints /\ in[2] \in UndoRecord
  BY DEF RestoreResult
<1>2. o[1] \in Txs /\ o[2] \in Nat
  BY <1>1, OutPointFacts
<1>3. coins \in CCoins
  BY <1>1, GetCoinsType
<1> HIDE DEF coins
<1>4. base \in CCoins
  BY <1>1, <1>3 DEF CCoins, UndoRecord
<1> HIDE DEF base
<1>5. back \in CCoins
  BY <1>2, <1>4 DEF CCoins
<1>6. SetCoins(acc.view, o[1], back) \in Views
  BY <1>1, <1>2, <1>5, SetCoinsView
<1>7. clean \in BOOLEAN
  OBVIOUS
<1>8. RestoreInput(acc, in) = [view |-> SetCoins(acc.view, o[1], back), fClean |-> clean]
  BY DEF RestoreInput, coins, base
<1> HIDE DEF clean, back, o
<1> QED
  BY <1>6, <1>7, <1>8 DEF RestoreResult

\* The loop of DisconnectBlock over the inputs, input by input.
LEMMA RestoreFold ==
  ASSUME TipTypes, NEW base \in RestoreResult, NEW s \in Seq(OutPoints \X UndoRecord)
  PROVE  \E h : /\ h[0] = base
                /\ FoldLeft(RestoreInput, base, s) = h[Len(s)]
                /\ \A k \in 1..Len(s) : h[k] = RestoreInput(h[k - 1], s[k])
                /\ \A k \in 0..Len(s) : h[k] \in RestoreResult
<1> DEFINE m == Len(s)
           step == [x \in (1..m) \X RestoreResult |-> RestoreInput(x[2], s[x[1]])]
<1>1. m \in Nat /\ DOMAIN s = 1..m /\ \A i \in 1..m : s[i] \in OutPoints \X UndoRecord
  OBVIOUS
<1>3. step \in [(1..m) \X RestoreResult -> RestoreResult]
  BY <1>1, RestoreType
<1>4. PICK f \in [SUBSET (1..m) -> RestoreResult] : Iterates(f, 1..m, base, step, MaxOf(m))
  <2> HIDE DEF step, m
  <2> QED
    BY <1>1, <1>3, SeqIter
<1>5. f = [i \in SUBSET DOMAIN s |-> IF i = {} THEN base ELSE RestoreInput(f[i \ {Max(i)}], s[Max(i)])]
  <2>1. ASSUME NEW i \in SUBSET (1..m), i # {}
        PROVE  f[i] = RestoreInput(f[i \ {Max(i)}], s[Max(i)])
    <3>1. Max(i) \in i /\ Max(i) \in 1..m /\ i \ {Max(i)} \in SUBSET (1..m)
      BY <1>1, <2>1, MaxIn
    <3>2. f[i] = step[<<Max(i), f[i \ {Max(i)}]>>]
      BY <1>4, <2>1 DEF Iterates, MaxOf
    <3>3. f[i \ {Max(i)}] \in RestoreResult
      BY <3>1
    <3> QED
      BY <3>1, <3>2, <3>3
  <2>2. f[{}] = base
    BY <1>4 DEF Iterates
  <2> HIDE DEF step, m
  <2> QED
    BY <1>1, <2>1, <2>2
<1>6. \E g : /\ g = [i \in SUBSET DOMAIN s |-> IF i = {} THEN base ELSE RestoreInput(g[i \ {Max(i)}], s[Max(i)])]
             /\ FoldLeft(RestoreInput, base, s) = g[DOMAIN s]
  BY <1>5 DEF FoldLeft, MapThenFoldSet
<1>7. PICK g : /\ g = [i \in SUBSET DOMAIN s |-> IF i = {} THEN base ELSE RestoreInput(g[i \ {Max(i)}], s[Max(i)])]
               /\ FoldLeft(RestoreInput, base, s) = g[DOMAIN s]
  BY <1>6
<1>8. PICK h : PrefixesOf(h, g, m)
  BY <1>1, FoldPrefixes
<1>9. h[0] = base
  <2>1. {} \in SUBSET DOMAIN s
    OBVIOUS
  <2>2. g[{}] = base
    BY <1>7, <2>1
  <2> QED
    BY <1>8, <2>2 DEF PrefixesOf
<1>10. ASSUME NEW k \in 1..m PROVE h[k] = RestoreInput(h[k - 1], s[k])
  <2>1. PICK r \in SUBSET (1..m) : r # {} /\ Max(r) = k /\ h[k] = g[r] /\ h[k - 1] = g[r \ {Max(r)}]
    BY <1>8 DEF PrefixesOf
  <2>2. g[r] = RestoreInput(g[r \ {Max(r)}], s[Max(r)])
    BY <1>1, <1>7, <2>1
  <2> QED
    BY <2>1, <2>2
<1>11. \A k \in 0..m : h[k] \in RestoreResult
  <2>1. \A k \in 1..m : h[k - 1] \in RestoreResult => h[k] \in RestoreResult
    BY <1>1, <1>10, RestoreType
  <2> HIDE DEF m
  <2> QED
    BY <1>1, <1>9, <2>1, PrefixTypes
<1>12. FoldLeft(RestoreInput, base, s) = h[m]
  BY <1>1, <1>7, <1>8 DEF PrefixesOf
<1> QED
  BY <1>9, <1>10, <1>11, <1>12

\* The pairs of an input and its undo record, in the order DisconnectBlock takes them.
LEMMA InputsBackwards ==
  ASSUME NEW s \in Seq(OutPoints), NEW u \in Seq(UndoRecord), Len(u) = Len(s)
  PROVE  /\ Reverse(Zip(s, u)) \in Seq(OutPoints \X UndoRecord)
         /\ Len(Reverse(Zip(s, u))) = Len(s)
         /\ \A k \in 1..Len(s) : Reverse(Zip(s, u))[k] = <<s[Len(s) - k + 1], u[Len(s) - k + 1]>>
<1> DEFINE m == Len(s)
           z == [i \in 1..m |-> <<s[i], u[i]>>]
           r == [i \in 1..m |-> z[(m - i) + 1]]
<1>1. m \in Nat /\ \A i \in 1..m : s[i] \in OutPoints /\ u[i] \in UndoRecord
  OBVIOUS
<1>2. Zip(s, u) = z
  BY <1>1 DEF Zip
<1>3. z \in Seq(OutPoints \X UndoRecord) /\ Len(z) = m
  <2>1. z \in [1..m -> OutPoints \X UndoRecord]
    BY <1>1
  <2> HIDE DEF z
  <2> QED
    BY <1>1, <2>1
<1>4. Reverse(z) = r
  <2> HIDE DEF z
  <2> QED
    BY <1>3 DEF Reverse
<1>5. \A i \in 1..m : (m - i) + 1 \in 1..m
  BY <1>1
<1>6. r \in [1..m -> OutPoints \X UndoRecord]
  BY <1>1, <1>5
<1>7. r \in Seq(OutPoints \X UndoRecord) /\ Len(r) = m
  <2> HIDE DEF r, z
  <2> QED
    BY <1>1, <1>6
<1>8. \A k \in 1..m : r[k] = <<s[m - k + 1], u[m - k + 1]>>
  BY <1>1, <1>5
<1>9. Reverse(Zip(s, u)) = r
  <2> HIDE DEF z, r
  <2> QED
    BY <1>2, <1>4
<1> HIDE DEF z, r
<1> QED
  BY <1>7, <1>8, <1>9

\* What UpdateCoins goes through for a transaction.
LEMMA UpdateSteps ==
  ASSUME TipTypes, NEW v \in Views, NEW tx \in Txs, NEW ht \in Nat
  PROVE  \E h : /\ h[0] = [view |-> v, undo |-> <<>>]
                /\ \A k \in 1..Len(Vin[tx]) : h[k] = SpendInput(h[k - 1], Vin[tx][k])
                /\ \A k \in 0..Len(Vin[tx]) : h[k] \in SpendResult
                /\ UpdateCoins(v, tx, ht).view = SetCoins(h[Len(Vin[tx])].view, tx, CoinsOf(tx, ht))
                /\ UpdateCoins(v, tx, ht).undo = h[Len(Vin[tx])].undo
<1>1. Vin[tx] \in Seq(OutPoints)
  BY DataAssumption
<1> DEFINE s == Vin[tx]
<1> HIDE DEF s
<1>2. s \in Seq(OutPoints)
  BY <1>1 DEF s
<1>3. PICK h : /\ h[0] = [view |-> v, undo |-> <<>>]
               /\ FoldLeft(SpendInput, [view |-> v, undo |-> <<>>], s) = h[Len(s)]
               /\ \A k \in 1..Len(s) : h[k] = SpendInput(h[k - 1], s[k])
               /\ \A k \in 0..Len(s) : h[k] \in SpendResult
  BY <1>2, SpendFold
<1> DEFINE last == h[Len(s)]
<1>4. last \in SpendResult
  BY <1>2, <1>3
<1>5. UpdateCoins(v, tx, ht) = [last EXCEPT !.view = SetCoins(@, tx, CoinsOf(tx, ht))]
  BY <1>3 DEF UpdateCoins, s
<1> HIDE DEF last
<1>6. /\ UpdateCoins(v, tx, ht).view = SetCoins(last.view, tx, CoinsOf(tx, ht))
      /\ UpdateCoins(v, tx, ht).undo = last.undo
  BY <1>4, <1>5 DEF SpendResult
<1> QED
  BY <1>3, <1>6 DEF last, s

\* What UndoTx goes through for a transaction.
LEMMA UndoSteps ==
  ASSUME TipTypes, NEW v \in Views, NEW tx \in Txs, NEW ht \in Nat,
         NEW u \in Seq(UndoRecord), Len(u) = Len(Vin[tx])
  PROVE  \E h : /\ h[0] = [view |-> IF HaveCoins(v, tx) THEN SetCoins(v, tx, NoCoins) ELSE v,
                           fClean |-> SameCoins(GetCoins(v, tx), CoinsOf(tx, ht))]
                /\ \A k \in 1..Len(Vin[tx]) :
                      h[k] = RestoreInput(h[k - 1], <<Vin[tx][Len(Vin[tx]) - k + 1], u[Len(Vin[tx]) - k + 1]>>)
                /\ \A k \in 0..Len(Vin[tx]) : h[k] \in RestoreResult
                /\ UndoTx(v, tx, ht, u) = h[Len(Vin[tx])]
<1>1. Vin[tx] \in Seq(OutPoints)
  BY DataAssumption
<1> DEFINE s == Vin[tx]
           r == Reverse(Zip(s, u))
           base == [view |-> IF HaveCoins(v, tx) THEN SetCoins(v, tx, NoCoins) ELSE v,
                    fClean |-> SameCoins(GetCoins(v, tx), CoinsOf(tx, ht))]
<1>2. base \in RestoreResult
  <2>1. SetCoins(v, tx, NoCoins) \in Views
    BY NoCoinsType, SetCoinsView
  <2>2. SameCoins(GetCoins(v, tx), CoinsOf(tx, ht)) \in BOOLEAN
    BY DEF SameCoins
  <2> QED
    BY <2>1, <2>2 DEF RestoreResult
<1> HIDE DEF base, s
<1>3. s \in Seq(OutPoints) /\ Len(u) = Len(s)
  BY <1>1 DEF s
<1>4. r \in Seq(OutPoints \X UndoRecord) /\ Len(r) = Len(s)
      /\ \A k \in 1..Len(s) : r[k] = <<s[Len(s) - k + 1], u[Len(s) - k + 1]>>
  BY <1>3, InputsBackwards
<1> HIDE DEF r
<1>5. PICK h : /\ h[0] = base
               /\ FoldLeft(RestoreInput, base, r) = h[Len(r)]
               /\ \A k \in 1..Len(r) : h[k] = RestoreInput(h[k - 1], r[k])
               /\ \A k \in 0..Len(r) : h[k] \in RestoreResult
  BY <1>2, <1>4, RestoreFold
<1>6. UndoTx(v, tx, ht, u) = h[Len(s)]
  BY <1>4, <1>5 DEF UndoTx, base, r, s
<1>7. \A k \in 1..Len(s) : h[k] = RestoreInput(h[k - 1], <<s[Len(s) - k + 1], u[Len(s) - k + 1]>>)
  BY <1>4, <1>5
<1>8. \A k \in 0..Len(s) : h[k] \in RestoreResult
  BY <1>4, <1>5
<1> QED
  BY <1>5, <1>6, <1>7, <1>8 DEF s, base

-----------------------------------------------------------------------------
(* Functions defined by recursion along a chain of blocks *)

\* f is computed from the block before, on the blocks D.
Solves(f, D, base, step) ==
    \A b \in D : f[b] = IF b = Genesis THEN base ELSE step[<<b, f[Prev[b]]>>]
PrevClosed(D) == \A b \in D : b # Genesis => Prev[b] \in D

\* Induction from the genesis block along hashPrevBlock.
LEMMA BlockInd ==
  ASSUME NEW S \in SUBSET Blocks, Genesis \in S,
         \A b \in Blocks \ {Genesis} : Prev[b] \in S => b \in S
  PROVE  S = Blocks
<1> SUFFICES ASSUME Blocks \ S # {} PROVE FALSE
  OBVIOUS
<1> DEFINE R == Blocks \ S
<1>1. R \in (SUBSET Blocks) \ {{}}
  OBVIOUS
<1> HIDE DEF R
<1>2. PICK b \in R : b = Genesis \/ Prev[b] \notin R
  BY <1>1, DataAssumption
<1>3. b \in Blocks \ {Genesis} /\ Prev[b] \in Blocks
  BY <1>2, DataAssumption DEF R
<1> QED
  BY <1>2, <1>3 DEF R

\* A recursion along hashPrevBlock has one solution at most.
LEMMA SolvesUnique ==
  ASSUME NEW V, NEW base, NEW step,
         NEW D \in SUBSET Blocks, PrevClosed(D), NEW f, Solves(f, D, base, step),
         NEW E \in SUBSET Blocks, PrevClosed(E), NEW g, Solves(g, E, base, step)
  PROVE  \A b \in D \cap E : f[b] = g[b]
<1> DEFINE S == {b \in Blocks : b \in D \cap E => f[b] = g[b]}
<1>1. S \in SUBSET Blocks /\ Genesis \in S
  BY DataAssumption DEF Solves
<1>2. ASSUME NEW b \in Blocks \ {Genesis}, Prev[b] \in S PROVE b \in S
  <2> SUFFICES ASSUME b \in D, b \in E PROVE f[b] = g[b]
    OBVIOUS
  <2>1. Prev[b] \in D /\ Prev[b] \in E
    BY DEF PrevClosed
  <2>2. f[Prev[b]] = g[Prev[b]]
    BY <1>2, <2>1
  <2> QED
    BY <2>2 DEF Solves
<1>3. S = Blocks
  <2> HIDE DEF S
  <2> QED
    BY <1>1, <1>2, BlockInd
<1> QED
  BY <1>3

\* A recursion along hashPrevBlock has a solution.
LEMMA SolvesExists ==
  ASSUME NEW V, NEW base \in V, NEW step \in [Blocks \X V -> V]
  PROVE  \E f \in [Blocks -> V] : Solves(f, Blocks, base, step)
<1> DEFINE Part0(f, D) == /\ D \in SUBSET Blocks /\ PrevClosed(D)
                          /\ f \in [D -> V] /\ Solves(f, D, base, step)
           W == {b \in Blocks : \E D \in SUBSET Blocks : \E f : b \in D /\ Part0(f, D)}
<1>0. Genesis \in Blocks /\ \A b \in Blocks \ {Genesis} : Prev[b] \in Blocks
  BY DataAssumption
<1>1. Genesis \in W
  <2> DEFINE D == {Genesis}
             f == [b \in D |-> base]
  <2>1. D \in SUBSET Blocks /\ PrevClosed(D) /\ f \in [D -> V] /\ Solves(f, D, base, step)
    BY <1>0 DEF PrevClosed, Solves
  <2> HIDE DEF f
  <2> QED
    BY <1>0, <2>1
<1>2. ASSUME NEW b \in Blocks \ {Genesis}, Prev[b] \in W PROVE b \in W
  <2>1. PICK D \in SUBSET Blocks : \E f : Prev[b] \in D /\ Part0(f, D)
    BY <1>2
  <2>2. PICK f : Prev[b] \in D /\ Part0(f, D)
    BY <2>1
  <2>3. CASE b \in D
    BY <2>2, <2>3
  <2>4. CASE b \notin D
    <3> DEFINE E == D \cup {b}
               g == [x \in E |-> IF x = b THEN step[<<b, f[Prev[b]]>>] ELSE f[x]]
    <3>1. E \in SUBSET Blocks /\ PrevClosed(E)
      BY <2>2 DEF PrevClosed
    <3>2. g \in [E -> V]
      BY <2>2
    <3>3. \A x \in D : g[x] = f[x]
      BY <2>4
    <3>4. g[b] = step[<<b, g[Prev[b]]>>]
      BY <2>2, <3>3
    <3> HIDE DEF g
    <3>5. ASSUME NEW x \in D PROVE g[x] = IF x = Genesis THEN base ELSE step[<<x, g[Prev[x]]>>]
      <4>1. x # Genesis => Prev[x] \in D
        BY <2>2 DEF PrevClosed
      <4>2. f[x] = IF x = Genesis THEN base ELSE step[<<x, f[Prev[x]]>>]
        BY <2>2 DEF Solves
      <4> QED
        BY <3>3, <4>1, <4>2
    <3>6. Solves(g, E, base, step)
      BY <3>4, <3>5 DEF Solves
    <3> QED
      BY <3>1, <3>2, <3>6
  <2> QED
    BY <2>3, <2>4
<1>3. W = Blocks
  <2>1. W \in SUBSET Blocks
    OBVIOUS
  <2> HIDE DEF W
  <2> QED
    BY <1>1, <1>2, <2>1, BlockInd
<1> DEFINE Val0(b, x) == \E D \in SUBSET Blocks : \E f : b \in D /\ Part0(f, D) /\ x = f[b]
           F == [b \in Blocks |-> CHOOSE x : Val0(b, x)]
<1>4. ASSUME NEW D \in SUBSET Blocks, NEW f, Part0(f, D), NEW b \in D PROVE F[b] = f[b]
  <2>1. Val0(b, f[b])
    BY <1>4
  <2>2. Val0(b, F[b])
    <3> HIDE DEF Val0
    <3> QED
      BY <2>1
  <2>3. PICK E \in SUBSET Blocks : \E g : b \in E /\ Part0(g, E) /\ F[b] = g[b]
    BY <2>2
  <2>4. PICK g : b \in E /\ Part0(g, E) /\ F[b] = g[b]
    BY <2>3
  <2>5. f[b] = g[b]
    BY <1>4, <2>4, SolvesUnique
  <2> QED
    BY <2>4, <2>5
<1> HIDE DEF F
<1>5. ASSUME NEW b \in Blocks
      PROVE  F[b] \in V /\ F[b] = IF b = Genesis THEN base ELSE step[<<b, F[Prev[b]]>>]
  <2>1. PICK D \in SUBSET Blocks : \E f : b \in D /\ Part0(f, D)
    BY <1>3
  <2>2. PICK f : b \in D /\ Part0(f, D)
    BY <2>1
  <2>3. b # Genesis => Prev[b] \in D
    BY <2>2 DEF PrevClosed
  <2>4. F[b] = f[b] /\ (b # Genesis => F[Prev[b]] = f[Prev[b]])
    BY <1>4, <2>2, <2>3
  <2>5. f[b] = IF b = Genesis THEN base ELSE step[<<b, f[Prev[b]]>>]
    BY <2>2 DEF Solves
  <2> QED
    BY <2>2, <2>4, <2>5
<1>6. F = [b \in Blocks |-> F[b]]
  BY DEF F
<1>7. F \in [Blocks -> V]
  BY <1>5, <1>6
<1> QED
  BY <1>5, <1>7 DEF Solves

\* The height of a block is one more than that of its parent.
LEMMA HeightFacts ==
  /\ Height \in [Blocks -> Nat] /\ Height[Genesis] = 0
  /\ \A b \in Blocks \ {Genesis} : Height[b] = Height[Prev[b]] + 1
<1> DEFINE step == [x \in Blocks \X Nat |-> x[2] + 1]
<1>1. step \in [Blocks \X Nat -> Nat] /\ 0 \in Nat
  OBVIOUS
<1>2. PICK f \in [Blocks -> Nat] : Solves(f, Blocks, 0, step)
  <2> HIDE DEF step
  <2> QED
    BY <1>1, SolvesExists
<1>3. f = [b \in Blocks |-> IF b = Genesis THEN 0 ELSE f[Prev[b]] + 1]
  BY <1>2, DataAssumption DEF Solves
<1>4. Height = [b \in Blocks |-> IF b = Genesis THEN 0 ELSE Height[Prev[b]] + 1]
  BY <1>3 DEF Height
<1>5. Genesis \in Blocks /\ \A b \in Blocks \ {Genesis} : Prev[b] \in Blocks
  BY DataAssumption
<1>6. \A b \in Blocks : Height[b] \in Nat
  <2> DEFINE S == {b \in Blocks : Height[b] \in Nat}
  <2>1. S \in SUBSET Blocks /\ Genesis \in S
    BY <1>4, <1>5
  <2>2. \A b \in Blocks \ {Genesis} : Prev[b] \in S => b \in S
    BY <1>4
  <2> HIDE DEF S
  <2>3. S = Blocks
    BY <2>1, <2>2, BlockInd
  <2> QED
    BY <2>3 DEF S
<1> QED
  BY <1>4, <1>5, <1>6

\* The chain of a block is the block and the chain of its parent.
LEMMA ChainFacts ==
  /\ Chain \in [Blocks -> SUBSET Blocks] /\ Chain[Genesis] = {Genesis}
  /\ \A b \in Blocks \ {Genesis} : Chain[b] = {b} \cup Chain[Prev[b]]
<1> DEFINE step == [x \in Blocks \X (SUBSET Blocks) |-> {x[1]} \cup x[2]]
<1>1. step \in [Blocks \X (SUBSET Blocks) -> SUBSET Blocks] /\ {Genesis} \in SUBSET Blocks
  BY DataAssumption
<1>2. PICK f \in [Blocks -> SUBSET Blocks] : Solves(f, Blocks, {Genesis}, step)
  <2> HIDE DEF step
  <2> QED
    BY <1>1, SolvesExists
<1>3. f = [b \in Blocks |-> IF b = Genesis THEN {b} ELSE {b} \cup f[Prev[b]]]
  <2>1. ASSUME NEW b \in Blocks PROVE f[b] = IF b = Genesis THEN {b} ELSE {b} \cup f[Prev[b]]
    <3>1. CASE b = Genesis
      BY <1>2, <3>1 DEF Solves
    <3>2. CASE b # Genesis
      <4>1. f[Prev[b]] \in SUBSET Blocks
        BY <3>2, DataAssumption
      <4>2. f[b] = step[<<b, f[Prev[b]]>>]
        BY <1>2, <3>2 DEF Solves
      <4> QED
        BY <3>2, <4>1, <4>2
    <3> QED
      BY <3>1, <3>2
  <2> HIDE DEF step
  <2> QED
    BY <2>1
<1>4. Chain = [b \in Blocks |-> IF b = Genesis THEN {b} ELSE {b} \cup Chain[Prev[b]]]
  BY <1>3 DEF Chain
<1>5. Genesis \in Blocks /\ \A b \in Blocks \ {Genesis} : Prev[b] \in Blocks
  BY DataAssumption
<1>6. \A b \in Blocks : Chain[b] \in SUBSET Blocks
  <2> DEFINE S == {b \in Blocks : Chain[b] \in SUBSET Blocks}
  <2>1. S \in SUBSET Blocks /\ Genesis \in S
    BY <1>4, <1>5
  <2>2. \A b \in Blocks \ {Genesis} : Prev[b] \in S => b \in S
    BY <1>4
  <2> HIDE DEF S
  <2>3. S = Blocks
    BY <2>1, <2>2, BlockInd
  <2> QED
    BY <2>3 DEF S
<1> QED
  BY <1>4, <1>5, <1>6

\* A chain begins with the genesis block and stays in the block index.
LEMMA ChainGenesis ==
  ASSUME NEW b \in Blocks
  PROVE  Genesis \in Chain[b]
<1> DEFINE S == {c \in Blocks : Genesis \in Chain[c]}
<1>1. S \in SUBSET Blocks /\ Genesis \in S
  BY ChainFacts, DataAssumption
<1>2. \A c \in Blocks \ {Genesis} : Prev[c] \in S => c \in S
  BY ChainFacts
<1> HIDE DEF S
<1>3. S = Blocks
  BY <1>1, <1>2, BlockInd
<1> QED
  BY <1>3 DEF S

\* A set that holds the parents of its blocks holds their chains.
LEMMA ChainKnown ==
  ASSUME NEW K \in SUBSET Blocks, PrevClosed(K), NEW b \in K
  PROVE  Chain[b] \subseteq K
<1> DEFINE S == {c \in Blocks : c \in K => Chain[c] \subseteq K}
<1>1. S \in SUBSET Blocks /\ Genesis \in S
  BY ChainFacts, DataAssumption
<1>2. \A c \in Blocks \ {Genesis} : Prev[c] \in S => c \in S
  BY ChainFacts DEF PrevClosed
<1> HIDE DEF S
<1>3. S = Blocks
  BY <1>1, <1>2, BlockInd
<1> QED
  BY <1>3 DEF S

-----------------------------------------------------------------------------
(* The unspent outputs inside a block *)

\* What CheckBlock guarantees of a block.
LEMMA BlockFacts ==
  ASSUME NEW b \in Blocks \ {Genesis}
  PROVE  /\ Prev[b] \in Blocks /\ Len(Vtx[b]) \in Nat \ {0} /\ DOMAIN Vtx[b] = 1..Len(Vtx[b])
         /\ \A i \in 1..Len(Vtx[b]) : Vtx[b][i] \in Txs /\ (Vtx[b][i] \in CoinBases <=> i = 1)
         /\ \A i, j \in 1..Len(Vtx[b]) : Vtx[b][i] = Vtx[b][j] => i = j
         /\ Height[b] \in Nat \ {0}
<1> DEFINE s == Vtx[b]
<1>1. /\ Prev[b] \in Blocks /\ s \in Seq(Txs) /\ s # <<>>
      /\ \A i \in DOMAIN s : s[i] \in CoinBases <=> i = 1
      /\ \A i, j \in DOMAIN s : s[i] = s[j] => i = j
  BY DataAssumption
<1> HIDE DEF s
<1>2. Len(s) \in Nat \ {0} /\ DOMAIN s = 1..Len(s) /\ \A i \in 1..Len(s) : s[i] \in Txs
  BY <1>1
<1>3. Height[b] \in Nat \ {0}
  BY <1>1, HeightFacts
<1> QED
  BY <1>1, <1>2, <1>3 DEF s

\* What CheckTransaction guarantees of the inputs.
LEMMA InputFacts ==
  ASSUME NEW t \in Txs
  PROVE  /\ Len(Vin[t]) \in Nat /\ DOMAIN Vin[t] = 1..Len(Vin[t])
         /\ \A i \in 1..Len(Vin[t]) : Vin[t][i] \in OutPoints
         /\ \A i, j \in 1..Len(Vin[t]) : Vin[t][i] = Vin[t][j] => i = j
         /\ ToSet(Vin[t]) = {Vin[t][i] : i \in 1..Len(Vin[t])}
         /\ t \in CoinBases <=> Len(Vin[t]) = 0
<1> DEFINE s == Vin[t]
<1>1. s \in Seq(OutPoints) /\ (t \in CoinBases <=> s = <<>>)
      /\ \A i, j \in DOMAIN s : s[i] = s[j] => i = j
  BY DataAssumption
<1> HIDE DEF s
<1>2. Len(s) \in Nat /\ DOMAIN s = 1..Len(s) /\ \A i \in 1..Len(s) : s[i] \in OutPoints
  BY <1>1
<1>3. s = <<>> <=> Len(s) = 0
  BY <1>1
<1>4. ToSet(s) = {s[i] : i \in 1..Len(s)}
  BY <1>2 DEF ToSet
<1> QED
  BY <1>1, <1>2, <1>3, <1>4 DEF s

\* The outputs of a transaction are the outpoints with its hash.
LEMMA OutputFacts ==
  ASSUME NEW t \in Txs
  PROVE  /\ Outputs(t) \subseteq OutPoints
         /\ \A o \in Outputs(t) : o[1] = t
         /\ \A i : <<t, i>> \in Outputs(t) <=> i \in DOMAIN Vout[t]
         /\ \A o \in OutPoints : o[1] = t => o \in Outputs(t)
<1>1. \A o \in OutPoints : o = <<o[1], o[2]>> /\ o[2] \in DOMAIN Vout[o[1]]
  BY OutPointFacts
<1>2. \A i \in DOMAIN Vout[t] : <<t, i>> \in OutPoints
  BY OutPointFacts
<1>3. \A o \in Outputs(t) : o = <<t, o[2]>> /\ o[1] = t /\ o[2] \in DOMAIN Vout[t]
  BY DEF Outputs
<1>4. \A i : <<t, i>> \in Outputs(t) <=> i \in DOMAIN Vout[t]
  BY DEF Outputs
<1>5. Outputs(t) \subseteq OutPoints
  BY <1>2, <1>3
<1>6. \A o \in OutPoints : o[1] = t => o \in Outputs(t)
  BY <1>1, <1>4
<1> QED
  BY <1>3, <1>4, <1>5, <1>6

\* The outputs a block has made, one by one.
LEMMA MadeMember ==
  ASSUME NEW b, NEW k, NEW u
  PROVE  u \in Made(b, k) <=> \E i \in 1..k : \E o \in Outputs(Vtx[b][i]) :
            o \notin Unspendable /\ u = [out |-> o, nHeight |-> Height[b]]
<1> DEFINE S == UNION {Outputs(Vtx[b][i]) : i \in 1..k}
<1>1. \A o : o \in S <=> \E i \in 1..k : o \in Outputs(Vtx[b][i])
  <2> DEFINE W(i) == Outputs(Vtx[b][i])
  <2> HIDE DEF W
  <2>1. \A o : o \in UNION {W(i) : i \in 1..k} <=> \E i \in 1..k : o \in W(i)
    OBVIOUS
  <2> QED
    BY <2>1 DEF W
<1>2. Made(b, k) = {[out |-> o, nHeight |-> Height[b]] : o \in S \ Unspendable}
  BY DEF Made
<1> HIDE DEF S
<1>3. u \in Made(b, k) <=> \E o \in S : o \notin Unspendable /\ u = [out |-> o, nHeight |-> Height[b]]
  BY <1>2
<1> QED
  BY <1>1, <1>3

\* One more transaction makes its outputs, at the height of the block.
LEMMA MadeFacts ==
  ASSUME NEW b \in Blocks \ {Genesis}, NEW k \in 0..Len(Vtx[b])
  PROVE  /\ Made(b, k) \subseteq Records
         /\ \A u \in Made(b, k) : u.nHeight = Height[b] /\ u.out \notin Unspendable
                                  /\ \E i \in 1..k : u.out \in Outputs(Vtx[b][i]) /\ u.out[1] = Vtx[b][i]
         /\ k > 0 => Made(b, k) = Made(b, k - 1) \cup MadeBy(Vtx[b][k], Height[b])
<1>1. /\ Len(Vtx[b]) \in Nat \ {0} /\ Height[b] \in Nat
      /\ \A i \in 1..Len(Vtx[b]) : Vtx[b][i] \in Txs
  BY BlockFacts
<1>2. \A i \in 1..k : /\ Outputs(Vtx[b][i]) \subseteq OutPoints
                      /\ \A o \in Outputs(Vtx[b][i]) : o[1] = Vtx[b][i]
  <2>1. \A i \in 1..k : Vtx[b][i] \in Txs
    BY <1>1
  <2> QED
    BY <2>1, OutputFacts
<1>3. Made(b, k) \subseteq Records
  BY <1>1, <1>2 DEF Made, Records
<1>4. ASSUME NEW u \in Made(b, k)
      PROVE  u.nHeight = Height[b] /\ u.out \notin Unspendable
             /\ \E i \in 1..k : u.out \in Outputs(Vtx[b][i]) /\ u.out[1] = Vtx[b][i]
  <2>1. PICK i \in 1..k : \E o \in Outputs(Vtx[b][i]) :
          o \notin Unspendable /\ u = [out |-> o, nHeight |-> Height[b]]
    BY MadeMember
  <2>2. PICK o \in Outputs(Vtx[b][i]) : o \notin Unspendable /\ u = [out |-> o, nHeight |-> Height[b]]
    BY <2>1
  <2>3. u.nHeight = Height[b] /\ u.out = o /\ o[1] = Vtx[b][i]
    BY <1>2, <2>2
  <2> QED
    BY <2>2, <2>3
<1>5. ASSUME k > 0 PROVE Made(b, k) = Made(b, k - 1) \cup MadeBy(Vtx[b][k], Height[b])
  <2>1. \A i : i \in 1..k <=> i \in 1..(k - 1) \/ i = k
    BY <1>1, <1>5
  <2>2. \A u : u \in MadeBy(Vtx[b][k], Height[b]) <=>
          \E o \in Outputs(Vtx[b][k]) : o \notin Unspendable /\ u = [out |-> o, nHeight |-> Height[b]]
    BY DEF MadeBy
  <2>3. \A u : u \in Made(b, k) <=> u \in Made(b, k - 1) \/ u \in MadeBy(Vtx[b][k], Height[b])
    BY <2>1, <2>2, MadeMember
  <2> QED
    BY <2>3
<1> QED
  BY <1>3, <1>4, <1>5

\* The unspent outputs of a chain are those after all transactions of its last block.
LEMMA UtxoFacts ==
  /\ Utxo \in [Blocks -> SUBSET Records] /\ Utxo[Genesis] = {}
  /\ \A b \in Blocks \ {Genesis} : Utxo[b] = Part(b, Len(Vtx[b]))
<1> DEFINE M(b) == {[out |-> o, nHeight |-> Height[b]] :
                      o \in (UNION {Outputs(t) : t \in ToSet(Vtx[b])}) \ Unspendable}
           G(b) == UNION {ToSet(Vin[t]) : t \in ToSet(Vtx[b])}
           step == [x \in Blocks \X (SUBSET Records) |->
                      IF x[1] = Genesis THEN {} ELSE {u \in x[2] \cup M(x[1]) : u.out \notin G(x[1])}]
<1>1. ASSUME NEW b \in Blocks \ {Genesis}
      PROVE  M(b) = Made(b, Len(Vtx[b])) /\ G(b) = Gone(b, Len(Vtx[b])) /\ M(b) \subseteq Records
  <2>1. DOMAIN Vtx[b] = 1..Len(Vtx[b]) /\ Len(Vtx[b]) \in 0..Len(Vtx[b])
    BY BlockFacts
  <2>2. M(b) = Made(b, Len(Vtx[b])) /\ G(b) = Gone(b, Len(Vtx[b]))
    <3>1. M(b) = Made(b, Len(Vtx[b]))
      <4> DEFINE A == UNION {Outputs(t) : t \in ToSet(Vtx[b])}
      <4>1. \A o : o \in A <=> \E i \in 1..Len(Vtx[b]) : o \in Outputs(Vtx[b][i])
        <5> DEFINE W(t) == Outputs(t)
        <5> HIDE DEF W
        <5>1. \A o : o \in UNION {W(t) : t \in ToSet(Vtx[b])} <=> \E i \in 1..Len(Vtx[b]) : o \in W(Vtx[b][i])
          BY <2>1 DEF ToSet
        <5> QED
          BY <5>1 DEF W
      <4>2. \A u : u \in M(b) <=> \E o \in A : o \notin Unspendable /\ u = [out |-> o, nHeight |-> Height[b]]
        <5> HIDE DEF A
        <5>1. M(b) = {[out |-> o, nHeight |-> Height[b]] : o \in A \ Unspendable}
          BY DEF A
        <5> HIDE DEF M
        <5> QED
          BY <5>1
      <4> HIDE DEF A, M
      <4>3. \A u : u \in M(b) <=> u \in Made(b, Len(Vtx[b]))
        BY <4>1, <4>2, MadeMember
      <4> QED
        BY <4>3
    <3>2. UNION {ToSet(Vin[t]) : t \in ToSet(Vtx[b])} = UNION {ToSet(Vin[Vtx[b][i]]) : i \in 1..Len(Vtx[b])}
      <4> DEFINE W(t) == ToSet(Vin[t])
      <4> HIDE DEF W
      <4>1. UNION {W(t) : t \in ToSet(Vtx[b])} = UNION {W(Vtx[b][i]) : i \in 1..Len(Vtx[b])}
        BY <2>1 DEF ToSet
      <4> QED
        BY <4>1 DEF W
    <3> QED
      BY <3>1, <3>2 DEF Gone
  <2>3. Made(b, Len(Vtx[b])) \subseteq Records
    BY <2>1, MadeFacts
  <2> HIDE DEF M, G
  <2> QED
    BY <2>2, <2>3
<1> HIDE DEF M, G
<1>2. step \in [Blocks \X (SUBSET Records) -> SUBSET Records]
  BY <1>1
<1>3. PICK f \in [Blocks -> SUBSET Records] : Solves(f, Blocks, {}, step)
  <2>1. {} \in SUBSET Records
    OBVIOUS
  <2> HIDE DEF step
  <2> QED
    BY <1>2, <2>1, SolvesExists
<1>4. ASSUME NEW b \in Blocks
      PROVE  f[b] = IF b = Genesis THEN {} ELSE {u \in f[Prev[b]] \cup M(b) : u.out \notin G(b)}
  <2>1. CASE b = Genesis
    BY <1>3, <2>1 DEF Solves
  <2>2. CASE b # Genesis
    <3>1. f[Prev[b]] \in SUBSET Records
      BY <2>2, DataAssumption
    <3>2. f[b] = step[<<b, f[Prev[b]]>>]
      BY <1>3, <2>2 DEF Solves
    <3> QED
      BY <2>2, <3>1, <3>2
  <2> QED
    BY <2>1, <2>2
<1>5. f = [b \in Blocks |-> IF b = Genesis THEN {}
                            ELSE {u \in f[Prev[b]] \cup M(b) : u.out \notin G(b)}]
  <2> HIDE DEF step
  <2> QED
    BY <1>4
<1>6. Utxo = [b \in Blocks |-> IF b = Genesis THEN {}
                               ELSE {u \in Utxo[Prev[b]] \cup M(b) : u.out \notin G(b)}]
  BY <1>5 DEF Utxo, M, G
<1>7. Genesis \in Blocks /\ \A b \in Blocks \ {Genesis} : Prev[b] \in Blocks
  BY DataAssumption
<1>8. \A b \in Blocks : Utxo[b] \in SUBSET Records
  <2> DEFINE S == {b \in Blocks : Utxo[b] \in SUBSET Records}
  <2>1. S \in SUBSET Blocks /\ Genesis \in S
    BY <1>6, <1>7
  <2>2. \A b \in Blocks \ {Genesis} : Prev[b] \in S => b \in S
    BY <1>1, <1>6
  <2> HIDE DEF S
  <2>3. S = Blocks
    BY <2>1, <2>2, BlockInd
  <2> QED
    BY <2>3 DEF S
<1>9. \A b \in Blocks \ {Genesis} : Utxo[b] = Part(b, Len(Vtx[b]))
  BY <1>1, <1>6 DEF Part, Minus
<1>10. Utxo \in [Blocks -> SUBSET Records] /\ Utxo[Genesis] = {}
  BY <1>6, <1>7, <1>8
<1> QED
  BY <1>9, <1>10

-----------------------------------------------------------------------------
(* Coins that represent a set of unspent outputs *)

\* What an unspent output is made of.
LEMMA RecordFacts ==
  ASSUME NEW U \in SUBSET Records, NEW u \in U
  PROVE  /\ u.out \in OutPoints /\ u.nHeight \in Nat /\ u.out \in Outs(U)
         /\ u.out = <<u.out[1], u.out[2]>> /\ u.out[1] \in Txs /\ u.out[2] \in Nat
         /\ u = [out |-> u.out, nHeight |-> u.nHeight]
<1>1. u.out \in OutPoints /\ u.nHeight \in Nat /\ u = [out |-> u.out, nHeight |-> u.nHeight]
  BY DEF Records
<1>2. u.out \in Outs(U)
  BY DEF Outs
<1>3. u.out = <<u.out[1], u.out[2]>> /\ u.out[1] \in Txs /\ u.out[2] \in Nat
  BY <1>1, OutPointFacts
<1> QED
  BY <1>1, <1>2, <1>3

\* SetCoins changes the coins of one transaction.
LEMMA CoinsInSet ==
  ASSUME NEW v, NEW t \in Txs, NEW c
  PROVE  CoinsIn(SetCoins(v, t, c)) = [CoinsIn(v) EXCEPT ![t] = c]
<1>1. \A x \in Txs : GetCoins(SetCoins(v, t, c), x) = IF x = t THEN c ELSE GetCoins(v, x)
  BY GetSetCoins
<1> QED
  BY <1>1 DEF CoinsIn

\* A view shows a CCoins for every transaction.
LEMMA CoinsInType ==
  ASSUME TipTypes, NEW v \in Views
  PROVE  CoinsIn(v) \in [Txs -> CCoins]
BY GetCoinsType DEF CoinsIn

\* The coins of a transaction are pruned when no output of it is unspent.
LEMMA RepPruned ==
  ASSUME NEW C, NEW U, Rep(C, U), NEW t \in Txs
  PROVE  IsPruned(C[t]) <=> \A u \in U : u.out[1] # t
<1>1. C[t].vout \subseteq Nat
  BY DEF Rep, CCoins
<1>2. ASSUME NEW u \in U, u.out[1] = t PROVE ~IsPruned(C[t])
  <2>1. u.out = <<t, u.out[2]>> /\ u.out[2] \in Nat /\ u.out \in Outs(U)
    BY <1>2, RecordFacts DEF Rep
  <2>2. u.out[2] \in C[t].vout
    BY <2>1 DEF Rep
  <2> QED
    BY <2>2 DEF IsPruned
<1>3. ASSUME ~IsPruned(C[t]) PROVE \E u \in U : u.out[1] = t
  <2>1. PICK i \in C[t].vout : TRUE
    BY <1>3 DEF IsPruned
  <2>2. <<t, i>> \in Outs(U)
    BY <1>1, <2>1 DEF Rep
  <2> QED
    BY <2>2 DEF Outs
<1> QED
  BY <1>2, <1>3

\* Coins have one height, so the outputs of a transaction have.
LEMMA RepUniform ==
  ASSUME NEW C, NEW U, Rep(C, U)
  PROVE  Uniform(U)
BY DEF Rep, Uniform

\* One input spent.
LEMMA SpendRep ==
  ASSUME NEW C, NEW U, Rep(C, U), NEW o \in Outs(U)
  PROVE  /\ o \in OutPoints
         /\ Rep([C EXCEPT ![o[1]] = [C[o[1]] EXCEPT !.vout = @ \ {o[2]}]], Without(U, o))
<1> DEFINE t == o[1]
           c == [C[t] EXCEPT !.vout = @ \ {o[2]}]
           D == [C EXCEPT ![t] = c]
           W == Without(U, o)
<1>1. o \in OutPoints /\ t \in Txs /\ o = <<t, o[2]>> /\ o[2] \in Nat
  <2>1. PICK u \in U : u.out = o
    BY DEF Outs
  <2> QED
    BY <2>1, RecordFacts DEF Rep
<1>2. C \in [Txs -> CCoins] /\ U \subseteq Records /\ C[t] \in CCoins
  BY <1>1 DEF Rep
<1>3. c \in CCoins /\ c.vout = C[t].vout \ {o[2]} /\ c.nHeight = C[t].nHeight
      /\ c.fCoinBase = C[t].fCoinBase
  BY <1>2 DEF CCoins
<1> HIDE DEF c
<1>4. D \in [Txs -> CCoins] /\ D[t] = c /\ \A x \in Txs : x # t => D[x] = C[x]
  BY <1>1, <1>2, <1>3
<1> HIDE DEF D
<1>5. W \subseteq Records
  BY <1>2 DEF Minus, Without
<1>6. \A p : p \in Outs(W) <=> p \in Outs(U) /\ p # o
  BY DEF Outs, Without
<1>7. ASSUME NEW x \in Txs, NEW i \in Nat PROVE i \in D[x].vout <=> <<x, i>> \in Outs(W)
  <2>1. i \in C[x].vout <=> <<x, i>> \in Outs(U)
    BY DEF Rep
  <2>2. CASE x = t
    <3>1. <<x, i>> # o <=> i # o[2]
      BY <1>1, <2>2
    <3> QED
      BY <1>3, <1>4, <1>6, <2>1, <2>2, <3>1
  <2>3. CASE x # t
    <3>1. <<x, i>> # o
      BY <1>1, <2>3
    <3> QED
      BY <1>4, <1>6, <2>1, <2>3, <3>1
  <2> QED
    BY <2>2, <2>3
<1>8. ASSUME NEW u \in W
      PROVE  u.nHeight = D[u.out[1]].nHeight /\ (D[u.out[1]].fCoinBase <=> u.out[1] \in CoinBases)
  <2>1. u \in U /\ u.out[1] \in Txs
    BY <1>2, RecordFacts DEF Minus, Without
  <2>2. u.nHeight = C[u.out[1]].nHeight /\ (C[u.out[1]].fCoinBase <=> u.out[1] \in CoinBases)
    BY <2>1 DEF Rep
  <2>3. CASE u.out[1] = t
    BY <1>3, <1>4, <2>2, <2>3
  <2>4. CASE u.out[1] # t
    BY <1>4, <2>1, <2>2, <2>4
  <2> QED
    BY <2>3, <2>4
<1>9. Rep(D, W)
  BY <1>4, <1>5, <1>7, <1>8 DEF Rep
<1> QED
  BY <1>1, <1>9 DEF D, c

\* An output given back: only its transaction's coins change, and they tell its height.
LEMMA RestoreRep ==
  ASSUME NEW C, NEW W, Rep(C, W), NEW w \in Records, NEW c \in CCoins,
         c.vout = C[w.out[1]].vout \cup {w.out[2]},
         c.nHeight = w.nHeight, c.fCoinBase <=> w.out[1] \in CoinBases,
         \A u \in W : u.out[1] = w.out[1] => u.nHeight = w.nHeight
  PROVE  Rep([C EXCEPT ![w.out[1]] = c], With(W, w))
<1> DEFINE t == w.out[1]
           D == [C EXCEPT ![t] = c]
           U == With(W, w)
<1>1. w.out \in OutPoints /\ t \in Txs /\ w.out = <<t, w.out[2]>> /\ w.out[2] \in Nat
  BY RecordFacts
<1>2. C \in [Txs -> CCoins] /\ W \subseteq Records /\ C[t] \in CCoins
  BY <1>1 DEF Rep
<1>3. D \in [Txs -> CCoins] /\ D[t] = c /\ \A x \in Txs : x # t => D[x] = C[x]
  BY <1>1, <1>2
<1> HIDE DEF D
<1>4. \A p : p \in Outs(U) <=> p \in Outs(W) \/ p = w.out
  BY DEF Outs, With
<1>5. ASSUME NEW x \in Txs, NEW i \in Nat PROVE i \in D[x].vout <=> <<x, i>> \in Outs(U)
  <2>1. i \in C[x].vout <=> <<x, i>> \in Outs(W)
    BY DEF Rep
  <2>2. CASE x = t
    <3>1. <<x, i>> = w.out <=> i = w.out[2]
      BY <1>1, <2>2
    <3> QED
      BY <1>3, <1>4, <2>1, <2>2, <3>1
  <2>3. CASE x # t
    <3>1. <<x, i>> # w.out
      BY <1>1, <2>3
    <3> QED
      BY <1>3, <1>4, <2>1, <2>3, <3>1
  <2> QED
    BY <2>2, <2>3
<1>6. ASSUME NEW u \in U
      PROVE  u.nHeight = D[u.out[1]].nHeight /\ (D[u.out[1]].fCoinBase <=> u.out[1] \in CoinBases)
  <2>1. CASE u.out[1] = t
    <3>1. u.nHeight = w.nHeight
      BY <2>1 DEF With
    <3> QED
      BY <1>3, <2>1, <3>1
  <2>2. CASE u.out[1] # t
    <3>1. u \in W /\ u.out[1] \in Txs
      BY <1>2, <2>2, RecordFacts DEF With
    <3>2. u.nHeight = C[u.out[1]].nHeight /\ (C[u.out[1]].fCoinBase <=> u.out[1] \in CoinBases)
      BY <3>1 DEF Rep
    <3> QED
      BY <1>3, <2>2, <3>1, <3>2
  <2> QED
    BY <2>1, <2>2
<1>7. U \subseteq Records
  BY <1>2 DEF With
<1> HIDE DEF U
<1>8. Rep(D, U)
  BY <1>3, <1>5, <1>6, <1>7 DEF Rep
<1> QED
  BY <1>8 DEF D, U

\* The outputs a transaction makes, without the unspendable ones.
LEMMA MadeByFacts ==
  ASSUME NEW t \in Txs, NEW ht \in Nat
  PROVE  /\ MadeBy(t, ht) \subseteq Records
         /\ \A u \in MadeBy(t, ht) : u.out[1] = t /\ u.nHeight = ht /\ u.out \in Outputs(t) \ Unspendable
         /\ Outs(MadeBy(t, ht)) = Outputs(t) \ Unspendable
         /\ \A i : <<t, i>> \in Outs(MadeBy(t, ht)) <=> i \in CoinsOf(t, ht).vout
<1>1. Outputs(t) \subseteq OutPoints /\ (\A o \in Outputs(t) : o[1] = t)
      /\ \A i : <<t, i>> \in Outputs(t) <=> i \in DOMAIN Vout[t]
  BY OutputFacts
<1>2. MadeBy(t, ht) \subseteq Records
  BY <1>1 DEF MadeBy, Records
<1>3. \A u \in MadeBy(t, ht) : u.out[1] = t /\ u.nHeight = ht /\ u.out \in Outputs(t) \ Unspendable
  BY <1>1 DEF MadeBy
<1>4. Outs(MadeBy(t, ht)) = Outputs(t) \ Unspendable
  <2>2. ASSUME NEW o \in Outputs(t) \ Unspendable PROVE o \in Outs(MadeBy(t, ht))
    <3> DEFINE r == [out |-> o, nHeight |-> ht]
    <3>1. r \in MadeBy(t, ht) /\ r.out = o
      BY DEF MadeBy
    <3> HIDE DEF r
    <3> QED
      BY <3>1 DEF Outs
  <2> QED
    BY <1>3, <2>2 DEF Outs
<1>5. \A i : <<t, i>> \in Outs(MadeBy(t, ht)) <=> i \in CoinsOf(t, ht).vout
  BY <1>1, <1>4 DEF CoinsOf
<1> QED
  BY <1>2, <1>3, <1>4, <1>5

\* The outputs of a transaction made.
LEMMA MakeRep ==
  ASSUME NEW C, NEW U, Rep(C, U), NEW t \in Txs, NEW ht \in Nat, \A u \in U : u.out[1] # t
  PROVE  Rep([C EXCEPT ![t] = CoinsOf(t, ht)], U \cup MadeBy(t, ht))
<1> DEFINE c == CoinsOf(t, ht)
           D == [C EXCEPT ![t] = c]
           M == MadeBy(t, ht)
           W == U \cup M
<1>1. c \in CCoins /\ c.nHeight = ht /\ (c.fCoinBase <=> t \in CoinBases)
  BY CoinsOfType DEF CoinsOf
<1>2. /\ M \subseteq Records /\ \A u \in M : u.out[1] = t /\ u.nHeight = ht
      /\ \A i : <<t, i>> \in Outs(M) <=> i \in c.vout
  BY MadeByFacts
<1> HIDE DEF c, M
<1>3. C \in [Txs -> CCoins] /\ U \subseteq Records
  BY DEF Rep
<1>4. D \in [Txs -> CCoins] /\ D[t] = c /\ \A x \in Txs : x # t => D[x] = C[x]
  BY <1>1, <1>3
<1> HIDE DEF D
<1>5. \A p : p \in Outs(W) <=> p \in Outs(U) \/ p \in Outs(M)
  BY DEF Outs
<1>6. ASSUME NEW x \in Txs, NEW i \in Nat PROVE i \in D[x].vout <=> <<x, i>> \in Outs(W)
  <2>1. i \in C[x].vout <=> <<x, i>> \in Outs(U)
    BY DEF Rep
  <2>2. CASE x = t
    <3>1. <<t, i>> \notin Outs(U)
      BY DEF Outs
    <3> QED
      BY <1>2, <1>4, <1>5, <2>2, <3>1
  <2>3. CASE x # t
    <3>1. <<x, i>> \notin Outs(M)
      BY <1>2, <2>3 DEF Outs
    <3> QED
      BY <1>4, <1>5, <2>1, <2>3, <3>1
  <2> QED
    BY <2>2, <2>3
<1>7. ASSUME NEW u \in W
      PROVE  u.nHeight = D[u.out[1]].nHeight /\ (D[u.out[1]].fCoinBase <=> u.out[1] \in CoinBases)
  <2>1. CASE u \in M
    BY <1>1, <1>2, <1>4, <2>1
  <2>2. CASE u \in U
    <3>1. u.out[1] \in Txs /\ u.out[1] # t
      BY <1>3, <2>2, RecordFacts
    <3>2. u.nHeight = C[u.out[1]].nHeight /\ (C[u.out[1]].fCoinBase <=> u.out[1] \in CoinBases)
      BY <2>2 DEF Rep
    <3> QED
      BY <1>4, <3>1, <3>2
  <2> QED
    BY <2>1, <2>2
<1>8. W \subseteq Records
  BY <1>2, <1>3
<1> HIDE DEF W
<1>9. Rep(D, W)
  BY <1>4, <1>6, <1>7, <1>8 DEF Rep
<1> QED
  BY <1>9 DEF D, W, M, c

\* The outputs of a transaction taken away.
LEMMA RemoveRep ==
  ASSUME NEW C, NEW U, NEW t \in Txs, NEW ht \in Nat, Rep(C, U \cup MadeBy(t, ht)),
         \A u \in U : u.out[1] # t, NEW D \in [Txs -> CCoins],
         D[t].vout = {}, \A x \in Txs : x # t => D[x] = C[x]
  PROVE  Rep(D, U) /\ SameCoins(C[t], CoinsOf(t, ht))
<1> DEFINE c == CoinsOf(t, ht)
           M == MadeBy(t, ht)
           W == U \cup M
<1>1. c \in CCoins /\ c.nHeight = ht /\ (c.fCoinBase <=> t \in CoinBases)
  BY CoinsOfType DEF CoinsOf
<1>2. /\ M \subseteq Records /\ \A u \in M : u.out[1] = t /\ u.nHeight = ht
      /\ \A i : <<t, i>> \in Outs(M) <=> i \in c.vout
  BY MadeByFacts
<1> HIDE DEF c, M
<1>3. C \in [Txs -> CCoins] /\ U \subseteq Records /\ C[t] \in CCoins
  BY DEF Rep, M
<1>4. \A p : p \in Outs(W) <=> p \in Outs(U) \/ p \in Outs(M)
  BY DEF Outs
<1>5. ASSUME NEW x \in Txs, NEW i \in Nat PROVE i \in C[x].vout <=> <<x, i>> \in Outs(W)
  BY DEF Rep, M
<1>6. ASSUME NEW u \in W
      PROVE  u.nHeight = C[u.out[1]].nHeight /\ (C[u.out[1]].fCoinBase <=> u.out[1] \in CoinBases)
  BY DEF Rep, M
<1>7. ASSUME NEW i PROVE <<t, i>> \notin Outs(U)
  BY DEF Outs
<1>8. ASSUME NEW x \in Txs, NEW i \in Nat PROVE i \in D[x].vout <=> <<x, i>> \in Outs(U)
  <2>1. CASE x = t
    BY <1>7, <2>1
  <2>2. CASE x # t
    <3>1. <<x, i>> \notin Outs(M)
      BY <1>2, <2>2 DEF Outs
    <3> QED
      BY <1>4, <1>5, <2>2, <3>1
  <2> QED
    BY <2>1, <2>2
<1>9. ASSUME NEW u \in U
      PROVE  u.nHeight = D[u.out[1]].nHeight /\ (D[u.out[1]].fCoinBase <=> u.out[1] \in CoinBases)
  <2>1. u.out[1] \in Txs /\ u.out[1] # t
    BY <1>3, RecordFacts
  <2> QED
    BY <1>6, <2>1
<1>10. Rep(D, U)
  BY <1>3, <1>8, <1>9 DEF Rep
<1>11. SameCoins(C[t], c)
  <2>1. C[t].vout \subseteq Nat /\ c.vout \subseteq Nat
    BY <1>1, <1>3 DEF CCoins
  <2>2. \A i \in Nat : i \in C[t].vout <=> i \in c.vout
    BY <1>2, <1>4, <1>5, <1>7
  <2>3. C[t].vout = c.vout
    BY <2>1, <2>2
  <2>4. CASE c.vout = {}
    BY <2>3, <2>4 DEF SameCoins, IsPruned
  <2>5. CASE c.vout # {}
    <3>1. PICK i \in c.vout : TRUE
      BY <2>5
    <3>2. PICK u \in M : u.out = <<t, i>>
      BY <1>2, <3>1 DEF Outs
    <3>3. u.out[1] = t /\ u.nHeight = ht
      BY <1>2
    <3>4. C[t].nHeight = ht /\ (C[t].fCoinBase <=> t \in CoinBases)
      BY <1>6, <3>3
    <3>5. C[t].fCoinBase = c.fCoinBase
      BY <1>1, <1>3, <3>4 DEF CCoins
    <3>6. C[t] = c
      BY <1>1, <1>3, <2>3, <3>4, <3>5 DEF CCoins
    <3> QED
      BY <3>6 DEF SameCoins
  <2> QED
    BY <2>4, <2>5
<1> QED
  BY <1>10, <1>11 DEF c

\* Induction over the positions of a sequence.
LEMMA PrefixInd ==
  ASSUME NEW m \in Nat, NEW S \in SUBSET (0..m), 0 \in S, \A k \in 1..m : k - 1 \in S => k \in S
  PROVE  S = 0..m
<1> DEFINE K == {k \in Nat : k \in 0..m => k \in S}
<1>1. 0 \in K /\ K \in SUBSET Nat
  OBVIOUS
<1>2. ASSUME NEW k \in K PROVE k + 1 \in K
  <2> SUFFICES ASSUME k + 1 \in 0..m PROVE k + 1 \in S
    OBVIOUS
  <2>1. k + 1 \in 1..m /\ (k + 1) - 1 = k /\ k \in 0..m
    OBVIOUS
  <2>2. k \in S
    BY <2>1
  <2>3. (k + 1) - 1 \in S
    BY <2>1, <2>2
  <2> QED
    BY <2>1, <2>3
<1>3. \A k \in Nat : k \in K
  <2> HIDE DEF K
  <2> QED
    BY <1>1, <1>2, NatInd
<1>4. \A k \in 0..m : k \in S
  BY <1>3
<1> QED
  BY <1>4

\* Spending one input after the other.
LEMMA CutFacts ==
  ASSUME NEW U \in SUBSET Records, NEW tx \in Txs
  PROVE  /\ Cut(U, tx, 0) = U
         /\ Cut(U, tx, Len(Vin[tx])) = Minus(U, ToSet(Vin[tx]))
         /\ \A k \in 1..Len(Vin[tx]) : Cut(U, tx, k) = Without(Cut(U, tx, k - 1), Vin[tx][k])
         /\ \A k \in 1..Len(Vin[tx]) : \A w \in U : w.out = Vin[tx][k] =>
               w \in Cut(U, tx, k - 1)
         /\ \A k \in Nat : Cut(U, tx, k) \subseteq U
<1> DEFINE s == Vin[tx]
           m == Len(s)
<1>1. m \in Nat /\ (\A i, j \in 1..m : s[i] = s[j] => i = j) /\ ToSet(s) = {s[i] : i \in 1..m}
  BY InputFacts
<1> HIDE DEF s, m
<1>2. \A k : Cut(U, tx, k) = {u \in U : \A i \in 1..k : u.out # s[i]}
  BY DEF Cut, Minus, s
<1>3. Cut(U, tx, 0) = U
  <2>1. \A i : i \notin 1..0
    OBVIOUS
  <2> QED
    BY <1>2, <2>1
<1>4. Cut(U, tx, m) = Minus(U, ToSet(s))
  BY <1>1, <1>2 DEF Minus, Without
<1>5. ASSUME NEW k \in 1..m
      PROVE  /\ Cut(U, tx, k) = Without(Cut(U, tx, k - 1), s[k])
             /\ \A w \in U : w.out = s[k] => w \in Cut(U, tx, k - 1)
  <2>1. \A i : i \in 1..k <=> i \in 1..(k - 1) \/ i = k
    BY <1>1
  <2>2. Cut(U, tx, k) = Without(Cut(U, tx, k - 1), s[k])
    BY <1>2, <2>1 DEF Minus, Without
  <2>3. \A i \in 1..(k - 1) : i \in 1..m /\ i # k
    BY <1>1
  <2>4. \A w \in U : w.out = s[k] => w \in Cut(U, tx, k - 1)
    BY <1>1, <1>2, <2>3
  <2> QED
    BY <2>2, <2>4
<1>6. \A k \in Nat : Cut(U, tx, k) \subseteq U
  BY <1>2
<1> QED
  BY <1>3, <1>4, <1>5, <1>6 DEF s, m

\* The next input is still unspent, and spending it removes that output.
LEMMA CutStep ==
  ASSUME NEW U \in SUBSET Records, NEW tx \in Txs, NEW k \in 1..Len(Vin[tx]),
         NEW w \in U, w.out = Vin[tx][k]
  PROVE  w \in Cut(U, tx, k - 1) /\ Cut(U, tx, k) = Without(Cut(U, tx, k - 1), w.out)
<1> DEFINE A == Cut(U, tx, k)
           B == Without(Cut(U, tx, k - 1), Vin[tx][k])
<1>1. A = B /\ w \in Cut(U, tx, k - 1)
  BY CutFacts
<1>2. B = Without(Cut(U, tx, k - 1), w.out)
  OBVIOUS
<1> HIDE DEF B
<1> QED
  BY <1>1, <1>2

\* SpendInput takes the output from what the view represents, and leaves in the
\* undo record what is needed to give it back.
LEMMA SpendStep ==
  ASSUME TipTypes, NEW acc \in SpendResult, NEW W, Rep(CoinsIn(acc.view), W),
         NEW w \in W, NEW R, R = Without(W, w.out)
  PROVE  /\ Rep(CoinsIn(SpendInput(acc, w.out).view), R)
         /\ \E r : SpendInput(acc, w.out).undo = Append(acc.undo, r) /\ Tells(r, w, R)
<1> DEFINE o == w.out
           C == CoinsIn(acc.view)
           coins == GetCoins(acc.view, o[1])
           spent == [coins EXCEPT !.vout = @ \ {o[2]}]
           D == CoinsIn(SetCoins(acc.view, o[1], spent))
<1>1. o \in Outs(W) /\ o[1] \in Txs
  <2>1. W \subseteq Records
    BY DEF Rep
  <2> QED
    BY <2>1, RecordFacts
<1>2. C[o[1]] = coins /\ coins \in CCoins
  <2>1. C[o[1]] = coins
    BY <1>1 DEF CoinsIn
  <2>2. C \in [Txs -> CCoins]
    BY DEF Rep
  <2> HIDE DEF C, coins
  <2> QED
    BY <1>1, <2>1, <2>2
<1>3. D = [C EXCEPT ![o[1]] = spent]
  <2> HIDE DEF spent
  <2>1. \A v, c : CoinsIn(SetCoins(v, o[1], c)) = [CoinsIn(v) EXCEPT ![o[1]] = c]
    BY <1>1, CoinsInSet
  <2> QED
    BY <2>1, Zenon
<1>4. Rep([C EXCEPT ![o[1]] = [C[o[1]] EXCEPT !.vout = @ \ {o[2]}]], Without(W, o))
  <2>1. Rep(C, W) /\ o \in Outs(W)
    BY <1>1
  <2> HIDE DEF o, C
  <2> QED
    BY <2>1, SpendRep
<1>5. Rep(D, R)
  <2> HIDE DEF C, D, coins
  <2> QED
    BY <1>2, <1>3, <1>4
<1>6. D[o[1]] = spent
  <2>1. C \in [Txs -> CCoins]
    BY DEF Rep
  <2> HIDE DEF C, D, spent
  <2> QED
    BY <1>1, <1>3, <2>1
<1>7. IsPruned(spent) <=> \A u \in R : u.out[1] # o[1]
  <2> HIDE DEF D, spent, o
  <2> QED
    BY <1>1, <1>5, <1>6, RepPruned
<1>8. coins.nHeight = w.nHeight /\ (coins.fCoinBase <=> o[1] \in CoinBases)
  <2>1. w.nHeight = C[o[1]].nHeight /\ (C[o[1]].fCoinBase <=> o[1] \in CoinBases)
    BY DEF Rep
  <2> HIDE DEF C, coins, o
  <2> QED
    BY <1>2, <2>1
<1> DEFINE rec == IF IsPruned(spent)
                  THEN [nHeight |-> coins.nHeight, fCoinBase |-> coins.fCoinBase]
                  ELSE [nHeight |-> 0, fCoinBase |-> FALSE]
<1>9. SpendInput(acc, o) = [view |-> SetCoins(acc.view, o[1], spent), undo |-> Append(acc.undo, rec)]
  BY DEF SpendInput
<1>10. SpendInput(acc, o).view = SetCoins(acc.view, o[1], spent) /\ SpendInput(acc, o).undo = Append(acc.undo, rec)
  <2> HIDE DEF rec, spent
  <2> QED
    BY <1>9
<1>11. Rep(CoinsIn(SpendInput(acc, o).view), R)
  BY <1>5, <1>10, Zenon DEF D
<1>12. Tells(rec, w, R)
  <2> HIDE DEF coins, spent
  <2>1. CASE \E x \in R : x.out[1] = o[1]
    <3>1. rec = [nHeight |-> 0, fCoinBase |-> FALSE]
      BY <1>7, <2>1
    <3> QED
      BY <2>1, <3>1 DEF Tells
  <2>2. CASE ~\E x \in R : x.out[1] = o[1]
    <3>1. rec = [nHeight |-> coins.nHeight, fCoinBase |-> coins.fCoinBase]
      BY <1>7, <2>2
    <3> QED
      BY <1>8, <2>2, <3>1 DEF Tells
  <2> QED
    BY <2>1, <2>2
<1> HIDE DEF rec, o
<1>13. \E r : SpendInput(acc, o).undo = Append(acc.undo, r) /\ Tells(r, w, R)
  BY <1>10, <1>12, Zenon
<1> QED
  BY <1>11, <1>13, Zenon DEF o

\* One more input spent by UpdateCoins.
LEMMA SpentStep ==
  ASSUME TipTypes, NEW tx \in Txs, NEW U \in SUBSET Records, Uniform(U),
         NEW k \in 1..Len(Vin[tx]), Vin[tx][k] \in Outs(U),
         NEW acc \in SpendResult, Spent(U, tx, acc, k - 1)
  PROVE  Spent(U, tx, SpendInput(acc, Vin[tx][k]), k)
<1> DEFINE new == SpendInput(acc, Vin[tx][k])
<1>1. PICK w \in U : w.out = Vin[tx][k]
  BY DEF Outs
<1>2. /\ Cut(U, tx, k) = Without(Cut(U, tx, k - 1), w.out)
      /\ w \in Cut(U, tx, k - 1)
  BY <1>1, CutStep
<1>3. k \in Nat \ {0} /\ Len(Vin[tx]) \in Nat
  BY InputFacts
<1>4. Rep(CoinsIn(acc.view), Cut(U, tx, k - 1)) /\ Len(acc.undo) = k - 1
  BY DEF Spent
<1>5. /\ Rep(CoinsIn(new.view), Cut(U, tx, k))
      /\ \E r : new.undo = Append(acc.undo, r) /\ Tells(r, w, Cut(U, tx, k))
  <2> DEFINE W == Cut(U, tx, k - 1)
             R == Cut(U, tx, k)
  <2>1. Rep(CoinsIn(acc.view), W) /\ w \in W /\ R = Without(W, w.out)
    BY <1>2, <1>4
  <2> HIDE DEF W, R
  <2>2. /\ Rep(CoinsIn(SpendInput(acc, w.out).view), R)
        /\ \E r : SpendInput(acc, w.out).undo = Append(acc.undo, r) /\ Tells(r, w, R)
    BY <2>1, SpendStep, SMTT(30)
  <2>3. new = SpendInput(acc, w.out)
    BY <1>1
  <2> HIDE DEF new
  <2> QED
    BY <2>2, <2>3, Zenon DEF R
<1>6. acc.undo \in Seq(UndoRecord)
  BY DEF SpendResult
<1> HIDE DEF new
<1>7. PICK rec : new.undo = Append(acc.undo, rec) /\ Tells(rec, w, Cut(U, tx, k))
  BY <1>5
<1>8. Len(new.undo) = k /\ new.undo[k] = rec /\ \A j \in 1..(k - 1) : new.undo[j] = acc.undo[j]
  BY <1>3, <1>4, <1>6, <1>7
<1>9. ASSUME NEW j \in 1..k, NEW x \in U, x.out = Vin[tx][j] PROVE Tells(new.undo[j], x, Cut(U, tx, j))
  <2>1. CASE j = k
    <3>1. x.out = w.out
      BY <1>1, <1>9, <2>1
    <3>2. x.nHeight = w.nHeight
      BY <3>1 DEF Uniform
    <3> QED
      BY <1>7, <1>8, <2>1, <3>1, <3>2 DEF Tells
  <2>2. CASE j # k
    <3>1. j \in 1..(k - 1)
      BY <1>3, <2>2
    <3>2. Tells(acc.undo[j], x, Cut(U, tx, j))
      BY <1>9, <3>1 DEF Spent
    <3> QED
      BY <1>8, <3>1, <3>2
  <2> QED
    BY <2>1, <2>2
<1>10. Spent(U, tx, new, k)
  BY <1>5, <1>8, <1>9 DEF Spent
<1> QED
  BY <1>10 DEF new

\* UpdateCoins replaces the inputs of tx by its outputs, and its undo data is right.
LEMMA SpendingIsExact ==
  ASSUME TipTypes, NEW v \in Views, NEW tx \in Txs, NEW ht \in Nat, NEW U,
         Rep(CoinsIn(v), U), ToSet(Vin[tx]) \subseteq Outs(U), \A u \in U : u.out[1] # tx
  PROVE  /\ UpdateCoins(v, tx, ht).view \in Views
         /\ Rep(CoinsIn(UpdateCoins(v, tx, ht).view), Minus(U, ToSet(Vin[tx])) \cup MadeBy(tx, ht))
         /\ UndoOK(U, tx, UpdateCoins(v, tx, ht).undo)
<1> DEFINE m == Len(Vin[tx])
<1>1. PICK h : /\ h[0] = [view |-> v, undo |-> <<>>]
               /\ \A k \in 1..m : h[k] = SpendInput(h[k - 1], Vin[tx][k])
               /\ \A k \in 0..m : h[k] \in SpendResult
               /\ UpdateCoins(v, tx, ht).view = SetCoins(h[m].view, tx, CoinsOf(tx, ht))
               /\ UpdateCoins(v, tx, ht).undo = h[m].undo
  BY UpdateSteps
<1>2. U \in SUBSET Records /\ Uniform(U)
  BY RepUniform DEF Rep
<1>3. m \in Nat /\ \A k \in 1..m : Vin[tx][k] \in Outs(U)
  BY InputFacts
<1> DEFINE S == {k \in 0..m : Spent(U, tx, h[k], k)}
<1> HIDE DEF m
<1>4. 0 \in S
  <2>0. Cut(U, tx, 0) = U
    BY <1>2, CutFacts, Zenon
  <2>1. h[0].view = v /\ h[0].undo = <<>> /\ Cut(U, tx, 0) = U
    BY <1>1, <2>0
  <2>2. Rep(CoinsIn(h[0].view), Cut(U, tx, 0))
    BY <2>1
  <2>3. Len(h[0].undo) = 0
    BY <2>1
  <2>4. Spent(U, tx, h[0], 0)
    BY <2>2, <2>3 DEF Spent
  <2> QED
    BY <1>3, <2>4
<1>5. ASSUME NEW k \in 1..m, k - 1 \in S PROVE k \in S
  <2>1. h[k - 1] \in SpendResult /\ k \in 0..m /\ k - 1 \in 0..m /\ Spent(U, tx, h[k - 1], k - 1)
    BY <1>1, <1>3, <1>5
  <2>2. k \in 1..Len(Vin[tx]) /\ Vin[tx][k] \in Outs(U)
    BY <1>3 DEF m
  <2>3. Spent(U, tx, SpendInput(h[k - 1], Vin[tx][k]), k)
    BY <1>2, <2>1, <2>2, SpentStep
  <2> QED
    BY <1>1, <2>1, <2>3
<1>6. S = 0..m
  <2>1. S \in SUBSET (0..m)
    OBVIOUS
  <2> HIDE DEF S
  <2> QED
    BY <1>3, <1>4, <1>5, <2>1, PrefixInd
<1> DEFINE last == h[m]
<1>7. last \in SpendResult /\ Spent(U, tx, last, m)
  <2>1. m \in 0..m
    BY <1>3
  <2> QED
    BY <1>1, <1>6, <2>1
<1>8. /\ UpdateCoins(v, tx, ht).view = SetCoins(last.view, tx, CoinsOf(tx, ht))
      /\ UpdateCoins(v, tx, ht).undo = last.undo
  BY <1>1
<1> HIDE DEF last
<1>9. last.view \in Views /\ last.undo \in Seq(UndoRecord)
  BY <1>7 DEF SpendResult
<1>10. UndoOK(U, tx, last.undo)
  BY <1>7, <1>9 DEF UndoOK, Spent, m
<1> DEFINE W == Minus(U, ToSet(Vin[tx]))
<1>11. Rep(CoinsIn(last.view), W)
  <2>1. Cut(U, tx, m) = W
    BY <1>2, CutFacts DEF m
  <2>2. Rep(CoinsIn(last.view), Cut(U, tx, m))
    BY <1>7 DEF Spent
  <2> HIDE DEF W
  <2> QED
    BY <2>1, <2>2
<1>12. \A u \in W : u.out[1] # tx
  BY DEF Minus, Without
<1> DEFINE C == CoinsIn(last.view)
           D == CoinsIn(SetCoins(last.view, tx, CoinsOf(tx, ht)))
<1>13. D = [C EXCEPT ![tx] = CoinsOf(tx, ht)]
  BY CoinsInSet
<1>14. Rep([C EXCEPT ![tx] = CoinsOf(tx, ht)], W \cup MadeBy(tx, ht))
  <2>1. Rep(C, W)
    BY <1>11
  <2> HIDE DEF C, W
  <2> QED
    BY <1>12, <2>1, MakeRep
<1>15. Rep(D, W \cup MadeBy(tx, ht))
  <2> HIDE DEF C, D, W
  <2> QED
    BY <1>13, <1>14, Zenon
<1>16. SetCoins(last.view, tx, CoinsOf(tx, ht)) \in Views
  BY <1>9, CoinsOfType, SetCoinsView
<1>17. Rep(CoinsIn(UpdateCoins(v, tx, ht).view), W \cup MadeBy(tx, ht))
  <2> HIDE DEF W
  <2> QED
    BY <1>8, <1>15, Zenon DEF D
<1> QED
  BY <1>8, <1>10, <1>16, <1>17

\* Restoring an input gives the outputs before it was spent.
LEMMA CutBack ==
  ASSUME NEW U \in SUBSET Records, Uniform(U), NEW tx \in Txs, NEW k \in 1..Len(Vin[tx]),
         NEW w \in U, w.out = Vin[tx][k]
  PROVE  /\ Cut(U, tx, k - 1) = With(Cut(U, tx, k), w)
         /\ w.out \notin Outs(Cut(U, tx, k)) /\ Cut(U, tx, k) \subseteq U
<1>1. Cut(U, tx, k) = Without(Cut(U, tx, k - 1), w.out) /\ w \in Cut(U, tx, k - 1)
  BY CutStep
<1>2. \A u \in Cut(U, tx, k - 1) : u \in U
  BY DEF Cut, Minus
<1>3. ASSUME NEW u \in U, u.out = w.out PROVE u = w
  <2>1. u.nHeight = w.nHeight
    BY <1>3 DEF Uniform
  <2>2. u = [out |-> u.out, nHeight |-> u.nHeight] /\ w = [out |-> w.out, nHeight |-> w.nHeight]
    BY RecordFacts
  <2> QED
    BY <1>3, <2>1, <2>2
<1>4. \A u : u \in Cut(U, tx, k) <=> u \in Cut(U, tx, k - 1) /\ u.out # w.out
  BY <1>1 DEF Without
<1>5. \A u : u \in Cut(U, tx, k - 1) <=> u \in Cut(U, tx, k) \/ u = w
  BY <1>1, <1>2, <1>3, <1>4
<1>6. Cut(U, tx, k - 1) = With(Cut(U, tx, k), w)
  BY <1>5 DEF With
<1> QED
  BY <1>2, <1>4, <1>6 DEF Outs

\* RestoreInput gives back the output the undo record was left for, and finds the
\* coins as SpendInput left them.
LEMMA RestoreStep ==
  ASSUME TipTypes, NEW acc \in RestoreResult, acc.fClean,
         NEW W, Rep(CoinsIn(acc.view), W), NEW w \in Records, w.nHeight # 0, w.out \notin Outs(W),
         \A u \in W : u.out[1] = w.out[1] => u.nHeight = w.nHeight,
         NEW rec \in UndoRecord, Tells(rec, w, W)
  PROVE  /\ RestoreInput(acc, <<w.out, rec>>).fClean
         /\ Rep(CoinsIn(RestoreInput(acc, <<w.out, rec>>).view), With(W, w))
<1> DEFINE o == w.out
           C == CoinsIn(acc.view)
           coins == GetCoins(acc.view, o[1])
           base == IF rec.nHeight # 0
                   THEN [fCoinBase |-> rec.fCoinBase, nHeight |-> rec.nHeight, vout |-> {}]
                   ELSE coins
           back == [base EXCEPT !.vout = @ \cup {o[2]}]
           clean == acc.fClean /\ (IsPruned(coins) <=> rec.nHeight # 0) /\ ~IsAvailable(base, o[2])
           D == CoinsIn(SetCoins(acc.view, o[1], back))
<1>1. o \in OutPoints /\ o = <<o[1], o[2]>> /\ o[1] \in Txs /\ o[2] \in Nat /\ w.nHeight \in Nat \ {0}
  BY OutPointFacts DEF Records
<1>2. C[o[1]] = coins /\ coins \in CCoins
  <2>1. C[o[1]] = coins
    BY <1>1 DEF CoinsIn
  <2>2. C \in [Txs -> CCoins]
    BY DEF Rep
  <2> HIDE DEF C, coins
  <2> QED
    BY <1>1, <2>1, <2>2
<1>3. IsPruned(coins) <=> \A u \in W : u.out[1] # o[1]
  <2>1. Rep(C, W)
    OBVIOUS
  <2> HIDE DEF C, coins, o
  <2> QED
    BY <1>1, <1>2, <2>1, RepPruned
<1>4. RestoreInput(acc, <<o, rec>>) = [view |-> SetCoins(acc.view, o[1], back), fClean |-> clean]
  BY DEF RestoreInput
<1>5. /\ clean /\ back \in CCoins /\ back.vout = C[o[1]].vout \cup {o[2]}
      /\ back.nHeight = w.nHeight /\ (back.fCoinBase <=> o[1] \in CoinBases)
  <2>1. CASE \E x \in W : x.out[1] = o[1]
    <3>1. PICK x \in W : x.out[1] = o[1]
      BY <2>1
    <3>2. x.nHeight = w.nHeight /\ x.nHeight = coins.nHeight /\ (coins.fCoinBase <=> o[1] \in CoinBases)
      <4>1. x.nHeight = C[x.out[1]].nHeight /\ (C[x.out[1]].fCoinBase <=> x.out[1] \in CoinBases)
        BY DEF Rep
      <4> HIDE DEF C, coins
      <4> QED
        BY <1>2, <3>1, <4>1
    <3>3. rec.nHeight = 0 /\ base = coins
      BY <2>1 DEF Tells
    <3>4. ~IsPruned(coins)
      BY <1>3, <2>1
    <3>5. o[2] \notin coins.vout
      <4>1. o[2] \in C[o[1]].vout <=> <<o[1], o[2]>> \in Outs(W)
        BY <1>1 DEF Rep
      <4> HIDE DEF C, coins
      <4> QED
        BY <1>1, <1>2, <4>1 DEF o
    <3> HIDE DEF coins, base, C
    <3> QED
      BY <1>1, <1>2, <3>2, <3>3, <3>4, <3>5 DEF CCoins, IsAvailable
  <2>2. CASE ~\E x \in W : x.out[1] = o[1]
    <3>1. IsPruned(coins)
      BY <1>3, <2>2
    <3>3. rec.nHeight = w.nHeight /\ (rec.fCoinBase <=> o[1] \in CoinBases) /\ rec.fCoinBase \in BOOLEAN
      BY <2>2 DEF Tells, UndoRecord
    <3>4. base = [fCoinBase |-> rec.fCoinBase, nHeight |-> rec.nHeight, vout |-> {}]
      BY <1>1, <3>3
    <3> HIDE DEF coins, base, C, o
    <3> QED
      BY <1>1, <1>2, <3>1, <3>3, <3>4 DEF CCoins, IsAvailable, IsPruned
  <2> QED
    BY <2>1, <2>2
<1>6. D = [C EXCEPT ![o[1]] = back]
  <2> HIDE DEF back
  <2>1. \A v, c : CoinsIn(SetCoins(v, o[1], c)) = [CoinsIn(v) EXCEPT ![o[1]] = c]
    BY <1>1, CoinsInSet
  <2> QED
    BY <2>1, Zenon
<1>7. Rep([C EXCEPT ![o[1]] = back], With(W, w))
  <2>1. Rep(C, W)
    OBVIOUS
  <2> HIDE DEF C, back
  <2> QED
    BY <1>5, <2>1, RestoreRep
<1>8. Rep(D, With(W, w))
  <2> HIDE DEF C, D, back
  <2> QED
    BY <1>6, <1>7, Zenon
<1> HIDE DEF clean, back
<1>9. RestoreInput(acc, <<o, rec>>).fClean /\ RestoreInput(acc, <<o, rec>>).view = SetCoins(acc.view, o[1], back)
  BY <1>4, <1>5
<1> QED
  BY <1>8, <1>9, Zenon DEF D, o

\* DisconnectBlock's loop body gives back what UpdateCoins took, and finds nothing odd.
LEMMA UndoRestores ==
  ASSUME TipTypes, NEW v \in Views, NEW tx \in Txs, NEW ht \in Nat,
         NEW U \in SUBSET Records, Uniform(U), \A w \in U : w.nHeight # 0 /\ w.out[1] # tx,
         ToSet(Vin[tx]) \subseteq Outs(U), NEW u, UndoOK(U, tx, u),
         Rep(CoinsIn(v), Minus(U, ToSet(Vin[tx])) \cup MadeBy(tx, ht))
  PROVE  /\ UndoTx(v, tx, ht, u).view \in Views
         /\ UndoTx(v, tx, ht, u).fClean
         /\ Rep(CoinsIn(UndoTx(v, tx, ht, u).view), U)
<1> DEFINE m == Len(Vin[tx])
           removed == IF HaveCoins(v, tx) THEN SetCoins(v, tx, NoCoins) ELSE v
           clean == SameCoins(GetCoins(v, tx), CoinsOf(tx, ht))
           W == Minus(U, ToSet(Vin[tx]))
<1>1. u \in Seq(UndoRecord) /\ Len(u) = m
  BY DEF UndoOK
<1>2. PICK h : /\ h[0] = [view |-> removed, fClean |-> clean]
               /\ \A k \in 1..m : h[k] = RestoreInput(h[k - 1], <<Vin[tx][m - k + 1], u[m - k + 1]>>)
               /\ \A k \in 0..m : h[k] \in RestoreResult
               /\ UndoTx(v, tx, ht, u) = h[m]
  BY <1>1, UndoSteps
<1>3. m \in Nat /\ \A k \in 1..m : Vin[tx][k] \in Outs(U)
  BY InputFacts
<1>4. Rep(CoinsIn(removed), W) /\ clean
  <2> DEFINE C == CoinsIn(v)
             D == CoinsIn(removed)
  <2>1. removed \in Views
    BY NoCoinsType, SetCoinsView
  <2>2. D \in [Txs -> CCoins]
    <3> HIDE DEF removed
    <3> QED
      BY <2>1, CoinsInType
  <2>3. D[tx].vout = {} /\ \A x \in Txs : x # tx => D[x] = C[x]
    <3>1. CASE HaveCoins(v, tx)
      <4>1. \A x \in Txs : D[x] = IF x = tx THEN NoCoins ELSE GetCoins(v, x)
        BY <3>1, GetSetCoins DEF CoinsIn
      <4> HIDE DEF D
      <4> QED
        BY <4>1 DEF NoCoins, CoinsIn
    <3>2. CASE ~HaveCoins(v, tx)
      <4>1. GetCoins(v, tx) = NoCoins
        BY <3>2 DEF HaveCoins, GetCoins, TipHaveCoins, TipCoins
      <4>2. D = C
        BY <3>2
      <4>3. C[tx] = NoCoins
        BY <4>1 DEF CoinsIn
      <4> HIDE DEF C, D
      <4> QED
        BY <4>2, <4>3 DEF NoCoins
    <3> QED
      BY <3>1, <3>2
  <2>4. \A w \in W : w.out[1] # tx
    BY DEF Minus
  <2>5. Rep(C, W \cup MadeBy(tx, ht))
    OBVIOUS
  <2>6. Rep(D, W) /\ SameCoins(C[tx], CoinsOf(tx, ht))
    <3> HIDE DEF C, D, W
    <3> QED
      BY <2>2, <2>3, <2>4, <2>5, RemoveRep, SMTT(60)
  <2>7. C[tx] = GetCoins(v, tx)
    BY DEF CoinsIn
  <2> HIDE DEF C, W, removed
  <2> QED
    BY <2>6, <2>7
<1> DEFINE S == {k \in 0..m : h[k].fClean /\ Rep(CoinsIn(h[k].view), Cut(U, tx, m - k))}
<1> HIDE DEF m, removed, clean
<1>5. 0 \in S
  <2>1. h[0].view = removed /\ h[0].fClean = clean
    BY <1>2
  <2>2. Cut(U, tx, m) = W
    <3>1. U \in SUBSET Records
      OBVIOUS
    <3>2. Cut(U, tx, Len(Vin[tx])) = Minus(U, ToSet(Vin[tx]))
      BY <3>1, CutFacts
    <3> QED
      BY <3>2 DEF m
  <2> HIDE DEF W
  <2>3. m - 0 = m
    BY <1>3
  <2>4. h[0].fClean /\ Rep(CoinsIn(h[0].view), Cut(U, tx, m - 0)) /\ 0 \in 0..m
    BY <1>3, <1>4, <2>1, <2>2, <2>3
  <2> QED
    BY <2>4
<1>6. ASSUME NEW k \in 1..m, k - 1 \in S PROVE k \in S
  <2> DEFINE j == m - k + 1
             acc == h[k - 1]
             X == Cut(U, tx, j)
  <2>1. j \in 1..m /\ k \in 0..m /\ k - 1 \in 0..m /\ m - (k - 1) = j /\ m - k = j - 1
    BY <1>3
  <2>2. acc \in RestoreResult /\ acc.fClean /\ Rep(CoinsIn(acc.view), X)
    BY <1>2, <1>6, <2>1
  <2>3. PICK w \in U : w.out = Vin[tx][j]
    BY <1>3, <2>1 DEF Outs
  <2>4. Cut(U, tx, j - 1) = With(X, w) /\ w.out \notin Outs(X) /\ X \subseteq U
    <3> HIDE DEF j
    <3> QED
      BY <2>1, <2>3, CutBack DEF m
  <2>5. u[j] \in UndoRecord /\ Tells(u[j], w, X)
    <3> HIDE DEF j
    <3> QED
      BY <1>1, <2>1, <2>3 DEF UndoOK, m
  <2>6. w \in Records /\ w.nHeight # 0 /\ \A x \in X : x.out[1] = w.out[1] => x.nHeight = w.nHeight
    <3> HIDE DEF X
    <3> QED
      BY <2>4 DEF Uniform
  <2>7. h[k] = RestoreInput(acc, <<w.out, u[j]>>)
    BY <1>2, <2>3
  <2> HIDE DEF j, acc, X
  <2>8. /\ RestoreInput(acc, <<w.out, u[j]>>).fClean
        /\ Rep(CoinsIn(RestoreInput(acc, <<w.out, u[j]>>).view), With(X, w))
    BY <2>2, <2>4, <2>5, <2>6, RestoreStep
  <2>9. h[k].fClean /\ Rep(CoinsIn(h[k].view), Cut(U, tx, m - k))
    BY <2>1, <2>4, <2>7, <2>8, Zenon
  <2> QED
    BY <2>1, <2>9
<1>7. S = 0..m
  <2>1. S \in SUBSET (0..m)
    OBVIOUS
  <2> HIDE DEF S
  <2> QED
    BY <1>3, <1>5, <1>6, <2>1, PrefixInd
<1>8. h[m].fClean /\ Rep(CoinsIn(h[m].view), U) /\ h[m].view \in Views
  <2>1. m \in 0..m /\ m - m = 0
    BY <1>3
  <2>2. h[m].fClean /\ Rep(CoinsIn(h[m].view), Cut(U, tx, 0))
    BY <1>7, <2>1
  <2>3. Cut(U, tx, 0) = U
    BY CutFacts
  <2>4. h[m] \in RestoreResult
    BY <1>2, <2>1
  <2> QED
    BY <2>2, <2>3, <2>4 DEF RestoreResult
<1> QED
  BY <1>2, <1>8, Zenon

-----------------------------------------------------------------------------
(* The values of the inputs and outputs of a transaction *)

\* The sum over a sequence of different outpoints is the amount of its set.
LEMMA SumSeq ==
  ASSUME NEW m \in Nat, NEW p \in [1..m -> OutPoints],
         \A i, j \in 1..m : p[i] = p[j] => i = j,
         NEW s \in Seq(Nat), Len(s) = m, \A i \in 1..m : s[i] = Val(p[i])
  PROVE  Sum(s) = Amount({p[i] : i \in 1..m})
<1>1. PICK h \in [0..m -> Nat] : h[0] = 0 /\ Sum(s) = h[m] /\ \A k \in 1..m : h[k] = h[k - 1] + s[k]
  BY SumFold
<1> DEFINE T(k) == {p[i] : i \in 1..k}
           S == {k \in 0..m : h[k] = Amount(T(k))}
<1>2. 0 \in S
  <2>1. T(0) = {}
    OBVIOUS
  <2> DEFINE t0 == T(0)
  <2> HIDE DEF T
  <2>2. Amount(t0) = 0
    <3>1. t0 = {}
      BY <2>1
    <3> HIDE DEF t0
    <3> QED
      BY <3>1, AmountFacts
  <2> QED
    BY <1>1, <2>2
<1>3. ASSUME NEW k \in 1..m, k - 1 \in S PROVE k \in S
  <2> DEFINE a == T(k)
             b == T(k - 1)
             c == b \cup {p[k]}
  <2>1. a = c /\ b \in SUBSET OutPoints /\ p[k] \in OutPoints \ b
    <3>1. \A i : i \in 1..k <=> i \in 1..(k - 1) \/ i = k
      OBVIOUS
    <3>2. \A i \in 1..(k - 1) : i \in 1..m /\ i # k
      OBVIOUS
    <3>3. a = c
      BY <3>1
    <3>4. \A i \in 1..m : p[i] \in OutPoints
      OBVIOUS
    <3>5. b \in SUBSET OutPoints
      BY <3>2, <3>4
    <3>6. p[k] \in OutPoints /\ p[k] \notin b
      BY <3>2, <3>4
    <3> QED
      BY <3>3, <3>5, <3>6
  <2>2. h[k - 1] = Amount(b)
    <3>1. k - 1 \in S
      BY <1>3
    <3> HIDE DEF T
    <3> QED
      BY <3>1
  <2> HIDE DEF a, b
  <2>3. Amount(c) = Amount(b) + Val(p[k])
    BY <2>1, AmountFacts
  <2> HIDE DEF c
  <2>4. h[k] = Amount(a)
    <3>1. Amount(a) = Amount(c)
      BY <2>1
    <3>2. h[k] = h[k - 1] + Val(p[k])
      BY <1>1
    <3> QED
      BY <2>2, <2>3, <3>1, <3>2
  <2>5. k \in 0..m
    OBVIOUS
  <2> HIDE DEF T
  <2> QED
    BY <2>4, <2>5 DEF a
<1>4. S = 0..m
  <2>1. S \in SUBSET (0..m)
    OBVIOUS
  <2> HIDE DEF S
  <2> QED
    BY <1>2, <1>3, <2>1, PrefixInd
<1>5. Sum(s) = Amount(T(m))
  <2>1. m \in S
    <3> HIDE DEF S
    <3> QED
      BY <1>4
  <2> HIDE DEF T
  <2> QED
    BY <1>1, <2>1
<1> QED
  BY <1>5, Zenon

\* GetValueIn is the amount of the outputs spent.
LEMMA ValueInFacts ==
  ASSUME NEW t \in Txs
  PROVE  ValueIn(t) = Amount(ToSet(Vin[t])) /\ ToSet(Vin[t]) \in SUBSET OutPoints
<1> DEFINE p == Vin[t]
           m == Len(p)
           s == [j \in DOMAIN p |-> Val(p[j])]
<1>1. /\ m \in Nat /\ p \in [1..m -> OutPoints] /\ DOMAIN p = 1..m
      /\ \A i, j \in 1..m : p[i] = p[j] => i = j
      /\ ToSet(p) = {p[i] : i \in 1..m}
  <2>1. p \in Seq(OutPoints)
    BY DataAssumption
  <2>2. /\ \A i, j \in 1..m : p[i] = p[j] => i = j
        /\ ToSet(p) = {p[i] : i \in 1..m}
    BY InputFacts
  <2> HIDE DEF p
  <2>3. m \in Nat /\ p \in [1..m -> OutPoints] /\ DOMAIN p = 1..m
    BY <2>1
  <2> HIDE DEF m
  <2> QED
    BY <2>2, <2>3
<1> HIDE DEF p, m
<1>2. s \in [1..m -> Nat]
  BY <1>1, OutPointFacts
<1> HIDE DEF s
<1>3. s \in Seq(Nat) /\ Len(s) = m
  BY <1>1, <1>2
<1>4. \A i \in 1..m : s[i] = Val(p[i])
  BY <1>1 DEF s
<1>5. Sum(s) = Amount({p[i] : i \in 1..m})
  BY <1>1, <1>3, <1>4, SumSeq
<1>6. ValueIn(t) = Sum(s)
  BY DEF ValueIn, Val, s, p
<1> DEFINE a == {p[i] : i \in 1..m}
           c == ToSet(p)
<1>7. a = c /\ c \in SUBSET OutPoints /\ Sum(s) = Amount(a)
  BY <1>1, <1>5
<1> HIDE DEF a, c
<1>8. ValueIn(t) = Amount(c) /\ c \in SUBSET OutPoints
  BY <1>6, <1>7
<1> QED
  BY <1>8 DEF c, p

\* GetValueOut is the amount of the outputs made.
LEMMA ValueOutFacts ==
  ASSUME NEW t \in Txs
  PROVE  ValueOut(t) = Amount(Outputs(t)) /\ ValueOut(t) \in Nat
<1> DEFINE s == Vout[t]
           m == Len(s)
           p == [i \in 1..m |-> <<t, i>>]
<1>1. s \in Seq(Nat) /\ m \in Nat /\ DOMAIN s = 1..m
  <2>1. s \in Seq(Nat)
    BY DataAssumption
  <2> HIDE DEF s
  <2> QED
    BY <2>1
<1>2. p \in [1..m -> OutPoints] /\ (\A i, j \in 1..m : p[i] = p[j] => i = j) /\ \A i \in 1..m : s[i] = Val(p[i])
  BY <1>1, OutPointFacts DEF Val
<1>3. Outputs(t) = {p[i] : i \in 1..m}
  <2>1. Outputs(t) = {t} \X (1..m)
    <3> HIDE DEF m
    <3> QED
      BY <1>1 DEF Outputs
  <2>2. \A o : o \in {t} \X (1..m) <=> \E i \in 1..m : o = <<t, i>>
    OBVIOUS
  <2>3. \A i \in 1..m : p[i] = <<t, i>>
    OBVIOUS
  <2> HIDE DEF p, m
  <2> QED
    BY <2>1, <2>2, <2>3
<1> HIDE DEF s, m, p
<1>4. Sum(s) = Amount({p[i] : i \in 1..m})
  BY <1>1, <1>2, SumSeq
<1> DEFINE a == {p[i] : i \in 1..m}
           c == Outputs(t)
<1>5. a = c /\ c \in SUBSET OutPoints /\ Sum(s) = Amount(a)
  BY <1>3, <1>4, OutputFacts
<1> HIDE DEF a, c
<1>6. Sum(s) = Amount(c) /\ Amount(c) \in Nat
  BY <1>5, AmountFacts
<1> QED
  BY <1>6 DEF ValueOut, s, c

\* Unspent outputs have an amount.
LEMMA OutsFacts ==
  ASSUME NEW U \in SUBSET Records
  PROVE  Outs(U) \in SUBSET OutPoints /\ Amount(Outs(U)) \in Nat
<1>1. Outs(U) \in SUBSET OutPoints
  BY DEF Outs, Records
<1> QED
  BY <1>1, AmountFacts

\* What replacing the inputs of a transaction by its outputs does to the money.
LEMMA AmountStep ==
  ASSUME NEW U \in SUBSET Records, NEW t \in Txs, NEW ht \in Nat,
         ToSet(Vin[t]) \subseteq Outs(U), \A u \in U : u.out[1] # t
  PROVE  Amount(Outs(Minus(U, ToSet(Vin[t])) \cup MadeBy(t, ht))) + ValueIn(t)
            <= Amount(Outs(U)) + ValueOut(t)
<1> DEFINE A == Outs(Minus(U, ToSet(Vin[t])))
           B == Outs(MadeBy(t, ht))
           S == ToSet(Vin[t])
           T == Outs(U)
           All == Outs(Minus(U, ToSet(Vin[t])) \cup MadeBy(t, ht))
           AB == A \cup B
           AS == A \cup S
<1>1. /\ A \in SUBSET OutPoints /\ B \in SUBSET Outputs(t) /\ Outputs(t) \in SUBSET OutPoints
      /\ S \in SUBSET OutPoints /\ T \in SUBSET OutPoints
  <2>1. Minus(U, S) \in SUBSET Records
    BY DEF Minus
  <2> QED
    BY <2>1, OutsFacts, MadeByFacts, OutputFacts, ValueInFacts
<1>2. All = AB
  BY DEF Outs
<1>3. AS = T /\ A \cap S = {}
  BY DEF Outs, Minus
<1>4. A \cap B = {}
  <2>1. \A o \in A : o[1] # t
    BY DEF Outs, Minus
  <2>2. \A o \in B : o[1] = t
    BY MadeByFacts DEF Outs
  <2> QED
    BY <2>1, <2>2
<1> HIDE DEF A, B, S, T, All
<1>5. Amount(AB) = Amount(A) + Amount(B) /\ Amount(AS) = Amount(A) + Amount(S)
  BY <1>1, <1>3, <1>4, AmountUnion
<1>6. Amount(B) <= Amount(Outputs(t))
  BY <1>1, AmountMono
<1>7. Amount(A) \in Nat /\ Amount(B) \in Nat /\ Amount(S) \in Nat /\ Amount(Outputs(t)) \in Nat
  BY <1>1, AmountFacts
<1>8. ValueIn(t) = Amount(S) /\ ValueOut(t) = Amount(Outputs(t))
  BY ValueInFacts, ValueOutFacts DEF S
<1> HIDE DEF AB, AS
<1>9. Amount(All) = Amount(AB) /\ Amount(T) = Amount(AS)
  BY <1>2, <1>3
<1>10. Amount(All) + ValueIn(t) <= Amount(T) + ValueOut(t)
  BY <1>5, <1>6, <1>7, <1>8, <1>9
<1> QED
  BY <1>10 DEF All, T

-----------------------------------------------------------------------------
(* A block, transaction by transaction *)

\* The outputs inside a block are outputs with heights.
LEMMA PartTypes ==
  ASSUME NEW b \in Blocks \ {Genesis}, NEW k \in 0..Len(Vtx[b])
  PROVE  Part(b, k) \in SUBSET Records
<1>1. Utxo[Prev[b]] \subseteq Records
  BY BlockFacts, UtxoFacts
<1>2. Made(b, k) \subseteq Records
  BY MadeFacts
<1> QED
  BY <1>1, <1>2 DEF Part, Minus

\* Before its first transaction a block has the outputs of its parent.
LEMMA PartStart ==
  ASSUME NEW b \in Blocks \ {Genesis}
  PROVE  Part(b, 0) = Utxo[Prev[b]]
<1>1. \A i : i \notin 1..0
  OBVIOUS
<1>2. \A u : u \notin Made(b, 0)
  BY <1>1, MadeMember
<1>3. \A o : o \notin Gone(b, 0)
  BY <1>1 DEF Gone
<1> QED
  BY <1>2, <1>3 DEF Part, Minus

\* No unspent output is made at height 0, which an undo record takes for "no height".
LEMMA UtxoHeights == \A b \in Blocks : \A u \in Utxo[b] : u.nHeight # 0
<1> DEFINE S == {b \in Blocks : \A u \in Utxo[b] : u.nHeight # 0}
<1>1. S \in SUBSET Blocks /\ Genesis \in S
  BY UtxoFacts, DataAssumption
<1>2. ASSUME NEW b \in Blocks \ {Genesis}, Prev[b] \in S PROVE b \in S
  <2>1. Height[b] # 0 /\ Len(Vtx[b]) \in 0..Len(Vtx[b])
    BY BlockFacts
  <2>2. \A u \in Made(b, Len(Vtx[b])) : u.nHeight # 0
    BY <2>1, MadeFacts
  <2>3. Utxo[b] \subseteq Utxo[Prev[b]] \cup Made(b, Len(Vtx[b]))
    BY UtxoFacts DEF Part, Minus
  <2> QED
    BY <1>2, <2>2, <2>3
<1> HIDE DEF S
<1>3. S = Blocks
  BY <1>1, <1>2, BlockInd
<1> QED
  BY <1>3 DEF S

\* The same inside a block.
LEMMA PartHeights ==
  ASSUME NEW b \in Blocks \ {Genesis}, NEW k \in 0..Len(Vtx[b])
  PROVE  \A u \in Part(b, k) : u.nHeight # 0
<1>1. Height[b] # 0 /\ Prev[b] \in Blocks
  BY BlockFacts
<1>2. \A u \in Made(b, k) : u.nHeight # 0
  BY <1>1, MadeFacts
<1> QED
  BY <1>1, <1>2, UtxoHeights DEF Part, Minus

\* No output of a transaction is there before it, when none was before the block.
LEMMA PartFresh ==
  ASSUME NEW b \in Blocks \ {Genesis}, Fresh(b), NEW k \in 1..Len(Vtx[b]), NEW j \in 0..(k - 1)
  PROVE  \A u \in Part(b, j) : u.out[1] # Vtx[b][k]
<1>1. /\ Len(Vtx[b]) \in Nat /\ DOMAIN Vtx[b] = 1..Len(Vtx[b])
      /\ \A x, y \in 1..Len(Vtx[b]) : Vtx[b][x] = Vtx[b][y] => x = y
  BY BlockFacts
<1>2. j \in 0..Len(Vtx[b]) /\ \A i \in 1..j : i \in 1..Len(Vtx[b]) /\ i # k
  BY <1>1
<1>3. \A u \in Utxo[Prev[b]] : u.out[1] # Vtx[b][k]
  BY <1>1 DEF Fresh, ToSet
<1>4. ASSUME NEW u \in Made(b, j) PROVE u.out[1] # Vtx[b][k]
  <2>1. PICK i \in 1..j : u.out[1] = Vtx[b][i]
    BY <1>2, MadeFacts
  <2> QED
    BY <1>1, <1>2, <2>1
<1> QED
  BY <1>3, <1>4 DEF Part, Minus

\* One more transaction: its inputs go, and its outputs come, which none before spent.
LEMMA PartStep ==
  ASSUME NEW b \in Blocks \ {Genesis}, Fresh(b), NEW k \in 1..Len(Vtx[b]), Available(b, k)
  PROVE  /\ Part(b, k) = Minus(Part(b, k - 1), ToSet(Vin[Vtx[b][k]])) \cup MadeBy(Vtx[b][k], Height[b])
         /\ \A u \in Part(b, k - 1) : u.out[1] # Vtx[b][k]
<1> DEFINE tx == Vtx[b][k]
           U == Utxo[Prev[b]]
           M == Made(b, k - 1)
           N == MadeBy(tx, Height[b])
           G == Gone(b, k - 1)
           I == ToSet(Vin[tx])
<1>1. Len(Vtx[b]) \in Nat /\ tx \in Txs /\ Height[b] \in Nat /\ k \in Nat /\ k > 0
  BY BlockFacts
<1>2. k \in 0..Len(Vtx[b]) /\ k - 1 \in 0..(k - 1)
  BY <1>1
<1>3. Made(b, k) = M \cup N
  BY <1>1, <1>2, MadeFacts
<1>4. \A o : o \in Gone(b, k) <=> o \in G \/ o \in I
  <2>1. \A i : i \in 1..k <=> i \in 1..(k - 1) \/ i = k
    BY <1>1
  <2> DEFINE W(i) == ToSet(Vin[Vtx[b][i]])
  <2>2. \A j, o : o \in Gone(b, j) <=> \E i \in 1..j : o \in W(i)
    <3> HIDE DEF W
    <3>1. \A j, o : o \in UNION {W(i) : i \in 1..j} <=> \E i \in 1..j : o \in W(i)
      OBVIOUS
    <3> QED
      BY <3>1 DEF Gone, W
  <2>3. W(k) = I
    OBVIOUS
  <2> HIDE DEF W, G, I
  <2> QED
    BY <2>1, <2>2, <2>3 DEF G
<1>5. ASSUME NEW i \in 1..k, NEW o \in ToSet(Vin[Vtx[b][i]]) PROVE o[1] # tx
  <2>1. i - 1 \in 0..(k - 1)
    BY <1>1
  <2>2. \A u \in Part(b, i - 1) : u.out[1] # tx
    BY <2>1, PartFresh
  <2>3. o \in Outs(Part(b, i - 1))
    BY DEF Available
  <2> QED
    BY <2>2, <2>3 DEF Outs
<1>6. ASSUME NEW u \in N PROVE u.out \notin Gone(b, k)
  <2>1. u.out[1] = tx
    BY <1>1, MadeByFacts
  <2> DEFINE W(i) == ToSet(Vin[Vtx[b][i]])
  <2>2. \A i \in 1..k : u.out \notin W(i)
    BY <1>5, <2>1
  <2> HIDE DEF W
  <2>3. u.out \notin UNION {W(i) : i \in 1..k}
    BY <2>2
  <2> QED
    BY <2>3 DEF Gone, W
<1> DEFINE P == Part(b, k)
           Q == Part(b, k - 1)
           R == Minus(Q, I)
<1>7. /\ \A u : u \in P <=> (u \in U \/ u \in Made(b, k)) /\ u.out \notin Gone(b, k)
      /\ \A u : u \in Q <=> (u \in U \/ u \in M) /\ u.out \notin G
      /\ \A u : u \in R <=> u \in Q /\ u.out \notin I
  BY DEF Part, Minus
<1> HIDE DEF P, Q, R, N, M, U, G, I
<1>8. \A u : u \in P <=> u \in R \/ u \in N
  BY <1>3, <1>4, <1>6, <1>7
<1>9. P = R \cup N
  BY <1>8
<1>10. \A u \in Q : u.out[1] # Vtx[b][k]
  BY <1>2, PartFresh DEF Q
<1> QED
  BY <1>9, <1>10 DEF P, Q, R, N, I

-----------------------------------------------------------------------------
(* The inductive invariant *)

\* A block whose transactions replace none may be connected.
LEMMA AppliedStart ==
  ASSUME NEW b \in Blocks \ {Genesis}, Fresh(b), Uniform(Utxo[Prev[b]])
  PROVE  Applied(b, 0, <<>>)
PROOF
<1>1. Part(b, 0) = Utxo[Prev[b]]
  BY PartStart
<1>2. Uniform(Part(b, 0))
  BY <1>1
<1>3. \A i \in 0..0 : Uniform(Part(b, i))
  BY <1>2
<1>4. Available(b, 0)
  BY DEF Available
<1> QED
  BY <1>3, <1>4 DEF Applied

\* One more transaction connected, with its undo data.
LEMMA AppliedStep ==
  ASSUME NEW b \in Blocks \ {Genesis}, NEW k \in 1..Len(Vtx[b]), NEW bu, Applied(b, k - 1, bu),
         Uniform(Part(b, k)), ToSet(Vin[Vtx[b][k]]) \subseteq Outs(Part(b, k - 1)),
         NEW u, UndoOK(Part(b, k - 1), Vtx[b][k], u)
  PROVE  /\ Available(b, k)
         /\ k > 1 => Applied(b, k, Append(bu, u))
         /\ k = 1 => Applied(b, k, bu)
PROOF
<1>1. Len(Vtx[b]) \in Nat
  BY BlockFacts
<1>2. k \in Nat \ {0} /\ k - 1 \in Nat
  BY <1>1
<1>3. Available(b, k)
  <2>1. \A i \in 1..k : i = k \/ i \in 1..(k - 1)
    BY <1>2
  <2>2. Available(b, k - 1)
    BY DEF Applied
  <2> QED BY <2>1, <2>2 DEF Available
<1>4. \A i \in 0..k : Uniform(Part(b, i))
  <2> TAKE i \in 0..k
  <2>1. CASE i = k
    BY <2>1
  <2>2. CASE i # k
    <3>1. i \in 0..(k - 1)
      BY <2>2, <1>2
    <3> QED BY <3>1 DEF Applied
  <2> QED BY <2>1, <2>2
<1>5. u \in Seq(UndoRecord)
  BY DEF UndoOK
<1>6. bu \in Seq(Seq(UndoRecord)) /\ Len(bu) = IF k - 1 = 0 THEN 0 ELSE k - 1 - 1
  BY DEF Applied
<1>7. \A i \in 2..(k - 1) : UndoOK(Part(b, i - 1), Vtx[b][i], bu[i - 1])
  BY DEF Applied
<1>8. Fresh(b)
  BY DEF Applied
<1>9. ASSUME k > 1 PROVE Applied(b, k, Append(bu, u))
  <2> DEFINE a == Append(bu, u)
  <2>1. Len(bu) = k - 2
    BY <1>2, <1>6, <1>9
  <2>2. a \in Seq(Seq(UndoRecord)) /\ Len(a) = k - 1 /\ a[k - 1] = u
    BY <2>1, <1>2, <1>6, <1>5, <1>9
  <2>3. \A i \in 2..(k - 1) : a[i - 1] = bu[i - 1]
    BY <2>1, <1>2, <1>6, <1>5, <1>9
  <2> HIDE DEF a
  <2>4. \A i \in 2..k : UndoOK(Part(b, i - 1), Vtx[b][i], a[i - 1])
    <3> TAKE i \in 2..k
    <3>1. CASE i = k
      BY <3>1, <2>2
    <3>2. CASE i # k
      <4>1. i \in 2..(k - 1)
        BY <3>2, <1>2
      <4>2. UndoOK(Part(b, i - 1), Vtx[b][i], bu[i - 1]) /\ a[i - 1] = bu[i - 1]
        BY <4>1, <1>7, <2>3
      <4> QED BY <4>2
    <3> QED BY <3>1, <3>2
  <2>5. Applied(b, k, a)
    BY <1>2, <1>9, <1>8, <1>3, <1>4, <2>2, <2>4 DEF Applied
  <2> QED BY <2>5 DEF a
<1>10. ASSUME k = 1 PROVE Applied(b, k, bu)
  BY <1>10, <1>3, <1>4, <1>6, <1>8 DEF Applied
<1> QED BY <1>3, <1>9, <1>10

\* A map of the coins that differs in pruned entries only represents the same outputs.
LEMMA RepSame ==
  ASSUME NEW C, NEW U, Rep(C, U), NEW D \in [Txs -> CCoins],
         \A t \in Txs : D[t] = C[t] \/ (D[t].vout = {} /\ C[t].vout = {})
  PROVE  Rep(D, U)
PROOF
<1>1. \A t \in Txs : D[t].vout = C[t].vout
  OBVIOUS
<1>2. \A u \in U : D[u.out[1]] = C[u.out[1]]
  <2> TAKE u \in U
  <2>1. U \in SUBSET Records
    BY DEF Rep
  <2>2. u.out = <<u.out[1], u.out[2]>> /\ u.out[1] \in Txs /\ u.out[2] \in Nat /\ u.out \in Outs(U)
    BY <2>1, RecordFacts
  <2>3. u.out[2] \in C[u.out[1]].vout
    BY <2>2 DEF Rep
  <2> QED BY <2>2, <2>3
<1> QED
  BY <1>1, <1>2 DEF Rep

\* Coins are written to the cache, and to the database without the pruned entries.
LEMMA WriteRep ==
  ASSUME TipTypes, NEW v \in Views, NEW U, Rep(CoinsIn(v), U),
         WriteChainState(Overlay(cacheCoins, v))
  PROVE  TipTypes' /\ Rep(CoinsIn(Empty)', U)
PROOF
<1> DEFINE c == Overlay(cacheCoins, v)
<1> DEFINE all == Overlay(coinsDB, c)
<1>1. c \in Views /\ all \in Views
  BY OverlayView DEF TipTypes
<1>2. IsView(c) /\ IsView(all) /\ IsView(coinsDB) /\ IsView(cacheCoins) /\ IsView(v)
  BY <1>1, ViewTypes DEF TipTypes
<1>3. \A t \in Txs : CoinsIn(v)[t] = IF t \in DOMAIN all THEN all[t] ELSE NoCoins
  BY DEF CoinsIn, GetCoins, TipCoins, Overlay
<1>4. \A t \in Txs : CoinsIn(v)[t] = IF t \in DOMAIN c THEN c[t]
                                      ELSE IF t \in DOMAIN coinsDB THEN coinsDB[t] ELSE NoCoins
  BY DEF CoinsIn, GetCoins, TipCoins, Overlay
<1>5. \A t \in Txs : CoinsIn(Empty)'[t] = IF t \in DOMAIN cacheCoins' THEN cacheCoins'[t]
                                           ELSE IF t \in DOMAIN coinsDB' THEN coinsDB'[t] ELSE NoCoins
  BY DEF CoinsIn, GetCoins, TipCoins, Empty
<1>6. PICK flush \in FlushChoices :
         IF flush THEN coinsDB' = Written(c) /\ cacheCoins' = Empty
                  ELSE cacheCoins' = c /\ UNCHANGED coinsDB
  BY DEF WriteChainState
<1>7. CASE ~flush
  <2>1. cacheCoins' = c /\ coinsDB' = coinsDB
    BY <1>6, <1>7
  <2>2. TipTypes'
    BY <2>1, <1>1 DEF TipTypes
  <2>3. \A t \in Txs : CoinsIn(Empty)'[t] = CoinsIn(v)[t]
    BY <2>1, <1>4, <1>5
  <2>4. CoinsIn(Empty)' \in [Txs -> CCoins]
    <3>1. \A t \in Txs : CoinsIn(Empty)'[t] \in CCoins
      BY <2>3, CoinsInType
    <3> QED BY <3>1 DEF CoinsIn
  <2> QED BY <2>2, <2>3, <2>4, RepSame
<1>8. CASE flush
  <2>1. coinsDB' = Written(c) /\ cacheCoins' = Empty
    BY <1>6, <1>8
  <2>2. coinsDB' = [t \in {u \in DOMAIN all : ~IsPruned(all[u])} |-> all[t]]
    BY <2>1 DEF Written
  <2>3. coinsDB' \in Views
    <3> DEFINE E == {u \in DOMAIN all : ~IsPruned(all[u])}
    <3>1. E \in SUBSET Txs /\ \A t \in E : all[t] \in CCoins
      BY <1>2 DEF IsView
    <3>2. [t \in E |-> all[t]] \in [E -> CCoins]
      BY <3>1
    <3> QED BY <3>1, <3>2, <2>2 DEF Views
  <2>4. TipTypes'
    BY <2>1, <2>3, EmptyView DEF TipTypes
  <2>5. \A t \in Txs : CoinsIn(Empty)'[t] = IF t \in DOMAIN all /\ ~IsPruned(all[t])
                                             THEN all[t] ELSE NoCoins
    <3> HIDE DEF all
    <3>1. DOMAIN cacheCoins' = {}
      BY <2>1 DEF Empty
    <3>2. \A t : t \in DOMAIN coinsDB' <=> t \in DOMAIN all /\ ~IsPruned(all[t])
      BY <2>2
    <3>3. \A t \in DOMAIN coinsDB' : coinsDB'[t] = all[t]
      BY <2>2
    <3> QED BY <3>1, <3>2, <3>3, <1>5
  <2>6. \A t \in Txs : \/ CoinsIn(Empty)'[t] = CoinsIn(v)[t]
                       \/ CoinsIn(Empty)'[t].vout = {} /\ CoinsIn(v)[t].vout = {}
    <3> HIDE DEF all
    <3>1. NoCoins.vout = {}
      BY DEF NoCoins
    <3> QED BY <2>5, <1>3, <3>1 DEF IsPruned
  <2>7. CoinsIn(Empty)' \in [Txs -> CCoins]
    <3>1. \A t \in Txs : CoinsIn(Empty)'[t] \in CCoins
      <4> HIDE DEF all
      <4> QED BY <2>5, <1>2, NoCoinsType DEF IsView
    <3> QED BY <3>1 DEF CoinsIn
  <2> QED BY <2>4, <2>6, <2>7, RepSame
<1> QED BY <1>7, <1>8

\* What the constants are.
LEMMA Constants ==
  /\ Genesis \in Blocks /\ Subsidy \in Nat /\ COINBASE_MATURITY \in Nat
  /\ \A b \in Blocks \ {Genesis} : Prev[b] \in Blocks
BY DataAssumption

\* A new view shows the coins of pcoinsTip.
LEMMA EmptyCoins ==
  ASSUME NEW t
  PROVE  GetCoins(Empty, t) = TipCoins(t)
BY DEF GetCoins, Empty

\* The coins a view shows depend on the view and on pcoinsTip.
LEMMA SameCoinsIn ==
  ASSUME UNCHANGED <<coinsDB, cacheCoins>>
  PROVE  /\ CoinsIn(Empty)' = CoinsIn(Empty)
         /\ UNCHANGED view => CoinsIn(view)' = CoinsIn(view)
BY DEF CoinsIn, GetCoins, TipCoins, Empty

\* An empty chainstate is the replay of the genesis block.
LEMMA InitInv ==
  ASSUME Init
  PROVE  CoinsInv /\ PoolTypes
PROOF
<1> USE DEF Init
<1>1. Types
  BY EmptyView, Constants DEF Types, TipTypes
<1>2. History
  BY DEF History, HistoryOf
<1>3. AtTip
  <2>1. CoinsIn(Empty) = [t \in Txs |-> NoCoins]
    BY DEF CoinsIn, GetCoins, TipCoins, Empty
  <2>2. Utxo[coinsBest] = {}
    BY UtxoFacts
  <2>3. CoinsIn(Empty) \in [Txs -> CCoins]
    BY <2>1, NoCoinsType
  <2>4. \A t \in Txs : CoinsIn(Empty)[t].vout = {}
    BY <2>1 DEF NoCoins
  <2>5. Outs({}) = {}
    BY DEF Outs
  <2> QED BY <2>2, <2>3, <2>4, <2>5 DEF AtTip, Rep
<1>4. Loops
  BY DEF Loops, Idle, Connecting, Disconnecting, Finishing, Elsewhere
<1>5. PoolTypes
  BY DEF PoolTypes
<1> QED BY <1>1, <1>2, <1>3, <1>4, <1>5 DEF CoinsInv

\* CTxMemPool::remove keeps the maps well formed.
LEMMA RemoveTypes ==
  ASSUME PoolTypes, NEW ts, RemoveFromPool(ts)
  PROVE  PoolTypes'
BY DEF PoolTypes, RemoveFromPool

\* CTxMemPool::addUnchecked keeps the maps well formed.
LEMMA AddTypes ==
  ASSUME PoolTypes, NEW tx \in Txs, addUnchecked(tx)
  PROVE  PoolTypes'
PROOF
<1>1. ToSet(Vin[tx]) \in SUBSET OutPoints
  BY ValueInFacts
<1> QED BY <1>1 DEF PoolTypes, addUnchecked

\* So does every step that leaves the pool alone.
LEMMA SamePoolTypes ==
  ASSUME PoolTypes, UNCHANGED poolVars
  PROVE  PoolTypes'
BY DEF PoolTypes, poolVars

\* The pool's maps hold transactions and outpoints.
LEMMA PoolTypesStep ==
  ASSUME Types, PoolTypes, [Next]_vars, Finishing
  PROVE  PoolTypes'
PROOF
<1>1. CASE UNCHANGED vars
  BY <1>1, SamePoolTypes DEF vars
<1>2. ASSUME NEW b \in Blocks \ {Genesis}, AcceptBlock(b) PROVE PoolTypes'
  BY <1>2, SamePoolTypes DEF AcceptBlock
<1>3. ASSUME NEW tx \in Txs, AcceptToMemoryPool(tx) PROVE PoolTypes'
  BY <1>3, SamePoolTypes, AddTypes DEF AcceptToMemoryPool
<1>4. CASE BeginConnect \/ ConnectTx \/ EndConnectBlock \/ FinishConnect \/ ConnectDone
  BY <1>4, SamePoolTypes DEF BeginConnect, ConnectTx, EndConnectBlock, FinishConnect, ConnectDone, ConnectFails
<1>5. CASE RemoveConflicts
  <2>1. RemoveForBlock(Vtx[blk][n])
    BY <1>5 DEF RemoveConflicts
  <2> QED BY <2>1, RemoveTypes DEF RemoveForBlock
<1>6. CASE BeginDisconnect \/ DisconnectTx \/ FinishDisconnect \/ DisconnectDone
  BY <1>6, SamePoolTypes DEF BeginDisconnect, DisconnectTx, FinishDisconnect, DisconnectDone
<1>7. CASE Resurrect
  <2> DEFINE tx == Vtx[blk][n]
  <2>1. tx \in Txs
    BY <1>7, BlockFacts DEF Types, Resurrect, Finishing
  <2>2. \/ UNCHANGED poolVars \/ addUnchecked(tx) \/ RemoveFromPool({tx} \cup Descendants({tx}))
    BY <1>7 DEF Resurrect
  <2> QED BY <2>1, <2>2, SamePoolTypes, AddTypes, RemoveTypes
<1> QED BY <1>1, <1>2, <1>3, <1>4, <1>5, <1>6, <1>7 DEF Next

\* The steps that leave the coins, the call's state and the chain's undo data alone.
LEMMA KeepHistory ==
  ASSUME History, known \subseteq known', UNCHANGED <<undo, tip, coinsBest>>
  PROVE  History'
BY DEF History

\* Coins that do not change still represent the same outputs.
LEMMA KeepAtTip ==
  ASSUME AtTip, UNCHANGED <<coinsDB, cacheCoins, coinsBest>>
  PROVE  AtTip'
BY SameCoinsIn DEF AtTip

\* A call that waits is where it was.
LEMMA KeepLoops ==
  ASSUME Loops, UNCHANGED <<coinsDB, cacheCoins, coinsBest, tip, undo>>, UNCHANGED callVars
  PROVE  Loops'
PROOF
<1>1. CoinsIn(view)' = CoinsIn(view)
  BY SameCoinsIn DEF callVars
<1>2. UNCHANGED <<pc, blk, n, view, blockundo, nFees, coinsBest, tip, undo>>
  BY DEF callVars
<1> QED BY <1>1, <1>2 DEF Loops, Idle, Connecting, Disconnecting, Finishing, Elsewhere

\* Types, when only the loop counts.
LEMMA KeepTypes ==
  ASSUME Types, UNCHANGED chainVars, UNCHANGED coinVars, UNCHANGED <<blk, view, nFees>>,
         n' \in Nat, pc' \in {"idle", "connect", "connected", "conflicts", "disconnect", "resurrect", "mining", "reaccept", "rescan", "down"}
  PROVE  Types'
BY DEF Types, TipTypes, chainVars, coinVars

\* A step of the pool alone.
LEMMA StutterStep ==
  ASSUME CoinsInv, UNCHANGED <<chainVars, coinVars, callVars>>
  PROVE  CoinsInv'
PROOF
<1>1. Types'
  BY KeepTypes DEF CoinsInv, callVars, Types
<1>2. History' /\ AtTip' /\ Loops'
  BY KeepHistory, KeepAtTip, KeepLoops DEF CoinsInv, chainVars, coinVars
<1> QED BY <1>1, <1>2 DEF CoinsInv

\* A new block in the index.
LEMMA AcceptBlockStep ==
  ASSUME CoinsInv, NEW b \in Blocks \ {Genesis}, AcceptBlock(b)
  PROVE  CoinsInv'
PROOF
<1>1. UNCHANGED <<failed, tip, coinsDB, cacheCoins, coinsBest, undo, callVars>>
  BY DEF AcceptBlock, coinVars
<1>2. known' = known \cup {b} /\ Prev[b] \in known /\ target' \in known \cup {b}
  BY DEF AcceptBlock, CoinsInv, Types
<1>3. Types'
  BY <1>1, <1>2 DEF CoinsInv, Types, TipTypes, callVars
<1>4. History' /\ AtTip' /\ Loops'
  BY <1>1, <1>2, KeepHistory, KeepAtTip, KeepLoops DEF CoinsInv
<1> QED BY <1>3, <1>4 DEF CoinsInv

\* InvalidBlockFound: the temporary view is dropped.
LEMMA FailsStep ==
  ASSUME CoinsInv, NEW b \in known, ConnectFails(b), coinsBest = tip
  PROVE  CoinsInv'
PROOF
<1>1. UNCHANGED <<known, tip, coinsDB, cacheCoins, coinsBest, undo>>
  BY DEF ConnectFails, coinVars
<1>2. /\ blk' = b /\ failed' = failed \cup {b} /\ target' \in known /\ pc' = "idle"
      /\ n' = 0 /\ view' = Empty /\ blockundo' = <<>> /\ nFees' = 0
  BY DEF ConnectFails, EndCall, Best
<1>3. Types'
  BY <1>1, <1>2, EmptyView DEF CoinsInv, Types, TipTypes
<1>4. History' /\ AtTip'
  BY <1>1, KeepHistory, KeepAtTip DEF CoinsInv
<1>5. Loops'
  BY <1>1, <1>2 DEF Loops, Idle, Connecting, Disconnecting, Finishing, Elsewhere
<1> QED BY <1>3, <1>4, <1>5 DEF CoinsInv

\* The blocks the pointers name, and the money of their chains.
LEMMA TipFacts ==
  ASSUME Types, History
  PROVE  /\ known \in SUBSET Blocks /\ PrevClosed(known)
         /\ tip \in Blocks /\ blk \in Blocks /\ coinsBest \in Blocks /\ target \in Blocks
         /\ Amount(Outs(Utxo[tip])) <= Subsidy * Height[tip]
         /\ Amount(Outs(Utxo[coinsBest])) <= Subsidy * Height[coinsBest]
PROOF
<1>1. known \in SUBSET Blocks /\ PrevClosed(known)
  BY DEF Types, PrevClosed
<1>2. tip \in Blocks /\ blk \in Blocks /\ coinsBest \in Blocks /\ target \in Blocks
  BY DEF Types
<1>3. Amount(Outs(Utxo[Genesis])) <= Subsidy * Height[Genesis]
  <2>1. Utxo[Genesis] = {} /\ Outs({}) = {}
    BY UtxoFacts DEF Outs
  <2>2. Amount({}) = 0 /\ Height[Genesis] = 0 /\ Subsidy \in Nat
    BY AmountFacts, HeightFacts, Constants
  <2>3. Subsidy * 0 = 0
    BY <2>2
  <2> QED BY <2>1, <2>2, <2>3
<1>4. \A b \in DOMAIN undo \cup {Genesis} : Amount(Outs(Utxo[b])) <= Subsidy * Height[b]
  BY <1>3 DEF History, HistoryOf
<1>5. tip \in DOMAIN undo \cup {Genesis} /\ coinsBest \in DOMAIN undo \cup {Genesis}
  BY DEF History
<1> QED BY <1>1, <1>2, <1>4, <1>5

\* The check that no transaction replaces an unspent one makes the block fresh.
LEMMA BeginConnectStep ==
  ASSUME CoinsInv, BeginConnect
  PROVE  CoinsInv'
PROOF
<1>1. pc = "idle" /\ coinsBest = tip /\ view = Empty /\ blockundo = <<>> /\ nFees = 0
  BY DEF BeginConnect, CoinsInv, Loops, Idle
<1>2. PICK b \in Chain[target] \ {Genesis} :
        /\ Prev[b] = tip
        /\ IF \E t \in ToSet(Vtx[b]) : ~IsPruned(TipCoins(t))
           THEN ConnectFails(b)
           ELSE /\ pc' = "connect" /\ blk' = b /\ n' = 1
                /\ UNCHANGED <<view, blockundo, nFees, chainVars, coinVars, poolVars>>
  BY DEF BeginConnect
<1>3. Types /\ History /\ AtTip
  BY DEF CoinsInv
<1>4. b \in known /\ b \in Blocks \ {Genesis}
  <2>1. target \in known
    BY <1>3 DEF Types
  <2> QED BY <2>1, <1>2, <1>3, TipFacts, ChainKnown
<1>5. CASE ConnectFails(b)
  BY <1>1, <1>4, <1>5, FailsStep
<1>6. CASE /\ \A t \in ToSet(Vtx[b]) : IsPruned(TipCoins(t))
           /\ pc' = "connect" /\ blk' = b /\ n' = 1
           /\ UNCHANGED <<view, blockundo, nFees, chainVars, coinVars, poolVars>>
  <2>1. UNCHANGED <<known, failed, target, tip, coinsDB, cacheCoins, coinsBest, undo, view, blockundo, nFees>>
    BY <1>6 DEF chainVars, coinVars
  <2>2. Rep(CoinsIn(Empty), Utxo[tip])
    BY <1>1, <1>3 DEF AtTip
  <2>3. Fresh(b)
    <3> SUFFICES ASSUME NEW u \in Utxo[tip], u.out[1] \in ToSet(Vtx[b]) PROVE FALSE
      BY <1>2 DEF Fresh
    <3>1. Utxo[tip] \in SUBSET Records
      BY <2>2 DEF Rep
    <3>2. u.out[1] \in Txs
      BY <3>1, RecordFacts
    <3>3. ~IsPruned(CoinsIn(Empty)[u.out[1]])
      BY <2>2, <3>2, RepPruned
    <3> QED BY <3>2, <3>3, <1>6, EmptyCoins DEF CoinsIn
  <2>4. Uniform(Utxo[tip])
    BY <2>2, RepUniform
  <2>5. Applied(b, 0, <<>>)
    BY <2>3, <2>4, <1>2, <1>4, AppliedStart
  <2>6. Part(b, 0) = Utxo[tip]
    BY <1>2, <1>4, PartStart
  <2>7. Types' /\ History' /\ AtTip'
    <3>1. Types'
      BY <2>1, <1>3, <1>4, <1>6 DEF Types, TipTypes
    <3> QED BY <3>1, <1>3, <2>1, KeepHistory, KeepAtTip
  <2>8. CoinsIn(view)' = CoinsIn(Empty)
    BY <2>1, <1>1, SameCoinsIn
  <2>9. Amount(Outs(Utxo[tip])) \in Nat
    <3>1. Utxo[tip] \in SUBSET Records
      BY <2>2 DEF Rep
    <3> QED BY <3>1, OutsFacts
  <2>10. Connecting'
    <3>1. Len(Vtx[b]) \in Nat \ {0}
      BY <1>4, BlockFacts
    <3>2. n' = 1 /\ n' - 1 = 0 /\ blk' = b /\ tip' = tip /\ coinsBest' = tip /\ blockundo' = <<>> /\ nFees' = 0
      BY <1>6, <2>1, <1>1
    <3>3. n' \in 1..(Len(Vtx[b]) + 1)
      BY <3>1, <3>2
    <3>4. Rep(CoinsIn(view)', Part(b, 0))
      BY <2>2, <2>6, <2>8
    <3>5. Amount(Outs(Part(b, 0))) + nFees' <= Amount(Outs(Utxo[tip])) + 0
      BY <2>6, <2>9, <3>2
    <3> QED BY <1>2, <1>4, <3>2, <3>3, <3>4, <3>5, <2>5 DEF Connecting
  <2>11. Loops'
    BY <1>6, <2>10 DEF Loops, Idle, Disconnecting, Finishing, Elsewhere
  <2> QED BY <2>7, <2>11 DEF CoinsInv
<1> QED BY <1>2, <1>5, <1>6

\* CheckInputs finds every input among the unspent outputs.
LEMMA CheckedInputs ==
  ASSUME NEW C, NEW U, Rep(C, U), NEW tx \in Txs, NEW ht,
         NEW coins, \A t \in InputTxs(tx) : coins[t] = C[t], CheckInputs(coins, tx, ht)
  PROVE  ToSet(Vin[tx]) \subseteq Outs(U)
PROOF
<1> SUFFICES ASSUME NEW o \in ToSet(Vin[tx]) PROVE o \in Outs(U)
  OBVIOUS
<1>1. o \in OutPoints
  BY ValueInFacts
<1>2. o = <<o[1], o[2]>> /\ o[1] \in Txs /\ o[2] \in Nat
  BY <1>1, OutPointFacts
<1>3. o[1] \in InputTxs(tx)
  BY DEF InputTxs
<1>4. IsAvailable(coins[o[1]], o[2])
  BY DEF CheckInputs
<1>5. o[2] \in C[o[1]].vout
  BY <1>3, <1>4 DEF IsAvailable
<1> QED BY <1>2, <1>5 DEF Rep

\* The inputs of one more transaction.
LEMMA AvailableStep ==
  ASSUME NEW b \in Blocks \ {Genesis}, NEW k \in 1..Len(Vtx[b]), Available(b, k - 1),
         ToSet(Vin[Vtx[b][k]]) \subseteq Outs(Part(b, k - 1))
  PROVE  Available(b, k)
PROOF
<1>1. Len(Vtx[b]) \in Nat
  BY BlockFacts
<1>2. \A i \in 1..k : i = k \/ i \in 1..(k - 1)
  BY <1>1
<1> QED BY <1>2 DEF Available

\* A transaction that passes CheckInputs is spent and made in the view.
LEMMA ConnectTxStep ==
  ASSUME CoinsInv, ConnectTx
  PROVE  CoinsInv'
PROOF
<1> DEFINE b == blk
           tx == Vtx[blk][n]
           U == Part(blk, n - 1)
           coins == [t \in InputTxs(tx) |-> GetCoins(view, t)]
           new == UpdateCoins(view, tx, Height[blk])
<1>1. Types /\ History /\ AtTip /\ Connecting /\ pc = "connect" /\ n <= Len(Vtx[blk])
  BY DEF CoinsInv, ConnectTx, Loops
<1>2. /\ coinsBest = tip /\ blk # Genesis /\ Prev[blk] = tip /\ n \in 1..(Len(Vtx[blk]) + 1)
      /\ Rep(CoinsIn(view), U) /\ Applied(blk, n - 1, blockundo)
      /\ Amount(Outs(U)) + nFees <= Amount(Outs(Utxo[tip])) + (IF n = 1 THEN 0 ELSE ValueOut(Vtx[blk][1]))
  BY <1>1 DEF Connecting
<1>3. /\ blk \in Blocks \ {Genesis} /\ blk \in known /\ TipTypes /\ view \in Views /\ nFees \in Nat
      /\ tip \in Blocks
  BY <1>1, <1>2, TipFacts DEF Types
<1>4. Len(Vtx[blk]) \in Nat /\ n \in 1..Len(Vtx[blk]) /\ n - 1 \in 0..Len(Vtx[blk]) /\ n \in 0..Len(Vtx[blk])
      /\ n \in Nat /\ n + 1 \in Nat
  BY <1>1, <1>2, <1>3, BlockFacts
<1>5. tx \in Txs /\ (tx \in CoinBases <=> n = 1) /\ Height[blk] \in Nat
  BY <1>3, <1>4, BlockFacts
<1>6. CASE n > 1 /\ ~CheckInputs(coins, tx, Height[blk])
  <2>1. ConnectFails(blk)
    BY <1>6 DEF ConnectTx
  <2> QED BY <2>1, <1>2, <1>3, FailsStep
<1>7. CASE ~(n > 1 /\ ~CheckInputs(coins, tx, Height[blk]))
  <2>1. /\ view' = new.view
        /\ blockundo' = IF n > 1 THEN Append(blockundo, new.undo) ELSE blockundo
        /\ nFees' = IF n > 1 THEN nFees + ValueIn(tx) - ValueOut(tx) ELSE nFees
        /\ n' = n + 1
        /\ UNCHANGED <<pc, blk, chainVars, coinVars, poolVars>>
    BY <1>7 DEF ConnectTx
  <2>2. UNCHANGED <<pc, blk, known, failed, target, tip, coinsDB, cacheCoins, coinsBest, undo>>
    BY <2>1 DEF chainVars, coinVars
  <2>3. ToSet(Vin[tx]) \subseteq Outs(U)
    <3>1. CASE n = 1
      <4>1. ToSet(Vin[tx]) = {}
        <5> HIDE DEF tx
        <5>1. Len(Vin[tx]) = 0
          BY <1>5, <3>1, InputFacts
        <5>2. \A i \in 1..Len(Vin[tx]) : FALSE
          BY <5>1
        <5>3. ToSet(Vin[tx]) = {Vin[tx][i] : i \in 1..Len(Vin[tx])}
          BY <1>5, InputFacts
        <5> QED BY <5>2, <5>3
      <4> QED BY <4>1
    <3>2. CASE n # 1
      <4>1. CheckInputs(coins, tx, Height[blk])
        BY <1>4, <1>7, <3>2
      <4>2. InputTxs(tx) \subseteq Txs
        <5>1. ToSet(Vin[tx]) \in SUBSET OutPoints
          BY <1>5, ValueInFacts
        <5> QED BY <5>1, OutPointFacts DEF InputTxs
      <4>3. \A t \in InputTxs(tx) : coins[t] = CoinsIn(view)[t]
        <5> HIDE DEF tx
        <5>1. \A t \in Txs : CoinsIn(view)[t] = GetCoins(view, t)
          BY DEF CoinsIn
        <5>2. \A t \in InputTxs(tx) : coins[t] = GetCoins(view, t)
          OBVIOUS
        <5> QED BY <5>1, <5>2, <4>2
      <4> HIDE DEF coins, tx, U
      <4> QED BY <4>1, <4>3, <1>2, <1>5, CheckedInputs
    <3> QED BY <3>1, <3>2
  <2>4. Fresh(blk) /\ Available(blk, n - 1)
    BY <1>2 DEF Applied
  <2>5. Available(blk, n)
    BY <2>3, <2>4, <1>3, <1>4, AvailableStep
  <2>6. /\ Part(blk, n) = Minus(U, ToSet(Vin[tx])) \cup MadeBy(tx, Height[blk])
        /\ \A u \in U : u.out[1] # tx
    BY <2>4, <2>5, <1>3, <1>4, PartStep
  <2>7. /\ new.view \in Views
        /\ Rep(CoinsIn(new.view), Part(blk, n))
        /\ UndoOK(U, tx, new.undo)
    <3> HIDE DEF tx, U
    <3>1. /\ UpdateCoins(view, tx, Height[blk]).view \in Views
          /\ Rep(CoinsIn(UpdateCoins(view, tx, Height[blk]).view), Minus(U, ToSet(Vin[tx])) \cup MadeBy(tx, Height[blk]))
          /\ UndoOK(U, tx, UpdateCoins(view, tx, Height[blk]).undo)
      BY <1>2, <1>3, <1>5, <2>3, <2>6, SpendingIsExact
    <3> QED BY <3>1, <2>6
  <2>8. CoinsIn(view)' = CoinsIn(new.view)
    <3> HIDE DEF new
    <3> QED BY <2>1, <2>2 DEF CoinsIn, GetCoins, TipCoins
  <2>9. Applied(blk, n, blockundo')
    <3>1. Uniform(Part(blk, n))
      BY <2>7, RepUniform
    <3>2. /\ n > 1 => Applied(blk, n, Append(blockundo, new.undo))
          /\ n = 1 => Applied(blk, n, blockundo)
      <4> HIDE DEF new
      <4> QED BY <3>1, <2>3, <2>7, <1>2, <1>3, <1>4, AppliedStep
    <3> HIDE DEF new
    <3> QED BY <3>2, <2>1, <1>4
  <2>10. /\ U \in SUBSET Records /\ Part(blk, n) \in SUBSET Records
         /\ Amount(Outs(U)) \in Nat /\ Amount(Outs(Part(blk, n))) \in Nat
         /\ Utxo[tip] \in SUBSET Records /\ Amount(Outs(Utxo[tip])) \in Nat
         /\ ValueIn(tx) \in Nat /\ ValueOut(tx) \in Nat /\ ValueOut(Vtx[blk][1]) \in Nat
    <3>1. U \in SUBSET Records /\ Part(blk, n) \in SUBSET Records
      BY <1>3, <1>4, PartTypes
    <3>2. Utxo[tip] \in SUBSET Records
      BY <1>3, UtxoFacts
    <3>3. Vtx[blk][1] \in Txs
      BY <1>3, <1>4, BlockFacts
    <3>4. ValueIn(tx) \in Nat
      BY <1>5, ValueInFacts, AmountFacts
    <3> HIDE DEF U, tx
    <3> QED BY <3>1, <3>2, <3>3, <3>4, <1>5, OutsFacts, ValueOutFacts
  <2>11. Amount(Outs(Part(blk, n))) + ValueIn(tx) <= Amount(Outs(U)) + ValueOut(tx)
    <3> HIDE DEF U, tx
    <3> QED BY <2>3, <2>6, <2>10, <1>5, AmountStep
  <2>12. nFees' \in Nat /\ Amount(Outs(Part(blk, n))) + nFees' <= Amount(Outs(Utxo[tip])) + ValueOut(Vtx[blk][1])
    <3>1. CASE n = 1
      <4>1. nFees' = nFees /\ tx = Vtx[blk][1]
        BY <2>1, <3>1
      <4> HIDE DEF U, tx, new
      <4> QED BY <4>1, <3>1, <2>10, <2>11, <1>2, <1>3
    <3>2. CASE n # 1
      <4>1. nFees' = nFees + ValueIn(tx) - ValueOut(tx)
        BY <2>1, <1>4, <3>2
      <4>2. ValueIn(tx) >= ValueOut(tx)
        BY <1>4, <1>7, <3>2 DEF CheckInputs
      <4>3. Amount(Outs(U)) + nFees <= Amount(Outs(Utxo[tip])) + ValueOut(Vtx[blk][1])
        BY <1>2, <3>2
      <4> HIDE DEF U, tx, new, coins
      <4> QED BY <4>1, <4>2, <4>3, <2>10, <2>11, <1>3
    <3> QED BY <3>1, <3>2
  <2>13. Types'
    <3> HIDE DEF new
    <3> QED BY <2>1, <2>2, <2>7, <2>12, <1>1, <1>4 DEF Types, TipTypes
  <2>14. History' /\ AtTip'
    BY <2>2, <1>1, KeepHistory, KeepAtTip
  <2>15. Connecting'
    <3>1. n' \in 1..(Len(Vtx[blk]) + 1) /\ n' - 1 = n /\ n' # 1
      BY <2>1, <1>4
    <3>2. Rep(CoinsIn(view)', Part(blk, n))
      BY <2>7, <2>8
    <3> HIDE DEF new, U, tx, coins
    <3> QED BY <3>1, <3>2, <2>2, <2>9, <2>12, <1>2 DEF Connecting
  <2>16. Loops'
    BY <2>2, <2>15, <1>1 DEF Loops, Idle, Disconnecting, Finishing, Elsewhere
  <2> QED BY <2>13, <2>14, <2>16 DEF CoinsInv
<1> QED BY <1>6, <1>7

\* The coinbase takes no more than it may, and the undo data leads back.
LEMMA EndConnectBlockStep ==
  ASSUME CoinsInv, EndConnectBlock
  PROVE  CoinsInv'
PROOF
<1> DEFINE m == Len(Vtx[blk])
<1>1. Types /\ History /\ AtTip /\ Connecting /\ pc = "connect" /\ n > m
  BY DEF CoinsInv, EndConnectBlock, Loops
<1>2. /\ coinsBest = tip /\ blk # Genesis /\ Prev[blk] = tip /\ n \in 1..(m + 1)
      /\ Rep(CoinsIn(view), Part(blk, n - 1)) /\ Applied(blk, n - 1, blockundo)
      /\ Amount(Outs(Part(blk, n - 1))) + nFees <= Amount(Outs(Utxo[tip])) + (IF n = 1 THEN 0 ELSE ValueOut(Vtx[blk][1]))
  BY <1>1 DEF Connecting
<1>3. /\ blk \in Blocks \ {Genesis} /\ blk \in known /\ TipTypes /\ view \in Views /\ nFees \in Nat
      /\ tip \in Blocks
  BY <1>1, <1>2, TipFacts DEF Types
<1>4. m \in Nat \ {0} /\ n = m + 1 /\ n - 1 = m /\ n # 1
  BY <1>1, <1>2, <1>3, BlockFacts
<1>5. Utxo[blk] = Part(blk, m)
  BY <1>3, UtxoFacts
<1>6. CASE PaysTooMuch(blk, nFees)
  <2>1. ConnectFails(blk)
    BY <1>6 DEF EndConnectBlock
  <2> QED BY <2>1, <1>2, <1>3, FailsStep
<1>7. CASE ~PaysTooMuch(blk, nFees)
  <2>1. /\ undo' = IF blk \in DOMAIN undo THEN undo
                   ELSE [b \in DOMAIN undo \cup {blk} |-> IF b = blk THEN blockundo ELSE undo[b]]
        /\ pc' = "connected"
        /\ UNCHANGED <<blk, n, view, nFees, coinsDB, cacheCoins, coinsBest, known, failed, target, tip>>
    BY <1>7 DEF EndConnectBlock, chainVars
  <2>2. Rep(CoinsIn(view), Utxo[blk]) /\ Applied(blk, m, blockundo)
    BY <1>2, <1>4, <1>5
  <2>3. Rep(CoinsIn(view)', Utxo[blk])
    BY <2>1, <2>2, SameCoinsIn
  <2>4. Amount(Outs(Utxo[blk])) <= Subsidy * Height[blk]
    <3>1. Utxo[tip] \in SUBSET Records /\ Utxo[blk] \in SUBSET Records
      BY <1>3, UtxoFacts
    <3>2. Amount(Outs(Utxo[tip])) \in Nat /\ Amount(Outs(Utxo[blk])) \in Nat
      BY <3>1, OutsFacts
    <3>3. Amount(Outs(Utxo[blk])) + nFees <= Amount(Outs(Utxo[tip])) + ValueOut(Vtx[blk][1])
      BY <1>2, <1>4, <1>5
    <3>4. Vtx[blk][1] \in Txs
      BY <1>3, <1>4, BlockFacts
    <3>5. ValueOut(Vtx[blk][1]) \in Nat
      BY <3>4, ValueOutFacts
    <3>6. ValueOut(Vtx[blk][1]) <= Subsidy + nFees
      BY <1>7, <1>3, <3>5, Constants DEF PaysTooMuch
    <3>7. Amount(Outs(Utxo[tip])) <= Subsidy * Height[tip]
      BY <1>1, TipFacts
    <3>8. Height[blk] = Height[tip] + 1 /\ Height[tip] \in Nat
      BY <1>2, <1>3, HeightFacts
    <3>9. Subsidy * Height[blk] = Subsidy * Height[tip] + Subsidy /\ Subsidy * Height[tip] \in Nat
      BY <3>8, Constants
    <3> QED BY <3>2, <3>3, <3>5, <3>6, <3>7, <3>9, <1>3, Constants
  <2>5. /\ DOMAIN undo' = DOMAIN undo \cup {blk}
        /\ \A b \in DOMAIN undo : undo'[b] = undo[b]
        /\ blk \notin DOMAIN undo => undo'[blk] = blockundo
    BY <2>1
  <2>6. HistoryOf(undo) /\ tip \in DOMAIN undo \cup {Genesis} /\ DOMAIN undo \subseteq known
    BY <1>1 DEF History
  <2>7. HistoryOf(undo')
    <3>1. DOMAIN undo' \subseteq Blocks \ {Genesis}
      BY <2>5, <2>6, <1>3 DEF HistoryOf
    <3>2. ASSUME NEW b \in DOMAIN undo
          PROVE  /\ Prev[b] \in DOMAIN undo' \cup {Genesis}
                 /\ Applied(b, Len(Vtx[b]), undo'[b])
                 /\ Amount(Outs(Utxo[b])) <= Subsidy * Height[b]
      <4>1. /\ Prev[b] \in DOMAIN undo \cup {Genesis}
            /\ Applied(b, Len(Vtx[b]), undo[b])
            /\ Amount(Outs(Utxo[b])) <= Subsidy * Height[b]
        BY <2>6 DEF HistoryOf
      <4> QED BY <4>1, <2>5
    <3>3. blk \notin DOMAIN undo => /\ Prev[blk] \in DOMAIN undo' \cup {Genesis}
                                    /\ Applied(blk, Len(Vtx[blk]), undo'[blk])
                                    /\ Amount(Outs(Utxo[blk])) <= Subsidy * Height[blk]
      BY <2>2, <2>4, <2>5, <2>6, <1>2
    <3> QED BY <3>1, <3>2, <3>3, <2>5 DEF HistoryOf
  <2>8. History'
    <3>1. coinsBest' = tip' /\ tip' \in DOMAIN undo' \cup {Genesis} /\ DOMAIN undo' \subseteq known'
      BY <2>1, <2>5, <2>6, <1>2, <1>3
    <3> QED BY <3>1, <2>7 DEF History, HistoryOf
  <2>9. AtTip'
    BY <2>1, <1>1, KeepAtTip
  <2>10. Types'
    BY <2>1, <1>1 DEF Types, TipTypes
  <2>11. Loops'
    BY <2>1, <2>3, <2>5, <1>2 DEF Loops, Idle, Connecting, Disconnecting, Finishing, Elsewhere
  <2> QED BY <2>8, <2>9, <2>10, <2>11 DEF CoinsInv
<1> QED BY <1>6, <1>7

\* What the view holds becomes the chainstate.
LEMMA FinishConnectStep ==
  ASSUME CoinsInv, FinishConnect
  PROVE  CoinsInv'
PROOF
<1>1. Types /\ History /\ AtTip /\ blk \in DOMAIN undo /\ Rep(CoinsIn(view), Utxo[blk])
  BY DEF CoinsInv, FinishConnect, Loops, Finishing
<1>2. blk \in Blocks /\ TipTypes /\ view \in Views
  BY <1>1 DEF Types, History, HistoryOf
<1>3. /\ WriteChainState(Overlay(cacheCoins, view)) /\ coinsBest' = blk /\ pc' = "conflicts" /\ n' = 1
      /\ view' = Empty /\ blockundo' = <<>> /\ nFees' = 0 /\ UNCHANGED <<blk, undo, known, failed, target, tip>>
  BY DEF FinishConnect, chainVars
<1>4. TipTypes' /\ Rep(CoinsIn(Empty)', Utxo[blk])
  BY <1>1, <1>2, <1>3, WriteRep
<1>5. History' /\ AtTip'
  BY <1>1, <1>3, <1>4 DEF History, AtTip
<1>6. Types'
  BY <1>1, <1>3, <1>4, EmptyView DEF Types
<1>7. Loops'
  BY <1>3 DEF Loops, Idle, Connecting, Disconnecting, Finishing, Elsewhere
<1> QED BY <1>5, <1>6, <1>7 DEF CoinsInv

\* The loops over the pool count, and leave the coins alone.
LEMMA PoolLoopStep ==
  ASSUME CoinsInv, RemoveConflicts \/ Resurrect
  PROVE  CoinsInv'
PROOF
<1>1. n' = n + 1 /\ UNCHANGED <<pc, blk, view, blockundo, nFees, chainVars, coinVars>>
  BY DEF RemoveConflicts, Resurrect
<1>2. pc \in {"conflicts", "resurrect"}
  BY DEF RemoveConflicts, Resurrect
<1>3. UNCHANGED <<pc, blk, view, blockundo, nFees, known, failed, target, tip, coinsDB, cacheCoins, coinsBest, undo>>
  BY <1>1 DEF chainVars, coinVars
<1>4. Types'
  BY <1>1, <1>2, KeepTypes DEF CoinsInv, Types
<1>5. History' /\ AtTip'
  BY <1>3, KeepHistory, KeepAtTip DEF CoinsInv
<1>6. n' # 0
  BY <1>1 DEF CoinsInv, Types
<1>7. Loops'
  BY <1>2, <1>3, <1>6 DEF CoinsInv, Loops, Idle, Connecting, Disconnecting, Finishing, Elsewhere
<1> QED BY <1>4, <1>5, <1>7 DEF CoinsInv

\* chainActive follows pcoinsTip at the end of ConnectTip and of DisconnectTip.
LEMMA DoneStep ==
  ASSUME CoinsInv, ConnectDone \/ DisconnectDone
  PROVE  CoinsInv'
PROOF
<1>1. /\ tip' = coinsBest /\ pc' = "idle"
      /\ n' = 0 /\ view' = Empty /\ blockundo' = <<>> /\ nFees' = 0
      /\ UNCHANGED <<blk, known, failed, target, coinsDB, cacheCoins, coinsBest, undo>>
  BY DEF ConnectDone, DisconnectDone, EndCall, coinVars, CoinsInv, Loops, Finishing, Elsewhere
<1>2. Types'
  BY <1>1, EmptyView DEF CoinsInv, Types, TipTypes
<1>3. AtTip'
  BY <1>1, KeepAtTip DEF CoinsInv
<1>4. History'
  BY <1>1 DEF CoinsInv, History
<1>5. Loops'
  BY <1>1 DEF Loops, Idle, Connecting, Disconnecting, Finishing, Elsewhere
<1> QED BY <1>2, <1>3, <1>4, <1>5 DEF CoinsInv

\* DisconnectBlock starts from the coins its block left.
LEMMA BeginDisconnectStep ==
  ASSUME CoinsInv, BeginDisconnect
  PROVE  CoinsInv'
PROOF
<1>1. Types /\ History /\ AtTip /\ Idle
  BY DEF CoinsInv, Loops
<1>2. pc = "idle" /\ coinsBest = tip /\ view = Empty /\ tip \notin Chain[target]
  BY <1>1 DEF BeginDisconnect, Idle
<1>3. /\ pc' = "disconnect" /\ blk' = tip /\ n' = Len(Vtx[tip])
      /\ UNCHANGED <<view, blockundo, nFees, known, failed, target, tip, coinsDB, cacheCoins, coinsBest, undo>>
  BY DEF BeginDisconnect, chainVars, coinVars
<1>4. tip \in Blocks \ {Genesis} /\ tip \in known
  BY <1>1, <1>2, TipFacts, ChainGenesis DEF Types
<1>5. Len(Vtx[tip]) \in Nat /\ n' \in Nat /\ n' \in 0..Len(Vtx[tip])
  BY <1>3, <1>4, BlockFacts
<1>6. Types'
  BY <1>1, <1>3, <1>4, <1>5 DEF Types, TipTypes
<1>7. History' /\ AtTip'
  BY <1>1, <1>3, KeepHistory, KeepAtTip
<1>8. CoinsIn(view)' = CoinsIn(Empty)
  BY <1>2, <1>3, SameCoinsIn
<1>9. Rep(CoinsIn(view)', Part(tip, Len(Vtx[tip])))
  BY <1>1, <1>2, <1>4, <1>8, UtxoFacts DEF AtTip
<1>10. Disconnecting'
  BY <1>2, <1>3, <1>4, <1>5, <1>9 DEF Disconnecting
<1>11. Loops'
  BY <1>3, <1>10 DEF Loops, Idle, Connecting, Finishing, Elsewhere
<1> QED BY <1>6, <1>7, <1>11 DEF CoinsInv

\* The undo data on disk is that of this block, so the coins before the transaction return.
LEMMA DisconnectTxStep ==
  ASSUME CoinsInv, DisconnectTx
  PROVE  CoinsInv'
PROOF
<1> DEFINE tx == Vtx[blk][n]
           U == Part(blk, n - 1)
           u == IF n > 1 THEN undo[blk][n - 1] ELSE <<>>
           new == UndoTx(view, tx, Height[blk], u)
<1>1. Types /\ History /\ AtTip /\ Disconnecting /\ pc = "disconnect" /\ n >= 1
  BY DEF CoinsInv, DisconnectTx, Loops
<1>2. /\ coinsBest = tip /\ blk = tip /\ blk # Genesis /\ n \in 0..Len(Vtx[blk])
      /\ Rep(CoinsIn(view), Part(blk, n))
  BY <1>1 DEF Disconnecting
<1>3. blk \in Blocks \ {Genesis} /\ blk \in known /\ TipTypes /\ view \in Views
  BY <1>1, <1>2, TipFacts DEF Types
<1>4. Len(Vtx[blk]) \in Nat /\ n \in 1..Len(Vtx[blk]) /\ n - 1 \in 0..Len(Vtx[blk]) /\ n - 1 \in Nat
  BY <1>1, <1>2, <1>3, BlockFacts
<1>5. tx \in Txs /\ (tx \in CoinBases <=> n = 1) /\ Height[blk] \in Nat
  BY <1>3, <1>4, BlockFacts
<1>6. Applied(blk, Len(Vtx[blk]), undo[blk])
  <2>1. blk \in DOMAIN undo
    BY <1>1, <1>2 DEF History
  <2> QED BY <2>1, <1>1 DEF History, HistoryOf
<1>7. /\ Fresh(blk) /\ Available(blk, n) /\ Uniform(U) /\ ToSet(Vin[tx]) \subseteq Outs(U)
  <2>1. /\ Fresh(blk) /\ Available(blk, Len(Vtx[blk])) /\ \A i \in 0..Len(Vtx[blk]) : Uniform(Part(blk, i))
    BY <1>6 DEF Applied
  <2>2. \A i \in 1..n : i \in 1..Len(Vtx[blk])
    BY <1>4
  <2>3. Available(blk, n)
    BY <2>1, <2>2 DEF Available
  <2>4. Uniform(U)
    BY <2>1, <1>4
  <2>5. ToSet(Vin[tx]) \subseteq Outs(U)
    BY <2>1, <1>4 DEF Available
  <2> QED BY <2>1, <2>3, <2>4, <2>5
<1>8. UndoOK(U, tx, u)
  <2>1. CASE n = 1
    <3> HIDE DEF tx, U
    <3>1. Len(Vin[tx]) = 0
      BY <1>5, <2>1, InputFacts
    <3>2. u = <<>> /\ \A j \in 1..0 : FALSE
      BY <2>1
    <3> HIDE DEF u
    <3>3. u \in Seq(UndoRecord) /\ Len(u) = 0
      BY <3>2
    <3> QED BY <3>1, <3>2, <3>3 DEF UndoOK
  <2>2. CASE n # 1
    <3>1. n \in 2..Len(Vtx[blk]) /\ u = undo[blk][n - 1]
      BY <2>2, <1>4
    <3>2. UndoOK(Part(blk, n - 1), Vtx[blk][n], undo[blk][n - 1])
      BY <3>1, <1>6 DEF Applied
    <3> QED BY <3>1, <3>2
  <2> QED BY <2>1, <2>2
<1>9. /\ Part(blk, n) = Minus(U, ToSet(Vin[tx])) \cup MadeBy(tx, Height[blk])
      /\ \A w \in U : w.out[1] # tx
  BY <1>3, <1>4, <1>7, PartStep
<1>10. U \in SUBSET Records /\ \A w \in U : w.nHeight # 0
  BY <1>3, <1>4, PartTypes, PartHeights
<1>11. new.view \in Views /\ new.fClean /\ Rep(CoinsIn(new.view), U)
  <2> HIDE DEF tx, U, u
  <2>1. Rep(CoinsIn(view), Minus(U, ToSet(Vin[tx])) \cup MadeBy(tx, Height[blk]))
    BY <1>2, <1>9
  <2> QED BY <2>1, <1>3, <1>5, <1>7, <1>8, <1>9, <1>10, UndoRestores
<1>12. /\ view' = new.view /\ n' = n - 1
       /\ UNCHANGED <<pc, blk, blockundo, nFees, known, failed, target, tip, coinsDB, cacheCoins, coinsBest, undo>>
  BY <1>11 DEF DisconnectTx, chainVars, coinVars
<1>13. Types'
  <2> HIDE DEF new
  <2> QED BY <1>1, <1>4, <1>11, <1>12 DEF Types, TipTypes
<1>14. History' /\ AtTip'
  BY <1>1, <1>12, KeepHistory, KeepAtTip
<1>15. CoinsIn(view)' = CoinsIn(new.view)
  <2> HIDE DEF new
  <2> QED BY <1>12 DEF CoinsIn, GetCoins, TipCoins
<1>16. Disconnecting'
  <2> HIDE DEF new
  <2> QED BY <1>2, <1>4, <1>11, <1>12, <1>15 DEF Disconnecting
<1>17. Loops'
  BY <1>1, <1>12, <1>16 DEF Loops, Idle, Connecting, Finishing, Elsewhere
<1> QED BY <1>13, <1>14, <1>17 DEF CoinsInv

\* Before the first transaction the view is the replay of the parent.
LEMMA FinishDisconnectStep ==
  ASSUME CoinsInv, FinishDisconnect
  PROVE  CoinsInv'
PROOF
<1>1. Types /\ History /\ AtTip /\ Disconnecting /\ pc = "disconnect" /\ n = 0
  BY DEF CoinsInv, FinishDisconnect, Loops
<1>2. coinsBest = tip /\ blk = tip /\ blk # Genesis /\ Rep(CoinsIn(view), Part(blk, 0))
  BY <1>1 DEF Disconnecting
<1>3. blk \in Blocks \ {Genesis} /\ blk \in known /\ TipTypes /\ view \in Views /\ Prev[blk] \in known
  BY <1>1, <1>2, TipFacts DEF Types
<1>4. /\ WriteChainState(Overlay(cacheCoins, view))
      /\ coinsBest' = Prev[blk] /\ pc' = "resurrect" /\ n' = 1 /\ view' = Empty
      /\ UNCHANGED <<blk, blockundo, nFees, undo, known, failed, target, tip>>
  BY DEF FinishDisconnect, chainVars
<1>5. Rep(CoinsIn(view), Utxo[Prev[blk]])
  BY <1>2, <1>3, PartStart
<1>6. TipTypes' /\ Rep(CoinsIn(Empty)', Utxo[Prev[blk]])
  BY <1>3, <1>4, <1>5, WriteRep
<1>7. AtTip'
  BY <1>4, <1>6 DEF AtTip
<1>8. Types'
  BY <1>1, <1>3, <1>4, <1>6, EmptyView DEF Types
<1>9. History'
  <2>1. blk \in DOMAIN undo
    BY <1>1, <1>2 DEF History
  <2>2. Prev[blk] \in DOMAIN undo \cup {Genesis}
    BY <2>1, <1>1 DEF History, HistoryOf
  <2> QED BY <2>2, <1>1, <1>4 DEF History
<1>10. Loops'
  BY <1>2, <1>4 DEF Loops, Idle, Connecting, Disconnecting, Finishing, Elsewhere
<1> QED BY <1>7, <1>8, <1>9, <1>10 DEF CoinsInv

\* Every step keeps the invariant.
LEMMA NextInv ==
  ASSUME CoinsInv, PoolTypes, [Next]_vars
  PROVE  CoinsInv' /\ PoolTypes'
PROOF
<1>1. PoolTypes'
  BY PoolTypesStep DEF CoinsInv, Loops
<1>2. ASSUME UNCHANGED vars PROVE CoinsInv'
  BY <1>2, StutterStep DEF vars
<1>3. ASSUME NEW b \in Blocks \ {Genesis}, AcceptBlock(b) PROVE CoinsInv'
  BY <1>3, AcceptBlockStep
<1>4. ASSUME NEW tx \in Txs, AcceptToMemoryPool(tx) PROVE CoinsInv'
  BY <1>4, StutterStep DEF AcceptToMemoryPool
<1>5. ASSUME BeginConnect PROVE CoinsInv'
  BY <1>5, BeginConnectStep
<1>6. ASSUME ConnectTx PROVE CoinsInv'
  BY <1>6, ConnectTxStep
<1>7. ASSUME EndConnectBlock \/ FinishConnect PROVE CoinsInv'
  BY <1>7, EndConnectBlockStep, FinishConnectStep
<1>8. ASSUME RemoveConflicts \/ Resurrect PROVE CoinsInv'
  BY <1>8, PoolLoopStep
<1>9. ASSUME ConnectDone \/ DisconnectDone PROVE CoinsInv'
  BY <1>9, DoneStep
<1>10. ASSUME BeginDisconnect PROVE CoinsInv'
  BY <1>10, BeginDisconnectStep
<1>11. ASSUME DisconnectTx PROVE CoinsInv'
  BY <1>11, DisconnectTxStep
<1>12. ASSUME FinishDisconnect PROVE CoinsInv'
  BY <1>12, FinishDisconnectStep
<1>13. CoinsInv'
  BY <1>2, <1>3, <1>4, <1>5, <1>6, <1>7, <1>8, <1>9, <1>10, <1>11, <1>12 DEF Next
<1> QED BY <1>1, <1>13

\* The invariant gives what the runs check.
LEMMA CoinsInvExact ==
  ASSUME CoinsInv, PoolTypes
  PROVE  CoinsExact
PROOF
<1> DEFINE U == Utxo[coinsBest]
<1>1. Types /\ History /\ Rep(CoinsIn(Empty), U)
  BY DEF CoinsInv, AtTip
<1>2. TypeOK
  <2>1. IsView(coinsDB) /\ IsView(cacheCoins) /\ IsView(view)
    BY <1>1, ViewTypes DEF Types, TipTypes
  <2> QED BY <2>1, <1>1 DEF TypeOK, Types, History, PoolTypes
<1>3. AlwaysClean
  BY <1>1 DEF AlwaysClean, Types
<1>4. U \in SUBSET Records
  BY <1>1 DEF Rep
<1>5. \A t \in Txs : CoinsIn(Empty)[t] = TipCoins(t)
  BY EmptyCoins DEF CoinsIn
<1> HIDE DEF U
<1>6. Unspent = Outs(U)
  <2>1. \A o \in OutPoints : IsAvailable(TipCoins(o[1]), o[2]) <=> o \in Outs(U)
    <3> TAKE o \in OutPoints
    <3>1. o = <<o[1], o[2]>> /\ o[1] \in Txs /\ o[2] \in Nat
      BY OutPointFacts
    <3> QED BY <3>1, <1>1, <1>5 DEF Rep, IsAvailable
  <2>2. Outs(U) \in SUBSET OutPoints
    BY <1>4, OutsFacts
  <2> QED BY <2>1, <2>2 DEF Unspent
<1>7. CoinsAreReplay
  <2>1. \A u \in U : u.nHeight = TipCoins(u.out[1]).nHeight
                     /\ (TipCoins(u.out[1]).fCoinBase <=> u.out[1] \in CoinBases)
    BY <1>1, <1>4, <1>5, RecordFacts DEF Rep
  <2> DEFINE R == {[out |-> o, nHeight |-> TipCoins(o[1]).nHeight] : o \in Unspent}
  <2>2. ASSUME NEW u \in U PROVE u \in R
    <3>1. u = [out |-> u.out, nHeight |-> u.nHeight] /\ u.out \in Outs(U)
      BY <1>4, RecordFacts
    <3>2. u.nHeight = TipCoins(u.out[1]).nHeight
      BY <2>1
    <3> QED BY <3>1, <3>2, <1>6
  <2>3. ASSUME NEW o \in Unspent PROVE [out |-> o, nHeight |-> TipCoins(o[1]).nHeight] \in U
    <3>1. PICK u \in U : u.out = o
      BY <1>6 DEF Outs
    <3>2. u = [out |-> u.out, nHeight |-> u.nHeight] /\ u.nHeight = TipCoins(o[1]).nHeight
      BY <3>1, <1>4, <2>1, RecordFacts
    <3> QED BY <3>1, <3>2
  <2>4. U = R
    BY <2>2, <2>3
  <2>5. \A o \in Unspent : TipCoins(o[1]).fCoinBase <=> o[1] \in CoinBases
    <3> TAKE o \in Unspent
    <3>1. PICK u \in U : u.out = o
      BY <1>6 DEF Outs
    <3> QED BY <3>1, <2>1
  <2> QED BY <2>4, <2>5 DEF CoinsAreReplay, U
<1>8. MoneySupply
  <2>1. Amount(Outs(U)) <= Subsidy * Height[coinsBest]
    BY <1>1, TipFacts DEF U
  <2>2. MapThenSumSet(LAMBDA o : Vout[o[1]][o[2]], Unspent) = Amount(Unspent)
    BY DEF Amount
  <2> QED BY <2>1, <2>2, <1>6 DEF MoneySupply
<1> QED BY <1>2, <1>3, <1>7, <1>8 DEF CoinsExact

\* Through any sequence of connected, disconnected, failing and reconnected blocks,
\* with pcoinsTip flushed or not in between, the coins are the replay of the chain
\* that ends in its best block, DisconnectBlock never meets coins other than those
\* ConnectBlock left, and the money is at most the subsidies of that chain.
THEOREM CoinsAlwaysExact == Spec => []CoinsExact
PROOF
<1>1. Init => CoinsInv /\ PoolTypes
  BY InitInv
<1>2. (CoinsInv /\ PoolTypes) /\ [Next]_vars => (CoinsInv /\ PoolTypes)'
  BY NextInv
<1>3. CoinsInv /\ PoolTypes => CoinsExact
  BY CoinsInvExact
<1> QED BY <1>1, <1>2, <1>3, PTL DEF Spec

-----------------------------------------------------------------------------
(* The miner *)

\* No call of the ledger runs while the miner holds cs_main.
LEMMA MiningAlone ==
  ASSUME pc = "mining", Next
  PROVE  FALSE
BY DEF Next, AcceptBlock, AcceptToMemoryPool, Settled, BeginConnect, ConnectTx, EndConnectBlock, FinishConnect, RemoveConflicts,
       ConnectDone, BeginDisconnect, DisconnectTx, FinishDisconnect, Resurrect, DisconnectDone

\* A transaction in the template is spent and made in the miner's view.
LEMMA TakeStep ==
  ASSUME MinerInv, NEW tx \in Txs, TakeFromQueue(tx)
  PROVE  MinerInv'
PROOF
<1>1. Types /\ History /\ AtTip /\ Loops /\ PoolTypes /\ pc = "mining" /\ hashPrev \in Blocks
  BY DEF MinerInv, CoinsInv, TakeFromQueue
<1>2. /\ UNCHANGED <<minerPC, hashPrev, pc, blk, n, blockundo, mapTx, mapNextTx, known, failed, target, tip>>
      /\ UNCHANGED <<coinsDB, cacheCoins, coinsBest, undo>>
  BY DEF TakeFromQueue, chainVars, coinVars, poolVars
<1>3. view' \in Views /\ nFees' \in Nat
  <2>1. CASE UNCHANGED <<view, nFees>>
    BY <1>1, <2>1 DEF Types
  <2>2. CASE /\ Minable(tx) /\ view' = UpdateCoins(view, tx, Height[hashPrev] + 1).view
             /\ nFees' = nFees + ValueIn(tx) - ValueOut(tx)
    <3> DEFINE ht == Height[hashPrev] + 1
    <3>1. ht \in Nat
      BY <1>1, HeightFacts
    <3>2. TipTypes /\ view \in Views /\ nFees \in Nat
      BY <1>1 DEF Types
    <3>3. view' = UpdateCoins(view, tx, ht).view
      BY <2>2
    <3>4. CoinsOf(tx, ht) \in CCoins
      BY <3>1, CoinsOfType
    <3>5. Len(Vin[tx]) \in Nat
      BY InputFacts
    <3> HIDE DEF ht
    <3>6. PICK h : /\ \A k \in 0..Len(Vin[tx]) : h[k] \in SpendResult
                   /\ UpdateCoins(view, tx, ht).view = SetCoins(h[Len(Vin[tx])].view, tx, CoinsOf(tx, ht))
      BY <3>1, <3>2, UpdateSteps
    <3>7. h[Len(Vin[tx])] \in SpendResult
      BY <3>5, <3>6
    <3>8. h[Len(Vin[tx])].view \in Views
      BY <3>7 DEF SpendResult
    <3>9. view' \in Views
      BY <3>3, <3>4, <3>6, <3>8, SetCoinsView
    <3>10. ValueIn(tx) \in Nat /\ ValueOut(tx) \in Nat
      BY ValueInFacts, ValueOutFacts, AmountFacts
    <3>11. ValueIn(tx) >= ValueOut(tx)
      BY <2>2 DEF Minable, CheckInputs
    <3>12. nFees' \in Nat
      BY <2>2, <3>2, <3>10, <3>11
    <3> QED BY <3>9, <3>12
  <2> QED BY <2>1, <2>2 DEF TakeFromQueue
<1>4. Types'
  BY <1>1, <1>2, <1>3 DEF Types, TipTypes
<1>5. History' /\ AtTip'
  BY <1>1, <1>2, KeepHistory, KeepAtTip
<1>6. Loops'
  BY <1>1, <1>2 DEF Loops, Idle, Connecting, Disconnecting, Finishing, Elsewhere
<1>7. PoolTypes'
  BY <1>1, <1>2, SamePoolTypes DEF poolVars
<1> QED BY <1>1, <1>2, <1>4, <1>5, <1>6, <1>7 DEF MinerInv, CoinsInv

\* CreateNewBlock starts and ends with the caches as they were.
LEMMA TemplateStep ==
  ASSUME MinerInv, BeginTemplate \/ EndTemplate \/ DiesReading \/ DiesInQueue
  PROVE  MinerInv'
PROOF
<1>1. Types /\ History /\ AtTip /\ Loops /\ PoolTypes /\ hashPrev \in Blocks /\ tip \in Blocks
  BY TipFacts DEF MinerInv, CoinsInv
<1>2. /\ UNCHANGED <<blk, n, blockundo, mapTx, mapNextTx, known, failed, target, tip>>
      /\ UNCHANGED <<coinsDB, cacheCoins, coinsBest, undo>>
      /\ hashPrev' \in Blocks
  BY <1>1 DEF BeginTemplate, EndTemplate, DiesReading, DiesInQueue, Dies, chainVars, coinVars, poolVars
<1>3. \/ pc = "idle" /\ pc' = "mining" /\ UNCHANGED <<view, nFees>>
      \/ /\ pc \in {"idle", "mining"} /\ pc' \in {"idle", "down"}
         /\ view' = Empty /\ nFees' = 0 /\ minerPC' \in {"search", "dead"}
  BY DEF BeginTemplate, EndTemplate, DiesReading, DiesInQueue, Dies, Settled, MinerInv
<1>4. Types'
  BY <1>1, <1>2, <1>3, EmptyView DEF Types, TipTypes
<1>5. History' /\ AtTip' /\ PoolTypes'
  BY <1>1, <1>2, KeepHistory, KeepAtTip, SamePoolTypes DEF poolVars
<1>6. Loops'
  BY <1>1, <1>2, <1>3 DEF Loops, Idle, Connecting, Disconnecting, Finishing, Elsewhere
<1> QED BY <1>1, <1>2, <1>3, <1>4, <1>5, <1>6 DEF MinerInv, CoinsInv

\* Every step of the node with a miner keeps the invariant.
LEMMA MinerNextInv ==
  ASSUME MinerInv, [MinerNext]_mvars
  PROVE  MinerInv'
PROOF
<1>1. ASSUME Next, UNCHANGED minerVars PROVE MinerInv'
  <2>1. CoinsInv' /\ PoolTypes'
    BY <1>1, NextInv DEF MinerInv
  <2>2. minerPC # "build" /\ hashPrev' \in Blocks /\ minerPC' = minerPC
    BY <1>1, MiningAlone DEF MinerInv, minerVars
  <2> QED BY <2>1, <2>2 DEF MinerInv
<1>2. ASSUME ReadTip \/ EndSearch \/ Submitted PROVE MinerInv'
  <2>1. UNCHANGED <<chainVars, coinVars, callVars>> /\ UNCHANGED poolVars /\ UNCHANGED pc
    BY <1>2 DEF ReadTip, EndSearch, Submitted, vars, callVars
  <2>2. CoinsInv' /\ PoolTypes'
    BY <2>1, StutterStep, SamePoolTypes DEF MinerInv
  <2>3. minerPC' # "build" /\ hashPrev' \in Blocks
    BY <1>2, Constants DEF ReadTip, EndSearch, Submitted, MinerInv
  <2> QED BY <2>2, <2>3 DEF MinerInv
<1>3. ASSUME BeginTemplate \/ EndTemplate \/ DiesReading \/ DiesInQueue PROVE MinerInv'
  BY <1>3, TemplateStep
<1>4. ASSUME NEW tx \in Txs, TakeFromQueue(tx) PROVE MinerInv'
  BY <1>4, TakeStep
<1>5. ASSUME UNCHANGED mvars PROVE MinerInv'
  <2>1. UNCHANGED <<chainVars, coinVars, callVars>> /\ UNCHANGED poolVars /\ UNCHANGED <<pc, minerPC, hashPrev>>
    BY <1>5 DEF mvars, vars, callVars, minerVars
  <2> QED BY <2>1, StutterStep, SamePoolTypes DEF MinerInv
<1> QED BY <1>1, <1>2, <1>3, <1>4, <1>5 DEF MinerNext, MinerStep

\* The same with a miner that builds its templates on the ledger.
THEOREM CoinsExactWithMiner == MinerSpec => []CoinsExact
PROOF
<1>1. MinerInit => MinerInv
  BY InitInv, Constants DEF MinerInit, MinerInv
<1>2. MinerInv /\ [MinerNext]_mvars => MinerInv'
  BY MinerNextInv
<1>3. MinerInv => CoinsExact
  BY CoinsInvExact DEF MinerInv
<1> QED BY <1>1, <1>2, <1>3, PTL DEF MinerSpec

-----------------------------------------------------------------------------
(* The wallet, kills and restarts *)

\* A block of a chain is below its tip, and has the part of the chain below itself.
LEMMA ChainHeights ==
  \A b \in Blocks : \A c \in Chain[b] :
      /\ c \in Blocks /\ Height[c] <= Height[b] /\ Chain[c] \subseteq Chain[b]
      /\ \A d \in Chain[b] : Height[d] <= Height[c] => d \in Chain[c]
PROOF
<1> DEFINE Good(b) == \A c \in Chain[b] :
                         /\ c \in Blocks /\ Height[c] <= Height[b] /\ Chain[c] \subseteq Chain[b]
                         /\ \A d \in Chain[b] : Height[d] <= Height[c] => d \in Chain[c]
           S == {b \in Blocks : Good(b)}
<1>1. S \in SUBSET Blocks
  OBVIOUS
<1>2. Genesis \in S
  BY ChainFacts, HeightFacts, Constants
<1>3. ASSUME NEW b \in Blocks \ {Genesis}, Prev[b] \in S PROVE b \in S
  <2>1. /\ Chain[b] = {b} \cup Chain[Prev[b]] /\ Height[b] = Height[Prev[b]] + 1
        /\ Prev[b] \in Blocks /\ Height[Prev[b]] \in Nat /\ Height[b] \in Nat
    BY ChainFacts, HeightFacts, Constants
  <2>2. Good(Prev[b])
    BY <1>3
  <2>3. ASSUME NEW c \in Chain[b]
        PROVE  /\ c \in Blocks /\ Height[c] <= Height[b] /\ Chain[c] \subseteq Chain[b]
               /\ \A d \in Chain[b] : Height[d] <= Height[c] => d \in Chain[c]
    <3>1. CASE c = b
      BY <2>1, <3>1
    <3>2. CASE c \in Chain[Prev[b]]
      <4>1. /\ c \in Blocks /\ Height[c] <= Height[Prev[b]] /\ Chain[c] \subseteq Chain[Prev[b]]
            /\ \A d \in Chain[Prev[b]] : Height[d] <= Height[c] => d \in Chain[c]
        BY <2>2, <3>2
      <4>2. Height[c] \in Nat
        BY <4>1, HeightFacts
      <4>3. ~(Height[b] <= Height[c])
        BY <2>1, <4>1, <4>2
      <4>4. Height[c] <= Height[b]
        BY <2>1, <4>1, <4>2
      <4> QED BY <2>1, <4>1, <4>3, <4>4
    <3> QED BY <2>1, <3>1, <3>2
  <2> QED BY <2>3
<1> HIDE DEF S
<1>4. S = Blocks
  BY <1>1, <1>2, <1>3, BlockInd
<1> QED BY <1>4 DEF S

\* FindFork is the last block the chains have in common.
LEMMA ForkFacts ==
  ASSUME locator \in Blocks, coinsBest \in Blocks
  PROVE  /\ FindFork \in Chain[locator] \cap Chain[coinsBest]
         /\ FindFork \in Blocks /\ Height[FindFork] \in Nat
PROOF
<1> DEFINE I == Chain[locator] \cap Chain[coinsBest]
           m == Height[coinsBest] + 1
           H == {Height[c] + 1 : c \in I}
<1>1. m \in Nat /\ Height[coinsBest] \in Nat
  BY HeightFacts
<1>2. \A c \in I : c \in Blocks /\ Height[c] \in Nat /\ Height[c] + 1 \in 1..m
  <2> TAKE c \in I
  <2>1. c \in Blocks /\ Height[c] <= Height[coinsBest]
    BY ChainHeights
  <2>2. Height[c] \in Nat
    BY <2>1, HeightFacts
  <2> QED BY <1>1, <2>1, <2>2
<1>3. H \in SUBSET (1..m)
  BY <1>2
<1>4. H # {}
  BY ChainGenesis
<1> HIDE DEF m
<1>5. Max(H) \in H /\ \A y \in H : y <= Max(H)
  BY <1>1, <1>3, <1>4, MaxIn DEF m
<1>6. PICK f \in I : Max(H) = Height[f] + 1
  BY <1>5
<1>7. \A c \in I : Height[c] + 1 \in H
  OBVIOUS
<1> HIDE DEF H, I
<1>8. \A c \in I : Height[c] <= Height[f]
  <2> TAKE c \in I
  <2>1. Height[c] + 1 <= Height[f] + 1
    BY <1>5, <1>6, <1>7
  <2> QED BY <2>1, <1>2, <1>6
<1>9. FindFork \in I /\ \A c \in I : Height[c] <= Height[FindFork]
  BY <1>6, <1>8 DEF FindFork, I
<1> QED BY <1>2, <1>9 DEF I

\* A killed node keeps its chainstate and index, and comes up with the chain of its coins.
LEMMA RestartStep ==
  ASSUME CoinsInv, PoolTypes, locator \in Blocks, Kill \/ Restart \/ ScanBlock \/ ScanDone
  PROVE  CoinsInv' /\ PoolTypes' /\ locator' \in Blocks
PROOF
<1>1. Types /\ History /\ AtTip /\ Loops
  BY DEF CoinsInv
<1>2. /\ UNCHANGED <<known, failed, coinsDB, cacheCoins, coinsBest, undo>>
      /\ tip' \in {tip, coinsBest} /\ blk' \in {blk, Genesis} /\ view' \in {view, Empty}
      /\ target' \in known
  BY <1>1 DEF Kill, Restart, ScanBlock, ScanDone, chainVars, coinVars, EndCall, Best, Types
<1>3. /\ coinsBest \in Blocks /\ tip \in Blocks /\ n \in Nat
      /\ Height[coinsBest] \in Nat /\ Height[FindFork] \in Nat
  BY <1>1, ForkFacts, HeightFacts DEF Types
<1>4. \/ pc' = "down" /\ view' = Empty /\ blockundo' = <<>> /\ nFees' = 0 /\ n' = 0
      \/ /\ pc' \in {"rescan", "idle"} /\ tip' = coinsBest
         /\ view' = Empty /\ blockundo' = <<>> /\ nFees' = 0 /\ n' \in Nat
  <2>1. CASE Kill
    BY <2>1 DEF Kill, EndCall
  <2>2. CASE Restart
    BY <1>1, <1>3, <2>2 DEF Restart, Loops, Elsewhere
  <2>3. CASE ScanBlock \/ ScanDone
    BY <1>1, <1>3, <2>3 DEF ScanBlock, ScanDone, EndCall, Loops, Elsewhere, chainVars
  <2> QED BY <2>1, <2>2, <2>3
<1>5. Types'
  BY <1>1, <1>2, <1>4, EmptyView DEF Types, TipTypes
<1>6. History'
  BY <1>1, <1>2 DEF History
<1>7. AtTip'
  BY <1>1, <1>2, KeepAtTip
<1>8. Loops'
  BY <1>2, <1>4 DEF Loops, Idle, Connecting, Disconnecting, Finishing, Elsewhere
<1>9. PoolTypes' /\ locator' \in Blocks
  <2>1. CASE Kill
    BY <2>1 DEF Kill, PoolTypes
  <2>2. CASE Restart \/ ScanBlock \/ ScanDone
    BY <1>3, <2>2, SamePoolTypes DEF Restart, ScanBlock, ScanDone, walletVars
  <2> QED BY <2>1, <2>2
<1> QED BY <1>5, <1>6, <1>7, <1>8, <1>9 DEF CoinsInv

\* ReacceptWalletTransactions changes the pool only.
LEMMA ReacceptStep ==
  ASSUME CoinsInv, PoolTypes, ReacceptWalletTransactions \/ ReacceptTx \/ ReacceptDone
  PROVE  CoinsInv' /\ PoolTypes'
PROOF
<1>1. Types /\ History /\ AtTip /\ Loops
  BY DEF CoinsInv
<1>2. /\ UNCHANGED <<blk, known, failed, target, tip, coinsDB, cacheCoins, coinsBest, undo>>
      /\ \/ pc = "idle" /\ pc' = "reaccept" /\ n' = 1 /\ UNCHANGED <<view, blockundo, nFees>>
         \/ pc = "reaccept" /\ pc' = "reaccept" /\ n' = n + 1 /\ UNCHANGED <<view, blockundo, nFees>>
         \/ /\ pc = "reaccept" /\ pc' = "idle" /\ n' = 0 /\ view' = Empty /\ blockundo' = <<>> /\ nFees' = 0
  BY DEF ReacceptWalletTransactions, ReacceptTx, ReacceptDone, EndCall, chainVars, coinVars, Free, Settled
<1>3. Types'
  BY <1>1, <1>2, EmptyView DEF Types, TipTypes
<1>4. History' /\ AtTip'
  BY <1>1, <1>2, KeepHistory, KeepAtTip
<1>5. Loops'
  BY <1>1, <1>2 DEF Types, Loops, Idle, Connecting, Disconnecting, Finishing, Elsewhere
<1>6. PoolTypes'
  <2>1. CASE ReacceptTx
    <3> DEFINE t == HashOrder[n]
    <3>1. n \in 1..Len(HashOrder)
      BY <1>1, <2>1, WalletAssumption DEF ReacceptTx, Types, Loops, Elsewhere
    <3>2. t \in Txs
      BY <3>1, WalletAssumption
    <3>3. UNCHANGED poolVars \/ addUnchecked(t)
      BY <2>1 DEF ReacceptTx
    <3> QED BY <3>2, <3>3, SamePoolTypes, AddTypes
  <2>2. CASE ReacceptWalletTransactions \/ ReacceptDone
    BY <2>2, SamePoolTypes DEF ReacceptWalletTransactions, ReacceptDone
  <2> QED BY <2>1, <2>2
<1> QED BY <1>3, <1>4, <1>5, <1>6 DEF CoinsInv

\* Every step of the node with a wallet keeps the invariant.
LEMMA WalletNextInv ==
  ASSUME CoinsInv, PoolTypes, locator \in Blocks, [WalletNext]_allVars
  PROVE  CoinsInv' /\ PoolTypes' /\ locator' \in Blocks
PROOF
<1> DEFINE Kept == CoinsInv' /\ PoolTypes' /\ locator' \in Blocks
<1>1. ASSUME NodeStep \/ Watched \/ NoteConflicts \/ Connected \/ Disconnected
      PROVE  Kept
  <2>1. Next
    BY <1>1 DEF NodeStep, Watched, NoteConflicts, Connected, Disconnected, Next
  <2>2. Connected => locator' \in Blocks
    BY DEF Connected, SetBestChain, CoinsInv, Types
  <2>3. Disconnected => locator' \in Blocks
    BY Constants DEF Disconnected, DisconnectDone, SetBestChain, CoinsInv, Types, Loops, Finishing
  <2>4. NodeStep \/ Watched \/ NoteConflicts => locator' \in Blocks
    BY DEF NodeStep, Watched, NoteConflicts, walletVars
  <2> QED BY <1>1, <2>1, <2>2, <2>3, <2>4, NextInv
<1>2. ASSUME NEW tx \in Txs, PoolStep(tx) PROVE Kept
  <2>1. Next /\ locator' = locator
    BY <1>2 DEF PoolStep, Next
  <2> QED BY <2>1, NextInv
<1>3. ASSUME SyncWithWallets \/ (\E t \in Txs : GetAvailableCredit(t) \/ CreateTransaction(t)) \/ UNCHANGED allVars
      PROVE  Kept
  <2>1. UNCHANGED vars /\ locator' = locator
    BY <1>3 DEF SyncWithWallets, GetAvailableCredit, CreateTransaction, allVars, walletVars
  <2> QED BY <2>1, NextInv
<1>4. ASSUME NEW t \in Txs, CommitTransaction(t) PROVE Kept
  <2>1. locator' = locator /\ UNCHANGED <<chainVars, coinVars, callVars>> /\ (UNCHANGED poolVars \/ addUnchecked(t))
    BY <1>4 DEF CommitTransaction
  <2> QED BY <2>1, StutterStep, SamePoolTypes, AddTypes
<1>5. ASSUME Kill \/ Restart \/ ScanBlock \/ ScanDone PROVE Kept
  BY <1>5, RestartStep
<1>6. ASSUME ReacceptWalletTransactions \/ ReacceptTx \/ ReacceptDone PROVE Kept
  <2>1. locator' = locator
    BY <1>6 DEF ReacceptWalletTransactions, ReacceptTx, ReacceptDone, walletVars
  <2> QED BY <2>1, <1>6, ReacceptStep
<1> QED BY <1>1, <1>2, <1>3, <1>4, <1>5, <1>6 DEF WalletNext

\* The same with a wallet, and with kills at any step: the chain restored from the
\* chainstate is the one its coins are the replay of, so the undo data on disk still fits.
THEOREM CoinsExactWithKills == WalletSpec => []CoinsExact
PROOF
<1> DEFINE Inv == CoinsInv /\ PoolTypes /\ locator \in Blocks
<1>1. WalletInit => Inv
  BY InitInv, Constants DEF WalletInit
<1>2. Inv /\ [WalletNext]_allVars => Inv'
  BY WalletNextInv
<1>3. Inv => CoinsExact
  BY CoinsInvExact
<1> HIDE DEF Inv
<1> QED BY <1>1, <1>2, <1>3, PTL DEF WalletSpec

-----------------------------------------------------------------------------
(* A chain spends an output once *)

\* The transactions of a block are its vtx.
LEMMA VtxSet ==
  ASSUME NEW b \in Blocks \ {Genesis}
  PROVE  ToSet(Vtx[b]) = {Vtx[b][i] : i \in 1..Len(Vtx[b])}
BY BlockFacts DEF ToSet

\* A block adds its transactions to those of its chain.
LEMMA ChainTxsFacts ==
  /\ ChainTxs(Genesis) = {}
  /\ \A b \in Blocks \ {Genesis} : ChainTxs(b) = ChainTxs(Prev[b]) \cup ToSet(Vtx[b])
PROOF
<1>1. ChainTxs(Genesis) = {}
  BY ChainFacts DEF ChainTxs
<1>2. ASSUME NEW b \in Blocks \ {Genesis} PROVE ChainTxs(b) = ChainTxs(Prev[b]) \cup ToSet(Vtx[b])
  <2>1. Chain[b] = {b} \cup Chain[Prev[b]]
    BY ChainFacts
  <2>2. \A c : c \in Chain[b] \ {Genesis} <=> c = b \/ c \in Chain[Prev[b]] \ {Genesis}
    BY <2>1
  <2> QED BY <2>2 DEF ChainTxs
<1> QED BY <1>1, <1>2

\* The same for the parts of a block.
LEMMA UptoFacts ==
  ASSUME NEW b \in Blocks \ {Genesis}
  PROVE  /\ Upto(b, 0) = ChainTxs(Prev[b]) /\ Upto(b, Len(Vtx[b])) = ChainTxs(b)
         /\ \A k \in 1..Len(Vtx[b]) : Upto(b, k) = Upto(b, k - 1) \cup {Vtx[b][k]}
PROOF
<1>1. Len(Vtx[b]) \in Nat
  BY BlockFacts
<1>2. Upto(b, 0) = ChainTxs(Prev[b])
  <2>1. \A i : i \notin 1..0
    OBVIOUS
  <2> QED BY <2>1 DEF Upto
<1>3. Upto(b, Len(Vtx[b])) = ChainTxs(b)
  BY ChainTxsFacts, VtxSet DEF Upto
<1>4. ASSUME NEW k \in 1..Len(Vtx[b]) PROVE Upto(b, k) = Upto(b, k - 1) \cup {Vtx[b][k]}
  <2>1. \A i : i \in 1..k <=> i \in 1..(k - 1) \/ i = k
    BY <1>1
  <2> QED BY <2>1 DEF Upto
<1> QED BY <1>2, <1>3, <1>4

\* A transaction whose inputs are unspent is not one of those before.
LEMMA NotTwice ==
  ASSUME NEW U, NEW T, Accounts(U, T), NEW tx \in Txs \ CoinBases, ToSet(Vin[tx]) \subseteq Outs(U)
  PROVE  tx \notin T
PROOF
<1>1. Len(Vin[tx]) \in Nat \ {0} /\ ToSet(Vin[tx]) = {Vin[tx][i] : i \in 1..Len(Vin[tx])}
  BY InputFacts
<1>2. 1 \in 1..Len(Vin[tx])
  BY <1>1
<1>3. Vin[tx][1] \in ToSet(Vin[tx])
  BY <1>1, <1>2
<1> QED BY <1>3 DEF Accounts

\* A new transaction keeps the accounts.
LEMMA AccountsStep ==
  ASSUME NEW U \in SUBSET Records, NEW T, Accounts(U, T), NEW tx \in Txs, NEW ht \in Nat,
         tx \notin T, ToSet(Vin[tx]) \subseteq Outs(U)
  PROVE  Accounts(Minus(U, ToSet(Vin[tx])) \cup MadeBy(tx, ht), T \cup {tx})
PROOF
<1> DEFINE A == Minus(U, ToSet(Vin[tx]))
           B == MadeBy(tx, ht)
<1>1. \A u \in B : u.out[1] = tx
  BY MadeByFacts
<1>2. \A u \in A : u \in U /\ u.out \notin ToSet(Vin[tx])
  BY DEF Minus
<1>3. \A o \in Outs(A \cup B) : o[1] = tx \/ (o \in Outs(U) /\ o \notin ToSet(Vin[tx]))
  BY <1>1, <1>2 DEF Outs
<1>4. \A o \in Outs(U) : o[1] \in T
  BY DEF Outs, Accounts
<1>5. \A u \in A \cup B : u.out[1] \in T \cup {tx}
  BY <1>1, <1>2 DEF Accounts
<1> HIDE DEF A, B
<1>6. ASSUME NEW t \in T \cup {tx}, NEW o \in ToSet(Vin[t])
      PROVE  o \notin Outs(A \cup B) /\ o[1] \in T \cup {tx}
  <2>1. CASE t = tx
    <3>1. o \in Outs(U) /\ o[1] \in T
      BY <2>1, <1>4
    <3> QED BY <3>1, <2>1, <1>3
  <2>2. CASE t # tx
    <3>1. o \notin Outs(U) /\ o[1] \in T
      BY <2>2 DEF Accounts
    <3> QED BY <3>1, <1>3
  <2> QED BY <2>1, <2>2
<1> QED BY <1>5, <1>6 DEF Accounts, A, B

\* No transaction of a block that can be connected is on its chain, or in it twice.
LEMMA BlockAccounts ==
  ASSUME NoCoinBaseAgain, NEW b \in Blocks \ {Genesis}, NEW m \in 0..Len(Vtx[b]),
         Fresh(b), Available(b, m), Accounts(Utxo[Prev[b]], ChainTxs(Prev[b]))
  PROVE  /\ \A k \in 0..m : Accounts(Part(b, k), Upto(b, k))
         /\ \A k \in 1..m : Vtx[b][k] \notin Upto(b, k - 1)
PROOF
<1>1. Len(Vtx[b]) \in Nat \ {0} /\ m \in Nat /\ Height[b] \in Nat /\ Prev[b] \in Blocks
  BY BlockFacts
<1>2. ASSUME NEW k \in 1..m, Accounts(Part(b, k - 1), Upto(b, k - 1))
      PROVE  Accounts(Part(b, k), Upto(b, k)) /\ Vtx[b][k] \notin Upto(b, k - 1)
  <2> DEFINE tx == Vtx[b][k]
  <2>1. k \in 1..Len(Vtx[b]) /\ k - 1 \in 0..Len(Vtx[b])
    BY <1>1
  <2>2. tx \in Txs /\ (tx \in CoinBases <=> k = 1)
    BY <2>1, BlockFacts
  <2>3. Available(b, k) /\ ToSet(Vin[tx]) \subseteq Outs(Part(b, k - 1))
    <3>1. \A i \in 1..k : i \in 1..m
      BY <1>1
    <3> QED BY <3>1 DEF Available
  <2>4. tx \notin Upto(b, k - 1)
    <3>1. CASE k = 1
      <4>1. Upto(b, k - 1) = ChainTxs(Prev[b])
        BY <3>1, UptoFacts
      <4>2. ASSUME tx \in ChainTxs(Prev[b]) PROVE FALSE
        <5>1. PICK c \in Chain[Prev[b]] \ {Genesis} : tx \in ToSet(Vtx[c])
          BY <4>2 DEF ChainTxs
        <5>2. c \in Blocks \ {Genesis}
          BY <1>1, <5>1, ChainFacts
        <5>3. PICK i \in 1..Len(Vtx[c]) : tx = Vtx[c][i]
          BY <5>1, <5>2, VtxSet
        <5>4. i = 1
          BY <5>2, <5>3, <2>2, <3>1, BlockFacts
        <5>5. Vtx[b][1] = Vtx[c][1]
          BY <5>3, <5>4, <3>1
        <5>6. PICK u \in Utxo[Prev[b]] : u.out[1] = Vtx[b][1]
          BY <5>1, <5>5 DEF NoCoinBaseAgain
        <5>7. Vtx[b][1] \in ToSet(Vtx[b])
          <6>1. 1 \in 1..Len(Vtx[b])
            BY <1>1
          <6> QED BY <6>1, VtxSet
        <5> QED BY <5>6, <5>7 DEF Fresh
      <4> QED BY <4>1, <4>2
    <3>2. CASE k # 1
      <4> HIDE DEF tx
      <4> QED BY <3>2, <1>2, <2>2, <2>3, NotTwice
    <3> QED BY <3>1, <3>2
  <2>5. Part(b, k) = Minus(Part(b, k - 1), ToSet(Vin[tx])) \cup MadeBy(tx, Height[b])
    BY <2>1, <2>3, PartStep
  <2>6. Upto(b, k) = Upto(b, k - 1) \cup {tx}
    BY <2>1, UptoFacts
  <2>7. Part(b, k - 1) \in SUBSET Records
    BY <2>1, PartTypes
  <2>8. Accounts(Part(b, k), Upto(b, k))
    <3> DEFINE U == Part(b, k - 1)
               T == Upto(b, k - 1)
    <3>1. U \in SUBSET Records /\ Accounts(U, T) /\ tx \notin T /\ ToSet(Vin[tx]) \subseteq Outs(U)
      BY <1>2, <2>3, <2>4, <2>7
    <3> HIDE DEF tx, U, T
    <3>2. Accounts(Minus(U, ToSet(Vin[tx])) \cup MadeBy(tx, Height[b]), T \cup {tx})
      BY <3>1, <1>1, <2>2, AccountsStep
    <3> QED BY <3>2, <2>5, <2>6 DEF U, T
  <2> QED BY <2>4, <2>8
<1> DEFINE S == {k \in 0..m : Accounts(Part(b, k), Upto(b, k))}
<1>3. 0 \in S
  BY <1>1, PartStart, UptoFacts
<1>4. \A k \in 1..m : k - 1 \in S => k \in S
  BY <1>1, <1>2
<1>5. S = 0..m
  <2> HIDE DEF S
  <2>1. S \in SUBSET (0..m)
    BY DEF S
  <2> QED BY <1>1, <1>3, <1>4, <2>1, PrefixInd
<1>6. \A k \in 0..m : Accounts(Part(b, k), Upto(b, k))
  BY <1>5
<1>7. \A k \in 1..m : k - 1 \in 0..m
  BY <1>1
<1> QED BY <1>2, <1>6, <1>7

\* So it is for every chain that was connected.
LEMMA HistoryAccounts ==
  ASSUME NoCoinBaseAgain, NEW h, HistoryOf(h)
  PROVE  \A b \in DOMAIN h \cup {Genesis} : Accounts(Utxo[b], ChainTxs(b))
PROOF
<1> DEFINE S == {b \in Blocks : b \in DOMAIN h \cup {Genesis} => Accounts(Utxo[b], ChainTxs(b))}
<1>1. Genesis \in S
  <2>1. Utxo[Genesis] = {} /\ ChainTxs(Genesis) = {} /\ Genesis \in Blocks
    BY UtxoFacts, ChainTxsFacts, Constants
  <2> QED BY <2>1 DEF Accounts
<1>2. ASSUME NEW b \in Blocks \ {Genesis}, Prev[b] \in S PROVE b \in S
  <2> SUFFICES ASSUME b \in DOMAIN h PROVE Accounts(Utxo[b], ChainTxs(b))
    OBVIOUS
  <2>1. Prev[b] \in DOMAIN h \cup {Genesis} /\ Applied(b, Len(Vtx[b]), h[b])
    BY DEF HistoryOf
  <2>2. Fresh(b) /\ Available(b, Len(Vtx[b]))
    BY <2>1 DEF Applied
  <2>3. Accounts(Utxo[Prev[b]], ChainTxs(Prev[b]))
    BY <1>2, <2>1
  <2>4. Len(Vtx[b]) \in 0..Len(Vtx[b])
    BY BlockFacts
  <2>5. Accounts(Part(b, Len(Vtx[b])), Upto(b, Len(Vtx[b])))
    BY <2>2, <2>3, <2>4, BlockAccounts
  <2>6. Part(b, Len(Vtx[b])) = Utxo[b] /\ Upto(b, Len(Vtx[b])) = ChainTxs(b)
    BY UtxoFacts, UptoFacts
  <2> QED BY <2>5, <2>6
<1> HIDE DEF S
<1>3. S = Blocks
  <2>1. S \in SUBSET Blocks
    BY DEF S
  <2> QED BY <2>1, <1>1, <1>2, BlockInd
<1>4. DOMAIN h \cup {Genesis} \subseteq Blocks
  BY Constants DEF HistoryOf
<1> QED BY <1>3, <1>4 DEF S

\* No output with an unspendable script is ever among the unspent ones.
LEMMA UtxoSpendable == \A b \in Blocks : Outs(Utxo[b]) \cap Unspendable = {}
PROOF
<1> DEFINE S == {b \in Blocks : Outs(Utxo[b]) \cap Unspendable = {}}
<1>1. Genesis \in S
  BY UtxoFacts, Constants DEF Outs
<1>2. ASSUME NEW b \in Blocks \ {Genesis}, Prev[b] \in S PROVE b \in S
  <2>1. Utxo[b] = Part(b, Len(Vtx[b])) /\ Len(Vtx[b]) \in 0..Len(Vtx[b])
    BY UtxoFacts, BlockFacts
  <2>2. \A u \in Utxo[b] : u \in Utxo[Prev[b]] \/ u \in Made(b, Len(Vtx[b]))
    BY <2>1 DEF Part, Minus
  <2>3. \A u \in Made(b, Len(Vtx[b])) : u.out \notin Unspendable
    BY <2>1, MadeFacts
  <2>4. \A u \in Utxo[Prev[b]] : u.out \notin Unspendable
    BY <1>2 DEF Outs
  <2> QED BY <2>2, <2>3, <2>4 DEF Outs
<1> HIDE DEF S
<1>3. S = Blocks
  <2>1. S \in SUBSET Blocks
    BY DEF S
  <2> QED BY <2>1, <1>1, <1>2, BlockInd
<1> QED BY <1>3 DEF S

-----------------------------------------------------------------------------
(* The pool *)

\* The coins at the tip, as a set of outputs.
LEMMA AtTipFacts ==
  ASSUME CoinsInv
  PROVE  /\ coinsBest \in Blocks /\ coinsBest \in DOMAIN undo \cup {Genesis} /\ HistoryOf(undo)
         /\ Utxo[coinsBest] \in SUBSET Records
         /\ \A o \in OutPoints : IsAvailable(TipCoins(o[1]), o[2]) <=> o \in Outs(Utxo[coinsBest])
         /\ \A t \in Txs : IsPruned(TipCoins(t)) <=> \A u \in Utxo[coinsBest] : u.out[1] # t
         /\ \A u \in Utxo[coinsBest] : TipCoins(u.out[1]).nHeight = u.nHeight
         /\ \A t \in Txs : TipCoins(t).fCoinBase /\ ~IsPruned(TipCoins(t)) => t \in CoinBases
PROOF
<1> DEFINE U == Utxo[coinsBest]
           C == CoinsIn(Empty)
<1>1. Types /\ History /\ Rep(C, U)
  BY DEF CoinsInv, AtTip
<1>2. coinsBest \in Blocks /\ coinsBest \in DOMAIN undo \cup {Genesis} /\ HistoryOf(undo)
  BY <1>1, TipFacts DEF History
<1>3. U \in SUBSET Records
  BY <1>1 DEF Rep
<1>4. \A t \in Txs : C[t] = TipCoins(t)
  BY EmptyCoins DEF CoinsIn
<1> HIDE DEF U, C
<1>5. \A o \in OutPoints : IsAvailable(TipCoins(o[1]), o[2]) <=> o \in Outs(U)
  <2> TAKE o \in OutPoints
  <2>1. o = <<o[1], o[2]>> /\ o[1] \in Txs /\ o[2] \in Nat
    BY OutPointFacts
  <2> QED BY <2>1, <1>1, <1>4 DEF Rep, IsAvailable
<1>6. \A t \in Txs : IsPruned(TipCoins(t)) <=> \A u \in U : u.out[1] # t
  BY <1>1, <1>4, RepPruned
<1>7. \A u \in U : /\ TipCoins(u.out[1]).nHeight = u.nHeight
                   /\ TipCoins(u.out[1]).fCoinBase <=> u.out[1] \in CoinBases
  BY <1>1, <1>3, <1>4, RecordFacts DEF Rep
<1>8. ASSUME NEW t \in Txs, TipCoins(t).fCoinBase, ~IsPruned(TipCoins(t)) PROVE t \in CoinBases
  <2>1. PICK u \in U : u.out[1] = t
    BY <1>6, <1>8
  <2> QED BY <2>1, <1>7, <1>8
<1> QED BY <1>2, <1>3, <1>5, <1>6, <1>7, <1>8 DEF U

\* The chain of the coins accounts for its transactions.
LEMMA TipAccounts ==
  ASSUME NoCoinBaseAgain, CoinsInv
  PROVE  Accounts(Utxo[coinsBest], ChainTxs(coinsBest))
BY AtTipFacts, HistoryAccounts

\* Descendants is closed under spending, and the least such set.
LEMMA DescendantsFacts ==
  ASSUME PoolTypes, NEW ts
  PROVE  /\ \A o \in DOMAIN mapNextTx : o[1] \in ts \cup Descendants(ts) => mapNextTx[o] \in Descendants(ts)
         /\ \A D \in SUBSET mapTx : Closed(ts, D) => Descendants(ts) \subseteq D
PROOF
<1>1. ASSUME NEW o \in DOMAIN mapNextTx, o[1] \in ts \cup Descendants(ts)
      PROVE  mapNextTx[o] \in Descendants(ts)
  <2>1. mapNextTx[o] \in Txs
    BY DEF PoolTypes
  <2>2. ASSUME NEW D \in SUBSET mapTx, Closed(ts, D) PROVE mapNextTx[o] \in D
    <3>1. o[1] \in ts \cup D
      BY <1>1, <2>2 DEF Descendants
    <3> QED BY <3>1, <2>2 DEF Closed
  <2> QED BY <2>1, <2>2 DEF Descendants
<1>2. ASSUME NEW D \in SUBSET mapTx, Closed(ts, D) PROVE Descendants(ts) \subseteq D
  BY <1>2 DEF Descendants
<1> QED BY <1>1, <1>2

\* What CTxMemPool::remove leaves.
LEMMA RemoveFacts ==
  ASSUME PoolTypes, PoolSpendsExact, NEW ts, RemoveFromPool(ts)
  PROVE  /\ PoolSpendsExact' /\ mapTx' = mapTx \ ts
         /\ \A o \in DOMAIN mapNextTx' :
               /\ o \in DOMAIN mapNextTx /\ mapNextTx[o] \in mapTx \ ts
               /\ o \in ToSet(Vin[mapNextTx[o]])
PROOF
<1>1. /\ mapTx' = mapTx \ ts
      /\ mapNextTx' = [o \in DOMAIN mapNextTx \ UNION {ToSet(Vin[t]) : t \in ts \cap mapTx} |-> mapNextTx[o]]
  BY DEF RemoveFromPool
<1> DEFINE G == UNION {ToSet(Vin[t]) : t \in ts \cap mapTx}
<1>2. DOMAIN mapNextTx' = DOMAIN mapNextTx \ G /\ \A o \in DOMAIN mapNextTx' : mapNextTx'[o] = mapNextTx[o]
  BY <1>1
<1>3. \A o : o \in G <=> \E t \in ts \cap mapTx : o \in ToSet(Vin[t])
  OBVIOUS
<1> HIDE DEF G
<1>4. \A o : o \in DOMAIN mapNextTx <=> \E t \in mapTx : o \in ToSet(Vin[t])
  BY DEF PoolSpendsExact
<1>5. \A t \in mapTx : \A o \in ToSet(Vin[t]) : mapNextTx[o] = t
  BY DEF PoolSpendsExact
<1>6. ASSUME NEW o \in DOMAIN mapNextTx'
      PROVE  o \in DOMAIN mapNextTx /\ mapNextTx[o] \in mapTx \ ts /\ o \in ToSet(Vin[mapNextTx[o]])
  <2>1. o \in DOMAIN mapNextTx /\ o \notin G
    BY <1>2
  <2>2. PICK t \in mapTx : o \in ToSet(Vin[t]) /\ mapNextTx[o] = t
    BY <2>1, <1>4, <1>5
  <2> QED BY <2>1, <2>2, <1>3
<1>7. \A t \in mapTx' : \A o \in ToSet(Vin[t]) : o \in DOMAIN mapNextTx' /\ mapNextTx'[o] = t
  <2> SUFFICES ASSUME NEW t \in mapTx', NEW o \in ToSet(Vin[t])
               PROVE  o \in DOMAIN mapNextTx' /\ mapNextTx'[o] = t
    OBVIOUS
  <2>1. t \in mapTx /\ t \notin ts /\ mapNextTx[o] = t /\ o \in DOMAIN mapNextTx
    BY <1>1, <1>4, <1>5
  <2>2. o \notin G
    BY <2>1, <1>3, <1>5
  <2> QED BY <2>1, <2>2, <1>2
<1>8. DOMAIN mapNextTx' = UNION {ToSet(Vin[t]) : t \in mapTx'}
  BY <1>1, <1>6, <1>7
<1>9. PoolSpendsExact'
  BY <1>7, <1>8 DEF PoolSpendsExact
<1> QED BY <1>1, <1>6, <1>9

\* What addUnchecked adds.
LEMMA AddFacts ==
  ASSUME PoolSpendsExact, NEW tx, ~ConflictsWithPool(tx), addUnchecked(tx)
  PROVE  /\ PoolSpendsExact' /\ mapTx' = mapTx \cup {tx}
         /\ DOMAIN mapNextTx' = DOMAIN mapNextTx \cup ToSet(Vin[tx])
PROOF
<1>1. /\ mapTx' = mapTx \cup {tx}
      /\ mapNextTx' = [o \in DOMAIN mapNextTx \cup ToSet(Vin[tx]) |-> IF o \in ToSet(Vin[tx]) THEN tx ELSE mapNextTx[o]]
  BY DEF addUnchecked
<1>2. DOMAIN mapNextTx' = DOMAIN mapNextTx \cup ToSet(Vin[tx])
  BY <1>1
<1>3. ToSet(Vin[tx]) \cap DOMAIN mapNextTx = {}
  BY DEF ConflictsWithPool
<1>4. DOMAIN mapNextTx' = UNION {ToSet(Vin[t]) : t \in mapTx'}
  BY <1>1, <1>2 DEF PoolSpendsExact
<1>5. ASSUME NEW t \in mapTx', NEW o \in ToSet(Vin[t]) PROVE mapNextTx'[o] = t
  <2>1. mapNextTx'[o] = IF o \in ToSet(Vin[tx]) THEN tx ELSE mapNextTx[o]
    BY <1>1, <1>2, <1>4
  <2>2. CASE t \in mapTx
    <3>1. o \in DOMAIN mapNextTx /\ mapNextTx[o] = t
      BY <2>2 DEF PoolSpendsExact
    <3> QED BY <3>1, <2>1, <1>3
  <2>3. CASE t = tx
    BY <2>1, <2>3
  <2> QED BY <2>2, <2>3, <1>1
<1> QED BY <1>1, <1>2, <1>4, <1>5 DEF PoolSpendsExact

\* AcceptToMemoryPool finds every input among the unspent outputs of the chain or
\* in the pool, and none that the chain has spent.
LEMMA AcceptableFacts ==
  ASSUME NoCoinBaseAgain, CoinsInv, PoolTypes, mapTx \cap ChainTxs(coinsBest) = {},
         NEW tx \in Txs, Acceptable(tx)
  PROVE  /\ tx \notin ChainTxs(coinsBest) /\ tx \notin CoinBases /\ ~ConflictsWithPool(tx)
         /\ \A o \in ToSet(Vin[tx]) : /\ o \notin Unspendable
                                      /\ o \in Outs(Utxo[coinsBest]) \/ o[1] \in mapTx
                                      /\ \A t \in ChainTxs(coinsBest) : o \notin ToSet(Vin[t])
PROOF
<1> DEFINE U == Utxo[coinsBest]
           T == ChainTxs(coinsBest)
           coins == [t \in InputTxs(tx) |-> PoolView(t)]
<1>1. tx \notin CoinBases /\ ~ConflictsWithPool(tx) /\ CheckInputs(coins, tx, Height[coinsBest] + 1)
  BY DEF Acceptable
<1>2. Accounts(U, T)
  BY TipAccounts
<1>3. ToSet(Vin[tx]) \in SUBSET OutPoints
  BY ValueInFacts
<1>4. ASSUME NEW o \in ToSet(Vin[tx])
      PROVE  /\ o \notin Unspendable /\ (o \in Outs(U) \/ o[1] \in mapTx)
             /\ \A t \in T : o \notin ToSet(Vin[t])
  <2>1. o \in OutPoints
    BY <1>3
  <2>2. IsAvailable(coins[o[1]], o[2]) /\ coins[o[1]] = PoolView(o[1])
    BY <1>1 DEF CheckInputs, InputTxs
  <2>3. IsAvailable(PoolView(o[1]), o[2])
    BY <2>2
  <2>4. CASE TipHaveCoins(o[1])
    <3>1. IsAvailable(TipCoins(o[1]), o[2])
      BY <2>3, <2>4 DEF PoolView
    <3>2. o \in Outs(U)
      BY <3>1, <2>1, AtTipFacts
    <3>3. o \notin Unspendable
      BY <3>2, AtTipFacts, UtxoSpendable
    <3> QED BY <3>2, <3>3, <1>2 DEF Accounts
  <2>5. CASE ~TipHaveCoins(o[1])
    <3>1. o[1] \in mapTx /\ IsAvailable(CoinsOf(o[1], 0), o[2])
      BY <2>3, <2>5 DEF PoolView, NoCoins, IsAvailable
    <3>2. o = <<o[1], o[2]>>
      BY <2>1, OutPointFacts
    <3>3. o \notin Unspendable
      BY <3>1, <3>2 DEF CoinsOf, IsAvailable
    <3>4. \A t \in T : o \in ToSet(Vin[t]) => o[1] \in T
      BY <1>2 DEF Accounts
    <3> QED BY <3>1, <3>3, <3>4
  <2> QED BY <2>4, <2>5
<1>5. tx \notin T
  <2>1. Len(Vin[tx]) \in Nat \ {0} /\ ToSet(Vin[tx]) = {Vin[tx][i] : i \in 1..Len(Vin[tx])}
    BY <1>1, InputFacts
  <2>2. 1 \in 1..Len(Vin[tx])
    BY <2>1
  <2>3. Vin[tx][1] \in ToSet(Vin[tx])
    BY <2>1, <2>2
  <2> QED BY <2>3, <1>4
<1> QED BY <1>1, <1>4, <1>5

\* No block of the call is left, or there is no call.
LEMMA NoneAhead ==
  ASSUME pc \notin {"conflicts", "resurrect"} \/ n > Len(Vtx[blk]), n \in Nat, Len(Vtx[blk]) \in Nat
  PROVE  ToConnect = {} /\ ToReturn = {}
PROOF
<1>1. CASE pc \notin {"conflicts", "resurrect"}
  BY <1>1 DEF ToConnect, ToReturn
<1>2. CASE n > Len(Vtx[blk])
  <2>1. n..Len(Vtx[blk]) = {}
    BY <1>2
  <2> QED BY <2>1 DEF ToConnect, ToReturn, Ahead
<1> QED BY <1>1, <1>2

\* A step that leaves the pool and the chain of the coins alone.
LEMMA KeepPool ==
  ASSUME PoolInv, UNCHANGED poolVars, UNCHANGED coinsBest, ToConnect = {}, ToReturn = {},
         pc' \notin {"conflicts", "resurrect"}
  PROVE  PoolInv'
PROOF
<1>1. UNCHANGED <<mapTx, mapNextTx, coinsBest>>
  BY DEF poolVars
<1>2. ToConnect' = {} /\ ToReturn' = {}
  BY DEF ToConnect, ToReturn
<1>3. PoolSpendsExact' /\ (mapTx \cap CoinBases)' = {}
  BY <1>1 DEF PoolInv, PoolSpendsExact
<1>4. OffChain' /\ NotSpent' /\ Supplied'
  BY <1>1, <1>2 DEF PoolInv, OffChain, NotSpent, Supplied, ChainTxs
<1>5. NotBack' /\ PoolLoop'
  BY <1>2 DEF NotBack, PoolLoop
<1> QED BY <1>3, <1>4, <1>5 DEF PoolInv

\* A step that leaves the pool and the loop alone.
LEMMA KeepPoolLoop ==
  ASSUME PoolInv, UNCHANGED poolVars, UNCHANGED <<coinsBest, pc, blk, n, undo>>
  PROVE  PoolInv'
PROOF
<1>1. UNCHANGED <<mapTx, mapNextTx, coinsBest, pc, blk, n, undo>>
  BY DEF poolVars
<1>2. ToConnect' = ToConnect /\ ToReturn' = ToReturn
  BY <1>1 DEF ToConnect, ToReturn, Ahead
<1>3. PoolSpendsExact' /\ (mapTx \cap CoinBases)' = {} /\ PoolLoop'
  BY <1>1 DEF PoolInv, PoolSpendsExact, PoolLoop
<1>4. OffChain' /\ NotSpent' /\ Supplied' /\ NotBack'
  BY <1>1, <1>2 DEF PoolInv, OffChain, NotSpent, Supplied, NotBack, ChainTxs
<1> QED BY <1>3, <1>4 DEF PoolInv

\* A new transaction in the pool, whatever it comes from.
LEMMA AddPool ==
  ASSUME NoCoinBaseAgain, CoinsInv, PoolTypes, PoolInv, pc # "conflicts",
         NEW tx \in Txs, Acceptable(tx), addUnchecked(tx),
         UNCHANGED <<pc, coinsBest>>, ToReturn \subseteq ToReturn' \cup {tx}
  PROVE  PoolSpendsExact' /\ OffChain' /\ NotSpent' /\ Supplied' /\ (mapTx \cap CoinBases)' = {}
PROOF
<1>1. ToConnect = {} /\ ToConnect' = {}
  BY DEF ToConnect
<1>2. mapTx \cap ChainTxs(coinsBest) = {}
  BY <1>1 DEF PoolInv, OffChain
<1> DEFINE T == ChainTxs(coinsBest)
           U == Utxo[coinsBest]
<1>3. /\ tx \notin T /\ tx \notin CoinBases /\ ~ConflictsWithPool(tx)
      /\ \A o \in ToSet(Vin[tx]) : /\ o \notin Unspendable
                                   /\ o \in Outs(U) \/ o[1] \in mapTx
                                   /\ \A t \in T : o \notin ToSet(Vin[t])
  BY <1>2, AcceptableFacts
<1>4. /\ PoolSpendsExact' /\ mapTx' = mapTx \cup {tx}
      /\ DOMAIN mapNextTx' = DOMAIN mapNextTx \cup ToSet(Vin[tx])
  BY <1>3, AddFacts DEF PoolInv
<1>5. T' = T /\ U' = U
  BY DEF ChainTxs
<1> HIDE DEF T, U
<1>6. OffChain'
  BY <1>1, <1>2, <1>3, <1>4, <1>5 DEF OffChain, T
<1>7. NotSpent'
  BY <1>1, <1>3, <1>4, <1>5 DEF PoolInv, NotSpent, T
<1>8. Supplied'
  BY <1>1, <1>3, <1>4, <1>5 DEF PoolInv, Supplied, U
<1>9. (mapTx \cap CoinBases)' = {}
  BY <1>3, <1>4 DEF PoolInv
<1> QED BY <1>4, <1>6, <1>7, <1>8, <1>9

\* AcceptToMemoryPool, called for a peer or for the wallet.
LEMMA AcceptPool ==
  ASSUME NoCoinBaseAgain, CoinsInv, PoolTypes, PoolInv, pc \notin {"conflicts", "resurrect"},
         NEW tx \in Txs, UNCHANGED poolVars \/ (Acceptable(tx) /\ addUnchecked(tx)),
         UNCHANGED <<pc, coinsBest>>
  PROVE  PoolInv'
PROOF
<1>1. ToConnect = {} /\ ToReturn = {} /\ ToReturn' = {}
  BY DEF ToConnect, ToReturn
<1>2. CASE UNCHANGED poolVars
  BY <1>1, <1>2, KeepPool
<1>3. CASE Acceptable(tx) /\ addUnchecked(tx)
  <2>1. PoolSpendsExact' /\ OffChain' /\ NotSpent' /\ Supplied' /\ (mapTx \cap CoinBases)' = {}
    BY <1>1, <1>3, AddPool
  <2>2. NotBack' /\ PoolLoop'
    BY <1>1 DEF NotBack, PoolLoop
  <2> QED BY <2>1, <2>2 DEF PoolInv
<1> QED BY <1>2, <1>3

\* A block is connected: what it has in common with the pool is still to be removed.
LEMMA FinishConnectPool ==
  ASSUME CoinsInv, PoolTypes, PoolInv, FinishConnect
  PROVE  PoolInv'
PROOF
<1>1. Types /\ Finishing /\ pc = "connected" /\ HistoryOf(undo)
  BY DEF CoinsInv, FinishConnect, Loops, History
<1>2. coinsBest = tip /\ blk \in DOMAIN undo /\ Prev[blk] = tip
  BY <1>1 DEF Finishing
<1>3. blk \in Blocks \ {Genesis}
  BY <1>1, <1>2 DEF HistoryOf
<1>4. ToConnect = {} /\ ToReturn = {}
  BY <1>1 DEF ToConnect, ToReturn
<1>5. /\ coinsBest' = blk /\ pc' = "conflicts" /\ n' = 1 /\ UNCHANGED <<blk, mapTx, mapNextTx>>
      /\ blk \in DOMAIN undo'
  BY <1>2 DEF FinishConnect, poolVars
<1>6. ToConnect' = ToSet(Vtx[blk]) /\ ToReturn' = {}
  BY <1>5, <1>3, VtxSet DEF ToConnect, ToReturn, Ahead
<1>7. ChainTxs(coinsBest') = ChainTxs(coinsBest) \cup ToSet(Vtx[blk])
  BY <1>5, <1>2, <1>3, ChainTxsFacts
<1>8. OffChain'
  BY <1>4, <1>5, <1>6, <1>7 DEF PoolInv, OffChain, ChainTxs
<1>9. NotSpent'
  BY <1>4, <1>5, <1>6, <1>7 DEF PoolInv, NotSpent, ChainTxs
<1>10. \A o \in Outs(Utxo[coinsBest]) : o \in Outs(Utxo[blk]) \/ \E t \in ToSet(Vtx[blk]) : o \in ToSet(Vin[t])
  <2>1. Utxo[blk] = Part(blk, Len(Vtx[blk]))
    BY <1>3, UtxoFacts
  <2>2. \A u \in Utxo[coinsBest] : u \in Utxo[blk] \/ u.out \in Gone(blk, Len(Vtx[blk]))
    BY <2>1, <1>2 DEF Part, Minus
  <2>3. \A o \in Gone(blk, Len(Vtx[blk])) : \E t \in ToSet(Vtx[blk]) : o \in ToSet(Vin[t])
    BY <1>3, VtxSet DEF Gone
  <2> QED BY <2>2, <2>3 DEF Outs
<1>11. Supplied'
  <2>1. \A o \in DOMAIN mapNextTx : o \notin Unspendable /\ (o[1] \in mapTx \cup CoinBases \/ o \in Outs(Utxo[coinsBest]))
    BY <1>4 DEF PoolInv, Supplied
  <2> QED BY <2>1, <1>5, <1>6, <1>10 DEF Supplied
<1>12. PoolSpendsExact' /\ (mapTx \cap CoinBases)' = {} /\ PoolLoop' /\ NotBack'
  BY <1>5, <1>6 DEF PoolInv, PoolSpendsExact, PoolLoop, NotBack
<1> QED BY <1>8, <1>9, <1>11, <1>12 DEF PoolInv

\* One more transaction of the block removed from the pool, with what conflicts with it.
LEMMA RemoveConflictsPool ==
  ASSUME CoinsInv, PoolTypes, PoolInv, RemoveConflicts
  PROVE  PoolInv'
PROOF
<1> DEFINE tx == Vtx[blk][n]
           conflicts == {mapNextTx[o] : o \in ToSet(Vin[tx]) \cap DOMAIN mapNextTx} \ {tx}
           ts == {tx} \cup conflicts \cup Descendants(conflicts)
<1>1. /\ pc = "conflicts" /\ n <= Len(Vtx[blk]) /\ n' = n + 1 /\ RemoveFromPool(ts)
      /\ UNCHANGED <<pc, blk, coinsBest, undo>>
  BY DEF RemoveConflicts, RemoveForBlock, coinVars
<1>2. coinsBest = blk /\ blk \in DOMAIN undo /\ n # 0 /\ n \in Nat /\ HistoryOf(undo)
  BY <1>1 DEF CoinsInv, Loops, Finishing, PoolInv, PoolLoop, Types, History
<1>3. blk \in Blocks \ {Genesis}
  BY <1>2 DEF HistoryOf
<1>4. Len(Vtx[blk]) \in Nat /\ n \in 1..Len(Vtx[blk])
  BY <1>1, <1>2, <1>3, BlockFacts
<1>5. tx \in Txs
  BY <1>3, <1>4, BlockFacts
<1>6. ToConnect = ToConnect' \cup {tx} /\ ToReturn = {} /\ ToReturn' = {}
  <2>1. \A i : i \in n..Len(Vtx[blk]) <=> i = n \/ i \in n'..Len(Vtx[blk])
    BY <1>1, <1>4
  <2> QED BY <2>1, <1>1 DEF ToConnect, ToReturn, Ahead
<1>7. \A o \in ToSet(Vin[tx]) \cap DOMAIN mapNextTx : mapNextTx[o] = tx \/ mapNextTx[o] \in conflicts
  OBVIOUS
<1>8. \A o \in DOMAIN mapNextTx : o[1] \in conflicts \cup Descendants(conflicts) => mapNextTx[o] \in Descendants(conflicts)
  BY DescendantsFacts
<1> HIDE DEF conflicts, tx
<1>9. ts = {tx} \cup conflicts \cup Descendants(conflicts)
  OBVIOUS
<1> HIDE DEF ts
<1>10. /\ PoolSpendsExact' /\ mapTx' = mapTx \ ts
       /\ \A o \in DOMAIN mapNextTx' : /\ o \in DOMAIN mapNextTx /\ mapNextTx[o] \in mapTx \ ts
                                       /\ o \in ToSet(Vin[mapNextTx[o]])
  BY <1>1, RemoveFacts DEF PoolInv
<1>11. \A o \in DOMAIN mapNextTx' : /\ o \in DOMAIN mapNextTx /\ o \notin ToSet(Vin[tx])
                                    /\ o[1] \notin conflicts \cup Descendants(conflicts)
  BY <1>7, <1>8, <1>9, <1>10
<1>12. ChainTxs(coinsBest)' = ChainTxs(coinsBest) /\ coinsBest' = coinsBest
  BY <1>1 DEF ChainTxs
<1>13. OffChain'
  BY <1>6, <1>9, <1>10, <1>12 DEF PoolInv, OffChain
<1>14. NotSpent'
  BY <1>6, <1>11, <1>12 DEF PoolInv, NotSpent
<1>15. Supplied'
  <2> SUFFICES ASSUME NEW o \in DOMAIN mapNextTx'
               PROVE  /\ o \notin Unspendable
                      /\ \/ o[1] \in mapTx' \cup CoinBases \cup ToReturn'
                         \/ o \in Outs(Utxo[coinsBest])
                         \/ \E t \in ToConnect' : o \in ToSet(Vin[t])
    BY <1>12 DEF Supplied
  <2>1. /\ o \in DOMAIN mapNextTx /\ o \notin ToSet(Vin[tx])
        /\ o[1] \notin conflicts \cup Descendants(conflicts)
    BY <1>11
  <2>2. /\ o \notin Unspendable
        /\ \/ o[1] \in mapTx \cup CoinBases
           \/ o \in Outs(Utxo[coinsBest])
           \/ \E t \in ToConnect : o \in ToSet(Vin[t])
    BY <2>1, <1>6 DEF PoolInv, Supplied
  <2>3. CASE o[1] \in mapTx /\ o[1] # tx
    BY <2>1, <2>2, <2>3, <1>9, <1>10
  <2>4. CASE o[1] = tx
    <3>1. o \in OutPoints
      BY <2>1 DEF PoolTypes
    <3>2. o \in Outputs(Vtx[blk][n])
      BY <3>1, <2>4, <1>5, OutputFacts DEF tx
    <3> DEFINE u == [out |-> o, nHeight |-> Height[blk]]
    <3>3. u \in Made(blk, Len(Vtx[blk]))
      BY <3>2, <2>2, <1>4, MadeMember
    <3>4. u.out = o
      OBVIOUS
    <3> HIDE DEF u
    <3>5. Utxo[blk] = Part(blk, Len(Vtx[blk]))
      BY <1>3, UtxoFacts
    <3>6. o \in Outs(Utxo[coinsBest]) \/ o \in Gone(blk, Len(Vtx[blk]))
      BY <3>3, <3>4, <3>5, <1>2 DEF Part, Minus, Outs
    <3>7. o \in Gone(blk, Len(Vtx[blk])) => \E t \in ToConnect : o \in ToSet(Vin[t])
      <4>1. \A t \in ChainTxs(coinsBest) : o \in ToSet(Vin[t]) => t \in ToConnect
        BY <2>1 DEF PoolInv, NotSpent
      <4>2. ToSet(Vtx[blk]) \subseteq ChainTxs(coinsBest)
        BY <1>2, <1>3, ChainTxsFacts
      <4>3. o \in Gone(blk, Len(Vtx[blk])) => \E t \in ToSet(Vtx[blk]) : o \in ToSet(Vin[t])
        BY <1>3, VtxSet DEF Gone
      <4> QED BY <4>1, <4>2, <4>3
    <3> QED BY <3>6, <3>7, <2>1, <2>2, <1>6
  <2>5. CASE o[1] \notin mapTx
    BY <2>1, <2>2, <2>5, <1>6
  <2> QED BY <2>3, <2>4, <2>5
<1>16. NotBack' /\ PoolLoop'
  BY <1>1, <1>2, <1>6 DEF NotBack, PoolLoop
<1>17. (mapTx \cap CoinBases)' = {}
  BY <1>10 DEF PoolInv
<1> QED BY <1>10, <1>13, <1>14, <1>15, <1>16, <1>17 DEF PoolInv

\* The transactions of a block that was connected, among themselves and on its chain.
LEMMA BlockInputs ==
  ASSUME NoCoinBaseAgain, CoinsInv, NEW b \in DOMAIN undo
  PROVE  /\ b \in Blocks \ {Genesis}
         /\ \A k \in 1..Len(Vtx[b]) :
               /\ Accounts(Part(b, k - 1), Upto(b, k - 1)) /\ Vtx[b][k] \notin Upto(b, k - 1)
               /\ ToSet(Vin[Vtx[b][k]]) \subseteq Outs(Part(b, k - 1))
               /\ \A o \in ToSet(Vin[Vtx[b][k]]) : o[1] \in Upto(b, k - 1)
               /\ \A i \in 1..(k - 1) : ToSet(Vin[Vtx[b][i]]) \cap ToSet(Vin[Vtx[b][k]]) = {}
PROOF
<1>1. HistoryOf(undo)
  BY DEF CoinsInv, History
<1>2. /\ b \in Blocks \ {Genesis} /\ Prev[b] \in DOMAIN undo \cup {Genesis}
      /\ Fresh(b) /\ Available(b, Len(Vtx[b]))
  BY <1>1 DEF HistoryOf, Applied
<1>3. Len(Vtx[b]) \in Nat /\ Len(Vtx[b]) \in 0..Len(Vtx[b])
  BY <1>2, BlockFacts
<1>4. /\ \A k \in 0..Len(Vtx[b]) : Accounts(Part(b, k), Upto(b, k))
      /\ \A k \in 1..Len(Vtx[b]) : Vtx[b][k] \notin Upto(b, k - 1)
  BY <1>1, <1>2, <1>3, HistoryAccounts, BlockAccounts
<1>5. ASSUME NEW k \in 1..Len(Vtx[b])
      PROVE  /\ Accounts(Part(b, k - 1), Upto(b, k - 1))
             /\ ToSet(Vin[Vtx[b][k]]) \subseteq Outs(Part(b, k - 1))
             /\ \A o \in ToSet(Vin[Vtx[b][k]]) : o[1] \in Upto(b, k - 1)
             /\ \A i \in 1..(k - 1) : ToSet(Vin[Vtx[b][i]]) \cap ToSet(Vin[Vtx[b][k]]) = {}
  <2>1. k - 1 \in 0..Len(Vtx[b])
    BY <1>3
  <2>2. Accounts(Part(b, k - 1), Upto(b, k - 1))
    BY <1>4, <2>1
  <2>3. ToSet(Vin[Vtx[b][k]]) \subseteq Outs(Part(b, k - 1))
    BY <1>2 DEF Available
  <2>4. \A i \in 1..(k - 1) : Vtx[b][i] \in Upto(b, k - 1)
    BY DEF Upto
  <2> QED BY <2>2, <2>3, <2>4 DEF Accounts, Outs
<1> QED BY <1>2, <1>4, <1>5

\* A block is disconnected: its transactions are in neither chain nor pool.
LEMMA FinishDisconnectPool ==
  ASSUME NoCoinBaseAgain, CoinsInv, PoolTypes, PoolInv, FinishDisconnect
  PROVE  PoolInv'
PROOF
<1>1. Types /\ Disconnecting /\ pc = "disconnect" /\ History
  BY DEF CoinsInv, FinishDisconnect, Loops
<1>2. coinsBest = blk /\ blk # Genesis /\ blk \in DOMAIN undo
  BY <1>1 DEF Disconnecting, History
<1>3. blk \in Blocks \ {Genesis} /\ Len(Vtx[blk]) \in Nat
  BY <1>1, <1>2, BlockFacts DEF History, HistoryOf
<1>4. ToConnect = {} /\ ToReturn = {}
  BY <1>1 DEF ToConnect, ToReturn
<1>5. /\ coinsBest' = Prev[blk] /\ pc' = "resurrect" /\ n' = 1 /\ UNCHANGED <<blk, mapTx, mapNextTx, undo>>
  BY DEF FinishDisconnect, poolVars
<1>6. ToConnect' = {} /\ ToReturn' = ToSet(Vtx[blk])
  BY <1>3, <1>5, VtxSet DEF ToConnect, ToReturn, Ahead
<1>7. ChainTxs(coinsBest) = ChainTxs(Prev[blk]) \cup ToSet(Vtx[blk])
  BY <1>2, <1>3, ChainTxsFacts
<1>8. OffChain'
  BY <1>4, <1>5, <1>7 DEF PoolInv, OffChain, ChainTxs
<1>9. NotSpent'
  BY <1>4, <1>5, <1>7 DEF PoolInv, NotSpent, ChainTxs
<1>10. NotBack'
  BY <1>4, <1>5, <1>6, <1>7 DEF PoolInv, OffChain, NotSpent, NotBack
<1>11. \A o \in Outs(Utxo[blk]) : o \in Outs(Utxo[Prev[blk]]) \/ o[1] \in ToSet(Vtx[blk])
  <2>1. Utxo[blk] = Part(blk, Len(Vtx[blk])) /\ Len(Vtx[blk]) \in 0..Len(Vtx[blk])
    BY <1>3, UtxoFacts
  <2>2. \A u \in Utxo[blk] : u \in Utxo[Prev[blk]] \/ u \in Made(blk, Len(Vtx[blk]))
    BY <2>1 DEF Part, Minus
  <2>3. \A u \in Made(blk, Len(Vtx[blk])) : u.out[1] \in ToSet(Vtx[blk])
    <3> TAKE u \in Made(blk, Len(Vtx[blk]))
    <3>1. PICK i \in 1..Len(Vtx[blk]) : u.out[1] = Vtx[blk][i]
      BY <1>3, <2>1, MadeFacts
    <3> QED BY <1>3, <3>1, VtxSet
  <2> QED BY <2>2, <2>3 DEF Outs
<1>12. Supplied'
  <2>1. \A o \in DOMAIN mapNextTx : o \notin Unspendable /\ (o[1] \in mapTx \cup CoinBases \/ o \in Outs(Utxo[blk]))
    BY <1>2, <1>4 DEF PoolInv, Supplied
  <2> QED BY <2>1, <1>5, <1>6, <1>11 DEF Supplied
<1>13. PoolSpendsExact' /\ (mapTx \cap CoinBases)' = {} /\ PoolLoop'
  BY <1>2, <1>5 DEF PoolInv, PoolSpendsExact, PoolLoop
<1> QED BY <1>8, <1>9, <1>10, <1>12, <1>13 DEF PoolInv

\* One more transaction of the block offered to the pool.
LEMMA ResurrectPool ==
  ASSUME NoCoinBaseAgain, CoinsInv, PoolTypes, PoolInv, Resurrect
  PROVE  PoolInv'
PROOF
<1> DEFINE tx == Vtx[blk][n]
           ts == {tx} \cup Descendants({tx})
<1>1. /\ pc = "resurrect" /\ n <= Len(Vtx[blk]) /\ n' = n + 1
      /\ UNCHANGED <<pc, blk, coinsBest, undo>>
  BY DEF Resurrect, coinVars
<1>2. blk \in DOMAIN undo /\ n # 0 /\ n \in Nat
  BY <1>1 DEF CoinsInv, PoolInv, PoolLoop, Types
<1>3. blk \in Blocks \ {Genesis}
  BY <1>2, BlockInputs
<1>4. Len(Vtx[blk]) \in Nat /\ n \in 1..Len(Vtx[blk])
  BY <1>1, <1>2, <1>3, BlockFacts
<1>5. tx \in Txs
  BY <1>3, <1>4, BlockFacts
<1>6. ToReturn = ToReturn' \cup {tx} /\ ToConnect = {} /\ ToConnect' = {}
  <2>1. \A i : i \in n..Len(Vtx[blk]) <=> i = n \/ i \in n'..Len(Vtx[blk])
    BY <1>1, <1>4
  <2> QED BY <2>1, <1>1 DEF ToConnect, ToReturn, Ahead
<1>7. \A t \in ToReturn' : t # tx /\ ToSet(Vin[tx]) \cap ToSet(Vin[t]) = {}
  <2> SUFFICES ASSUME NEW t \in ToReturn' PROVE t # tx /\ ToSet(Vin[tx]) \cap ToSet(Vin[t]) = {}
    OBVIOUS
  <2>1. PICK k \in n'..Len(Vtx[blk]) : t = Vtx[blk][k]
    BY <1>1 DEF ToReturn, Ahead
  <2>2. k \in 1..Len(Vtx[blk]) /\ n \in 1..(k - 1) /\ k # n
    BY <2>1, <1>1, <1>4
  <2>3. t # tx
    BY <2>1, <2>2, <1>3, <1>4, BlockFacts
  <2>4. ToSet(Vin[Vtx[blk][n]]) \cap ToSet(Vin[Vtx[blk][k]]) = {}
    BY <2>2, <1>2, BlockInputs
  <2> QED BY <2>1, <2>3, <2>4
<1>8. PoolLoop'
  BY <1>1, <1>2 DEF PoolLoop
<1>9. ChainTxs(coinsBest)' = ChainTxs(coinsBest) /\ coinsBest' = coinsBest
  BY <1>1 DEF ChainTxs
<1>10. CASE tx \in CoinBases
  <2>1. UNCHANGED <<mapTx, mapNextTx>>
    BY <1>10 DEF Resurrect, poolVars
  <2>2. PoolSpendsExact' /\ (mapTx \cap CoinBases)' = {} /\ OffChain' /\ NotSpent'
    BY <2>1, <1>6, <1>9 DEF PoolInv, PoolSpendsExact, OffChain, NotSpent
  <2> HIDE DEF tx
  <2>3. Supplied' /\ NotBack'
    BY <2>1, <1>6, <1>9, <1>10 DEF PoolInv, Supplied, NotBack
  <2> QED BY <2>2, <2>3, <1>8 DEF PoolInv
<1>11. CASE tx \notin CoinBases /\ Acceptable(tx)
  <2>1. addUnchecked(tx)
    BY <1>11 DEF Resurrect
  <2>2. PoolSpendsExact' /\ OffChain' /\ NotSpent' /\ Supplied' /\ (mapTx \cap CoinBases)' = {}
    <3> HIDE DEF tx
    <3> QED BY <2>1, <1>1, <1>5, <1>6, <1>11, AddPool
  <2>3. mapTx' = mapTx \cup {tx} /\ DOMAIN mapNextTx' = DOMAIN mapNextTx \cup ToSet(Vin[tx])
    BY <2>1 DEF addUnchecked
  <2>4. NotBack'
    <3> HIDE DEF tx
    <3> QED BY <2>3, <1>6, <1>7 DEF PoolInv, NotBack
  <2> QED BY <2>2, <2>4, <1>8 DEF PoolInv
<1>12. CASE tx \notin CoinBases /\ ~Acceptable(tx)
  <2>1. RemoveFromPool(ts)
    BY <1>12 DEF Resurrect
  <2>2. \A o \in DOMAIN mapNextTx : o[1] \in ts => mapNextTx[o] \in ts
    BY DescendantsFacts
  <2>3. tx \in ts
    OBVIOUS
  <2> HIDE DEF tx, ts
  <2>4. /\ PoolSpendsExact' /\ mapTx' = mapTx \ ts
        /\ \A o \in DOMAIN mapNextTx' : o \in DOMAIN mapNextTx /\ mapNextTx[o] \in mapTx \ ts
    BY <2>1, RemoveFacts DEF PoolInv
  <2>5. OffChain' /\ NotSpent' /\ NotBack' /\ (mapTx \cap CoinBases)' = {}
    BY <2>4, <1>6, <1>9 DEF PoolInv, OffChain, NotSpent, NotBack
  <2>6. Supplied'
    <3>1. \A o \in DOMAIN mapNextTx' : o \in DOMAIN mapNextTx /\ o[1] \notin ts
      BY <2>2, <2>4
    <3>2. \A o \in DOMAIN mapNextTx' :
             /\ o \notin Unspendable
             /\ o[1] \in mapTx \cup CoinBases \cup ToReturn \/ o \in Outs(Utxo[coinsBest])
      BY <3>1, <1>6 DEF PoolInv, Supplied
    <3> QED BY <3>1, <3>2, <2>3, <2>4, <1>6, <1>9 DEF Supplied
  <2> QED BY <2>4, <2>5, <2>6, <1>8 DEF PoolInv
<1> QED BY <1>10, <1>11, <1>12

\* An empty pool.
LEMMA NoPool ==
  ASSUME mapTx = {}, DOMAIN mapNextTx = {}, pc \notin {"conflicts", "resurrect"}
  PROVE  PoolInv
PROOF
<1>1. ToConnect = {} /\ ToReturn = {}
  BY DEF ToConnect, ToReturn
<1>2. PoolSpendsExact
  BY DEF PoolSpendsExact
<1> QED BY <1>1, <1>2 DEF PoolInv, PoolLoop, OffChain, NotSpent, Supplied, NotBack

\* Every step of the ledger keeps the invariant of the pool.
LEMMA PoolNext ==
  ASSUME NoCoinBaseAgain, CoinsInv, PoolTypes, PoolInv, [Next]_vars
  PROVE  PoolInv'
PROOF
<1>1. Types /\ History /\ Loops
  BY DEF CoinsInv
<1>2. ASSUME UNCHANGED vars PROVE PoolInv'
  BY <1>2, KeepPoolLoop DEF vars, coinVars, callVars
<1>3. ASSUME NEW b \in Blocks \ {Genesis}, AcceptBlock(b) PROVE PoolInv'
  BY <1>3, KeepPoolLoop DEF AcceptBlock, coinVars, callVars
<1>4. ASSUME NEW tx \in Txs, AcceptToMemoryPool(tx) PROVE PoolInv'
  BY <1>4, AcceptPool DEF AcceptToMemoryPool, Settled, coinVars, callVars
<1>5. ASSUME BeginConnect \/ ConnectTx \/ EndConnectBlock \/ BeginDisconnect \/ DisconnectTx PROVE PoolInv'
  <2>1. /\ pc \in {"idle", "connect", "disconnect"} /\ UNCHANGED poolVars /\ UNCHANGED coinsBest
        /\ pc' \in {"idle", "connect", "connected", "disconnect", "unclean"}
    BY <1>5 DEF BeginConnect, ConnectTx, EndConnectBlock, BeginDisconnect, DisconnectTx, ConnectFails, coinVars
  <2>2. ToConnect = {} /\ ToReturn = {}
    BY <2>1 DEF ToConnect, ToReturn
  <2> QED BY <2>1, <2>2, KeepPool
<1>6. ASSUME FinishConnect PROVE PoolInv'
  BY <1>6, FinishConnectPool
<1>7. ASSUME RemoveConflicts PROVE PoolInv'
  BY <1>7, RemoveConflictsPool
<1>8. ASSUME ConnectDone \/ DisconnectDone PROVE PoolInv'
  <2>1. /\ pc \in {"conflicts", "resurrect"} /\ n > Len(Vtx[blk]) /\ pc' = "idle"
        /\ UNCHANGED poolVars /\ UNCHANGED coinsBest
    BY <1>8 DEF ConnectDone, DisconnectDone, coinVars
  <2>2. blk \in Blocks \ {Genesis} /\ n \in Nat
    BY <2>1, <1>1 DEF PoolInv, PoolLoop, History, HistoryOf, Types
  <2>3. Len(Vtx[blk]) \in Nat
    BY <2>2, BlockFacts
  <2>4. ToConnect = {} /\ ToReturn = {}
    BY <2>1, <2>2, <2>3, NoneAhead
  <2> QED BY <2>1, <2>4, KeepPool
<1>9. ASSUME FinishDisconnect PROVE PoolInv'
  BY <1>9, FinishDisconnectPool
<1>10. ASSUME Resurrect PROVE PoolInv'
  BY <1>10, ResurrectPool
<1> QED BY <1>2, <1>3, <1>4, <1>5, <1>6, <1>7, <1>8, <1>9, <1>10 DEF Next

\* Between calls nothing is left to remove or to give back.
LEMMA PoolInvExact ==
  ASSUME NoCoinBaseAgain, CoinsInv, PoolTypes, PoolInv
  PROVE  PoolExact
PROOF
<1>1. PoolSpendsExact
  BY DEF PoolInv
<1>2. ASSUME pc = "idle", NEW t \in mapTx
      PROVE  /\ IsPruned(TipCoins(t))
             /\ \A o \in ToSet(Vin[t]) : Connects(o) \/ o[1] \in CoinBases
  <2>1. ToConnect = {} /\ ToReturn = {}
    BY <1>2 DEF ToConnect, ToReturn
  <2>2. t \in Txs /\ t \notin ChainTxs(coinsBest)
    BY <2>1 DEF PoolInv, OffChain, PoolTypes
  <2>3. \A u \in Utxo[coinsBest] : u.out[1] \in ChainTxs(coinsBest)
    BY TipAccounts DEF Accounts
  <2>4. IsPruned(TipCoins(t))
    BY <2>2, <2>3, AtTipFacts
  <2>5. ASSUME NEW o \in ToSet(Vin[t]) PROVE Connects(o) \/ o[1] \in CoinBases
    <3>1. o \in DOMAIN mapNextTx
      BY <1>1 DEF PoolSpendsExact
    <3>2. o[1] \in mapTx \cup CoinBases \/ o \in Outs(Utxo[coinsBest])
      BY <3>1, <2>1 DEF PoolInv, Supplied
    <3>3. o \in OutPoints
      BY <3>1 DEF PoolTypes
    <3>4. o \in Outs(Utxo[coinsBest]) => IsAvailable(TipCoins(o[1]), o[2])
      BY <3>3, AtTipFacts
    <3> QED BY <3>2, <3>4 DEF Connects
  <2> QED BY <2>4, <2>5
<1> QED BY <1>1, <1>2 DEF PoolExact, PoolFollowsChain

\* A step between two calls, or of a call that leaves the pool alone.
LEMMA IdlePool ==
  ASSUME PoolInv, pc \notin {"conflicts", "resurrect"}, pc' \notin {"conflicts", "resurrect"},
         UNCHANGED poolVars, UNCHANGED coinsBest
  PROVE  PoolInv'
PROOF
<1>1. ToConnect = {} /\ ToReturn = {}
  BY DEF ToConnect, ToReturn
<1> QED BY <1>1, KeepPool

\* A step that empties the pool.
LEMMA PoolEmptied ==
  ASSUME mapTx' = {}, DOMAIN mapNextTx' = {}, pc' \notin {"conflicts", "resurrect"}
  PROVE  PoolInv'
PROOF
<1>1. ToConnect' = {} /\ ToReturn' = {}
  BY DEF ToConnect, ToReturn
<1>2. PoolSpendsExact'
  BY DEF PoolSpendsExact
<1> QED BY <1>1, <1>2 DEF PoolInv, PoolLoop, OffChain, NotSpent, Supplied, NotBack

\* In every reachable state, between two calls: the pool has no two transactions that
\* spend the same output, none that the chain has, and each input of it is unspent, made
\* by the pool, or an output of a coinbase.  RemoveConflicts and Resurrect take away what
\* AcceptToMemoryPool would not accept now, when a chain cannot have a coinbase twice.
THEOREM PoolAlwaysExact == NoCoinBaseAgain => (Spec => []PoolExact)
PROOF
<1> SUFFICES ASSUME NoCoinBaseAgain PROVE Spec => []PoolExact
  OBVIOUS
<1> DEFINE Inv == CoinsInv /\ PoolTypes /\ PoolInv
<1>1. Init => Inv
  BY InitInv, NoPool DEF Init
<1>2. Inv /\ [Next]_vars => Inv'
  BY NextInv, PoolNext
<1>3. Inv => PoolExact
  BY PoolInvExact
<1> HIDE DEF Inv
<1> QED BY <1>1, <1>2, <1>3, PTL DEF Spec

\* The miner reads the pool only.
LEMMA PoolMinerNext ==
  ASSUME NoCoinBaseAgain, MinerInv, PoolInv, [MinerNext]_mvars
  PROVE  PoolInv'
PROOF
<1>1. CoinsInv /\ PoolTypes
  BY DEF MinerInv
<1>2. ASSUME Next \/ UNCHANGED vars PROVE PoolInv'
  BY <1>1, <1>2, PoolNext
<1>3. ASSUME ReadTip \/ EndSearch \/ Submitted PROVE UNCHANGED vars
  BY <1>3 DEF ReadTip, EndSearch, Submitted
<1>4. ASSUME BeginTemplate \/ EndTemplate \/ DiesReading \/ DiesInQueue \/ \E tx \in Txs : TakeFromQueue(tx) PROVE PoolInv'
  <2>1. UNCHANGED poolVars /\ UNCHANGED coinsBest
    BY <1>4 DEF BeginTemplate, EndTemplate, DiesReading, DiesInQueue, Dies, TakeFromQueue, coinVars
  <2>2. pc \notin {"conflicts", "resurrect"} /\ pc' \notin {"conflicts", "resurrect"}
    BY <1>4 DEF MinerInv, BeginTemplate, EndTemplate, DiesReading, DiesInQueue, Dies, TakeFromQueue, Settled
  <2> QED BY <2>1, <2>2, IdlePool
<1> QED BY <1>2, <1>3, <1>4 DEF MinerNext, MinerStep, mvars

\* The same with a miner that builds its templates on the ledger.
THEOREM PoolExactWithMiner == NoCoinBaseAgain => (MinerSpec => []PoolExact)
PROOF
<1> SUFFICES ASSUME NoCoinBaseAgain PROVE MinerSpec => []PoolExact
  OBVIOUS
<1> DEFINE Inv == MinerInv /\ PoolInv
<1>1. MinerInit => Inv
  BY InitInv, Constants, NoPool DEF MinerInit, MinerInv, Init
<1>2. Inv /\ [MinerNext]_mvars => Inv'
  BY MinerNextInv, PoolMinerNext
<1>3. Inv => PoolExact
  BY PoolInvExact DEF MinerInv
<1> HIDE DEF Inv
<1> QED BY <1>1, <1>2, <1>3, PTL DEF MinerSpec

\* The wallet offers its transactions through AcceptToMemoryPool, and a kill empties the pool.
LEMMA PoolWalletNext ==
  ASSUME NoCoinBaseAgain, CoinsInv, PoolTypes, PoolInv, [WalletNext]_allVars
  PROVE  PoolInv'
PROOF
<1>1. ASSUME NodeStep \/ Watched \/ NoteConflicts \/ Connected \/ Disconnected PROVE PoolInv'
  <2>1. Next
    BY <1>1 DEF NodeStep, Watched, NoteConflicts, Connected, Disconnected, Next
  <2> QED BY <2>1, PoolNext
<1>2. ASSUME NEW tx \in Txs, PoolStep(tx) PROVE PoolInv'
  <2>1. Next
    BY <1>2 DEF PoolStep, Next
  <2> QED BY <2>1, PoolNext
<1>3. ASSUME SyncWithWallets \/ (\E t \in Txs : GetAvailableCredit(t) \/ CreateTransaction(t)) \/ UNCHANGED allVars
      PROVE  PoolInv'
  <2>1. UNCHANGED vars
    BY <1>3 DEF SyncWithWallets, GetAvailableCredit, CreateTransaction, allVars
  <2> QED BY <2>1, PoolNext
<1>4. ASSUME NEW t \in Txs, CommitTransaction(t) PROVE PoolInv'
  <2>1. /\ UNCHANGED <<pc, coinsBest>> /\ pc = "idle"
        /\ UNCHANGED poolVars \/ (Acceptable(t) /\ addUnchecked(t))
    BY <1>4 DEF CommitTransaction, Free, Settled, coinVars, callVars
  <2> QED BY <2>1, AcceptPool
<1>5. ASSUME Kill PROVE PoolInv'
  <2>1. mapTx' = {} /\ DOMAIN mapNextTx' = {} /\ pc' = "down"
    BY <1>5 DEF Kill
  <2> QED BY <2>1, PoolEmptied
<1>6. ASSUME Restart \/ ScanBlock \/ ScanDone \/ ReacceptWalletTransactions \/ ReacceptDone PROVE PoolInv'
  <2>1. UNCHANGED poolVars /\ UNCHANGED coinsBest
    BY <1>6 DEF Restart, ScanBlock, ScanDone, ReacceptWalletTransactions, ReacceptDone, coinVars
  <2>2. pc \notin {"conflicts", "resurrect"} /\ pc' \notin {"conflicts", "resurrect"}
    BY <1>6 DEF Restart, ScanBlock, ScanDone, ReacceptWalletTransactions, ReacceptDone, Free, Settled
  <2> QED BY <2>1, <2>2, IdlePool
<1>7. ASSUME ReacceptTx PROVE PoolInv'
  <2> DEFINE t == HashOrder[n]
  <2>1. n \in 1..Len(HashOrder)
    BY <1>7, WalletAssumption DEF CoinsInv, ReacceptTx, Types, Loops, Elsewhere
  <2>2. t \in Txs
    BY <2>1, WalletAssumption
  <2>3. /\ UNCHANGED <<pc, coinsBest>> /\ pc = "reaccept"
        /\ UNCHANGED poolVars \/ (Acceptable(t) /\ addUnchecked(t))
    BY <1>7 DEF ReacceptTx, coinVars
  <2> HIDE DEF t
  <2> QED BY <2>2, <2>3, AcceptPool
<1> QED BY <1>1, <1>2, <1>3, <1>4, <1>5, <1>6, <1>7 DEF WalletNext

\* The same with a wallet, and with kills at any step.
THEOREM PoolExactWithKills == NoCoinBaseAgain => (WalletSpec => []PoolExact)
PROOF
<1> SUFFICES ASSUME NoCoinBaseAgain PROVE WalletSpec => []PoolExact
  OBVIOUS
<1> DEFINE Inv == CoinsInv /\ PoolTypes /\ locator \in Blocks /\ PoolInv
<1>1. WalletInit => Inv
  BY InitInv, NoPool, Constants DEF WalletInit, Init
<1>2. Inv /\ [WalletNext]_allVars => Inv'
  BY WalletNextInv, PoolWalletNext
<1>3. Inv => PoolExact
  BY PoolInvExact
<1> HIDE DEF Inv
<1> QED BY <1>1, <1>2, <1>3, PTL DEF WalletSpec

-----------------------------------------------------------------------------
(* What a disconnected block gives back *)

\* CheckInputs sees the heights of the outputs it spends.
LEMMA CheckedMature ==
  ASSUME NEW C, NEW U, Rep(C, U), NEW tx \in Txs, NEW ht,
         NEW coins, \A t \in InputTxs(tx) : coins[t] = C[t], CheckInputs(coins, tx, ht)
  PROVE  \A u \in U : u.out \in ToSet(Vin[tx]) /\ u.out[1] \in CoinBases => ht - u.nHeight >= COINBASE_MATURITY
PROOF
<1> SUFFICES ASSUME NEW u \in U, u.out \in ToSet(Vin[tx]), u.out[1] \in CoinBases
             PROVE  ht - u.nHeight >= COINBASE_MATURITY
  OBVIOUS
<1>1. u.out[1] \in InputTxs(tx)
  BY DEF InputTxs
<1>2. coins[u.out[1]].fCoinBase /\ coins[u.out[1]].nHeight = u.nHeight
  BY <1>1 DEF Rep
<1> QED BY <1>1, <1>2 DEF CheckInputs

\* ConnectBlock checks every transaction but the first.
LEMMA PassedNext ==
  ASSUME CoinsInv, Passed, [Next]_vars
  PROVE  Passed'
PROOF
<1>1. Types /\ Connecting
  BY DEF CoinsInv, Loops
<1>2. ASSUME UNCHANGED undo, UNCHANGED <<pc, blk, n>> \/ pc' # "connect" PROVE Passed'
  BY <1>2 DEF Passed
<1>3. CASE ConnectTx
  <2> DEFINE tx == Vtx[blk][n]
             coins == [t \in InputTxs(tx) |-> GetCoins(view, t)]
             C == CoinsIn(view)
  <2>1. pc = "connect" /\ n <= Len(Vtx[blk]) /\ undo' = undo
    BY <1>3 DEF ConnectTx, ConnectFails, coinVars
  <2>2. /\ Rep(C, Part(blk, n - 1)) /\ n \in 1..(Len(Vtx[blk]) + 1) /\ blk \in Blocks \ {Genesis}
    BY <1>1, <2>1 DEF Connecting, Types
  <2>3. Len(Vtx[blk]) \in Nat /\ tx \in Txs
    BY <2>1, <2>2, BlockFacts
  <2>4. CASE n > 1 /\ ~CheckInputs(coins, tx, Height[blk])
    BY <1>2, <1>3, <2>1, <2>4 DEF ConnectTx, ConnectFails
  <2>5. CASE ~(n > 1 /\ ~CheckInputs(coins, tx, Height[blk]))
    <3>1. n' = n + 1 /\ pc' = pc /\ blk' = blk
      BY <1>3, <2>5 DEF ConnectTx
    <3>2. ASSUME n > 1 PROVE PassedAt(blk, n)
      <4>1. CheckInputs(coins, tx, Height[blk])
        BY <2>5, <3>2
      <4>2. \A t \in InputTxs(tx) : t \in Txs
        BY <2>3, ValueInFacts, OutPointFacts DEF InputTxs
      <4>3. \A t \in InputTxs(tx) : coins[t] = C[t]
        BY <4>2 DEF CoinsIn
      <4> HIDE DEF coins, C, tx
      <4>4. \A u \in Part(blk, n - 1) : u.out \in ToSet(Vin[tx]) /\ u.out[1] \in CoinBases
                                           => Height[blk] - u.nHeight >= COINBASE_MATURITY
        BY <4>1, <4>3, <2>2, <2>3, CheckedMature
      <4>5. ValueIn(tx) >= ValueOut(tx) /\ tx \notin BadScript
        BY <4>1 DEF CheckInputs
      <4> QED BY <4>4, <4>5 DEF PassedAt, tx
    <3>3. \A k \in 2..n : PassedAt(blk, k)
      <4>1. \A k \in 2..n : (k = n /\ n > 1) \/ k \in 2..(n - 1)
        BY <2>2, <2>3
      <4> QED BY <4>1, <3>2, <2>1 DEF Passed
    <3>4. n' - 1 = n
      BY <3>1, <2>2, <2>3
    <3> QED BY <3>1, <3>3, <3>4, <2>1 DEF Passed
  <2> QED BY <2>4, <2>5
<1>4. CASE EndConnectBlock
  <2>1. pc = "connect" /\ n > Len(Vtx[blk])
    BY <1>4 DEF EndConnectBlock
  <2>2. n \in 1..(Len(Vtx[blk]) + 1) /\ blk \in Blocks \ {Genesis}
    BY <1>1, <2>1 DEF Connecting, Types
  <2>3. Len(Vtx[blk]) \in Nat
    BY <2>2, BlockFacts
  <2>4. \A k \in 2..Len(Vtx[blk]) : PassedAt(blk, k)
    <3>1. n - 1 = Len(Vtx[blk])
      BY <2>1, <2>2, <2>3
    <3> QED BY <3>1, <2>1 DEF Passed
  <2>5. DOMAIN undo' \subseteq DOMAIN undo \cup {blk} /\ pc' # "connect"
    BY <1>4 DEF EndConnectBlock, ConnectFails, coinVars
  <2> QED BY <2>4, <2>5 DEF Passed
<1>5. CASE BeginConnect
  BY <1>2, <1>5 DEF BeginConnect, ConnectFails, coinVars, Passed
<1>6. CASE UNCHANGED vars
  BY <1>2, <1>6 DEF vars, coinVars, callVars
<1>7. CASE \E b \in Blocks \ {Genesis} : AcceptBlock(b)
  BY <1>2, <1>7 DEF AcceptBlock, coinVars, callVars
<1>8. CASE \E tx \in Txs : AcceptToMemoryPool(tx)
  BY <1>2, <1>8 DEF AcceptToMemoryPool, coinVars, callVars
<1>9. CASE FinishConnect \/ RemoveConflicts \/ ConnectDone \/ BeginDisconnect
  BY <1>2, <1>9 DEF FinishConnect, RemoveConflicts, ConnectDone, BeginDisconnect, coinVars
<1>10. CASE DisconnectTx \/ FinishDisconnect \/ Resurrect \/ DisconnectDone
  BY <1>2, <1>10 DEF DisconnectTx, FinishDisconnect, Resurrect, DisconnectDone, coinVars
<1> QED BY <1>3, <1>4, <1>5, <1>6, <1>7, <1>8, <1>9, <1>10 DEF Next

\* BatchWrite erases what is pruned.
LEMMA UnprunedNext ==
  ASSUME DBUnpruned, [Next]_vars
  PROVE  DBUnpruned'
PROOF
<1>1. ASSUME UNCHANGED coinsDB PROVE DBUnpruned'
  BY <1>1 DEF DBUnpruned, IsPruned
<1>2. ASSUME NEW cache, WriteChainState(cache) PROVE DBUnpruned'
  <2>1. CASE coinsDB' = Written(cache)
    <3> DEFINE all == Overlay(coinsDB, cache)
               D == {u \in DOMAIN all : ~IsPruned(all[u])}
    <3>1. coinsDB' = [t \in D |-> all[t]]
      BY <2>1 DEF Written
    <3>2. \A t \in D : ~IsPruned(all[t])
      OBVIOUS
    <3> HIDE DEF all, D
    <3>3. \A t \in DOMAIN coinsDB' : ~IsPruned(coinsDB'[t])
      BY <3>1, <3>2
    <3> QED BY <3>3 DEF DBUnpruned, IsPruned
  <2> QED BY <1>1, <1>2, <2>1 DEF WriteChainState
<1>3. CASE FinishConnect
  BY <1>2, <1>3 DEF FinishConnect
<1>4. CASE FinishDisconnect
  BY <1>2, <1>4 DEF FinishDisconnect
<1>5. CASE (\E b \in Blocks \ {Genesis} : AcceptBlock(b)) \/ (\E tx \in Txs : AcceptToMemoryPool(tx)) \/ UNCHANGED vars
  BY <1>1, <1>5 DEF AcceptBlock, AcceptToMemoryPool, vars, coinVars
<1>6. CASE BeginConnect \/ ConnectTx \/ EndConnectBlock \/ RemoveConflicts \/ ConnectDone
  BY <1>1, <1>6 DEF BeginConnect, ConnectTx, EndConnectBlock, ConnectFails, RemoveConflicts, ConnectDone, coinVars
<1>7. CASE BeginDisconnect \/ DisconnectTx \/ Resurrect \/ DisconnectDone
  BY <1>1, <1>7 DEF BeginDisconnect, DisconnectTx, Resurrect, DisconnectDone, coinVars
<1> QED BY <1>3, <1>4, <1>5, <1>6, <1>7 DEF Next

\* Once the cache is flushed, pcoinsTip has an entry of unspent coins only.
LEMMA FlushedFacts ==
  ASSUME NoCoinBaseAgain, CoinsInv, DBUnpruned, cacheCoins = Empty, NEW t \in Txs, TipHaveCoins(t)
  PROVE  /\ \E u \in Utxo[coinsBest] : u.out[1] = t /\ u.nHeight = TipCoins(t).nHeight
         /\ t \in ChainTxs(coinsBest)
PROOF
<1>1. t \in DOMAIN coinsDB /\ TipCoins(t) = coinsDB[t]
  BY DEF TipHaveCoins, TipCoins, Empty
<1>2. ~IsPruned(TipCoins(t))
  BY <1>1 DEF DBUnpruned
<1>3. PICK u \in Utxo[coinsBest] : u.out[1] = t
  BY <1>2, AtTipFacts
<1>4. u.nHeight = TipCoins(t).nHeight
  BY <1>3, AtTipFacts
<1>5. t \in ChainTxs(coinsBest)
  BY <1>3, TipAccounts DEF Accounts
<1> QED BY <1>3, <1>4, <1>5

\* A transaction that passed in the block passes again, if its inputs are there.
LEMMA PassesAgain ==
  ASSUME NoCoinBaseAgain, CoinsInv, PoolTypes, PoolInv, Passed, DBUnpruned,
         pc = "resurrect", cacheCoins = Empty, n <= Len(Vtx[blk]),
         Vtx[blk][n] \notin CoinBases \cup NonStandard,
         \A o \in ToSet(Vin[Vtx[blk][n]]) : Connects(o)
  PROVE  Acceptable(Vtx[blk][n])
PROOF
<1> DEFINE tx == Vtx[blk][n]
           coins == [t \in InputTxs(tx) |-> PoolView(t)]
<1>1. blk \in DOMAIN undo /\ n # 0 /\ n \in Nat /\ coinsBest = Prev[blk]
  BY DEF PoolInv, PoolLoop, CoinsInv, Types, Loops, Finishing
<1>2. /\ blk \in Blocks \ {Genesis}
      /\ \A k \in 1..Len(Vtx[blk]) :
            /\ Vtx[blk][k] \notin Upto(blk, k - 1)
            /\ ToSet(Vin[Vtx[blk][k]]) \subseteq Outs(Part(blk, k - 1))
  BY <1>1, BlockInputs
<1>3. Len(Vtx[blk]) \in Nat /\ n \in 1..Len(Vtx[blk]) /\ tx \in Txs
  BY <1>1, <1>2, BlockFacts
<1>4. n \in 2..Len(Vtx[blk])
  BY <1>2, <1>3, BlockFacts
<1>5. PassedAt(blk, n)
  BY <1>1, <1>4 DEF Passed
<1>6. tx \notin Upto(blk, n - 1) /\ ToSet(Vin[tx]) \subseteq Outs(Part(blk, n - 1))
  BY <1>2, <1>3
<1>7. tx \in ToReturn /\ ToConnect = {}
  BY <1>3 DEF ToReturn, ToConnect, Ahead
<1>8. tx \notin mapTx /\ ToSet(Vin[tx]) \cap DOMAIN mapNextTx = {}
  BY <1>7 DEF PoolInv, NotBack
<1>9. ChainTxs(coinsBest) \subseteq Upto(blk, n - 1)
  BY <1>1 DEF Upto
<1>10. ~TipHaveCoins(tx)
  BY <1>3, <1>6, <1>9, FlushedFacts
<1>11. mapTx \cap ChainTxs(coinsBest) = {} /\ mapTx \cap CoinBases = {} /\ mapTx \subseteq Txs
  BY <1>7 DEF PoolInv, OffChain, PoolTypes
<1>12. ASSUME NEW t \in mapTx PROVE ~TipHaveCoins(t)
  BY <1>11, <1>12, FlushedFacts
<1>13. ToSet(Vin[tx]) \in SUBSET OutPoints
  BY <1>3, ValueInFacts
<1>14. \A o \in ToSet(Vin[tx]) : o \notin Unspendable
  <2> SUFFICES ASSUME NEW o \in ToSet(Vin[tx]) PROVE o \notin Unspendable
    OBVIOUS
  <2>1. PICK r \in Part(blk, n - 1) : r.out = o
    BY <1>6 DEF Outs
  <2>2. n - 1 \in 0..Len(Vtx[blk])
    BY <1>4
  <2>3. CASE r \in Utxo[Prev[blk]]
    BY <2>1, <2>3, <1>2, BlockFacts, UtxoSpendable DEF Outs
  <2>4. CASE r \in Made(blk, n - 1)
    BY <2>1, <2>2, <2>4, <1>2, MadeFacts
  <2> QED BY <2>1, <2>3, <2>4 DEF Part, Minus
<1>15. ASSUME NEW o \in ToSet(Vin[tx]) PROVE IsAvailable(PoolView(o[1]), o[2])
  <2>1. o \in OutPoints /\ o[1] \in Txs /\ o = <<o[1], o[2]>> /\ o[2] \in DOMAIN Vout[o[1]]
    BY <1>13, OutPointFacts
  <2>2. CASE IsAvailable(TipCoins(o[1]), o[2])
    <3>1. TipHaveCoins(o[1])
      BY <2>2 DEF TipHaveCoins, TipCoins, IsAvailable, NoCoins
    <3> QED BY <2>2, <3>1 DEF PoolView
  <2>3. CASE o[1] \in mapTx
    <3>1. PoolView(o[1]) = CoinsOf(o[1], 0)
      BY <2>3, <1>12 DEF PoolView
    <3>2. o[2] \in CoinsOf(o[1], 0).vout
      BY <2>1, <1>14 DEF CoinsOf
    <3> QED BY <3>1, <3>2 DEF IsAvailable
  <2> QED BY <2>2, <2>3 DEF Connects
<1>16. ASSUME NEW t \in InputTxs(tx), PoolView(t).fCoinBase
       PROVE  (Height[coinsBest] + 1) - PoolView(t).nHeight >= COINBASE_MATURITY
  <2>1. PICK o \in ToSet(Vin[tx]) : o[1] = t
    BY DEF InputTxs
  <2>2. t \in Txs
    BY <2>1, <1>13, OutPointFacts
  <2>3. CASE TipHaveCoins(t)
    <3>1. PICK u \in Utxo[coinsBest] : u.out[1] = t /\ u.nHeight = TipCoins(t).nHeight
      BY <2>2, <2>3, FlushedFacts
    <3>2. t \in CoinBases
      <4>1. ~IsPruned(TipCoins(t))
        BY <2>2, <3>1, AtTipFacts
      <4> QED BY <4>1, <2>2, <2>3, <1>16, AtTipFacts DEF PoolView
    <3>3. PICK r \in Part(blk, n - 1) : r.out = o
      BY <1>6 DEF Outs
    <3>4. r \in Utxo[Prev[blk]]
      <4>1. n - 1 \in 0..Len(Vtx[blk]) /\ \A i \in 1..(n - 1) : i \in 1..Len(Vtx[blk])
        BY <1>4
      <4>2. r \in Made(blk, n - 1) => r.out[1] \in ToSet(Vtx[blk])
        <5>1. ASSUME r \in Made(blk, n - 1) PROVE r.out[1] \in ToSet(Vtx[blk])
          <6>1. PICK i \in 1..(n - 1) : r.out[1] = Vtx[blk][i]
            BY <4>1, <5>1, <1>2, MadeFacts
          <6> QED BY <4>1, <6>1, <1>2, VtxSet
        <5> QED BY <5>1
      <4>3. Fresh(blk)
        BY <1>1 DEF CoinsInv, History, HistoryOf, Applied
      <4>4. t \notin ToSet(Vtx[blk])
        BY <4>3, <3>1, <1>1 DEF Fresh
      <4> QED BY <4>2, <4>4, <3>3, <2>1 DEF Part, Minus
    <3>5. r.nHeight = TipCoins(t).nHeight
      BY <3>3, <3>4, <2>1, <1>1, AtTipFacts
    <3>6. Height[blk] - r.nHeight >= COINBASE_MATURITY
      BY <3>2, <3>3, <2>1, <1>5 DEF PassedAt
    <3>7. Height[blk] = Height[coinsBest] + 1
      BY <1>1, <1>2, HeightFacts
    <3>8. PoolView(t) = TipCoins(t)
      BY <2>3 DEF PoolView
    <3>9. (Height[coinsBest] + 1) - PoolView(t).nHeight = Height[blk] - r.nHeight
      BY <3>5, <3>7, <3>8
    <3> QED BY <3>6, <3>9
  <2>4. CASE ~TipHaveCoins(t)
    <3>1. CASE t \in mapTx
      BY <2>4, <3>1, <1>11, <1>16 DEF PoolView, CoinsOf
    <3>2. CASE t \notin mapTx
      BY <2>4, <3>2, <1>16 DEF PoolView, NoCoins
    <3> QED BY <3>1, <3>2
  <2> QED BY <2>3, <2>4
<1>17. CheckInputs(coins, tx, Height[coinsBest] + 1)
  <2>1. \A o \in ToSet(Vin[tx]) : IsAvailable(coins[o[1]], o[2])
    BY <1>15 DEF InputTxs
  <2>2. \A t \in InputTxs(tx) : coins[t].fCoinBase
                                   => (Height[coinsBest] + 1) - coins[t].nHeight >= COINBASE_MATURITY
    BY <1>16
  <2>3. ValueIn(tx) >= ValueOut(tx) /\ tx \notin BadScript
    BY <1>5 DEF PassedAt
  <2> DEFINE ht == Height[coinsBest] + 1
  <2>4. \A t \in InputTxs(tx) : coins[t].fCoinBase => ht - coins[t].nHeight >= COINBASE_MATURITY
    BY <2>2
  <2> HIDE DEF coins, tx, ht
  <2>5. CheckInputs(coins, tx, ht)
    BY <2>1, <2>3, <2>4 DEF CheckInputs
  <2> QED BY <2>5 DEF ht
<1> QED BY <1>8, <1>10, <1>17 DEF Acceptable, ConflictsWithPool, PoolHaveCoins

\* What is offered to the pool again stays, and what could not come back still cannot:
\* no transaction of a block spends an output of a later one.
LEMMA ResurrectGivenBack ==
  ASSUME NoCoinBaseAgain, CoinsInv, PoolTypes, PoolInv, Passed, DBUnpruned, GivenBack, Resurrect
  PROVE  GivenBack'
PROOF
<1> DEFINE tx == Vtx[blk][n]
<1>1. /\ pc = "resurrect" /\ n <= Len(Vtx[blk]) /\ n' = n + 1
      /\ UNCHANGED <<pc, blk, coinsBest, undo, cacheCoins, coinsDB>>
  BY DEF Resurrect, coinVars
<1>2. blk \in DOMAIN undo /\ n # 0 /\ n \in Nat /\ coinsBest = Prev[blk]
  BY <1>1 DEF CoinsInv, PoolInv, PoolLoop, Types, Loops, Finishing
<1>3. /\ blk \in Blocks \ {Genesis}
      /\ \A k \in 1..Len(Vtx[blk]) : /\ Vtx[blk][k] \notin Upto(blk, k - 1)
                                     /\ \A o \in ToSet(Vin[Vtx[blk][k]]) : o[1] \in Upto(blk, k - 1)
  BY <1>2, BlockInputs
<1>4. Len(Vtx[blk]) \in Nat /\ n \in 1..Len(Vtx[blk]) /\ tx \in Txs
  BY <1>1, <1>2, <1>3, BlockFacts
<1>5. ToConnect = {} /\ mapTx \cap ChainTxs(coinsBest) = {}
  BY <1>1 DEF PoolInv, OffChain, ToConnect
<1>6. PoolSpendsExact
  BY DEF PoolInv
<1>7. \A t : TipCoins(t)' = TipCoins(t)
  BY <1>1 DEF TipCoins
<1>8. \A j \in 1..Len(Vtx[blk]) : j < n =>
         Vtx[blk][j] # tx /\ \A o \in ToSet(Vin[Vtx[blk][j]]) : o[1] # tx
  <2> SUFFICES ASSUME NEW j \in 1..Len(Vtx[blk]), j < n
               PROVE  Vtx[blk][j] # tx /\ \A o \in ToSet(Vin[Vtx[blk][j]]) : o[1] # tx
    OBVIOUS
  <2>1. j \in 1..(n - 1) /\ \A i \in 1..(j - 1) : i \in 1..(n - 1)
    BY <1>4
  <2>2. Vtx[blk][j] \in Upto(blk, n - 1) /\ Upto(blk, j - 1) \subseteq Upto(blk, n - 1)
    BY <2>1 DEF Upto
  <2> QED BY <2>2, <1>3, <1>4
<1> SUFFICES ASSUME cacheCoins = Empty, NEW k \in 1..Len(Vtx[blk]), k < n'
             PROVE  \/ Vtx[blk][k] \in mapTx' \cup CoinBases \cup NonStandard
                    \/ \E o \in ToSet(Vin[Vtx[blk][k]]) : ~Connects(o)'
  BY <1>1 DEF GivenBack
<1>9. k = n \/ k < n
  BY <1>1, <1>4
<1>10. CASE k = n /\ ~Acceptable(tx) /\ tx \notin CoinBases
  <2>1. tx \in NonStandard \/ \E o \in ToSet(Vin[tx]) : ~Connects(o)
    BY <1>1, <1>10, PassesAgain
  <2>2. mapTx' \subseteq mapTx
    BY <1>10 DEF Resurrect, RemoveFromPool
  <2>3. \A o : Connects(o)' => Connects(o)
    BY <2>2, <1>7 DEF Connects
  <2> QED BY <2>1, <2>3, <1>10
<1>11. CASE k = n /\ Acceptable(tx)
  <2>1. mapTx' = mapTx \cup {tx} \/ tx \in CoinBases
    BY <1>11 DEF Resurrect, addUnchecked
  <2> QED BY <2>1, <1>11
<1>12. CASE k < n
  <2> DEFINE t == Vtx[blk][k]
  <2>1. t \in mapTx \cup CoinBases \cup NonStandard \/ \E o \in ToSet(Vin[t]) : ~Connects(o)
    BY <1>1, <1>12 DEF GivenBack
  <2>2. mapTx' \subseteq mapTx \cup {tx}
    BY DEF Resurrect, RemoveFromPool, addUnchecked, poolVars
  <2>3. \A o \in ToSet(Vin[t]) : Connects(o)' => Connects(o)
    BY <2>2, <1>7, <1>8, <1>12 DEF Connects
  <2>4. ASSUME t \in mapTx PROVE t \in mapTx'
    <3>1. CASE tx \in CoinBases \/ Acceptable(tx)
      BY <3>1, <2>4 DEF Resurrect, addUnchecked, poolVars
    <3>2. CASE ~(tx \in CoinBases \/ Acceptable(tx))
      <4> DEFINE D == {s \in mapTx : \A j \in 1..Len(Vtx[blk]) : j < n => s # Vtx[blk][j]}
      <4>1. mapTx' = mapTx \ ({tx} \cup Descendants({tx}))
        BY <3>2 DEF Resurrect, RemoveFromPool
      <4>2. ASSUME NEW o \in DOMAIN mapNextTx, o[1] \in {tx} \cup D PROVE mapNextTx[o] \in D
        <5>1. PICK s \in mapTx : o \in ToSet(Vin[s]) /\ mapNextTx[o] = s
          BY <1>6 DEF PoolSpendsExact
        <5>2. ASSUME NEW j \in 1..Len(Vtx[blk]), j < n, s = Vtx[blk][j] PROVE FALSE
          <6>1. o[1] # tx /\ o[1] \in Upto(blk, j - 1)
            BY <5>1, <5>2, <1>3, <1>8
          <6>2. o[1] \in mapTx /\ o[1] \notin ChainTxs(coinsBest)
            BY <6>1, <4>2, <1>5
          <6>3. PICK i \in 1..(j - 1) : o[1] = Vtx[blk][i]
            BY <6>1, <6>2, <1>2 DEF Upto
          <6>4. i \in 1..Len(Vtx[blk]) /\ i < n
            BY <1>4, <5>2
          <6> QED BY <6>1, <6>3, <6>4, <4>2
        <5> QED BY <5>1, <5>2
      <4>3. D \in SUBSET mapTx
        OBVIOUS
      <4> HIDE DEF D
      <4>4. Closed({tx}, D)
        BY <4>2 DEF Closed
      <4>5. Descendants({tx}) \subseteq D
        BY <4>3, <4>4, DescendantsFacts
      <4>6. t \notin D
        BY <1>12 DEF D
      <4>7. t # tx
        BY <1>8, <1>12
      <4> QED BY <2>4, <4>1, <4>5, <4>6, <4>7
    <3> QED BY <3>1, <3>2
  <2> QED BY <2>1, <2>3, <2>4
<1> QED BY <1>9, <1>10, <1>11, <1>12

\* Every step keeps it.
LEMMA GivenBackNext ==
  ASSUME NoCoinBaseAgain, CoinsInv, PoolTypes, PoolInv, Passed, DBUnpruned, GivenBack, [Next]_vars
  PROVE  GivenBack'
PROOF
<1>1. ASSUME pc' # "resurrect" PROVE GivenBack'
  BY <1>1 DEF GivenBack
<1>2. CASE Resurrect
  BY <1>2, ResurrectGivenBack
<1>3. CASE FinishDisconnect
  <2>1. n' = 1
    BY <1>3 DEF FinishDisconnect
  <2>2. \A k \in 1..Len(Vtx[blk']) : ~(k < n')
    BY <2>1
  <2> QED BY <2>2 DEF GivenBack
<1>4. CASE UNCHANGED vars
  <2>1. UNCHANGED <<pc, blk, n, cacheCoins, coinsDB, mapTx>>
    BY <1>4 DEF vars, coinVars, poolVars, callVars
  <2> QED BY <2>1 DEF GivenBack, Connects, TipCoins
<1>5. CASE \E b \in Blocks \ {Genesis} : AcceptBlock(b)
  BY <1>1, <1>5 DEF AcceptBlock, Settled, callVars
<1>6. CASE \E tx \in Txs : AcceptToMemoryPool(tx)
  BY <1>1, <1>6 DEF AcceptToMemoryPool, Settled, callVars
<1>7. CASE BeginConnect \/ ConnectTx \/ EndConnectBlock \/ FinishConnect \/ RemoveConflicts \/ ConnectDone
  BY <1>1, <1>7 DEF BeginConnect, ConnectTx, EndConnectBlock, FinishConnect, ConnectFails, RemoveConflicts, ConnectDone
<1>8. CASE BeginDisconnect \/ DisconnectTx \/ DisconnectDone
  BY <1>1, <1>8 DEF BeginDisconnect, DisconnectTx, DisconnectDone
<1> QED BY <1>2, <1>3, <1>4, <1>5, <1>6, <1>7, <1>8 DEF Next

\* When WriteChainState has written the coins, DisconnectTip gives every transaction of
\* the block whose inputs are there without it back to the pool, in whatever state the
\* pool was: none of them conflicts with it, and each passes CheckInputs a second time.
THEOREM ResurrectedWhenFlushed == NoCoinBaseAgain => (Spec => []ResurrectedIfFlushed)
PROOF
<1> SUFFICES ASSUME NoCoinBaseAgain PROVE Spec => []ResurrectedIfFlushed
  OBVIOUS
<1> DEFINE Inv == CoinsInv /\ PoolTypes /\ PoolInv /\ Passed /\ DBUnpruned /\ GivenBack
<1>1. Init => Inv
  <2>1. Init => Passed /\ DBUnpruned /\ GivenBack
    BY DEF Init, Passed, DBUnpruned, GivenBack, Empty
  <2> QED BY <2>1, InitInv, NoPool DEF Init
<1>2. Inv /\ [Next]_vars => Inv'
  BY NextInv, PoolNext, PassedNext, UnprunedNext, GivenBackNext
<1>3. Inv => ResurrectedIfFlushed
  <2> SUFFICES ASSUME Inv, pc = "resurrect", n > Len(Vtx[blk]), cacheCoins = Empty, NEW t \in Lost
               PROVE  FALSE
    BY DEF ResurrectedIfFlushed
  <2>1. blk \in Blocks \ {Genesis} /\ n \in Nat
    BY DEF CoinsInv, Types, Loops, Finishing
  <2>2. PICK k \in 1..Len(Vtx[blk]) : t = Vtx[blk][k]
    BY <2>1, VtxSet DEF Lost
  <2>3. k < n
    BY <2>1, BlockFacts
  <2> QED BY <2>2, <2>3 DEF GivenBack, Lost
<1> HIDE DEF Inv
<1> QED BY <1>1, <1>2, <1>3, PTL DEF Spec

-----------------------------------------------------------------------------
(* A block that was connected once never fails *)

\* The fees of a block are the same every time.
LEMMA FeesUnique ==
  ASSUME NEW b, NEW k \in Nat, NEW f, NEW h, FeeSums(b, f, k), FeeSums(b, h, k)
  PROVE  f[k] = h[k]
PROOF
<1> DEFINE S == {i \in 0..k : f[i] = h[i]}
<1>1. S \in SUBSET (0..k) /\ 0 \in S
  BY DEF FeeSums
<1>2. ASSUME NEW i \in 1..k, i - 1 \in S PROVE i \in S
  <2>1. f[i - 1] = h[i - 1] /\ i \in 0..k
    BY <1>2
  <2>2. f[i] = h[i]
    BY <2>1, <1>2 DEF FeeSums
  <2> QED BY <2>1, <2>2
<1> HIDE DEF S
<1>3. S = 0..k
  BY <1>1, <1>2, PrefixInd
<1>4. k \in S
  BY <1>3
<1> QED BY <1>4 DEF S

\* One more transaction.
LEMMA FeesStep ==
  ASSUME NEW b \in Blocks \ {Genesis}, NEW k \in 1..Len(Vtx[b]), NEW f, FeeSums(b, f, k - 1),
         NEW fee \in Nat, fee = IF k = 1 THEN f[k - 1] ELSE f[k - 1] + (ValueIn(Vtx[b][k]) - ValueOut(Vtx[b][k]))
  PROVE  \E h : FeeSums(b, h, k) /\ fee = h[k]
PROOF
<1> DEFINE h == [i \in 0..k |-> IF i = k THEN fee ELSE f[i]]
<1>1. Len(Vtx[b]) \in Nat /\ k \in Nat \ {0}
  BY BlockFacts
<1>2. \A i \in 0..k : i = k \/ i \in 0..(k - 1)
  BY <1>1
<1>3. h \in [0..k -> Nat] /\ h[k] = fee /\ \A i \in 0..(k - 1) : h[i] = f[i]
  BY <1>1, <1>2 DEF FeeSums
<1> HIDE DEF h
<1>4. h[0] = 0
  BY <1>1, <1>3 DEF FeeSums
<1>5. \A i \in 1..k : h[i] = IF i = 1 THEN 0 ELSE h[i - 1] + (ValueIn(Vtx[b][i]) - ValueOut(Vtx[b][i]))
  <2> TAKE i \in 1..k
  <2>1. i - 1 \in 0..(k - 1) /\ (i = k \/ i \in 1..(k - 1))
    BY <1>1
  <2>2. CASE i = k
    BY <2>1, <2>2, <1>1, <1>3 DEF FeeSums
  <2>3. CASE i \in 1..(k - 1)
    <3>1. i \in 0..(k - 1)
      BY <2>3
    <3> QED BY <2>1, <2>3, <3>1, <1>3 DEF FeeSums
  <2> QED BY <2>1, <2>2, <2>3
<1>6. FeeSums(b, h, k) /\ fee = h[k]
  BY <1>3, <1>4, <1>5 DEF FeeSums
<1> QED BY <1>6

\* What ConnectBlock does with the fees.
LEMMA FeesNext ==
  ASSUME CoinsInv, Fees, [Next]_vars
  PROVE  Fees'
PROOF
<1>1. Types /\ Connecting /\ Idle
  BY DEF CoinsInv, Loops
<1>2. ASSUME UNCHANGED undo, UNCHANGED <<pc, blk, n, nFees>> \/ pc' # "connect" PROVE Fees'
  BY <1>2 DEF Fees
<1>3. CASE ConnectTx
  <2> DEFINE tx == Vtx[blk][n]
             coins == [t \in InputTxs(tx) |-> GetCoins(view, t)]
  <2>1. pc = "connect" /\ n <= Len(Vtx[blk]) /\ undo' = undo
    BY <1>3 DEF ConnectTx, ConnectFails, coinVars
  <2>2. n \in 1..(Len(Vtx[blk]) + 1) /\ blk \in Blocks \ {Genesis} /\ nFees \in Nat
    BY <1>1, <2>1 DEF Connecting, Types
  <2>3. Len(Vtx[blk]) \in Nat /\ n \in 1..Len(Vtx[blk]) /\ tx \in Txs
    BY <2>1, <2>2, BlockFacts
  <2>4. CASE n > 1 /\ ~CheckInputs(coins, tx, Height[blk])
    BY <1>2, <1>3, <2>1, <2>4 DEF ConnectTx, ConnectFails
  <2>5. CASE ~(n > 1 /\ ~CheckInputs(coins, tx, Height[blk]))
    <3>1. /\ n' = n + 1 /\ pc' = pc /\ blk' = blk
          /\ nFees' = IF n > 1 THEN nFees + (ValueIn(tx) - ValueOut(tx)) ELSE nFees
      BY <1>3, <2>5 DEF ConnectTx
    <3>2. PICK f : FeeSums(blk, f, n - 1) /\ nFees = f[n - 1]
      BY <2>1 DEF Fees
    <3>3. nFees' \in Nat
      <4>1. ValueIn(tx) \in Nat /\ ValueOut(tx) \in Nat
        BY <2>3, ValueInFacts, ValueOutFacts, AmountFacts
      <4>2. n > 1 => ValueIn(tx) >= ValueOut(tx)
        BY <2>5 DEF CheckInputs
      <4> HIDE DEF tx
      <4> QED BY <4>1, <4>2, <3>1, <2>2
    <3>4. nFees' = IF n = 1 THEN f[n - 1] ELSE f[n - 1] + (ValueIn(tx) - ValueOut(tx))
      BY <3>1, <3>2, <2>3
    <3>5. \E h : FeeSums(blk, h, n) /\ nFees' = h[n]
      BY <3>2, <3>3, <3>4, <2>2, <2>3, FeesStep
    <3>6. n' - 1 = n
      BY <3>1, <2>3
    <3>7. \E h : FeeSums(blk', h, n' - 1) /\ nFees' = h[n' - 1]
      BY <3>1, <3>5, <3>6
    <3> QED BY <3>7, <2>1 DEF Fees
  <2> QED BY <2>4, <2>5
<1>4. CASE EndConnectBlock
  <2>1. pc = "connect" /\ n > Len(Vtx[blk])
    BY <1>4 DEF EndConnectBlock
  <2>2. n \in 1..(Len(Vtx[blk]) + 1) /\ blk \in Blocks \ {Genesis}
    BY <1>1, <2>1 DEF Connecting, Types
  <2>3. n - 1 = Len(Vtx[blk])
    BY <2>1, <2>2, BlockFacts
  <2>4. CASE PaysTooMuch(blk, nFees)
    BY <1>2, <1>4, <2>4 DEF EndConnectBlock, ConnectFails, coinVars
  <2>5. CASE ~PaysTooMuch(blk, nFees)
    <3>1. \E f : FeeSums(blk, f, Len(Vtx[blk])) /\ ~PaysTooMuch(blk, f[Len(Vtx[blk])])
      BY <2>1, <2>3, <2>5 DEF Fees
    <3>2. DOMAIN undo' \subseteq DOMAIN undo \cup {blk} /\ pc' # "connect"
      BY <1>4, <2>5 DEF EndConnectBlock
    <3> QED BY <3>1, <3>2 DEF Fees
  <2> QED BY <2>4, <2>5
<1>5. CASE BeginConnect
  <2>1. PICK b \in Chain[target] \ {Genesis} :
          IF \E t \in ToSet(Vtx[b]) : ~IsPruned(TipCoins(t))
             THEN ConnectFails(b)
             ELSE /\ pc' = "connect" /\ blk' = b /\ n' = 1
                  /\ UNCHANGED <<view, blockundo, nFees, chainVars, coinVars, poolVars>>
    BY <1>5 DEF BeginConnect
  <2>2. CASE ConnectFails(b)
    BY <2>2, <1>2 DEF ConnectFails, coinVars
  <2>3. CASE n' = 1 /\ UNCHANGED <<nFees, coinVars>>
    <3>1. nFees' = 0 /\ undo' = undo /\ n' - 1 = 0
      BY <1>1, <1>5, <2>3 DEF BeginConnect, Idle, coinVars
    <3> DEFINE f == [i \in 0..0 |-> 0]
    <3>2. f[0] = 0 /\ f \in [0..0 -> Nat]
      OBVIOUS
    <3> HIDE DEF f
    <3>3. FeeSums(blk', f, 0)
      BY <3>2 DEF FeeSums
    <3>4. FeeSums(blk', f, n' - 1) /\ nFees' = f[n' - 1]
      BY <3>1, <3>2, <3>3
    <3> QED BY <3>1, <3>4 DEF Fees
  <2> QED BY <2>1, <2>2, <2>3
<1>6. CASE UNCHANGED vars
  BY <1>2, <1>6 DEF vars, coinVars, callVars
<1>7. CASE \E b \in Blocks \ {Genesis} : AcceptBlock(b)
  BY <1>2, <1>7 DEF AcceptBlock, coinVars, callVars
<1>8. CASE \E tx \in Txs : AcceptToMemoryPool(tx)
  BY <1>2, <1>8 DEF AcceptToMemoryPool, coinVars, callVars
<1>9. CASE FinishConnect \/ RemoveConflicts \/ ConnectDone \/ BeginDisconnect
  BY <1>2, <1>9 DEF FinishConnect, RemoveConflicts, ConnectDone, BeginDisconnect, coinVars
<1>10. CASE DisconnectTx \/ FinishDisconnect \/ Resurrect \/ DisconnectDone
  BY <1>2, <1>10 DEF DisconnectTx, FinishDisconnect, Resurrect, DisconnectDone, coinVars
<1> QED BY <1>3, <1>4, <1>5, <1>6, <1>7, <1>8, <1>9, <1>10 DEF Next

\* What CheckInputs finds when the inputs are unspent and old enough.
LEMMA ChecksInputs ==
  ASSUME NEW C, NEW U, Rep(C, U), NEW tx \in Txs, NEW ht,
         NEW coins, \A t \in InputTxs(tx) : coins[t] = C[t],
         ToSet(Vin[tx]) \subseteq Outs(U),
         \A u \in U : u.out \in ToSet(Vin[tx]) /\ u.out[1] \in CoinBases => ht - u.nHeight >= COINBASE_MATURITY,
         ValueIn(tx) >= ValueOut(tx), tx \notin BadScript
  PROVE  CheckInputs(coins, tx, ht)
PROOF
<1>1. ASSUME NEW o \in ToSet(Vin[tx])
      PROVE  /\ IsAvailable(coins[o[1]], o[2])
             /\ coins[o[1]].fCoinBase => ht - coins[o[1]].nHeight >= COINBASE_MATURITY
  <2>1. o \in OutPoints /\ o[1] \in Txs /\ o = <<o[1], o[2]>> /\ o[2] \in Nat
    BY ValueInFacts, OutPointFacts
  <2>2. coins[o[1]] = C[o[1]]
    BY DEF InputTxs
  <2>3. PICK u \in U : u.out = o
    BY DEF Outs
  <2>4. o[2] \in C[o[1]].vout
    BY <2>1 DEF Rep
  <2>5. u.nHeight = C[o[1]].nHeight /\ (C[o[1]].fCoinBase <=> o[1] \in CoinBases)
    BY <2>3 DEF Rep
  <2> QED BY <2>2, <2>3, <2>4, <2>5 DEF IsAvailable
<1>2. \A t \in InputTxs(tx) : coins[t].fCoinBase => ht - coins[t].nHeight >= COINBASE_MATURITY
  BY <1>1 DEF InputTxs
<1> QED BY <1>1, <1>2 DEF CheckInputs

\* The block being connected, when it was connected before.
LEMMA ConnectsAgain ==
  ASSUME CoinsInv, Passed, Fees, NEW b \in DOMAIN undo
  PROVE  /\ pc = "idle" /\ Prev[b] = tip => \A t \in ToSet(Vtx[b]) : IsPruned(TipCoins(t))
         /\ pc = "connect" /\ b = blk /\ n > 1 /\ n <= Len(Vtx[blk]) =>
               CheckInputs([t \in InputTxs(Vtx[blk][n]) |-> GetCoins(view, t)], Vtx[blk][n], Height[blk])
         /\ pc = "connect" /\ b = blk /\ n > Len(Vtx[blk]) => ~PaysTooMuch(blk, nFees)
PROOF
<1>1. Types /\ Connecting /\ Idle /\ HistoryOf(undo)
  BY DEF CoinsInv, Loops, History
<1>2. /\ b \in Blocks \ {Genesis} /\ Fresh(b) /\ Available(b, Len(Vtx[b]))
  BY <1>1 DEF HistoryOf, Applied
<1>3. Len(Vtx[b]) \in Nat /\ ToSet(Vtx[b]) = {Vtx[b][i] : i \in 1..Len(Vtx[b])}
      /\ \A i \in 1..Len(Vtx[b]) : Vtx[b][i] \in Txs
  BY <1>2, BlockFacts, VtxSet
<1>4. ASSUME pc = "idle", Prev[b] = tip, NEW t \in ToSet(Vtx[b]) PROVE IsPruned(TipCoins(t))
  <2>1. coinsBest = Prev[b] /\ t \in Txs
    BY <1>1, <1>3, <1>4 DEF Idle
  <2> QED BY <2>1, <1>2, AtTipFacts DEF Fresh
<1>5. ASSUME pc = "connect", b = blk, n > 1, n <= Len(Vtx[blk])
      PROVE  CheckInputs([t \in InputTxs(Vtx[blk][n]) |-> GetCoins(view, t)], Vtx[blk][n], Height[blk])
  <2> DEFINE tx == Vtx[blk][n]
             coins == [t \in InputTxs(tx) |-> GetCoins(view, t)]
             C == CoinsIn(view)
  <2>1. Rep(C, Part(blk, n - 1)) /\ n \in Nat
    BY <1>1, <1>5 DEF Connecting, Types
  <2>2. n \in 1..Len(Vtx[blk]) /\ n \in 2..Len(Vtx[blk]) /\ tx \in Txs
    BY <2>1, <1>3, <1>5
  <2>3. ToSet(Vin[tx]) \subseteq Outs(Part(blk, n - 1))
    BY <2>2, <1>2, <1>5 DEF Available
  <2>4. PassedAt(blk, n)
    BY <2>2, <1>5 DEF Passed
  <2>5. \A t \in InputTxs(tx) : t \in Txs
    BY <2>2, ValueInFacts, OutPointFacts DEF InputTxs
  <2>6. \A t \in InputTxs(tx) : coins[t] = C[t]
    BY <2>5 DEF CoinsIn
  <2>7. /\ \A u \in Part(blk, n - 1) : u.out \in ToSet(Vin[tx]) /\ u.out[1] \in CoinBases
                                         => Height[blk] - u.nHeight >= COINBASE_MATURITY
        /\ ValueIn(tx) >= ValueOut(tx) /\ tx \notin BadScript
    BY <2>4 DEF PassedAt
  <2> HIDE DEF tx, coins, C
  <2>8. CheckInputs(coins, tx, Height[blk])
    BY <2>1, <2>2, <2>3, <2>6, <2>7, ChecksInputs
  <2> QED BY <2>8 DEF coins, tx
<1>6. ASSUME pc = "connect", b = blk, n > Len(Vtx[blk]) PROVE ~PaysTooMuch(blk, nFees)
  <2>1. n - 1 = Len(Vtx[blk])
    BY <1>1, <1>3, <1>6 DEF Connecting
  <2>2. PICK f : FeeSums(blk, f, n - 1) /\ nFees = f[n - 1]
    BY <1>6 DEF Fees
  <2>3. PICK h : FeeSums(blk, h, n - 1) /\ ~PaysTooMuch(blk, h[n - 1])
    BY <2>1, <1>6 DEF Fees
  <2>4. f[n - 1] = h[n - 1]
    BY <2>1, <2>2, <2>3, <1>3, <1>6, FeesUnique
  <2> QED BY <2>2, <2>3, <2>4
<1> QED BY <1>4, <1>5, <1>6

\* A block connected before is found good each time it is connected again, so no
\* block of the active chain is ever marked invalid, and the target is the best there is.
LEMMA TargetNext ==
  ASSUME CoinsInv, Passed, Fees, NeverFails, BestTarget, [Next]_vars
  PROVE  NeverFails' /\ BestTarget'
PROOF
<1>1. Types /\ Idle /\ Connecting
  BY DEF CoinsInv, Loops
<1>2. ASSUME UNCHANGED <<failed, known, target>>, undo' = undo, pc' # "connect" \/ UNCHANGED <<pc, blk>>
      PROVE  NeverFails' /\ BestTarget'
  <2>1. NeverFails'
    BY <1>2 DEF NeverFails
  <2>2. BestTarget'
    BY <1>2 DEF BestTarget, Best
  <2> QED BY <2>1, <2>2
<1>3. ASSUME NEW b, b \notin DOMAIN undo, ConnectFails(b) PROVE NeverFails' /\ BestTarget'
  <2>1. undo' = undo /\ failed' = failed \cup {b} /\ target' \in Best(known, failed') /\ known' = known
        /\ pc' # "connect"
    BY <1>3 DEF ConnectFails, coinVars
  <2>2. NeverFails'
    BY <2>1, <1>3 DEF NeverFails
  <2>3. BestTarget'
    BY <2>1 DEF BestTarget, Best
  <2> QED BY <2>2, <2>3
<1>4. CASE BeginConnect
  <2>1. PICK b \in Chain[target] \ {Genesis} :
          /\ Prev[b] = tip
          /\ IF \E t \in ToSet(Vtx[b]) : ~IsPruned(TipCoins(t))
             THEN ConnectFails(b)
             ELSE /\ pc' = "connect" /\ blk' = b /\ n' = 1
                  /\ UNCHANGED <<view, blockundo, nFees, chainVars, coinVars, poolVars>>
    BY <1>4 DEF BeginConnect
  <2>2. CASE \E t \in ToSet(Vtx[b]) : ~IsPruned(TipCoins(t))
    <3>1. b \notin DOMAIN undo
      BY <1>4, <2>1, <2>2, ConnectsAgain DEF BeginConnect
    <3> QED BY <3>1, <2>1, <2>2, <1>3
  <2>3. CASE blk' = b /\ UNCHANGED <<chainVars, coinVars>>
    <3>1. b \notin failed
      BY DEF BestTarget, Best
    <3>2. UNCHANGED <<failed, known, target, undo>>
      BY <2>3 DEF chainVars, coinVars
    <3>3. NeverFails'
      BY <2>3, <3>1, <3>2 DEF NeverFails
    <3>4. BestTarget'
      BY <3>2 DEF BestTarget, Best
    <3> QED BY <3>3, <3>4
  <2> QED BY <2>1, <2>2, <2>3
<1>5. CASE ConnectTx
  <2>1. CASE n > 1 /\ ~CheckInputs([t \in InputTxs(Vtx[blk][n]) |-> GetCoins(view, t)], Vtx[blk][n], Height[blk])
    <3>1. blk \notin DOMAIN undo
      BY <1>5, <2>1, ConnectsAgain DEF ConnectTx
    <3>2. ConnectFails(blk)
      BY <1>5, <2>1 DEF ConnectTx
    <3> QED BY <3>1, <3>2, <1>3
  <2>2. CASE ~(n > 1 /\ ~CheckInputs([t \in InputTxs(Vtx[blk][n]) |-> GetCoins(view, t)], Vtx[blk][n], Height[blk]))
    BY <1>5, <2>2, <1>2 DEF ConnectTx, chainVars, coinVars
  <2> QED BY <2>1, <2>2
<1>6. CASE EndConnectBlock
  <2>1. CASE PaysTooMuch(blk, nFees)
    <3>1. blk \notin DOMAIN undo /\ ConnectFails(blk)
      BY <1>6, <2>1, ConnectsAgain DEF EndConnectBlock
    <3> QED BY <3>1, <1>3
  <2>2. CASE ~PaysTooMuch(blk, nFees)
    <3>1. UNCHANGED <<failed, known, target>> /\ DOMAIN undo' \subseteq DOMAIN undo \cup {blk}
      BY <1>6, <2>2 DEF EndConnectBlock, chainVars
    <3>2. blk \notin failed /\ pc' # "connect"
      BY <1>6, <2>2 DEF EndConnectBlock, NeverFails
    <3> QED BY <3>1, <3>2 DEF NeverFails, BestTarget, Best
  <2> QED BY <2>1, <2>2
<1>7. CASE UNCHANGED vars
  BY <1>2, <1>7 DEF vars, coinVars, chainVars, callVars
<1>8. CASE \E tx \in Txs : AcceptToMemoryPool(tx)
  BY <1>2, <1>8 DEF AcceptToMemoryPool, coinVars, chainVars, callVars
<1>9. CASE FinishConnect \/ RemoveConflicts \/ ConnectDone \/ BeginDisconnect
  BY <1>2, <1>9 DEF FinishConnect, RemoveConflicts, ConnectDone, BeginDisconnect, coinVars, chainVars, callVars
<1>10. CASE DisconnectTx \/ FinishDisconnect \/ Resurrect \/ DisconnectDone
  BY <1>2, <1>10 DEF DisconnectTx, FinishDisconnect, Resurrect, DisconnectDone, coinVars, chainVars, callVars
<1>11. ASSUME NEW b \in Blocks \ {Genesis}, AcceptBlock(b) PROVE NeverFails' /\ BestTarget'
  <2>1. /\ failed' = failed /\ undo' = undo /\ known' = known \cup {b} /\ tip = target
        /\ Chain[b] \cap failed = {} /\ UNCHANGED <<pc, blk>> /\ target' = IF Height[b] > Height[tip] THEN b ELSE target
    BY <1>11 DEF AcceptBlock, Settled, coinVars, callVars
  <2>2. NeverFails'
    BY <2>1 DEF NeverFails
  <2>3. \A c \in known \cup {b} : Height[c] \in Nat
    BY <1>1, HeightFacts DEF Types
  <2>4. /\ target \in known /\ Chain[target] \cap failed = {}
        /\ \A c \in known : Chain[c] \cap failed = {} => Height[c] <= Height[target]
    BY DEF BestTarget, Best
  <2>5. /\ target' \in known \cup {b} /\ Chain[target'] \cap failed = {}
        /\ \A c \in known \cup {b} : Chain[c] \cap failed = {} => Height[c] <= Height[target']
    BY <2>1, <2>3, <2>4
  <2>6. BestTarget'
    BY <2>1, <2>5 DEF BestTarget, Best
  <2> QED BY <2>2, <2>6
<1> QED BY <1>4, <1>5, <1>6, <1>7, <1>8, <1>9, <1>10, <1>11 DEF Next

-----------------------------------------------------------------------------
(* What pcoinsTip has an entry of, and what the pool was checked for *)

\* SetCoins adds an entry.
LEMMA SetCoinsWithin ==
  ASSUME NEW v, NEW D, Within(v, D), NEW t \in D, NEW c
  PROVE  Within(SetCoins(v, t, c), D)
BY DEF Within, SetCoins, Overlay

\* The transactions a transaction spends from.
LEMMA InputTxsFacts ==
  ASSUME NEW t \in Txs
  PROVE  InputTxs(t) \subseteq Txs /\ \A k \in 1..Len(Vin[t]) : Vin[t][k][1] \in InputTxs(t)
PROOF
<1> DEFINE s == Vin[t]
<1>1. \A k \in 1..Len(s) : s[k] \in ToSet(s)
  <2>1. DOMAIN s = 1..Len(s)
    BY InputFacts
  <2> HIDE DEF s
  <2> QED BY <2>1 DEF ToSet
<1>2. \A o \in ToSet(Vin[t]) : o[1] \in Txs
  BY InputFacts, OutPointFacts
<1> QED BY <1>1, <1>2 DEF InputTxs

\* Spending an input sets the coins of one transaction, and so does restoring one.
LEMMA SpendSets ==
  ASSUME NEW acc, NEW o
  PROVE  \E c : SpendInput(acc, o).view = SetCoins(acc.view, o[1], c)
BY DEF SpendInput

\* So does restoring one.
LEMMA RestoreSets ==
  ASSUME NEW acc, NEW in
  PROVE  \E c : RestoreInput(acc, in).view = SetCoins(acc.view, in[1][1], c)
BY DEF RestoreInput

\* UpdateCoins has entries for the transaction and those it spends.
LEMMA UpdateWithin ==
  ASSUME TipTypes, NEW v \in Views, NEW tx \in Txs, NEW ht \in Nat,
         NEW D, Within(v, D), tx \in D, InputTxs(tx) \subseteq D
  PROVE  Within(UpdateCoins(v, tx, ht).view, D)
PROOF
<1> DEFINE m == Len(Vin[tx])
<1>1. PICK h : /\ h[0] = [view |-> v, undo |-> <<>>]
               /\ \A k \in 1..m : h[k] = SpendInput(h[k - 1], Vin[tx][k])
               /\ UpdateCoins(v, tx, ht).view = SetCoins(h[m].view, tx, CoinsOf(tx, ht))
  BY UpdateSteps
<1>2. m \in Nat /\ \A k \in 1..m : Vin[tx][k][1] \in D
  BY InputFacts, InputTxsFacts
<1> HIDE DEF m
<1> DEFINE S == {k \in 0..m : Within(h[k].view, D)}
<1>3. 0 \in S /\ S \in SUBSET (0..m)
  BY <1>1, <1>2
<1>4. ASSUME NEW k \in 1..m, k - 1 \in S PROVE k \in S
  <2>1. Within(h[k - 1].view, D) /\ k \in 0..m
    BY <1>2, <1>4
  <2>2. PICK c : h[k].view = SetCoins(h[k - 1].view, Vin[tx][k][1], c)
    <3> DEFINE acc == h[k - 1]
               o == Vin[tx][k]
    <3>1. h[k] = SpendInput(acc, o)
      BY <1>1
    <3> HIDE DEF acc, o
    <3>2. \E c : h[k].view = SetCoins(acc.view, o[1], c)
      BY <3>1, SpendSets
    <3> QED BY <3>2 DEF acc, o
  <2> QED BY <2>1, <2>2, <1>2, SetCoinsWithin
<1> HIDE DEF S
<1>5. m \in S
  BY <1>2, <1>3, <1>4, PrefixInd
<1>6. Within(h[m].view, D)
  BY <1>5 DEF S
<1> QED BY <1>1, <1>6, SetCoinsWithin

\* So has DisconnectBlock.
LEMMA UndoWithin ==
  ASSUME TipTypes, NEW v \in Views, NEW tx \in Txs, NEW ht \in Nat,
         NEW u \in Seq(UndoRecord), Len(u) = Len(Vin[tx]),
         NEW D, Within(v, D), tx \in D, InputTxs(tx) \subseteq D
  PROVE  Within(UndoTx(v, tx, ht, u).view, D)
PROOF
<1> DEFINE m == Len(Vin[tx])
           first == IF HaveCoins(v, tx) THEN SetCoins(v, tx, NoCoins) ELSE v
<1>1. PICK h : /\ h[0] = [view |-> first, fClean |-> SameCoins(GetCoins(v, tx), CoinsOf(tx, ht))]
               /\ \A k \in 1..m : h[k] = RestoreInput(h[k - 1], <<Vin[tx][(m - k) + 1], u[(m - k) + 1]>>)
               /\ UndoTx(v, tx, ht, u) = h[m]
  BY UndoSteps
<1>2. m \in Nat /\ \A k \in 1..m : Vin[tx][k][1] \in D
  BY InputFacts, InputTxsFacts
<1>3. Within(first, D)
  BY SetCoinsWithin
<1> HIDE DEF m, first
<1>4. Within(h[0].view, D)
  BY <1>1, <1>3
<1> DEFINE S == {k \in 0..m : Within(h[k].view, D)}
<1>5. 0 \in S /\ S \in SUBSET (0..m)
  BY <1>2, <1>4
<1>6. ASSUME NEW k \in 1..m, k - 1 \in S PROVE k \in S
  <2> DEFINE j == (m - k) + 1
  <2>1. j \in 1..m /\ k \in 0..m
    BY <1>2
  <2>2. h[k] = RestoreInput(h[k - 1], <<Vin[tx][j], u[j]>>)
    BY <1>1
  <2> HIDE DEF j
  <2> DEFINE in == <<Vin[tx][j], u[j]>>
  <2>3. in[1] = Vin[tx][j] /\ h[k] = RestoreInput(h[k - 1], in)
    BY <2>2
  <2> HIDE DEF in
  <2>4. PICK c : h[k].view = SetCoins(h[k - 1].view, in[1][1], c)
    <3> DEFINE acc == h[k - 1]
    <3>1. h[k] = RestoreInput(acc, in)
      BY <2>3
    <3> HIDE DEF acc
    <3>2. \E c : h[k].view = SetCoins(acc.view, in[1][1], c)
      BY <3>1, RestoreSets
    <3> QED BY <3>2 DEF acc
  <2>5. Within(h[k - 1].view, D) /\ in[1][1] \in D
    BY <1>2, <1>6, <2>1, <2>3
  <2> QED BY <2>1, <2>4, <2>5, SetCoinsWithin
<1> HIDE DEF S
<1>7. m \in S
  BY <1>2, <1>5, <1>6, PrefixInd
<1>8. Within(h[m].view, D)
  BY <1>7 DEF S
<1> QED BY <1>1, <1>8

\* The undo record DisconnectBlock reads has an entry for each input.
LEMMA UndoFits ==
  ASSUME CoinsInv, DisconnectTx
  PROVE  LET u == IF n > 1 THEN undo[blk][n - 1] ELSE <<>>
         IN  u \in Seq(UndoRecord) /\ Len(u) = Len(Vin[Vtx[blk][n]])
PROOF
<1>1. HistoryOf(undo) /\ blk \in DOMAIN undo /\ n \in 1..Len(Vtx[blk])
  BY DEF CoinsInv, DisconnectTx, Loops, Disconnecting, History
<1>2. blk \in Blocks \ {Genesis} /\ Applied(blk, Len(Vtx[blk]), undo[blk])
  BY <1>1 DEF HistoryOf
<1>3. Len(Vtx[blk]) \in Nat /\ Vtx[blk][n] \in Txs /\ (Vtx[blk][n] \in CoinBases <=> n = 1)
  BY <1>1, <1>2, BlockFacts
<1>4. CASE n = 1
  <2>1. Len(Vin[Vtx[blk][n]]) = 0
    BY <1>3, <1>4, InputFacts
  <2>2. <<>> \in Seq(UndoRecord) /\ Len(<<>>) = 0
    OBVIOUS
  <2> QED BY <2>1, <2>2, <1>4
<1>5. CASE n > 1
  <2>1. n \in 2..Len(Vtx[blk])
    BY <1>1, <1>3, <1>5
  <2>2. UndoOK(Part(blk, n - 1), Vtx[blk][n], undo[blk][n - 1])
    BY <2>1, <1>2 DEF Applied
  <2> QED BY <2>2, <1>5 DEF UndoOK
<1>6. n = 1 \/ n > 1
  BY <1>1, <1>3
<1> QED BY <1>4, <1>5, <1>6

\* The transactions of a block up to a position are on its chain.
LEMMA UptoChain ==
  ASSUME NEW b \in Blocks \ {Genesis}, NEW k \in 0..Len(Vtx[b])
  PROVE  Upto(b, k) \subseteq ChainTxs(b)
PROOF
<1>1. ChainTxs(b) = ChainTxs(Prev[b]) \cup ToSet(Vtx[b]) /\ ToSet(Vtx[b]) = {Vtx[b][i] : i \in 1..Len(Vtx[b])}
  BY ChainTxsFacts, VtxSet
<1>2. \A i \in 1..k : i \in 1..Len(Vtx[b])
  BY BlockFacts
<1> QED BY <1>1, <1>2 DEF Upto

\* A transaction of a block touches its chain only.
LEMMA TouchBlockTx ==
  ASSUME NEW b \in Blocks \ {Genesis}, NEW k \in 1..Len(Vtx[b]),
         Accounts(Part(b, k - 1), Upto(b, k - 1)), ToSet(Vin[Vtx[b][k]]) \subseteq Outs(Part(b, k - 1))
  PROVE  Vtx[b][k] \in ChainTxs(b) /\ InputTxs(Vtx[b][k]) \subseteq ChainTxs(b)
PROOF
<1>1. Len(Vtx[b]) \in Nat /\ k - 1 \in 0..Len(Vtx[b])
  BY BlockFacts
<1>2. Upto(b, k - 1) \subseteq ChainTxs(b)
  BY <1>1, UptoChain
<1>3. \A u \in Part(b, k - 1) : u.out[1] \in Upto(b, k - 1)
  BY DEF Accounts
<1>4. \A o \in ToSet(Vin[Vtx[b][k]]) : o[1] \in Upto(b, k - 1)
  BY <1>3 DEF Outs
<1>5. Vtx[b][k] \in ChainTxs(b)
  BY ChainTxsFacts, VtxSet
<1> QED BY <1>2, <1>4, <1>5 DEF InputTxs

\* ConnectTx that goes on.
LEMMA ConnectTouches ==
  ASSUME NoCoinBaseAgain, CoinsInv, ViewsTouch, ConnectTx, pc' = "connect"
  PROVE  ViewsTouch'
PROOF
<1> DEFINE tx == Vtx[blk][n]
           coins == [t \in InputTxs(tx) |-> GetCoins(view, t)]
           D == ChainTxs(blk)
<1>1. /\ pc = "connect" /\ n <= Len(Vtx[blk]) /\ blk' = blk
      /\ n > 1 => CheckInputs(coins, tx, Height[blk])
      /\ view' = UpdateCoins(view, tx, Height[blk]).view
  BY DEF ConnectTx, ConnectFails
<1>2. /\ TipTypes /\ view \in Views /\ blk \in Blocks /\ blk # Genesis /\ Prev[blk] = tip /\ coinsBest = tip
      /\ n \in 1..(Len(Vtx[blk]) + 1) /\ Rep(CoinsIn(view), Part(blk, n - 1))
      /\ Fresh(blk) /\ Available(blk, n - 1)
  BY <1>1 DEF CoinsInv, Types, Loops, Connecting, Applied
<1>3. Len(Vtx[blk]) \in Nat /\ n \in 1..Len(Vtx[blk]) /\ tx \in Txs /\ Height[blk] \in Nat /\ n - 1 \in 0..Len(Vtx[blk])
      /\ (tx \in CoinBases <=> n = 1)
  BY <1>1, <1>2, BlockFacts
<1>4. Accounts(Part(blk, n - 1), Upto(blk, n - 1))
  <2>1. Accounts(Utxo[Prev[blk]], ChainTxs(Prev[blk]))
    BY <1>2, TipAccounts
  <2>2. \A k \in 0..(n - 1) : Accounts(Part(blk, k), Upto(blk, k))
    BY <2>1, <1>2, <1>3, BlockAccounts
  <2> QED BY <2>2, <1>3
<1>5. ToSet(Vin[tx]) \subseteq Outs(Part(blk, n - 1))
  <2>1. CASE n = 1
    <3>1. Len(Vin[tx]) = 0
      BY <2>1, <1>3, InputFacts
    <3>2. ToSet(Vin[tx]) = {Vin[tx][i] : i \in 1..Len(Vin[tx])}
      BY <1>3, InputFacts
    <3> QED BY <3>1, <3>2
  <2>2. CASE n > 1
    <3>1. \A t \in InputTxs(tx) : coins[t] = CoinsIn(view)[t]
      <4>1. InputTxs(tx) \subseteq Txs
        BY <1>3, InputTxsFacts
      <4> QED BY <4>1 DEF CoinsIn
    <3> DEFINE C == CoinsIn(view)
               U == Part(blk, n - 1)
               ht == Height[blk]
    <3>2. Rep(C, U) /\ (\A t \in InputTxs(tx) : coins[t] = C[t]) /\ CheckInputs(coins, tx, ht) /\ tx \in Txs
      BY <1>1, <1>2, <1>3, <2>2, <3>1
    <3> HIDE DEF C, U, ht, coins, tx
    <3>3. ToSet(Vin[tx]) \subseteq Outs(U)
      BY <3>2, CheckedInputs
    <3> QED BY <3>3 DEF U
  <2> QED BY <2>1, <2>2, <1>3
<1>6. tx \in D /\ InputTxs(tx) \subseteq D
  BY <1>2, <1>3, <1>4, <1>5, TouchBlockTx
<1>7. Within(view, D)
  BY <1>1 DEF ViewsTouch
<1>8. Within(view', D)
  <2> DEFINE ht == Height[blk]
  <2>1. view' = UpdateCoins(view, tx, ht).view /\ ht \in Nat
    BY <1>1, <1>3
  <2> HIDE DEF D, tx, ht
  <2> QED BY <2>1, <1>2, <1>3, <1>6, <1>7, UpdateWithin
<1> QED BY <1>1, <1>8 DEF ViewsTouch

\* DisconnectTx.
LEMMA DisconnectTouches ==
  ASSUME NoCoinBaseAgain, CoinsInv, ViewsTouch, DisconnectTx
  PROVE  ViewsTouch'
PROOF
<1> DEFINE tx == Vtx[blk][n]
           u == IF n > 1 THEN undo[blk][n - 1] ELSE <<>>
           D == ChainTxs(blk)
<1>1. /\ pc = "disconnect" /\ n >= 1 /\ blk' = blk
      /\ view' = UndoTx(view, tx, Height[blk], u).view
  BY DEF DisconnectTx
<1>2. /\ TipTypes /\ view \in Views /\ blk = tip /\ tip # Genesis /\ n \in 0..Len(Vtx[blk])
      /\ blk \in DOMAIN undo /\ u \in Seq(UndoRecord) /\ Len(u) = Len(Vin[tx])
  BY <1>1, UndoFits DEF CoinsInv, Types, History, Loops, Disconnecting
<1>3. /\ blk \in Blocks \ {Genesis}
      /\ \A k \in 1..Len(Vtx[blk]) :
               /\ Accounts(Part(blk, k - 1), Upto(blk, k - 1))
               /\ ToSet(Vin[Vtx[blk][k]]) \subseteq Outs(Part(blk, k - 1))
  BY <1>2, BlockInputs
<1>4. Len(Vtx[blk]) \in Nat /\ n \in 1..Len(Vtx[blk]) /\ tx \in Txs /\ Height[blk] \in Nat
  BY <1>1, <1>2, <1>3, BlockFacts
<1>5. tx \in D /\ InputTxs(tx) \subseteq D
  BY <1>3, <1>4, TouchBlockTx
<1>6. Within(view, D)
  BY <1>1 DEF ViewsTouch
<1>7. Within(view', D)
  <2> DEFINE ht == Height[blk]
  <2>1. view' = UndoTx(view, tx, ht, u).view /\ ht \in Nat
    BY <1>1, <1>4
  <2> HIDE DEF D, tx, ht, u
  <2> QED BY <2>1, <1>2, <1>4, <1>5, <1>6, UndoWithin
<1> QED BY <1>1, <1>7 DEF ViewsTouch

\* The temporary view never has entries for anything else.
LEMMA TouchNext ==
  ASSUME NoCoinBaseAgain, CoinsInv, ViewsTouch, [Next]_vars
  PROVE  ViewsTouch'
PROOF
<1>1. CASE UNCHANGED vars
  BY <1>1 DEF vars, callVars, ViewsTouch
<1>2. ASSUME view = Empty, UNCHANGED view PROVE ViewsTouch'
  BY <1>2 DEF ViewsTouch, Within, Empty
<1>3. ASSUME pc' \notin {"connect", "connected", "disconnect"} PROVE ViewsTouch'
  BY <1>3 DEF ViewsTouch
<1>4. ASSUME NEW b \in Blocks \ {Genesis}, AcceptBlock(b) PROVE ViewsTouch'
  BY <1>4, <1>3 DEF AcceptBlock, Settled, callVars
<1>5. ASSUME NEW tx \in Txs, AcceptToMemoryPool(tx) PROVE ViewsTouch'
  BY <1>5, <1>3 DEF AcceptToMemoryPool, Settled, callVars
<1>6. ASSUME BeginConnect PROVE ViewsTouch'
  <2>1. view = Empty
    BY <1>6 DEF BeginConnect, CoinsInv, Loops, Idle
  <2>2. UNCHANGED view \/ pc' = "idle"
    BY <1>6 DEF BeginConnect, ConnectFails
  <2> QED BY <2>1, <2>2, <1>2, <1>3
<1>7. ASSUME ConnectTx PROVE ViewsTouch'
  <2>1. pc' = "connect" \/ pc' = "idle"
    BY <1>7 DEF ConnectTx, ConnectFails
  <2> QED BY <2>1, <1>3, <1>7, ConnectTouches
<1>8. ASSUME EndConnectBlock PROVE ViewsTouch'
  <2>1. pc = "connect" /\ (pc' = "idle" \/ UNCHANGED <<view, blk>>)
    BY <1>8 DEF EndConnectBlock, ConnectFails
  <2> QED BY <2>1, <1>3 DEF ViewsTouch
<1>9. ASSUME FinishConnect \/ RemoveConflicts \/ ConnectDone PROVE ViewsTouch'
  BY <1>9, <1>3 DEF FinishConnect, RemoveConflicts, ConnectDone
<1>10. ASSUME BeginDisconnect PROVE ViewsTouch'
  <2>1. view = Empty /\ UNCHANGED view
    BY <1>10 DEF BeginDisconnect, CoinsInv, Loops, Idle
  <2> QED BY <2>1, <1>2
<1>11. ASSUME DisconnectTx PROVE ViewsTouch'
  BY <1>11, DisconnectTouches
<1>12. ASSUME FinishDisconnect \/ Resurrect \/ DisconnectDone PROVE ViewsTouch'
  BY <1>12, <1>3 DEF FinishDisconnect, Resurrect, DisconnectDone
<1> QED BY <1>1, <1>4, <1>5, <1>6, <1>7, <1>8, <1>9, <1>10, <1>11, <1>12 DEF Next

\* WriteChainState adds what the view has.
LEMMA WriteHas ==
  ASSUME NEW D, Within(view, D), WriteChainState(Overlay(cacheCoins, view)), NEW t, TipHaveCoins(t)'
  PROVE  TipHaveCoins(t) \/ t \in D
PROOF
<1>1. t \in DOMAIN Overlay(cacheCoins, view) => TipHaveCoins(t) \/ t \in D
  BY DEF Overlay, Within, TipHaveCoins
<1>2. t \in DOMAIN Written(Overlay(cacheCoins, view)) => TipHaveCoins(t) \/ t \in D
  <2>1. t \in DOMAIN Overlay(coinsDB, Overlay(cacheCoins, view)) => t \in DOMAIN coinsDB \/ t \in DOMAIN Overlay(cacheCoins, view)
    BY DEF Overlay
  <2> QED BY <2>1, <1>1 DEF Written, TipHaveCoins
<1>3. t \in DOMAIN cacheCoins' \/ t \in DOMAIN coinsDB'
  BY DEF TipHaveCoins
<1>4. \/ coinsDB' = Written(Overlay(cacheCoins, view)) /\ cacheCoins' = Empty
      \/ cacheCoins' = Overlay(cacheCoins, view) /\ coinsDB' = coinsDB
  BY DEF WriteChainState
<1>5. t \notin DOMAIN Empty
  BY DEF Empty
<1> QED BY <1>1, <1>2, <1>3, <1>4, <1>5 DEF TipHaveCoins

\* A step that leaves the coins alone.
LEMMA KeepInTip ==
  ASSUME NotInTip, UNCHANGED <<coinsDB, cacheCoins>>, ToConnect = {},
         \A t \in mapTx' : t \in mapTx \/ ~TipHaveCoins(t)
  PROVE  NotInTip'
PROOF
<1> SUFFICES ASSUME NEW t \in mapTx', TipHaveCoins(t)' PROVE FALSE
  BY DEF NotInTip
<1>1. TipHaveCoins(t)
  BY DEF TipHaveCoins
<1> QED BY <1>1 DEF NotInTip

\* Connecting a block.
LEMMA ConnectInTip ==
  ASSUME NoCoinBaseAgain, CoinsInv, PoolTypes, PoolInv, ViewsTouch, NotInTip, FinishConnect
  PROVE  NotInTip'
PROOF
<1>1. pc = "connected" /\ ToConnect = {}
  BY DEF FinishConnect, ToConnect
<1>2. coinsBest' = blk /\ UNCHANGED mapTx /\ WriteChainState(Overlay(cacheCoins, view))
  BY DEF FinishConnect, poolVars
<1>3. PoolInv'
  BY PoolNext DEF Next
<1>4. Within(view, ChainTxs(blk))
  BY <1>1 DEF ViewsTouch
<1> SUFFICES ASSUME NEW t \in mapTx', TipHaveCoins(t)' PROVE t \in ToConnect'
  BY DEF NotInTip
<1>5. TipHaveCoins(t) \/ t \in ChainTxs(blk)
  BY <1>2, <1>4, WriteHas
<1>6. ~TipHaveCoins(t)
  BY <1>1, <1>2 DEF NotInTip
<1>7. (mapTx \cap ChainTxs(coinsBest) \subseteq ToConnect)'
  BY <1>3 DEF PoolInv, OffChain
<1>8. ChainTxs(coinsBest)' = ChainTxs(blk)
  BY <1>2 DEF ChainTxs
<1> QED BY <1>5, <1>6, <1>7, <1>8

\* Disconnecting one.
LEMMA DisconnectInTip ==
  ASSUME CoinsInv, PoolInv, ViewsTouch, NotInTip, FinishDisconnect
  PROVE  NotInTip'
PROOF
<1>1. /\ pc = "disconnect" /\ ToConnect = {} /\ UNCHANGED mapTx
      /\ WriteChainState(Overlay(cacheCoins, view))
  BY DEF FinishDisconnect, ToConnect, poolVars
<1>2. Within(view, ChainTxs(blk)) /\ blk = coinsBest
  BY <1>1 DEF ViewsTouch, CoinsInv, Loops, Disconnecting
<1>3. mapTx \cap ChainTxs(blk) = {}
  BY <1>1, <1>2 DEF PoolInv, OffChain
<1> SUFFICES ASSUME NEW t \in mapTx', TipHaveCoins(t)' PROVE FALSE
  BY DEF NotInTip
<1>4. TipHaveCoins(t) \/ t \in ChainTxs(blk)
  BY <1>1, <1>2, WriteHas
<1>5. ~TipHaveCoins(t)
  BY <1>1 DEF NotInTip
<1> QED BY <1>1, <1>3, <1>4, <1>5

\* The loop over the conflicts.
LEMMA ConflictsInTip ==
  ASSUME CoinsInv, NotInTip, RemoveConflicts
  PROVE  NotInTip'
PROOF
<1> DEFINE tx == Vtx[blk][n]
<1>1. /\ pc = "conflicts" /\ UNCHANGED <<pc, blk, coinsDB, cacheCoins>> /\ n' = n + 1 /\ n \in Nat
      /\ mapTx' \subseteq mapTx \ {tx}
  BY DEF RemoveConflicts, RemoveForBlock, RemoveFromPool, coinVars, CoinsInv, Types
<1> SUFFICES ASSUME NEW t \in mapTx', TipHaveCoins(t)' PROVE t \in ToConnect'
  BY DEF NotInTip
<1>2. TipHaveCoins(t) /\ t \in mapTx /\ t # tx
  BY <1>1 DEF TipHaveCoins
<1>3. t \in ToConnect
  BY <1>2 DEF NotInTip
<1>4. PICK i \in n..Len(Vtx[blk]) : t = Vtx[blk][i]
  BY <1>3, <1>1 DEF ToConnect, Ahead
<1>5. i \in (n + 1)..Len(Vtx[blk])
  BY <1>1, <1>2, <1>4
<1> QED BY <1>1, <1>4, <1>5 DEF ToConnect, Ahead

\* pcoinsTip never gets an entry of a pool transaction.
LEMMA InTipNext ==
  ASSUME NoCoinBaseAgain, CoinsInv, PoolTypes, PoolInv, ViewsTouch, NotInTip, [Next]_vars
  PROVE  NotInTip'
PROOF
<1>1. ASSUME pc # "conflicts", UNCHANGED <<coinsDB, cacheCoins, mapTx>> PROVE NotInTip'
  <2>1. ToConnect = {}
    BY <1>1 DEF ToConnect
  <2> QED BY <2>1, <1>1, KeepInTip
<1>2. ASSUME pc # "conflicts", UNCHANGED <<coinsDB, cacheCoins>>, NEW tx, Acceptable(tx), addUnchecked(tx)
      PROVE  NotInTip'
  <2>1. ToConnect = {} /\ ~TipHaveCoins(tx) /\ mapTx' = mapTx \cup {tx}
    BY <1>2 DEF ToConnect, Acceptable, PoolHaveCoins, addUnchecked
  <2> QED BY <2>1, <1>2, KeepInTip
<1>3. CASE UNCHANGED vars
  BY <1>3 DEF vars, coinVars, poolVars, callVars, NotInTip, TipHaveCoins, ToConnect, Ahead
<1>4. ASSUME NEW b \in Blocks \ {Genesis}, AcceptBlock(b) PROVE NotInTip'
  BY <1>4, <1>1 DEF AcceptBlock, Settled, coinVars, poolVars
<1>5. ASSUME NEW tx \in Txs, AcceptToMemoryPool(tx) PROVE NotInTip'
  BY <1>5, <1>1, <1>2 DEF AcceptToMemoryPool, Settled, coinVars, poolVars
<1>6. ASSUME BeginConnect PROVE NotInTip'
  BY <1>6, <1>1 DEF BeginConnect, ConnectFails, coinVars, poolVars
<1>7. ASSUME ConnectTx \/ EndConnectBlock PROVE NotInTip'
  BY <1>7, <1>1 DEF ConnectTx, EndConnectBlock, ConnectFails, coinVars, poolVars
<1>8. ASSUME FinishConnect PROVE NotInTip'
  BY <1>8, ConnectInTip
<1>9. ASSUME RemoveConflicts PROVE NotInTip'
  BY <1>9, ConflictsInTip
<1>10. ASSUME ConnectDone PROVE NotInTip'
  <2>1. n > Len(Vtx[blk]) /\ UNCHANGED <<coinsDB, cacheCoins, mapTx>> /\ n \in Nat /\ blk \in DOMAIN undo
    BY <1>10 DEF ConnectDone, coinVars, poolVars, CoinsInv, Types, PoolInv, PoolLoop
  <2>2. Len(Vtx[blk]) \in Nat
    BY <2>1, BlockFacts DEF CoinsInv, History, HistoryOf
  <2>3. ToConnect = {}
    BY <2>1, <2>2, NoneAhead
  <2> QED BY <2>1, <2>3, KeepInTip
<1>11. ASSUME BeginDisconnect \/ DisconnectTx \/ DisconnectDone PROVE NotInTip'
  BY <1>11, <1>1 DEF BeginDisconnect, DisconnectTx, DisconnectDone, coinVars, poolVars
<1>12. ASSUME FinishDisconnect PROVE NotInTip'
  BY <1>12, DisconnectInTip
<1>13. ASSUME Resurrect PROVE NotInTip'
  <2> DEFINE tx == Vtx[blk][n]
  <2>1. pc # "conflicts" /\ UNCHANGED <<coinsDB, cacheCoins>>
    BY <1>13 DEF Resurrect, coinVars
  <2>2. \/ UNCHANGED mapTx \/ (Acceptable(tx) /\ addUnchecked(tx)) \/ mapTx' \subseteq mapTx
    BY <1>13 DEF Resurrect, poolVars, RemoveFromPool
  <2>3. ASSUME mapTx' \subseteq mapTx PROVE NotInTip'
    <3>1. ToConnect = {}
      BY <2>1 DEF ToConnect
    <3> QED BY <3>1, <2>1, <2>3, KeepInTip
  <2> HIDE DEF tx
  <2> QED BY <2>1, <2>2, <2>3, <1>1, <1>2
<1> QED BY <1>3, <1>4, <1>5, <1>6, <1>7, <1>8, <1>9, <1>10, <1>11, <1>12, <1>13 DEF Next

\* An unspent output of a coinbase was made by a block of the chain, at its height.
LEMMA CoinBaseMade ==
  \A b \in Blocks : \A u \in Utxo[b] : u.out[1] \in CoinBases =>
      \E c \in Chain[b] \ {Genesis} : Vtx[c][1] = u.out[1] /\ Height[c] = u.nHeight
PROOF
<1> DEFINE Good(b) == \A u \in Utxo[b] : u.out[1] \in CoinBases =>
                         \E c \in Chain[b] \ {Genesis} : Vtx[c][1] = u.out[1] /\ Height[c] = u.nHeight
           S == {b \in Blocks : Good(b)}
<1>1. Genesis \in S
  BY UtxoFacts, Constants
<1>2. ASSUME NEW b \in Blocks \ {Genesis}, Prev[b] \in S PROVE b \in S
  <2>1. Utxo[b] = Part(b, Len(Vtx[b])) /\ Len(Vtx[b]) \in 0..Len(Vtx[b])
    BY UtxoFacts, BlockFacts
  <2>2. Chain[b] = {b} \cup Chain[Prev[b]]
    BY ChainFacts
  <2>3. ASSUME NEW u \in Utxo[b], u.out[1] \in CoinBases
        PROVE  \E c \in Chain[b] \ {Genesis} : Vtx[c][1] = u.out[1] /\ Height[c] = u.nHeight
    <3>1. u \in Utxo[Prev[b]] \/ u \in Made(b, Len(Vtx[b]))
      BY <2>1, <2>3 DEF Part, Minus
    <3>2. CASE u \in Utxo[Prev[b]]
      <4>1. Good(Prev[b])
        BY <1>2
      <4>2. PICK c \in Chain[Prev[b]] \ {Genesis} : Vtx[c][1] = u.out[1] /\ Height[c] = u.nHeight
        BY <4>1, <3>2, <2>3
      <4> QED BY <4>2, <2>2
    <3>3. CASE u \in Made(b, Len(Vtx[b]))
      <4>1. u.nHeight = Height[b] /\ \E i \in 1..Len(Vtx[b]) : u.out[1] = Vtx[b][i]
        BY <3>3, <2>1, MadeFacts
      <4>2. u.out[1] = Vtx[b][1]
        BY <4>1, <2>3, BlockFacts
      <4> QED BY <4>1, <4>2, <2>2
    <3> QED BY <3>1, <3>2, <3>3
  <2> HIDE DEF S
  <2>4. Good(b)
    BY <2>3
  <2> QED BY <2>4 DEF S
<1> HIDE DEF Good
<1>3. S = Blocks
  <2>1. S \in SUBSET Blocks
    OBVIOUS
  <2> HIDE DEF S
  <2> QED BY <2>1, <1>1, <1>2, BlockInd
<1> QED BY <1>3 DEF Good

\* AcceptToMemoryPool has checked values, scripts and the age of coinbases.
LEMMA AcceptChecked ==
  ASSUME NoCoinBaseAgain, CoinsInv, PoolTypes, PoolInv, pc # "conflicts", NEW tx \in Txs, Acceptable(tx)
  PROVE  ValueIn(tx) >= ValueOut(tx) /\ tx \notin BadScript /\ WasMature(tx)
PROOF
<1> DEFINE coins == [t \in InputTxs(tx) |-> PoolView(t)]
           U == Utxo[coinsBest]
<1>1. CheckInputs(coins, tx, Height[coinsBest] + 1)
  BY DEF Acceptable
<1>2. ValueIn(tx) >= ValueOut(tx) /\ tx \notin BadScript
  BY <1>1 DEF CheckInputs
<1>3. mapTx \cap ChainTxs(coinsBest) = {} /\ mapTx \cap CoinBases = {}
  BY DEF PoolInv, OffChain, ToConnect
<1>4. \A o \in ToSet(Vin[tx]) : o \in Outs(U) \/ o[1] \in mapTx
  BY <1>3, AcceptableFacts
<1>5. ASSUME NEW o \in ToSet(Vin[tx]), o[1] \in CoinBases
      PROVE  \E b, c \in DOMAIN undo : Vtx[b][1] = o[1] /\ (Height[c] + 1) - Height[b] >= COINBASE_MATURITY
  <2>1. PICK u \in U : u.out = o
    BY <1>3, <1>4, <1>5 DEF Outs
  <2>2. U \in SUBSET Records /\ coinsBest \in Blocks /\ coinsBest \in DOMAIN undo \cup {Genesis} /\ HistoryOf(undo)
    BY AtTipFacts
  <2>3. o[1] \in InputTxs(tx) /\ o[1] \in Txs /\ o[1] \notin mapTx
    BY <1>3, <1>5, <2>1, <2>2, RecordFacts DEF InputTxs
  <2>4. IsAvailable(PoolView(o[1]), o[2])
    BY <1>1, <2>3 DEF CheckInputs
  <2>5. PoolView(o[1]) = TipCoins(o[1])
    BY <2>3, <2>4 DEF PoolView, TipCoins, TipHaveCoins
  <2>6. TipCoins(o[1]).fCoinBase /\ TipCoins(o[1]).nHeight = u.nHeight
    <3>1. Rep(CoinsIn(Empty), U)
      BY DEF CoinsInv, AtTip
    <3>2. CoinsIn(Empty)[o[1]] = TipCoins(o[1])
      BY <2>3, EmptyCoins DEF CoinsIn
    <3> QED BY <3>1, <3>2, <2>1, <1>5 DEF Rep
  <2>7. (Height[coinsBest] + 1) - u.nHeight >= COINBASE_MATURITY
    BY <1>1, <2>3, <2>5, <2>6 DEF CheckInputs
  <2>8. PICK b \in Chain[coinsBest] \ {Genesis} : Vtx[b][1] = o[1] /\ Height[b] = u.nHeight
    BY <2>1, <2>2, <1>5, CoinBaseMade
  <2>9. coinsBest # Genesis
    BY <2>1, UtxoFacts
  <2>10. b \in DOMAIN undo
    <3>1. DOMAIN undo \cup {Genesis} \in SUBSET Blocks /\ PrevClosed(DOMAIN undo \cup {Genesis})
      BY <2>2, Constants DEF HistoryOf, PrevClosed
    <3> DEFINE K == DOMAIN undo \cup {Genesis}
    <3>2. K \in SUBSET Blocks /\ PrevClosed(K) /\ coinsBest \in K
      BY <3>1, <2>2
    <3> HIDE DEF K
    <3>3. Chain[coinsBest] \subseteq K
      BY <3>2, ChainKnown
    <3> QED BY <3>3, <2>8 DEF K
  <2>11. coinsBest \in DOMAIN undo
    BY <2>2, <2>9
  <2> QED BY <2>7, <2>8, <2>10, <2>11
<1> QED BY <1>2, <1>5 DEF WasMature

\* The pool keeps only what was checked, and history only grows.
LEMMA KeepChecked ==
  ASSUME PoolChecked, DOMAIN undo \subseteq DOMAIN undo',
         \A t \in mapTx' : t \in mapTx \/ (ValueIn(t) >= ValueOut(t) /\ t \notin BadScript /\ WasMature(t))
  PROVE  PoolChecked'
PROOF
<1> SUFFICES ASSUME NEW t \in mapTx' PROVE ValueIn(t) >= ValueOut(t) /\ t \notin BadScript /\ WasMature(t)'
  BY DEF PoolChecked
<1>1. ValueIn(t) >= ValueOut(t) /\ t \notin BadScript /\ WasMature(t)
  BY DEF PoolChecked
<1>2. WasMature(t)'
  BY <1>1 DEF WasMature
<1> QED BY <1>1, <1>2

\* Every step.
LEMMA CheckedNext ==
  ASSUME NoCoinBaseAgain, CoinsInv, PoolTypes, PoolInv, PoolChecked, [Next]_vars
  PROVE  PoolChecked'
PROOF
<1>1. ASSUME UNCHANGED undo, mapTx' \subseteq mapTx PROVE PoolChecked'
  BY <1>1, KeepChecked
<1>2. ASSUME UNCHANGED undo, pc # "conflicts", NEW tx \in Txs, Acceptable(tx), addUnchecked(tx) PROVE PoolChecked'
  <2>1. mapTx' = mapTx \cup {tx}
    BY <1>2 DEF addUnchecked
  <2>2. ValueIn(tx) >= ValueOut(tx) /\ tx \notin BadScript /\ WasMature(tx)
    BY <1>2, AcceptChecked
  <2> QED BY <2>1, <2>2, <1>2, KeepChecked
<1>3. CASE UNCHANGED vars
  BY <1>3, <1>1 DEF vars, coinVars, poolVars
<1>4. ASSUME NEW b \in Blocks \ {Genesis}, AcceptBlock(b) PROVE PoolChecked'
  BY <1>4, <1>1 DEF AcceptBlock, coinVars, poolVars
<1>5. ASSUME NEW tx \in Txs, AcceptToMemoryPool(tx) PROVE PoolChecked'
  BY <1>5, <1>1, <1>2 DEF AcceptToMemoryPool, Settled, coinVars, poolVars
<1>6. ASSUME BeginConnect \/ ConnectTx PROVE PoolChecked'
  BY <1>6, <1>1 DEF BeginConnect, ConnectTx, ConnectFails, coinVars, poolVars
<1>7. ASSUME EndConnectBlock PROVE PoolChecked'
  <2>1. UNCHANGED mapTx
    BY <1>7 DEF EndConnectBlock, ConnectFails, poolVars
  <2>2. DOMAIN undo \subseteq DOMAIN undo'
    BY <1>7 DEF EndConnectBlock, ConnectFails, coinVars
  <2> QED BY <2>1, <2>2, KeepChecked
<1>8. ASSUME FinishConnect \/ RemoveConflicts PROVE PoolChecked'
  BY <1>8, <1>1 DEF FinishConnect, poolVars, RemoveConflicts, RemoveForBlock, RemoveFromPool, coinVars
<1>9. ASSUME ConnectDone \/ BeginDisconnect \/ DisconnectTx \/ FinishDisconnect \/ DisconnectDone PROVE PoolChecked'
  BY <1>9, <1>1 DEF ConnectDone, BeginDisconnect, DisconnectTx, FinishDisconnect, DisconnectDone, coinVars, poolVars
<1>10. ASSUME Resurrect PROVE PoolChecked'
  <2> DEFINE tx == Vtx[blk][n]
  <2>1. pc = "resurrect" /\ UNCHANGED undo /\ n <= Len(Vtx[blk])
    BY <1>10 DEF Resurrect, coinVars
  <2>2. UNCHANGED mapTx \/ (Acceptable(tx) /\ addUnchecked(tx)) \/ mapTx' \subseteq mapTx
    BY <1>10 DEF Resurrect, poolVars, RemoveFromPool
  <2>3. tx \in Txs
    <3>1. blk \in Blocks \ {Genesis} /\ n \in Nat \ {0}
      BY <2>1 DEF CoinsInv, Types, Loops, Finishing
    <3> QED BY <3>1, <2>1, BlockFacts
  <2> HIDE DEF tx
  <2> QED BY <2>1, <2>2, <2>3, <1>1, <1>2
<1> QED BY <1>3, <1>4, <1>5, <1>6, <1>7, <1>8, <1>9, <1>10 DEF Next

\* The first of two blocks of a chain that have the same coinbase is not fully spent
\* when the second comes, unless they have the same height.
LEMMA SameHeight ==
  ASSUME CoinBaseHeights, HistoryOf(undo), NEW b \in DOMAIN undo, NEW c \in DOMAIN undo, Vtx[b][1] = Vtx[c][1]
  PROVE  Height[b] = Height[c]
PROOF
<1>1. b \in Blocks \ {Genesis} /\ c \in Blocks \ {Genesis} /\ Fresh(b) /\ Fresh(c)
  BY DEF HistoryOf, Applied
<1>2. Vtx[b][1] \in ToSet(Vtx[b]) /\ Vtx[c][1] \in ToSet(Vtx[c])
  <2>1. 1 \in 1..Len(Vtx[b]) /\ 1 \in 1..Len(Vtx[c])
    BY <1>1, BlockFacts
  <2> QED BY <1>1, <2>1, VtxSet
<1>3. \A u \in Utxo[Prev[b]] : u.out[1] # Vtx[b][1]
  BY <1>1, <1>2 DEF Fresh
<1>4. \A u \in Utxo[Prev[c]] : u.out[1] # Vtx[c][1]
  BY <1>1, <1>2 DEF Fresh
<1> QED BY <1>1, <1>3, <1>4 DEF CoinBaseHeights

\* On the best chain, every coinbase a pool transaction spends is old enough.
LEMMA MatureNow ==
  ASSUME CoinBaseHeights, CoinsInv, NeverFails, BestTarget, tip = coinsBest, target = tip,
         NEW t, WasMature(t), NEW u \in Utxo[coinsBest], u.out \in ToSet(Vin[t]), u.out[1] \in CoinBases
  PROVE  (Height[coinsBest] + 1) - u.nHeight >= COINBASE_MATURITY
PROOF
<1>1. /\ Utxo[coinsBest] \in SUBSET Records /\ coinsBest \in Blocks
      /\ coinsBest \in DOMAIN undo \cup {Genesis} /\ HistoryOf(undo)
  BY AtTipFacts
<1>2. PICK b, c \in DOMAIN undo : Vtx[b][1] = u.out[1] /\ (Height[c] + 1) - Height[b] >= COINBASE_MATURITY
  BY DEF WasMature
<1>3. PICK d \in Chain[coinsBest] \ {Genesis} : Vtx[d][1] = u.out[1] /\ Height[d] = u.nHeight
  BY <1>1, CoinBaseMade
<1> DEFINE K == DOMAIN undo \cup {Genesis}
<1>4. K \in SUBSET Blocks /\ PrevClosed(K) /\ coinsBest \in K /\ c \in K
  BY <1>1, Constants DEF HistoryOf, PrevClosed
<1>5. Chain[coinsBest] \subseteq K /\ Chain[c] \subseteq K
  <2> HIDE DEF K
  <2> QED BY <1>4, ChainKnown
<1>6. d \in DOMAIN undo
  BY <1>3, <1>5
<1>7. Height[b] = u.nHeight
  BY <1>1, <1>2, <1>3, <1>6, SameHeight
<1>8. Height[c] <= Height[coinsBest]
  <2>1. Genesis \notin failed
    BY <1>1, ChainGenesis DEF BestTarget, Best
  <2>2. Chain[c] \cap failed = {}
    BY <1>5, <2>1 DEF NeverFails
  <2>3. c \in known
    BY DEF CoinsInv, History
  <2> QED BY <2>2, <2>3 DEF BestTarget, Best
<1>9. Height[c] \in Nat /\ Height[b] \in Nat /\ Height[coinsBest] \in Nat /\ COINBASE_MATURITY \in Nat
  BY <1>1, <1>2, HeightFacts, Constants DEF HistoryOf
<1> QED BY <1>2, <1>7, <1>8, <1>9

-----------------------------------------------------------------------------
(* CreateNewBlock *)

\* In a queue a transaction whose inputs all connect can be mined.
LEMMA QueuedMinable ==
  ASSUME CoinBaseHeights, CoinsInv, PoolTypes, LedgerInv, pc = "mining", OnTip, Queued,
         NEW U, Shows(U), NEW tx \in vecPriority, \A o \in ToSet(Vin[tx]) : Connects(o)
  PROVE  Minable(tx)
PROOF
<1> DEFINE C == CoinsIn(view)
           ht == Height[hashPrev] + 1
           coins == [t \in InputTxs(tx) |-> GetCoins(view, t)]
<1>1. tx \in mapTx /\ tx \in Txs /\ tx \notin Taken /\ WaitsFor(tx) \subseteq Taken /\ Taken \subseteq mapTx
  <2>1. WaitsFor(tx) \subseteq mapTx
    BY DEF WaitsFor, Connects, IsAvailable, TipCoins, TipHaveCoins, NoCoins
  <2> QED BY <2>1 DEF Queued, PoolTypes
<1>2. Rep(C, U) /\ U \in SUBSET Records
  BY DEF Shows, Rep
<1>3. InputTxs(tx) \subseteq Txs /\ ToSet(Vin[tx]) \subseteq OutPoints
  BY <1>1, InputTxsFacts, ValueInFacts
<1>4. \A t \in InputTxs(tx) : coins[t] = C[t]
  BY <1>3 DEF CoinsIn
<1>5. ASSUME NEW o \in ToSet(Vin[tx]) PROVE o \in Outs(U)
  <2>1. o \in OutPoints /\ o \in DOMAIN mapNextTx /\ mapNextTx[o] = tx
    BY <1>1, <1>3 DEF LedgerInv, PoolInv, PoolSpendsExact
  <2>2. \A t \in Taken : o \notin ToSet(Vin[t])
    BY <1>1, <2>1 DEF LedgerInv, PoolInv, PoolSpendsExact
  <2>3. o \in Outs(Utxo[hashPrev]) \/ (o[1] \in Taken /\ o \notin Unspendable)
    <3>1. CASE TipHaveCoins(o[1])
      <4>1. o[1] \notin mapTx
        BY <3>1 DEF LedgerInv, NotInTip, ToConnect
      <4>2. IsAvailable(TipCoins(o[1]), o[2])
        BY <4>1 DEF Connects
      <4>3. o \in Outs(Utxo[coinsBest])
        BY <4>2, <2>1, AtTipFacts
      <4> QED BY <4>3 DEF OnTip
    <3>2. CASE ~TipHaveCoins(o[1])
      <4>1. o[1] \in WaitsFor(tx)
        BY <3>2 DEF WaitsFor
      <4>2. o \notin Unspendable
        BY <2>1 DEF LedgerInv, PoolInv, Supplied
      <4> QED BY <4>1, <4>2, <1>1
    <3> QED BY <3>1, <3>2
  <2> QED BY <2>1, <2>2, <2>3 DEF Shows
<1>6. ASSUME NEW u \in U, u.out \in ToSet(Vin[tx]), u.out[1] \in CoinBases
      PROVE  ht - u.nHeight >= COINBASE_MATURITY
  <2>1. u.out[1] \notin Taken
    BY <1>1, <1>6 DEF LedgerInv, PoolInv
  <2>2. u \in Utxo[coinsBest]
    BY <2>1 DEF Shows, OnTip
  <2>3. WasMature(tx)
    BY <1>1 DEF LedgerInv, PoolChecked
  <2>4. (Height[coinsBest] + 1) - u.nHeight >= COINBASE_MATURITY
    BY <2>2, <2>3, <1>6, MatureNow DEF LedgerInv, OnTip
  <2> QED BY <2>4 DEF OnTip
<1>7. ValueIn(tx) >= ValueOut(tx) /\ tx \notin BadScript
  BY <1>1 DEF LedgerInv, PoolChecked
<1>8. ToSet(Vin[tx]) \subseteq Outs(U)
  BY <1>5
<1> HIDE DEF C, ht, coins
<1>9. CheckInputs(coins, tx, ht)
  BY <1>1, <1>2, <1>4, <1>6, <1>7, <1>8, ChecksInputs
<1> QED BY <1>9 DEF Minable, coins, ht

\* CheckInputs with the coins a view shows.
PassesOn(v, tx) == CheckInputs([t \in InputTxs(tx) |-> GetCoins(v, t)], tx, Height[hashPrev] + 1)
CheckResult == [ok : BOOLEAN, view : Views]

\* What one transaction of ConnectBlock gives.
LEMMA JustCheckFacts ==
  ASSUME TipTypes, hashPrev \in Blocks, NEW acc \in CheckResult, NEW tx \in Txs
  PROVE  /\ JustCheckTx(acc, tx) \in CheckResult
         /\ acc.ok /\ PassesOn(acc.view, tx) /\ IsPruned(TipCoins(tx)) => JustCheckTx(acc, tx).ok
         /\ JustCheckTx(acc, tx).view = UpdateCoins(acc.view, tx, Height[hashPrev] + 1).view
PROOF
<1> DEFINE ht == Height[hashPrev] + 1
           v == acc.view
           good == /\ acc.ok
                   /\ CheckInputs([t \in InputTxs(tx) |-> GetCoins(acc.view, t)], tx, Height[hashPrev] + 1)
                   /\ IsPruned(TipCoins(tx))
           w == UpdateCoins(acc.view, tx, Height[hashPrev] + 1).view
<1>1. ht \in Nat /\ v \in Views
  BY HeightFacts DEF CheckResult
<1>2. CoinsOf(tx, ht) \in CCoins /\ Len(Vin[tx]) \in Nat
  BY <1>1, CoinsOfType, InputFacts
<1>3. w \in Views
  <2> HIDE DEF ht, v
  <2>1. PICK h : /\ \A k \in 0..Len(Vin[tx]) : h[k] \in SpendResult
                 /\ UpdateCoins(v, tx, ht).view = SetCoins(h[Len(Vin[tx])].view, tx, CoinsOf(tx, ht))
    BY <1>1, UpdateSteps
  <2>2. h[Len(Vin[tx])] \in SpendResult
    BY <1>2, <2>1
  <2>3. h[Len(Vin[tx])].view \in Views
    BY <2>2 DEF SpendResult
  <2>4. UpdateCoins(v, tx, ht).view \in Views
    BY <2>1, <2>3, <1>2, SetCoinsView
  <2> QED BY <2>4 DEF v, ht
<1>4. JustCheckTx(acc, tx) = [ok |-> good, view |-> w]
  BY Zenon DEF JustCheckTx
<1>5. good \in BOOLEAN
  OBVIOUS
<1>6. acc.ok /\ PassesOn(v, tx) /\ IsPruned(TipCoins(tx)) => good
  BY DEF PassesOn
<1> HIDE DEF good, w
<1> DEFINE r == [ok |-> good, view |-> w]
<1>7. r \in CheckResult /\ r.ok = good /\ r.view = w
  BY <1>3, <1>5 DEF CheckResult
<1> HIDE DEF r
<1>8. JustCheckTx(acc, tx) = r
  BY <1>4 DEF r
<1> QED BY <1>6, <1>7, <1>8 DEF w

\* The loop of ConnectBlock over the template.
LEMMA JustCheckFold ==
  ASSUME TipTypes, hashPrev \in Blocks, vtx \in Seq(Txs)
  PROVE  \E h : /\ h[0] = [ok |-> TRUE, view |-> Empty]
                /\ JustCheck = h[Len(vtx)]
                /\ \A k \in 1..Len(vtx) : h[k] = JustCheckTx(h[k - 1], vtx[k])
                /\ \A k \in 0..Len(vtx) : h[k] \in CheckResult
PROOF
<1> DEFINE m == Len(vtx)
           base == [ok |-> TRUE, view |-> Empty]
           step == [x \in (1..m) \X CheckResult |-> JustCheckTx(x[2], vtx[x[1]])]
<1>1. m \in Nat /\ DOMAIN vtx = 1..m /\ \A i \in 1..m : vtx[i] \in Txs
  OBVIOUS
<1>2. base \in CheckResult
  BY EmptyView DEF CheckResult
<1>3. step \in [(1..m) \X CheckResult -> CheckResult]
  BY <1>1, JustCheckFacts
<1>4. PICK f \in [SUBSET (1..m) -> CheckResult] : Iterates(f, 1..m, base, step, MaxOf(m))
  <2> HIDE DEF step, m, base
  <2> QED BY <1>1, <1>2, <1>3, SeqIter
<1>5. f = [i \in SUBSET DOMAIN vtx |-> IF i = {} THEN base ELSE JustCheckTx(f[i \ {Max(i)}], vtx[Max(i)])]
  <2>1. ASSUME NEW i \in SUBSET (1..m), i # {}
        PROVE  f[i] = JustCheckTx(f[i \ {Max(i)}], vtx[Max(i)])
    <3>1. Max(i) \in i /\ Max(i) \in 1..m /\ i \ {Max(i)} \in SUBSET (1..m)
      BY <1>1, <2>1, MaxIn
    <3>2. f[i] = step[<<Max(i), f[i \ {Max(i)}]>>]
      BY <1>4, <2>1 DEF Iterates, MaxOf
    <3>3. f[i \ {Max(i)}] \in CheckResult
      BY <3>1
    <3> QED BY <3>1, <3>2, <3>3
  <2>2. f[{}] = base
    BY <1>4 DEF Iterates
  <2> HIDE DEF step, m, base
  <2> QED BY <1>1, <2>1, <2>2
<1>6. \E g : /\ g = [i \in SUBSET DOMAIN vtx |-> IF i = {} THEN base ELSE JustCheckTx(g[i \ {Max(i)}], vtx[Max(i)])]
             /\ JustCheck = g[DOMAIN vtx]
  BY <1>5 DEF JustCheck, FoldLeft, MapThenFoldSet
<1>7. PICK g : /\ g = [i \in SUBSET DOMAIN vtx |-> IF i = {} THEN base ELSE JustCheckTx(g[i \ {Max(i)}], vtx[Max(i)])]
               /\ JustCheck = g[DOMAIN vtx]
  BY <1>6
<1>8. PICK h : PrefixesOf(h, g, m)
  BY <1>1, FoldPrefixes
<1>9. h[0] = base
  <2>1. {} \in SUBSET DOMAIN vtx
    OBVIOUS
  <2>2. g[{}] = base
    BY <1>7, <2>1
  <2> QED BY <1>8, <2>2 DEF PrefixesOf
<1>10. ASSUME NEW k \in 1..m PROVE h[k] = JustCheckTx(h[k - 1], vtx[k])
  <2>1. PICK r \in SUBSET (1..m) : r # {} /\ Max(r) = k /\ h[k] = g[r] /\ h[k - 1] = g[r \ {Max(r)}]
    BY <1>8 DEF PrefixesOf
  <2>2. g[r] = JustCheckTx(g[r \ {Max(r)}], vtx[Max(r)])
    BY <1>1, <1>7, <2>1
  <2> QED BY <2>1, <2>2
<1>11. \A k \in 0..m : h[k] \in CheckResult
  <2>1. \A k \in 1..m : h[k - 1] \in CheckResult => h[k] \in CheckResult
    BY <1>1, <1>10, JustCheckFacts
  <2> HIDE DEF m, base
  <2> QED BY <1>1, <1>2, <1>9, <2>1, PrefixTypes
<1>12. JustCheck = h[m]
  BY <1>1, <1>7, <1>8 DEF PrefixesOf
<1> QED BY <1>9, <1>10, <1>11, <1>12

\* ConnectBlock finds what the miner has found.
LEMMA CheckedOk ==
  ASSUME TipTypes, AtTip, hashPrev \in Blocks, hashPrev = coinsBest, vtx \in Seq(Txs), NEW f, Lined(f, vtx, hashPrev),
         \A t \in ToSet(vtx) : IsPruned(TipCoins(t))
  PROVE  JustCheck.ok
PROOF
<1> DEFINE m == Len(vtx)
           ht == Height[hashPrev] + 1
<1>1. PICK h : /\ h[0] = [ok |-> TRUE, view |-> Empty]
               /\ JustCheck = h[m]
               /\ \A k \in 1..m : h[k] = JustCheckTx(h[k - 1], vtx[k])
               /\ \A k \in 0..m : h[k] \in CheckResult
  BY JustCheckFold
<1>2. m \in Nat /\ ht \in Nat /\ \A k \in 1..m : vtx[k] \in Txs /\ vtx[k] \in ToSet(vtx)
  BY HeightFacts DEF ToSet
<1>3. f[0] = Utxo[hashPrev] /\ \A k \in 1..m : Fits(f[k - 1], vtx[k], ht) /\ f[k] = After(f[k - 1], vtx[k], ht)
  BY DEF Lined
<1> DEFINE S == {k \in 0..m : h[k].ok /\ Rep(CoinsIn(h[k].view), f[k])}
<1>4. 0 \in S /\ S \in SUBSET (0..m)
  <2>1. Rep(CoinsIn(Empty), f[0])
    BY <1>3 DEF AtTip
  <2> QED BY <1>1, <1>2, <2>1
<1>5. ASSUME NEW k \in 1..m, k - 1 \in S PROVE k \in S
  <2> DEFINE acc == h[k - 1]
             tx == vtx[k]
             U == f[k - 1]
             v == acc.view
             coins == [t \in InputTxs(tx) |-> GetCoins(v, t)]
             C == CoinsIn(v)
  <2>1. k - 1 \in 0..m /\ k \in 0..m
    BY <1>2
  <2>2. /\ acc \in CheckResult /\ acc.ok /\ Rep(C, U) /\ h[k] = JustCheckTx(acc, tx)
        /\ tx \in Txs /\ IsPruned(TipCoins(tx)) /\ Fits(U, tx, ht) /\ f[k] = After(U, tx, ht)
    BY <1>1, <1>2, <1>3, <1>5, <2>1
  <2>3. v \in Views
    BY <2>2 DEF CheckResult
  <2>4. \A t \in InputTxs(tx) : coins[t] = C[t]
    <3>1. InputTxs(tx) \subseteq Txs
      BY <2>2, InputTxsFacts
    <3> QED BY <3>1 DEF CoinsIn
  <2>5. CheckInputs(coins, tx, ht)
    <3> HIDE DEF C, coins, ht, U, tx
    <3> QED BY <2>2, <2>4, ChecksInputs DEF Fits
  <2>6. PassesOn(v, tx)
    BY <2>5 DEF PassesOn
  <2>7. h[k].ok /\ h[k].view = UpdateCoins(v, tx, ht).view
    <3> HIDE DEF acc, tx
    <3> QED BY <2>2, <2>6, JustCheckFacts
  <2>8. Rep(CoinsIn(UpdateCoins(v, tx, ht).view), f[k])
    <3> HIDE DEF acc, tx, ht, U, v
    <3> QED BY <1>2, <2>2, <2>3, SpendingIsExact DEF Fits, After, C
  <2> QED BY <2>1, <2>7, <2>8
<1> HIDE DEF S, m
<1>6. m \in S
  BY <1>2, <1>4, <1>5, PrefixInd
<1> QED BY <1>1, <1>6 DEF S

\* Append as a set.
LEMMA AppendFacts ==
  ASSUME NEW s \in Seq(Txs), NEW tx \in Txs
  PROVE  /\ Append(s, tx) \in Seq(Txs) /\ Len(Append(s, tx)) = Len(s) + 1 /\ Len(s) \in Nat
         /\ \A k \in 1..Len(s) : Append(s, tx)[k] = s[k]
         /\ Append(s, tx)[Len(s) + 1] = tx
         /\ ToSet(Append(s, tx)) = ToSet(s) \cup {tx}
PROOF
<1>1. /\ Append(s, tx) \in Seq(Txs) /\ Len(Append(s, tx)) = Len(s) + 1 /\ Len(s) \in Nat
      /\ DOMAIN Append(s, tx) = 1..(Len(s) + 1) /\ DOMAIN s = 1..Len(s)
      /\ \A k \in 1..Len(s) : Append(s, tx)[k] = s[k]
      /\ Append(s, tx)[Len(s) + 1] = tx
  OBVIOUS
<1>2. \A k \in 1..(Len(s) + 1) : k = Len(s) + 1 \/ k \in 1..Len(s)
  BY <1>1
<1>3. Len(s) + 1 \in 1..(Len(s) + 1) /\ \A k \in 1..Len(s) : k \in 1..(Len(s) + 1)
  BY <1>1
<1> DEFINE a == Append(s, tx)
<1>4. ToSet(a) = ToSet(s) \cup {tx}
  <2> DEFINE l == Len(s)
  <2>1. /\ DOMAIN a = 1..(l + 1) /\ DOMAIN s = 1..l /\ (\A k \in 1..l : a[k] = s[k]) /\ a[l + 1] = tx
        /\ (\A k \in 1..(l + 1) : k = l + 1 \/ k \in 1..l)
        /\ l + 1 \in 1..(l + 1) /\ \A k \in 1..l : k \in 1..(l + 1)
    BY <1>1, <1>2, <1>3
  <2> HIDE DEF a, l
  <2>2. ToSet(a) = {a[k] : k \in 1..(l + 1)} /\ ToSet(s) = {s[k] : k \in 1..l}
    BY <2>1 DEF ToSet
  <2>3. \A x : x \in ToSet(a) <=> x \in ToSet(s) \/ x = tx
    BY <2>1, <2>2
  <2> QED BY <2>3
<1> QED BY <1>1, <1>4

\* One more transaction passes.
LEMMA LinedAppend ==
  ASSUME NEW s \in Seq(Txs), NEW tx \in Txs, NEW b, NEW f, Lined(f, s, b), Fits(f[Len(s)], tx, Height[b] + 1)
  PROVE  \E g : Lined(g, Append(s, tx), b) /\ g[Len(s) + 1] = After(f[Len(s)], tx, Height[b] + 1)
PROOF
<1> DEFINE m == Len(s)
           a == Append(s, tx)
           ht == Height[b] + 1
           x == After(f[m], tx, ht)
           g == [k \in 0..(m + 1) |-> IF k = m + 1 THEN x ELSE f[k]]
<1>1. m \in Nat /\ Len(a) = m + 1 /\ (\A k \in 1..m : a[k] = s[k]) /\ a[m + 1] = tx
  BY AppendFacts
<1>2. f[0] = Utxo[b] /\ \A k \in 1..m : Fits(f[k - 1], s[k], ht) /\ f[k] = After(f[k - 1], s[k], ht)
  BY DEF Lined
<1>3. Fits(f[m], tx, ht)
  OBVIOUS
<1> HIDE DEF m, a, ht, x
<1>4. g[m + 1] = x /\ \A k \in 0..m : g[k] = f[k]
  BY <1>1
<1> HIDE DEF g
<1>5. g[0] = Utxo[b] /\ g[m] = f[m]
  BY <1>1, <1>2, <1>4
<1>6. ASSUME NEW k \in 1..(m + 1) PROVE Fits(g[k - 1], a[k], ht) /\ g[k] = After(g[k - 1], a[k], ht)
  <2>1. k = m + 1 \/ k \in 1..m
    BY <1>1
  <2>2. ASSUME k = m + 1 PROVE Fits(g[k - 1], a[k], ht) /\ g[k] = After(g[k - 1], a[k], ht)
    <3>1. k - 1 = m
      BY <2>2, <1>1
    <3> QED BY <3>1, <2>2, <1>1, <1>3, <1>4, <1>5 DEF x
  <2>3. ASSUME k \in 1..m PROVE Fits(g[k - 1], a[k], ht) /\ g[k] = After(g[k - 1], a[k], ht)
    <3>1. k - 1 \in 0..m /\ k \in 0..m
      BY <2>3, <1>1
    <3>2. g[k - 1] = f[k - 1] /\ g[k] = f[k] /\ a[k] = s[k]
      BY <3>1, <2>3, <1>1, <1>4
    <3> QED BY <3>2, <2>3, <1>2
  <2> QED BY <2>1, <2>2, <2>3
<1>7. Lined(g, a, b)
  BY <1>1, <1>5, <1>6 DEF Lined, ht
<1> QED BY <1>4, <1>7 DEF x, m, a, ht

\* What the miner reads of the ledger does not change while it holds cs_main.
LEMMA SameReads ==
  ASSUME UNCHANGED <<coinsDB, cacheCoins, mapTx>>
  PROVE  \A t : /\ WaitsFor(t)' = WaitsFor(t)
                /\ (\E o \in ToSet(Vin[t]) : ~Connects(o))' <=> \E o \in ToSet(Vin[t]) : ~Connects(o)
PROOF
<1>1. \A x : TipHaveCoins(x)' <=> TipHaveCoins(x)
  BY DEF TipHaveCoins
<1>2. \A x : TipCoins(x)' = TipCoins(x)
  BY DEF TipCoins
<1>3. \A t : WaitsFor(t)' = WaitsFor(t)
  BY <1>1 DEF WaitsFor
<1>4. \A o : Connects(o)' <=> Connects(o)
  BY <1>2 DEF Connects
<1> QED BY <1>3, <1>4

\* A transaction that passes its checks fits.
LEMMA MinableFits ==
  ASSUME CoinsInv, PoolTypes, PoolInv, NEW U, Shows(U), NEW tx \in mapTx, Minable(tx)
  PROVE  Fits(U, tx, Height[hashPrev] + 1) /\ tx \notin ChainTxs(hashPrev) \cup Taken
PROOF
<1> DEFINE C == CoinsIn(view)
           ht == Height[hashPrev] + 1
           coins == [t \in InputTxs(tx) |-> GetCoins(view, t)]
           T == ChainTxs(hashPrev) \cup Taken
<1>1. tx \in Txs /\ tx \notin CoinBases
  BY DEF PoolTypes, PoolInv
<1>2. Rep(C, U) /\ Accounts(U, T) /\ CheckInputs(coins, tx, ht)
  BY DEF Shows, Minable
<1>3. \A t \in InputTxs(tx) : coins[t] = C[t]
  BY <1>1, InputTxsFacts DEF CoinsIn
<1> HIDE DEF C, ht, coins, T
<1>4. ToSet(Vin[tx]) \subseteq Outs(U)
  BY <1>1, <1>2, <1>3, CheckedInputs
<1>5. \A u \in U : u.out \in ToSet(Vin[tx]) /\ u.out[1] \in CoinBases => ht - u.nHeight >= COINBASE_MATURITY
  BY <1>1, <1>2, <1>3, CheckedMature
<1>6. ValueIn(tx) >= ValueOut(tx) /\ tx \notin BadScript
  BY <1>2 DEF CheckInputs
<1>7. tx \notin T
  BY <1>1, <1>2, <1>4, NotTwice
<1>8. \A u \in U : u.out[1] # tx
  BY <1>2, <1>7 DEF Accounts
<1> QED BY <1>4, <1>5, <1>6, <1>7, <1>8 DEF Fits, T, ht

\* What fits has its parents in the chain or in the pool.
LEMMA FitsPresent ==
  ASSUME CoinsInv, OnTip, Queued, NEW U, Shows(U), NEW tx \in Txs, Fits(U, tx, Height[hashPrev] + 1)
  PROVE  WaitsFor(tx) \subseteq mapTx
PROOF
<1> SUFFICES ASSUME NEW o \in ToSet(Vin[tx]), ~TipHaveCoins(o[1]) PROVE o[1] \in Taken
  BY DEF WaitsFor, Queued
<1>1. PICK u \in U : u.out = o
  BY DEF Fits, Outs
<1>2. o \in OutPoints
  BY ValueInFacts
<1>3. CASE u \in Utxo[coinsBest]
  <2>1. o \in Outs(Utxo[coinsBest])
    BY <1>1, <1>3 DEF Outs
  <2>2. IsAvailable(TipCoins(o[1]), o[2])
    BY <1>2, <2>1, AtTipFacts
  <2> QED BY <2>2 DEF IsAvailable, TipCoins, TipHaveCoins, NoCoins
<1> QED BY <1>1, <1>3 DEF Shows, OnTip

\* The view shows what a transaction taken leaves.
LEMMA TakeShows ==
  ASSUME CoinsInv, hashPrev \in Blocks, NEW U, Shows(U), NEW tx \in Txs, vtx \in Seq(Txs),
         Fits(U, tx, Height[hashPrev] + 1), tx \notin ChainTxs(hashPrev) \cup Taken,
         UNCHANGED <<coinsDB, cacheCoins, hashPrev>>,
         view' = UpdateCoins(view, tx, Height[hashPrev] + 1).view, vtx' = Append(vtx, tx),
         NEW W, W = After(U, tx, Height[hashPrev] + 1)
  PROVE  Shows(W)'
PROOF
<1> DEFINE ht == Height[hashPrev] + 1
           T == ChainTxs(hashPrev) \cup Taken
           w == UpdateCoins(view, tx, ht).view
<1>1. ht \in Nat /\ TipTypes /\ view \in Views /\ Rep(CoinsIn(view), U) /\ U \in SUBSET Records
  BY HeightFacts DEF CoinsInv, Types, Shows, Rep
<1>2. ToSet(Vin[tx]) \subseteq Outs(U) /\ \A u \in U : u.out[1] # tx
  BY DEF Fits
<1>3. W = Minus(U, ToSet(Vin[tx])) \cup MadeBy(tx, ht)
  BY DEF After
<1>4. Taken' = Taken \cup {tx} /\ ChainTxs(hashPrev)' = ChainTxs(hashPrev) /\ Utxo[hashPrev]' = Utxo[hashPrev]
  BY AppendFacts DEF Taken, ChainTxs
<1>5. Rep(CoinsIn(view), W)'
  <2>1. CoinsIn(view)' = CoinsIn(w)
    BY DEF CoinsIn, GetCoins, TipCoins
  <2>2. Rep(CoinsIn(w), W)
    <3> HIDE DEF ht
    <3> QED BY <1>1, <1>2, <1>3, SpendingIsExact
  <2>3. Rep(CoinsIn(view)', W)
    BY <2>1, <2>2
  <2> QED BY <2>3
<1>6. Accounts(W, ChainTxs(hashPrev) \cup Taken)'
  <2>1. Accounts(U, T) /\ tx \notin T
    BY DEF Shows
  <2>2. Accounts(W, T \cup {tx})
    <3> HIDE DEF ht, T
    <3> QED BY <1>1, <1>2, <1>3, <2>1, AccountsStep
  <2>3. T \cup {tx} = ChainTxs(hashPrev) \cup (Taken \cup {tx})
    OBVIOUS
  <2>4. (ChainTxs(hashPrev) \cup Taken)' = T \cup {tx}
    BY <1>4, <2>3
  <2> QED BY <2>2, <2>4
<1>7. \A u \in W : u \in Utxo[hashPrev] \/ u.out[1] \in Taken \cup {tx}
  <2>1. \A u \in W : u \in U \/ u \in MadeBy(tx, ht)
    BY <1>3 DEF Minus
  <2>2. \A u \in MadeBy(tx, ht) : u.out[1] = tx
    BY <1>1, MadeByFacts
  <2> HIDE DEF ht
  <2> QED BY <2>1, <2>2 DEF Shows
<1>8. ASSUME NEW o \in OutPoints,
             o \in Outs(Utxo[hashPrev]) \/ (o[1] \in Taken \cup {tx} /\ o \notin Unspendable),
             \A t \in Taken \cup {tx} : o \notin ToSet(Vin[t])
      PROVE  o \in Outs(W)
  <2>1. CASE o \in Outs(Utxo[hashPrev]) \/ (o[1] \in Taken /\ o \notin Unspendable)
    <3>1. o \in Outs(U)
      BY <1>8, <2>1 DEF Shows
    <3>2. PICK u \in U : u.out = o
      BY <3>1 DEF Outs
    <3>3. u \in W
      BY <1>3, <1>8, <3>2 DEF Minus
    <3> QED BY <3>2, <3>3 DEF Outs
  <2>2. CASE o[1] = tx /\ o \notin Unspendable
    <3>1. o \in Outs(MadeBy(tx, ht))
      BY <1>1, <2>2, OutputFacts, MadeByFacts
    <3> HIDE DEF ht
    <3> QED BY <3>1, <1>3 DEF Outs
  <2> QED BY <1>8, <2>1, <2>2
<1> HIDE DEF ht, T, w
<1> QED BY <1>4, <1>5, <1>6, <1>7, <1>8 DEF Shows

\* The queue after a transaction is taken.
LEMMA TakeQueue ==
  ASSUME Queued, NEW tx \in vecPriority, UNCHANGED <<coinsDB, cacheCoins, mapTx, popped, skipped>>,
         Taken' = Taken \cup {tx}, WaitsFor(tx) \subseteq mapTx,
         NEW back \in SUBSET {t \in mapTx : <<tx, t>> \in popped},
         vecPriority' = (vecPriority \ {tx}) \cup Freed(tx) \cup back,
         setDependsOn' = [t \in DOMAIN setDependsOn |-> setDependsOn[t] \ {tx}]
  PROVE  Queued'
PROOF
<1>1. tx \in mapTx /\ tx \notin Taken /\ WaitsFor(tx) \subseteq Taken /\ Taken \subseteq mapTx
  BY DEF Queued
<1>2. \A t : WaitsFor(t)' = WaitsFor(t)
  BY SameReads
<1>10. \A t \in back : t \in mapTx /\ ~(WaitsFor(t) \subseteq mapTx) /\ t # tx /\ t \notin Taken
  <2> TAKE t \in back
  <2>1. t \in mapTx /\ <<tx, t>> \in popped
    OBVIOUS
  <2>2. ~(WaitsFor(t) \subseteq mapTx)
    BY <2>1 DEF Queued
  <2>3. Taken \subseteq mapTx /\ \A s \in Taken : WaitsFor(s) \subseteq Taken
    BY DEF Queued
  <2> QED BY <2>1, <2>2, <2>3
<1>3. ASSUME NEW t \in Freed(tx)
      PROVE  t \in mapTx /\ t \notin Taken /\ t # tx /\ WaitsFor(t) \subseteq Taken \cup {tx}
  <2>1. t \in DOMAIN setDependsOn /\ WaitsFor(t) \ Taken = {tx} /\ t \in mapTx
    BY DEF Freed, Queued
  <2>2. ~(WaitsFor(t) \subseteq Taken)
    BY <2>1
  <2> QED BY <1>1, <2>1, <2>2 DEF Queued
<1>4. (Taken \subseteq mapTx /\ vecPriority \subseteq mapTx \ Taken)'
  BY <1>1, <1>3, <1>10 DEF Queued
<1>5. (\A t \in DOMAIN setDependsOn : t \in mapTx /\ setDependsOn[t] = WaitsFor(t) \ Taken)'
  <2>1. DOMAIN setDependsOn' = DOMAIN setDependsOn
    OBVIOUS
  <2>2. ASSUME NEW t \in DOMAIN setDependsOn
        PROVE  t \in mapTx /\ setDependsOn'[t] = WaitsFor(t) \ (Taken \cup {tx})
    <3>1. t \in mapTx /\ setDependsOn[t] = WaitsFor(t) \ Taken
      BY DEF Queued
    <3> QED BY <3>1
  <2> QED BY <2>1, <2>2, <1>2
<1>6. /\ (\A t \in Taken : WaitsFor(t) \subseteq Taken)'
      /\ (\A t \in vecPriority : WaitsFor(t) \subseteq Taken \/ ~(WaitsFor(t) \subseteq mapTx))'
      /\ (\A p \in popped : ~(WaitsFor(p[2]) \subseteq mapTx))'
  <2>1. /\ \A t \in Taken : WaitsFor(t) \subseteq Taken
        /\ \A t \in vecPriority : WaitsFor(t) \subseteq Taken \/ ~(WaitsFor(t) \subseteq mapTx)
        /\ \A p \in popped : ~(WaitsFor(p[2]) \subseteq mapTx)
    BY DEF Queued
  <2>2. \A t \in vecPriority' : t \in vecPriority \/ t \in Freed(tx) \/ t \in back
    OBVIOUS
  <2> QED BY <2>1, <2>2, <1>1, <1>2, <1>3, <1>10
<1>7. ASSUME NEW t \in mapTx, WaitsFor(t) \subseteq mapTx
      PROVE  \/ t \in Taken' \cup vecPriority' \cup skipped
             \/ t \in DOMAIN setDependsOn /\ ~(WaitsFor(t) \subseteq Taken')
  <2>1. \/ t \in Taken \cup vecPriority \cup skipped
        \/ t \in DOMAIN setDependsOn /\ ~(WaitsFor(t) \subseteq Taken)
    BY <1>7 DEF Queued
  <2>2. t \in Taken \cup vecPriority \cup skipped => t \in Taken' \cup vecPriority' \cup skipped
    OBVIOUS
  <2>3. ASSUME t \in DOMAIN setDependsOn, ~(WaitsFor(t) \subseteq Taken), WaitsFor(t) \subseteq Taken'
        PROVE  t \in vecPriority'
    <3>1. setDependsOn[t] = WaitsFor(t) \ Taken
      BY <2>3 DEF Queued
    <3>2. setDependsOn[t] = {tx}
      BY <3>1, <2>3
    <3> QED BY <3>2, <2>3 DEF Freed
  <2> QED BY <2>1, <2>2, <2>3
<1>8. (\A t \in mapTx : WaitsFor(t) \subseteq mapTx =>
          t \in Taken \cup vecPriority \cup skipped \/ (t \in DOMAIN setDependsOn /\ ~(WaitsFor(t) \subseteq Taken)))'
  BY <1>2, <1>7
<1>9. (\A t \in skipped : t \in Oversized \/ \E o \in ToSet(Vin[t]) : ~Connects(o))'
  BY SameReads DEF Queued
<1> QED BY <1>4, <1>5, <1>6, <1>8, <1>9 DEF Queued

\* The queue after a transaction is left out.
LEMMA SkipQueue ==
  ASSUME Queued, NEW tx \in vecPriority, UNCHANGED <<coinsDB, cacheCoins, mapTx, vtx, setDependsOn, popped>>,
         vecPriority' = vecPriority \ {tx}, skipped' = skipped \cup {tx},
         tx \in Oversized \/ \E o \in ToSet(Vin[tx]) : ~Connects(o)
  PROVE  Queued'
PROOF
<1>1. Taken' = Taken
  BY DEF Taken
<1>2. \A t : WaitsFor(t)' = WaitsFor(t)
  BY SameReads
<1>3. (\A t \in skipped : t \in Oversized \/ \E o \in ToSet(Vin[t]) : ~Connects(o))'
  BY SameReads DEF Queued
<1> QED BY <1>1, <1>2, <1>3 DEF Queued

\* The second loop of CreateNewBlock.
LEMMA TakeBuilding ==
  ASSUME CoinBaseHeights, MinerInv, LedgerInv, Building, NEW tx \in Txs, TakeFromQueue(tx)
  PROVE  Building'
PROOF
<1>1. /\ minerPC = "build" /\ tx \in vecPriority /\ pc = "mining"
      /\ UNCHANGED <<hashPrev, coinsDB, cacheCoins, coinsBest, tip, target, mapTx, popped>>
  BY DEF TakeFromQueue, MinerInv, chainVars, coinVars, poolVars
<1>2. CoinsInv /\ PoolTypes /\ PoolInv /\ hashPrev \in Blocks
  BY DEF MinerInv, LedgerInv
<1>3. OnTip /\ Queued /\ \E f : Lined(f, vtx, hashPrev) /\ Shows(f[Len(vtx)])
  BY <1>1 DEF Building
<1>4. PICK f : Lined(f, vtx, hashPrev) /\ Shows(f[Len(vtx)])
  BY <1>3
<1> DEFINE U == f[Len(vtx)]
           ht == Height[hashPrev] + 1
<1>5. vtx \in Seq(Txs) /\ tx \in mapTx
  BY <1>1, <1>3 DEF OnTip, Queued
<1>6. ASSUME NEW back \in SUBSET {t \in mapTx : <<tx, t>> \in popped},
             /\ Minable(tx)
             /\ view' = UpdateCoins(view, tx, ht).view
             /\ vtx' = Append(vtx, tx)
             /\ vecPriority' = (vecPriority \ {tx}) \cup Freed(tx) \cup back
             /\ setDependsOn' = [t \in DOMAIN setDependsOn |-> setDependsOn[t] \ {tx}]
             /\ UNCHANGED skipped
      PROVE  Building'
  <2>1. Fits(U, tx, ht) /\ tx \notin ChainTxs(hashPrev) \cup Taken /\ Shows(U)
    <3>1. Shows(U)
      BY <1>4
    <3> HIDE DEF U
    <3> QED BY <1>2, <1>5, <1>6, <3>1, MinableFits
  <2>2. PICK g : Lined(g, vtx', hashPrev) /\ g[Len(vtx) + 1] = After(U, tx, ht)
    BY <1>4, <1>5, <1>6, <2>1, LinedAppend
  <2>3. Len(vtx') = Len(vtx) + 1 /\ vtx' \in Seq(Txs) /\ Taken' = Taken \cup {tx}
    BY <1>5, <1>6, AppendFacts DEF Taken
  <2>8. PICK V : V = g[Len(vtx) + 1]
    OBVIOUS
  <2>4. Shows(V)'
    <3>1. V = After(U, tx, ht)
      BY <2>2, <2>8
    <3> HIDE DEF U
    <3> QED BY <1>1, <1>2, <1>5, <1>6, <2>1, <3>1, TakeShows
  <2>5. OnTip'
    BY <1>1, <1>3, <2>3 DEF OnTip
  <2>6. Queued'
    <3>1. WaitsFor(tx) \subseteq mapTx
      <4>1. Shows(U)
        BY <1>4
      <4> HIDE DEF U
      <4> QED BY <1>2, <1>3, <1>5, <2>1, <4>1, FitsPresent
    <3> QED BY <1>1, <1>3, <1>6, <2>3, <3>1, TakeQueue
  <2>7. (\E h : Lined(h, vtx, hashPrev) /\ Shows(h[Len(vtx)]))'
    <3>1. V = g[Len(vtx')]
      BY <2>3, <2>8
    <3>2. Lined(g, vtx, hashPrev)'
      BY <1>1, <2>2
    <3>3. Shows(g[Len(vtx)])'
      BY <2>4, <3>1
    <3> QED BY <3>2, <3>3
  <2> QED BY <2>5, <2>6, <2>7 DEF Building
<1>7. ASSUME /\ tx \in Oversized \/ ~Minable(tx)
             /\ vecPriority' = vecPriority \ {tx}
             /\ skipped' = skipped \cup {tx}
             /\ UNCHANGED <<view, vtx, nFees, setDependsOn>>
      PROVE  Building'
  <2>1. tx \in Oversized \/ \E o \in ToSet(Vin[tx]) : ~Connects(o)
    <3> HIDE DEF U, ht
    <3> QED BY <1>1, <1>2, <1>3, <1>4, <1>7, QueuedMinable
  <2>2. OnTip' /\ Queued'
    BY <1>1, <1>3, <1>7, <2>1, SkipQueue DEF OnTip
  <2>3. ASSUME NEW V, Shows(V) PROVE Shows(V)'
    <3>1. CoinsIn(view)' = CoinsIn(view) /\ Taken' = Taken
      BY <1>1, <1>7, SameCoinsIn DEF Taken
    <3> QED BY <1>1, <2>3, <3>1 DEF Shows
  <2>4. Lined(f, vtx, hashPrev)' /\ Shows(f[Len(vtx)])'
    <3>1. PICK V : V = f[Len(vtx)]
      OBVIOUS
    <3>2. Shows(V)'
      BY <1>4, <2>3, <3>1
    <3> QED BY <1>1, <1>4, <1>7, <3>1, <3>2
  <2> QED BY <2>2, <2>4 DEF Building
<1> QED BY <1>6, <1>7 DEF TakeFromQueue

\* The first loop.
LEMMA BeginBuilding ==
  ASSUME NoCoinBaseAgain, MinerInv, LedgerInv, BeginTemplate
  PROVE  Building'
PROOF
<1> DEFINE usable == {t \in mapTx : WaitsFor(t) \subseteq mapTx}
<1>1. /\ pc = "idle" /\ tip = target /\ hashPrev' = tip /\ vtx' = <<>> /\ skipped' = {}
      /\ setDependsOn' = [t \in {u \in usable : WaitsFor(u) # {}} |-> WaitsFor(t)]
      /\ vecPriority' = {t \in usable : WaitsFor(t) = {}}
      /\ \A p \in popped' : p[2] \in mapTx \ usable
      /\ UNCHANGED <<coinsDB, cacheCoins, coinsBest, tip, target, mapTx, view>>
  BY DEF BeginTemplate, Settled, chainVars, coinVars, poolVars
<1>2. CoinsInv /\ coinsBest = tip /\ view = Empty /\ AtTip
  BY <1>1 DEF MinerInv, CoinsInv, Loops, Idle
<1>3. Taken' = {}
  BY <1>1 DEF Taken, ToSet
<1>4. OnTip'
  BY <1>1, <1>2 DEF OnTip
<1>5. PICK U : U = Utxo[coinsBest]
  OBVIOUS
<1>6. Shows(U)'
  <2>1. Rep(CoinsIn(Empty), U) /\ Accounts(U, ChainTxs(coinsBest))
    BY <1>2, <1>5, TipAccounts DEF AtTip
  <2>2. CoinsIn(view)' = CoinsIn(Empty)
    BY <1>1, <1>2, SameCoinsIn
  <2>3. Utxo[hashPrev]' = U /\ ChainTxs(hashPrev)' = ChainTxs(coinsBest)
    BY <1>1, <1>2, <1>5 DEF ChainTxs
  <2>4. (ChainTxs(hashPrev) \cup Taken)' = ChainTxs(coinsBest)
    BY <1>3, <2>3
  <2>5. Rep(CoinsIn(view)', U) /\ Accounts(U, (ChainTxs(hashPrev) \cup Taken)')
    BY <2>1, <2>2, <2>4
  <2> QED BY <1>3, <2>3, <2>5 DEF Shows
<1>7. (\E f : Lined(f, vtx, hashPrev) /\ Shows(f[Len(vtx)]))'
  <2> DEFINE f == [k \in {0} |-> U]
  <2>1. f[0] = U /\ Len(vtx') = 0
    BY <1>1
  <2> HIDE DEF f
  <2>2. Lined(f, vtx', hashPrev')
    BY <1>1, <1>2, <1>5, <2>1 DEF Lined
  <2>3. Shows(f[Len(vtx)])'
    BY <1>6, <2>1
  <2> QED BY <2>2, <2>3
<1>8. Queued'
  <2>1. \A t : WaitsFor(t)' = WaitsFor(t)
    BY <1>1, SameReads
  <2>2. (\A t \in mapTx : WaitsFor(t) \subseteq mapTx =>
          t \in Taken \cup vecPriority \cup skipped \/ (t \in DOMAIN setDependsOn /\ ~(WaitsFor(t) \subseteq Taken)))'
    BY <1>1, <1>3, <2>1
  <2>3. (\A t \in DOMAIN setDependsOn : t \in mapTx /\ setDependsOn[t] = WaitsFor(t) \ Taken)'
    <3>1. \A t \in DOMAIN setDependsOn' : t \in mapTx /\ setDependsOn'[t] = WaitsFor(t)
      BY <1>1
    <3> QED BY <1>1, <1>3, <2>1, <3>1
  <2> QED BY <1>1, <1>3, <2>1, <2>2, <2>3 DEF Queued
<1> QED BY <1>4, <1>7, <1>8 DEF Building

\* What was checked at each step is what TemplateExact asks for.
LEMMA BuildingExact ==
  ASSUME MinerInv, LedgerInv, Building
  PROVE  TemplateExact
PROOF
<1> SUFFICES ASSUME minerPC = "build" PROVE TemplateExact
  BY DEF TemplateExact, TemplateConnects, TemplateComplete
<1>1. OnTip /\ Queued /\ \E f : Lined(f, vtx, hashPrev)
  BY DEF Building
<1>2. CoinsInv /\ TipTypes /\ AtTip /\ hashPrev \in Blocks /\ pc = "mining"
  BY DEF MinerInv, CoinsInv, Types
<1>3. JustCheck.ok
  <2>1. \A t \in ToSet(vtx) : IsPruned(TipCoins(t))
    <3>1. \A t \in ToSet(vtx) : ~TipHaveCoins(t)
      BY <1>1, <1>2 DEF Queued, Taken, LedgerInv, NotInTip, ToConnect
    <3> QED BY <3>1 DEF TipHaveCoins, TipCoins, IsPruned, NoCoins
  <2> QED BY <1>1, <1>2, <2>1, CheckedOk DEF OnTip
<1>4. ASSUME vecPriority = {}, NEW t \in mapTx \ ToSet(vtx)
      PROVE  \/ t \in skipped /\ (t \in Oversized \/ \E o \in ToSet(Vin[t]) : ~Connects(o))
             \/ \E o \in ToSet(Vin[t]) : o[1] \notin ToSet(vtx) /\ ~TipHaveCoins(o[1])
  <2>1. CASE t \in skipped
    BY <1>1, <2>1 DEF Queued
  <2>2. CASE ~(WaitsFor(t) \subseteq Taken)
    BY <2>2 DEF WaitsFor, Taken
  <2>3. CASE t \notin skipped /\ WaitsFor(t) \subseteq Taken
    BY <1>1, <1>4, <2>3 DEF Queued, Taken
  <2> QED BY <2>1, <2>2, <2>3
<1> QED BY <1>3, <1>4 DEF TemplateExact, TemplateConnects, TemplateComplete

\* A step of the ledger, or none.
LEMMA LedgerNext ==
  ASSUME NoCoinBaseAgain, CoinsInv, PoolTypes, LedgerInv, [Next]_vars
  PROVE  LedgerInv'
PROOF
<1>1. PoolInv' /\ Passed' /\ Fees'
  BY PoolNext, PassedNext, FeesNext DEF LedgerInv
<1>2. NeverFails' /\ BestTarget'
  BY TargetNext DEF LedgerInv
<1>3. ViewsTouch' /\ NotInTip' /\ PoolChecked'
  BY TouchNext, InTipNext, CheckedNext DEF LedgerInv
<1> QED BY <1>1, <1>2, <1>3 DEF LedgerInv

\* A step of CreateNewBlock.
LEMMA TemplateLedger ==
  ASSUME LedgerInv, PoolInv', UNCHANGED <<chainVars, coinVars, poolVars, blk>>,
         pc \in {"idle", "mining"}, pc' \in {"idle", "mining", "down"}
  PROVE  LedgerInv'
PROOF
<1>1. UNCHANGED <<known, failed, target, tip, coinsDB, cacheCoins, undo, mapTx, blk>>
  BY DEF chainVars, coinVars, poolVars
<1>2. Passed' /\ Fees'
  BY <1>1 DEF LedgerInv, Passed, Fees
<1>3. NeverFails' /\ BestTarget'
  BY <1>1 DEF LedgerInv, NeverFails, BestTarget, Best
<1>4. ViewsTouch' /\ PoolChecked'
  BY <1>1 DEF LedgerInv, ViewsTouch, PoolChecked, WasMature
<1>5. NotInTip'
  <2>1. \A t : TipHaveCoins(t)' <=> TipHaveCoins(t)
    BY <1>1 DEF TipHaveCoins
  <2>2. ToConnect = {} /\ ToConnect' = {}
    BY DEF ToConnect
  <2> QED BY <1>1, <2>1, <2>2 DEF LedgerInv, NotInTip
<1> QED BY <1>2, <1>3, <1>4, <1>5 DEF LedgerInv

\* Nothing but the coins and the pool is read for a template.
LEMMA SameBuilding ==
  ASSUME Building, UNCHANGED mvars
  PROVE  Building'
PROOF
<1>1. /\ UNCHANGED <<coinsDB, cacheCoins, coinsBest, tip, target, mapTx, view>>
      /\ UNCHANGED <<minerPC, hashPrev, vtx, vecPriority, setDependsOn, popped, skipped>>
  BY DEF mvars, vars, minerVars, chainVars, coinVars, poolVars, callVars
<1> SUFFICES ASSUME minerPC = "build" PROVE Building'
  BY <1>1 DEF Building
<1>2. OnTip /\ Queued /\ \E f : Lined(f, vtx, hashPrev) /\ Shows(f[Len(vtx)])
  BY DEF Building
<1>3. PICK f : Lined(f, vtx, hashPrev) /\ Shows(f[Len(vtx)])
  BY <1>2
<1>4. OnTip'
  BY <1>1, <1>2 DEF OnTip
<1>5. Taken' = Taken
  BY <1>1 DEF Taken
<1>6. ASSUME NEW V, Shows(V) PROVE Shows(V)'
  <2>1. CoinsIn(view)' = CoinsIn(view)
    BY <1>1, SameCoinsIn
  <2> QED BY <1>1, <1>5, <1>6, <2>1 DEF Shows
<1>7. (\E h : Lined(h, vtx, hashPrev) /\ Shows(h[Len(vtx)]))'
  <2>1. PICK V : V = f[Len(vtx)]
    OBVIOUS
  <2>2. Shows(V)'
    BY <1>3, <1>6, <2>1
  <2> QED BY <1>1, <1>3, <2>1, <2>2
<1>8. Queued'
  <2>1. \A t : WaitsFor(t)' = WaitsFor(t)
    BY <1>1, SameReads
  <2>2. (\A t \in skipped : t \in Oversized \/ \E o \in ToSet(Vin[t]) : ~Connects(o))'
    BY <1>1, <1>2, SameReads DEF Queued
  <2> QED BY <1>1, <1>2, <1>5, <2>1, <2>2 DEF Queued
<1> QED BY <1>4, <1>7, <1>8 DEF Building

\* Every step of the node with a miner keeps what the miner relies on.
LEMMA MinerLedger ==
  ASSUME NoCoinBaseAgain, MinerInv, LedgerInv, [MinerNext]_mvars
  PROVE  LedgerInv'
PROOF
<1>1. CoinsInv /\ PoolTypes
  BY DEF MinerInv
<1>2. ASSUME Next \/ UNCHANGED vars PROVE LedgerInv'
  BY <1>1, <1>2, LedgerNext
<1>3. ASSUME ReadTip \/ EndSearch \/ Submitted PROVE UNCHANGED vars
  BY <1>3 DEF ReadTip, EndSearch, Submitted
<1>4. ASSUME BeginTemplate \/ EndTemplate \/ DiesReading \/ DiesInQueue \/ \E tx \in Txs : TakeFromQueue(tx) PROVE LedgerInv'
  <2>1. UNCHANGED <<chainVars, coinVars, poolVars, blk>>
    BY <1>4 DEF BeginTemplate, EndTemplate, DiesReading, DiesInQueue, Dies, TakeFromQueue
  <2>2. pc \in {"idle", "mining"} /\ pc' \in {"idle", "mining", "down"}
    BY <1>4 DEF MinerInv, BeginTemplate, EndTemplate, DiesReading, DiesInQueue, Dies, TakeFromQueue, Settled
  <2>3. PoolInv'
    BY PoolMinerNext DEF LedgerInv
  <2> QED BY <2>1, <2>2, <2>3, TemplateLedger
<1> QED BY <1>2, <1>3, <1>4 DEF MinerNext, MinerStep, mvars

\* And the template.
LEMMA MinerBuilding ==
  ASSUME NoCoinBaseAgain, CoinBaseHeights, MinerInv, LedgerInv, Building, [MinerNext]_mvars
  PROVE  Building'
PROOF
<1>1. ASSUME Next, UNCHANGED minerVars PROVE Building'
  <2>1. minerPC' # "build"
    BY <1>1, MiningAlone DEF MinerInv, minerVars
  <2> QED BY <2>1 DEF Building
<1>2. ASSUME ReadTip \/ EndSearch \/ Submitted \/ EndTemplate \/ DiesReading \/ DiesInQueue PROVE Building'
  <2>1. minerPC' # "build"
    BY <1>2 DEF ReadTip, EndSearch, Submitted, EndTemplate, DiesReading, DiesInQueue, Dies
  <2> QED BY <2>1 DEF Building
<1>3. ASSUME BeginTemplate PROVE Building'
  BY <1>3, BeginBuilding
<1>4. ASSUME NEW tx \in Txs, TakeFromQueue(tx) PROVE Building'
  BY <1>4, TakeBuilding
<1>5. ASSUME UNCHANGED mvars PROVE Building'
  BY <1>5, SameBuilding
<1> QED BY <1>1, <1>2, <1>3, <1>4, <1>5 DEF MinerNext, MinerStep

\* Nothing is connected yet, and nothing is in the pool.
LEMMA InitLedger ==
  ASSUME MinerInit
  PROVE  MinerInv /\ LedgerInv /\ Building
PROOF
<1>1. Init /\ minerPC = "start" /\ hashPrev = Genesis
  BY DEF MinerInit
<1>2. CoinsInv /\ PoolTypes /\ PoolInv
  BY <1>1, InitInv, NoPool DEF Init
<1>3. MinerInv /\ Building
  BY <1>1, <1>2, Constants DEF MinerInv, Building
<1>4. Passed /\ Fees /\ NeverFails
  BY <1>1 DEF Init, Passed, Fees, NeverFails
<1>5. BestTarget
  <2>1. Height[Genesis] = 0
    BY HeightFacts
  <2> QED BY <1>1, <2>1 DEF Init, BestTarget, Best
<1>6. ViewsTouch /\ NotInTip /\ PoolChecked
  BY <1>1 DEF Init, ViewsTouch, NotInTip, PoolChecked
<1> QED BY <1>2, <1>3, <1>4, <1>5, <1>6 DEF LedgerInv

\* Whatever the pool went through and in whatever order its queue is served, while
\* CreateNewBlock has its template ConnectBlock takes it, and when the queue is empty a
\* pool transaction is left out only for a limit, for an input the chain has lost, or
\* with a parent it left out.
THEOREM TemplateAlwaysExact == NoCoinBaseAgain /\ CoinBaseHeights => (MinerSpec => []TemplateExact)
PROOF
<1> SUFFICES ASSUME NoCoinBaseAgain, CoinBaseHeights PROVE MinerSpec => []TemplateExact
  OBVIOUS
<1> DEFINE Inv == MinerInv /\ LedgerInv /\ Building
<1>1. MinerInit => Inv
  BY InitLedger
<1>2. Inv /\ [MinerNext]_mvars => Inv'
  BY MinerNextInv, MinerLedger, MinerBuilding
<1>3. Inv => TemplateExact
  BY BuildingExact
<1> HIDE DEF Inv
<1> QED BY <1>1, <1>2, <1>3, PTL DEF MinerSpec
-----------------------------------------------------------------------------
(* The wallet has what concerns it *)

\* Some sequence lists a finite set.
LEMMA ListOf ==
  ASSUME NEW S, IsFiniteSet(S)
  PROVE  /\ SetToSeq(S) \in Seq(S)
         /\ \A x \in S : \E i \in 1..Len(SetToSeq(S)) : SetToSeq(S)[i] = x
PROOF
<1>1. Cardinality(S) \in Nat /\ ExistsBijection(1..Cardinality(S), S)
  BY FS_CardinalityType
<1> DEFINE m == Cardinality(S)
<1>2. PICK g : g \in Bijection(1..m, S)
  BY <1>1 DEF ExistsBijection
<1>3. g \in [1..m -> S] /\ IsInjective(g)
  BY <1>2 DEF Bijection, Injection, IsInjective
<1>4. SetToSeq(S) \in [1..m -> S] /\ IsInjective(SetToSeq(S))
  BY <1>3 DEF SetToSeq
<1> DEFINE f == SetToSeq(S)
<1>5. f \in Injection(1..m, S)
  BY <1>4 DEF Injection, IsInjective
<1>6. IsFiniteSet(1..m) /\ Cardinality(1..m) = m
  BY <1>1, FS_Interval
<1>7. f \in Surjection(1..m, S)
  BY <1>5, <1>6, FS_Injection
<1>8. f \in [1..m -> S] /\ m \in Nat
  BY <1>1, <1>4
<1>9. \A x \in S : \E i \in 1..m : f[i] = x
  BY <1>7 DEF Surjection
<1> HIDE DEF f, m
<1>10. f \in Seq(S) /\ Len(f) = m
  BY <1>8
<1> QED BY <1>9, <1>10 DEF f

\* AddToWalletIfInvolvingMe adds what involves the wallet, and takes nothing away.
LEMMA AddedFacts ==
  ASSUME NEW t, NEW b, NEW w, w = AddToWalletIfInvolvingMe(mapWallet, t, b)
  PROVE  /\ DOMAIN mapWallet \subseteq DOMAIN w /\ DOMAIN w \subseteq DOMAIN mapWallet \cup {t}
         /\ \A s \in DOMAIN mapWallet : s # t => w[s] = mapWallet[s]
         /\ t \in DOMAIN mapWallet => w[t] = IF b = NoBlock THEN mapWallet[t] ELSE b
         /\ t \in DOMAIN w \ DOMAIN mapWallet => w[t] = b
         /\ InvolvingMe(mapWallet, t) => t \in DOMAIN w
PROOF
<1>1. CASE ~InvolvingMe(mapWallet, t)
  <2>1. w = mapWallet /\ t \notin DOMAIN mapWallet
    BY <1>1 DEF AddToWalletIfInvolvingMe, InvolvingMe
  <2> QED BY <2>1, <1>1
<1>2. CASE InvolvingMe(mapWallet, t) /\ t \in DOMAIN mapWallet /\ b = NoBlock
  BY <1>2 DEF AddToWalletIfInvolvingMe, AddToWallet
<1>3. CASE InvolvingMe(mapWallet, t) /\ ~(t \in DOMAIN mapWallet /\ b = NoBlock)
  <2>2. w = [x \in DOMAIN mapWallet \cup {t} |-> IF x = t THEN b ELSE mapWallet[x]]
    BY <1>3 DEF AddToWalletIfInvolvingMe, AddToWallet
  <2> HIDE DEF InvolvingMe
  <2>3. DOMAIN w = {t} \cup DOMAIN mapWallet
    BY <2>2
  <2>4. w[t] = b /\ \A s \in DOMAIN mapWallet : s # t => w[s] = mapWallet[s]
    BY <2>2
  <2> QED BY <2>3, <2>4, <1>3
<1> QED BY <1>1, <1>2, <1>3

\* A chain has each of its transactions in one block.
LEMMA OnceInChain ==
  ASSUME NoCoinBaseAgain, CoinsInv, NEW h \in DOMAIN undo \cup {Genesis}
  PROVE  \A b, c \in Chain[h] \ {Genesis} : \A t \in ToSet(Vtx[b]) : t \in ToSet(Vtx[c]) => b = c
PROOF
<1> DEFINE Once(x) == \A b, c \in Chain[x] \ {Genesis} : \A t \in ToSet(Vtx[b]) : t \in ToSet(Vtx[c]) => b = c
           S == {x \in Blocks : x \in DOMAIN undo \cup {Genesis} => Once(x)}
<1>1. HistoryOf(undo)
  BY DEF CoinsInv, History
<1>2. Genesis \in S
  BY ChainFacts, Constants
<1>3. ASSUME NEW x \in Blocks \ {Genesis}, Prev[x] \in S PROVE x \in S
  <2> SUFFICES ASSUME x \in DOMAIN undo PROVE Once(x)
    OBVIOUS
  <2>1. Prev[x] \in DOMAIN undo \cup {Genesis}
    BY <1>1 DEF HistoryOf
  <2>2. Once(Prev[x])
    BY <1>3, <2>1
  <2>3. Chain[x] = {x} \cup Chain[Prev[x]]
    BY ChainFacts
  <2>4. ASSUME NEW c \in Chain[Prev[x]] \ {Genesis}, NEW t \in ToSet(Vtx[x]), t \in ToSet(Vtx[c]) PROVE FALSE
    <3>1. PICK k \in 1..Len(Vtx[x]) : t = Vtx[x][k]
      BY <2>4, VtxSet
    <3>2. t \notin Upto(x, k - 1)
      BY <3>1, BlockInputs
    <3>3. t \in ChainTxs(Prev[x])
      BY <2>4 DEF ChainTxs
    <3> QED BY <3>2, <3>3 DEF Upto
  <2>5. ASSUME NEW b \in Chain[x] \ {Genesis}, NEW c \in Chain[x] \ {Genesis},
               NEW t \in ToSet(Vtx[b]), t \in ToSet(Vtx[c])
        PROVE  b = c
    <3>1. CASE b \in Chain[Prev[x]] /\ c \in Chain[Prev[x]]
      BY <2>2, <2>5, <3>1
    <3>2. CASE b = x /\ c \in Chain[Prev[x]]
      BY <2>4, <2>5, <3>2
    <3>3. CASE c = x /\ b \in Chain[Prev[x]]
      BY <2>4, <2>5, <3>3
    <3> QED BY <2>3, <3>1, <3>2, <3>3
  <2> QED BY <2>5
<1> HIDE DEF S
<1>4. S = Blocks
  <2>1. S \in SUBSET Blocks
    BY DEF S
  <2> QED BY <2>1, <1>2, <1>3, BlockInd
<1>5. h \in Blocks
  BY <1>1, Constants DEF HistoryOf
<1> QED BY <1>4, <1>5 DEF S

\* A transaction that makes a coin of the wallet concerns it.
LEMMA MakerConcerns ==
  ASSUME NEW o \in Mine
  PROVE  /\ o[1] \in Txs /\ o \in Outputs(o[1]) /\ Concerns(o[1])
         /\ InvolvingMe(mapWallet, o[1])
PROOF
<1>1. o \in OutPoints
  BY WalletAssumption
<1>2. o = <<o[1], o[2]>> /\ o[1] \in Txs /\ o[2] \in DOMAIN Vout[o[1]]
  BY <1>1, OutPointFacts
<1>3. o \in Outputs(o[1])
  BY <1>2 DEF Outputs
<1> QED BY <1>2, <1>3 DEF Concerns, InvolvingMe

\* The wallet recognises what spends the coins of transactions it has.
LEMMA Recognised ==
  ASSUME NEW t, Concerns(t),
         t \in DOMAIN mapWallet \/ \A o \in ToSet(Vin[t]) \cap Mine : o[1] \in DOMAIN mapWallet
  PROVE  InvolvingMe(mapWallet, t)
BY DEF Concerns, InvolvingMe

\* The wallet has what concerns it of the chain of the coins.
LEMMA ChainHeard ==
  ASSUME Heard
  PROVE  \A t \in ChainTxs(coinsBest) : Concerns(t) => t \in DOMAIN mapWallet
BY DEF Heard, Has, ChainTxs

\* With no call left to make, what the wallet was told of it has.
LEMMA ToldAll ==
  ASSUME pending = <<>>
  PROVE  \A t, b : Told(t, b) => Has(t, b)
PROOF
<1>1. Len(pending) = 0 /\ 1..0 = {}
  OBVIOUS
<1> QED BY <1>1 DEF Told

\* The calls of SyncWithWallets for the transactions of a block.
LEMMA CallFacts ==
  ASSUME NEW s \in Seq(Txs), NEW b \in Blocks \cup {NoBlock}
  PROVE  /\ Calls(s, b) \in Seq(WalletCall) /\ Len(Calls(s, b)) = Len(s)
         /\ \A i \in 1..Len(s) : Calls(s, b)[i].tx = s[i] /\ Calls(s, b)[i].block = b
PROOF
<1>1. Len(s) \in Nat /\ DOMAIN s = 1..Len(s) /\ \A i \in 1..Len(s) : s[i] \in Txs
  OBVIOUS
<1> DEFINE f == [i \in 1..Len(s) |-> [tx |-> s[i], block |-> b]]
<1>2. Calls(s, b) = f
  BY <1>1 DEF Calls
<1>3. \A i \in 1..Len(s) : f[i] \in WalletCall /\ f[i].tx = s[i] /\ f[i].block = b
  BY <1>1 DEF WalletCall
<1>4. f \in Seq(WalletCall) /\ Len(f) = Len(s)
  BY <1>1, <1>3
<1> QED BY <1>2, <1>3, <1>4

\* mapWallet keeps what it has and gets transactions without a block.
Grown ==
    /\ DOMAIN mapWallet \subseteq DOMAIN mapWallet' /\ DOMAIN mapWallet' \subseteq Txs
    /\ \A t \in DOMAIN mapWallet : mapWallet'[t] = mapWallet[t]
    /\ \A t \in DOMAIN mapWallet' \ DOMAIN mapWallet : mapWallet'[t] = NoBlock

\* A step that leaves the calls alone: the chain grows by what ConnectBlock told of only.
LEMMA GrowStep ==
  ASSUME WalletInv, Grown, UNCHANGED <<pending, locator>>, txConflicted' \subseteq Txs, Stages',
         pending = <<>> \/ UNCHANGED <<pc, blk, tip>>,
         pc' = "connected" => pc = "connected" /\ blk' = blk,
         \A b \in Chain[coinsBest'] : b \in Chain[coinsBest] \/ (b = blk /\ pc = "connected" /\ pending = <<>>),
         \A t \in mapTx' \cup txConflicted' : Concerns(t) => t \in DOMAIN mapWallet'
  PROVE  WalletInv'
PROOF
<1>1. WalletTypes /\ Recorded /\ Heard /\ InOrder
  BY DEF WalletInv
<1>2. WalletTypes'
  BY <1>1 DEF WalletTypes, Grown
<1>3. Recorded'
  <2>1. pending = <<>> => Len(pending) = 0 /\ 1..0 = {}
    OBVIOUS
  <2>2. \A i \in 1..Len(pending') : UNCHANGED <<pc, blk, tip>>
    BY <2>1
  <2>3. \A t \in DOMAIN mapWallet' : mapWallet'[t] # NoBlock => t \in DOMAIN mapWallet /\ mapWallet'[t] = mapWallet[t]
    BY DEF Grown
  <2> QED BY <2>2, <2>3, <1>1 DEF Recorded
<1>4. \A t, b : (Has(t, b) => Has(t, b)') /\ (Told(t, b) => Told(t, b)')
  BY DEF Told, Has, Grown
<1>5. Heard'
  <2>1. ASSUME NEW b \in Chain[coinsBest'] \ {Genesis}, NEW t \in ToSet(Vtx[b]), Concerns(t) PROVE Has(t, b)'
    <3>1. CASE b \in Chain[coinsBest]
      BY <2>1, <3>1, <1>1, <1>4 DEF Heard
    <3>2. CASE b = blk /\ pc = "connected" /\ pending = <<>>
      <4>1. Told(t, b)
        BY <2>1, <3>2, <1>1 DEF Heard
      <4> QED BY <4>1, <3>2, <1>4, ToldAll
    <3> QED BY <3>1, <3>2
  <2>2. ASSUME pc' = "connected", NEW t \in ToSet(Vtx[blk']), Concerns(t) PROVE Told(t, blk)'
    <3>1. Told(t, blk) /\ blk' = blk
      BY <2>2, <1>1 DEF Heard
    <3> QED BY <3>1 DEF Told, Has, Grown
  <2> QED BY <2>1, <2>2 DEF Heard
<1>6. InOrder'
  BY <1>1 DEF InOrder, Grown
<1>7. PoolHeard'
  BY DEF PoolHeard
<1> QED BY <1>2, <1>3, <1>5, <1>6, <1>7 DEF WalletInv

\* AddToWalletIfInvolvingMe of a transaction without a block.
LEMMA GrownByNone ==
  ASSUME WalletTypes, NEW t \in Txs, mapWallet' = AddToWalletIfInvolvingMe(mapWallet, t, NoBlock)
  PROVE  Grown /\ (InvolvingMe(mapWallet, t) => t \in DOMAIN mapWallet')
PROOF
<1>1. /\ DOMAIN mapWallet \subseteq DOMAIN mapWallet' /\ DOMAIN mapWallet' \subseteq DOMAIN mapWallet \cup {t}
      /\ \A s \in DOMAIN mapWallet : s # t => mapWallet'[s] = mapWallet[s]
      /\ t \in DOMAIN mapWallet => mapWallet'[t] = mapWallet[t]
      /\ t \in DOMAIN mapWallet' \ DOMAIN mapWallet => mapWallet'[t] = NoBlock
      /\ InvolvingMe(mapWallet, t) => t \in DOMAIN mapWallet'
  <2> DEFINE w == mapWallet'
  <2>1. w = AddToWalletIfInvolvingMe(mapWallet, t, NoBlock)
    OBVIOUS
  <2> HIDE DEF w
  <2>2. /\ DOMAIN mapWallet \subseteq DOMAIN w /\ DOMAIN w \subseteq DOMAIN mapWallet \cup {t}
        /\ \A s \in DOMAIN mapWallet : s # t => w[s] = mapWallet[s]
        /\ t \in DOMAIN mapWallet => w[t] = mapWallet[t]
        /\ t \in DOMAIN w \ DOMAIN mapWallet => w[t] = NoBlock
        /\ InvolvingMe(mapWallet, t) => t \in DOMAIN w
    BY <2>1, AddedFacts
  <2> QED BY <2>2 DEF w
<1> HIDE DEF InvolvingMe
<1> QED BY <1>1 DEF Grown, WalletTypes

\* One call of SyncWithWallets.
LEMMA SyncStep ==
  ASSUME NoCoinBaseAgain, CoinsInv, WalletInv, SyncWithWallets
  PROVE  WalletInv'
PROOF
<1> DEFINE t == Head(pending).tx
           b == Head(pending).block
           w == mapWallet'
<1>1. WalletTypes /\ Stages /\ Recorded /\ Heard /\ InOrder /\ PoolHeard /\ Types /\ History /\ Loops
  BY DEF WalletInv, CoinsInv
<1>2. /\ pending # <<>> /\ pending \in Seq(WalletCall) /\ pending' = Tail(pending)
      /\ w = AddToWalletIfInvolvingMe(mapWallet, t, b)
      /\ UNCHANGED <<locator, txConflicted, pc, tip, coinsBest, blk, n, mapTx>>
  BY <1>1 DEF SyncWithWallets, CallDone, SyncTransaction, WalletTypes, vars, chainVars, coinVars, callVars, poolVars
<1>3. /\ Len(pending) \in Nat \ {0} /\ t = pending[1].tx /\ b = pending[1].block /\ 1 \in 1..Len(pending)
      /\ pending' \in Seq(WalletCall) /\ Len(pending') = Len(pending) - 1
      /\ \A i \in 1..Len(pending') : pending'[i] = pending[i + 1] /\ i + 1 \in 1..Len(pending)
      /\ pending[1] \in WalletCall
  BY <1>2
<1>4. t \in Txs /\ b \in Blocks \cup {NoBlock}
  BY <1>3 DEF WalletCall
<1> HIDE DEF t, b, w
<1>5. /\ DOMAIN mapWallet \subseteq DOMAIN w /\ DOMAIN w \subseteq DOMAIN mapWallet \cup {t}
      /\ \A s \in DOMAIN mapWallet : s # t => w[s] = mapWallet[s]
      /\ t \in DOMAIN mapWallet => w[t] = IF b = NoBlock THEN mapWallet[t] ELSE b
      /\ t \in DOMAIN w \ DOMAIN mapWallet => w[t] = b
      /\ InvolvingMe(mapWallet, t) => t \in DOMAIN w
  BY <1>2, AddedFacts
<1>6. pc = "connected" /\ Concerns(t) => InvolvingMe(mapWallet, t)
  <2> SUFFICES ASSUME pc = "connected", Concerns(t) PROVE InvolvingMe(mapWallet, t)
    OBVIOUS
  <2>1. 1..(1 - 1) = {}
    OBVIOUS
  <2>2. t \in DOMAIN mapWallet \/ \A o \in ToSet(Vin[t]) \cap Mine : o[1] \in DOMAIN mapWallet
    BY <1>1, <1>3, <2>1 DEF InOrder
  <2> QED BY <2>2, Recognised
<1> DEFINE h == IF pc = "connected" THEN blk ELSE tip
<1>7. /\ h \in DOMAIN undo \cup {Genesis} /\ h \in Blocks /\ coinsBest = tip
      /\ Chain[tip] \subseteq Chain[h] /\ (pc = "connected" => blk \in Chain[h] \ {Genesis})
  <2>1. tip \in Blocks /\ tip \in DOMAIN undo \cup {Genesis} /\ coinsBest = tip
    BY <1>1, <1>2 DEF Types, History, Stages, Loops, Idle, Elsewhere, Finishing
  <2>2. ASSUME pc = "connected" PROVE /\ blk \in DOMAIN undo /\ blk \in Blocks \ {Genesis}
                                      /\ Chain[blk] = {blk} \cup Chain[tip]
    <3>1. blk \in DOMAIN undo /\ Prev[blk] = tip /\ HistoryOf(undo)
      BY <2>2, <1>1 DEF Loops, Finishing, History
    <3>2. blk \in Blocks \ {Genesis}
      BY <3>1 DEF HistoryOf
    <3> QED BY <3>1, <3>2, ChainFacts
  <2> QED BY <2>1, <2>2
<1>8. b # NoBlock => b \in Chain[h] \ {Genesis} /\ b \in Blocks /\ t \in ToSet(Vtx[b])
  BY <1>1, <1>3, <1>4, <1>7 DEF Recorded
<1>9. NoBlock \notin Blocks /\ Chain[h] \subseteq Blocks
  BY <1>7, ChainFacts, WalletAssumption
<1> HIDE DEF h
<1>10. (WalletTypes /\ Stages /\ PoolHeard)'
  <2>1. WalletTypes'
    BY <1>1, <1>2, <1>3, <1>4, <1>5 DEF WalletTypes, w
  <2>2. Stages'
    BY <1>1, <1>2 DEF Stages
  <2>3. PoolHeard'
    BY <1>1, <1>2, <1>5 DEF PoolHeard, w
  <2> QED BY <2>1, <2>2, <2>3
<1>11. Recorded'
  <2>1. ASSUME NEW s \in DOMAIN w, w[s] # NoBlock
        PROVE  w[s] \in Blocks \ {Genesis} /\ s \in ToSet(Vtx[w[s]])
    <3>1. (w[s] = b /\ s = t) \/ (s \in DOMAIN mapWallet /\ w[s] = mapWallet[s])
      BY <1>5
    <3>2. CASE w[s] = b /\ s = t
      BY <2>1, <3>2, <1>8
    <3>3. CASE s \in DOMAIN mapWallet /\ w[s] = mapWallet[s]
      BY <2>1, <3>3, <1>1 DEF Recorded
    <3> QED BY <3>1, <3>2, <3>3
  <2>2. \A i \in 1..Len(pending') : pending'[i].block # NoBlock =>
          /\ pending'[i].tx \in ToSet(Vtx[pending'[i].block]) /\ pending'[i].block # Genesis
          /\ pending'[i].block \in Chain[tip] \/ (pc = "connected" /\ pending'[i].block = blk)
    BY <1>1, <1>3 DEF Recorded
  <2> QED BY <2>1, <2>2, <1>2 DEF Recorded, w
<1>12. ASSUME NEW c \in Chain[h] \ {Genesis}, NEW s \in ToSet(Vtx[c]), Has(s, c) PROVE Has(s, c)'
  <2>1. c # NoBlock
    BY <1>9
  <2>2. CASE s # t
    BY <1>12, <2>2, <1>5 DEF Has, w
  <2>3. CASE s = t /\ b = NoBlock
    BY <1>12, <2>3, <1>5 DEF Has, w
  <2>4. CASE s = t /\ b # NoBlock
    <3>1. b = c
      BY <1>12, <2>4, <1>7, <1>8, OnceInChain
    <3> QED BY <3>1, <1>12, <2>4, <1>5 DEF Has, w
  <2> QED BY <2>2, <2>3, <2>4
<1>14. Heard'
  <2>1. ASSUME NEW c \in Chain[coinsBest] \ {Genesis}, NEW s \in ToSet(Vtx[c]), Concerns(s) PROVE Has(s, c)'
    BY <2>1, <1>1, <1>7, <1>12 DEF Heard
  <2>2. ASSUME pc = "connected", NEW s \in ToSet(Vtx[blk]), Concerns(s) PROVE Told(s, blk)'
    <3>2. Has(s, blk) \/ \E i \in 1..Len(pending) : pending[i].tx = s /\ pending[i].block = blk
      BY <2>2, <1>1 DEF Heard, Told
    <3>3. CASE Has(s, blk)
      <4>1. blk \in Chain[h] \ {Genesis}
        BY <2>2, <1>7
      <4>2. s \in DOMAIN mapWallet' /\ mapWallet'[s] = blk
        BY <4>1, <2>2, <3>3, <1>12 DEF Has
      <4> QED BY <4>2, <1>2 DEF Told, Has
    <3>4. CASE \E i \in 1..Len(pending) : pending[i].tx = s /\ pending[i].block = blk
      <4>1. PICK i \in 1..Len(pending) : pending[i].tx = s /\ pending[i].block = blk
        BY <3>4
      <4>2. CASE i = 1
        <5>1. s = t /\ b = blk /\ blk # NoBlock
          BY <4>1, <4>2, <2>2, <1>3, <1>7, <1>9
        <5>2. t \in DOMAIN w /\ w[t] = blk
          BY <5>1, <2>2, <1>5, <1>6
        <5> QED BY <5>1, <5>2, <1>2 DEF Told, Has, w
      <4>3. CASE i # 1
        <5>1. i - 1 \in 1..Len(pending') /\ (i - 1) + 1 = i
          BY <4>3, <1>3
        <5>2. pending'[i - 1] = pending[i]
          BY <5>1, <1>3
        <5> QED BY <4>1, <5>1, <5>2, <1>2 DEF Told
      <4> QED BY <4>2, <4>3
    <3> QED BY <3>2, <3>3, <3>4
  <2> QED BY <2>1, <2>2, <1>2 DEF Heard
<1>13. InOrder'
  <2> SUFFICES ASSUME pc = "connected", NEW i \in 1..Len(pending'), pending'[i].tx \notin DOMAIN w,
                      NEW o \in ToSet(Vin[pending'[i].tx]) \cap Mine, o[1] \notin DOMAIN w
               PROVE  \E j \in 1..(i - 1) : pending'[j].tx = o[1]
    BY <1>2 DEF InOrder, w
  <2>1. pending'[i] = pending[i + 1] /\ i + 1 \in 1..Len(pending)
    BY <1>3
  <2>2. pending[i + 1].tx \notin DOMAIN mapWallet /\ o[1] \notin DOMAIN mapWallet
    BY <2>1, <1>5
  <2>3. PICK j \in 1..((i + 1) - 1) : pending[j].tx = o[1]
    BY <2>1, <2>2, <1>1 DEF InOrder
  <2>4. j # 1
    <3> SUFFICES ASSUME j = 1 PROVE FALSE
      OBVIOUS
    <3>1. t = o[1]
      BY <2>3, <1>3
    <3>2. InvolvingMe(mapWallet, o[1])
      BY MakerConcerns
    <3> QED BY <3>1, <3>2, <1>5
  <2>5. j - 1 \in 1..(i - 1) /\ j - 1 \in 1..Len(pending') /\ (j - 1) + 1 = j
    BY <2>3, <2>4, <1>3
  <2>6. pending'[j - 1] = pending[j]
    BY <2>5, <1>3
  <2> QED BY <2>3, <2>5, <2>6
<1> QED BY <1>10, <1>11, <1>13, <1>14 DEF WalletInv

\* Two sequences of calls, one after the other.
LEMMA JoinFacts ==
  ASSUME NEW S, NEW s \in Seq(S), NEW t \in Seq(S)
  PROVE  /\ s \o t \in Seq(S) /\ Len(s \o t) = Len(s) + Len(t)
         /\ \A i \in 1..(Len(s) + Len(t)) : (s \o t)[i] = IF i <= Len(s) THEN s[i] ELSE t[i - Len(s)]
PROOF
<1>1. s \o t \in Seq(S)
  OBVIOUS
<1>2. Len(s \o t) = Len(s) + Len(t)
  OBVIOUS
<1>3. \A i \in 1..(Len(s) + Len(t)) : (s \o t)[i] = IF i <= Len(s) THEN s[i] ELSE t[i - Len(s)]
  OBVIOUS
<1> QED BY <1>1, <1>2, <1>3

\* The calls UpdateTip is followed by: the conflicts first, then the block in its order.
CallsMade(a) ==
    /\ pending' \in Seq(WalletCall) /\ Len(pending') = a + Len(Vtx[blk])
    /\ \A i \in 1..(a + Len(Vtx[blk])) :
          \/ pending'[i].tx \in txConflicted /\ pending'[i].block = NoBlock
          \/ /\ i - a \in 1..Len(Vtx[blk])
             /\ pending'[i].tx = Vtx[blk][i - a] /\ pending'[i].block = blk
    /\ \A k \in 1..Len(Vtx[blk]) : /\ a + k \in 1..Len(pending')
                                   /\ pending'[a + k].tx = Vtx[blk][k] /\ pending'[a + k].block = blk
    /\ \A t \in txConflicted : \E i \in 1..Len(pending') : pending'[i].tx = t

LEMMA ConnectedCalls ==
  ASSUME CoinsInv, PoolInv, WalletInv, Connected
  PROVE  \E a \in Nat : CallsMade(a)
PROOF
<1> DEFINE conf == SetToSeq(txConflicted)
           A == Calls(conf, NoBlock)
           B == Calls(Vtx[blk], blk)
<1>1. WalletTypes /\ Stages /\ Types /\ History
  BY DEF WalletInv, CoinsInv
<1>2. pc = "conflicts" /\ pending' = A \o B
  BY DEF Connected, ConnectDone
<1>3. blk \in DOMAIN undo /\ blk \in Blocks \ {Genesis} /\ Prev[blk] = tip
  BY <1>1, <1>2 DEF PoolInv, PoolLoop, Stages, History, HistoryOf
<1>4. /\ IsFiniteSet(txConflicted) /\ txConflicted \subseteq Txs
  <2>1. txConflicted \subseteq Txs /\ IsFiniteSet(Txs)
    BY <1>1, DataAssumption DEF WalletTypes
  <2> QED BY <2>1, FS_Subset
<1>5. conf \in Seq(txConflicted) /\ \A t \in txConflicted : \E i \in 1..Len(conf) : conf[i] = t
  BY <1>4, ListOf
<1>6. conf \in Seq(Txs) /\ Len(conf) \in Nat /\ \A i \in 1..Len(conf) : conf[i] \in txConflicted
  BY <1>4, <1>5
<1>7. Vtx[blk] \in Seq(Txs) /\ Len(Vtx[blk]) \in Nat
  BY <1>3, DataAssumption
<1> HIDE DEF conf
<1>8. /\ A \in Seq(WalletCall) /\ Len(A) = Len(conf)
      /\ \A i \in 1..Len(conf) : A[i].tx = conf[i] /\ A[i].block = NoBlock
  BY <1>6, CallFacts
<1>9. /\ B \in Seq(WalletCall) /\ Len(B) = Len(Vtx[blk])
      /\ \A i \in 1..Len(Vtx[blk]) : B[i].tx = Vtx[blk][i] /\ B[i].block = blk
  BY <1>3, <1>7, CallFacts
<1> DEFINE a == Len(conf)
           m == Len(Vtx[blk])
<1> HIDE DEF A, B
<1>10. /\ pending' \in Seq(WalletCall) /\ Len(pending') = a + m
       /\ \A i \in 1..(a + m) : pending'[i] = IF i <= a THEN A[i] ELSE B[i - a]
  <2>1. A \in Seq(WalletCall) /\ B \in Seq(WalletCall) /\ a = Len(A) /\ m = Len(B)
    BY <1>8, <1>9
  <2> HIDE DEF a, m
  <2>2. /\ A \o B \in Seq(WalletCall) /\ Len(A \o B) = Len(A) + Len(B)
        /\ \A i \in 1..(Len(A) + Len(B)) : (A \o B)[i] = IF i <= Len(A) THEN A[i] ELSE B[i - Len(A)]
    BY <2>1, JoinFacts
  <2> QED BY <2>1, <2>2, <1>2
<1>11. a \in Nat /\ m \in Nat
  BY <1>6, <1>7
<1> HIDE DEF a, m
<1>12. \A i \in 1..(a + m) :
          \/ /\ pending'[i].tx \in txConflicted /\ pending'[i].block = NoBlock
          \/ /\ i - a \in 1..m /\ pending'[i].tx = Vtx[blk][i - a] /\ pending'[i].block = blk
  <2> SUFFICES ASSUME NEW i \in 1..(a + m)
               PROVE \/ (pending'[i].tx \in txConflicted /\ pending'[i].block = NoBlock)
                     \/ (i - a \in 1..m /\ pending'[i].tx = Vtx[blk][i - a] /\ pending'[i].block = blk)
    OBVIOUS
  <2>1. CASE i <= a
    <3>1. i \in 1..a /\ pending'[i] = A[i]
      BY <2>1, <1>10, <1>11
    <3> QED BY <3>1, <1>6, <1>8 DEF a
  <2>2. CASE ~(i <= a)
    <3>1. i - a \in 1..m /\ pending'[i] = B[i - a]
      BY <2>2, <1>10, <1>11
    <3> QED BY <3>1, <1>9 DEF m
  <2> QED BY <2>1, <2>2
<1>13. \A k \in 1..m : /\ a + k \in 1..Len(pending')
                       /\ pending'[a + k].tx = Vtx[blk][k] /\ pending'[a + k].block = blk
  <2> SUFFICES ASSUME NEW k \in 1..m
               PROVE  a + k \in 1..(a + m) /\ pending'[a + k].tx = Vtx[blk][k] /\ pending'[a + k].block = blk
    BY <1>10
  <2>1. a + k \in 1..(a + m) /\ ~(a + k <= a) /\ (a + k) - a = k
    BY <1>11
  <2> QED BY <2>1, <1>9, <1>10 DEF m
<1>14. ASSUME NEW t \in txConflicted PROVE \E i \in 1..Len(pending') : pending'[i].tx = t
  <2>1. PICK i \in 1..a : conf[i] = t
    BY <1>5 DEF a
  <2>2. i \in 1..(a + m) /\ i <= a
    BY <1>11
  <2>3. pending'[i] = A[i] /\ A[i].tx = conf[i]
    BY <2>2, <1>8, <1>10 DEF a
  <2> QED BY <2>1, <2>2, <2>3, <1>10
<1>15. CallsMade(a)
  BY <1>10, <1>12, <1>13, <1>14 DEF CallsMade, m
<1> QED BY <1>11, <1>15

\* The end of ConnectBlock: its calls come in the order of the block, so the wallet will
\* have what a transaction spends of its own.
LEMMA WatchedStep ==
  ASSUME NoCoinBaseAgain, CoinsInv, WalletInv, Watched
  PROVE  WalletInv'
PROOF
<1> DEFINE m == Len(Vtx[blk])
<1>1. WalletTypes /\ Stages /\ Recorded /\ Heard /\ PoolHeard /\ Types /\ History /\ Connecting
  BY DEF WalletInv, CoinsInv, Loops
<1>2. /\ pending = <<>> /\ pc = "connect" /\ n > m /\ pc' \in {"idle", "connected"}
      /\ pending' = IF pc' = "connected" THEN Calls(Vtx[blk], blk) ELSE <<>>
      /\ UNCHANGED <<mapWallet, mapTx, locator, txConflicted, tip, coinsBest>> /\ blk' = blk
  BY DEF Watched, CallDone, EndConnectBlock, ConnectFails, chainVars, coinVars, poolVars
<1>3. /\ coinsBest = tip /\ Prev[blk] = tip /\ blk \in Blocks \ {Genesis}
      /\ n \in 1..(m + 1) /\ Fresh(blk) /\ Available(blk, n - 1)
  BY <1>1, <1>2 DEF Connecting, Types, Applied
<1>4. Vtx[blk] \in Seq(Txs) /\ m \in Nat /\ n - 1 = m
  BY <1>2, <1>3, DataAssumption
<1>5. /\ Calls(Vtx[blk], blk) \in Seq(WalletCall) /\ Len(Calls(Vtx[blk], blk)) = m
      /\ \A i \in 1..m : Calls(Vtx[blk], blk)[i].tx = Vtx[blk][i] /\ Calls(Vtx[blk], blk)[i].block = blk
  BY <1>3, <1>4, CallFacts
<1>6. ToSet(Vtx[blk]) = {Vtx[blk][i] : i \in 1..m}
  BY <1>3, VtxSet
<1> HIDE DEF m
<1>7. /\ pending' \in Seq(WalletCall)
      /\ \A i \in 1..Len(pending') : /\ i \in 1..m /\ pc' = "connected"
                                     /\ pending'[i].tx = Vtx[blk][i] /\ pending'[i].block = blk
      /\ pc' = "connected" => Len(pending') = m
  <2>1. CASE pc' = "connected"
    BY <2>1, <1>2, <1>5
  <2>2. CASE pc' # "connected"
    <3>1. Len(<<>>) = 0 /\ 1..0 = {} /\ <<>> \in Seq(WalletCall)
      OBVIOUS
    <3> QED BY <2>2, <3>1, <1>2
  <2> QED BY <2>1, <2>2
<1>8. WalletTypes' /\ Stages' /\ PoolHeard'
  <2>1. WalletTypes'
    BY <1>1, <1>2, <1>7 DEF WalletTypes
  <2>2. Stages'
    BY <1>2 DEF Stages
  <2>3. PoolHeard'
    BY <1>1, <1>2 DEF PoolHeard
  <2> QED BY <2>1, <2>2, <2>3
<1>9. Recorded'
  <2>1. \A i \in 1..Len(pending') : /\ pending'[i].tx \in ToSet(Vtx[pending'[i].block])
                                    /\ pending'[i].block # Genesis /\ pc' = "connected" /\ pending'[i].block = blk'
    BY <1>2, <1>3, <1>6, <1>7
  <2> QED BY <2>1, <1>1, <1>2 DEF Recorded
<1>10. Heard'
  <2>1. ASSUME pc' = "connected", NEW t \in ToSet(Vtx[blk]) PROVE Told(t, blk)'
    <3>1. PICK k \in 1..m : t = Vtx[blk][k]
      BY <1>6
    <3>2. k \in 1..Len(pending') /\ pending'[k].tx = t /\ pending'[k].block = blk'
      BY <2>1, <3>1, <1>2, <1>7
    <3> QED BY <3>2 DEF Told
  <2> QED BY <2>1, <1>1, <1>2 DEF Heard, Has
<1>11. InOrder'
  <2> SUFFICES ASSUME NEW i \in 1..m, Vtx[blk][i] \notin DOMAIN mapWallet, pc' = "connected",
                      NEW o \in ToSet(Vin[Vtx[blk][i]]) \cap Mine, o[1] \notin DOMAIN mapWallet
               PROVE  \E j \in 1..(i - 1) : pending'[j].tx = o[1]
    BY <1>2, <1>7 DEF InOrder
  <2>1. Accounts(Part(blk, i - 1), Upto(blk, i - 1))
    <3>1. m \in 0..Len(Vtx[blk]) /\ i - 1 \in 0..m
      BY <1>4 DEF m
    <3>2. Accounts(Utxo[Prev[blk]], ChainTxs(Prev[blk]))
      BY <1>3, TipAccounts
    <3>3. Available(blk, m)
      BY <1>3, <1>4
    <3> QED BY <3>1, <3>2, <3>3, <1>3, BlockAccounts
  <2>2. o \in Outs(Part(blk, i - 1))
    BY <1>3, <1>4 DEF Available
  <2>3. o[1] \in Upto(blk, i - 1)
    BY <2>1, <2>2 DEF Accounts, Outs
  <2>4. o[1] \notin ChainTxs(tip)
    <3>1. Concerns(o[1])
      BY MakerConcerns
    <3> QED BY <3>1, <1>1, <1>3, ChainHeard
  <2>5. PICK k \in 1..(i - 1) : o[1] = Vtx[blk][k]
    BY <2>3, <2>4, <1>3 DEF Upto
  <2>6. k \in 1..Len(pending')
    BY <1>4, <1>7
  <2> QED BY <2>5, <2>6, <1>7
<1> QED BY <1>8, <1>9, <1>10, <1>11 DEF WalletInv

\* UpdateTip and the calls about the conflicts and the block.
LEMMA ConnectedStep ==
  ASSUME CoinsInv, PoolInv, WalletInv, Connected
  PROVE  WalletInv'
PROOF
<1>1. WalletTypes /\ Stages /\ Recorded /\ Heard /\ PoolHeard /\ Types /\ History
  BY DEF WalletInv, CoinsInv
<1>2. /\ pending = <<>> /\ pc = "conflicts" /\ pc' = "idle" /\ tip' = blk
      /\ txConflicted' = {} /\ UNCHANGED <<mapWallet, mapTx, blk, coinsBest>>
      /\ locator' = IF Height[blk] \in LocatorHeights THEN blk ELSE locator
  BY DEF Connected, ConnectDone, CallDone, SetBestChain, poolVars, coinVars
<1>3. blk \in DOMAIN undo /\ blk \in Blocks \ {Genesis}
  BY <1>1, <1>2 DEF PoolInv, PoolLoop, History, HistoryOf
<1>4. PICK a \in Nat : CallsMade(a)
  BY ConnectedCalls
<1> DEFINE m == Len(Vtx[blk])
<1>5. /\ pending' \in Seq(WalletCall) /\ Len(pending') = a + m
      /\ \A i \in 1..(a + m) :
          \/ /\ pending'[i].tx \in txConflicted /\ pending'[i].block = NoBlock
          \/ /\ i - a \in 1..m /\ pending'[i].tx = Vtx[blk][i - a] /\ pending'[i].block = blk
  BY <1>4 DEF CallsMade
<1>6. \A k \in 1..m : Vtx[blk][k] \in ToSet(Vtx[blk])
  BY <1>3, VtxSet
<1> HIDE DEF m
<1>7. WalletTypes' /\ Stages' /\ Heard' /\ InOrder' /\ PoolHeard'
  <2>1. WalletTypes'
    BY <1>1, <1>2, <1>3, <1>5 DEF WalletTypes
  <2>2. Stages' /\ InOrder'
    BY <1>2 DEF Stages, InOrder
  <2> QED BY <2>1, <2>2, <1>1, <1>2 DEF Heard, Has, PoolHeard
<1>8. Recorded'
  <2>1. \A i \in 1..(a + m) : pending'[i].block # NoBlock =>
           pending'[i].block = blk /\ pending'[i].tx \in ToSet(Vtx[blk])
    BY <1>5, <1>6
  <2>2. blk \in Chain[blk]
    BY <1>3, ChainFacts
  <2> QED BY <2>1, <2>2, <1>1, <1>2, <1>3, <1>5 DEF Recorded
<1> QED BY <1>7, <1>8 DEF WalletInv

\* UpdateTip and the calls about a block that was disconnected.
LEMMA DisconnectedStep ==
  ASSUME CoinsInv, PoolInv, WalletInv, Disconnected
  PROVE  WalletInv'
PROOF
<1>1. WalletTypes /\ Stages /\ Recorded /\ Heard /\ PoolHeard /\ Types /\ History
  BY DEF WalletInv, CoinsInv
<1>2. /\ pending = <<>> /\ pc = "resurrect" /\ pc' = "idle" /\ tip' = Prev[blk]
      /\ pending' = Calls(Vtx[blk], NoBlock) /\ UNCHANGED <<mapWallet, mapTx, txConflicted, coinsBest>>
      /\ locator' = IF Height[Prev[blk]] \in LocatorHeights THEN Prev[blk] ELSE locator
  BY DEF Disconnected, DisconnectDone, CallDone, SetBestChain, poolVars, coinVars
<1>3. blk \in Blocks \ {Genesis} /\ Prev[blk] \in Blocks
  BY <1>1, <1>2, Constants DEF PoolInv, PoolLoop, History, HistoryOf
<1>4. Vtx[blk] \in Seq(Txs) /\ Len(Vtx[blk]) \in Nat
  BY <1>3, DataAssumption
<1>5. /\ pending' \in Seq(WalletCall) /\ Len(pending') = Len(Vtx[blk])
      /\ \A i \in 1..Len(Vtx[blk]) : pending'[i].tx = Vtx[blk][i] /\ pending'[i].block = NoBlock
  BY <1>2, <1>4, CallFacts
<1>6. WalletTypes' /\ Stages' /\ Heard' /\ InOrder' /\ PoolHeard'
  <2>1. WalletTypes'
    BY <1>1, <1>2, <1>3, <1>5 DEF WalletTypes
  <2>2. Stages' /\ InOrder'
    BY <1>2 DEF Stages, InOrder
  <2> QED BY <2>1, <2>2, <1>1, <1>2 DEF Heard, Has, PoolHeard
<1>7. Recorded'
  BY <1>1, <1>2, <1>5 DEF Recorded
<1> QED BY <1>6, <1>7 DEF WalletInv

\* One block of the rescan.
LEMMA ScanStep ==
  ASSUME CoinsInv, WalletInv, ScanBlock
  PROVE  WalletInv'
PROOF
<1>1. WalletTypes /\ Stages /\ Recorded /\ Heard /\ PoolHeard /\ Types
  BY DEF WalletInv, CoinsInv
<1>2. /\ pending = <<>> /\ pc = "rescan" /\ pc' = pc
      /\ UNCHANGED <<blk, tip, coinsBest, mapTx, mapWallet, locator, txConflicted>>
  BY DEF ScanBlock, CallDone, chainVars, coinVars, poolVars
<1>3. PICK b \in Chain[tip] : pending' = Calls(Vtx[b], b)
  BY DEF ScanBlock
<1>4. b \in Blocks
  BY <1>1, ChainFacts DEF Types
<1>5. Vtx[b] \in Seq(Txs) /\ (b = Genesis => Len(Vtx[b]) = 0)
  <2>1. Vtx[Genesis] = <<>>
    BY WalletAssumption
  <2>2. <<>> \in Seq(Txs) /\ Len(<<>>) = 0
    OBVIOUS
  <2>3. b # Genesis => Vtx[b] \in Seq(Txs)
    BY <1>4, DataAssumption
  <2> QED BY <2>1, <2>2, <2>3
<1>6. /\ pending' \in Seq(WalletCall) /\ Len(pending') = Len(Vtx[b])
      /\ \A i \in 1..Len(Vtx[b]) : pending'[i].tx = Vtx[b][i] /\ pending'[i].block = b
  BY <1>3, <1>4, <1>5, CallFacts
<1>7. \A i \in 1..Len(Vtx[b]) : b # Genesis /\ Vtx[b][i] \in ToSet(Vtx[b])
  <2> TAKE i \in 1..Len(Vtx[b])
  <2>1. b # Genesis
    <3>1. 1..0 = {}
      OBVIOUS
    <3> QED BY <3>1, <1>5
  <2> QED BY <2>1, <1>4, VtxSet
<1>8. WalletTypes' /\ Stages' /\ Heard' /\ InOrder' /\ PoolHeard'
  <2>1. WalletTypes'
    BY <1>1, <1>2, <1>6 DEF WalletTypes
  <2>2. Stages' /\ InOrder'
    BY <1>1, <1>2 DEF Stages, InOrder
  <2> QED BY <2>1, <2>2, <1>1, <1>2 DEF Heard, Has, PoolHeard
<1>9. Recorded'
  BY <1>1, <1>2, <1>6, <1>7 DEF Recorded
<1> QED BY <1>8, <1>9 DEF WalletInv

\* A kill, the start of the scan, and its end.
LEMMA KillStep ==
  ASSUME CoinsInv, WalletInv, Kill \/ Restart \/ ScanDone
  PROVE  WalletInv'
PROOF
<1>1. WalletTypes /\ Stages /\ Recorded /\ Heard /\ PoolHeard /\ Types
  BY DEF WalletInv, CoinsInv
<1>2. /\ pending' = <<>> /\ UNCHANGED <<mapWallet, coinsBest>> /\ pc' \in {"down", "rescan", "idle"}
      /\ mapTx' \subseteq mapTx /\ txConflicted' \subseteq txConflicted /\ locator' \in {locator, tip}
  <2>1. CASE Kill
    BY <2>1 DEF Kill, coinVars
  <2>2. CASE Restart
    BY <2>2, <1>1 DEF Restart, walletVars, coinVars, poolVars, Stages
  <2>3. CASE ScanDone
    BY <2>3 DEF ScanDone, CallDone, coinVars, poolVars
  <2> QED BY <2>1, <2>2, <2>3
<1>3. Len(pending') = 0 /\ 1..0 = {} /\ pending' \in Seq(WalletCall)
  BY <1>2
<1>4. WalletTypes' /\ Stages' /\ Recorded'
  BY <1>1, <1>2, <1>3 DEF WalletTypes, Stages, Recorded, Types
<1>5. Heard' /\ InOrder' /\ PoolHeard'
  BY <1>1, <1>2 DEF Heard, InOrder, PoolHeard, Has
<1> QED BY <1>4, <1>5 DEF WalletInv

\* A step of the node that calls nothing of the wallet.
LEMMA NodeWallet ==
  ASSUME CoinsInv, WalletInv, NodeStep
  PROVE  WalletInv'
PROOF
<1>1. WalletTypes /\ Stages /\ PoolHeard /\ Types /\ History /\ Loops
  BY DEF WalletInv, CoinsInv
<1>2. /\ pending = <<>> /\ UNCHANGED <<mapWallet, locator, txConflicted, pending>>
  BY DEF NodeStep, CallDone, walletVars
<1>3. /\ UNCHANGED <<tip, mapTx>>
      /\ pc' \in {"idle", "connect", "conflicts", "disconnect", "resurrect", "unclean"}
      /\ pc' \in {"disconnect", "resurrect"} => blk' = tip
      /\ pc' = "conflicts" => blk' # Genesis /\ Prev[blk'] = tip
      /\ \A b \in Chain[coinsBest'] : b \in Chain[coinsBest] \/ (b = blk /\ pc = "connected")
  <2>1. CASE \E b \in Blocks \ {Genesis} : AcceptBlock(b)
    BY <2>1 DEF AcceptBlock, Settled, callVars, poolVars, coinVars
  <2>2. CASE BeginConnect
    BY <2>2 DEF BeginConnect, ConnectFails, chainVars, poolVars, coinVars
  <2>3. CASE ConnectTx
    BY <2>3 DEF ConnectTx, ConnectFails, chainVars, poolVars, coinVars
  <2>4. CASE FinishConnect
    <3>1. pc = "connected" /\ coinsBest' = blk /\ pc' = "conflicts" /\ UNCHANGED <<tip, mapTx, blk>>
      BY <2>4 DEF FinishConnect, chainVars, poolVars
    <3>2. blk \in DOMAIN undo /\ Prev[blk] = tip /\ coinsBest = tip /\ HistoryOf(undo)
      BY <3>1, <1>1 DEF Loops, Finishing, History
    <3>3. blk \in Blocks \ {Genesis}
      BY <3>2 DEF HistoryOf
    <3>4. Chain[blk] = {blk} \cup Chain[tip]
      BY <3>2, <3>3, ChainFacts
    <3> QED BY <3>1, <3>2, <3>3, <3>4
  <2>5. CASE BeginDisconnect \/ DisconnectTx
    BY <2>5, <1>1 DEF BeginDisconnect, DisconnectTx, chainVars, poolVars, coinVars, Stages
  <2>6. CASE FinishDisconnect
    <3>1. pc = "disconnect" /\ coinsBest' = Prev[blk] /\ pc' = "resurrect" /\ UNCHANGED <<tip, mapTx, blk>>
      BY <2>6 DEF FinishDisconnect, chainVars, poolVars
    <3>2. blk = tip /\ coinsBest = tip /\ tip \in Blocks \ {Genesis}
      BY <3>1, <1>1 DEF Loops, Disconnecting, Types
    <3>3. Chain[tip] = {tip} \cup Chain[Prev[tip]]
      BY <3>2, ChainFacts
    <3> QED BY <3>1, <3>2, <3>3
  <2> QED BY <2>1, <2>2, <2>3, <2>4, <2>5, <2>6 DEF NodeStep
<1>4. Stages'
  BY <1>2, <1>3 DEF Stages
<1>5. Grown
  BY <1>1, <1>2 DEF Grown, WalletTypes
<1>6. \A t \in mapTx' \cup txConflicted' : Concerns(t) => t \in DOMAIN mapWallet'
  BY <1>1, <1>2, <1>3 DEF PoolHeard
<1> QED BY <1>1, <1>2, <1>3, <1>4, <1>5, <1>6, GrowStep DEF WalletTypes

\* The wallet recognises what AcceptToMemoryPool accepts.
LEMMA AcceptedRecognised ==
  ASSUME NoCoinBaseAgain, CoinsInv, PoolTypes, PoolInv, WalletInv,
         pc \in {"idle", "resurrect"}, NEW tx \in Txs, Acceptable(tx), Concerns(tx)
  PROVE  InvolvingMe(mapWallet, tx)
PROOF
<1>1. Heard /\ PoolHeard
  BY DEF WalletInv
<1>3. mapTx \cap ChainTxs(coinsBest) = {}
  <2>1. ToConnect = {}
    BY DEF ToConnect
  <2> QED BY <2>1 DEF PoolInv, OffChain
<1>4. ASSUME NEW o \in ToSet(Vin[tx]) \cap Mine PROVE o[1] \in DOMAIN mapWallet
  <2>1. Concerns(o[1])
    BY MakerConcerns
  <2>2. o \in Outs(Utxo[coinsBest]) \/ o[1] \in mapTx
    BY <1>3, AcceptableFacts
  <2>3. CASE o[1] \in mapTx
    BY <2>1, <2>3, <1>1 DEF PoolHeard
  <2>4. CASE o \in Outs(Utxo[coinsBest])
    <3>1. o[1] \in ChainTxs(coinsBest)
      BY <2>4, TipAccounts DEF Accounts, Outs
    <3> QED BY <2>1, <3>1, <1>1, ChainHeard
  <2> QED BY <2>2, <2>3, <2>4
<1> QED BY <1>4, Recognised

\* A step of the pool.
LEMMA PoolWallet ==
  ASSUME NoCoinBaseAgain, CoinsInv, PoolTypes, PoolInv, WalletInv, NEW tx \in Txs, PoolStep(tx)
  PROVE  WalletInv'
PROOF
<1>1. WalletTypes /\ Stages /\ PoolHeard
  BY DEF WalletInv
<1>2. /\ pending = <<>> /\ UNCHANGED <<locator, txConflicted, pending, tip, pc, blk, coinsBest>>
      /\ pc \in {"idle", "resurrect"}
      /\ mapTx' \subseteq mapTx \/ (Acceptable(tx) /\ mapTx' = mapTx \cup {tx})
      /\ mapWallet' = IF tx \in mapTx' \ mapTx THEN AddToWalletIfInvolvingMe(mapWallet, tx, NoBlock) ELSE mapWallet
  <2>1. /\ pending = <<>> /\ UNCHANGED <<locator, txConflicted, pending>>
        /\ mapWallet' = IF tx \in mapTx' \ mapTx THEN AddToWalletIfInvolvingMe(mapWallet, tx, NoBlock) ELSE mapWallet
    BY DEF PoolStep, CallDone, SyncTransaction
  <2>2. CASE AcceptToMemoryPool(tx)
    BY <2>1, <2>2 DEF AcceptToMemoryPool, Settled, addUnchecked, poolVars, chainVars, coinVars, callVars
  <2>3. CASE pc = "resurrect" /\ tx = Vtx[blk][n] /\ Resurrect
    BY <2>1, <2>3 DEF Resurrect, addUnchecked, RemoveFromPool, poolVars, chainVars, coinVars
  <2> QED BY <2>2, <2>3 DEF PoolStep
<1>3. Stages'
  BY <1>1, <1>2 DEF Stages
<1>4. CASE tx \in mapTx' \ mapTx
  <2>1. /\ Acceptable(tx) /\ mapTx' = mapTx \cup {tx}
        /\ mapWallet' = AddToWalletIfInvolvingMe(mapWallet, tx, NoBlock)
    BY <1>2, <1>4
  <2>2. Grown /\ (InvolvingMe(mapWallet, tx) => tx \in DOMAIN mapWallet')
    BY <2>1, <1>1, GrownByNone
  <2>3. Concerns(tx) => tx \in DOMAIN mapWallet'
    BY <2>1, <2>2, <1>2, AcceptedRecognised
  <2>4. \A t \in mapTx' \cup txConflicted' : Concerns(t) => t \in DOMAIN mapWallet'
    BY <2>1, <2>2, <2>3, <1>1, <1>2 DEF PoolHeard, Grown
  <2> QED BY <2>2, <2>4, <1>1, <1>2, <1>3, GrowStep DEF WalletTypes
<1>5. CASE tx \notin mapTx' \ mapTx
  <2>1. mapWallet' = mapWallet /\ mapTx' \subseteq mapTx
    BY <1>2, <1>5
  <2>2. Grown
    BY <2>1, <1>1 DEF Grown, WalletTypes
  <2>3. \A t \in mapTx' \cup txConflicted' : Concerns(t) => t \in DOMAIN mapWallet'
    BY <2>1, <1>1, <1>2 DEF PoolHeard
  <2> QED BY <2>2, <2>3, <1>1, <1>2, <1>3, GrowStep DEF WalletTypes
<1> QED BY <1>4, <1>5

\* What the user does, RemoveConflicts and the steps of ReacceptWalletTransactions.
LEMMA UserWallet ==
  ASSUME CoinsInv, PoolTypes, WalletInv, NEW t,
         \/ NoteConflicts \/ GetAvailableCredit(t) \/ CreateTransaction(t) \/ (t \in Txs /\ CommitTransaction(t))
         \/ ReacceptWalletTransactions \/ ReacceptTx \/ ReacceptDone \/ UNCHANGED allVars
  PROVE  WalletInv'
PROOF
<1>1. WalletTypes /\ Stages /\ PoolHeard /\ Types /\ Loops
  BY DEF WalletInv, CoinsInv
<1>2. CASE NoteConflicts
  <2>1. /\ UNCHANGED <<pending, locator, tip, coinsBest, mapWallet, pc, blk>> /\ pc = "conflicts"
        /\ txConflicted' \subseteq txConflicted \cup mapTx /\ mapTx' \subseteq mapTx
    BY <1>2 DEF NoteConflicts, RemoveConflicts, RemoveForBlock, RemoveFromPool, chainVars, coinVars
  <2>2. Grown /\ Stages'
    BY <2>1, <1>1 DEF Grown, WalletTypes, Stages
  <2>3. \A s \in mapTx' \cup txConflicted' : Concerns(s) => s \in DOMAIN mapWallet'
    BY <2>1, <1>1 DEF PoolHeard
  <2>4. txConflicted' \subseteq Txs
    BY <2>1, <1>1 DEF WalletTypes, PoolTypes
  <2> QED BY <2>1, <2>2, <2>3, <2>4, GrowStep
<1>3. CASE t \in Txs /\ CommitTransaction(t)
  <2>1. /\ UNCHANGED <<pending, locator, tip, coinsBest, pc, blk, txConflicted>> /\ pc = "idle"
        /\ mapWallet' = AddToWallet(mapWallet, t, NoBlock) /\ mapTx' \subseteq mapTx \cup {t}
    BY <1>3 DEF CommitTransaction, Free, Settled, addUnchecked, chainVars, coinVars, callVars, poolVars
  <2>2. Grown /\ t \in DOMAIN mapWallet'
    <3>1. CASE t \in DOMAIN mapWallet
      BY <2>1, <3>1, <1>1 DEF AddToWallet, Grown, WalletTypes
    <3>2. CASE t \notin DOMAIN mapWallet
      <4> DEFINE w == mapWallet'
      <4>1. w = [s \in DOMAIN mapWallet \cup {t} |-> IF s = t THEN NoBlock ELSE mapWallet[s]]
        BY <2>1, <3>2 DEF AddToWallet
      <4> HIDE DEF w
      <4>2. DOMAIN w = DOMAIN mapWallet \cup {t} /\ w[t] = NoBlock
        BY <4>1
      <4>3. \A s \in DOMAIN mapWallet : w[s] = mapWallet[s]
        BY <4>1, <3>2
      <4> QED BY <4>2, <4>3, <1>1, <1>3 DEF Grown, WalletTypes, w
    <3> QED BY <3>1, <3>2
  <2>3. Stages'
    BY <2>1, <1>1 DEF Stages
  <2>4. \A s \in mapTx' \cup txConflicted' : Concerns(s) => s \in DOMAIN mapWallet'
    BY <2>1, <2>2, <1>1 DEF PoolHeard, Grown
  <2> QED BY <2>1, <2>2, <2>3, <2>4, <1>1, GrowStep DEF WalletTypes
<1>4. CASE ReacceptTx
  <2> DEFINE s == HashOrder[n]
  <2>1. /\ UNCHANGED <<pending, locator, tip, coinsBest, pc, blk, txConflicted>> /\ pc = "reaccept"
        /\ \/ UNCHANGED <<mapWallet, mapTx>>
           \/ /\ s \in DOMAIN mapWallet /\ mapTx' = mapTx \cup {s}
              /\ mapWallet' = AddToWalletIfInvolvingMe(mapWallet, s, NoBlock)
    BY <1>4 DEF ReacceptTx, SyncTransaction, addUnchecked, chainVars, coinVars, poolVars
  <2> HIDE DEF s
  <2>2. Grown /\ (s \in DOMAIN mapWallet => s \in DOMAIN mapWallet')
    <3>1. CASE UNCHANGED mapWallet
      BY <3>1, <1>1 DEF Grown, WalletTypes
    <3>2. CASE s \in DOMAIN mapWallet /\ mapWallet' = AddToWalletIfInvolvingMe(mapWallet, s, NoBlock)
      BY <3>2, <1>1, GrownByNone DEF WalletTypes, Grown
    <3> QED BY <2>1, <3>1, <3>2
  <2>3. Stages'
    BY <2>1, <1>1 DEF Stages
  <2>4. \A r \in mapTx' \cup txConflicted' : Concerns(r) => r \in DOMAIN mapWallet'
    BY <2>1, <2>2, <1>1 DEF PoolHeard, Grown
  <2> QED BY <2>1, <2>2, <2>3, <2>4, <1>1, GrowStep DEF WalletTypes
<1>5. CASE GetAvailableCredit(t) \/ CreateTransaction(t) \/ ReacceptWalletTransactions \/ ReacceptDone \/ UNCHANGED allVars
  <2>1. /\ UNCHANGED <<pending, locator, tip, coinsBest, mapWallet, mapTx, blk, txConflicted>>
        /\ UNCHANGED pc \/ (pc \in {"idle", "reaccept"} /\ pc' \in {"idle", "reaccept"} /\ pending = <<>>)
    <3>1. CASE GetAvailableCredit(t) \/ CreateTransaction(t) \/ UNCHANGED allVars
      BY <3>1 DEF GetAvailableCredit, CreateTransaction, allVars, walletVars, vars, chainVars, coinVars, poolVars, callVars
    <3>2. CASE ReacceptWalletTransactions \/ ReacceptDone
      BY <3>2, <1>1 DEF ReacceptWalletTransactions, ReacceptDone, Free, Settled, CallDone, Stages,
                        walletVars, chainVars, coinVars, poolVars
    <3> QED BY <1>5, <3>1, <3>2
  <2>2. Grown
    BY <2>1, <1>1 DEF Grown, WalletTypes
  <2>3. Stages'
    BY <2>1, <1>1 DEF Stages
  <2>4. \A s \in mapTx' \cup txConflicted' : Concerns(s) => s \in DOMAIN mapWallet'
    BY <2>1, <1>1 DEF PoolHeard
  <2> QED BY <2>1, <2>2, <2>3, <2>4, <1>1, GrowStep DEF WalletTypes
<1> QED BY <1>2, <1>3, <1>4, <1>5

\* Every step keeps the invariant of the wallet.
LEMMA WalletStep ==
  ASSUME NoCoinBaseAgain, CoinsInv, PoolTypes, PoolInv, WalletInv, [WalletNext]_allVars
  PROVE  WalletInv'
PROOF
<1>1. CASE NodeStep
  BY <1>1, NodeWallet
<1>2. CASE \E tx \in Txs : PoolStep(tx)
  BY <1>2, PoolWallet
<1>3. CASE Watched \/ Connected
  BY <1>3, WatchedStep, ConnectedStep
<1>4. CASE Disconnected
  BY <1>4, DisconnectedStep
<1>5. CASE SyncWithWallets
  BY <1>5, SyncStep
<1>6. CASE \E t \in Txs : GetAvailableCredit(t) \/ CreateTransaction(t) \/ CommitTransaction(t)
  BY <1>6, UserWallet
<1>7. CASE Kill \/ Restart \/ ScanDone
  BY <1>7, KillStep
<1>8. CASE ScanBlock
  BY <1>8, ScanStep
<1>9. CASE NoteConflicts \/ ReacceptWalletTransactions \/ ReacceptTx \/ ReacceptDone \/ UNCHANGED allVars
  BY <1>9, UserWallet
<1> QED BY <1>1, <1>2, <1>3, <1>4, <1>5, <1>6, <1>7, <1>8, <1>9 DEF WalletNext

\* At the start the wallet knows nothing, and nothing concerns it.
LEMMA WalletStart ==
  ASSUME WalletInit
  PROVE  WalletInv
PROOF
<1>1. /\ Init /\ DOMAIN mapWallet = {} /\ locator = Genesis /\ txConflicted = {} /\ pending = <<>>
  BY DEF WalletInit
<1>2. pc = "idle" /\ coinsBest = Genesis /\ mapTx = {}
  BY <1>1 DEF Init
<1>3. WalletTypes
  BY <1>1, Constants DEF WalletTypes
<1>4. Len(pending) = 0 /\ 1..Len(pending) = {}
  BY <1>1
<1>5. Stages /\ Recorded /\ InOrder /\ PoolHeard
  BY <1>1, <1>2, <1>4 DEF Stages, Recorded, InOrder, PoolHeard
<1>6. Chain[Genesis] \ {Genesis} = {}
  BY ChainFacts
<1> QED BY <1>1, <1>2, <1>3, <1>5, <1>6 DEF WalletInv, Heard

LEMMA WalletInvComplete ==
  ASSUME CoinsInv, WalletInv
  PROVE  WalletComplete
PROOF
<1> SUFFICES ASSUME pc = "idle", CallDone
             PROVE  /\ \A b \in Chain[tip] : \A t \in ToSet(Vtx[b]) :
                          Concerns(t) => t \in DOMAIN mapWallet /\ mapWallet[t] = b
                    /\ \A t \in mapTx : Concerns(t) => t \in DOMAIN mapWallet
  BY DEF WalletComplete
<1>1. coinsBest = tip
  BY DEF CoinsInv, Loops, Idle
<1>2. ASSUME NEW b \in Chain[tip], NEW t \in ToSet(Vtx[b]), Concerns(t) PROVE Has(t, b)
  <2>1. CASE b = Genesis
    <3>1. ToSet(<<>>) = {}
      BY DEF ToSet
    <3> QED BY <2>1, <3>1, WalletAssumption
  <2>2. CASE b # Genesis
    BY <1>1, <1>2, <2>2 DEF WalletInv, Heard
  <2> QED BY <2>1, <2>2
<1>3. \A t \in mapTx : Concerns(t) => t \in DOMAIN mapWallet
  BY DEF WalletInv, PoolHeard
<1> QED BY <1>2, <1>3 DEF Has

\* Once the node is idle and SyncWithWallets has made its calls, the wallet has each
\* transaction of the active chain and of the pool that concerns it, and that of the
\* chain with its block: ConnectBlock tells it of the block before the coins are written,
\* in an order in which it recognises its own, so no kill at any step loses one.
THEOREM WalletAlwaysComplete == NoCoinBaseAgain => (WalletSpec => []WalletComplete)
PROOF
<1> SUFFICES ASSUME NoCoinBaseAgain PROVE WalletSpec => []WalletComplete
  OBVIOUS
<1> DEFINE Inv == CoinsInv /\ PoolTypes /\ locator \in Blocks /\ PoolInv /\ WalletInv
<1>1. WalletInit => Inv
  <2>1. WalletInit => WalletInv
    BY WalletStart
  <2>2. WalletInit => CoinsInv /\ PoolTypes /\ locator \in Blocks /\ PoolInv
    BY InitInv, NoPool, Constants DEF WalletInit, Init
  <2> QED BY <2>1, <2>2
<1>2. Inv /\ [WalletNext]_allVars => Inv'
  BY WalletNextInv, PoolWalletNext, WalletStep
<1>3. Inv => WalletComplete
  BY WalletInvComplete
<1> HIDE DEF Inv
<1> QED BY <1>1, <1>2, <1>3, PTL DEF WalletSpec
-----------------------------------------------------------------------------
(* A cached credit is current, and the coins offered are there *)

\* What is in the chain is not above its tip.
LEMMA DepthFacts ==
  ASSUME NEW T \in Blocks, NEW b \in Chain[T]
  PROVE  Height[T] - Height[b] + 1 >= 1 /\ Height[T] - Height[b] + 1 \in Nat
PROOF
<1>1. b \in Blocks /\ Height[b] <= Height[T]
  BY ChainHeights
<1>2. Height[b] \in Nat /\ Height[T] \in Nat
  BY <1>1, HeightFacts
<1> QED BY <1>1, <1>2

\* The depth tells which transactions count, and an outpoint is spent by one that does.
LEMMA SpentFacts ==
  ASSUME tip \in Blocks
  PROVE  /\ \A t \in DOMAIN mapWallet : /\ GetDepthInMainChain(t) >= 0 <=> Counts(t)
                                        /\ GetDepthInMainChain(t) >= 1 <=> InMainChain(t)
                                        /\ GetDepthInMainChain(t) = 0 => t \in mapTx
         /\ \A o : IsSpent(o) <=> \E s : Counts(s) /\ o \in ToSet(Vin[s])
PROOF
<1>1. ASSUME NEW t \in DOMAIN mapWallet
      PROVE  /\ GetDepthInMainChain(t) >= 0 <=> Counts(t)
             /\ GetDepthInMainChain(t) >= 1 <=> InMainChain(t)
             /\ GetDepthInMainChain(t) = 0 => t \in mapTx
  <2>1. CASE InMainChain(t)
    <3>1. GetDepthInMainChain(t) = Height[tip] - Height[mapWallet[t]] + 1
      BY <2>1 DEF GetDepthInMainChain
    <3>2. mapWallet[t] \in Chain[tip]
      BY <2>1 DEF InMainChain
    <3>3. GetDepthInMainChain(t) >= 1 /\ GetDepthInMainChain(t) \in Nat
      BY <3>1, <3>2, DepthFacts
    <3> QED BY <3>3, <2>1 DEF Counts
  <2>2. CASE ~InMainChain(t)
    <3>1. GetDepthInMainChain(t) = IF t \in mapTx THEN 0 ELSE -1
      BY <2>2 DEF GetDepthInMainChain
    <3> QED BY <3>1, <2>2 DEF Counts
  <2> QED BY <2>1, <2>2
<1>2. \A o : IsSpent(o) <=> \E s : Counts(s) /\ o \in ToSet(Vin[s])
  BY <1>1 DEF IsSpent, Counts
<1> QED BY <1>1, <1>2

\* The credit of a transaction depends on which of its outputs are spent.
LEMMA CreditOf ==
  ASSUME NEW t
  PROVE  AvailableCredit(t) = Amount(Credits(t))
BY DEF AvailableCredit, Amount, Credits

LEMMA CreditOfNext ==
  ASSUME NEW t
  PROVE  AvailableCredit(t)' = Amount(Credits(t))'
BY DEF AvailableCredit, Amount, Credits

LEMMA CreditFacts ==
  ASSUME NEW t \in Txs
  PROVE  AvailableCredit(t) \in Nat
PROOF
<1>1. Credits(t) \in SUBSET OutPoints
  BY OutputFacts DEF Credits
<1> QED BY <1>1, CreditOf, AmountFacts

\* It stays while the same outputs are.
LEMMA SameCredit ==
  ASSUME NEW t, tip \in Blocks, tip' \in Blocks,
         \A s : (\E o \in ToSet(Vin[s]) : o[1] = t) => (Counts(s)' <=> Counts(s))
  PROVE  AvailableCredit(t)' = AvailableCredit(t)
PROOF
<1>1. ASSUME NEW o \in Outputs(t) PROVE IsSpent(o)' <=> IsSpent(o)
  <2>1. o[1] = t
    BY DEF Outputs
  <2>2. \A s : o \in ToSet(Vin[s]) => (Counts(s)' <=> Counts(s))
    BY <2>1
  <2>3. IsSpent(o) <=> \E s : Counts(s) /\ o \in ToSet(Vin[s])
    BY SpentFacts
  <2>4. IsSpent(o)' <=> \E s : Counts(s)' /\ o \in ToSet(Vin[s])
    <3>1. \A s \in DOMAIN mapWallet' : GetDepthInMainChain(s)' >= 0 <=> Counts(s)'
      <4> SUFFICES ASSUME NEW s \in DOMAIN mapWallet' PROVE GetDepthInMainChain(s)' >= 0 <=> Counts(s)'
        OBVIOUS
      <4>1. CASE InMainChain(s)'
        <5>1. GetDepthInMainChain(s)' = Height[tip'] - Height[mapWallet'[s]] + 1
          BY <4>1 DEF GetDepthInMainChain
        <5>2. mapWallet'[s] \in Chain[tip']
          BY <4>1 DEF InMainChain
        <5>3. GetDepthInMainChain(s)' >= 1 /\ GetDepthInMainChain(s)' \in Nat
          BY <5>1, <5>2, DepthFacts
        <5> QED BY <5>3, <4>1 DEF Counts
      <4>2. CASE ~InMainChain(s)'
        <5>1. GetDepthInMainChain(s)' = IF s \in mapTx' THEN 0 ELSE -1
          BY <4>2 DEF GetDepthInMainChain
        <5> QED BY <5>1, <4>2 DEF Counts
      <4> QED BY <4>1, <4>2
    <3> QED BY <3>1 DEF IsSpent, Counts
  <2> QED BY <2>2, <2>3, <2>4
<1>2. Credits(t)' = Credits(t)
  BY <1>1 DEF Credits
<1>3. Amount(Credits(t))' = Amount(Credits(t))
  BY <1>2
<1> QED BY <1>3, CreditOf, CreditOfNext

\* A step that tells of every transaction it makes count, or no longer count, and marks
\* dirty what it has told.
LEMMA CreditStep ==
  ASSUME CreditKept, CreditTypes, tip \in Blocks, tip' \in Blocks,
         DOMAIN mapWallet \subseteq DOMAIN mapWallet', DOMAIN credit' \subseteq DOMAIN credit,
         \A t \in DOMAIN credit' : credit'[t] = credit[t],
         \A s : \/ s \in Telling'
                \/ MarkedDirty(s) \cap DOMAIN credit' = {}
                \/ (Counts(s)' <=> Counts(s)) /\ s \notin Telling \cap DOMAIN mapWallet
  PROVE  CreditKept'
PROOF
<1> SUFFICES ASSUME NEW t \in DOMAIN credit'
             PROVE  \/ credit'[t] = AvailableCredit(t)'
                    \/ \E s \in Telling' \cap DOMAIN mapWallet' : t \in MarkedDirty(s)
  BY DEF CreditKept, MarkedDirty
<1>1. t \in DOMAIN credit /\ credit'[t] = credit[t]
  OBVIOUS
<1>2. SUFFICES ASSUME \A s \in Telling' \cap DOMAIN mapWallet' : t \notin MarkedDirty(s)
               PROVE  credit[t] = AvailableCredit(t)'
  BY <1>1
<1>3. ASSUME NEW s, t \in MarkedDirty(s)
      PROVE  (Counts(s)' <=> Counts(s)) /\ s \notin Telling \cap DOMAIN mapWallet
  <2>1. CASE s \in Telling'
    <3>1. s \notin DOMAIN mapWallet' /\ s \notin DOMAIN mapWallet
      BY <1>2, <1>3, <2>1
    <3> QED BY <3>1 DEF Counts
  <2>2. CASE s \notin Telling'
    BY <1>3, <2>2
  <2> QED BY <2>1, <2>2
<1>4. credit[t] = AvailableCredit(t)
  BY <1>1, <1>3 DEF CreditKept
<1>5. \A s : (\E o \in ToSet(Vin[s]) : o[1] = t) => (Counts(s)' <=> Counts(s))
  BY <1>3 DEF MarkedDirty
<1> QED BY <1>4, <1>5, SameCredit

\* What a transaction of the disconnected block spends is there when it is offered to the
\* pool: the chain below has it, or the pool from an earlier one of the block.
LEMMA BlockSupplied ==
  ASSUME NoCoinBaseAgain, NoneRefused, CoinsInv, PoolInv, ReturnInv,
         pc = "resurrect", n <= Len(Vtx[blk]), Vtx[blk][n] \notin CoinBases
  PROVE  \A o \in ToSet(Vin[Vtx[blk][n]]) : Connects(o)
PROOF
<1>1. blk \in DOMAIN undo /\ n # 0 /\ n \in Nat /\ coinsBest = Prev[blk]
  BY DEF PoolInv, PoolLoop, CoinsInv, Types, Loops, Finishing
<1>2. /\ blk \in Blocks \ {Genesis}
      /\ \A k \in 1..Len(Vtx[blk]) : ToSet(Vin[Vtx[blk][k]]) \subseteq Outs(Part(blk, k - 1))
  BY <1>1, BlockInputs
<1>3. Len(Vtx[blk]) \in Nat /\ n \in 1..Len(Vtx[blk])
  BY <1>1, <1>2, BlockFacts
<1>4. n \in 2..Len(Vtx[blk]) /\ n - 1 \in 0..Len(Vtx[blk])
  BY <1>2, <1>3, BlockFacts
<1>5. PassedAt(blk, n)
  BY <1>1, <1>4 DEF ReturnInv, Passed
<1> SUFFICES ASSUME NEW o \in ToSet(Vin[Vtx[blk][n]]) PROVE Connects(o)
  OBVIOUS
<1>6. PICK r \in Part(blk, n - 1) : r.out = o
  BY <1>2, <1>3 DEF Outs
<1>7. CASE r \in Utxo[Prev[blk]]
  <2>1. o \in Outs(Utxo[coinsBest])
    BY <1>1, <1>6, <1>7 DEF Outs
  <2>2. o \in OutPoints
    BY <1>1, <1>6, <1>7, AtTipFacts, RecordFacts
  <2> QED BY <2>1, <2>2, AtTipFacts DEF Connects
<1>8. CASE r \in Made(blk, n - 1)
  <2>1. r.nHeight = Height[blk] /\ \E i \in 1..(n - 1) : r.out[1] = Vtx[blk][i]
    BY <1>2, <1>4, <1>8, MadeFacts
  <2>2. PICK i \in 1..(n - 1) : o[1] = Vtx[blk][i]
    BY <2>1, <1>6
  <2>3. i \in 1..Len(Vtx[blk]) /\ i < n
    BY <1>4
  <2>4. o[1] \notin CoinBases
    <3>1. o[1] \in CoinBases => Height[blk] - Height[blk] >= COINBASE_MATURITY
      BY <1>5, <1>6, <2>1 DEF PassedAt
    <3>2. Height[blk] \in Nat /\ COINBASE_MATURITY \in Nat \ {0}
      BY <1>2, HeightFacts, Constants DEF NoneRefused
    <3> QED BY <3>1, <3>2
  <2>5. i > 1
    BY <2>2, <2>3, <2>4, <1>2, BlockFacts
  <2>6. o[1] \in mapTx
    BY <2>2, <2>3, <2>5 DEF ReturnInv, Returned
  <2> QED BY <2>6 DEF Connects
<1> QED BY <1>6, <1>7, <1>8 DEF Part, Minus

\* So the pool takes every transaction of the block but the first.
LEMMA ResurrectTakes ==
  ASSUME NoCoinBaseAgain, NoneRefused, CoinsInv, PoolTypes, PoolInv, ReturnInv, Resurrect
  PROVE  \/ Vtx[blk][n] \in CoinBases /\ UNCHANGED poolVars
         \/ Vtx[blk][n] \notin CoinBases /\ Acceptable(Vtx[blk][n]) /\ addUnchecked(Vtx[blk][n])
PROOF
<1>1. pc = "resurrect" /\ n <= Len(Vtx[blk])
  BY DEF Resurrect
<1>2. CASE Vtx[blk][n] \in CoinBases
  BY <1>2 DEF Resurrect
<1>3. CASE Vtx[blk][n] \notin CoinBases
  <2>1. \A o \in ToSet(Vin[Vtx[blk][n]]) : Connects(o)
    BY <1>1, <1>3, BlockSupplied
  <2>2. Vtx[blk][n] \notin CoinBases \cup NonStandard
    BY <1>3 DEF NoneRefused
  <2>3. Acceptable(Vtx[blk][n])
    BY <1>1, <2>1, <2>2, PassesAgain DEF ReturnInv
  <2> QED BY <1>3, <2>3 DEF Resurrect
<1> QED BY <1>2, <1>3

LEMMA ResurrectReturned ==
  ASSUME NoCoinBaseAgain, NoneRefused, CoinsInv, PoolTypes, PoolInv, ReturnInv, Resurrect
  PROVE  Returned'
PROOF
<1>1. pc = "resurrect" /\ n \in Nat /\ n' = n + 1 /\ UNCHANGED <<pc, blk>> /\ blk \in Blocks \ {Genesis}
      /\ n <= Len(Vtx[blk]) /\ n # 0
  BY DEF Resurrect, CoinsInv, Types, Loops, Finishing
<1>2. Len(Vtx[blk]) \in Nat /\ \A i \in 1..Len(Vtx[blk]) : Vtx[blk][i] \in CoinBases <=> i = 1
  BY <1>1, BlockFacts
<1>3. mapTx' = mapTx \/ mapTx' = mapTx \cup {Vtx[blk][n]}
  BY ResurrectTakes DEF addUnchecked, poolVars
<1>4. n > 1 => Vtx[blk][n] \in mapTx'
  BY <1>1, <1>2, ResurrectTakes DEF addUnchecked
<1>5. \A k \in 1..Len(Vtx[blk]) : k < n /\ k > 1 => Vtx[blk][k] \in mapTx
  BY <1>1 DEF ReturnInv, Returned
<1>6. \A k \in 1..Len(Vtx[blk]) : k < n + 1 => k < n \/ k = n
  BY <1>1, <1>2
<1> QED BY <1>1, <1>3, <1>4, <1>5, <1>6 DEF Returned

\* Every step of the node keeps this.
LEMMA ReturnNext ==
  ASSUME NoCoinBaseAgain, NoneRefused, CoinsInv, PoolTypes, PoolInv, ReturnInv, [Next]_vars
  PROVE  ReturnInv'
PROOF
<1>1. Passed' /\ DBUnpruned'
  BY PassedNext, UnprunedNext DEF ReturnInv
<1> SUFFICES cacheCoins' = Empty /\ Returned'
  BY <1>1 DEF ReturnInv, Empty
<1>2. ASSUME NEW cache, WriteChainState(cache) PROVE cacheCoins' = Empty
  BY <1>2 DEF WriteChainState, NoneRefused
<1>3. ASSUME UNCHANGED cacheCoins, pc' # "resurrect" PROVE cacheCoins' = Empty /\ Returned'
  BY <1>3 DEF ReturnInv, Returned
<1>4. CASE FinishConnect
  BY <1>2, <1>4 DEF FinishConnect, Returned
<1>5. CASE FinishDisconnect
  <2>1. n' = 1 /\ cacheCoins' = Empty
    BY <1>2, <1>5 DEF FinishDisconnect
  <2>2. \A k \in 1..Len(Vtx[blk']) : ~(k < n' /\ k > 1)
    BY <2>1
  <2> QED BY <2>1, <2>2 DEF Returned
<1>6. CASE Resurrect
  <2>1. UNCHANGED cacheCoins
    BY <1>6 DEF Resurrect, coinVars
  <2> QED BY <2>1, <1>6, ResurrectReturned DEF ReturnInv
<1>7. CASE UNCHANGED vars
  <2>1. UNCHANGED <<pc, blk, n, mapTx, cacheCoins>>
    BY <1>7 DEF vars, poolVars, callVars, coinVars
  <2> QED BY <2>1 DEF ReturnInv, Returned
<1>8. CASE (\E b \in Blocks \ {Genesis} : AcceptBlock(b)) \/ (\E tx \in Txs : AcceptToMemoryPool(tx))
  BY <1>3, <1>8 DEF AcceptBlock, AcceptToMemoryPool, Settled, coinVars, callVars
<1>9. CASE BeginConnect \/ ConnectTx \/ EndConnectBlock
  BY <1>3, <1>9 DEF BeginConnect, ConnectTx, EndConnectBlock, ConnectFails, coinVars
<1>10. CASE RemoveConflicts \/ ConnectDone \/ BeginDisconnect \/ DisconnectTx \/ DisconnectDone
  BY <1>3, <1>10 DEF RemoveConflicts, ConnectDone, BeginDisconnect, DisconnectTx, DisconnectDone, coinVars
<1> QED BY <1>4, <1>5, <1>6, <1>7, <1>8, <1>9, <1>10 DEF Next

\* So do those of the wallet.
LEMMA ReturnWalletNext ==
  ASSUME NoCoinBaseAgain, NoneRefused, CoinsInv, PoolTypes, PoolInv, ReturnInv, [WalletNext]_allVars
  PROVE  ReturnInv'
PROOF
<1>1. ASSUME NodeStep \/ Watched \/ NoteConflicts \/ Connected \/ Disconnected PROVE ReturnInv'
  <2>1. Next
    BY <1>1 DEF NodeStep, Watched, NoteConflicts, Connected, Disconnected, Next
  <2> QED BY <2>1, ReturnNext
<1>2. ASSUME NEW tx \in Txs, PoolStep(tx) PROVE ReturnInv'
  <2>1. Next
    BY <1>2 DEF PoolStep, Next
  <2> QED BY <2>1, ReturnNext
<1>3. ASSUME SyncWithWallets \/ (\E t \in Txs : GetAvailableCredit(t) \/ CreateTransaction(t)) \/ UNCHANGED allVars
      PROVE  ReturnInv'
  <2>1. UNCHANGED vars
    BY <1>3 DEF SyncWithWallets, GetAvailableCredit, CreateTransaction, allVars
  <2> QED BY <2>1, ReturnNext
<1>4. ASSUME UNCHANGED <<undo, coinsDB, cacheCoins>>, pc' \notin {"connect", "resurrect"} PROVE ReturnInv'
  BY <1>4 DEF ReturnInv, Passed, DBUnpruned, Returned, Empty, IsPruned
<1>5. ASSUME NEW t \in Txs, CommitTransaction(t) PROVE ReturnInv'
  BY <1>4, <1>5 DEF CommitTransaction, Free, Settled, coinVars, callVars
<1>6. ASSUME Kill \/ Restart \/ ScanBlock \/ ScanDone PROVE ReturnInv'
  BY <1>4, <1>6 DEF Kill, Restart, ScanBlock, ScanDone, coinVars
<1>7. ASSUME ReacceptWalletTransactions \/ ReacceptTx \/ ReacceptDone PROVE ReturnInv'
  BY <1>4, <1>7 DEF ReacceptWalletTransactions, ReacceptTx, ReacceptDone, Free, Settled, coinVars
<1> QED BY <1>1, <1>2, <1>3, <1>5, <1>6, <1>7 DEF WalletNext

LEMMA CleanFacts ==
  ASSUME NEW ts, credit' = Clean(ts)
  PROVE  /\ DOMAIN credit' \subseteq DOMAIN credit /\ ts \cap DOMAIN credit' = {}
         /\ \A t \in DOMAIN credit' : credit'[t] = credit[t]
PROOF
<1>1. credit' = [t \in DOMAIN credit \ ts |-> credit[t]]
  BY DEF Clean
<1> QED BY <1>1

LEMMA OwnConcerns ==
  ASSUME NEW t \in Own
  PROVE  t \in Txs /\ Concerns(t)
PROOF
<1>1. t \in Txs \ CoinBases /\ ToSet(Vin[t]) \subseteq Mine
  BY WalletAssumption
<1>2. Len(Vin[t]) \in Nat \ {0} /\ ToSet(Vin[t]) = {Vin[t][i] : i \in 1..Len(Vin[t])}
  BY <1>1, InputFacts
<1>3. Vin[t][1] \in ToSet(Vin[t])
  BY <1>2
<1> QED BY <1>1, <1>3 DEF Concerns

\* What is left to show of a step that computes no credit and makes no transaction.
LEMMA CreditFrame ==
  ASSUME CreditInv, CoinsInv, CoinsInv',
         known \subseteq known', \A b \in known' \ known : \A t \in ToSet(Vtx[b]) : Seen(t),
         DOMAIN mapWallet \subseteq DOMAIN mapWallet', DOMAIN credit' \subseteq DOMAIN credit,
         \A t \in DOMAIN credit' : credit'[t] = credit[t],
         pc' \in {"down", "rescan"} => pc \in {"down", "rescan"} \/ DOMAIN credit' = {},
         txConflicted' # {} => pc' = "conflicts", txConflicted' \cap mapTx' = {}, locator' \in known',
         \A i \in 1..Len(pending') : Seen(pending'[i].tx),
         created' \subseteq Own, created' \cap DOMAIN mapWallet' = {},
         \A s : \/ s \in Telling'
                \/ MarkedDirty(s) \cap DOMAIN credit' = {}
                \/ (Counts(s)' <=> Counts(s)) /\ s \notin Telling \cap DOMAIN mapWallet
  PROVE  CreditInv'
PROOF
<1>1. CreditTypes /\ OwnInv /\ CreditKept /\ tip \in Blocks /\ tip' \in Blocks
  BY DEF CreditInv, CoinsInv, Types
<1>2. CreditKept'
  BY <1>1, CreditStep
<1>3. CreditTypes'
  <2>1. DOMAIN credit' \subseteq DOMAIN mapWallet' /\ \A t \in DOMAIN credit' : credit'[t] \in Nat
    BY <1>1 DEF CreditTypes
  <2>2. pc' \in {"down", "rescan"} => DOMAIN credit' = {}
    BY <1>1 DEF CreditTypes
  <2> QED BY <2>1, <2>2 DEF CreditTypes
<1>4. OwnInv'
  <2>2. \A b \in known' : \A t \in ToSet(Vtx[b]) : t \in Own => t \in DOMAIN mapWallet'
    BY <1>1 DEF OwnInv, Seen
  <2>3. \A i \in 1..Len(pending') : pending'[i].tx \in Own => pending'[i].tx \in DOMAIN mapWallet'
    BY DEF Seen
  <2>4. created' \subseteq Own \ DOMAIN mapWallet'
    BY <1>1 DEF OwnInv
  <2> QED BY <2>2, <2>3, <2>4 DEF OwnInv, Seen
<1> QED BY <1>2, <1>3, <1>4 DEF CreditInv

\* A step of the node that calls nothing of the wallet.
LEMMA NodeCredit ==
  ASSUME CoinsInv, CoinsInv', CreditInv, WalletInv, NodeStep
  PROVE  CreditInv'
PROOF
<1>1. CreditTypes /\ OwnInv
  BY DEF CreditInv
<1>2. pending = <<>> /\ UNCHANGED <<mapWallet, credit, locator, created, txConflicted, pending>>
  BY DEF NodeStep, CallDone, walletVars
<1>3. /\ UNCHANGED <<tip, mapTx>> /\ pc \notin {"down", "rescan", "conflicts"}
      /\ pc' \notin {"down", "rescan"} /\ known \subseteq known'
      /\ \A b \in known' \ known : \A t \in ToSet(Vtx[b]) : Seen(t)
  <2>1. CASE \E b \in Blocks \ {Genesis} : Published(ToSet(Vtx[b])) /\ AcceptBlock(b)
    BY <2>1 DEF AcceptBlock, Published, Seen, Settled, callVars, poolVars
  <2>2. CASE BeginConnect
    BY <2>2 DEF BeginConnect, ConnectFails, chainVars, poolVars
  <2>3. CASE ConnectTx
    BY <2>3 DEF ConnectTx, ConnectFails, chainVars, poolVars
  <2>4. CASE FinishConnect
    BY <2>4 DEF FinishConnect, chainVars, poolVars
  <2>5. CASE BeginDisconnect \/ DisconnectTx \/ FinishDisconnect
    BY <2>5 DEF BeginDisconnect, DisconnectTx, FinishDisconnect, chainVars, poolVars
  <2> QED BY <2>1, <2>2, <2>3, <2>4, <2>5 DEF NodeStep
<1>4. txConflicted = {} /\ Len(pending) = 0 /\ 1..Len(pending) = {}
  BY <1>1, <1>2, <1>3 DEF CreditTypes
<1>5. Telling = {}
  BY <1>3, <1>4 DEF Telling
<1>6. \A s : Counts(s)' <=> Counts(s)
  BY <1>2, <1>3 DEF Counts, InMainChain
<1> QED BY <1>1, <1>2, <1>3, <1>4, <1>5, <1>6, CreditFrame DEF CreditTypes, OwnInv

\* The end of ConnectBlock, whose calls tell of the block.
LEMMA WatchedCredit ==
  ASSUME CoinsInv, CoinsInv', CreditInv, WalletInv, Watched
  PROVE  CreditInv'
PROOF
<1>1. CreditTypes /\ OwnInv /\ Types /\ Connecting
  BY DEF CreditInv, CoinsInv, Loops
<1>2. /\ pending = <<>> /\ pc = "connect" /\ pc' \in {"idle", "connected"}
      /\ pending' = IF pc' = "connected" THEN Calls(Vtx[blk], blk) ELSE <<>>
      /\ UNCHANGED <<mapWallet, credit, locator, created, txConflicted, known, tip, mapTx>>
  BY DEF Watched, CallDone, EndConnectBlock, ConnectFails, chainVars, poolVars
<1>3. txConflicted = {} /\ Len(pending) = 0 /\ 1..Len(pending) = {}
  BY <1>1, <1>2 DEF CreditTypes
<1>4. Telling = {}
  BY <1>2, <1>3 DEF Telling
<1>5. \A s : Counts(s)' <=> Counts(s)
  BY <1>2 DEF Counts, InMainChain
<1>6. blk \in known /\ blk \in Blocks \ {Genesis}
  BY <1>1, <1>2 DEF Connecting, Types
<1>7. Vtx[blk] \in Seq(Txs) /\ ToSet(Vtx[blk]) = {Vtx[blk][i] : i \in 1..Len(Vtx[blk])}
  BY <1>6, DataAssumption, VtxSet
<1>8. \A i \in 1..Len(pending') : Seen(pending'[i].tx)
  <2>1. CASE pc' = "connected"
    <3>1. Len(pending') = Len(Vtx[blk]) /\ \A i \in 1..Len(Vtx[blk]) : pending'[i].tx = Vtx[blk][i]
      BY <2>1, <1>2, <1>6, <1>7, CallFacts
    <3>2. \A i \in 1..Len(Vtx[blk]) : Vtx[blk][i] \in ToSet(Vtx[blk])
      BY <1>7
    <3> QED BY <3>1, <3>2, <1>1, <1>6 DEF OwnInv
  <2>2. CASE pc' # "connected"
    <3>1. Len(pending') = 0 /\ 1..0 = {}
      BY <2>2, <1>2
    <3> QED BY <3>1
  <2> QED BY <2>1, <2>2
<1> QED BY <1>1, <1>2, <1>3, <1>4, <1>5, <1>8, CreditFrame DEF CreditTypes, OwnInv

\* SyncTransaction at once, for a transaction the pool accepts.
LEMMA AcceptedCredit ==
  ASSUME CoinsInv, CoinsInv', CreditInv, WalletInv, NEW tx, Seen(tx),
         SyncTransaction(tx, NoBlock), mapTx' = mapTx \cup {tx}, pending = <<>>,
         UNCHANGED <<tip, known, pc, locator, created, txConflicted, pending>>, pc \notin {"conflicts", "down", "rescan"}
  PROVE  CreditInv'
PROOF
<1>1. CreditTypes /\ OwnInv
  BY DEF CreditInv
<1>2. txConflicted = {} /\ Len(pending) = 0 /\ 1..Len(pending) = {}
  BY <1>1 DEF CreditTypes
<1>3. Telling = {}
  BY <1>2 DEF Telling
<1> DEFINE w == AddToWalletIfInvolvingMe(mapWallet, tx, NoBlock)
<1>4. mapWallet' = w
  BY DEF SyncTransaction
<1>5. /\ DOMAIN mapWallet \subseteq DOMAIN w /\ DOMAIN w \subseteq DOMAIN mapWallet \cup {tx}
      /\ \A s \in DOMAIN mapWallet : w[s] = mapWallet[s]
  <2>1. /\ DOMAIN mapWallet \subseteq DOMAIN w /\ DOMAIN w \subseteq DOMAIN mapWallet \cup {tx}
        /\ \A s \in DOMAIN mapWallet : s # tx => w[s] = mapWallet[s]
        /\ tx \in DOMAIN mapWallet => w[tx] = IF NoBlock = NoBlock THEN mapWallet[tx] ELSE NoBlock
    BY AddedFacts
  <2> HIDE DEF w
  <2> QED BY <2>1
<1>6. ~InvolvingMe(mapWallet, tx) => w = mapWallet /\ tx \notin DOMAIN mapWallet
  BY DEF AddToWalletIfInvolvingMe, InvolvingMe
<1> HIDE DEF w
<1>7. created \cap DOMAIN w = {}
  BY <1>1, <1>5 DEF OwnInv, Seen
<1>8. /\ DOMAIN credit' \subseteq DOMAIN credit
      /\ \A t \in DOMAIN credit' : credit'[t] = credit[t]
      /\ InvolvingMe(mapWallet, tx) => MarkedDirty(tx) \cap DOMAIN credit' = {}
  <2>1. CASE InvolvingMe(mapWallet, tx)
    <3>1. credit' = Clean(MarkedDirty(tx))
      BY <2>1 DEF SyncTransaction
    <3> QED BY <3>1, CleanFacts
  <2>2. CASE ~InvolvingMe(mapWallet, tx)
    BY <2>2 DEF SyncTransaction
  <2> QED BY <2>1, <2>2
<1>9. \A s : s # tx => (Counts(s)' <=> Counts(s))
  BY <1>4, <1>5 DEF Counts, InMainChain
<1>10. ~InvolvingMe(mapWallet, tx) => (Counts(tx)' <=> Counts(tx))
  BY <1>4, <1>6 DEF Counts
<1>11. \A s : \/ MarkedDirty(s) \cap DOMAIN credit' = {}
              \/ (Counts(s)' <=> Counts(s)) /\ s \notin Telling \cap DOMAIN mapWallet
  BY <1>3, <1>8, <1>9, <1>10
<1> QED BY <1>1, <1>2, <1>4, <1>5, <1>7, <1>8, <1>11, CreditFrame DEF CreditTypes, OwnInv

\* A step that changes nothing the credits depend on.
LEMMA QuietCredit ==
  ASSUME CoinsInv, CoinsInv', CreditInv,
         UNCHANGED <<known, tip, mapTx, mapWallet, credit, locator, txConflicted, pending>>,
         Telling' = Telling, pc' = "conflicts" <=> pc = "conflicts",
         pc' \in {"down", "rescan"} => pc \in {"down", "rescan"},
         created' \subseteq Own \ DOMAIN mapWallet
  PROVE  CreditInv'
PROOF
<1>1. CreditTypes /\ OwnInv
  BY DEF CreditInv
<1>2. \A s : Counts(s)' <=> Counts(s)
  BY DEF Counts, InMainChain
<1>3. \A i \in 1..Len(pending') : Seen(pending'[i].tx)
  BY <1>1 DEF OwnInv
<1>4. created' \subseteq Own /\ created' \cap DOMAIN mapWallet' = {}
  OBVIOUS
<1> QED BY <1>1, <1>2, <1>3, <1>4, CreditFrame DEF CreditTypes

\* A step of the pool.
LEMMA PoolCredit ==
  ASSUME NoCoinBaseAgain, NoneRefused, CoinsInv, CoinsInv', PoolTypes, PoolInv, WalletInv, ReturnInv,
         CreditInv, NEW tx \in Txs, PoolStep(tx)
  PROVE  CreditInv'
PROOF
<1>1. CreditTypes /\ OwnInv /\ Types /\ History
  BY DEF CreditInv, CoinsInv
<1>2. /\ pending = <<>> /\ UNCHANGED <<locator, created, txConflicted, pending>>
      /\ tx \in mapTx' \ mapTx => SyncTransaction(tx, NoBlock)
      /\ tx \notin mapTx' \ mapTx => UNCHANGED <<mapWallet, credit>>
  BY DEF PoolStep, CallDone
<1>3. /\ UNCHANGED <<known, tip, pc>> /\ pc \in {"idle", "resurrect"} /\ Seen(tx)
      /\ mapTx' = mapTx \/ mapTx' = mapTx \cup {tx}
  <2>1. CASE Published({tx}) /\ AcceptToMemoryPool(tx)
    BY <2>1 DEF AcceptToMemoryPool, Settled, Published, Seen, addUnchecked, poolVars, chainVars, callVars
  <2>2. CASE pc = "resurrect" /\ n <= Len(Vtx[blk]) /\ tx = Vtx[blk][n] /\ Resurrect
    <3>1. UNCHANGED <<known, tip, pc>>
      BY <2>2 DEF Resurrect, chainVars
    <3>2. mapTx' = mapTx \/ mapTx' = mapTx \cup {tx}
      BY <2>2, ResurrectTakes DEF addUnchecked, poolVars
    <3>3. blk \in known /\ blk \in Blocks \ {Genesis} /\ n \in Nat /\ n # 0
      BY <1>1, <2>2 DEF PoolInv, PoolLoop, History, HistoryOf, Types
    <3>4. tx \in ToSet(Vtx[blk])
      <4>1. Len(Vtx[blk]) \in Nat
        BY <3>3, BlockFacts
      <4>2. n \in 1..Len(Vtx[blk])
        BY <2>2, <3>3, <4>1
      <4> QED BY <2>2, <3>3, <4>2, VtxSet
    <3> QED BY <1>1, <2>2, <3>1, <3>2, <3>3, <3>4 DEF OwnInv
  <2> QED BY <2>1, <2>2 DEF PoolStep
<1>4. CASE tx \in mapTx' \ mapTx
  BY <1>2, <1>3, <1>4, AcceptedCredit
<1>5. CASE tx \notin mapTx' \ mapTx
  <2>1. UNCHANGED <<mapTx, mapWallet, credit>>
    BY <1>2, <1>3, <1>5
  <2>2. Telling' = Telling
    BY <1>2, <1>3 DEF Telling
  <2>3. created' \subseteq Own \ DOMAIN mapWallet
    BY <1>1, <1>2 DEF OwnInv
  <2> QED BY <1>2, <1>3, <2>1, <2>2, <2>3, QuietCredit
<1> QED BY <1>4, <1>5

\* RemoveConflicts: what leaves the pool will be told, or is in the block.
LEMMA ConflictsCredit ==
  ASSUME CoinsInv, CoinsInv', PoolInv, CreditInv, NoteConflicts
  PROVE  CreditInv'
PROOF
<1>1. CreditTypes /\ OwnInv /\ Types /\ History
  BY DEF CreditInv, CoinsInv
<1>2. /\ pc = "conflicts" /\ n <= Len(Vtx[blk]) /\ pending = <<>>
      /\ UNCHANGED <<known, tip, pc, blk, mapWallet, credit, locator, created, pending>>
      /\ mapTx' \subseteq mapTx /\ txConflicted' = txConflicted \cup (mapTx \ (mapTx' \cup {Vtx[blk][n]}))
  BY DEF NoteConflicts, CallDone, RemoveConflicts, RemoveForBlock, RemoveFromPool, chainVars
<1>3. Vtx[blk][n] \in ToSet(Vtx[blk])
  <2>1. blk \in Blocks \ {Genesis} /\ n \in Nat /\ n # 0
    BY <1>1, <1>2 DEF PoolInv, PoolLoop, History, HistoryOf, Types
  <2>2. Len(Vtx[blk]) \in Nat
    BY <2>1, BlockFacts
  <2>3. n \in 1..Len(Vtx[blk])
    BY <1>2, <2>1, <2>2
  <2> QED BY <2>1, <2>3, VtxSet
<1>4. Telling \subseteq Telling' /\ mapTx \ mapTx' \subseteq Telling'
  BY <1>2, <1>3 DEF Telling
<1>5. \A s : s \notin mapTx \ mapTx' => (Counts(s)' <=> Counts(s))
  BY <1>2 DEF Counts, InMainChain
<1>6. txConflicted' \cap mapTx' = {}
  BY <1>1, <1>2 DEF CreditTypes
<1>7. \A i \in 1..Len(pending') : Seen(pending'[i].tx)
  BY <1>1, <1>2 DEF OwnInv
<1>8. created' \subseteq Own /\ created' \cap DOMAIN mapWallet' = {}
  BY <1>1, <1>2 DEF OwnInv
<1> QED BY <1>1, <1>2, <1>4, <1>5, <1>6, <1>7, <1>8, CreditFrame DEF CreditTypes

\* A call of SyncWithWallets.
LEMMA SyncCredit ==
  ASSUME CoinsInv, CoinsInv', WalletInv, CreditInv, SyncWithWallets
  PROVE  CreditInv'
PROOF
<1> DEFINE t == Head(pending).tx
           b == Head(pending).block
           w == mapWallet'
<1>1. CreditTypes /\ OwnInv /\ WalletTypes
  BY DEF CreditInv, WalletInv
<1>2. /\ pending # <<>> /\ pending \in Seq(WalletCall) /\ pending' = Tail(pending)
      /\ w = AddToWalletIfInvolvingMe(mapWallet, t, b)
      /\ credit' = IF InvolvingMe(mapWallet, t) THEN Clean(MarkedDirty(t)) ELSE credit
      /\ UNCHANGED <<locator, created, txConflicted, known, pc, tip, blk, mapTx>>
  BY <1>1 DEF SyncWithWallets, CallDone, SyncTransaction, WalletTypes, vars, chainVars, callVars, poolVars
<1>3. /\ Len(pending) \in Nat \ {0} /\ t = pending[1].tx /\ 1 \in 1..Len(pending)
      /\ pending' \in Seq(WalletCall) /\ Len(pending') = Len(pending) - 1
      /\ \A i \in 1..Len(pending') : pending'[i] = pending[i + 1] /\ i + 1 \in 1..Len(pending)
  BY <1>2
<1>4. Seen(t)
  BY <1>1, <1>3 DEF OwnInv
<1> HIDE DEF t, b, w
<1>5. /\ DOMAIN mapWallet \subseteq DOMAIN w /\ DOMAIN w \subseteq DOMAIN mapWallet \cup {t}
      /\ \A s \in DOMAIN mapWallet : s # t => w[s] = mapWallet[s]
  BY <1>2, AddedFacts
<1>6. ~InvolvingMe(mapWallet, t) => w = mapWallet /\ t \notin DOMAIN mapWallet
  BY <1>2 DEF AddToWalletIfInvolvingMe, InvolvingMe
<1>7. /\ DOMAIN credit' \subseteq DOMAIN credit /\ \A s \in DOMAIN credit' : credit'[s] = credit[s]
      /\ InvolvingMe(mapWallet, t) => MarkedDirty(t) \cap DOMAIN credit' = {}
  <2>1. CASE InvolvingMe(mapWallet, t)
    <3>1. credit' = Clean(MarkedDirty(t))
      BY <1>2, <2>1
    <3> QED BY <3>1, CleanFacts
  <2>2. CASE ~InvolvingMe(mapWallet, t)
    BY <1>2, <2>2
  <2> QED BY <2>1, <2>2
<1>8. \A s : s # t => (Counts(s)' <=> Counts(s))
  BY <1>2, <1>5 DEF Counts, InMainChain, w
<1>9. \A s : s = t /\ ~InvolvingMe(mapWallet, t) => (Counts(s)' <=> Counts(s))
  BY <1>2, <1>6 DEF Counts, w
<1>10. \A s \in Telling : s # t => s \in Telling'
  <2>1. ASSUME NEW i \in 1..Len(pending), pending[i].tx # t
        PROVE  \E j \in 1..Len(pending') : pending'[j].tx = pending[i].tx
    <3>1. i # 1
      BY <1>3, <2>1
    <3>2. i - 1 \in 1..Len(pending') /\ (i - 1) + 1 = i
      BY <1>3, <3>1
    <3>3. pending'[i - 1] = pending[i]
      BY <1>3, <3>2
    <3> QED BY <3>2, <3>3
  <2> SUFFICES ASSUME NEW s \in Telling, s # t PROVE s \in Telling'
    OBVIOUS
  <2>2. CASE \E i \in 1..Len(pending) : s = pending[i].tx
    <3>1. \E j \in 1..Len(pending') : pending'[j].tx = s
      BY <2>1, <2>2
    <3> QED BY <3>1 DEF Telling
  <2>3. CASE s \in txConflicted \cup (IF pc = "conflicts" THEN ToSet(Vtx[blk]) ELSE {})
    BY <2>3, <1>2 DEF Telling
  <2> QED BY <2>2, <2>3 DEF Telling
<1>11. \A s : \/ s \in Telling'
              \/ MarkedDirty(s) \cap DOMAIN credit' = {}
              \/ (Counts(s)' <=> Counts(s)) /\ s \notin Telling \cap DOMAIN mapWallet
  <2> TAKE s
  <2>1. CASE s # t
    BY <2>1, <1>8, <1>10
  <2>2. CASE s = t /\ InvolvingMe(mapWallet, t)
    BY <2>2, <1>7
  <2>3. CASE s = t /\ ~InvolvingMe(mapWallet, t)
    BY <2>3, <1>6, <1>9
  <2> QED BY <2>1, <2>2, <2>3
<1>12. \A i \in 1..Len(pending') : Seen(pending'[i].tx)
  BY <1>1, <1>3 DEF OwnInv
<1>13. created' \subseteq Own /\ created' \cap DOMAIN mapWallet' = {}
  BY <1>1, <1>2, <1>4, <1>5 DEF OwnInv, Seen, w
<1>14. /\ DOMAIN mapWallet \subseteq DOMAIN mapWallet' /\ locator' \in known' /\ txConflicted' \cap mapTx' = {}
       /\ txConflicted' # {} => pc' = "conflicts"
  BY <1>1, <1>2, <1>5 DEF CreditTypes, w
<1>15. known' = known /\ pc' = pc
  BY <1>2
<1> QED BY <1>7, <1>11, <1>12, <1>13, <1>14, <1>15, CreditFrame


\* UpdateTip: what counts from now on is in the block, and all of it will be told.
LEMMA ConnectedCredit ==
  ASSUME CoinsInv, CoinsInv', PoolInv, WalletInv, CreditInv, Connected
  PROVE  CreditInv'
PROOF
<1>1. CreditTypes /\ OwnInv /\ Recorded /\ PoolHeard /\ Types /\ History /\ Stages
  BY DEF CreditInv, CoinsInv, WalletInv
<1>2. /\ pending = <<>> /\ pc = "conflicts" /\ pc' = "idle" /\ tip' = blk /\ txConflicted' = {}
      /\ UNCHANGED <<mapWallet, mapTx, credit, created, known>>
      /\ locator' = IF Height[blk] \in LocatorHeights THEN blk ELSE locator
  BY DEF Connected, ConnectDone, CallDone, SetBestChain, poolVars
<1>3. blk \in known /\ blk \in Blocks \ {Genesis} /\ Prev[blk] = tip
  BY <1>1, <1>2 DEF PoolInv, PoolLoop, Stages, History, HistoryOf
<1>4. PICK a \in Nat : CallsMade(a)
  BY ConnectedCalls
<1> DEFINE m == Len(Vtx[blk])
<1>5. m \in Nat /\ \A k \in 1..m : Vtx[blk][k] \in ToSet(Vtx[blk])
  <2>1. m \in Nat
    BY <1>3, BlockFacts
  <2>2. ToSet(Vtx[blk]) = {Vtx[blk][i] : i \in 1..Len(Vtx[blk])}
    BY <1>3, VtxSet
  <2> QED BY <2>1, <2>2
<1>6. \A i \in 1..Len(pending') : pending'[i].tx \in txConflicted \/ pending'[i].tx \in ToSet(Vtx[blk])
  BY <1>4, <1>5 DEF CallsMade
<1>7. \A s \in txConflicted \cup ToSet(Vtx[blk]) : s \in Telling'
  <2>1. ASSUME NEW s \in ToSet(Vtx[blk]) PROVE \E i \in 1..Len(pending') : pending'[i].tx = s
    <3>1. PICK k \in 1..m : s = Vtx[blk][k]
      BY <1>3, VtxSet
    <3> QED BY <3>1, <1>4 DEF CallsMade
  <2>2. \A s \in txConflicted : \E i \in 1..Len(pending') : pending'[i].tx = s
    BY <1>4 DEF CallsMade
  <2>3. \A s \in txConflicted \cup ToSet(Vtx[blk]) : \E i \in 1..Len(pending') : pending'[i].tx = s
    BY <2>1, <2>2
  <2> QED BY <2>3 DEF Telling
<1>8. Telling \subseteq txConflicted \cup ToSet(Vtx[blk])
  <2>1. 1..Len(pending) = {}
    <3>1. Len(pending) = 0
      BY <1>2
    <3> QED BY <3>1
  <2> QED BY <1>2, <2>1 DEF Telling
<1>9. ASSUME NEW s, s \notin ToSet(Vtx[blk]) PROVE Counts(s)' <=> Counts(s)
  <2>1. Chain[blk] = {blk} \cup Chain[tip]
    BY <1>3, ChainFacts
  <2>2. s \in DOMAIN mapWallet /\ mapWallet[s] # NoBlock => mapWallet[s] # blk
    BY <1>1, <1>9 DEF Recorded
  <2> QED BY <1>2, <2>1, <2>2 DEF Counts, InMainChain
<1>10. \A i \in 1..Len(pending') : Seen(pending'[i].tx)
  <2>1. \A s \in txConflicted : Seen(s)
    BY <1>1, OwnConcerns DEF PoolHeard, Seen
  <2>2. \A s \in ToSet(Vtx[blk]) : Seen(s)
    BY <1>1, <1>3 DEF OwnInv
  <2> QED BY <1>6, <2>1, <2>2
<1>11. created' \subseteq Own /\ created' \cap DOMAIN mapWallet' = {}
  BY <1>1, <1>2 DEF OwnInv
<1>12. locator' \in known' /\ txConflicted' \cap mapTx' = {}
  BY <1>1, <1>2, <1>3 DEF CreditTypes
<1>13. \A s : s \in Telling' \/ ((Counts(s)' <=> Counts(s)) /\ s \notin Telling \cap DOMAIN mapWallet)
  BY <1>7, <1>8, <1>9
<1> QED BY <1>2, <1>10, <1>11, <1>12, <1>13, CreditFrame

\* UpdateTip back: what counted because of the block will be told.
LEMMA DisconnectedCredit ==
  ASSUME CoinsInv, CoinsInv', PoolInv, WalletInv, CreditInv, Disconnected
  PROVE  CreditInv'
PROOF
<1>1. CreditTypes /\ OwnInv /\ Recorded /\ Types /\ History /\ Stages
  BY DEF CreditInv, CoinsInv, WalletInv
<1>2. /\ pending = <<>> /\ pc = "resurrect" /\ pc' = "idle" /\ tip' = Prev[blk]
      /\ pending' = Calls(Vtx[blk], NoBlock)
      /\ UNCHANGED <<mapWallet, mapTx, credit, created, known, txConflicted>>
      /\ locator' = IF Height[Prev[blk]] \in LocatorHeights THEN Prev[blk] ELSE locator
  BY DEF Disconnected, DisconnectDone, CallDone, SetBestChain, poolVars
<1>3. blk \in Blocks \ {Genesis} /\ blk = tip /\ Prev[blk] \in known /\ blk \in known
  <2>1. blk \in DOMAIN undo /\ blk = tip
    BY <1>1, <1>2 DEF PoolInv, PoolLoop, Stages
  <2>2. PrevClosed(known)
    BY <1>1, TipFacts
  <2> QED BY <2>1, <2>2, <1>1 DEF History, HistoryOf, PrevClosed
<1>4. Vtx[blk] \in Seq(Txs) /\ Len(Vtx[blk]) \in Nat
  BY <1>3, DataAssumption
<1>5. /\ Len(pending') = Len(Vtx[blk])
      /\ \A i \in 1..Len(Vtx[blk]) : pending'[i].tx = Vtx[blk][i]
  BY <1>2, <1>4, CallFacts
<1>6. \A s \in ToSet(Vtx[blk]) : s \in Telling'
  <2>1. \A s \in ToSet(Vtx[blk]) : \E i \in 1..Len(pending') : pending'[i].tx = s
    <3> SUFFICES ASSUME NEW s \in ToSet(Vtx[blk]) PROVE \E i \in 1..Len(pending') : pending'[i].tx = s
      OBVIOUS
    <3>1. ToSet(Vtx[blk]) = {Vtx[blk][i] : i \in 1..Len(Vtx[blk])}
      BY <1>3, VtxSet
    <3>2. PICK k \in 1..Len(Vtx[blk]) : s = Vtx[blk][k]
      BY <3>1
    <3> QED BY <3>2, <1>5
  <2> QED BY <2>1 DEF Telling
<1>7. txConflicted = {} /\ Telling = {}
  <2>1. 1..Len(pending) = {}
    <3>1. Len(pending) = 0
      BY <1>2
    <3> QED BY <3>1
  <2>2. txConflicted = {}
    BY <1>1, <1>2 DEF CreditTypes
  <2> QED BY <1>2, <2>1, <2>2 DEF Telling
<1>8. ASSUME NEW s, s \notin ToSet(Vtx[blk]) PROVE Counts(s)' <=> Counts(s)
  <2>1. Chain[tip] = {tip} \cup Chain[Prev[tip]]
    BY <1>3, ChainFacts
  <2>2. s \in DOMAIN mapWallet /\ mapWallet[s] # NoBlock => mapWallet[s] # tip
    BY <1>1, <1>3, <1>8 DEF Recorded
  <2> QED BY <1>2, <1>3, <2>1, <2>2 DEF Counts, InMainChain
<1>9. \A i \in 1..Len(pending') : Seen(pending'[i].tx)
  <2>1. \A s \in ToSet(Vtx[blk]) : Seen(s)
    BY <1>1, <1>3 DEF OwnInv
  <2>2. \A i \in 1..Len(Vtx[blk]) : Vtx[blk][i] \in ToSet(Vtx[blk])
    BY <1>3, VtxSet
  <2> QED BY <1>5, <2>1, <2>2
<1>10. created' \subseteq Own /\ created' \cap DOMAIN mapWallet' = {}
  BY <1>1, <1>2 DEF OwnInv
<1>11. locator' \in known' /\ txConflicted' = {}
  BY <1>1, <1>2, <1>3, <1>7 DEF CreditTypes
<1>12. \A s : s \in Telling' \/ ((Counts(s)' <=> Counts(s)) /\ s \notin Telling \cap DOMAIN mapWallet)
  BY <1>6, <1>7, <1>8
<1> QED BY <1>2, <1>9, <1>10, <1>11, <1>12, CreditFrame

\* GetAvailableCredit caches what it computes.
LEMMA CachedCredit ==
  ASSUME CoinsInv, CoinsInv', WalletInv, CreditInv, NEW t \in Txs, GetAvailableCredit(t)
  PROVE  CreditInv'
PROOF
<1>1. CreditTypes /\ OwnInv /\ CreditKept /\ tip \in Blocks /\ tip' \in Blocks
  BY DEF CreditInv, CoinsInv, Types
<1>2. /\ UNCHANGED <<mapWallet, locator, created, txConflicted, pending, known, tip, mapTx, pc, blk>>
      /\ pc = "idle" /\ t \in DOMAIN mapWallet \ DOMAIN credit
      /\ credit' = [s \in DOMAIN credit \cup {t} |-> IF s = t THEN AvailableCredit(t) ELSE credit[s]]
  BY DEF GetAvailableCredit, Free, Settled, vars, chainVars, poolVars, callVars
<1>3. /\ DOMAIN credit' = DOMAIN credit \cup {t} /\ credit'[t] = AvailableCredit(t)
      /\ \A s \in DOMAIN credit : credit'[s] = credit[s]
  BY <1>2
<1>4. OwnInv'
  BY <1>1, <1>2 DEF OwnInv, Seen
<1>5. CreditTypes'
  <2>1. AvailableCredit(t) \in Nat
    BY CreditFacts
  <2>2. \A s \in DOMAIN credit' : credit'[s] \in Nat
    BY <1>1, <1>3, <2>1 DEF CreditTypes
  <2>3. DOMAIN credit' \subseteq DOMAIN mapWallet' /\ pc' = "idle"
    BY <1>1, <1>2, <1>3 DEF CreditTypes
  <2> QED BY <1>1, <1>2, <2>2, <2>3 DEF CreditTypes
<1>6. \A s : Counts(s)' <=> Counts(s)
  BY <1>2 DEF Counts, InMainChain
<1>7. \A s : AvailableCredit(s)' = AvailableCredit(s)
  BY <1>1, <1>6, SameCredit
<1>8. Telling' = Telling
  BY <1>2 DEF Telling
<1>9. CreditKept'
  <2> SUFFICES ASSUME NEW s \in DOMAIN credit'
               PROVE  \/ credit'[s] = AvailableCredit(s)'
                      \/ \E r \in Telling' \cap DOMAIN mapWallet' : s \in MarkedDirty(r)
    BY DEF CreditKept, MarkedDirty
  <2>1. CASE s = t
    BY <1>3, <1>7, <2>1
  <2>2. CASE s # t
    <3>1. s \in DOMAIN credit /\ credit'[s] = credit[s]
      BY <1>3, <2>2
    <3>2. credit[s] = AvailableCredit(s) \/ \E r \in Telling \cap DOMAIN mapWallet : s \in MarkedDirty(r)
      BY <1>1, <3>1 DEF CreditKept
    <3>3. CASE credit[s] = AvailableCredit(s)
      BY <1>7, <3>1, <3>3
    <3>4. CASE \E r \in Telling \cap DOMAIN mapWallet : s \in MarkedDirty(r)
      BY <1>2, <1>8, <3>4
    <3> QED BY <3>2, <3>3, <3>4
  <2> QED BY <2>1, <2>2
<1> QED BY <1>4, <1>5, <1>9 DEF CreditInv

\* CommitTransaction marks dirty what the transaction spends.
LEMMA CommitCredit ==
  ASSUME CoinsInv, CoinsInv', WalletInv, CreditInv, NEW t \in Txs, CommitTransaction(t)
  PROVE  CreditInv'
PROOF
<1>1. CreditTypes /\ OwnInv /\ PoolHeard
  BY DEF CreditInv, WalletInv
<1>2. /\ pc = "idle" /\ pending = <<>> /\ t \in created /\ created' = created \ {t}
      /\ mapWallet' = AddToWallet(mapWallet, t, NoBlock)
      /\ \/ mapTx' = mapTx \cup {t} /\ credit' = Clean(MarkedDirty(t))
         \/ mapTx' = mapTx /\ credit' = Clean({t})
      /\ UNCHANGED <<locator, txConflicted, pending, known, tip, pc>>
  BY DEF CommitTransaction, Free, Settled, CallDone, addUnchecked, chainVars, callVars, poolVars
<1>3. t \in Own /\ t \notin DOMAIN mapWallet
  BY <1>1, <1>2 DEF OwnInv
<1>4. t \notin mapTx
  BY <1>1, <1>3, OwnConcerns DEF PoolHeard
<1> DEFINE w == mapWallet'
<1>5. w = [s \in DOMAIN mapWallet \cup {t} |-> IF s = t THEN NoBlock ELSE mapWallet[s]]
  BY <1>2, <1>3 DEF AddToWallet
<1> HIDE DEF w
<1>6. DOMAIN w = DOMAIN mapWallet \cup {t} /\ w[t] = NoBlock /\ \A s \in DOMAIN mapWallet : w[s] = mapWallet[s]
  BY <1>3, <1>5
<1>7. txConflicted = {} /\ Telling = {}
  <2>1. 1..Len(pending) = {}
    <3>1. Len(pending) = 0
      BY <1>2
    <3> QED BY <3>1
  <2>2. txConflicted = {}
    BY <1>1, <1>2 DEF CreditTypes
  <2> QED BY <1>2, <2>1, <2>2 DEF Telling
<1>8. DOMAIN credit' \subseteq DOMAIN credit /\ \A s \in DOMAIN credit' : credit'[s] = credit[s]
  BY <1>2, CleanFacts
<1>9. \A s : s # t => (Counts(s)' <=> Counts(s))
  BY <1>2, <1>6 DEF Counts, InMainChain, w
<1>10. MarkedDirty(t) \cap DOMAIN credit' = {} \/ (Counts(t)' <=> Counts(t))
  <2>1. CASE mapTx' = mapTx \cup {t} /\ credit' = Clean(MarkedDirty(t))
    BY <2>1, CleanFacts
  <2>2. CASE mapTx' = mapTx
    <3>1. ~Counts(t)' /\ ~Counts(t)
      BY <1>3, <1>4, <1>6, <2>2 DEF Counts, InMainChain, w
    <3> QED BY <3>1
  <2> QED BY <1>2, <2>1, <2>2
<1>11. \A s : MarkedDirty(s) \cap DOMAIN credit' = {}
              \/ ((Counts(s)' <=> Counts(s)) /\ s \notin Telling \cap DOMAIN mapWallet)
  BY <1>7, <1>9, <1>10
<1>12. created' \subseteq Own /\ created' \cap DOMAIN mapWallet' = {}
  BY <1>1, <1>2, <1>6 DEF OwnInv, w
<1>13. \A i \in 1..Len(pending') : Seen(pending'[i].tx)
  BY <1>1, <1>2 DEF OwnInv
<1>14. DOMAIN mapWallet \subseteq DOMAIN mapWallet'
  BY <1>6 DEF w
<1>15. locator' \in known' /\ txConflicted' = {} /\ known' = known /\ pc' = "idle"
  BY <1>1, <1>2, <1>7 DEF CreditTypes
<1> QED BY <1>8, <1>11, <1>12, <1>13, <1>14, <1>15, CreditFrame

\* Before the wallet is loaded, and while its blocks are scanned, no credit is cached.
LEMMA NoneCached ==
  ASSUME CoinsInv, CoinsInv', CreditInv, DOMAIN credit' = {}, UNCHANGED <<known, mapWallet>>,
         locator' \in known, txConflicted' = {}, created' \subseteq created,
         \A i \in 1..Len(pending') : Seen(pending'[i].tx)
  PROVE  CreditInv'
PROOF
<1>1. OwnInv
  BY DEF CreditInv
<1>2. created' \subseteq Own /\ created' \cap DOMAIN mapWallet' = {}
  BY <1>1 DEF OwnInv
<1>3. \A s : MarkedDirty(s) \cap DOMAIN credit' = {}
  OBVIOUS
<1> QED BY <1>2, <1>3, CreditFrame

LEMMA RestartCredit ==
  ASSUME CoinsInv, CoinsInv', WalletInv, CreditInv, Kill \/ Restart \/ ScanBlock \/ ScanDone
  PROVE  CreditInv'
PROOF
<1>1. CreditTypes /\ OwnInv /\ Types /\ History
  BY DEF CreditInv, CoinsInv
<1>2. CASE Kill
  <2>1. UNCHANGED <<known, mapWallet, locator>> /\ credit' = Clean(Txs) /\ created' = {}
        /\ txConflicted' = {} /\ pending' = <<>>
    BY <1>2 DEF Kill, chainVars
  <2>2. DOMAIN credit' = {}
    <3>1. DOMAIN credit \subseteq Txs
      BY <1>1 DEF CreditTypes, WalletInv, WalletTypes
    <3> QED BY <2>1, <3>1, CleanFacts
  <2>3. 1..Len(pending') = {}
    <3>1. Len(pending') = 0
      BY <2>1
    <3> QED BY <3>1
  <2> QED BY <1>1, <2>1, <2>2, <2>3, NoneCached DEF CreditTypes
<1>3. CASE Restart
  <2>1. UNCHANGED <<known, mapWallet, locator, credit, created, txConflicted, pending>> /\ pc = "down"
    BY <1>3 DEF Restart, walletVars
  <2>2. DOMAIN credit' = {} /\ txConflicted' = {}
    BY <1>1, <2>1 DEF CreditTypes
  <2>3. \A i \in 1..Len(pending') : Seen(pending'[i].tx)
    BY <1>1, <2>1 DEF OwnInv
  <2> QED BY <1>1, <2>1, <2>2, <2>3, NoneCached DEF CreditTypes
<1>4. CASE ScanBlock
  <2>1. UNCHANGED <<known, mapWallet, locator, credit, created, txConflicted>> /\ pc = "rescan"
    BY <1>4 DEF ScanBlock, chainVars
  <2>2. PICK b \in Chain[tip] : pending' = Calls(Vtx[b], b)
    BY <1>4 DEF ScanBlock
  <2>3. DOMAIN credit' = {} /\ txConflicted' = {}
    BY <1>1, <2>1 DEF CreditTypes
  <2>4. b \in known /\ b \in Blocks
    <3>1. PrevClosed(known) /\ known \in SUBSET Blocks
      BY <1>1, TipFacts
    <3> QED BY <1>1, <3>1, ChainKnown DEF Types
  <2>5. \A i \in 1..Len(pending') : Seen(pending'[i].tx)
    <3>1. CASE b = Genesis
      <4>1. Vtx[b] \in Seq(Txs) /\ Len(Vtx[b]) = 0
        <5>1. <<>> \in Seq(Txs) /\ Len(<<>>) = 0
          OBVIOUS
        <5> QED BY <3>1, <5>1, WalletAssumption
      <4>2. Len(pending') = 0
        BY <2>2, <2>4, <4>1, CallFacts
      <4>3. 1..Len(pending') = {}
        BY <4>2
      <4> QED BY <4>3
    <3>2. CASE b # Genesis
      <4>1. Vtx[b] \in Seq(Txs)
        BY <2>4, <3>2, DataAssumption
      <4>2. Len(pending') = Len(Vtx[b]) /\ \A i \in 1..Len(Vtx[b]) : pending'[i].tx = Vtx[b][i]
        BY <2>2, <2>4, <4>1, CallFacts
      <4>3. ToSet(Vtx[b]) = {Vtx[b][i] : i \in 1..Len(Vtx[b])}
        BY <2>4, <3>2, VtxSet
      <4>4. \A i \in 1..Len(Vtx[b]) : Vtx[b][i] \in ToSet(Vtx[b])
        BY <4>3
      <4>5. \A s \in ToSet(Vtx[b]) : Seen(s)
        BY <1>1, <2>4 DEF OwnInv
      <4> QED BY <4>2, <4>4, <4>5
    <3> QED BY <3>1, <3>2
  <2> QED BY <1>1, <2>1, <2>3, <2>5, NoneCached DEF CreditTypes
<1>5. CASE ScanDone
  <2>1. UNCHANGED <<known, mapWallet, credit, created, txConflicted, pending>> /\ pc = "rescan"
        /\ locator' \in {locator, tip}
    BY <1>5 DEF ScanDone, chainVars
  <2>2. DOMAIN credit' = {} /\ txConflicted' = {} /\ locator' \in known
    BY <1>1, <2>1 DEF CreditTypes, Types
  <2>3. \A i \in 1..Len(pending') : Seen(pending'[i].tx)
    BY <1>1, <2>1 DEF OwnInv
  <2> QED BY <2>1, <2>2, <2>3, NoneCached
<1> QED BY <1>2, <1>3, <1>4, <1>5

\* CreateTransaction, and the steps of ReacceptWalletTransactions.
LEMMA OtherCredit ==
  ASSUME CoinsInv, CoinsInv', WalletInv, CreditInv,
         \/ \E t \in Txs : CreateTransaction(t)
         \/ ReacceptWalletTransactions \/ ReacceptTx \/ ReacceptDone \/ UNCHANGED allVars
  PROVE  CreditInv'
PROOF
<1>1. CreditTypes /\ OwnInv /\ Stages
  BY DEF CreditInv, WalletInv
<1>2. CASE \E t \in Txs : CreateTransaction(t)
  <2>1. PICK t \in Txs : CreateTransaction(t)
    BY <1>2
  <2>2. /\ UNCHANGED <<known, tip, mapTx, mapWallet, credit, locator, txConflicted, pending, pc, blk>>
        /\ created' \subseteq created \cup {t} /\ t \in Own \ DOMAIN mapWallet
    BY <2>1 DEF CreateTransaction, vars, chainVars, poolVars, callVars
  <2>3. created' \subseteq Own \ DOMAIN mapWallet /\ Telling' = Telling
    BY <1>1, <2>2 DEF OwnInv, Telling
  <2> QED BY <2>2, <2>3, QuietCredit
<1>3. CASE ReacceptWalletTransactions \/ ReacceptDone \/ UNCHANGED allVars
  <2>1. /\ UNCHANGED <<known, tip, mapTx, mapWallet, credit, locator, txConflicted, pending, blk, created>>
        /\ pc' = pc \/ (pc \in {"idle", "reaccept"} /\ pc' \in {"idle", "reaccept"})
    <3>1. CASE UNCHANGED allVars
      BY <3>1 DEF allVars, walletVars, vars, chainVars, poolVars, callVars
    <3>2. CASE ReacceptWalletTransactions \/ ReacceptDone
      BY <3>2 DEF ReacceptWalletTransactions, ReacceptDone, Free, Settled, walletVars, chainVars, poolVars
    <3> QED BY <1>3, <3>1, <3>2
  <2>2. created' \subseteq Own \ DOMAIN mapWallet /\ Telling' = Telling
    BY <1>1, <2>1 DEF OwnInv, Telling
  <2> QED BY <2>1, <2>2, QuietCredit
<1>4. CASE ReacceptTx
  <2>1. /\ UNCHANGED <<known, tip, locator, txConflicted, pending, blk, created, pc>> /\ pc = "reaccept"
        /\ \/ UNCHANGED <<mapWallet, credit, mapTx>>
           \/ \E t \in DOMAIN mapWallet : mapTx' = mapTx \cup {t} /\ SyncTransaction(t, NoBlock)
    BY <1>4 DEF ReacceptTx, addUnchecked, chainVars, poolVars
  <2>2. CASE UNCHANGED <<mapWallet, credit, mapTx>>
    <3>1. created' \subseteq Own \ DOMAIN mapWallet /\ Telling' = Telling
      BY <1>1, <2>1 DEF OwnInv, Telling
    <3> QED BY <2>1, <2>2, <3>1, QuietCredit
  <2>3. CASE \E t \in DOMAIN mapWallet : mapTx' = mapTx \cup {t} /\ SyncTransaction(t, NoBlock)
    <3>1. PICK t \in DOMAIN mapWallet : mapTx' = mapTx \cup {t} /\ SyncTransaction(t, NoBlock)
      BY <2>3
    <3>2. Seen(t) /\ pending = <<>>
      BY <1>1, <2>1 DEF Seen, Stages
    <3> QED BY <2>1, <3>1, <3>2, AcceptedCredit
  <2> QED BY <2>1, <2>2, <2>3
<1> QED BY <1>2, <1>3, <1>4

\* Every step keeps the credits.
LEMMA CreditNext ==
  ASSUME NoCoinBaseAgain, NoneRefused, CoinsInv, CoinsInv', PoolTypes, PoolInv, WalletInv, ReturnInv,
         CreditInv, [WalletNext]_allVars
  PROVE  CreditInv'
PROOF
<1>1. CASE NodeStep \/ Watched
  BY <1>1, NodeCredit, WatchedCredit
<1>2. CASE \E tx \in Txs : PoolStep(tx)
  BY <1>2, PoolCredit
<1>3. CASE NoteConflicts
  BY <1>3, ConflictsCredit
<1>4. CASE Connected \/ Disconnected
  BY <1>4, ConnectedCredit, DisconnectedCredit
<1>5. CASE SyncWithWallets
  BY <1>5, SyncCredit
<1>6. CASE \E t \in Txs : GetAvailableCredit(t) \/ CommitTransaction(t)
  BY <1>6, CachedCredit, CommitCredit
<1>7. CASE Kill \/ Restart \/ ScanBlock \/ ScanDone
  BY <1>7, RestartCredit
<1>8. CASE \/ \E t \in Txs : CreateTransaction(t)
           \/ ReacceptWalletTransactions \/ ReacceptTx \/ ReacceptDone \/ UNCHANGED allVars
  BY <1>8, OtherCredit
<1> QED BY <1>1, <1>2, <1>3, <1>4, <1>5, <1>6, <1>7, <1>8 DEF WalletNext

LEMMA CreditStart ==
  ASSUME WalletInit
  PROVE  ReturnInv /\ CreditInv
PROOF
<1>1. /\ Init /\ DOMAIN mapWallet = {} /\ DOMAIN credit = {} /\ locator = Genesis /\ created = {}
      /\ txConflicted = {} /\ pending = <<>>
  BY DEF WalletInit
<1>2. pc = "idle" /\ known = {Genesis} /\ cacheCoins = Empty /\ coinsDB = Empty /\ DOMAIN undo = {}
  BY <1>1 DEF Init
<1>3. ReturnInv
  BY <1>2 DEF ReturnInv, Passed, DBUnpruned, Returned, Empty
<1>4. 1..Len(pending) = {}
  <2>1. Len(pending) = 0
    BY <1>1
  <2> QED BY <2>1
<1>5. ToSet(Vtx[Genesis]) = {}
  <2>1. ToSet(<<>>) = {}
    BY DEF ToSet
  <2> QED BY <2>1, WalletAssumption
<1> QED BY <1>1, <1>2, <1>3, <1>4, <1>5 DEF CreditInv, CreditTypes, OwnInv, CreditKept

\* What a block of a chain made is unspent, or a block of the chain spent it.
LEMMA UnspentOrSpent ==
  \A b \in Blocks : \A t \in ChainTxs(b) : \A o \in Outputs(t) \ Unspendable :
      o \in Outs(Utxo[b]) \/ \E s \in ChainTxs(b) : o \in ToSet(Vin[s])
PROOF
<1> DEFINE OK(b) == \A t \in ChainTxs(b) : \A o \in Outputs(t) \ Unspendable :
                       o \in Outs(Utxo[b]) \/ \E s \in ChainTxs(b) : o \in ToSet(Vin[s])
           S == {b \in Blocks : OK(b)}
<1>1. Genesis \in S
  BY ChainTxsFacts, Constants
<1>2. ASSUME NEW b \in Blocks \ {Genesis}, Prev[b] \in S PROVE b \in S
  <2> SUFFICES ASSUME NEW t \in ChainTxs(b), NEW o \in Outputs(t) \ Unspendable,
                      \A s \in ChainTxs(b) : o \notin ToSet(Vin[s])
               PROVE  o \in Outs(Utxo[b])
    OBVIOUS
  <2> DEFINE k == Len(Vtx[b])
  <2>1. Utxo[b] = Part(b, k) /\ ChainTxs(b) = ChainTxs(Prev[b]) \cup ToSet(Vtx[b])
        /\ ToSet(Vtx[b]) = {Vtx[b][i] : i \in 1..k}
    BY UtxoFacts, ChainTxsFacts, VtxSet
  <2>2. o \notin Gone(b, k)
    <3>1. \A i \in 1..k : o \notin ToSet(Vin[Vtx[b][i]])
      BY <2>1
    <3> QED BY <3>1 DEF Gone
  <2>3. \E u \in Utxo[Prev[b]] \cup Made(b, k) : u.out = o
    <3>1. CASE t \in ChainTxs(Prev[b])
      <4>1. o \in Outs(Utxo[Prev[b]])
        BY <1>2, <2>1, <3>1
      <4> QED BY <4>1 DEF Outs
    <3>2. CASE t \in ToSet(Vtx[b])
      <4>1. PICK i \in 1..k : t = Vtx[b][i]
        BY <2>1, <3>2
      <4> DEFINE u == [out |-> o, nHeight |-> Height[b]]
      <4>2. u \in Made(b, k)
        BY <4>1, MadeMember
      <4>3. u.out = o
        OBVIOUS
      <4> QED BY <4>2, <4>3
    <3> QED BY <2>1, <3>1, <3>2
  <2> QED BY <2>1, <2>2, <2>3 DEF Part, Minus, Outs
<1> HIDE DEF OK
<1>3. S = Blocks
  <2>1. S \in SUBSET Blocks
    OBVIOUS
  <2> HIDE DEF S
  <2> QED BY <2>1, <1>1, <1>2, BlockInd
<1>4. \A b \in Blocks : OK(b)
  BY <1>3
<1> QED BY <1>4 DEF OK

\* With no call under way, the transactions of the wallet that spend a coin of it count
\* exactly if the chain or the pool spends it.
LEMMA FreeFacts ==
  ASSUME CoinsInv, PoolInv, WalletInv, pc = "idle", pending = <<>>
  PROVE  /\ coinsBest = tip /\ tip \in Blocks
         /\ \A t \in ChainTxs(tip) : Concerns(t) => t \in DOMAIN mapWallet /\ InMainChain(t)
         /\ \A t \in mapTx : Concerns(t) => t \in DOMAIN mapWallet
         /\ \A t \in DOMAIN mapWallet : InMainChain(t) => t \in ChainTxs(tip)
         /\ \A o \in Mine : IsSpent(o) <=> \/ o \in DOMAIN mapNextTx
                                           \/ \E s \in ChainTxs(tip) : o \in ToSet(Vin[s])
PROOF
<1>1. coinsBest = tip /\ tip \in Blocks
  BY DEF CoinsInv, Loops, Idle, Types
<1>2. ASSUME NEW t \in ChainTxs(tip), Concerns(t) PROVE t \in DOMAIN mapWallet /\ InMainChain(t)
  <2>1. PICK c \in Chain[tip] \ {Genesis} : t \in ToSet(Vtx[c])
    BY DEF ChainTxs
  <2>4. Has(t, c)
    BY <1>1, <1>2, <2>1 DEF WalletInv, Heard
  <2>5. c \in Blocks /\ NoBlock \notin Blocks
    BY <1>1, <2>1, ChainFacts, WalletAssumption
  <2>6. c # NoBlock
    BY <2>5
  <2> QED BY <2>1, <2>4, <2>6 DEF Has, InMainChain
<1>3. \A t \in mapTx : Concerns(t) => t \in DOMAIN mapWallet
  BY DEF WalletInv, PoolHeard
<1>4. ASSUME NEW t \in DOMAIN mapWallet, InMainChain(t) PROVE t \in ChainTxs(tip)
  <2>1. mapWallet[t] \in Chain[tip] \ {Genesis} /\ t \in ToSet(Vtx[mapWallet[t]])
    BY <1>4 DEF InMainChain, WalletInv, Recorded
  <2> QED BY <2>1 DEF ChainTxs
<1>5. ASSUME NEW o \in Mine
      PROVE  IsSpent(o) <=> o \in DOMAIN mapNextTx \/ \E s \in ChainTxs(tip) : o \in ToSet(Vin[s])
  <2>1. \A s : o \in ToSet(Vin[s]) => Concerns(s)
    BY DEF Concerns
  <2>2. IsSpent(o) <=> \E s : Counts(s) /\ o \in ToSet(Vin[s])
    BY <1>1, SpentFacts
  <2>3. o \in DOMAIN mapNextTx <=> \E s \in mapTx : o \in ToSet(Vin[s])
    BY DEF PoolInv, PoolSpendsExact
  <2>4. \A s : o \in ToSet(Vin[s]) => (Counts(s) <=> s \in mapTx \/ s \in ChainTxs(tip))
    BY <1>2, <1>3, <1>4, <2>1 DEF Counts
  <2> QED BY <2>2, <2>3, <2>4
<1> QED BY <1>1, <1>2, <1>3, <1>4, <1>5

\* The coins offered are those of the chain and of the pool that are there.
LEMMA OfferedCoins ==
  ASSUME NoCoinBaseAgain, CoinsInv, PoolInv, WalletInv
  PROVE  OffersExact
PROOF
<1> SUFFICES ASSUME Free
             PROVE  /\ \A o \in AvailableCoins : Connects(o) /\ o \notin DOMAIN mapNextTx
                    /\ \A o \in (Mine \cap Unspent) \ DOMAIN mapNextTx :
                          o \in AvailableCoins \/ ~Mature(o[1])
  BY DEF OffersExact
<1>1. pc = "idle" /\ pending = <<>>
  BY DEF Free, Settled, CallDone
<1>2. /\ coinsBest = tip /\ tip \in Blocks
      /\ \A t \in ChainTxs(tip) : Concerns(t) => t \in DOMAIN mapWallet /\ InMainChain(t)
      /\ \A t \in mapTx : Concerns(t) => t \in DOMAIN mapWallet
      /\ \A t \in DOMAIN mapWallet : InMainChain(t) => t \in ChainTxs(tip)
      /\ \A o \in Mine : IsSpent(o) <=> \/ o \in DOMAIN mapNextTx
                                        \/ \E s \in ChainTxs(tip) : o \in ToSet(Vin[s])
  BY <1>1, FreeFacts
<1>3. \A o \in OutPoints : IsAvailable(TipCoins(o[1]), o[2]) <=> o \in Outs(Utxo[tip])
  BY <1>2, AtTipFacts
<1>4. \A t \in DOMAIN mapWallet : /\ GetDepthInMainChain(t) >= 1 <=> InMainChain(t)
                                  /\ GetDepthInMainChain(t) = 0 => t \in mapTx
  BY <1>2, SpentFacts
<1>5. Mine \subseteq OutPoints \ Unspendable
  BY WalletAssumption
<1>6. ASSUME NEW o \in AvailableCoins PROVE Connects(o) /\ o \notin DOMAIN mapNextTx
  <2>1. o \in Mine /\ o[1] \in DOMAIN mapWallet /\ IsTrusted(o[1]) /\ ~IsSpent(o)
    BY DEF AvailableCoins
  <2>2. o \notin DOMAIN mapNextTx /\ \A s \in ChainTxs(tip) : o \notin ToSet(Vin[s])
    BY <1>2, <2>1
  <2>3. InMainChain(o[1]) \/ o[1] \in mapTx
    BY <1>4, <2>1 DEF IsTrusted
  <2>4. CASE InMainChain(o[1])
    <3>1. o[1] \in ChainTxs(tip)
      BY <1>2, <2>1, <2>4
    <3>2. o \in Outputs(o[1]) \ Unspendable
      BY <1>5, <2>1, MakerConcerns
    <3>3. o \in Outs(Utxo[tip])
      BY <1>2, <2>2, <3>1, <3>2, UnspentOrSpent
    <3> QED BY <1>3, <1>5, <2>1, <2>2, <3>3 DEF Connects
  <2>5. CASE o[1] \in mapTx
    BY <2>2, <2>5 DEF Connects
  <2> QED BY <2>3, <2>4, <2>5
<1>7. ASSUME NEW o \in (Mine \cap Unspent) \ DOMAIN mapNextTx PROVE o \in AvailableCoins \/ ~Mature(o[1])
  <2>1. o \in Outs(Utxo[tip])
    BY <1>3 DEF Unspent
  <2>2. Accounts(Utxo[tip], ChainTxs(tip))
    BY <1>2, TipAccounts
  <2>3. o[1] \in ChainTxs(tip) /\ \A s \in ChainTxs(tip) : o \notin ToSet(Vin[s])
    BY <2>1, <2>2 DEF Accounts, Outs
  <2>4. Concerns(o[1])
    BY MakerConcerns
  <2>5. o[1] \in DOMAIN mapWallet /\ InMainChain(o[1])
    BY <1>2, <2>3, <2>4
  <2>6. IsTrusted(o[1])
    BY <1>4, <2>5 DEF IsTrusted
  <2>7. ~IsSpent(o)
    BY <1>2, <2>3
  <2> QED BY <2>5, <2>6, <2>7 DEF AvailableCoins
<1> QED BY <1>6, <1>7

\* Between two calls the credits are current, as nothing is left to tell.
LEMMA CreditsCurrent ==
  ASSUME CreditInv
  PROVE  CreditCurrent
PROOF
<1> SUFFICES ASSUME pc = "idle", pending = <<>>, NEW t \in DOMAIN credit PROVE credit[t] = AvailableCredit(t)
  BY DEF CreditCurrent, CallDone
<1>1. 1..Len(pending) = {} /\ txConflicted = {}
  <2>1. Len(pending) = 0
    OBVIOUS
  <2> QED BY <2>1 DEF CreditInv, CreditTypes
<1>2. Telling = {}
  BY <1>1 DEF Telling
<1> QED BY <1>2 DEF CreditInv, CreditKept

LEMMA WalletTyped ==
  ASSUME WalletInv, CreditInv
  PROVE  WalletTypeOK
PROOF
<1>1. WalletTypes /\ Recorded /\ CreditTypes /\ OwnInv
  BY DEF WalletInv, CreditInv
<1>2. \A t \in DOMAIN mapWallet : mapWallet[t] \in Blocks \cup {NoBlock}
  BY <1>1 DEF Recorded
<1> QED BY <1>1, <1>2 DEF WalletTypeOK, WalletTypes, CreditTypes, OwnInv

\* The balance of the wallet is exact: a credit GetAvailableCredit has cached is what it
\* would compute again, as AddToWallet marks dirty what a transaction spends whenever that
\* begins to count or no longer does; and AvailableCoins offers the unspent mature coins
\* of the chain that are the wallet's, with coins of the pool, and no other.
THEOREM BalanceAlwaysExact ==
  NoCoinBaseAgain /\ NoneRefused => (WalletSpec => []BalanceExact)
PROOF
<1> SUFFICES ASSUME NoCoinBaseAgain, NoneRefused PROVE WalletSpec => []BalanceExact
  OBVIOUS
<1> DEFINE Inv == /\ CoinsInv /\ PoolTypes /\ locator \in Blocks /\ PoolInv /\ WalletInv
                  /\ ReturnInv /\ CreditInv
<1>1. WalletInit => Inv
  <2>1. WalletInit => WalletInv /\ ReturnInv /\ CreditInv
    BY WalletStart, CreditStart
  <2>2. WalletInit => CoinsInv /\ PoolTypes /\ locator \in Blocks /\ PoolInv
    BY InitInv, NoPool, Constants DEF WalletInit, Init
  <2> QED BY <2>1, <2>2
<1>2. Inv /\ [WalletNext]_allVars => Inv'
  <2> SUFFICES ASSUME Inv, [WalletNext]_allVars PROVE Inv'
    OBVIOUS
  <2>1. (CoinsInv /\ PoolTypes /\ locator \in Blocks)'
    BY WalletNextInv
  <2>2. PoolInv' /\ WalletInv'
    BY PoolWalletNext, WalletStep
  <2>3. ReturnInv'
    BY ReturnWalletNext
  <2>4. CreditInv'
    BY <2>1, CreditNext
  <2> QED BY <2>1, <2>2, <2>3, <2>4
<1>3. Inv => BalanceExact
  BY OfferedCoins, CreditsCurrent, WalletTyped DEF BalanceExact
<1> HIDE DEF Inv
<1> QED BY <1>1, <1>2, <1>3, PTL DEF WalletSpec
=============================================================================

---------------------------- MODULE LedgerProofs -----------------------------
(***************************************************************************)
(* Theorems about what the services compute by going over rows: the match  *)
(* of a payment with a bank transaction (Reconciliation), for any bank     *)
(* accounts, transactions, repayments, payments and workers, and the       *)
(* positions in a family's ledger (FamilyLedger over LoanBook), for any    *)
(* users, loans, repayments and principals.  Both loops are folds over     *)
(* finite sets, so both rest on the same lemmas about folds.               *)
(***************************************************************************)
EXTENDS LoanBookProofs, FamilyLedger, Reconciliation, FiniteSetTheorems, TLAPS

(***************************************************************************)
(* Induction over finite sets, and that folds over them are defined.       *)
(***************************************************************************)

\* No set in B is a proper subset of s.
Minimal(s, B) == s \in B /\ \A t \in B : t \subseteq s => t = s

\* A set of subsets of a finite set has a minimal one: to show that all subsets
\* have a property, it is enough that no minimal one lacks it.
LEMMA MinimalSubset ==
    ASSUME NEW S, NEW B, IsFiniteSet(S), B \subseteq SUBSET S, B # {}
    PROVE  \E s : Minimal(s, B)
<1>1. B \subseteq FiniteSubsetsOf(S)
  BY FS_FiniteSubsetsOfFinite
<1>2. PICK s \in B : \A t \in B : ~ (<<t, s>> \in StrictSubsetOrdering(S))
  BY <1>1, WFMin, FS_StrictSubsetOrderingWellFounded
<1> QED BY <1>2 DEF Minimal, StrictSubsetOrdering

\* Induction over the numbers, with a set in the place of a predicate.
LEMMA Induction ==
    ASSUME NEW G, 0 \in G, \A n \in Nat : n \in G => n + 1 \in G
    PROVE  Nat \subseteq G
<1>1. SUFFICES ASSUME NEW n \in Nat, n \notin G PROVE FALSE
  OBVIOUS
<1> DEFINE B == {s \in SUBSET (0 .. n) : \E k \in 0 .. n : k \notin G /\ s = 0 .. k}
<1>2. 0 .. n \in B
  BY <1>1
<1>3. PICK s : Minimal(s, B)
  <2> HIDE DEF B
  <2>1. B \subseteq SUBSET (0 .. n)
    BY DEF B
  <2>2. B # {} /\ IsFiniteSet(0 .. n)
    BY <1>2, FS_Interval
  <2> QED BY <2>1, <2>2, MinimalSubset
<1>4. PICK k \in 0 .. n : k \notin G /\ s = 0 .. k
  BY <1>3 DEF Minimal
<1>5. k - 1 \in Nat /\ k - 1 \notin G
  BY <1>4
<1>6. 0 .. (k - 1) \in B /\ 0 .. (k - 1) \subseteq s
  BY <1>4, <1>5
<1> QED BY <1>3, <1>4, <1>5, <1>6 DEF Minimal

\* Folding is along the cardinality of subsets.
Small(S, n) == {s \in SUBSET S : Cardinality(s) <= n}

\* A subset without one of its elements is smaller, and all are small in the end.
LEMMA SmallSubsets ==
    ASSUME NEW S, IsFiniteSet(S)
    PROVE  /\ Small(S, 0) = {{}}
           /\ Small(S, Cardinality(S)) = SUBSET S /\ Cardinality(S) \in Nat
           /\ \A n \in Nat : /\ {} \in Small(S, n)
                             /\ Small(S, n) \subseteq Small(S, n + 1)
                             /\ \A s \in Small(S, n + 1) : \A x \in s : s \ {x} \in Small(S, n)
<1>1. \A s \in SUBSET S : IsFiniteSet(s) /\ Cardinality(s) \in Nat /\ Cardinality(s) <= Cardinality(S)
  BY FS_Subset, FS_CardinalityType
<1>2. \A s \in SUBSET S : Cardinality(s) = 0 <=> s = {}
  BY <1>1, FS_EmptySet
<1>3. \A s \in SUBSET S : \A x \in s : Cardinality(s \ {x}) = Cardinality(s) - 1
  BY <1>1, FS_RemoveElement
<1>4. Small(S, 0) = {{}}
  BY <1>1, <1>2 DEF Small
<1>5. Small(S, Cardinality(S)) = SUBSET S /\ Cardinality(S) \in Nat
  BY <1>1 DEF Small
<1>6. ASSUME NEW n \in Nat
      PROVE  {} \in Small(S, n) /\ Small(S, n) \subseteq Small(S, n + 1)
  BY <1>1, <1>2 DEF Small
<1>7. ASSUME NEW n \in Nat, NEW s \in Small(S, n + 1), NEW x \in s
      PROVE  s \ {x} \in Small(S, n)
  BY <1>1, <1>3 DEF Small
<1> QED BY <1>4, <1>5, <1>6, <1>7

\* Function g folds op over the subsets of S: the value of a set is got from its
\* element choose[s] and the value of the others.
FoldsOver(g, S, base, op, choose) ==
    \A s \in SUBSET S :
        g[s] = IF s = {} THEN base ELSE op[choose[s], g[s \ {choose[s]}]]

\* For a finite set there is such a function.
LEMMA FoldExists ==
    ASSUME NEW S, NEW D, NEW base, NEW op, NEW choose,
           IsFiniteSet(S), base \in D, op \in [S \X D -> D],
           \A s \in SUBSET S : s # {} => choose[s] \in s
    PROVE  \E g : g \in [SUBSET S -> D] /\ FoldsOver(g, S, base, op, choose)
<1> DEFINE Value(g, s) == IF s = {} THEN base ELSE op[choose[s], g[s \ {choose[s]}]]
<1> DEFINE Solves(g, T) == \A s \in T : g[s] = Value(g, s)
<1> DEFINE G == {n \in Nat : \E g \in [Small(S, n) -> D] : Solves(g, Small(S, n))}
<1>2. 0 \in G
  <2> DEFINE g == [s \in Small(S, 0) |-> base]
  <2>1. g \in [Small(S, 0) -> D] /\ Solves(g, Small(S, 0))
    BY SmallSubsets
  <2> HIDE DEF g
  <2> QED BY <2>1
<1>3. \A n \in Nat : n \in G => n + 1 \in G
  <2> SUFFICES ASSUME NEW n \in Nat, n \in G PROVE n + 1 \in G
    OBVIOUS
  <2>g. PICK g \in [Small(S, n) -> D] : Solves(g, Small(S, n))
    OBVIOUS
  <2> DEFINE h == [s \in Small(S, n + 1) |-> Value(g, s)]
  <2>1. \A s \in Small(S, n + 1) : s # {} => choose[s] \in S /\ s \ {choose[s]} \in Small(S, n)
    <3>1. \A s \in Small(S, n + 1) : s \in SUBSET S
      BY DEF Small
    <3> QED BY <3>1, SmallSubsets
  <2>2. h \in [Small(S, n + 1) -> D]
    BY <2>1
  <2>3. \A s \in Small(S, n) : h[s] = g[s]
    BY <2>g, SmallSubsets
  <2>4. \A s \in Small(S, n + 1) : Value(h, s) = Value(g, s)
    <3> HIDE DEF h
    <3> QED BY <2>1, <2>3
  <2>5. Solves(h, Small(S, n + 1))
    <3> HIDE DEF Value
    <3> QED BY <2>4
  <2> HIDE DEF h, Solves
  <2> QED BY <2>2, <2>5
<1>4. Cardinality(S) \in G
  <2> HIDE DEF G
  <2> QED BY <1>2, <1>3, Induction, SmallSubsets
<1>6. PICK g \in [SUBSET S -> D] : Solves(g, SUBSET S)
  BY <1>4, SmallSubsets
<1> QED BY <1>6 DEF FoldsOver

(***************************************************************************)
(* Sums.                                                                   *)
(***************************************************************************)

\* Function g gives the sum of f over each subset of S.
Sums(g, f, S) ==
    /\ g \in [SUBSET S -> Int]
    /\ g[{}] = 0
    /\ \A s \in SUBSET S : \A x \in s : g[s] = g[s \ {x}] + f[x]

\* A sum that is got by taking out one element after the other is the same
\* whichever element is taken first.
LEMMA AnyOrderSums ==
    ASSUME NEW S, IsFiniteSet(S), NEW f \in [S -> Int], NEW g \in [SUBSET S -> Int], NEW first,
           g[{}] = 0,
           \A s \in SUBSET S : s # {} => first[s] \in s /\ g[s] = f[first[s]] + g[s \ {first[s]}]
    PROVE  Sums(g, f, S)
<1> DEFINE B == {s \in SUBSET S : ~ \A x \in s : g[s] = g[s \ {x}] + f[x]}
<1>1. SUFFICES ASSUME B # {} PROVE FALSE
  BY DEF Sums
<1>2. PICK s : Minimal(s, B)
  <2> HIDE DEF B
  <2>1. B \subseteq SUBSET S
    BY DEF B
  <2> QED BY <1>1, <2>1, MinimalSubset
<1>3. s \in SUBSET S
  BY <1>2 DEF Minimal
<1>4. PICK x \in s : g[s] # g[s \ {x}] + f[x]
  BY <1>2 DEF Minimal
<1> DEFINE y == first[s]
<1>5. y \in s /\ g[s] = f[y] + g[s \ {y}]
  BY <1>3, <1>4
<1>6. s \ {x} \in SUBSET S /\ s \ {y} \in SUBSET S /\ x \in S /\ y \in S
  BY <1>3, <1>5
<1> DEFINE a == g[s \ {x}]
           b == g[s \ {y}]
           c == g[(s \ {x}) \ {y}]
<1>0. a \in Int /\ b \in Int /\ f[x] \in Int /\ f[y] \in Int
  BY <1>6
<1>7. x # y
  <2> SUFFICES ASSUME x = y PROVE FALSE
    OBVIOUS
  <2>1. g[s] = f[x] + a /\ g[s] # a + f[x]
    BY <1>4, <1>5
  <2> HIDE DEF a
  <2> QED BY <1>0, <2>1
<1>8. \A t \in SUBSET S : t \subseteq s /\ t # s => \A z \in t : g[t] = g[t \ {z}] + f[z]
  BY <1>2 DEF Minimal
<1>9. a = c + f[y]
  BY <1>4, <1>5, <1>6, <1>7, <1>8
<1>10. (s \ {x}) \ {y} = (s \ {y}) \ {x}
  OBVIOUS
<1>11. b = c + f[x]
  <2>1. b = g[(s \ {y}) \ {x}] + f[x]
    BY <1>4, <1>5, <1>6, <1>7, <1>8
  <2> QED BY <2>1, <1>10
<1>12. c \in Int
  BY <1>3
<1>13. g[s] = f[y] + b /\ g[s] # a + f[x]
  BY <1>4, <1>5
<1> HIDE DEF a, b, c, B
<1> QED BY <1>0, <1>9, <1>11, <1>12, <1>13

\* SumFunction is such a sum.
LEMMA SumFunctionSums ==
    ASSUME NEW S, IsFiniteSet(S), NEW f \in [S -> Int]
    PROVE  \E g : Sums(g, f, S) /\ SumFunction(f) = g[S]
<1> DEFINE op == [x \in S \X Int |-> f[x[1]] + x[2]]
           first == [s \in SUBSET S |-> CHOOSE x \in s : TRUE]
           Value(g, s) == IF s = {} THEN 0
                          ELSE f[CHOOSE x \in s : TRUE] + g[s \ {CHOOSE x \in s : TRUE}]
           Loop(g) == g = [s \in SUBSET S |-> Value(g, s)]
<1>1. \A s \in SUBSET S : s # {} => first[s] \in s /\ first[s] = CHOOSE x \in s : TRUE
  OBVIOUS
<1>2. PICK g : g \in [SUBSET S -> Int] /\ FoldsOver(g, S, 0, op, first)
  <2>1. op \in [S \X Int -> Int]
    OBVIOUS
  <2>2. 0 \in Int
    OBVIOUS
  <2> HIDE DEF op, first
  <2> QED BY <1>1, <2>1, <2>2, FoldExists, Zenon
<1>3. \A s \in SUBSET S : g[s] = Value(g, s)
  <2> SUFFICES ASSUME NEW s \in SUBSET S, s # {}
               PROVE  g[s] = Value(g, s)
    BY <1>2 DEF FoldsOver
  <2>1. first[s] \in S /\ s \ {first[s]} \in SUBSET S
    BY <1>1
  <2>2. op[first[s], g[s \ {first[s]}]] = f[first[s]] + g[s \ {first[s]}]
    <3> HIDE DEF first
    <3> QED BY <1>2, <2>1
  <2> HIDE DEF op, first
  <2> QED BY <1>1, <1>2, <2>2 DEF FoldsOver
<1>4. Loop(g)
  BY <1>2, <1>3
<1>5. PICK h : Loop(h) /\ SumFunction(f) = h[S]
  <2>1. Loop(CHOOSE h : Loop(h))
    <3> HIDE DEF Loop
    <3> QED BY <1>4
  <2>2. SumFunction(f) = (CHOOSE h : Loop(h))[S]
    BY DEF SumFunction, SumFunctionOnSet, FoldFunctionOnSet, MapThenFoldSet
  <2> HIDE DEF Loop
  <2> QED BY <2>1, <2>2
<1>6. \A s \in SUBSET S : h[s] = g[s]
  <2> DEFINE B == {s \in SUBSET S : h[s] # g[s]}
  <2>1. SUFFICES ASSUME B # {} PROVE FALSE
    OBVIOUS
  <2>2. PICK s : Minimal(s, B)
    <3> HIDE DEF B
    <3>1. B \subseteq SUBSET S
      BY DEF B
    <3> QED BY <2>1, <3>1, MinimalSubset
  <2>3. s \in SUBSET S /\ h[s] # g[s] /\ h[s] = Value(h, s) /\ g[s] = Value(g, s)
    BY <1>3, <1>5, <2>2 DEF Minimal
  <2>4. s # {}
    BY <2>3
  <2>5. first[s] \in s /\ s \ {first[s]} \in SUBSET S /\ s \ {first[s]} # s
    BY <1>1, <2>3, <2>4
  <2>6. h[s \ {first[s]}] = g[s \ {first[s]}]
    <3> HIDE DEF first
    <3> QED BY <2>2, <2>5 DEF Minimal
  <2> QED BY <1>1, <2>3, <2>4, <2>6
<1>7. h \in [SUBSET S -> Int]
  BY <1>2, <1>5, <1>6
<1>8. \A s \in SUBSET S : s # {} => first[s] \in s /\ h[s] = f[first[s]] + h[s \ {first[s]}]
  BY <1>1, <1>5
<1>9. h[{}] = 0
  BY <1>5
<1>10. Sums(h, f, S)
  <2> HIDE DEF first, Loop
  <2> QED BY <1>7, <1>8, <1>9, AnyOrderSums
<1> QED BY <1>5, <1>10

\* A sum of integers is an integer.
LEMMA SumType ==
    ASSUME NEW S, IsFiniteSet(S), NEW f \in [S -> Int]
    PROVE  SumFunction(f) \in Int
<1>1. PICK g : Sums(g, f, S) /\ SumFunction(f) = g[S]
  BY SumFunctionSums
<1> QED BY <1>1 DEF Sums

\* Two functions with the same values add up to the same.
LEMMA SameSums ==
    ASSUME NEW S, IsFiniteSet(S), NEW f, NEW e, NEW g, NEW h,
           Sums(g, f, S), Sums(h, e, S), \A x \in S : f[x] = e[x]
    PROVE  g[S] = h[S]
<1> DEFINE B == {s \in SUBSET S : g[s] # h[s]}
<1>1. SUFFICES ASSUME B # {} PROVE FALSE
  OBVIOUS
<1>2. PICK s : Minimal(s, B)
  <2> HIDE DEF B
  <2>1. B \subseteq SUBSET S
    BY DEF B
  <2> QED BY <1>1, <2>1, MinimalSubset
<1>3. s \in SUBSET S /\ g[s] # h[s]
  BY <1>2 DEF Minimal
<1>4. s # {}
  BY <1>3 DEF Sums
<1>5. PICK x \in s : TRUE
  BY <1>4
<1>6. g[s \ {x}] = h[s \ {x}]
  BY <1>2, <1>3, <1>5 DEF Minimal
<1>7. g[s] = g[s \ {x}] + f[x] /\ h[s] = h[s \ {x}] + e[x] /\ f[x] = e[x]
  BY <1>3, <1>5 DEF Sums
<1> QED BY <1>3, <1>6, <1>7

\* A function on some elements of A, made one on all of them that adds up to the same.
Padded(f, A) == [x \in A |-> IF x \in DOMAIN f THEN f[x] ELSE 0]

\* Zeros add nothing to a sum.
LEMMA PaddedSums ==
    ASSUME NEW A, IsFiniteSet(A), NEW S \in SUBSET A, NEW f \in [S -> Int]
    PROVE  Padded(f, A) \in [A -> Int] /\ SumFunction(Padded(f, A)) = SumFunction(f)
<1> DEFINE p == Padded(f, A)
<1>1. p \in [A -> Int] /\ \A x \in A : p[x] = IF x \in S THEN f[x] ELSE 0
  BY DEF Padded
<1>2. IsFiniteSet(S)
  BY FS_Subset
<1>3. PICK g : Sums(g, f, S) /\ SumFunction(f) = g[S]
  BY <1>2, SumFunctionSums
<1>4. PICK h : Sums(h, p, A) /\ SumFunction(p) = h[A]
  <2> HIDE DEF p
  <2> QED BY <1>1, SumFunctionSums
<1> DEFINE B == {s \in SUBSET A : h[s] # g[s \cap S]}
<1>5. SUFFICES ASSUME B # {} PROVE FALSE
  <2>1. A \in SUBSET A /\ A \cap S = S
    OBVIOUS
  <2> QED BY <1>1, <1>3, <1>4, <2>1
<1>6. PICK s : Minimal(s, B)
  <2> HIDE DEF B
  <2>1. B \subseteq SUBSET A
    BY DEF B
  <2> QED BY <1>5, <2>1, MinimalSubset
<1>7. s \in SUBSET A /\ h[s] # g[s \cap S]
  BY <1>6 DEF Minimal
<1>8. s # {}
  <2>1. {} \cap S = {}
    OBVIOUS
  <2> QED BY <1>3, <1>4, <1>7, <2>1 DEF Sums
<1>9. PICK x \in s : TRUE
  BY <1>8
<1>10. h[s \ {x}] = g[(s \ {x}) \cap S]
  BY <1>6, <1>7, <1>9 DEF Minimal
<1>11. h[s] = h[s \ {x}] + p[x]
  <2> HIDE DEF p
  <2> QED BY <1>4, <1>7, <1>9 DEF Sums
<1>12. h[s \ {x}] \in Int
  <2>1. s \ {x} \in SUBSET A
    BY <1>7
  <2> HIDE DEF p
  <2> QED BY <1>4, <2>1 DEF Sums
<1>13. CASE x \in S
  <2>1. (s \cap S) \ {x} = (s \ {x}) \cap S /\ s \cap S \in SUBSET S /\ x \in s \cap S
    BY <1>9, <1>13
  <2>2. g[s \cap S] = g[(s \cap S) \ {x}] + f[x]
    BY <1>3, <2>1 DEF Sums
  <2>3. p[x] = f[x]
    BY <1>1, <1>7, <1>9, <1>13
  <2> HIDE DEF p
  <2> QED BY <1>7, <1>10, <1>11, <2>1, <2>2, <2>3
<1>14. CASE x \notin S
  <2>1. (s \ {x}) \cap S = s \cap S
    BY <1>14
  <2>2. p[x] = 0
    BY <1>1, <1>7, <1>9, <1>14
  <2> DEFINE a == h[s \ {x}]
  <2>3. a \in Int /\ h[s] = a + 0
    <3> HIDE DEF p
    <3> QED BY <1>11, <1>12, <2>2
  <2>4. h[s] = a
    <3> HIDE DEF a
    <3> QED BY <2>3
  <2>5. a = g[s \cap S]
    BY <1>10, <2>1
  <2> QED BY <1>7, <2>4, <2>5
<1> QED BY <1>13, <1>14

\* When one value changes, the sum changes by as much.
LEMMA SumMoves ==
    ASSUME NEW A, IsFiniteSet(A), NEW x \in A,
           NEW S \in SUBSET A, NEW f \in [S -> Int], NEW T \in SUBSET A, NEW e \in [T -> Int],
           \A y \in A \ {x} : Padded(e, A)[y] = Padded(f, A)[y]
    PROVE  SumFunction(e) - SumFunction(f) = Padded(e, A)[x] - Padded(f, A)[x]
<1> DEFINE p == Padded(f, A)
           q == Padded(e, A)
<1>1. /\ p \in [A -> Int] /\ SumFunction(p) = SumFunction(f)
      /\ q \in [A -> Int] /\ SumFunction(q) = SumFunction(e)
  BY PaddedSums
<1> HIDE DEF p, q
<1>2. PICK g : Sums(g, p, A) /\ SumFunction(p) = g[A]
  BY <1>1, SumFunctionSums
<1>3. PICK h : Sums(h, q, A) /\ SumFunction(q) = h[A]
  BY <1>1, SumFunctionSums
<1> DEFINE R == A \ {x}
<1>4. Sums([s \in SUBSET R |-> g[s]], p, R)
  BY <1>2 DEF Sums
<1>5. Sums([s \in SUBSET R |-> h[s]], q, R)
  BY <1>3 DEF Sums
<1>6. IsFiniteSet(R) /\ R \in SUBSET R /\ R \in SUBSET A
  BY FS_Subset
<1>7. \A y \in R : p[y] = q[y]
  BY DEF p, q
<1>8. g[R] = h[R] /\ g[R] \in Int
  <2>1. [s \in SUBSET R |-> g[s]][R] = [s \in SUBSET R |-> h[s]][R]
    <3> HIDE DEF R
    <3> QED BY <1>4, <1>5, <1>6, <1>7, SameSums
  <2>2. [s \in SUBSET R |-> g[s]][R] = g[R] /\ [s \in SUBSET R |-> h[s]][R] = h[R]
    BY <1>6
  <2> QED BY <1>2, <1>6, <2>1, <2>2 DEF Sums
<1>9. g[A] = g[R] + p[x] /\ h[A] = h[R] + q[x]
  BY <1>2, <1>3 DEF Sums
<1>10. p[x] \in Int /\ q[x] \in Int
  BY <1>1
<1> HIDE DEF R
<1>11. h[A] - g[A] = q[x] - p[x]
  BY <1>8, <1>9, <1>10
<1> QED BY <1>1, <1>2, <1>3, <1>11 DEF p, q

(***************************************************************************)
(* The loop over the candidates.                                           *)
(***************************************************************************)

\* A finite set of transactions has a latest one.
LEMMA LatestIsLast ==
    ASSUME NEW S \in SUBSET Nat, IsFiniteSet(S), S # {}
    PROVE  Latest(S) \in S /\ \A t \in S : t <= Latest(S)
<1> DEFINE Last(s, t) == t \in s /\ \A u \in s : u <= t
<1> DEFINE B == {s \in SUBSET S : s # {} /\ \A t \in s : ~ Last(s, t)}
<1>1. B = {}
  <2>1. SUFFICES ASSUME B # {} PROVE FALSE
    OBVIOUS
  <2>2. PICK s : Minimal(s, B)
    <3> HIDE DEF B
    <3>1. B \subseteq SUBSET S
      BY DEF B
    <3> QED BY <2>1, <3>1, MinimalSubset
  <2>3. PICK x \in s : TRUE
    BY <2>2 DEF Minimal
  <2>4. s \ {x} \notin B
    BY <2>2, <2>3 DEF Minimal
  <2>5. CASE s \ {x} = {}
    BY <2>2, <2>3, <2>5 DEF Minimal
  <2>6. CASE s \ {x} # {}
    <3>1. PICK m \in s \ {x} : Last(s \ {x}, m)
      BY <2>2, <2>4, <2>6 DEF Minimal
    <3>2. x \in Nat /\ s \subseteq Nat
      BY <2>2, <2>3 DEF Minimal
    <3>3. Last(s, IF x <= m THEN m ELSE x)
      BY <2>3, <3>1, <3>2
    <3> QED BY <2>2, <3>3 DEF Minimal
  <2> QED BY <2>5, <2>6
<1>2. PICK t \in S : Last(S, t)
  BY <1>1
<1> QED BY <1>2 DEF Latest

\* Transaction t is what the loop should end with after it has seen those in s.
BestOf(t, s, pay) ==
    IF s = {}
    THEN t = None
    ELSE /\ t \in s
         /\ \A u \in s : Score(u, pay) < Score(t, pay) \/ (Score(u, pay) = Score(t, pay) /\ t <= u)

\* Scores can be compared.
LEMMA ScoreType ==
    ASSUME NEW pay \in Payments, NEW t \in Transactions
    PROVE  Score(t, pay) \in Nat
BY AttributesAssumption, PaymentsAssumption DEF Score, Distance, Payments

\* The loop finds the best of the candidates: what it has found among the earlier
\* ones is the best of these, and the next one replaces it only when it scores more.
LEMMA BestMatchIsBest ==
    ASSUME NEW pay \in Payments, IsFiniteSet(Candidates(pay))
    PROVE  BestOf(BestMatch(pay), Candidates(pay), pay)
<1> DEFINE C == Candidates(pay)
           D == Transactions \cup {None}
           op == [x \in C \X D |-> IF Better(x[1], x[2], pay) THEN x[1] ELSE x[2]]
           choose == [s \in SUBSET C |-> Latest(s)]
           Value(g, s) == IF s = {} THEN None
                          ELSE IF Better(Latest(s), g[s \ {Latest(s)}], pay)
                               THEN Latest(s) ELSE g[s \ {Latest(s)}]
           Loop(g) == g = [s \in SUBSET C |-> Value(g, s)]
<1>1. C \in SUBSET Transactions /\ C \in SUBSET Nat /\ IsFiniteSet(C)
  BY TransactionsAssumption DEF Candidates
<1>2. \A s \in SUBSET C : s # {} => Latest(s) \in s /\ \A t \in s : t <= Latest(s)
  BY <1>1, LatestIsLast, FS_Subset
<1>3. PICK g : g \in [SUBSET C -> D] /\ FoldsOver(g, C, None, op, choose)
  <2>1. op \in [C \X D -> D]
    BY <1>1
  <2>2. \A s \in SUBSET C : s # {} => choose[s] \in s
    BY <1>2
  <2>3. None \in D
    OBVIOUS
  <2> HIDE DEF C, D, op, choose
  <2> QED BY <1>1, <2>1, <2>2, <2>3, FoldExists
<1>4. \A s \in SUBSET C : g[s] = Value(g, s)
  <2> SUFFICES ASSUME NEW s \in SUBSET C, s # {}
               PROVE  g[s] = Value(g, s)
    BY <1>3 DEF FoldsOver
  <2>1. choose[s] = Latest(s) /\ Latest(s) \in C /\ g[s \ {Latest(s)}] \in D
    BY <1>2, <1>3
  <2> QED BY <1>3, <2>1 DEF FoldsOver
<1>5. Loop(g)
  BY <1>3, <1>4
<1>6. PICK h : Loop(h) /\ BestMatch(pay) = h[C]
  <2>1. Loop(CHOOSE h : Loop(h))
    <3> HIDE DEF Loop
    <3> QED BY <1>5
  <2>2. BestMatch(pay) = (CHOOSE h : Loop(h))[C]
    BY DEF BestMatch, MapThenFoldSet
  <2> HIDE DEF Loop
  <2> QED BY <2>1, <2>2
<1>7. \A s \in SUBSET C : BestOf(h[s], s, pay)
  <2> DEFINE B == {s \in SUBSET C : ~ BestOf(h[s], s, pay)}
  <2>1. SUFFICES ASSUME B # {} PROVE FALSE
    OBVIOUS
  <2>2. PICK s : Minimal(s, B)
    <3> HIDE DEF B, C
    <3>1. B \subseteq SUBSET C
      BY DEF B
    <3> QED BY <1>1, <2>1, <3>1, MinimalSubset
  <2>3. h[s] = Value(h, s) /\ s \in SUBSET C /\ ~ BestOf(h[s], s, pay)
    BY <1>6, <2>2 DEF Minimal
  <2>4. s # {}
    BY <2>3 DEF BestOf
  <2> DEFINE t == Latest(s)
             b == h[s \ {t}]
  <2>5. t \in s /\ \A u \in s : u <= t
    BY <1>2, <2>3, <2>4
  <2>6. BestOf(b, s \ {t}, pay)
    BY <2>2, <2>3, <2>5 DEF Minimal
  <2>7. \A u \in s : Score(u, pay) \in Nat /\ u \in Nat /\ u # None
    BY <1>1, <2>3, ScoreType, NoneAssumption
  <2>8. h[s] = IF Better(t, b, pay) THEN t ELSE b
    BY <2>3, <2>4
  <2> HIDE DEF t, b, C
  <2>9. CASE b = None
    <3>1. s \ {t} = {}
      BY <2>6, <2>7, <2>9 DEF BestOf
    <3>2. h[s] = t /\ s = {t}
      BY <2>5, <2>8, <2>9, <3>1 DEF Better
    <3>3. BestOf(h[s], s, pay)
      BY <2>5, <2>7, <3>2 DEF BestOf
    <3> QED BY <2>3, <3>3
  <2>10. CASE b # None
    <3>1. b \in s \ {t} /\ \A u \in s \ {t} :
              Score(u, pay) < Score(b, pay) \/ (Score(u, pay) = Score(b, pay) /\ b <= u)
      BY <2>6, <2>10 DEF BestOf
    <3>2. CASE Score(t, pay) > Score(b, pay)
      <4>1. h[s] = t
        BY <2>8, <3>2 DEF Better
      <4>2. BestOf(t, s, pay)
        BY <2>5, <2>7, <3>1, <3>2 DEF BestOf
      <4> QED BY <2>3, <4>1, <4>2
    <3>3. CASE ~ (Score(t, pay) > Score(b, pay))
      <4>1. h[s] = b
        BY <2>8, <2>10, <3>3 DEF Better
      <4>2. BestOf(b, s, pay)
        BY <2>5, <2>7, <3>1, <3>3 DEF BestOf
      <4> QED BY <2>3, <4>1, <4>2
    <3> QED BY <3>2, <3>3
  <2> QED BY <2>9, <2>10
<1> QED BY <1>6, <1>7

(***************************************************************************)
(* The inductive invariant.                                                *)
(***************************************************************************)

\* Some audit event tells that account a was linked.
OnRecord(a, log) == \E i \in 1 .. Len(log[a]) : log[a][i].to = "linked"

LinkedIsOnRecord == \A a \in BankAccounts : status[a] = "linked" => OnRecord(a, trail)

\* A match fits what was paid and the reference that was given.
MatchFits(match, confidence, review, reference, log) ==
    /\ review <=> (reference # None /\ match = None)
    /\ match = None <=> confidence = ""
    /\ match # None =>
        /\ confidence = "high" <=> reference \in Mentions[match]
        /\ OnRecord(Account[match], log)

\* A status action has read a status that is on record; the account need not have
\* it any more.
ActsOnAccount(w) ==
    pc[w] = "write" =>
        /\ call[w] \in Actions
        /\ seen[w] \in Statuses
        /\ seen[w] = "linked" => OnRecord(call[w].account, trail)

\* A payment has its repayment to itself, and what it found fits it.
PaysAlone(w) ==
    pc[w] = "commit" =>
        /\ call[w] \in Payments
        /\ call[w].amount <= Due - rows[call[w].repayment].paid
        /\ \A v \in Workers \ {w} : pc[v] = "commit" => call[v].repayment # call[w].repayment
        /\ MatchFits(result[w].matched, result[w].confidence, result[w].review, call[w].reference, trail)
        /\ result[w].matched # None => Amount[result[w].matched] = call[w].amount

WorkersWork == \A w \in Workers : ActsOnAccount(w) /\ PaysAlone(w)

ReconciliationInv ==
    /\ RCTypeOK
    /\ IsFiniteSet(arrived)
    /\ LinkedIsOnRecord
    /\ WorkersWork
    /\ MatchesTellTheRow

(***************************************************************************)
(* What a payment is matched with.                                         *)
(***************************************************************************)

\* A score tells whether the reference is mentioned, and how close the days are.
LEMMA ScoreLevels ==
    ASSUME NEW pay \in Payments, NEW t \in Transactions
    PROVE  /\ Score(t, pay) \in IF Refers(t, pay) THEN 8 .. 10 ELSE 1 .. 3
           /\ Confidence(Score(t, pay)) = IF Refers(t, pay) THEN "high" ELSE "low"
BY AttributesAssumption, PaymentsAssumption DEF Score, Distance, Payments, Confidence

\* As finitely many transactions have arrived, the loop ends.
LEMMA CandidatesAreFinite ==
    ASSUME IsFiniteSet(arrived), NEW pay
    PROVE  IsFiniteSet(Candidates(pay)) /\ Candidates(pay) \subseteq Transactions
<1>1. Candidates(pay) \in SUBSET arrived /\ Candidates(pay) \subseteq Transactions
  BY TransactionsAssumption DEF Candidates
<1> QED BY <1>1, FS_Subset

\* The loop returns a candidate, or nothing when there is none.
LEMMA BestMatchIsCandidate ==
    ASSUME IsFiniteSet(arrived), NEW pay \in Payments
    PROVE  IF Candidates(pay) = {} THEN BestMatch(pay) = None ELSE BestMatch(pay) \in Candidates(pay)
BY BestMatchIsBest, CandidatesAreFinite DEF BestOf

\* A result fits the payment it is for, at the moment it is computed.
LEMMA ReconcileFits ==
    ASSUME RCTypeOK, IsFiniteSet(arrived), LinkedIsOnRecord, NEW pay \in Payments,
           NEW r, r = Reconcile(pay)
    PROVE  /\ r \in Results
           /\ MatchFits(r.matched, r.confidence, r.review, pay.reference, trail)
           /\ r.matched # None => Amount[r.matched] = pay.amount
<1>1. pay.reference = None => ~ \E t \in Transactions : pay.reference \in Mentions[t]
  BY AttributesAssumption, NoneAssumption
<1>2. CASE BestMatch(pay) = None
  BY <1>2 DEF Reconcile, NoResult, Results, Confidences, MatchFits
<1>3. CASE BestMatch(pay) # None
  <2> DEFINE t == BestMatch(pay)
  <2>1. t \in Candidates(pay) /\ t \in Transactions
    BY <1>3, BestMatchIsCandidate, CandidatesAreFinite
  <2>2. r = [matched |-> t, confidence |-> Confidence(Score(t, pay)), review |-> FALSE]
    BY <1>3 DEF Reconcile
  <2> HIDE DEF t
  <2>3. Confidence(Score(t, pay)) = IF Refers(t, pay) THEN "high" ELSE "low"
    BY <2>1, ScoreLevels
  <2>4. t # None /\ Amount[t] = pay.amount /\ status[Account[t]] = "linked" /\ Account[t] \in BankAccounts
    BY <2>1, NoneAssumption, AttributesAssumption DEF Candidates
  <2>5. OnRecord(Account[t], trail)
    BY <2>4 DEF LinkedIsOnRecord
  <2> QED BY <2>1, <2>2, <2>3, <2>4, <2>5 DEF MatchFits, Refers, Results, Confidences
<1> QED BY <1>2, <1>3

(***************************************************************************)
(* The invariant is inductive.                                             *)
(***************************************************************************)

\* The invariant holds before there is an account or a payment.
LEMMA RCInvInit == RCInit => ReconciliationInv
<1> SUFFICES ASSUME RCInit PROVE ReconciliationInv
  OBVIOUS
<1>1. RCTypeOK
  <2>1. NewRow \in Rows /\ NoResult \in Results
    BY PaymentsAssumption DEF Rows, NewRow, Results, NoResult, Confidences
  <2>2. trail \in [BankAccounts -> Seq(Changes)]
    BY DEF RCInit
  <2> QED BY <2>1, <2>2 DEF RCInit, RCTypeOK
<1>2. IsFiniteSet(arrived)
  BY FS_EmptySet DEF RCInit
<1>3. LinkedIsOnRecord /\ WorkersWork
  BY DEF RCInit, LinkedIsOnRecord, WorkersWork, ActsOnAccount, PaysAlone
<1>4. MatchesTellTheRow
  BY DEF RCInit, MatchesTellTheRow, NewRow
<1> QED BY <1>1, <1>2, <1>3, <1>4 DEF ReconciliationInv

\* A worker that is done is well typed.
LEMMA IdleTypes ==
    ASSUME RCTypeOK, NEW w \in Workers, Idle(w)
    PROVE  /\ pc' \in [Workers -> {"idle", "write", "commit"}]
           /\ call' \in [Workers -> Payments \cup Actions \cup {None}]
           /\ seen' \in [Workers -> Statuses \cup {"none"}]
           /\ result' \in [Workers -> Results]
<1>1. NoResult \in Results
  BY DEF Results, NoResult, Confidences
<1>2. call \in [Workers -> Payments \cup Actions \cup {None}] /\ result \in [Workers -> Results]
  BY DEF RCTypeOK
<1>3. call' \in [Workers -> Payments \cup Actions \cup {None}] /\ result' \in [Workers -> Results]
  BY <1>1, <1>2 DEF Idle
<1> QED BY <1>3 DEF RCTypeOK, Idle

\* Steps keep the types; what the loop returns is a result.
LEMMA RCTypeNext == ReconciliationInv /\ [RCNext]_rcVars => RCTypeOK'
<1> SUFFICES ASSUME ReconciliationInv, [RCNext]_rcVars PROVE RCTypeOK'
  OBVIOUS
<1>0. RCTypeOK /\ WorkersWork /\ LinkedIsOnRecord /\ IsFiniteSet(arrived)
  BY DEF ReconciliationInv
<1>1. ASSUME NEW a \in BankAccounts, DiscoverAccount(a) PROVE RCTypeOK'
  <2>1. Change("none", "unlinked") \in Changes
    BY DEF Change, Changes, Statuses
  <2>2. status' \in [BankAccounts -> Statuses \cup {"none"}]
    BY <1>0, <1>1 DEF DiscoverAccount, RCTypeOK, Statuses
  <2>3. trail' \in [BankAccounts -> Seq(Changes)]
    BY <1>0, <1>1, <2>1 DEF DiscoverAccount, RCTypeOK
  <2> QED BY <1>0, <1>1, <2>2, <2>3 DEF DiscoverAccount, RCTypeOK
<1>2. ASSUME NEW t \in Transactions, CreateTransaction(t) PROVE RCTypeOK'
  BY <1>0, <1>2 DEF CreateTransaction, RCTypeOK
<1>3. ASSUME NEW w \in Workers, NEW action \in Actions, ReadAccount(w, action) PROVE RCTypeOK'
  <2>1. action.account \in BankAccounts
    BY DEF Actions
  <2>2. status[action.account] \in Statuses \cup {"none"}
    BY <1>0, <2>1 DEF RCTypeOK
  <2> QED BY <1>0, <1>3, <2>2 DEF ReadAccount, RCTypeOK
<1>4. ASSUME NEW w \in Workers, NEW pay \in Payments, Match(w, pay) PROVE RCTypeOK'
  <2>1. Reconcile(pay) \in Results
    BY <1>0, ReconcileFits
  <2>2. call' \in [Workers -> Payments \cup Actions \cup {None}] /\ result' \in [Workers -> Results]
    BY <1>0, <1>4, <2>1 DEF Match, RCTypeOK
  <2> QED BY <1>0, <1>4, <2>2 DEF Match, RCTypeOK
<1>5. ASSUME NEW w \in Workers, WriteAccount(w) PROVE RCTypeOK'
  <2>1. call[w] \in Actions /\ seen[w] \in Statuses
    BY <1>0, <1>5 DEF WriteAccount, WorkersWork, ActsOnAccount
  <2>2. call[w].account \in BankAccounts /\ call[w].status \in Statuses
    BY <2>1 DEF Actions
  <2>3. Change(seen[w], call[w].status) \in Changes
    BY <2>1, <2>2 DEF Change, Changes
  <2>0. trail[call[w].account] \in Seq(Changes)
    BY <1>0, <2>2 DEF RCTypeOK
  <2>4. Recorded(call[w].account, seen[w], call[w].status) \in Seq(Changes)
    BY <2>0, <2>3 DEF Recorded
  <2>5. trail' \in [BankAccounts -> Seq(Changes)]
    BY <1>0, <1>5, <2>4 DEF WriteAccount, RCTypeOK
  <2>6. status' \in [BankAccounts -> Statuses \cup {"none"}]
    BY <1>0, <1>5, <2>2 DEF WriteAccount, RCTypeOK
  <2>7. arrived' = arrived /\ rows' = rows /\ Idle(w)
    BY <1>5 DEF WriteAccount
  <2> QED BY <1>0, <2>5, <2>6, <2>7, IdleTypes DEF RCTypeOK
<1>6. ASSUME NEW w \in Workers, CommitPayment(w) PROVE RCTypeOK'
  <2> DEFINE r == call[w].repayment
  <2>1. call[w] \in Payments /\ call[w].amount <= Due - rows[r].paid
    BY <1>0, <1>6 DEF CommitPayment, WorkersWork, PaysAlone
  <2>2. r \in RepaymentIds /\ call[w].amount \in 1 .. Due /\ call[w].reference \in References \cup {None}
    BY <2>1 DEF Payments
  <2>3. rows[r] \in Rows /\ result[w] \in Results
    BY <1>0, <2>2 DEF RCTypeOK
  <2>4. rows[r].paid + call[w].amount \in 0 .. Due
    BY <2>1, <2>2, <2>3, PaymentsAssumption DEF Rows
  <2>5. [paid |-> rows[r].paid + call[w].amount, reference |-> call[w].reference,
         matched |-> result[w].matched, confidence |-> result[w].confidence,
         review |-> result[w].review] \in Rows
    BY <2>2, <2>3, <2>4 DEF Rows, Results
  <2>6. rows' \in [RepaymentIds -> Rows]
    BY <1>0, <1>6, <2>5 DEF CommitPayment, Matched, RCTypeOK
  <2>7. UNCHANGED <<status, trail, arrived>> /\ Idle(w)
    BY <1>6 DEF CommitPayment
  <2> QED BY <1>0, <2>6, <2>7, IdleTypes DEF RCTypeOK
<1>7. ASSUME NEW w \in Workers, Rollback(w) PROVE RCTypeOK'
  <2>1. UNCHANGED <<status, trail, arrived, rows>> /\ Idle(w)
    BY <1>7 DEF Rollback
  <2> QED BY <1>0, <2>1, IdleTypes DEF RCTypeOK
<1>8. CASE UNCHANGED rcVars
  BY <1>0, <1>8 DEF rcVars, RCTypeOK
<1> QED BY <1>1, <1>2, <1>3, <1>4, <1>5, <1>6, <1>7, <1>8 DEF RCNext

\* Transactions arrive one at a time.
LEMMA ArrivedStaysFinite == ReconciliationInv /\ [RCNext]_rcVars => IsFiniteSet(arrived)'
<1> SUFFICES ASSUME ReconciliationInv, [RCNext]_rcVars PROVE IsFiniteSet(arrived')
  OBVIOUS
<1>1. IsFiniteSet(arrived)
  BY DEF ReconciliationInv
<1>2. arrived' = arrived \/ \E t \in Transactions : arrived' = arrived \cup {t}
  BY DEF RCNext, rcVars, DiscoverAccount, CreateTransaction, ReadAccount, Match, WriteAccount,
         CommitPayment, Rollback
<1> QED BY <1>1, <1>2, FS_AddElement

\* What is on record stays on record: audit events are only added.
LEMMA RecordsStay ==
    ASSUME ReconciliationInv, [RCNext]_rcVars, NEW a \in BankAccounts, OnRecord(a, trail)
    PROVE  OnRecord(a, trail')
<1>1. PICK i \in 1 .. Len(trail[a]) : trail[a][i].to = "linked"
  BY DEF OnRecord
<1>2. trail[a] \in Seq(Changes) /\ trail \in [BankAccounts -> Seq(Changes)]
  BY DEF ReconciliationInv, RCTypeOK
<1>3. ASSUME NEW e, trail'[a] = Append(trail[a], e) PROVE OnRecord(a, trail')
  <2>1. i \in 1 .. Len(Append(trail[a], e)) /\ Append(trail[a], e)[i] = trail[a][i]
    BY <1>2
  <2> QED BY <1>1, <1>3, <2>1 DEF OnRecord
<1>4. trail'[a] = trail[a] \/ \E e : trail'[a] = Append(trail[a], e)
  <2>1. ASSUME NEW b \in BankAccounts, DiscoverAccount(b)
        PROVE  trail'[a] = trail[a] \/ \E e : trail'[a] = Append(trail[a], e)
    BY <1>2, <2>1 DEF DiscoverAccount
  <2>2. ASSUME NEW w \in Workers, WriteAccount(w)
        PROVE  trail'[a] = trail[a] \/ \E e : trail'[a] = Append(trail[a], e)
    BY <1>2, <2>2 DEF WriteAccount, Recorded
  <2>3. UNCHANGED trail \/ (\E b \in BankAccounts : DiscoverAccount(b)) \/ (\E w \in Workers : WriteAccount(w))
    BY DEF RCNext, rcVars, CreateTransaction, ReadAccount, Match, CommitPayment, Rollback
  <2> QED BY <2>1, <2>2, <2>3
<1> QED BY <1>1, <1>3, <1>4 DEF OnRecord

\* An event that is appended is on record.
LEMMA AppendedIsLast ==
    ASSUME NEW t \in Seq(Changes), NEW e \in Changes
    PROVE  Len(t) + 1 \in 1 .. Len(Append(t, e)) /\ Append(t, e)[Len(t) + 1] = e
OBVIOUS

\* An account gets linked only by a call that records it, or has read it as linked.
LEMMA LinkedNext == ReconciliationInv /\ [RCNext]_rcVars => LinkedIsOnRecord'
<1> SUFFICES ASSUME ReconciliationInv, [RCNext]_rcVars, NEW a \in BankAccounts, status'[a] = "linked"
             PROVE  OnRecord(a, trail')
  BY DEF LinkedIsOnRecord
<1>0. RCTypeOK /\ WorkersWork
  BY DEF ReconciliationInv
<1>1. status[a] = "linked" => OnRecord(a, trail')
  BY RecordsStay DEF ReconciliationInv, LinkedIsOnRecord
<1>2. ASSUME NEW b \in BankAccounts, DiscoverAccount(b) PROVE status[a] = "linked"
  BY <1>0, <1>2 DEF DiscoverAccount, RCTypeOK
<1>3. ASSUME NEW w \in Workers, WriteAccount(w), status[a] # "linked" PROVE OnRecord(a, trail')
  <2>1. call[w] \in Actions /\ seen[w] \in Statuses /\ (seen[w] = "linked" => OnRecord(call[w].account, trail))
    BY <1>0, <1>3 DEF WriteAccount, WorkersWork, ActsOnAccount
  <2>2. call[w].account = a /\ call[w].status = "linked"
    BY <1>0, <1>3 DEF WriteAccount, RCTypeOK
  <2>3. CASE seen[w] = "linked"
    BY <2>1, <2>2, <2>3, RecordsStay
  <2>4. CASE seen[w] # "linked"
    <3>1. trail[a] \in Seq(Changes) /\ Change(seen[w], "linked") \in Changes
      BY <1>0, <2>1 DEF RCTypeOK, Change, Changes, Statuses
    <3>2. trail'[a] = Append(trail[a], Change(seen[w], "linked"))
      BY <1>0, <1>3, <2>2, <2>4 DEF WriteAccount, Recorded, RCTypeOK
    <3> QED BY <3>1, <3>2, AppendedIsLast DEF OnRecord, Change
  <2> QED BY <2>3, <2>4
<1>4. UNCHANGED status \/ (\E b \in BankAccounts : DiscoverAccount(b)) \/ (\E w \in Workers : WriteAccount(w))
  BY DEF RCNext, rcVars, CreateTransaction, ReadAccount, Match, CommitPayment, Rollback
<1> QED BY <1>1, <1>2, <1>3, <1>4

\* A match that fits goes on fitting.
LEMMA FitsOn ==
    ASSUME ReconciliationInv, [RCNext]_rcVars, NEW m \in Transactions \cup {None}, NEW c, NEW v, NEW ref,
           MatchFits(m, c, v, ref, trail)
    PROVE  MatchFits(m, c, v, ref, trail')
<1>1. m # None => Account[m] \in BankAccounts
  BY AttributesAssumption
<1> QED BY <1>1, RecordsStay DEF MatchFits

\* A worker that takes no step, and whose repayment nobody else pays on, goes on
\* as it was.
LEMMA OtherWorks ==
    ASSUME ReconciliationInv, [RCNext]_rcVars, NEW w \in Workers,
           pc'[w] = pc[w], call'[w] = call[w], seen'[w] = seen[w], result'[w] = result[w]
    PROVE  /\ ActsOnAccount(w)'
           /\ pc[w] = "commit" =>
                /\ call[w] \in Payments
                /\ MatchFits(result[w].matched, result[w].confidence, result[w].review, call[w].reference, trail')
                /\ result[w].matched # None => Amount[result[w].matched] = call[w].amount
<1>0. RCTypeOK /\ ActsOnAccount(w) /\ PaysAlone(w)
  BY DEF ReconciliationInv, WorkersWork
<1>1. ActsOnAccount(w)'
  <2>1. call[w] \in Actions => call[w].account \in BankAccounts
    BY DEF Actions
  <2> QED BY <1>0, <2>1, RecordsStay DEF ActsOnAccount
<1>2. result[w] \in Results
  BY <1>0 DEF RCTypeOK
<1>3. result[w].matched \in Transactions \cup {None}
  BY <1>2 DEF Results
<1> QED BY <1>0, <1>1, <1>3, FitsOn DEF PaysAlone

\* A step keeps what each worker relies on, its own step and that of another.
LEMMA WorkersNext == ReconciliationInv /\ [RCNext]_rcVars => WorkersWork'
<1> SUFFICES ASSUME ReconciliationInv, [RCNext]_rcVars, NEW w \in Workers
             PROVE  ActsOnAccount(w)' /\ PaysAlone(w)'
  BY DEF WorkersWork
<1>0. RCTypeOK /\ WorkersWork /\ LinkedIsOnRecord /\ IsFiniteSet(arrived) /\ ActsOnAccount(w) /\ PaysAlone(w)
  BY DEF ReconciliationInv, WorkersWork
<1> DEFINE Same(v) == pc'[v] = pc[v] /\ call'[v] = call[v] /\ seen'[v] = seen[v] /\ result'[v] = result[v]
<1>a. ASSUME NEW v \in Workers, Idle(v)
      PROVE  /\ v = w => ActsOnAccount(w)' /\ PaysAlone(w)'
             /\ \A x \in Workers \ {v} : Same(x)
             /\ pc'[v] = "idle"
  BY <1>0, <1>a DEF Idle, RCTypeOK, ActsOnAccount, PaysAlone
<1>b. ASSUME Same(w),
             \A x \in Workers : pc'[x] = "commit" => Same(x),
             pc[w] = "commit" => rows'[call[w].repayment] = rows[call[w].repayment]
      PROVE  ActsOnAccount(w)' /\ PaysAlone(w)'
  BY <1>0, <1>b, OtherWorks DEF PaysAlone
<1>1. CASE UNCHANGED <<rows, pc, call, seen, result>>
  BY <1>1, <1>b
<1>2. ASSUME NEW v \in Workers, NEW action \in Actions, ReadAccount(v, action)
      PROVE  ActsOnAccount(w)' /\ PaysAlone(w)'
  <2>1. \A x \in Workers \ {v} : Same(x)
    BY <1>0, <1>2 DEF ReadAccount, RCTypeOK
  <2>2. pc'[v] = "write" /\ call'[v] = action /\ seen'[v] = status[action.account]
    BY <1>0, <1>2 DEF ReadAccount, RCTypeOK
  <2>3. CASE v = w
    <3>1. action.account \in BankAccounts
      BY DEF Actions
    <3>2. seen'[w] \in Statuses
      BY <1>0, <1>2, <2>2, <2>3, <3>1 DEF ReadAccount, RCTypeOK
    <3>3. seen'[w] = "linked" => OnRecord(action.account, trail')
      BY <1>0, <2>2, <2>3, <3>1, RecordsStay DEF LinkedIsOnRecord
    <3> QED BY <2>2, <2>3, <3>2, <3>3 DEF ActsOnAccount, PaysAlone
  <2>4. CASE v # w
    BY <1>2, <1>b, <2>1, <2>2, <2>4 DEF ReadAccount
  <2> QED BY <2>3, <2>4
<1>3. ASSUME NEW v \in Workers, NEW pay \in Payments, Match(v, pay)
      PROVE  ActsOnAccount(w)' /\ PaysAlone(w)'
  <2>1. \A x \in Workers \ {v} : Same(x)
    BY <1>0, <1>3 DEF Match, RCTypeOK
  <2>2. pc'[v] = "commit" /\ call'[v] = pay /\ result'[v] = Reconcile(pay) /\ rows' = rows
    BY <1>0, <1>3 DEF Match, RCTypeOK
  <2>3. \A x \in Workers \ {v} : pc[x] = "commit" => call[x].repayment # pay.repayment
    BY <1>3 DEF Match
  <2>4. CASE v = w
    <3> DEFINE r == Reconcile(pay)
    <3>1. /\ r \in Results
          /\ MatchFits(r.matched, r.confidence, r.review, pay.reference, trail)
          /\ r.matched # None => Amount[r.matched] = pay.amount
      BY <1>0, ReconcileFits
    <3> HIDE DEF r
    <3>2. r.matched \in Transactions \cup {None}
      BY <3>1 DEF Results
    <3>3. MatchFits(r.matched, r.confidence, r.review, pay.reference, trail')
      BY <3>1, <3>2, RecordsStay, AttributesAssumption, <1>3 DEF MatchFits, Match, OnRecord
    <3>4. pay.amount <= Due - rows[pay.repayment].paid
      BY <1>3 DEF Match
    <3>5. pc'[w] = "commit" /\ call'[w] = pay /\ result'[w] = r
      BY <2>2, <2>4 DEF r
    <3>6. \A x \in Workers \ {w} : pc'[x] = "commit" => call'[x].repayment # call'[w].repayment
      BY <2>1, <2>3, <2>4, <3>5
    <3>7. ActsOnAccount(w)'
      BY <3>5 DEF ActsOnAccount
    <3> QED BY <2>2, <3>1, <3>3, <3>4, <3>5, <3>6, <3>7 DEF PaysAlone, MatchFits, OnRecord
  <2>5. CASE v # w
    <3>1. /\ ActsOnAccount(w)'
          /\ pc[w] = "commit" =>
                /\ call[w] \in Payments
                /\ MatchFits(result[w].matched, result[w].confidence, result[w].review, call[w].reference, trail')
                /\ result[w].matched # None => Amount[result[w].matched] = call[w].amount
      BY <2>1, <2>5, OtherWorks
    <3> QED BY <1>0, <2>1, <2>2, <2>3, <2>5, <3>1 DEF PaysAlone
  <2> QED BY <2>4, <2>5
<1>4. ASSUME NEW v \in Workers, Idle(v),
             \A x \in Workers \ {v} : pc[x] = "commit" => rows'[call[x].repayment] = rows[call[x].repayment]
      PROVE  ActsOnAccount(w)' /\ PaysAlone(w)'
  BY <1>4, <1>a, <1>b
<1>5. ASSUME NEW v \in Workers, WriteAccount(v) \/ Rollback(v)
      PROVE  ActsOnAccount(w)' /\ PaysAlone(w)'
  BY <1>4, <1>5 DEF WriteAccount, Rollback
<1>6. ASSUME NEW v \in Workers, CommitPayment(v)
      PROVE  ActsOnAccount(w)' /\ PaysAlone(w)'
  <2>1. pc[v] = "commit" /\ PaysAlone(v)
    BY <1>0, <1>6 DEF CommitPayment, WorkersWork
  <2>2. \A x \in Workers \ {v} : pc[x] = "commit" => rows'[call[x].repayment] = rows[call[x].repayment]
    <3> SUFFICES ASSUME NEW x \in Workers \ {v}, pc[x] = "commit"
                 PROVE  rows'[call[x].repayment] = rows[call[x].repayment]
      OBVIOUS
    <3>1. call[x].repayment # call[v].repayment /\ PaysAlone(x)
      BY <1>0, <2>1 DEF PaysAlone, WorkersWork
    <3>2. call[x].repayment \in RepaymentIds
      BY <3>1 DEF PaysAlone, Payments
    <3> QED BY <1>0, <1>6, <3>1, <3>2 DEF CommitPayment, RCTypeOK
  <2> QED BY <1>4, <1>6, <2>2 DEF CommitPayment
<1> QED BY <1>1, <1>2, <1>3, <1>5, <1>6 DEF RCNext, rcVars, DiscoverAccount, CreateTransaction

\* A payment writes what fits together, and records of links stay.
LEMMA RowsNext == ReconciliationInv /\ [RCNext]_rcVars => MatchesTellTheRow'
<1> DEFINE RowTells(r) ==
        rows[r].paid > 0 =>
            /\ MatchFits(rows[r].matched, rows[r].confidence, rows[r].review, rows[r].reference, trail)
            /\ rows[r].matched # None => Amount[rows[r].matched] <= rows[r].paid
<1>0. MatchesTellTheRow <=> \A r \in RepaymentIds : RowTells(r)
  BY DEF MatchesTellTheRow, MatchFits, OnRecord
<1>1. (MatchesTellTheRow <=> \A r \in RepaymentIds : RowTells(r))'
  BY DEF MatchesTellTheRow, MatchFits, OnRecord
<1> SUFFICES ASSUME ReconciliationInv, [RCNext]_rcVars, NEW r \in RepaymentIds PROVE RowTells(r)'
  BY <1>1
<1>2. RCTypeOK /\ WorkersWork /\ RowTells(r)
  BY <1>0 DEF ReconciliationInv
<1>3. CASE rows'[r] = rows[r]
  <2>1. rows[r] \in Rows
    BY <1>2 DEF RCTypeOK
  <2>2. rows[r].matched \in Transactions \cup {None}
    BY <2>1 DEF Rows
  <2>3. rows[r].paid > 0 =>
            MatchFits(rows[r].matched, rows[r].confidence, rows[r].review, rows[r].reference, trail')
    BY <1>2, <2>2, FitsOn
  <2> QED BY <1>2, <1>3, <2>3
<1>4. ASSUME NEW w \in Workers, CommitPayment(w), rows'[r] # rows[r] PROVE RowTells(r)'
  <2>1. PaysAlone(w) /\ pc[w] = "commit"
    BY <1>2, <1>4 DEF CommitPayment, WorkersWork
  <2>2. call[w].repayment = r
    BY <1>2, <1>4 DEF CommitPayment, RCTypeOK
  <2>3. call[w] \in Payments /\ result[w] \in Results /\ rows[r] \in Rows
    BY <1>2, <2>1 DEF PaysAlone, RCTypeOK
  <2>4. result[w].matched \in Transactions \cup {None} /\ rows[r].paid \in Nat /\ call[w].amount \in Nat
    BY <2>3, PaymentsAssumption DEF Results, Rows, Payments
  <2>5. MatchFits(result[w].matched, result[w].confidence, result[w].review, call[w].reference, trail')
    BY <2>1, <2>4, FitsOn DEF PaysAlone
  <2>6. result[w].matched # None => Amount[result[w].matched] = call[w].amount
    BY <2>1 DEF PaysAlone
  <2>7. rows'[r] = [paid |-> rows[r].paid + call[w].amount, reference |-> call[w].reference,
                    matched |-> result[w].matched, confidence |-> result[w].confidence,
                    review |-> result[w].review]
    BY <1>2, <1>4, <2>2 DEF CommitPayment, Matched, RCTypeOK
  <2> QED BY <2>4, <2>5, <2>6, <2>7
<1>5. UNCHANGED rows \/ \E w \in Workers : CommitPayment(w)
  BY DEF RCNext, rcVars, DiscoverAccount, CreateTransaction, ReadAccount, Match, WriteAccount, Rollback
<1> QED BY <1>3, <1>4, <1>5

\* Every step keeps the invariant.
LEMMA RCInvNext == ReconciliationInv /\ [RCNext]_rcVars => ReconciliationInv'
BY RCTypeNext, ArrivedStaysFinite, LinkedNext, WorkersNext, RowsNext DEF ReconciliationInv

\* The invariant holds in every reachable state.
LEMMA RCInvAlways == RCSpec => []ReconciliationInv
BY RCInvInit, RCInvNext, PTL DEF RCSpec

(***************************************************************************)
(* The theorems.                                                           *)
(***************************************************************************)

\* Variables hold values of their types; matches name transactions, and never with
\* a result that is not one of ReconciliationResult.
THEOREM RCTypeCorrect == RCSpec => []RCTypeOK
BY RCInvAlways, PTL DEF ReconciliationInv

\* The loop of match_repayment_transaction ends with the transaction its scores are
\* meant to find, whatever transactions are stored and accounts linked.
THEOREM MatchesCorrect == RCSpec => []MatchesAreBest
<1>1. ReconciliationInv => MatchesAreBest
  <2> SUFFICES ASSUME ReconciliationInv, NEW pay \in Payments
               PROVE  LET best == BestMatch(pay)
                          level(t) == LET d == Distance(Date[t], pay.day)
                                      IN  IF d = 0 THEN 0 ELSE IF d <= 2 THEN 1 ELSE 2
                          mentions(t) == pay.reference # None /\ pay.reference \in Mentions[t]
                      IN  IF Candidates(pay) = {}
                          THEN best = None
                          ELSE /\ best \in Candidates(pay)
                               /\ \A t \in Candidates(pay) \ {best} :
                                      \/ mentions(best) /\ ~mentions(t)
                                      \/ /\ mentions(best) <=> mentions(t)
                                         /\ level(best) < level(t) \/ (level(best) = level(t) /\ best < t)
                               /\ Confidence(Score(best, pay)) = IF mentions(best) THEN "high" ELSE "low"
    BY DEF MatchesAreBest
  <2> DEFINE best == BestMatch(pay)
             level(t) == LET d == Distance(Date[t], pay.day)
                         IN  IF d = 0 THEN 0 ELSE IF d <= 2 THEN 1 ELSE 2
             mentions(t) == pay.reference # None /\ pay.reference \in Mentions[t]
  <2>1. IsFiniteSet(Candidates(pay)) /\ Candidates(pay) \subseteq Transactions
    BY CandidatesAreFinite DEF ReconciliationInv
  <2>2. BestOf(best, Candidates(pay), pay)
    BY <2>1, BestMatchIsBest
  <2>3. ASSUME NEW t \in Transactions
        PROVE  /\ mentions(t) <=> Refers(t, pay)
               /\ Score(t, pay) = (IF mentions(t) THEN 10 ELSE 3) - level(t)
               /\ level(t) \in 0 .. 2
               /\ t \in Nat
    BY AttributesAssumption, NoneAssumption, TransactionsAssumption DEF Refers, Score
  <2>4. CASE Candidates(pay) = {}
    BY <2>2, <2>4 DEF BestOf
  <2>5. CASE Candidates(pay) # {}
    <3>1. best \in Candidates(pay) /\ best \in Transactions
      BY <2>1, <2>2, <2>5 DEF BestOf
    <3>2. ASSUME NEW t \in Candidates(pay) \ {best}
          PROVE  \/ mentions(best) /\ ~mentions(t)
                 \/ /\ mentions(best) <=> mentions(t)
                    /\ level(best) < level(t) \/ (level(best) = level(t) /\ best < t)
      <4>1. t \in Transactions /\ best # t
        BY <2>1
      <4>2. Score(t, pay) < Score(best, pay) \/ (Score(t, pay) = Score(best, pay) /\ best <= t)
        BY <2>2, <2>5 DEF BestOf
      <4> HIDE DEF best, level, mentions
      <4> QED BY <2>3, <3>1, <4>1, <4>2
    <3>3. Confidence(Score(best, pay)) = IF mentions(best) THEN "high" ELSE "low"
      BY <2>3, <3>1, ScoreLevels
    <3> QED BY <2>5, <3>1, <3>2, <3>3
  <2> QED BY <2>4, <2>5
<1> QED BY <1>1, RCInvAlways, PTL

\* What a repayment row says of its match fits together, under any interleaving of
\* payments, status actions and arriving transactions.
THEOREM RowsCorrect == RCSpec => []MatchesTellTheRow
BY RCInvAlways, PTL DEF ReconciliationInv
-----------------------------------------------------------------------------
(***************************************************************************)
(* The family ledger.                                                      *)
(***************************************************************************)

\* The loans and repayments that have a row.
LoanRowsNow == {l \in Loans : Exists(loans[l])}
RepaymentRowsNow == {r \in Repayments : Exists(repayments[r])}

RowsAreFinite == IsFiniteSet(LoanRowsNow) /\ IsFiniteSet(RepaymentRowsNow)

\* What the ledger needs of the loan book.
LedgerInv == TypeOK /\ RowsReferToRows /\ ClosedIffSettled /\ RowsAreFinite

\* A step leaves the loan rows alone, adds one, or moves one to another status; it
\* leaves the repayment rows alone, adds one, or changes them but not their loans.
LEMMA RowSteps ==
    ASSUME TypeOK, RowsReferToRows, [Next]_vars
    PROVE  /\ \/ UNCHANGED loans
              \/ \E l \in Loans, lender \in Users, borrower \in Users : CreateLoan(l, lender, borrower)
              \/ \E l \in LoanRowsNow, s \in LoanStatus : MoveLoan(l, s)
           /\ \/ UNCHANGED repayments
              \/ \E r \in Repayments, l \in Loans, i \in Installments, d \in Days, a \in Amounts :
                    CreateRepayment(r, l, i, d, a)
              \/ \E r \in Repayments, a \in Amounts : ApplyPayment(r, a)
              \/ \E marked \in SUBSET Repayments : MarkOverdue(marked)
<1>1. ASSUME NEW l \in Loans, AcceptLoan(l) \/ RejectLoan(l) \/ CancelLoan(l)
      PROVE  UNCHANGED repayments /\ l \in LoanRowsNow /\ \E s \in LoanStatus : MoveLoan(l, s)
  BY <1>1 DEF AcceptLoan, RejectLoan, CancelLoan, BorrowerCalls, LoanStatus, LoanRowsNow
<1>2. ASSUME NEW r \in Repayments, NEW a \in Amounts, ApplyPayment(r, a), ~UNCHANGED loans
      PROVE  \E l \in LoanRowsNow, s \in LoanStatus : MoveLoan(l, s)
  <2>1. repayments[r] \in RepaymentRows /\ Exists(repayments[r])
    BY <1>2, RepaymentRow DEF ApplyPayment, Payable
  <2>2. repayments[r].loan \in LoanRowsNow
    BY <2>1 DEF RowsReferToRows, RepaymentRows, LoanRowsNow
  <2> QED BY <1>2, <2>2 DEF ApplyPayment, LoanStatus
<1>3. \A r \in Repayments, l \in Loans, i \in Installments, d \in Days, a \in Amounts :
          CreateRepayment(r, l, i, d, a) => UNCHANGED loans
  BY DEF CreateRepayment
<1> QED
  BY <1>1, <1>2, <1>3 DEF Next, vars, RegisterUser, CreateLoan, MarkOverdue, NextDay

\* What a step makes of the loan rows: rows stay, with their parties, and at most
\* one is new.
LEMMA LoanRowsStep ==
    ASSUME TypeOK, RowsReferToRows, [Next]_vars
    PROVE  /\ \A l \in LoanRowsNow :
                /\ l \in LoanRowsNow'
                /\ loans'[l].lender = loans[l].lender
                /\ loans'[l].borrower = loans[l].borrower
           /\ LoanRowsNow' = LoanRowsNow \/ \E l \in Loans : LoanRowsNow' = LoanRowsNow \cup {l}
<1>1. CASE UNCHANGED loans
  BY <1>1 DEF LoanRowsNow
<1>2. ASSUME NEW l \in LoanRowsNow, NEW s \in LoanStatus, MoveLoan(l, s)
      PROVE  /\ \A k \in LoanRowsNow :
                  /\ k \in LoanRowsNow'
                  /\ loans'[k].lender = loans[k].lender
                  /\ loans'[k].borrower = loans[k].borrower
             /\ LoanRowsNow' = LoanRowsNow
  <2>1. loans[l] \in LoanRows /\ l \in Loans
    BY <1>2, LoanRow DEF LoanRowsNow
  <2>2. /\ loans'[l] = [loans[l] EXCEPT !.status = s]
        /\ \A k \in Loans \ {l} : loans'[k] = loans[k]
    BY <1>2, <2>1 DEF MoveLoan, TypeOK
  <2>3. /\ Exists(loans'[l])
        /\ loans'[l].lender = loans[l].lender
        /\ loans'[l].borrower = loans[l].borrower
    BY <2>1, <2>2 DEF LoanRows, LoanStatus, Exists
  <2> QED BY <1>2, <2>2, <2>3 DEF LoanRowsNow
<1>3. ASSUME NEW l \in Loans, NEW lender \in Users, NEW borrower \in Users, CreateLoan(l, lender, borrower)
      PROVE  /\ \A k \in LoanRowsNow : k \in LoanRowsNow' /\ loans'[k] = loans[k]
             /\ LoanRowsNow' = LoanRowsNow \cup {l}
  <2>1. /\ Exists(loans'[l])
        /\ \A k \in Loans \ {l} : loans'[k] = loans[k]
    BY <1>3 DEF CreateLoan, TypeOK, Exists
  <2>2. l \notin LoanRowsNow
    BY <1>3 DEF CreateLoan, LoanRowsNow
  <2> QED BY <2>1, <2>2 DEF LoanRowsNow
<1> QED BY <1>1, <1>2, <1>3, RowSteps

\* What a step makes of the repayment rows: rows stay, and at most one is new.
LEMMA RepaymentRowsStep ==
    ASSUME TypeOK, RowsReferToRows, [Next]_vars
    PROVE  /\ RepaymentRowsNow \subseteq RepaymentRowsNow'
           /\ \/ RepaymentRowsNow' = RepaymentRowsNow
              \/ \E r \in Repayments : RepaymentRowsNow' = RepaymentRowsNow \cup {r}
<1>1. CASE UNCHANGED repayments
  BY <1>1 DEF RepaymentRowsNow
<1>2. ASSUME NEW r \in Repayments, NEW l \in Loans, NEW i \in Installments, NEW d \in Days,
             NEW a \in Amounts, CreateRepayment(r, l, i, d, a)
      PROVE  RepaymentRowsNow' = RepaymentRowsNow \cup {r}
  BY <1>2 DEF CreateRepayment, RepaymentRowsNow, TypeOK, Exists
<1>3. ASSUME NEW r \in Repayments, NEW a \in Amounts, ApplyPayment(r, a)
      PROVE  RepaymentRowsNow' = RepaymentRowsNow
  <2>1. /\ PaidRow(r, a) \in RepaymentRows /\ Exists(repayments[r])
        /\ repayments' = [repayments EXCEPT ![r] = PaidRow(r, a)]
    BY <1>3, PaidRowType DEF ApplyPayment, Payable
  <2>2. Exists(PaidRow(r, a))
    BY <2>1 DEF RepaymentRows, RepaymentStatus, Exists
  <2> QED BY <2>1, <2>2 DEF RepaymentRowsNow, TypeOK
<1>4. ASSUME NEW marked \in SUBSET Repayments, MarkOverdue(marked)
      PROVE  RepaymentRowsNow' = RepaymentRowsNow
  <2>1. \A r \in marked : Exists(repayments[r]) /\ repayments'[r] = [repayments[r] EXCEPT !.status = "overdue"]
    BY <1>4 DEF MarkOverdue, NewlyOverdue
  <2>2. \A r \in marked : Exists(repayments'[r])
    <3> SUFFICES ASSUME NEW r \in marked PROVE Exists(repayments'[r])
      OBVIOUS
    <3>1. repayments[r] \in RepaymentRows
      BY <2>1, RepaymentRow
    <3> QED BY <2>1, <3>1 DEF RepaymentRows, Exists
  <2>3. \A r \in Repayments \ marked : repayments'[r] = repayments[r]
    BY <1>4 DEF MarkOverdue
  <2> QED BY <2>1, <2>2, <2>3 DEF RepaymentRowsNow
<1> QED BY <1>1, <1>2, <1>3, <1>4, RowSteps

\* A step adds at most one row to each table.
LEMMA RowsStayFinite ==
    ASSUME TypeOK, RowsReferToRows, RowsAreFinite, [Next]_vars
    PROVE  RowsAreFinite'
BY LoanRowsStep, RepaymentRowsStep, FS_AddElement DEF RowsAreFinite

\* What the ledger needs of the loan book is so in every reachable state.
LEMMA LedgerInvHolds == Spec => []LedgerInv
<1>1. Init => RowsAreFinite
  <2> SUFFICES ASSUME Init PROVE RowsAreFinite
    OBVIOUS
  <2>1. LoanRowsNow = {} /\ RepaymentRowsNow = {}
    BY DEF Init, LoanRowsNow, RepaymentRowsNow, Exists, NoRow
  <2> QED BY <2>1, FS_EmptySet DEF RowsAreFinite
<1>2. TypeOK /\ RowsReferToRows /\ RowsAreFinite /\ [Next]_vars => RowsAreFinite'
  BY RowsStayFinite
<1> QED
  BY <1>1, <1>2, TypeCorrect, ReferencesCorrect, SettlementCorrect, PTL DEF Spec, LedgerInv

\* What is paid on repayment r counts for loan l.
Part(l, r) == IF r \in RepaymentsOf(l) THEN repayments[r].amount_paid ELSE 0

\* PaidOn is a sum over the repayment rows, whichever finite set holds them.
LEMMA PaidOnParts ==
    ASSUME TypeOK, NEW l \in Loans, NEW A \in SUBSET Repayments, IsFiniteSet(A),
           RepaymentRowsNow \subseteq A
    PROVE  LET f == [r \in RepaymentsOf(l) |-> repayments[r].amount_paid]
           IN  /\ RepaymentsOf(l) \in SUBSET A /\ IsFiniteSet(RepaymentsOf(l))
               /\ f \in [RepaymentsOf(l) -> Int] /\ PaidOn(l) = SumFunction(f)
               /\ \A r \in A : Padded(f, A)[r] = Part(l, r)
<1> DEFINE f == [r \in RepaymentsOf(l) |-> repayments[r].amount_paid]
<1>1. RepaymentsOf(l) \in SUBSET A
  BY DEF RepaymentsOf, RepaymentRowsNow
<1>2. \A r \in RepaymentsOf(l) : repayments[r].amount_paid \in Int
  <2>1. \A r \in RepaymentsOf(l) : repayments[r] \in RepaymentRows
    BY RepaymentRow DEF RepaymentsOf
  <2> QED BY <2>1 DEF RepaymentRows
<1>3. f \in [RepaymentsOf(l) -> Int]
  BY <1>2
<1>4. \A r \in A : Padded(f, A)[r] = Part(l, r)
  BY DEF Padded, Part
<1>5. IsFiniteSet(RepaymentsOf(l))
  BY <1>1, FS_Subset
<1> QED BY <1>1, <1>3, <1>4, <1>5 DEF PaidOn

AmountsArePaid == \A l \in Loans : PaidOn(l) \in Int

\* What has been paid on a loan is an integer.
LEMMA PaidOnType == TypeOK /\ RowsAreFinite => AmountsArePaid
<1> SUFFICES ASSUME TypeOK, RowsAreFinite, NEW l \in Loans PROVE PaidOn(l) \in Int
  BY DEF AmountsArePaid
<1>1. RepaymentRowsNow \in SUBSET Repayments /\ IsFiniteSet(RepaymentRowsNow)
  BY DEF RepaymentRowsNow, RowsAreFinite
<1> DEFINE f == [r \in RepaymentsOf(l) |-> repayments[r].amount_paid]
<1>2. f \in [RepaymentsOf(l) -> Int] /\ PaidOn(l) = SumFunction(f) /\ IsFiniteSet(RepaymentsOf(l))
  BY <1>1, PaidOnParts
<1> HIDE DEF f
<1> QED BY <1>2, SumType

\* What is paid on a loan moves with the part of one repayment.
LEMMA PaidOnMoves ==
    ASSUME TypeOK, TypeOK', RowsAreFinite', RepaymentRowsNow \subseteq RepaymentRowsNow',
           NEW l \in Loans, NEW r \in RepaymentRowsNow',
           \A q \in Repayments \ {r} : Part(l, q)' = Part(l, q)
    PROVE  PaidOn(l)' - PaidOn(l) = Part(l, r)' - Part(l, r)
<1> DEFINE A == RepaymentRowsNow'
           f == [q \in RepaymentsOf(l) |-> repayments[q].amount_paid]
           e == [q \in RepaymentsOf(l)' |-> repayments'[q].amount_paid]
<1>1. A \in SUBSET Repayments /\ IsFiniteSet(A)
  BY DEF RepaymentRowsNow, RowsAreFinite
<1>2. /\ RepaymentsOf(l) \in SUBSET A
      /\ f \in [RepaymentsOf(l) -> Int] /\ PaidOn(l) = SumFunction(f)
      /\ \A q \in A : Padded(f, A)[q] = Part(l, q)
  <2> HIDE DEF A
  <2> QED BY <1>1, PaidOnParts DEF A
<1>3. /\ RepaymentsOf(l)' \in SUBSET A
      /\ e \in [RepaymentsOf(l)' -> Int] /\ PaidOn(l)' = SumFunction(e)
      /\ \A q \in A : Padded(e, A)[q] = Part(l, q)'
  <2>1. RepaymentsOf(l)' \in SUBSET A
    BY DEF RepaymentsOf, RepaymentRowsNow
  <2>2. \A q \in RepaymentsOf(l)' : repayments'[q].amount_paid \in Int
    <3>1. \A q \in RepaymentsOf(l)' : repayments'[q] \in RepaymentRows
      BY DEF RepaymentsOf, TypeOK, Exists, NoRow
    <3> QED BY <3>1 DEF RepaymentRows
  <2>3. \A q \in A : Padded(e, A)[q] = Part(l, q)'
    BY DEF Padded, Part
  <2> QED BY <2>1, <2>2, <2>3 DEF PaidOn
<1>4. \A q \in A \ {r} : Padded(e, A)[q] = Padded(f, A)[q]
  BY <1>1, <1>2, <1>3
<1> HIDE DEF A, e, f
<1>5. SumFunction(e) - SumFunction(f) = Padded(e, A)[r] - Padded(f, A)[r]
  BY <1>1, <1>2, <1>3, <1>4, SumMoves DEF A
<1> QED BY <1>2, <1>3, <1>5 DEF A

\* A step other than a payment on r leaves the part of r.
LEMMA PartsStep ==
    ASSUME TypeOK, RowsReferToRows, [Next]_vars, NEW l \in Loans, NEW r \in Repayments,
           ~ \E a \in Amounts : ApplyPayment(r, a)
    PROVE  Part(l, r)' = Part(l, r)
<1>1. CASE repayments'[r] = repayments[r]
  BY <1>1 DEF Part, RepaymentsOf
<1>2. ASSUME NEW q \in Repayments, NEW k \in Loans, NEW i \in Installments, NEW d \in Days,
             NEW a \in Amounts, CreateRepayment(q, k, i, d, a), q = r
      PROVE  Part(l, r)' = Part(l, r)
  <2>1. ~Exists(repayments[r]) /\ repayments'[r].amount_paid = 0
    BY <1>2 DEF CreateRepayment, TypeOK
  <2> QED BY <2>1 DEF Part, RepaymentsOf
<1>3. ASSUME NEW marked \in SUBSET Repayments, MarkOverdue(marked), r \in marked
      PROVE  Part(l, r)' = Part(l, r)
  <2>1. /\ Exists(repayments[r]) /\ repayments[r] \in RepaymentRows
        /\ repayments'[r] = [repayments[r] EXCEPT !.status = "overdue"]
    BY <1>3, RepaymentRow DEF MarkOverdue, NewlyOverdue
  <2>2. /\ Exists(repayments'[r])
        /\ repayments'[r].loan = repayments[r].loan
        /\ repayments'[r].amount_paid = repayments[r].amount_paid
    BY <2>1 DEF RepaymentRows, Exists
  <2> QED BY <2>1, <2>2 DEF Part, RepaymentsOf
<1>4. ASSUME NEW q \in Repayments, NEW k \in Loans, NEW i \in Installments, NEW d \in Days,
             NEW a \in Amounts, CreateRepayment(q, k, i, d, a), q # r
      PROVE  repayments'[r] = repayments[r]
  BY <1>4 DEF CreateRepayment, TypeOK
<1>5. ASSUME NEW q \in Repayments, NEW a \in Amounts, ApplyPayment(q, a)
      PROVE  repayments'[r] = repayments[r]
  BY <1>5 DEF ApplyPayment, TypeOK
<1>6. ASSUME NEW marked \in SUBSET Repayments, MarkOverdue(marked), r \notin marked
      PROVE  repayments'[r] = repayments[r]
  BY <1>6 DEF MarkOverdue
<1> QED BY <1>1, <1>2, <1>3, <1>4, <1>5, <1>6, RowSteps

\* What is paid on a loan is changed by a payment on one of its repayments only.
LEMMA PaidOnStays ==
    ASSUME TypeOK, TypeOK', RowsReferToRows, RowsAreFinite, RowsAreFinite', [Next]_vars, NEW l \in Loans,
           \A r \in Repayments : Part(l, r)' = Part(l, r)
    PROVE  PaidOn(l)' = PaidOn(l)
<1>1. RepaymentRowsNow \subseteq RepaymentRowsNow'
  BY RepaymentRowsStep
<1>2. CASE RepaymentRowsNow' = {}
  <2>1. RepaymentsOf(l) = {} /\ RepaymentsOf(l)' = {}
    BY <1>1, <1>2 DEF RepaymentsOf, RepaymentRowsNow
  <2>2. [r \in RepaymentsOf(l) |-> repayments[r].amount_paid]
            = [r \in RepaymentsOf(l)' |-> repayments'[r].amount_paid]
    BY <2>1
  <2> QED BY <2>2 DEF PaidOn
<1>3. ASSUME NEW r \in RepaymentRowsNow' PROVE PaidOn(l)' = PaidOn(l)
  <2>1. r \in Repayments
    BY DEF RepaymentRowsNow
  <2>2. PaidOn(l)' - PaidOn(l) = Part(l, r)' - Part(l, r) /\ Part(l, r)' = Part(l, r)
    BY <1>1, <2>1, PaidOnMoves
  <2>3. Part(l, r) \in Int
    <3>1. r \in RepaymentsOf(l) => repayments[r] \in RepaymentRows
      BY RepaymentRow DEF RepaymentsOf
    <3> QED BY <3>1 DEF Part, RepaymentRows
  <2>4. PaidOn(l) \in Int
    BY PaidOnType DEF AmountsArePaid
  <2>5. PaidOn(l)' \in Int
    <3>1. AmountsArePaid'
      BY PaidOnType, PTL
    <3> QED BY <3>1 DEF AmountsArePaid
  <2> QED BY <2>2, <2>3, <2>4, <2>5
<1> QED BY <1>2, <1>3

\* Paying amount on r adds it to what is paid on the loan of r, and to no other.
LEMMA PaidOnPaid ==
    ASSUME TypeOK, TypeOK', RowsReferToRows, RowsAreFinite, RowsAreFinite', [Next]_vars,
           NEW r \in Repayments, NEW a \in Amounts, ApplyPayment(r, a), NEW l \in Loans
    PROVE  PaidOn(l)' = PaidOn(l) + (IF l = repayments[r].loan THEN a ELSE 0)
<1>1. /\ repayments[r] \in RepaymentRows /\ Exists(repayments[r]) /\ Exists(repayments'[r])
      /\ repayments'[r].loan = repayments[r].loan
      /\ repayments'[r].amount_paid = repayments[r].amount_paid + a
      /\ \A q \in Repayments \ {r} : repayments'[q] = repayments[q]
  <2>1. /\ PaidRow(r, a) \in RepaymentRows /\ Exists(repayments[r]) /\ repayments[r] \in RepaymentRows
        /\ PaidRow(r, a).amount_paid = repayments[r].amount_paid + a
        /\ \A f \in {"loan", "installment", "due_date", "amount_due"} :
                PaidRow(r, a)[f] = repayments[r][f]
        /\ repayments' = [repayments EXCEPT ![r] = PaidRow(r, a)]
    BY PaidRowType DEF ApplyPayment, Payable
  <2>2. Exists(PaidRow(r, a)) /\ PaidRow(r, a).loan = repayments[r].loan
    BY <2>1 DEF RepaymentRows, RepaymentStatus, Exists
  <2> QED BY <2>1, <2>2 DEF TypeOK
<1>2. RepaymentRowsNow \subseteq RepaymentRowsNow' /\ r \in RepaymentRowsNow'
  BY <1>1, RepaymentRowsStep DEF RepaymentRowsNow
<1>3. \A q \in Repayments \ {r} : Part(l, q)' = Part(l, q)
  BY <1>1 DEF Part, RepaymentsOf
<1>4. PaidOn(l)' - PaidOn(l) = Part(l, r)' - Part(l, r)
  BY <1>2, <1>3, PaidOnMoves
<1>5. /\ Part(l, r) = (IF l = repayments[r].loan THEN repayments[r].amount_paid ELSE 0)
      /\ Part(l, r)' = (IF l = repayments[r].loan THEN repayments[r].amount_paid + a ELSE 0)
  BY <1>1 DEF Part, RepaymentsOf
<1>6. PaidOn(l) \in Int /\ PaidOn(l)' \in Int
  <2>1. AmountsArePaid'
    BY PaidOnType, PTL
  <2> QED BY <2>1, PaidOnType DEF AmountsArePaid
<1>7. a \in Int /\ repayments[r].amount_paid \in Int
  BY <1>1, AmountsAssumption DEF RepaymentRows
<1> QED BY <1>4, <1>5, <1>6, <1>7

\* A step moves at most one debt, as it may be moved.
LEMMA DebtsStep ==
    ASSUME LedgerInv, LedgerInv', [Next]_vars, NEW l \in Loans, Outstanding(l)' # Outstanding(l)
    PROVE  DebtMoves(l) /\ \A k \in Loans \ {l} : Outstanding(k)' = Outstanding(k)
<1>0. TypeOK /\ TypeOK' /\ RowsReferToRows /\ ClosedIffSettled /\ RowsAreFinite /\ RowsAreFinite'
  BY DEF LedgerInv
<1>1. \A k \in Loans : Principal[k] \in Nat /\ PaidOn(k) \in Int
  BY <1>0, PrincipalAssumption, PaidOnType DEF AmountsArePaid
<1>2. ASSUME ~ \E r \in Repayments, a \in Amounts : ApplyPayment(r, a)
      PROVE  /\ \A k \in Loans : PaidOn(k)' = PaidOn(k)
             /\ \A k \in Loans : (Counted(k)' <=> Counted(k)) => Outstanding(k)' = Outstanding(k)
  <2>1. \A k \in Loans : \A r \in Repayments : Part(k, r)' = Part(k, r)
    BY <1>0, <1>2, PartsStep
  <2>2. \A k \in Loans : PaidOn(k)' = PaidOn(k)
    BY <1>0, <2>1, PaidOnStays
  <2> QED BY <2>2 DEF Outstanding
<1>3. CASE UNCHANGED loans /\ ~ \E r \in Repayments, a \in Amounts : ApplyPayment(r, a)
  BY <1>2, <1>3 DEF Counted
<1>4. ASSUME NEW k \in Loans, NEW r \in Repayments, NEW a \in Amounts, ApplyPayment(r, a)
      PROVE  ~ UNCHANGED repayments
  <2>1. /\ repayments'[r].amount_paid = repayments[r].amount_paid + a
        /\ repayments[r].amount_paid \in Nat /\ a \in Nat \ {0}
    BY <1>0, <1>4, PaidRowType, AmountsAssumption DEF ApplyPayment, TypeOK, RepaymentRows
  <2> QED BY <2>1
<1>5. ASSUME NEW k \in Loans, NEW lender \in Users, NEW borrower \in Users, CreateLoan(k, lender, borrower)
      PROVE  FALSE
  <2>1. UNCHANGED repayments /\ ~Exists(loans[k]) /\ loans'[k].status \in Pending
    BY <1>0, <1>5 DEF CreateLoan, TypeOK, Pending
  <2>2. \A j \in Loans \ {k} : loans'[j] = loans[j]
    BY <1>0, <1>5 DEF CreateLoan, TypeOK
  <2>3. \A j \in Loans : Counted(j)' <=> Counted(j)
    BY <2>1, <2>2 DEF Counted
  <2> QED BY <1>2, <1>4, <2>1, <2>3
<1>6. ASSUME NEW k \in Loans, NEW s \in LoanStatus, MoveLoan(k, s), UNCHANGED repayments
      PROVE  /\ \A j \in Loans \ {k} : Outstanding(j)' = Outstanding(j)
             /\ k # l => FALSE
             /\ Counted(l)' # Counted(l)
             /\ loans'[k].status = s \/ ~Exists(loans[k])
  <2>1. \A j \in Loans \ {k} : loans'[j] = loans[j]
    BY <1>0, <1>6 DEF MoveLoan, TypeOK
  <2>2. \A j \in Loans \ {k} : Outstanding(j)' = Outstanding(j)
    BY <1>2, <1>4, <1>6, <2>1 DEF Counted
  <2>3. Counted(l)' # Counted(l)
    BY <1>2, <1>4, <1>6
  <2>4. Exists(loans[k]) => loans'[k].status = s
    <3>1. Exists(loans[k]) => loans[k] \in LoanRows
      BY <1>0, LoanRow
    <3> QED BY <1>0, <1>6, <3>1 DEF MoveLoan, TypeOK, LoanRows
  <2> QED BY <2>2, <2>3, <2>4
<1>7. ASSUME NEW k \in Loans, AcceptLoan(k) \/ RejectLoan(k) \/ CancelLoan(k)
      PROVE  DebtMoves(l) /\ \A j \in Loans \ {l} : Outstanding(j)' = Outstanding(j)
  <2>1. \E s \in LoanStatus : MoveLoan(k, s)
    BY <1>7 DEF AcceptLoan, RejectLoan, CancelLoan, LoanStatus
  <2>2. UNCHANGED repayments /\ Exists(loans[k]) /\ loans[k].status \in Pending
    BY <1>7 DEF AcceptLoan, RejectLoan, CancelLoan, BorrowerCalls, Cancellable, Pending
  <2>3. k = l /\ \A j \in Loans \ {l} : Outstanding(j)' = Outstanding(j)
    BY <1>6, <2>1, <2>2
  <2> QED BY <2>2, <2>3 DEF DebtMoves, Counted
<1>8. ASSUME NEW r \in Repayments, NEW a \in Amounts, ApplyPayment(r, a)
      PROVE  DebtMoves(l) /\ \A j \in Loans \ {l} : Outstanding(j)' = Outstanding(j)
  <2>0. PICK k \in Loans : k = repayments[r].loan
    BY <1>0, <1>8, RepaymentRow DEF ApplyPayment, Payable, RepaymentRows
  <2>1. /\ repayments[r] \in RepaymentRows /\ Exists(repayments[r])
        /\ repayments[r].status # "paid" /\ loans[k].status \notin {"cancelled", "rejected"}
        /\ a \in Nat \ {0}
    BY <1>0, <1>8, <2>0, RepaymentRow, AmountsAssumption DEF ApplyPayment, Payable, RepaymentRows
  <2>2. Exists(loans[k]) /\ loans[k] \in LoanRows
    BY <1>0, <2>0, <2>1, LoanRow DEF RowsReferToRows
  <2>3. /\ \A j \in Loans \ {k} : PaidOn(j)' = PaidOn(j)
        /\ PaidOn(k)' = PaidOn(k) + a
    BY <1>0, <1>1, <1>8, <2>0, <2>1, PaidOnPaid
  <2>4. \A j \in Loans \ {k} : loans'[j] = loans[j]
    BY <1>0, <1>8, <2>0 DEF ApplyPayment, MoveLoan, TypeOK
  <2>5. \A j \in Loans \ {k} : Outstanding(j)' = Outstanding(j)
    BY <2>3, <2>4 DEF Outstanding, Counted
  <2>6. k = l
    BY <2>5
  <2>7. loans[k].status # "closed"
    <3>1. r \in RepaymentsOf(k)
      BY <2>0, <2>1 DEF RepaymentsOf
    <3> QED BY <1>0, <2>1, <2>2, <3>1 DEF ClosedIffSettled
  <2>8. CASE loans[k].status \in Pending
    BY <2>2, <2>5, <2>6, <2>8 DEF DebtMoves, Counted
  <2>9. CASE loans[k].status = "active"
    <3>1. Counted(k) /\ Counted(k)'
      <4>1. loans'[k].status \in {"active", "closed"} /\ Exists(loans'[k])
        BY <1>0, <1>8, <2>0, <2>2, <2>9 DEF ApplyPayment, MoveLoan, TypeOK, LoanRows, Exists
      <4> QED BY <2>2, <2>9, <4>1 DEF Counted, Pending
    <3>2. Principal[k] \in Nat /\ PaidOn(k) \in Int
      BY <1>1, <2>1
    <3> DEFINE p == Principal[k]
               q == PaidOn(k)
               o == Outstanding(k)
               n == Outstanding(k)'
    <3>3. /\ o = IF p - q > 0 THEN p - q ELSE 0
          /\ n = IF p - (q + a) > 0 THEN p - (q + a) ELSE 0
      BY <2>3, <3>1 DEF Outstanding
    <3>4. p \in Nat /\ q \in Int /\ n # o /\ a \in Nat
      BY <2>1, <2>6, <3>2
    <3>5. n < o /\ o - n <= a
      <4> HIDE DEF p, q, o, n
      <4> QED BY <3>3, <3>4
    <3>6. PaidOn(k)' - PaidOn(k) = a
      BY <2>1, <2>3, <3>2
    <3> QED BY <2>5, <2>6, <2>9, <3>1, <3>5, <3>6 DEF DebtMoves
  <2> QED BY <2>2, <2>1, <2>5, <2>7, <2>8, <2>9 DEF LoanRows, LoanStatus, Pending
<1>9. \/ \E k \in Loans, lender \in Users, borrower \in Users : CreateLoan(k, lender, borrower)
      \/ \E k \in Loans : AcceptLoan(k) \/ RejectLoan(k) \/ CancelLoan(k)
      \/ \E r \in Repayments, a \in Amounts : ApplyPayment(r, a)
      \/ UNCHANGED loans
  BY DEF Next, vars, RegisterUser, CreateRepayment, MarkOverdue, NextDay
<1> QED BY <1>3, <1>5, <1>7, <1>8, <1>9

\* The loans u has lent, or borrowed, among members.
Of(members, u, side) == {l \in LoansAmong(members) : loans[l][side] = u}

\* What loan l adds to the debts on that side.
Debt(l, members, u, side) == IF l \in Of(members, u, side) THEN Outstanding(l) ELSE 0

DebtsAreAmounts == \A l \in Loans : Outstanding(l) \in Int

\* What is owed on a loan is an integer.
LEMMA OutstandingType == LedgerInv => DebtsAreAmounts
<1> SUFFICES ASSUME LedgerInv, NEW l \in Loans PROVE Outstanding(l) \in Int
  BY DEF DebtsAreAmounts
<1>1. Principal[l] \in Nat /\ PaidOn(l) \in Int
  BY PrincipalAssumption, PaidOnType DEF AmountsArePaid, LedgerInv
<1> QED BY <1>1 DEF Outstanding

TotalsAreAmounts ==
    \A members \in SUBSET Users : \A u \in Users :
        TotalLent(members, u) \in Int /\ TotalBorrowed(members, u) \in Int

\* What a member has lent and borrowed in all are integers.
LEMMA TotalsType == LedgerInv => TotalsAreAmounts
<1> SUFFICES ASSUME LedgerInv PROVE TotalsAreAmounts
  OBVIOUS
<1>1. ASSUME NEW ls \in SUBSET LoanRowsNow PROVE Owed(ls) \in Int
  <2> DEFINE f == [l \in ls |-> Outstanding(l)]
  <2>1. IsFiniteSet(ls)
    BY FS_Subset DEF LedgerInv, RowsAreFinite
  <2>2. f \in [ls -> Int]
    BY OutstandingType DEF DebtsAreAmounts, LoanRowsNow
  <2>3. Owed(ls) = SumFunction(f)
    BY DEF Owed
  <2> HIDE DEF f
  <2> QED BY <2>1, <2>2, <2>3, SumType
<1>2. \A members, u : /\ {l \in LoansAmong(members) : loans[l].lender = u} \subseteq LoanRowsNow
                      /\ {l \in LoansAmong(members) : loans[l].borrower = u} \subseteq LoanRowsNow
  BY DEF LoansAmong, Counted, LoanRowsNow
<1> QED BY <1>1, <1>2 DEF TotalsAreAmounts, TotalLent, TotalBorrowed

\* What is owed on one side moves with the debt of one loan.
LEMMA OwedMoves ==
    ASSUME LedgerInv, LedgerInv', LoanRowsNow \subseteq LoanRowsNow',
           NEW members, NEW u, NEW side, NEW l \in LoanRowsNow',
           \A k \in Loans \ {l} : Debt(k, members, u, side)' = Debt(k, members, u, side)
    PROVE  Owed(Of(members, u, side))' - Owed(Of(members, u, side))
               = Debt(l, members, u, side)' - Debt(l, members, u, side)
<1> DEFINE A == LoanRowsNow'
           S == Of(members, u, side)
           T == Of(members, u, side)'
           f == [k \in S |-> Outstanding(k)]
           e == [k \in T |-> Outstanding(k)']
<1>1. A \in SUBSET Loans /\ IsFiniteSet(A)
  BY DEF LoanRowsNow, RowsAreFinite, LedgerInv
<1>2. S \in SUBSET A /\ T \in SUBSET A
  BY DEF Of, LoansAmong, Counted, LoanRowsNow
<1>3. f \in [S -> Int] /\ e \in [T -> Int]
  <2>1. DebtsAreAmounts /\ DebtsAreAmounts'
    BY OutstandingType, PTL
  <2> QED BY <1>1, <1>2, <2>1 DEF DebtsAreAmounts
<1>4. /\ \A k \in A : Padded(f, A)[k] = Debt(k, members, u, side)
      /\ \A k \in A : Padded(e, A)[k] = Debt(k, members, u, side)'
  BY DEF Padded, Debt
<1>5. Owed(S) = SumFunction(f) /\ Owed(Of(members, u, side))' = SumFunction(e)
  BY DEF Owed
<1>6. \A k \in A \ {l} : Padded(e, A)[k] = Padded(f, A)[k]
  BY <1>1, <1>4
<1> HIDE DEF A, S, T, e, f
<1>7. SumFunction(e) - SumFunction(f) = Padded(e, A)[l] - Padded(f, A)[l]
  BY <1>1, <1>2, <1>3, <1>6, SumMoves DEF A
<1> QED BY <1>4, <1>5, <1>7 DEF A, S

\* When one debt moves, the position of each member moves by the member's share.
LEMMA PositionsStep ==
    ASSUME LedgerInv, LedgerInv', [Next]_vars, NEW l \in LoanRowsNow,
           \A k \in Loans \ {l} : Outstanding(k)' = Outstanding(k),
           NEW members \in SUBSET Users, NEW u \in members,
           {loans[l].lender, loans[l].borrower} \subseteq members
    PROVE  NetPosition(members, u)' - NetPosition(members, u)
               = Share(l, u, Outstanding(l)' - Outstanding(l))
<1>1. /\ \A k \in LoanRowsNow :
            /\ k \in LoanRowsNow'
            /\ loans'[k].lender = loans[k].lender
            /\ loans'[k].borrower = loans[k].borrower
      /\ LoanRowsNow \subseteq LoanRowsNow'
  BY LoanRowsStep DEF LedgerInv
<1>2. \A side \in {"lender", "borrower"} : \A k \in LoanRowsNow :
          Debt(k, members, u, side) =
              IF {loans[k].lender, loans[k].borrower} \subseteq members /\ loans[k][side] = u
              THEN Outstanding(k) ELSE 0
  BY DEF Debt, Of, LoansAmong, Outstanding, LoanRowsNow
<1>3. \A side \in {"lender", "borrower"} : \A k \in LoanRowsNow :
          Debt(k, members, u, side)' =
              IF {loans[k].lender, loans[k].borrower} \subseteq members /\ loans[k][side] = u
              THEN Outstanding(k)' ELSE 0
  BY <1>1 DEF Debt, Of, LoansAmong, Outstanding, LoanRowsNow
<1>4. \A side : \A k \in Loans \ LoanRowsNow :
          Outstanding(k) = 0 /\ Debt(k, members, u, side) = 0
  BY DEF Debt, Of, LoansAmong, Outstanding, Counted, LoanRowsNow
<1>5. ASSUME NEW side \in {"lender", "borrower"}
      PROVE  \A k \in Loans \ {l} : Debt(k, members, u, side)' = Debt(k, members, u, side)
  <2> SUFFICES ASSUME NEW k \in Loans \ {l}
               PROVE  Debt(k, members, u, side)' = Debt(k, members, u, side)
    OBVIOUS
  <2>1. Outstanding(k)' = Outstanding(k)
    OBVIOUS
  <2>2. CASE k \in LoanRowsNow
    BY <1>2, <1>3, <2>1, <2>2
  <2>3. CASE k \notin LoanRowsNow
    <3>1. Outstanding(k)' = 0 /\ Debt(k, members, u, side) = 0
      BY <1>4, <2>1, <2>3
    <3> QED BY <3>1 DEF Debt
  <2> QED BY <2>2, <2>3
<1>6. \A side \in {"lender", "borrower"} :
          Owed(Of(members, u, side))' - Owed(Of(members, u, side))
              = Debt(l, members, u, side)' - Debt(l, members, u, side)
  BY <1>1, <1>5, OwedMoves
<1>7. TotalLent(members, u)' - TotalLent(members, u)
          = Debt(l, members, u, "lender")' - Debt(l, members, u, "lender")
  BY <1>6 DEF TotalLent, Of
<1>8. TotalBorrowed(members, u)' - TotalBorrowed(members, u)
          = Debt(l, members, u, "borrower")' - Debt(l, members, u, "borrower")
  BY <1>6 DEF TotalBorrowed, Of
<1>9. /\ TotalLent(members, u) \in Int /\ TotalBorrowed(members, u) \in Int
      /\ TotalLent(members, u)' \in Int /\ TotalBorrowed(members, u)' \in Int
  <2>1. TotalsAreAmounts /\ TotalsAreAmounts'
    BY TotalsType, PTL
  <2> QED BY <2>1 DEF TotalsAreAmounts
<1>10. Outstanding(l) \in Int /\ Outstanding(l)' \in Int
  <2>1. DebtsAreAmounts /\ DebtsAreAmounts'
    BY OutstandingType, PTL
  <2> QED BY <2>1 DEF DebtsAreAmounts, LoanRowsNow
<1>11. loans[l].lender # loans[l].borrower
  BY DEF LedgerInv, RowsReferToRows, LoanRowsNow
<1> DEFINE a == Outstanding(l)
           b == Outstanding(l)'
           lends == loans[l].lender = u
           borrows == loans[l].borrower = u
           n == TotalLent(members, u)
           m == TotalLent(members, u)'
           p == TotalBorrowed(members, u)
           q == TotalBorrowed(members, u)'
<1>12. /\ m - n = (IF lends THEN b ELSE 0) - (IF lends THEN a ELSE 0)
       /\ q - p = (IF borrows THEN b ELSE 0) - (IF borrows THEN a ELSE 0)
  BY <1>2, <1>3, <1>7, <1>8
<1>13. /\ NetPosition(members, u)' - NetPosition(members, u) = (m - q) - (n - p)
       /\ Share(l, u, b - a) = IF lends THEN b - a ELSE IF borrows THEN -(b - a) ELSE 0
       /\ ~(lends /\ borrows)
  BY <1>11 DEF NetPosition, Share
<1>14. {a, b, m, n, p, q} \subseteq Int
  BY <1>9, <1>10
<1>15. (m - q) - (n - p) = IF lends THEN b - a ELSE IF borrows THEN -(b - a) ELSE 0
  <2> HIDE DEF a, b, m, n, p, q, lends, borrows
  <2> QED BY <1>12, <1>13, <1>14
<1> QED BY <1>13, <1>15

\* Debts do not grow, revive or vanish under the ledger: whatever is decided, paid and
\* settled, FamilyService's positions move with the debt of one loan at a time, by the
\* share of each of its parties, in every family both of them belong to.
THEOREM PositionsCorrect == Spec => PositionsFollowPayments
<1> DEFINE Moves(l) ==
        /\ DebtMoves(l)
        /\ \A members \in SUBSET Users :
              {loans[l].lender, loans[l].borrower} \subseteq members =>
                  \A u \in members :
                      NetPosition(members, u)' - NetPosition(members, u)
                          = Share(l, u, Outstanding(l)' - Outstanding(l))
<1>1. ASSUME LedgerInv, LedgerInv', [Next]_vars
      PROVE  \A l \in Loans : Outstanding(l)' # Outstanding(l) => Moves(l)
  <2> SUFFICES ASSUME NEW l \in Loans, Outstanding(l)' # Outstanding(l) PROVE Moves(l)
    OBVIOUS
  <2>1. DebtMoves(l) /\ \A k \in Loans \ {l} : Outstanding(k)' = Outstanding(k)
    BY <1>1, DebtsStep
  <2>2. l \in LoanRowsNow
    BY <2>1 DEF DebtMoves, Counted, LoanRowsNow
  <2> QED BY <1>1, <2>1, <2>2, PositionsStep
<1>2. ASSUME LedgerInv, LedgerInv', [Next]_vars
      PROVE  [\A l \in Loans : Outstanding(l)' # Outstanding(l) => Moves(l)]_<<loans, repayments>>
  BY <1>1, <1>2
<1> QED BY <1>2, LedgerInvHolds, PTL DEF Spec, PositionsFollowPayments
=============================================================================

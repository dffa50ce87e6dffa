---------------------------- MODULE SumTheorems ----------------------------
(***************************************************************************)
(* Sums over finite sets, as the community modules fold them.              *)
(***************************************************************************)
EXTENDS Functions, FiniteSetTheorems, WellFoundedInduction, TLAPS

-----------------------------------------------------------------------------
(* The smallest of several finite sets: induction over finite sets, with the
   sets that are wanted as a set. *)
LEMMA SmallestSet ==
    ASSUME NEW S, IsFiniteSet(S), NEW X, X \subseteq SUBSET S, X # {}
    PROVE  \E T \in X : \A U \in X : U \subseteq T => U = T
  <1>1. IsWellFoundedOn(StrictSubsetOrdering(S), FiniteSubsetsOf(S))
    BY FS_StrictSubsetOrderingWellFounded
  <1>2. X \subseteq FiniteSubsetsOf(S)
    BY FS_Subset DEF FiniteSubsetsOf
  <1>3. PICK T \in X : \A U \in X : ~(<<U, T>> \in StrictSubsetOrdering(S))
    BY <1>1, <1>2, WFMin
  <1>4. ASSUME NEW U \in X, U \subseteq T PROVE U = T
    BY <1>3, <1>4 DEF StrictSubsetOrdering
  <1>. QED
    BY <1>4

(* The element a fold takes first. *)
Pick(s) == CHOOSE x \in s : TRUE

LEMMA PickIs == ASSUME NEW s, s # {} PROVE Pick(s) \in s
  BY DEF Pick

(* What the fold's function is on the subsets of S. *)
Iterates(h, f, S) ==
    h = [s \in SUBSET S |-> IF s = {} THEN 0 ELSE f[Pick(s)] + h[s \ {Pick(s)}]]

LEMMA SumIs ==
    ASSUME NEW f, NEW S
    PROVE  SumFunctionOnSet(f, S) = (CHOOSE h : Iterates(h, f, S))[S]
  BY DEF SumFunctionOnSet, FoldFunctionOnSet, MapThenFoldSet, Iterates, Pick

LEMMA IteratesAt ==
    ASSUME NEW h, NEW f, NEW S, Iterates(h, f, S), NEW s \in SUBSET S
    PROVE  h[s] = IF s = {} THEN 0 ELSE f[Pick(s)] + h[s \ {Pick(s)}]
  BY DEF Iterates

(* Two such functions agree where both are defined. *)
LEMMA IteratesAgree ==
    ASSUME NEW f, NEW S, NEW g, NEW T, NEW h, IsFiniteSet(S),
           Iterates(g, f, S), Iterates(h, f, T), S \subseteq T
    PROVE  \A s \in SUBSET S : g[s] = h[s]
  <1>. DEFINE X == {s \in SUBSET S : g[s] # h[s]}
  <1>1. SUFFICES ASSUME X # {} PROVE FALSE
    OBVIOUS
  <1>2. /\ X \subseteq SUBSET S
        /\ \A s \in X : s \in SUBSET S /\ s \in SUBSET T /\ g[s] # h[s]
        /\ \A s \in SUBSET S : s \notin X => g[s] = h[s]
    OBVIOUS
  <1>. HIDE DEF X
  <1>a. PICK s \in X : \A u \in X : u \subseteq s => u = s
    BY <1>1, <1>2, SmallestSet
  <1>3. s \in SUBSET S /\ s \in SUBSET T /\ g[s] # h[s]
    BY <1>2
  <1>b. g[s] = IF s = {} THEN 0 ELSE f[Pick(s)] + g[s \ {Pick(s)}]
    BY <1>3, IteratesAt
  <1>c. h[s] = IF s = {} THEN 0 ELSE f[Pick(s)] + h[s \ {Pick(s)}]
    BY <1>3, IteratesAt
  <1>4. CASE s = {}
    BY <1>3, <1>4, <1>b, <1>c
  <1>5. CASE s # {}
    <2>1. Pick(s) \in s
      BY <1>5, PickIs
    <2>2. g[s \ {Pick(s)}] = h[s \ {Pick(s)}]
      BY <1>2, <1>3, <1>a, <2>1
    <2>. QED
      BY <1>3, <1>5, <1>b, <1>c, <2>2
  <1>. QED
    BY <1>4, <1>5

(* There is one for every finite set. *)
LEMMA IteratesExists ==
    ASSUME NEW f, NEW S, IsFiniteSet(S)
    PROVE  \E h : Iterates(h, f, S)
  <1>. DEFINE X == {T \in SUBSET S : ~\E h : Iterates(h, f, T)}
  <1>1. SUFFICES ASSUME X # {} PROVE FALSE
    OBVIOUS
  <1>a. /\ X \subseteq SUBSET S
        /\ \A U \in SUBSET S : U \notin X => \E h : Iterates(h, f, U)
        /\ \A U \in X : ~\E h : Iterates(h, f, U)
    OBVIOUS
  <1>. HIDE DEF X
  <1>2. PICK T \in X : \A U \in X : U \subseteq T => U = T
    BY <1>1, <1>a, SmallestSet
  <1>. DEFINE part(U) == CHOOSE h : Iterates(h, f, U)
              tail(s) == s \ {Pick(s)}
              h == [s \in SUBSET T |-> IF s = {} THEN 0
                                       ELSE f[Pick(s)] + part(tail(s))[tail(s)]]
  <1>3. ASSUME NEW U \in SUBSET T, U # T
        PROVE  Iterates(part(U), f, U) /\ IsFiniteSet(U)
    <2>1. U \notin X /\ U \in SUBSET S
      BY <1>2, <1>3, <1>a
    <2>2. \E k : Iterates(k, f, U)
      BY <1>a, <2>1
    <2>. QED
      BY <2>1, <2>2, FS_Subset
  <1>. HIDE DEF part
  <1>4. ASSUME NEW U \in SUBSET T, U # T
        PROVE  h[U] = part(U)[U]
    <2>1. Iterates(part(U), f, U) /\ U \in SUBSET U
      BY <1>3, <1>4
    <2>2. CASE U = {}
      BY <2>1, <2>2, IteratesAt
    <2>3. CASE U # {}
      <3>1. Pick(U) \in U
        BY <2>3, PickIs
      <3>2. tail(U) \in SUBSET U /\ tail(U) \in SUBSET T /\ tail(U) # T
        BY <1>4, <3>1
      <3>. HIDE DEF tail
      <3>3. Iterates(part(tail(U)), f, tail(U)) /\ IsFiniteSet(tail(U))
        BY <1>3, <3>2
      <3>4. part(tail(U))[tail(U)] = part(U)[tail(U)]
        <4>1. \A s \in SUBSET tail(U) : part(tail(U))[s] = part(U)[s]
          BY <2>1, <3>2, <3>3, IteratesAgree
        <4>. QED
          BY <4>1
      <3>5. part(U)[U] = f[Pick(U)] + part(U)[tail(U)]
        BY <2>1, <2>3, IteratesAt DEF tail
      <3>6. h[U] = f[Pick(U)] + part(tail(U))[tail(U)]
        BY <1>4, <2>3
      <3>. QED
        BY <3>4, <3>5, <3>6
    <2>. QED
      BY <2>2, <2>3
  <1>5. \A s \in SUBSET T : s # {} => part(tail(s))[tail(s)] = h[tail(s)]
    <2>. SUFFICES ASSUME NEW s \in SUBSET T, s # {}
                  PROVE  part(tail(s))[tail(s)] = h[tail(s)]
      OBVIOUS
    <2>1. Pick(s) \in s
      BY PickIs
    <2>2. tail(s) \in SUBSET T /\ tail(s) # T
      BY <2>1
    <2>. HIDE DEF h, tail
    <2>. QED
      BY <1>4, <2>2
  <1>6. h = [s \in SUBSET T |-> IF s = {} THEN 0
                               ELSE f[Pick(s)] + h[s \ {Pick(s)}]]
    <2>. DEFINE k == [s \in SUBSET T |-> IF s = {} THEN 0
                               ELSE f[Pick(s)] + h[s \ {Pick(s)}]]
    <2>1. \A s \in SUBSET T : h[s] = k[s]
      <3>. SUFFICES ASSUME NEW s \in SUBSET T PROVE h[s] = k[s]
        OBVIOUS
      <3>1. s # {} => part(tail(s))[tail(s)] = h[tail(s)]
        BY <1>5
      <3>2. k[s] = IF s = {} THEN 0 ELSE f[Pick(s)] + h[tail(s)]
        OBVIOUS
      <3>3. h[s] = IF s = {} THEN 0 ELSE f[Pick(s)] + part(tail(s))[tail(s)]
        OBVIOUS
      <3>. HIDE DEF h, k, tail
      <3>. QED
        BY <3>1, <3>2, <3>3
    <2>. QED
      BY <2>1
  <1>. HIDE DEF h
  <1>7. Iterates(h, f, T)
    BY <1>6 DEF Iterates
  <1>. QED
    BY <1>7, <1>2, <1>a

(* So a sum over a finite set takes one element after the other ... *)
LEMMA SumIterates ==
    ASSUME NEW f, NEW S, IsFiniteSet(S)
    PROVE  /\ SumFunctionOnSet(f, {}) = 0
           /\ S # {} => SumFunctionOnSet(f, S) =
                  f[Pick(S)] + SumFunctionOnSet(f, S \ {Pick(S)})
  <1>. DEFINE it(T) == CHOOSE h : Iterates(h, f, T)
              tail == S \ {Pick(S)}
  <1>1. \A T : IsFiniteSet(T) => Iterates(it(T), f, T)
    BY IteratesExists
  <1>2. \A T : SumFunctionOnSet(f, T) = it(T)[T]
    BY SumIs
  <1>. HIDE DEF it
  <1>3. SumFunctionOnSet(f, {}) = 0
    BY <1>1, <1>2, IteratesAt, FS_EmptySet
  <1>4. ASSUME S # {}
        PROVE  SumFunctionOnSet(f, S) = f[Pick(S)] + SumFunctionOnSet(f, tail)
    <2>1. IsFiniteSet(tail) /\ tail \subseteq S
      BY FS_RemoveElement
    <2>. HIDE DEF tail
    <2>2. it(tail)[tail] = it(S)[tail]
      <3>1. \A s \in SUBSET tail : it(tail)[s] = it(S)[s]
        BY <1>1, <2>1, IteratesAgree
      <3>. QED
        BY <3>1
    <2>3. it(S)[S] = f[Pick(S)] + it(S)[tail]
      BY <1>1, <1>4, IteratesAt DEF tail
    <2>. QED
      BY <1>2, <2>2, <2>3
  <1>. QED
    BY <1>3, <1>4

(* ... and it does not matter which comes first. *)
LEMMA SumStep ==
    ASSUME NEW S, IsFiniteSet(S), NEW f, \A s \in S : f[s] \in Int, NEW x \in S
    PROVE  /\ SumFunctionOnSet(f, S) = f[x] + SumFunctionOnSet(f, S \ {x})
           /\ SumFunctionOnSet(f, S) \in Int
           /\ SumFunctionOnSet(f, S \ {x}) \in Int
  <1>. DEFINE sum(T) == SumFunctionOnSet(f, T)
              Fine(T) == sum(T) \in Int
                         /\ \A y \in T : sum(T) = f[y] + sum(T \ {y})
              X == {T \in SUBSET S : ~Fine(T)}
  <1>1. ASSUME X # {} PROVE FALSE
    <2>a. /\ X \subseteq SUBSET S
          /\ \A U \in SUBSET S : U \notin X <=> Fine(U)
      OBVIOUS
    <2>. HIDE DEF X, Fine
    <2>1. PICK T \in X : \A U \in X : U \subseteq T => U = T
      BY <1>1, <2>a, SmallestSet
    <2>2. T \in SUBSET S /\ IsFiniteSet(T) /\ ~Fine(T)
      BY <2>a, FS_Subset
    <2>b. \A y \in T : Fine(T \ {y})
      BY <2>1, <2>2, <2>a
    <2>3. \A y \in T : /\ sum(T \ {y}) \in Int
                       /\ \A z \in T \ {y} :
                             sum(T \ {y}) = f[z] + sum((T \ {y}) \ {z})
      BY <2>b DEF Fine
    <2>4. sum({}) = 0
      BY <2>2, SumIterates
    <2>5. T # {}
      <3>1. ASSUME T = {} PROVE Fine(T)
        <4>. HIDE DEF sum
        <4>. QED
          BY <2>4, <3>1 DEF Fine
      <3>. QED
        BY <2>2, <3>1
    <2>. DEFINE p == Pick(T)
    <2>6. p \in T
      BY <2>5, PickIs
    <2>7. sum(T) = f[p] + sum(T \ {p})
      BY <2>2, <2>5, SumIterates
    <2>. HIDE DEF p, sum
    <2>8. f[p] \in Int /\ sum(T \ {p}) \in Int
      BY <2>2, <2>3, <2>6
    <2>9. ASSUME NEW y \in T PROVE sum(T) = f[y] + sum(T \ {y})
      <3>1. CASE y = p
        BY <2>7, <3>1
      <3>2. CASE y # p
        <4>1. (T \ {p}) \ {y} = (T \ {y}) \ {p}
          OBVIOUS
        <4>2. sum(T \ {p}) = f[y] + sum((T \ {p}) \ {y})
          BY <2>3, <2>6, <3>2
        <4>3. sum(T \ {y}) = f[p] + sum((T \ {y}) \ {p})
          BY <2>3, <2>6, <3>2
        <4>4. f[y] \in Int /\ sum(T \ {y}) \in Int
          BY <2>2, <2>3
        <4>5. sum((T \ {y}) \ {p}) \in Int
          <5>1. (T \ {y}) \ {p} \in SUBSET T /\ (T \ {y}) \ {p} # T
                /\ (T \ {y}) \ {p} \in SUBSET S
            BY <2>2, <2>6
          <5>2. Fine((T \ {y}) \ {p})
            BY <2>1, <2>a, <5>1
          <5>. QED
            BY <5>2 DEF Fine
        <4>. DEFINE r == sum((T \ {y}) \ {p})
        <4>6. r \in Int /\ sum(T \ {p}) = f[y] + r /\ sum(T \ {y}) = f[p] + r
          BY <4>1, <4>2, <4>3, <4>5
        <4>. HIDE DEF r
        <4>. QED
          BY <2>7, <2>8, <4>4, <4>6
      <3>. QED
        BY <3>1, <3>2
    <2>10. sum(T) \in Int
      BY <2>7, <2>8
    <2>11. Fine(T)
      BY <2>9, <2>10 DEF Fine
    <2>. QED
      BY <2>2, <2>11
  <1>2. Fine(S) /\ Fine(S \ {x})
    <2>1. S \notin X /\ S \ {x} \notin X
      BY <1>1
    <2>. QED
      BY <2>1
  <1>. HIDE DEF X
  <1>. QED
    BY <1>2

-----------------------------------------------------------------------------
(* What the rest of the proofs say of sums. *)

(* A sum of nothing is zero. *)
LEMMA SumOfNone == ASSUME NEW f PROVE SumFunctionOnSet(f, {}) = 0
  BY SumIterates, FS_EmptySet

(* One element more, or less. *)
LEMMA SumWithout ==
    ASSUME NEW S, IsFiniteSet(S), NEW f, \A s \in S : f[s] \in Int, NEW x \in S
    PROVE  SumFunctionOnSet(f, S) = f[x] + SumFunctionOnSet(f, S \ {x})
  BY SumStep

(* A sum of integers is one. *)
LEMMA SumInt ==
    ASSUME NEW S, IsFiniteSet(S), NEW f, \A s \in S : f[s] \in Int
    PROVE  SumFunctionOnSet(f, S) \in Int
  <1>1. CASE S = {}
    BY <1>1, SumOfNone
  <1>2. CASE S # {}
    BY <1>2, SumStep
  <1>. QED
    BY <1>1, <1>2

(* A sum depends on nothing but the summands. *)
LEMMA SumSame ==
    ASSUME NEW S, IsFiniteSet(S), NEW f, \A s \in S : f[s] \in Int,
           NEW g, \A s \in S : g[s] = f[s]
    PROVE  SumFunctionOnSet(g, S) = SumFunctionOnSet(f, S)
  <1>. DEFINE X == {T \in SUBSET S :
                       SumFunctionOnSet(g, T) # SumFunctionOnSet(f, T)}
  <1>1. SUFFICES ASSUME X # {} PROVE FALSE
    OBVIOUS
  <1>2. /\ X \subseteq SUBSET S
        /\ \A T \in SUBSET S : T \notin X =>
               SumFunctionOnSet(g, T) = SumFunctionOnSet(f, T)
        /\ \A T \in X : SumFunctionOnSet(g, T) # SumFunctionOnSet(f, T)
    OBVIOUS
  <1>. HIDE DEF X
  <1>3. PICK T \in X : \A U \in X : U \subseteq T => U = T
    BY <1>1, <1>2, SmallestSet
  <1>4. T \in SUBSET S /\ IsFiniteSet(T)
    BY <1>2, FS_Subset
  <1>5. T # {}
    BY <1>2, SumOfNone
  <1>6. PICK y \in T : TRUE
    BY <1>5
  <1>7. SumFunctionOnSet(g, T \ {y}) = SumFunctionOnSet(f, T \ {y})
    <2>1. T \ {y} \in SUBSET S /\ T \ {y} \notin X
      BY <1>3, <1>4
    <2>. QED
      BY <1>2, <2>1
  <1>8. SumFunctionOnSet(g, T) = g[y] + SumFunctionOnSet(g, T \ {y})
    <2>1. \A t \in T : g[t] \in Int
      BY <1>4
    <2>. QED
      BY <1>4, <2>1, SumWithout
  <1>9. SumFunctionOnSet(f, T) = f[y] + SumFunctionOnSet(f, T \ {y})
    <2>1. \A t \in T : f[t] \in Int
      BY <1>4
    <2>. QED
      BY <1>4, <2>1, SumWithout
  <1>. QED
    BY <1>2, <1>4, <1>7, <1>8, <1>9

(* A sum of naturals is one. *)
LEMMA SumNat ==
    ASSUME NEW S, IsFiniteSet(S), NEW f, \A s \in S : f[s] \in Nat
    PROVE  SumFunctionOnSet(f, S) \in Nat
  <1>. DEFINE X == {T \in SUBSET S : SumFunctionOnSet(f, T) \notin Nat}
  <1>1. SUFFICES ASSUME X # {} PROVE FALSE
    OBVIOUS
  <1>2. /\ X \subseteq SUBSET S
        /\ \A T \in SUBSET S : T \notin X => SumFunctionOnSet(f, T) \in Nat
        /\ \A T \in X : SumFunctionOnSet(f, T) \notin Nat
    OBVIOUS
  <1>. HIDE DEF X
  <1>3. PICK T \in X : \A U \in X : U \subseteq T => U = T
    BY <1>1, <1>2, SmallestSet
  <1>4. T \in SUBSET S /\ IsFiniteSet(T)
    BY <1>2, FS_Subset
  <1>5. T # {}
    BY <1>2, SumOfNone
  <1>6. PICK y \in T : TRUE
    BY <1>5
  <1>7. SumFunctionOnSet(f, T \ {y}) \in Nat
    <2>1. T \ {y} \in SUBSET S /\ T \ {y} \notin X
      BY <1>3, <1>4
    <2>. QED
      BY <1>2, <2>1
  <1>8. SumFunctionOnSet(f, T) = f[y] + SumFunctionOnSet(f, T \ {y})
    <2>1. \A t \in T : f[t] \in Int
      BY <1>4
    <2>. QED
      BY <1>4, <2>1, SumWithout
  <1>9. f[y] \in Nat
    BY <1>4
  <1>. QED
    BY <1>2, <1>7, <1>8, <1>9

(* One summand changes. *)
LEMMA SumChange ==
    ASSUME NEW S, IsFiniteSet(S), NEW f, \A s \in S : f[s] \in Int,
           NEW g, \A s \in S : g[s] \in Int,
           NEW x \in S, \A s \in S \ {x} : g[s] = f[s]
    PROVE  SumFunctionOnSet(g, S) = SumFunctionOnSet(f, S) + g[x] - f[x]
  <1>1. IsFiniteSet(S \ {x})
    BY FS_RemoveElement
  <1>2. SumFunctionOnSet(g, S \ {x}) = SumFunctionOnSet(f, S \ {x})
    BY <1>1, SumSame
  <1>3. SumFunctionOnSet(f, S \ {x}) \in Int
    BY <1>1, SumInt
  <1>4. SumFunctionOnSet(g, S) = g[x] + SumFunctionOnSet(g, S \ {x})
    BY SumWithout
  <1>5. SumFunctionOnSet(f, S) = f[x] + SumFunctionOnSet(f, S \ {x})
    BY SumWithout
  <1>. QED
    BY <1>2, <1>3, <1>4, <1>5

(* One element more. *)
LEMMA SumOneMore ==
    ASSUME NEW S, IsFiniteSet(S), NEW x, x \notin S,
           NEW f, \A s \in S : f[s] \in Int,
           NEW g, g[x] \in Int, \A s \in S : g[s] = f[s]
    PROVE  SumFunctionOnSet(g, S \cup {x}) = SumFunctionOnSet(f, S) + g[x]
  <1>1. IsFiniteSet(S \cup {x})
    BY FS_AddElement
  <1>2. (S \cup {x}) \ {x} = S
    OBVIOUS
  <1>3. \A s \in S \cup {x} : g[s] \in Int
    OBVIOUS
  <1>4. SumFunctionOnSet(g, S \cup {x}) = g[x] + SumFunctionOnSet(g, S)
    <2>1. SumFunctionOnSet(g, S \cup {x}) =
              g[x] + SumFunctionOnSet(g, (S \cup {x}) \ {x})
      BY <1>1, <1>3, SumWithout
    <2>. QED
      BY <1>2, <2>1
  <1>5. SumFunctionOnSet(g, S) = SumFunctionOnSet(f, S)
        /\ SumFunctionOnSet(f, S) \in Int
    BY SumSame, SumInt
  <1>. QED
    BY <1>4, <1>5

(* Nothing adds up to nothing. *)
LEMMA SumZero ==
    ASSUME NEW S, IsFiniteSet(S), NEW f, \A s \in S : f[s] = 0
    PROVE  SumFunctionOnSet(f, S) = 0
  <1>. DEFINE X == {T \in SUBSET S : SumFunctionOnSet(f, T) # 0}
  <1>1. SUFFICES ASSUME X # {} PROVE FALSE
    OBVIOUS
  <1>2. /\ X \subseteq SUBSET S
        /\ \A T \in SUBSET S : T \notin X => SumFunctionOnSet(f, T) = 0
        /\ \A T \in X : SumFunctionOnSet(f, T) # 0
    OBVIOUS
  <1>. HIDE DEF X
  <1>3. PICK T \in X : \A U \in X : U \subseteq T => U = T
    BY <1>1, <1>2, SmallestSet
  <1>4. T \subseteq S /\ IsFiniteSet(T) /\ T # {}
    BY <1>2, <1>3, FS_Subset, SumOfNone
  <1>5. PICK x \in T : TRUE
    BY <1>4
  <1>6. SumFunctionOnSet(f, T \ {x}) = 0
    BY <1>2, <1>3, <1>4, <1>5
  <1>7. f[x] = 0 /\ \A s \in T : f[s] \in Int
    BY <1>4, <1>5
  <1>8. SumFunctionOnSet(f, T) = f[x] + SumFunctionOnSet(f, T \ {x})
    BY <1>4, <1>5, <1>7, SumWithout
  <1>. QED
    BY <1>2, <1>3, <1>6, <1>7, <1>8

(* The same for the sum over all that a function is defined for. *)
LEMMA FunctionSumNat ==
    ASSUME NEW S, IsFiniteSet(S), NEW f \in [S -> Nat]
    PROVE  SumFunction(f) \in Nat
  BY SumNat DEF SumFunction

LEMMA FunctionSumChange ==
    ASSUME NEW S, IsFiniteSet(S), NEW f \in [S -> Nat], NEW g \in [S -> Nat],
           NEW x \in S, \A s \in S \ {x} : g[s] = f[s]
    PROVE  SumFunction(g) = SumFunction(f) + g[x] - f[x]
  <1>1. DOMAIN f = S /\ DOMAIN g = S
    OBVIOUS
  <1>2. SumFunctionOnSet(g, S) = SumFunctionOnSet(f, S) + g[x] - f[x]
    BY SumChange
  <1>. QED
    BY <1>1, <1>2 DEF SumFunction

LEMMA FunctionSumMore ==
    ASSUME NEW S, IsFiniteSet(S), NEW T, NEW x \in T, x \notin S, T = S \cup {x},
           NEW f \in [S -> Nat], NEW g \in [T -> Nat], \A s \in S : g[s] = f[s]
    PROVE  SumFunction(g) = SumFunction(f) + g[x]
  <1>1. DOMAIN f = S /\ DOMAIN g = S \cup {x}
    OBVIOUS
  <1>2. SumFunctionOnSet(g, S \cup {x}) = SumFunctionOnSet(f, S) + g[x]
    BY SumOneMore
  <1>. QED
    BY <1>1, <1>2 DEF SumFunction
=============================================================================

------------------------- MODULE DailyRecordsProofs -------------------------
(***************************************************************************)
(* Proofs about DailyRecords, for any employees, calendar and schedule:    *)
(* typing, that reports count every workday once, that weeks are whole and *)
(* stay met, that the dashboard shows what the Attendance page shows, that *)
(* the pages agree with the rows the daily pass left, and that a punch     *)
(* read late costs no session.  Lemmas about sums over finite sets and     *)
(* about one instance of AttendanceDay for each day come first.            *)
(***************************************************************************)
EXTENDS DailyRecords, PunchRulesProofs, FiniteSetTheorems

----------------------------------------------------------------------------
(* Sums over finite sets.                                                  *)

\* What holds of the empty set, and of a set with one more element when of the
\* set, holds of every part of a finite set.
LEMMA PartsInduction ==
    ASSUME NEW S, IsFiniteSet(S), NEW Good, {} \in Good,
           \A s \in SUBSET S, x \in S : s \in Good => s \cup {x} \in Good
    PROVE  \A s \in SUBSET S : s \in Good
<1> DEFINE Bad == {n \in Nat : \E s \in SUBSET S : s \notin Good /\ Cardinality(s) = n}
<1>1. ASSUME NEW s \in SUBSET S PROVE IsFiniteSet(s) /\ Cardinality(s) \in Nat
  BY FS_Subset, FS_CardinalityType
<1>2. Bad = {}
  <2> SUFFICES ASSUME Bad # {} PROVE FALSE
    OBVIOUS
  <2>1. Bad \subseteq Nat
    OBVIOUS
  <2> HIDE DEF Bad
  <2>2. PICK m \in Bad : \A n \in Bad : m <= n
    BY <2>1, LeastNatural
  <2> USE DEF Bad
  <2>3. PICK s \in SUBSET S : s \notin Good /\ Cardinality(s) = m
    BY <2>2
  <2>4. s # {}
    BY <2>3
  <2>5. PICK x \in s : TRUE
    BY <2>4
  <2>6. Cardinality(s \ {x}) = m - 1
    BY <1>1, <2>3, FS_RemoveElement
  <2>7. s \ {x} \in SUBSET S /\ Cardinality(s \ {x}) \in Nat
    BY <1>1
  <2>8. s \ {x} \in Good
    BY <2>1, <2>2, <2>6, <2>7
  <2>9. (s \ {x}) \cup {x} = s
    BY <2>5
  <2>10. QED
    BY <2>3, <2>5, <2>7, <2>8, <2>9
<1>3. QED
  BY <1>1, <1>2

\* The partial sums of f: what SumFunction computes, whichever element it takes
\* away first.
Adds(g, f, S) ==
    /\ g \in [SUBSET S -> Nat] /\ g[{}] = 0
    /\ \A s \in SUBSET S, x \in S : x \in s => g[s] = f[x] + g[s \ {x}]

Picked(s) == CHOOSE x \in s : TRUE
Unfold(g, f, S) == [s \in SUBSET S |-> IF s = {} THEN 0 ELSE f[Picked(s)] + g[s \ {Picked(s)}]]

LEMMA PickedIn == \A s : s # {} => Picked(s) \in s
BY DEF Picked

\* The recursion has a solution: one that is right up to a size can be extended
\* to the next.
LEMMA UnfoldHasSolution ==
    ASSUME NEW S, IsFiniteSet(S), NEW f \in [S -> Nat]
    PROVE  \E g : g = Unfold(g, f, S)
<1> DEFINE RightUpTo(g, n) == \A s \in SUBSET S : Cardinality(s) <= n => g[s] = Unfold(g, f, S)[s]
           Bad == {n \in Nat : ~\E g \in [SUBSET S -> Nat] : RightUpTo(g, n)}
<1>1. \A s \in SUBSET S : IsFiniteSet(s) /\ Cardinality(s) \in Nat
  BY FS_Subset, FS_CardinalityType
<1>2. \A s \in SUBSET S : s # {} => Picked(s) \in s /\ f[Picked(s)] \in Nat /\ s \ {Picked(s)} \in SUBSET S
                                   /\ Cardinality(s \ {Picked(s)}) = Cardinality(s) - 1
  BY <1>1, PickedIn, FS_RemoveElement
<1>3. ASSUME NEW g \in [SUBSET S -> Nat]
      PROVE  Unfold(g, f, S) \in [SUBSET S -> Nat]
  <2>1. ASSUME NEW s \in SUBSET S
        PROVE  (IF s = {} THEN 0 ELSE f[Picked(s)] + g[s \ {Picked(s)}]) \in Nat
    <3>1. CASE s = {}
      BY <3>1
    <3>2. CASE s # {}
      <4>1. f[Picked(s)] \in Nat /\ g[s \ {Picked(s)}] \in Nat
        BY <1>2, <3>2
      <4>2. QED
        BY <3>2, <4>1
    <3>3. QED
      BY <3>1, <3>2
  <2>2. QED
    BY <2>1 DEF Unfold
<1>4. Bad = {}
  <2> SUFFICES ASSUME Bad # {} PROVE FALSE
    OBVIOUS
  <2>1. Bad \subseteq Nat
    OBVIOUS
  <2> HIDE DEF Bad
  <2>2. PICK m \in Bad : \A n \in Bad : m <= n
    BY <2>1, LeastNatural
  <2> USE DEF Bad
  <2>3. CASE m = 0
    <3> DEFINE zero == [s \in SUBSET S |-> 0]
    <3>1. zero \in [SUBSET S -> Nat]
      OBVIOUS
    <3>2. \A s \in SUBSET S : Cardinality(s) <= 0 => s = {}
      BY <1>1, FS_EmptySet
    <3>3. RightUpTo(zero, 0)
      BY <3>2 DEF Unfold
    <3>4. QED
      BY <2>2, <2>3, <3>1, <3>3
  <2>4. CASE m # 0
    <3>0. m - 1 \in Nat /\ m - 1 < m
      BY <2>1, <2>2, <2>4
    <3> HIDE DEF Bad
    <3>1. m - 1 \notin Bad
      BY <2>1, <2>2, <3>0
    <3> USE DEF Bad
    <3>2. PICK g \in [SUBSET S -> Nat] : RightUpTo(g, m - 1)
      BY <3>0, <3>1
    <3> DEFINE h == Unfold(g, f, S)
    <3>3. h \in [SUBSET S -> Nat]
      BY <1>3
    <3>4. ASSUME NEW s \in SUBSET S, Cardinality(s) <= m
          PROVE  h[s] = Unfold(h, f, S)[s]
      <4>1. CASE s = {}
        BY <4>1 DEF Unfold
      <4>2. CASE s # {}
        <5>1. s \ {Picked(s)} \in SUBSET S /\ Cardinality(s \ {Picked(s)}) <= m - 1
          BY <1>1, <1>2, <2>1, <2>2, <3>4, <4>2
        <5>2. g[s \ {Picked(s)}] = h[s \ {Picked(s)}]
          BY <3>2, <5>1
        <5>3. h[s] = f[Picked(s)] + g[s \ {Picked(s)}]
          BY <4>2 DEF Unfold
        <5>4. Unfold(h, f, S)[s] = f[Picked(s)] + h[s \ {Picked(s)}]
          BY <4>2 DEF Unfold
        <5>5. QED
          BY <5>2, <5>3, <5>4
      <4>3. QED
        BY <4>1, <4>2
    <3>5. RightUpTo(h, m)
      BY <3>4
    <3>6. QED
      BY <2>2, <3>3, <3>5
  <2>5. QED
    BY <2>3, <2>4
<1>5. Cardinality(S) \in Nat
  BY <1>1
<1>6. PICK g \in [SUBSET S -> Nat] : RightUpTo(g, Cardinality(S))
  BY <1>4, <1>5
<1>7. \A s \in SUBSET S : g[s] = Unfold(g, f, S)[s]
  <2>1. \A s \in SUBSET S : Cardinality(s) <= Cardinality(S)
    BY FS_Subset
  <2>2. QED
    BY <1>6, <2>1
<1>8. g = Unfold(g, f, S)
  <2> DEFINE h == Unfold(g, f, S)
  <2>1. h \in [SUBSET S -> Nat] /\ \A s \in SUBSET S : g[s] = h[s]
    BY <1>3, <1>7
  <2> HIDE DEF h
  <2>2. g = h
    BY <2>1
  <2>3. QED
    BY <2>2 DEF h
<1>9. QED
  BY <1>8

\* SumFunction adds its function's values.
LEMMA SumAdds ==
    ASSUME NEW S, IsFiniteSet(S), NEW f \in [S -> Nat]
    PROVE  \E g : Adds(g, f, S) /\ SumFunction(f) = g[S]
<1> DEFINE g == CHOOSE h : h = Unfold(h, f, S)
<1>1. g = Unfold(g, f, S)
  <2>1. \E h : h = Unfold(h, f, S)
    BY UnfoldHasSolution
  <2>2. QED
    BY <2>1
<1>2. SumFunction(f) = g[S]
  <2>1. DOMAIN f = S
    OBVIOUS
  <2>2. QED
    BY <2>1 DEF SumFunction, SumFunctionOnSet, FoldFunctionOnSet, MapThenFoldSet, Unfold, Picked
<1> HIDE DEF g
<1>3. \A s \in SUBSET S : IsFiniteSet(s) /\ Cardinality(s) \in Nat
  BY FS_Subset, FS_CardinalityType
<1>4. DOMAIN g = SUBSET S /\ g = [s \in SUBSET S |-> g[s]]
  <2>1. DOMAIN Unfold(g, f, S) = SUBSET S /\ Unfold(g, f, S) = [s \in SUBSET S |-> Unfold(g, f, S)[s]]
    BY DEF Unfold
  <2>2. QED
    BY <1>1, <2>1
<1>5. g[{}] = 0
  BY <1>1 DEF Unfold
<1>6. \A s \in SUBSET S : s # {} => /\ Picked(s) \in s
                                    /\ g[s] = f[Picked(s)] + g[s \ {Picked(s)}]
  <2> SUFFICES ASSUME NEW s \in SUBSET S, s # {}
               PROVE  Picked(s) \in s /\ g[s] = f[Picked(s)] + g[s \ {Picked(s)}]
    OBVIOUS
  <2>1. Unfold(g, f, S)[s] = f[Picked(s)] + g[s \ {Picked(s)}]
    BY DEF Unfold
  <2>2. QED
    BY <1>1, <2>1, PickedIn
\* By size: all parts of at most n elements have a natural sum that any of their
\* elements may be taken from first.
<1> DEFINE FineAt(s) == g[s] \in Nat /\ \A x \in s : g[s] = f[x] + g[s \ {x}]
           Bad == {n \in Nat : \E s \in SUBSET S : Cardinality(s) = n /\ ~FineAt(s)}
<1>7. Bad = {}
  <2> SUFFICES ASSUME Bad # {} PROVE FALSE
    OBVIOUS
  <2>1. Bad \subseteq Nat
    OBVIOUS
  <2> HIDE DEF Bad
  <2>2. PICK m \in Bad : \A n \in Bad : m <= n
    BY <2>1, LeastNatural
  <2>3. PICK s \in SUBSET S : Cardinality(s) = m /\ ~FineAt(s)
    BY <2>2 DEF Bad
  <2>4. ASSUME NEW r \in SUBSET S, Cardinality(r) < m
        PROVE  FineAt(r)
    <3>1. Cardinality(r) \notin Bad
      BY <1>3, <2>1, <2>2, <2>4
    <3>2. QED
      BY <1>3, <3>1 DEF Bad
  <2>5. s # {}
    BY <1>5, <2>3
  <2> DEFINE y == Picked(s)
  <2>6. y \in s /\ g[s] = f[y] + g[s \ {y}]
    BY <1>6, <2>5
  <2> HIDE DEF y
  <2>7. \A x \in s : s \ {x} \in SUBSET S /\ Cardinality(s \ {x}) < m
    BY <1>3, <2>3, FS_RemoveElement
  <2>8. \A x \in s : FineAt(s \ {x})
    BY <2>4, <2>7
  <2>9. \A x \in s : f[x] \in Nat /\ g[s \ {x}] \in Nat
    BY <2>8
  <2>10. ASSUME NEW x \in s PROVE g[s] = f[x] + g[s \ {x}]
    <3>1. CASE x = y
      BY <2>6, <3>1
    <3>2. CASE x # y
      <4>1. x \in s \ {y} /\ y \in s \ {x} /\ (s \ {y}) \ {x} = (s \ {x}) \ {y}
        BY <2>6, <3>2
      <4>2. g[s \ {y}] = f[x] + g[(s \ {y}) \ {x}]
        BY <2>6, <2>8, <4>1
      <4>3. g[s \ {x}] = f[y] + g[(s \ {x}) \ {y}]
        BY <2>8, <4>1
      <4>4. (s \ {y}) \ {x} \in SUBSET S /\ Cardinality((s \ {y}) \ {x}) < m
        <5>1. Cardinality((s \ {y}) \ {x}) = Cardinality(s \ {y}) - 1
          BY <1>3, <2>6, <2>7, <4>1, FS_RemoveElement
        <5>2. Cardinality(s \ {y}) \in Nat /\ Cardinality(s \ {y}) < m /\ m \in Nat
          BY <1>3, <2>1, <2>2, <2>6, <2>7
        <5>3. QED
          BY <5>1, <5>2
      <4>5. g[(s \ {y}) \ {x}] \in Nat
        BY <2>4, <4>4
      <4> DEFINE rest == g[(s \ {y}) \ {x}]
                 fx == f[x]
                 fy == f[y]
      <4>6. fx \in Nat /\ fy \in Nat /\ rest \in Nat
        BY <2>6, <2>9, <4>5
      <4>7. g[s] = fy + (fx + rest) /\ g[s \ {x}] = fy + rest
        BY <2>6, <4>1, <4>2, <4>3
      <4> HIDE DEF rest, fx, fy
      <4>8. g[s] = fx + g[s \ {x}]
        BY <4>6, <4>7
      <4>9. QED
        BY <4>8 DEF fx
    <3>3. QED
      BY <3>1, <3>2
  <2>11. g[s] \in Nat
    <3>1. f[y] \in Nat /\ g[s \ {y}] \in Nat
      BY <2>6, <2>9
    <3>2. QED
      BY <2>6, <3>1
  <2>12. QED
    BY <2>3, <2>10, <2>11
<1>8. \A s \in SUBSET S : FineAt(s)
  BY <1>3, <1>7
<1>9. Adds(g, f, S)
  BY <1>4, <1>5, <1>8 DEF Adds
<1>10. QED
  BY <1>2, <1>9

\* Leaving elements out takes nothing from a sum but what they add.
LEMMA AddsPart ==
    ASSUME NEW T, IsFiniteSet(T), NEW h \in [T -> Nat], NEW k, Adds(k, h, T), NEW A \in SUBSET T
    PROVE  /\ k[A] <= k[T]
           /\ (\A t \in T \ A : h[t] = 0) => k[A] = k[T]
<1> DEFINE zero == \A t \in T \ A : h[t] = 0
           Good == {B \in SUBSET (T \ A) : k[A] <= k[A \cup B] /\ (zero => k[A] = k[A \cup B])}
<1>1. \A s \in SUBSET T : k[s] \in Nat
  BY DEF Adds
<1>2. {} \in Good
  <2>1. A \cup {} = A
    OBVIOUS
  <2>2. QED
    BY <1>1, <2>1
<1>3. ASSUME NEW B \in SUBSET (T \ A), NEW x \in T \ A, B \in Good
      PROVE  B \cup {x} \in Good
  <2>1. CASE x \in B
    <3>1. B \cup {x} = B
      BY <2>1
    <3>2. QED
      BY <1>3, <3>1
  <2>2. CASE x \notin B
    <3> DEFINE all == A \cup (B \cup {x})
    <3>1. all \in SUBSET T /\ x \in all /\ all \ {x} = A \cup B
      BY <2>2
    <3> HIDE DEF all
    <3>2. k[all] = h[x] + k[A \cup B]
      BY <3>1 DEF Adds
    <3>3. k[A] \in Nat /\ k[A \cup B] \in Nat /\ h[x] \in Nat
      BY <1>1
    <3>4. k[A] <= k[all] /\ (zero => k[A] = k[all])
      <4>1. k[A] <= k[A \cup B] /\ (zero => k[A] = k[A \cup B]) /\ (zero => h[x] = 0)
        BY <1>3
      <4> HIDE DEF zero
      <4>2. QED
        BY <3>2, <3>3, <4>1
    <3>5. QED
      BY <3>4 DEF all
  <2>3. QED
    BY <2>1, <2>2
<1>4. IsFiniteSet(T \ A)
  BY FS_Subset
<1> HIDE DEF Good
<1> DEFINE rest == T \ A
<1>5. T \ A \in Good
  <2>1. IsFiniteSet(rest) /\ \A B \in SUBSET rest, x \in rest : B \in Good => B \cup {x} \in Good
    BY <1>3, <1>4
  <2> HIDE DEF rest
  <2>2. \A s \in SUBSET rest : s \in Good
    BY <1>2, <2>1, PartsInduction
  <2>3. QED
    BY <2>2 DEF rest
<1>6. A \cup (T \ A) = T
  OBVIOUS
<1>7. QED
  BY <1>5, <1>6 DEF Good

\* A map that never takes two elements to one.
OneToOne(m, S, T) == m \in [S -> T] /\ \A x, y \in S : m[x] = m[y] => x = y

\* Sums compare as their terms do.
LEMMA SumCompares ==
    ASSUME NEW S, IsFiniteSet(S), NEW f \in [S -> Nat],
           NEW T, IsFiniteSet(T), NEW h \in [T -> Nat],
           NEW m, OneToOne(m, S, T), \A x \in S : f[x] <= h[m[x]]
    PROVE  /\ SumFunction(f) <= SumFunction(h)
           /\ SumFunction(f) \in Nat /\ SumFunction(h) \in Nat
           /\ (\A x \in S : f[x] = h[m[x]]) /\ (\A t \in T : h[t] = 0 \/ \E x \in S : m[x] = t)
                => SumFunction(f) = SumFunction(h)
<1>1. PICK g : Adds(g, f, S) /\ SumFunction(f) = g[S]
  BY SumAdds
<1>2. PICK k : Adds(k, h, T) /\ SumFunction(h) = k[T]
  BY SumAdds
<1> DEFINE Image(A) == {m[x] : x \in A}
           same == \A x \in S : f[x] = h[m[x]]
           Good == {A \in SUBSET S : g[A] <= k[Image(A)] /\ (same => g[A] = k[Image(A)])}
<1>3. \A A \in SUBSET S : Image(A) \in SUBSET T /\ g[A] \in Nat /\ k[Image(A)] \in Nat
  BY <1>1, <1>2 DEF Adds, OneToOne
<1>4. {} \in Good
  <2>1. Image({}) = {}
    OBVIOUS
  <2>2. g[{}] = 0 /\ k[{}] = 0
    BY <1>1, <1>2 DEF Adds
  <2>3. QED
    BY <2>1, <2>2
<1>5. ASSUME NEW A \in SUBSET S, NEW x \in S, A \in Good
      PROVE  A \cup {x} \in Good
  <2>1. CASE x \in A
    <3>1. A \cup {x} = A
      BY <2>1
    <3>2. QED
      BY <1>5, <3>1
  <2>2. CASE x \notin A
    <3> DEFINE B == A \cup {x}
    <3>1. B \in SUBSET S /\ x \in B /\ B \ {x} = A
      BY <2>2
    <3>2. /\ Image(B) \in SUBSET T /\ m[x] \in Image(B) /\ m[x] \in T
          /\ Image(B) \ {m[x]} = Image(A)
      <4>1. Image(B) = Image(A) \cup {m[x]}
        OBVIOUS
      <4>2. m[x] \notin Image(A)
        BY <2>2 DEF OneToOne
      <4>3. m[x] \in T
        BY DEF OneToOne
      <4> HIDE DEF Image
      <4>4. QED
        BY <1>3, <3>1, <4>1, <4>2, <4>3
    <3> HIDE DEF B, Image
    <3>3. g[B] = f[x] + g[A]
      BY <1>1, <3>1 DEF Adds
    <3>4. k[Image(B)] = h[m[x]] + k[Image(A)]
      BY <1>2, <3>2 DEF Adds
    <3>5. /\ f[x] \in Nat /\ h[m[x]] \in Nat /\ g[A] \in Nat /\ k[Image(A)] \in Nat
          /\ f[x] <= h[m[x]]
      BY <1>3, <3>2
    <3>6. g[A] <= k[Image(A)] /\ (same => g[A] = k[Image(A)]) /\ (same => f[x] = h[m[x]])
      BY <1>5
    <3> HIDE DEF same
    <3>7. g[B] <= k[Image(B)] /\ (same => g[B] = k[Image(B)])
      BY <3>3, <3>4, <3>5, <3>6
    <3>8. QED
      BY <3>1, <3>7 DEF B
  <2>3. QED
    BY <2>1, <2>2
<1> HIDE DEF Good
<1>6. S \in Good
  <2>1. \A A \in SUBSET S : A \in Good
    BY <1>4, <1>5, PartsInduction
  <2>2. QED
    BY <2>1
<1>7. g[S] <= k[Image(S)] /\ (same => g[S] = k[Image(S)])
  BY <1>6 DEF Good
<1>8. Image(S) \in SUBSET T
  BY <1>3
<1>9. /\ k[Image(S)] <= k[T]
      /\ (\A t \in T \ Image(S) : h[t] = 0) => k[Image(S)] = k[T]
  <2> HIDE DEF Image
  <2>1. QED
    BY <1>2, <1>8, AddsPart
<1>10. g[S] \in Nat /\ k[Image(S)] \in Nat /\ k[T] \in Nat
  BY <1>1, <1>2, <1>8 DEF Adds
<1>11. ASSUME same, \A t \in T : h[t] = 0 \/ \E x \in S : m[x] = t
       PROVE  g[S] = k[T]
  <2>1. \A t \in T \ Image(S) : h[t] = 0
    BY <1>11
  <2>2. QED
    BY <1>7, <1>9, <1>11, <2>1
<1>12. SumFunction(f) <= SumFunction(h) /\ SumFunction(f) \in Nat /\ SumFunction(h) \in Nat
  <2> DEFINE u == k[Image(S)]
  <2>1. g[S] <= u /\ u <= k[T] /\ u \in Nat
    BY <1>7, <1>9, <1>10
  <2> HIDE DEF u
  <2>2. QED
    BY <1>1, <1>2, <1>10, <2>1
<1>13. QED
  BY <1>1, <1>2, <1>11, <1>12

LEMMA SessionsFinite ==
    /\ Sessions = {"AM", "PM"} /\ "AM" # "PM"
    /\ IsFiniteSet(Sessions) /\ Cardinality(Sessions) = 2
<1>1. {"AM", "PM"} = {"AM"} \cup {"PM"} /\ "PM" \notin {"AM"}
  OBVIOUS
<1>2. IsFiniteSet({"AM"}) /\ Cardinality({"AM"}) = 1
  BY FS_Singleton
<1>3. IsFiniteSet({"AM"} \cup {"PM"}) /\ Cardinality({"AM"} \cup {"PM"}) = 1 + 1
  BY <1>1, <1>2, FS_AddElement
<1>4. QED
  BY <1>1, <1>3 DEF Sessions

\* Adding up each element's two sessions is adding up the pairs.
LEMMA SumOfSessions ==
    ASSUME NEW S, IsFiniteSet(S), NEW f \in [S -> Nat], NEW h \in [S \X Sessions -> Nat],
           \A x \in S : f[x] = h[<<x, "AM">>] + h[<<x, "PM">>]
    PROVE  SumFunction(f) = SumFunction(h)
<1> DEFINE T == S \X Sessions
<1>0. IsFiniteSet(T)
  BY SessionsFinite, FS_Product
<1>1. PICK g : Adds(g, f, S) /\ SumFunction(f) = g[S]
  BY SumAdds
<1>2. PICK k : Adds(k, h, T) /\ SumFunction(h) = k[T]
  BY <1>0, SumAdds
<1> DEFINE Good == {A \in SUBSET S : g[A] = k[A \X Sessions]}
<1>3. {} \in Good
  <2>1. {} \X Sessions = {}
    OBVIOUS
  <2>2. g[{}] = 0 /\ k[{}] = 0
    BY <1>1, <1>2 DEF Adds
  <2>3. QED
    BY <2>1, <2>2
<1>4. ASSUME NEW A \in SUBSET S, NEW x \in S, A \in Good
      PROVE  A \cup {x} \in Good
  <2>1. CASE x \in A
    <3>1. A \cup {x} = A
      BY <2>1
    <3>2. QED
      BY <1>4, <3>1
  <2>2. CASE x \notin A
    <3> DEFINE B == A \cup {x}
               am == <<x, "AM">>
               pm == <<x, "PM">>
               all == B \X Sessions
               some == all \ {am}
               none == A \X Sessions
    <3>1. B \in SUBSET S /\ x \in B /\ B \ {x} = A
      BY <2>2
    <3>2. am \in T /\ pm \in T /\ am # pm
      BY SessionsFinite
    <3>3. all \in SUBSET T /\ am \in all /\ some \in SUBSET T /\ pm \in some
      BY SessionsFinite
    <3>4. some \ {pm} = none
      BY <2>2, SessionsFinite
    <3>5. f[x] = h[am] + h[pm]
      OBVIOUS
    <3>0. g[A] = k[none]
      BY <1>4
    <3> HIDE DEF B, am, pm, all, some, none
    <3>6. g[B] = f[x] + g[A]
      BY <1>1, <3>1 DEF Adds
    <3>7. k[all] = h[am] + k[some]
      BY <1>2, <3>2, <3>3 DEF Adds, some
    <3>8. k[some] = h[pm] + k[none]
      BY <1>2, <3>2, <3>3, <3>4 DEF Adds
    <3>9. h[am] \in Nat /\ h[pm] \in Nat /\ g[A] \in Nat
      BY <1>1, <1>4, <3>2 DEF Adds
    <3>10. g[B] = k[all]
      BY <3>0, <3>5, <3>6, <3>7, <3>8, <3>9
    <3>11. QED
      BY <3>1, <3>10 DEF B, all
  <2>3. QED
    BY <2>1, <2>2
<1> HIDE DEF Good
<1>5. \A A \in SUBSET S : A \in Good
  BY <1>3, <1>4, PartsInduction
<1>6. QED
  BY <1>1, <1>2, <1>5 DEF Good

\* Adding up how many sessions of each element are of some kind is counting the
\* pairs of that kind.
LEMMA SumOfCounts ==
    ASSUME NEW S, IsFiniteSet(S), NEW L, L \subseteq S \X Sessions,
           NEW f \in [S -> Nat], \A x \in S : f[x] = Cardinality({s \in Sessions : <<x, s>> \in L})
    PROVE  SumFunction(f) = Cardinality(L)
<1>0. IsFiniteSet(S \X Sessions)
  BY SessionsFinite, FS_Product
<1>1. PICK g : Adds(g, f, S) /\ SumFunction(f) = g[S]
  BY SumAdds
<1> DEFINE Of(A) == {p \in L : p[1] \in A}
           Good == {A \in SUBSET S : g[A] = Cardinality(Of(A))}
<1>2. \A A \in SUBSET S : IsFiniteSet(Of(A)) /\ Cardinality(Of(A)) \in Nat
  <2>1. \A A \in SUBSET S : Of(A) \subseteq S \X Sessions
    OBVIOUS
  <2> HIDE DEF Of
  <2>2. QED
    BY <1>0, <2>1, FS_Subset, FS_CardinalityType
<1>3. {} \in Good
  <2>1. Of({}) = {}
    OBVIOUS
  <2>2. g[{}] = 0 /\ Cardinality({}) = 0
    BY <1>1, FS_EmptySet DEF Adds
  <2>3. QED
    BY <2>1, <2>2
<1>4. ASSUME NEW A \in SUBSET S, NEW x \in S, A \in Good
      PROVE  A \cup {x} \in Good
  <2>1. CASE x \in A
    <3>1. A \cup {x} = A
      BY <2>1
    <3>2. QED
      BY <1>4, <3>1
  <2>2. CASE x \notin A
    <3> DEFINE B == A \cup {x}
               am == <<x, "AM">>
               pm == <<x, "PM">>
               OA == Of(A)
               OB == Of(B)
               kinds == {s \in Sessions : <<x, s>> \in L}
    <3>1. B \in SUBSET S /\ x \in B /\ B \ {x} = A
      BY <2>2
    <3>2. am # pm /\ am \notin OA /\ pm \notin OA
      BY <2>2, SessionsFinite
    <3>3. OB = OA \cup {p \in {am, pm} : p \in L}
      <4>1. ASSUME NEW p \in L, p[1] = x PROVE p = am \/ p = pm
        BY <4>1, SessionsFinite
      <4>2. am[1] = x /\ pm[1] = x
        OBVIOUS
      <4> HIDE DEF am, pm
      <4>3. QED
        BY <4>1, <4>2
    <3>4. kinds = {s \in {"AM", "PM"} : <<x, s>> \in L}
      BY SessionsFinite
    <3>5. f[x] = Cardinality(kinds)
      OBVIOUS
    <3>6. IsFiniteSet(OA) /\ Cardinality(OA) \in Nat
      BY <1>2
    <3>7. g[A] = Cardinality(OA)
      BY <1>4
    <3>8. Cardinality(OB) = Cardinality(OA) + Cardinality(kinds)
      <4>1. IsFiniteSet(OA \cup {am}) /\ Cardinality(OA \cup {am}) = Cardinality(OA) + 1
        <5> HIDE DEF am, pm, OA
        <5>1. QED
          BY <3>2, <3>6, FS_AddElement
      <4>2. CASE am \in L /\ pm \in L
        <5>1. OB = (OA \cup {am}) \cup {pm} /\ kinds = {"AM", "PM"}
          BY <3>3, <3>4, <4>2
        <5>2. Cardinality((OA \cup {am}) \cup {pm}) = Cardinality(OA \cup {am}) + 1
          <6>1. pm \notin OA \cup {am}
            BY <3>2
          <6> HIDE DEF am, pm, OA
          <6>2. QED
            BY <4>1, <6>1, FS_AddElement
        <5>3. Cardinality({"AM", "PM"}) = 2
          BY SessionsFinite
        <5> HIDE DEF am, pm, OA, OB, kinds
        <5>4. QED
          BY <3>6, <4>1, <5>1, <5>2, <5>3
      <4>3. CASE am \in L /\ pm \notin L
        <5>1. OB = OA \cup {am} /\ kinds = {"AM"}
          BY <3>3, <3>4, <4>3
        <5> HIDE DEF am, pm, OA, OB, kinds
        <5>2. QED
          BY <4>1, <5>1, FS_Singleton
      <4>4. CASE am \notin L /\ pm \in L
        <5>1. OB = OA \cup {pm} /\ kinds = {"PM"}
          BY <3>3, <3>4, <4>4
        <5> HIDE DEF am, pm, OA, OB, kinds
        <5>2. QED
          BY <3>2, <3>6, <5>1, FS_Singleton, FS_AddElement
      <4>5. CASE am \notin L /\ pm \notin L
        <5>1. OB = OA /\ kinds = {}
          BY <3>3, <3>4, <4>5
        <5> HIDE DEF am, pm, OA, OB, kinds
        <5>2. QED
          BY <3>6, <5>1, FS_EmptySet
      <4>6. QED
        BY <4>2, <4>3, <4>4, <4>5
    <3> HIDE DEF B, am, pm, OA, OB, kinds
    <3>9. g[B] = f[x] + g[A]
      BY <1>1, <3>1 DEF Adds
    <3>10. f[x] \in Nat
      OBVIOUS
    <3>11. g[B] = Cardinality(OB)
      BY <3>5, <3>6, <3>7, <3>8, <3>9, <3>10
    <3>12. QED
      BY <3>1, <3>11 DEF B, OB
  <2>3. QED
    BY <2>1, <2>2
<1>5. Of(S) = L
  OBVIOUS
<1> HIDE DEF Good
<1>6. \A A \in SUBSET S : A \in Good
  BY <1>3, <1>4, PartsInduction
<1>7. g[S] = Cardinality(Of(S))
  BY <1>6 DEF Good
<1>8. QED
  BY <1>1, <1>5, <1>7

----------------------------------------------------------------------------
(* One employee-day, in DailyRecords' own terms.                           *)

\* What the workdays beside a holiday say of it.
Readings == {"MISSED", "ATTENDED"}
Beside(missed) == IF missed THEN "MISSED" ELSE "ATTENDED"

\* process_day without overtime.
Judge(e, d, beside, rows, hol, at) ==
    IF \/ ~WorksOn(d) \/ e \notin Fulltime
       \/ hol.on /\ hol.required = {} /\ rows = {} /\ beside = "ATTENDED"
       \/ EventRequirementMet(DayLogs(rows), hol.required)
    THEN NoRows
    ELSE ProcessFulltime(DayLogs(rows), Sched, NoTime, at)

\* The instance's rules are PunchRules'.
LEMMA DayRules ==
    ASSUME NEW e, NEW d, NEW b
    PROVE  /\ Day(e, d, b)!NoRows = NoRows
           /\ \A rows : Day(e, d, b)!DayLogs(rows) = DayLogs(rows)
           /\ \A day, required :
                Day(e, d, b)!EventRequirementMet(day, required) = EventRequirementMet(day, required)
           /\ \A day, ot : Day(e, d, b)!ComputeOvertime(day, ot) = ComputeOvertime(day, ot)
           /\ \A day, ot, t : Day(e, d, b)!ProcessFulltime(day, Sched, ot, t)
                                = ProcessFulltime(day, Sched, ot, t)
<1>1. Day(e, d, b)!NoRows = NoRows
  BY DEF Day!NoRows, NoRows, Day!Sessions, Sessions, Day!NotAbsent, NotAbsent, Day!NoTime, NoTime
<1>2. \A rows : Day(e, d, b)!DayLogs(rows) = DayLogs(rows)
  BY DEF Day!DayLogs, DayLogs, Day!LogTypes, LogTypes, Day!FULLTIME_TYPES, FULLTIME_TYPES,
         Day!PARTTIME_TYPES, PARTTIME_TYPES, Day!OutTypes, OutTypes, Day!NoTime, NoTime,
         Day!Latest, Latest, Day!Earliest, Earliest
<1>3. \A day, s : Day(e, d, b)!SessionComplete(day, s) = SessionComplete(day, s)
  BY DEF Day!SessionComplete, SessionComplete, Day!HasIn, HasIn, Day!HasOut, HasOut,
         Day!InType, InType, Day!OutType, OutType, Day!NoTime, NoTime
<1>4. \A day, required :
        Day(e, d, b)!EventRequirementMet(day, required) = EventRequirementMet(day, required)
  BY <1>3 DEF Day!EventRequirementMet, EventRequirementMet
<1>5. \A day, ot : Day(e, d, b)!ComputeOvertime(day, ot) = ComputeOvertime(day, ot)
  BY DEF Day!ComputeOvertime, ComputeOvertime, Day!AtLeastZero, AtLeastZero, Day!NoTime, NoTime
<1>6. /\ Day(e, d, b)!Sessions = Sessions
      /\ \A s : /\ Day(e, d, b)!InType(s) = InType(s) /\ Day(e, d, b)!OutType(s) = OutType(s)
                /\ Day(e, d, b)!SessionIn(Sched, s) = SessionIn(Sched, s)
                /\ Day(e, d, b)!SessionOut(Sched, s) = SessionOut(Sched, s)
  BY DEF Day!Sessions, Sessions, Day!InType, InType, Day!OutType, OutType,
         Day!SessionIn, SessionIn, Day!SessionOut, SessionOut
<1>7. \A x, y, z : /\ Day(e, d, b)!MinutesLate(x, y, z) = MinutesLate(x, y, z)
                   /\ Day(e, d, b)!MinutesUndertime(x, y) = MinutesUndertime(x, y)
  BY DEF Day!MinutesLate, MinutesLate, Day!MinutesUndertime, MinutesUndertime,
         Day!MinuteOf, MinuteOf, Day!AtLeastZero, AtLeastZero
<1>8. \A day, s, out, t : Day(e, d, b)!AbsenceOf(day, s, out, t) = AbsenceOf(day, s, out, t)
  BY <1>3 DEF Day!AbsenceOf, AbsenceOf, Day!NotAbsent, NotAbsent, Day!SessionIsOpen, SessionIsOpen,
              Day!HasIn, HasIn, Day!HasOut, HasOut, Day!InType, InType, Day!OutType, OutType,
              Day!NoTime, NoTime
<1>9. \A day, ot, t : Day(e, d, b)!ProcessFulltime(day, Sched, ot, t)
                        = ProcessFulltime(day, Sched, ot, t)
  BY <1>3, <1>5, <1>6, <1>7, <1>8 DEF Day!ProcessFulltime, ProcessFulltime
<1>10. QED
  BY <1>1, <1>2, <1>4, <1>5, <1>9

LEMMA DayProcess ==
    ASSUME NEW e, NEW d, NEW b \in BOOLEAN, NEW rows, NEW hol, NEW at
    PROVE  Day(e, d, b)!ProcessDay(rows, NoTime, hol, at) = Judge(e, d, Beside(b), rows, hol, at)
<1>1. ComputeOvertime(DayLogs(rows), NoTime) = NoTime
  BY DEF ComputeOvertime
<1>2. [NoRows EXCEPT !.overtime = NoTime] = NoRows
  BY DEF NoRows
<1> DEFINE tables1 == Day(e, d, b)!ProcessDay(rows, NoTime, hol, at)
           exempt == hol.on /\ hol.required = {} /\ rows = {} /\ ~b
           met == EventRequirementMet(DayLogs(rows), hol.required)
<1>3. tables1 = IF ~WorksOn(d) \/ e \notin Fulltime \/ exempt THEN NoRows
                ELSE IF met THEN [NoRows EXCEPT !.overtime = ComputeOvertime(DayLogs(rows), NoTime)]
                ELSE ProcessFulltime(DayLogs(rows), Sched, NoTime, at)
  BY DayRules DEF Day!ProcessDay
<1> HIDE DEF tables1, met
<1>4. tables1 = IF (~WorksOn(d) \/ e \notin Fulltime \/ exempt) \/ met THEN NoRows
                ELSE ProcessFulltime(DayLogs(rows), Sched, NoTime, at)
  BY <1>1, <1>2, <1>3
<1>5. QED
  BY <1>4 DEF tables1, met, Judge, Beside

\* One row of the ledger, as the sync task stores it, and a day's rows once
\* labels are stored: an instant has at most one row, and that a device row.
Row(at, type) == [at |-> at, type |-> type, source |-> "DEVICE"]
Distinct(rows) == \A r, u \in rows : r.at = u.at => r = u
Stored(rows, labels) ==
    {r \in rows : \A l \in labels : l.at # r.at} \cup {Row(l.at, l.type) : l \in labels}

LEMMA RowFields ==
    /\ \A at, type : Row(at, type).at = at /\ Row(at, type).type = type
    /\ \A r \in LogRows : /\ r = Row(r.at, r.type) /\ r.at \in 0..(DaySeconds - 1)
                           /\ r.type \in LogTypes
    /\ \A at \in 0..(DaySeconds - 1), type \in LogTypes : Row(at, type) \in LogRows
BY DEF Row, LogRows

LEMMA DayStoreAll ==
    ASSUME NEW e, NEW d, NEW b, NEW rows, rows \subseteq LogRows, Distinct(rows), NEW labels
    PROVE  Day(e, d, b)!StoreAll(rows, labels) = Stored(rows, labels)
<1>0. (\A r \in rows : r = Row(r.at, r.type)) /\ (\A r, u \in rows : r.at = u.at => r = u)
  BY RowFields DEF Distinct
<1>1. ASSUME NEW l \in labels
      PROVE  Day(e, d, b)!StoreLog(Day(e, d, b)!RowsAt(rows, l.at), l)
               = {Row(l.at, l.type)}
  <2> DEFINE here == {r \in rows : r.at = l.at}
             row == Row(l.at, l.type)
             device == {r \in here : r.source # "MANUAL"}
             taken == \E r \in here : r.type = l.type
  <2>1. Day(e, d, b)!StoreOutcomes(here, l) =
          IF taken THEN {here}
          ELSE IF device # {}
          THEN {(here \ {stale}) \cup {[stale EXCEPT !.type = l.type]} : stale \in device}
          ELSE {here \cup {row}}
    <3>1. {r \in here : r.at = l.at} = here
      OBVIOUS
    <3>2. QED
      BY <3>1 DEF Day!StoreOutcomes, Day!DeviceRows, Day!RowsAt, Day!Log, Row
  <2>2. device = here
    BY <1>0 DEF Row
  <2>3. CASE here = {}
    <3>1. Day(e, d, b)!StoreOutcomes(here, l) = {{row}}
      BY <2>1, <2>2, <2>3
    <3>2. QED
      BY <3>1 DEF Day!StoreLog, Day!RowsAt
  <2>4. CASE here # {}
    <3>1. PICK stale \in here : TRUE
      BY <2>4
    <3>2. here = {stale}
      BY <1>0, <3>1
    <3>3. stale = Row(l.at, stale.type)
      BY <1>0
    <3>4. [stale EXCEPT !.type = l.type] = row
      BY <3>3 DEF Row
    <3>5. taken => stale = row
      BY <3>2, <3>3
    <3> HIDE DEF row, taken
    <3>6. Day(e, d, b)!StoreOutcomes(here, l) = {{row}}
      <4>1. (here \ {stale}) \cup {[stale EXCEPT !.type = l.type]} = {row}
        BY <3>2, <3>4
      <4> DEFINE relabelled == {(here \ {x}) \cup {[x EXCEPT !.type = l.type]} : x \in device}
      <4>2. relabelled = {{row}}
        BY <2>2, <3>2, <4>1
      <4>3. device # {}
        BY <2>2, <3>2
      <4>4. Day(e, d, b)!StoreOutcomes(here, l) = IF taken THEN {here} ELSE relabelled
        BY <2>1, <4>3
      <4> HIDE DEF relabelled, here, device
      <4>5. QED
        BY <3>2, <3>5, <4>2, <4>4
    <3>7. QED
      BY <3>6 DEF Day!StoreLog, Day!RowsAt, row
  <2>5. QED
    BY <2>3, <2>4
<1>2. QED
  BY <1>1 DEF Day!StoreAll, Stored

LEMMA StoredRows ==
    ASSUME NEW rows, rows \subseteq LogRows, Distinct(rows),
           NEW T, T \subseteq 0..(DaySeconds - 1), NEW labels, WellLabelled(labels, T)
    PROVE  /\ Stored(rows, labels) \subseteq LogRows /\ Distinct(Stored(rows, labels))
           /\ \A r \in rows : \E u \in Stored(rows, labels) : u.at = r.at
           /\ \A u \in Stored(rows, labels) : u.at \in T \/ u \in rows
           /\ rows # {} => Stored(rows, labels) # {}
<1> DEFINE kept == {r \in rows : \A l \in labels : l.at # r.at}
           new == {Row(l.at, l.type) : l \in labels}
<1>0. Stored(rows, labels) = kept \cup new
  BY DEF Stored
<1>1. \A l \in labels : l.at \in T /\ l.type \in LogTypes /\ \A k \in labels : l.at = k.at => l = k
  BY DEF WellLabelled
<1>2. new \subseteq LogRows
  BY <1>1, RowFields
<1>3. \A u \in new : \E l \in labels : u = Row(l.at, l.type) /\ u.at = l.at
  BY RowFields
<1>4. \A r, u \in new : r.at = u.at => r = u
  BY <1>1, <1>3
<1>5. \A r \in kept, u \in new : r.at # u.at
  BY <1>3
<1>6. Distinct(kept \cup new)
  <2>1. \A r, u \in kept : r.at = u.at => r = u
    BY DEF Distinct
  <2> HIDE DEF kept, new
  <2>2. QED
    BY <1>4, <1>5, <2>1 DEF Distinct
<1>7. ASSUME NEW r \in rows PROVE \E u \in kept \cup new : u.at = r.at
  <2>1. CASE r \in kept
    BY <2>1
  <2>2. CASE r \notin kept
    <3>1. PICK l \in labels : l.at = r.at
      BY <2>2
    <3>2. Row(l.at, l.type) \in new /\ Row(l.at, l.type).at = r.at
      BY <3>1, RowFields
    <3>3. QED
      BY <3>2
  <2>3. QED
    BY <2>1, <2>2
<1>8. \A u \in kept \cup new : u.at \in T \/ u \in rows
  BY <1>1, <1>3
<1>9. QED
  BY <1>0, <1>2, <1>6, <1>7, <1>8

Neighbours(e, d) == Beside(HolidayRequires(e, d))

\* Processed is Judge, with the neighbouring workdays as the ledger has them.
LEMMA ProcessedIs ==
    ASSUME NEW e, NEW d, NEW rows, NEW hols
    PROVE  Processed(e, d, rows, hols) = Judge(e, d, Neighbours(e, d), rows, hols[d], now - Moment(d, 0))
<1>1. CASE HolidayRequires(e, d)
  <2>1. Neighbours(e, d) = Beside(TRUE)
    BY <1>1 DEF Neighbours, Beside
  <2>2. QED
    BY <1>1, <2>1, DayProcess DEF Processed
<1>2. CASE ~HolidayRequires(e, d)
  <2>1. Neighbours(e, d) = Beside(FALSE)
    BY <1>2 DEF Neighbours, Beside
  <2>2. QED
    BY <1>2, <2>1, DayProcess DEF Processed
<1>3. QED
  BY <1>1, <1>2

----------------------------------------------------------------------------
(* The calendar.                                                           *)

LEMMA CalendarFacts ==
    /\ LastDay \in Nat /\ Days = 0..LastDay /\ Days \subseteq Nat /\ IsFiniteSet(Days)
    /\ DaySeconds = 86400 /\ \A d, t : Moment(d, t) = d * 86400 + t
    /\ Clock \subseteq Nat
<1>1. LastDay \in Nat /\ Days = 0..LastDay
  BY CalendarAssumption DEF Days
<1>2. IsFiniteSet(0..LastDay)
  BY <1>1, FS_Interval
<1>3. DaySeconds = 86400 /\ \A d, t : Moment(d, t) = d * 86400 + t
  BY DEF DaySeconds, Moment
<1>4. Clock \subseteq Nat
  BY CalendarAssumption
<1>5. QED
  BY <1>1, <1>2, <1>3, <1>4

\* A moment of the clock is of one of the days.
LEMMA DayOfMoment ==
    ASSUME NEW t \in Clock
    PROVE  /\ t \div DaySeconds \in Days
           /\ Moment(t \div DaySeconds, 0) <= t /\ t < Moment((t \div DaySeconds) + 1, 0)
<1>1. t \in Nat /\ t < (LastDay + 1) * 86400
  <2>1. Moment(LastDay + 1, 0) = (LastDay + 1) * 86400 + 0
    BY CalendarFacts
  <2>2. t \in 0..(Moment(LastDay + 1, 0) - 1)
    BY CalendarAssumption
  <2>3. QED
    BY <2>1, <2>2, CalendarFacts
<1>2. t \div 86400 \in Nat /\ (t \div 86400) * 86400 <= t /\ t < (t \div 86400 + 1) * 86400
  BY <1>1
<1>3. t \div 86400 <= LastDay
  BY <1>1, <1>2, CalendarFacts
<1>4. QED
  BY <1>2, <1>3, CalendarFacts

LEMMA LaterDay ==
    ASSUME NEW t \in Clock, NEW u \in Clock, t <= u
    PROVE  t \div DaySeconds <= u \div DaySeconds
<1>1. t \in Nat /\ u \in Nat
  BY CalendarFacts
<1>2. t \div 86400 <= u \div 86400
  BY <1>1
<1>3. QED
  BY <1>2, CalendarFacts

\* The next moment of the clock.
LEMMA NextMoment ==
    ASSUME TypeOK, Tick
    PROVE  now' \in Clock /\ now' > now /\ Today <= Today' /\ Today \in Days /\ Today' \in Days
<1> DEFINE later == {t \in Clock : t > now}
<1>1. now \in Clock /\ now' = Earliest(later) /\ later # {}
  BY DEF TypeOK, Tick
<1>2. later \subseteq 0..(Moment(LastDay + 1, 0) - 1) /\ Moment(LastDay + 1, 0) - 1 \in Nat
  <2>1. Moment(LastDay + 1, 0) = (LastDay + 1) * 86400 + 0
    BY CalendarFacts
  <2>2. Moment(LastDay + 1, 0) - 1 \in Nat
    BY <2>1, CalendarFacts
  <2>3. QED
    BY <2>2, CalendarAssumption
<1> HIDE DEF later
<1>3. now' \in later
  BY <1>1, <1>2, EarliestLatest
<1>4. now' \in Clock /\ now' > now /\ now \in Nat /\ now' \in Nat
  BY <1>1, <1>3, CalendarFacts DEF later
<1>5. QED
  BY <1>1, <1>4, DayOfMoment, LaterDay DEF Today

----------------------------------------------------------------------------
(* Typing, and what the derived rows are made of.                          *)

RowsOk(e, d, rows) ==
    rows \subseteq LogRows /\ Distinct(rows) /\ \A r \in rows : <<e, d, r.at>> \in MayPunch

\* The derived rows are what process_day would leave today under some reading
\* of the neighbouring days, at some moment.
Follows(e, d, rows, hol, tab) ==
    \E n \in Readings, at \in Int : tab = Judge(e, d, n, rows, hol, at)

DayOk(e, d, rows, hol, tab, today) ==
    /\ RowsOk(e, d, rows) /\ Follows(e, d, rows, hol, tab)
    /\ d > today => rows = {} /\ tab = NoRows

LedgerInv ==
    TypeOK /\ \A e \in Employees, d \in Days :
                 DayOk(e, d, logs[e][d], holiday[d], tables[e][d], Today)

LEMMA EmptyDayLogs == \A type \in LogTypes : DayLogs({})[type] = NoTime
BY DEF DayLogs

LEMMA SessionTypes == \A s \in Sessions : InType(s) \in LogTypes /\ OutType(s) \in LogTypes
BY DEF Sessions, InType, OutType, LogTypes, FULLTIME_TYPES

\* A day without punches that has not begun derives nothing.
LEMMA UntouchedDay ==
    ASSUME NEW e, NEW d, NEW hol
    PROVE  Judge(e, d, "MISSED", {}, hol, -1) = NoRows
<1>1. \A s \in Sessions : ~SessionComplete(DayLogs({}), s)
  BY EmptyDayLogs, SessionTypes DEF SessionComplete, HasIn, HasOut
<1>2. Sched \in Schedules
  BY CalendarAssumption
<1>3. \A s \in Sessions : SessionIsOpen(SessionOut(Sched, s), -1)
  BY <1>2 DEF SessionIsOpen, SessionOut, Schedules
<1>4. ComputeOvertime(DayLogs({}), NoTime) = NoTime
  BY DEF ComputeOvertime
<1>5. ProcessFulltime(DayLogs({}), Sched, NoTime, -1) = NoRows
  BY <1>1, <1>3, <1>4 DEF ProcessFulltime, NoRows, AbsenceOf
<1>6. QED
  BY <1>5 DEF Judge

LEMMA JudgeType ==
    ASSUME NEW e, NEW d, NEW n, NEW rows, rows \subseteq LogRows, NEW hol, NEW at
    PROVE  Judge(e, d, n, rows, hol, at) \in Tables
<1>1. \A r \in rows : r.at \in 0..(DaySeconds - 1)
  BY RowFields
<1>2. DaySeconds - 1 \in Nat
  BY CalendarFacts
<1>3. DayLogs(rows) \in [LogTypes -> (0..(DaySeconds - 1)) \cup {NoTime}]
  BY <1>1, <1>2, DayLogsType
<1>4. Sched \in Schedules /\ NoTime \in Nat \cup {NoTime}
  BY CalendarAssumption
<1>5. ProcessFulltime(DayLogs(rows), Sched, NoTime, at) \in Tables
  BY <1>2, <1>3, <1>4, ProcessFulltimeType
<1>6. NoRows \in Tables
  <2>1. NotAbsent \in Reasons \cup {NotAbsent} /\ NoTime \in Nat \cup {NoTime} /\ 0 \in Nat
    OBVIOUS
  <2>2. QED
    BY <2>1 DEF NoRows, Tables
<1>7. QED
  BY <1>5, <1>6 DEF Judge

\* What process_day leaves of a day that has begun is in order.
LEMMA JudgedDayOk ==
    ASSUME NEW e, NEW d \in Days, NEW rows, RowsOk(e, d, rows), NEW hol, NEW n \in Readings,
           NEW today \in Days, d <= today, NEW t \in Int
    PROVE  DayOk(e, d, rows, hol, Judge(e, d, n, rows, hol, t), today)
<1>1. ~(d > today)
  BY CalendarFacts
<1>2. QED
  BY <1>1 DEF DayOk, Follows

\* A pass over the ledger keeps the days it touches, and those it does not.
LEMMA ProcessAllOk ==
    ASSUME TypeOK, NEW pairs, NEW hols, ProcessAll(pairs, hols),
           \A e \in Employees, d \in Days :
               /\ RowsOk(e, d, logs[e][d])
               /\ <<e, d>> \in pairs => d <= Today
               /\ <<e, d>> \notin pairs => DayOk(e, d, logs[e][d], hols[d], tables[e][d], Today)
    PROVE  /\ tables' = [e \in Employees |-> [d \in Days |->
                           IF <<e, d>> \in pairs
                           THEN Judge(e, d, Neighbours(e, d), logs[e][d], hols[d],
                                      now - Moment(d, 0))
                           ELSE tables[e][d]]]
           /\ tables' \in [Employees -> [Days -> Tables]]
           /\ \A e \in Employees, d \in Days : DayOk(e, d, logs[e][d], hols[d], tables'[e][d], Today)
<1> DEFINE judged(e, d) == Judge(e, d, Neighbours(e, d), logs[e][d], hols[d], now - Moment(d, 0))
<1>1. tables' = [e \in Employees |-> [d \in Days |->
                   IF <<e, d>> \in pairs THEN judged(e, d) ELSE tables[e][d]]]
  BY ProcessedIs DEF ProcessAll
<1>2. Today \in Days
  BY DayOfMoment DEF TypeOK, Today
<1>3. ASSUME NEW e \in Employees, NEW d \in Days, d <= Today
      PROVE  DayOk(e, d, logs[e][d], hols[d], judged(e, d), Today)
  <2>1. now - Moment(d, 0) \in Int /\ Neighbours(e, d) \in Readings
    BY CalendarFacts DEF TypeOK, Neighbours, Beside, Readings
  <2>2. QED
    BY <1>2, <1>3, <2>1, JudgedDayOk
<1>4. ASSUME NEW e \in Employees, NEW d \in Days
      PROVE  judged(e, d) \in Tables /\ tables[e][d] \in Tables
  BY JudgeType DEF RowsOk, TypeOK
<1> HIDE DEF judged
<1>5. ASSUME NEW e \in Employees, NEW d \in Days
      PROVE  /\ tables'[e][d] = IF <<e, d>> \in pairs THEN judged(e, d) ELSE tables[e][d]
             /\ DayOk(e, d, logs[e][d], hols[d], tables'[e][d], Today)
  BY <1>1, <1>3
<1>6. tables' \in [Employees -> [Days -> Tables]]
  BY <1>1, <1>4
<1>7. QED
  BY <1>1, <1>5, <1>6 DEF judged

\* What ingest_punches classifies a day's punches as.
LabelsOf(e, times) == ClassifyDay(times, e \in Fulltime, Sched, NoTime)

LEMMA LabelsWell ==
    ASSUME NEW e, NEW times, times \subseteq 0..(DaySeconds - 1)
    PROVE  WellLabelled(LabelsOf(e, times), times)
<1>1. DaySeconds - 1 \in Nat
  BY CalendarFacts
<1>2. WellLabelled(ClassifyDay(times, e \in Fulltime, Sched, NoTime), times)
  BY <1>1, ClassifyDayLabels, Zenon
<1>3. QED
  BY <1>2 DEF LabelsOf

\* The rows an instance of AttendanceDay stores, for its employee and day.
StoredByDay(e, d, rows, labels) == Day(e, d, FALSE)!StoreAll(rows, labels)

LEMMA StoredByDayIs ==
    ASSUME NEW e, NEW d, NEW rows, rows \subseteq LogRows, Distinct(rows), NEW labels
    PROVE  StoredByDay(e, d, rows, labels) = Stored(rows, labels)
<1>1. \A b : Day(e, d, b)!StoreAll(rows, labels) = Stored(rows, labels)
  BY DayStoreAll
<1>2. Day(e, d, FALSE)!StoreAll(rows, labels) = Stored(rows, labels)
  BY <1>1, Zenon
<1>3. QED
  BY <1>2, Zenon DEF StoredByDay

LEMMA SecondsOfDay ==
    ASSUME NEW e, NEW d, NEW t, <<e, d, t>> \in MayPunch
    PROVE  e \in Employees /\ d \in Days /\ t \in 0..(DaySeconds - 1) /\ t \in Nat /\ t < 86400
<1>1. <<e, d, t>> \in Employees \X Days \X (0..(DaySeconds - 1))
  BY CalendarAssumption
<1>2. e \in Employees /\ d \in Days /\ t \in 0..(DaySeconds - 1)
  BY <1>1
<1>3. t \in Nat /\ t < 86400
  BY <1>2 DEF DaySeconds
<1>4. QED
  BY <1>2, <1>3

\* The punches a day's rows and one more are, and its rows once that is stored.
TimesWith(t, rows) == {t} \cup {r.at : r \in rows}
RowsWith(e, t, rows) == Stored(rows, LabelsOf(e, TimesWith(t, rows)))

\* What the stored rows are, and when it happens.
LEMMA IngestStores ==
    ASSUME NEW e, NEW d, NEW t, <<e, d, t>> \in MayPunch, NEW rows, RowsOk(e, d, rows),
           RowsWith(e, t, rows) # rows
    PROVE  /\ TimesWith(t, rows) \subseteq 0..(DaySeconds - 1) /\ TimesWith(t, rows) # {}
           /\ WellLabelled(LabelsOf(e, TimesWith(t, rows)), TimesWith(t, rows))
           /\ RowsOk(e, d, RowsWith(e, t, rows)) /\ RowsWith(e, t, rows) # {}
<1>1. rows \subseteq LogRows /\ Distinct(rows) /\ \A r \in rows : <<e, d, r.at>> \in MayPunch
  BY DEF RowsOk
<1>2. \A r \in rows : r.at \in 0..(DaySeconds - 1)
  BY <1>1, RowFields
<1> DEFINE times == TimesWith(t, rows)
           labels == LabelsOf(e, times)
           stored == RowsWith(e, t, rows)
<1>3. times \subseteq 0..(DaySeconds - 1) /\ times # {} /\ \A u \in times : <<e, d, u>> \in MayPunch
  <2>1. t \in 0..(DaySeconds - 1)
    BY SecondsOfDay
  <2>2. QED
    BY <1>1, <1>2, <2>1 DEF TimesWith
<1>0. stored = Stored(rows, labels) /\ stored # rows
  BY DEF RowsWith
<1> HIDE DEF times, stored
<1>4. WellLabelled(labels, times)
  BY <1>3, LabelsWell
<1> HIDE DEF labels
<1>5. /\ Stored(rows, labels) \subseteq LogRows /\ Distinct(Stored(rows, labels))
      /\ \A u \in Stored(rows, labels) : u.at \in times \/ u \in rows
      /\ rows # {} => Stored(rows, labels) # {}
  BY <1>1, <1>3, <1>4, StoredRows
<1>7. RowsOk(e, d, stored)
  BY <1>0, <1>1, <1>3, <1>5 DEF RowsOk
<1>8. stored # {}
  BY <1>0, <1>5
<1>9. QED
  BY <1>3, <1>4, <1>7, <1>8 DEF labels, times, stored

LEMMA IngestToday ==
    ASSUME now \in Clock, NEW e, NEW d, NEW t, <<e, d, t>> \in MayPunch,
           Moment(d, t) <= now, now <= Moment(d + 1, t)
    PROVE  d <= Today /\ Today <= d + 1
<1>1. Moment(Today, 0) <= now /\ now < Moment(Today + 1, 0) /\ Today \in Nat /\ now \in Nat
  BY DayOfMoment, CalendarFacts DEF Today
<1>2. d * 86400 + t <= now /\ now <= (d + 1) * 86400 + t
  BY CalendarFacts
<1>3. Today * 86400 <= now /\ now < (Today + 1) * 86400
  BY <1>1, CalendarFacts
<1>4. t \in Nat /\ t < 86400 /\ d \in Nat
  <2>1. t \in Nat /\ t < 86400 /\ d \in Days
    BY SecondsOfDay
  <2>2. QED
    BY <2>1, CalendarFacts
<1>5. QED
  BY <1>1, <1>2, <1>3, <1>4

LEMMA InitLedger == Init => LedgerInv
<1> SUFFICES ASSUME Init PROVE LedgerInv
  OBVIOUS
<1>1. NoRows \in Tables
  BY JudgeType, UntouchedDay
<1>2. TypeOK
  <2>1. NoHoliday \in [on: BOOLEAN, required: SUBSET Sessions]
    BY DEF NoHoliday
  <2>2. 0 \in 0..Edits
    BY CalendarAssumption
  <2>3. QED
    BY <1>1, <2>1, <2>2 DEF Init, TypeOK
<1>3. ASSUME NEW e \in Employees, NEW d \in Days
      PROVE  DayOk(e, d, logs[e][d], holiday[d], tables[e][d], Today)
  <2>1. logs[e][d] = {} /\ tables[e][d] = NoRows
    BY DEF Init
  <2>2. NoRows = Judge(e, d, "MISSED", {}, holiday[d], -1) /\ "MISSED" \in Readings
    BY UntouchedDay DEF Readings
  <2>3. RowsOk(e, d, {})
    BY DEF RowsOk, Distinct
  <2>4. Follows(e, d, {}, holiday[d], NoRows)
    BY <2>2 DEF Follows
  <2>5. QED
    BY <2>1, <2>3, <2>4 DEF DayOk
<1>4. QED
  BY <1>2, <1>3 DEF LedgerInv

LEMMA TickLedger == LedgerInv /\ Tick => LedgerInv'
<1> SUFFICES ASSUME LedgerInv, Tick PROVE LedgerInv'
  OBVIOUS
<1>1. TypeOK /\ UNCHANGED <<logs, holiday, tables, cursor, edits>> /\ settled' = FALSE
  BY DEF LedgerInv, Tick
<1>2. now' \in Clock /\ Today <= Today' /\ Today \in Days /\ Today' \in Days
  BY <1>1, NextMoment
<1>3. TypeOK'
  BY <1>1, <1>2 DEF TypeOK
<1>4. ASSUME NEW e \in Employees, NEW d \in Days
      PROVE  DayOk(e, d, logs[e][d], holiday[d], tables[e][d], Today')
  <2>1. DayOk(e, d, logs[e][d], holiday[d], tables[e][d], Today)
    BY DEF LedgerInv
  <2>2. d > Today' => d > Today
    BY <1>2, CalendarFacts
  <2>3. QED
    BY <2>1, <2>2 DEF DayOk
<1>5. QED
  BY <1>1, <1>3, <1>4 DEF LedgerInv

\* One punch of one employee-day: its rows and its derived rows change, and
\* nothing else does.
IngestEffect(e, d, t) ==
    /\ e \in Employees /\ d \in Days /\ d <= Today /\ Today <= d + 1
    /\ logs' \in [Employees -> [Days -> SUBSET LogRows]]
    /\ tables' \in [Employees -> [Days -> Tables]]
    /\ RowsOk(e, d, logs[e][d]) /\ RowsOk(e, d, logs'[e][d])
    /\ logs'[e][d] = RowsWith(e, t, logs[e][d]) /\ logs'[e][d] # logs[e][d]
    /\ logs'[e][d] # {}
    /\ tables'[e][d] = Judge(e, d, Neighbours(e, d), logs'[e][d], holiday[d],
                             now - Moment(d, 0))
    /\ \A f \in Employees, x \in Days :
         <<f, x>> # <<e, d>> => logs'[f][x] = logs[f][x] /\ tables'[f][x] = tables[f][x]
    /\ UNCHANGED <<now, holiday, cursor, edits>> /\ settled' = FALSE

LEMMA IngestStep ==
    ASSUME LedgerInv, NEW e, NEW d, NEW t, <<e, d, t>> \in MayPunch, Ingest(e, d, t)
    PROVE  IngestEffect(e, d, t)
<1> DEFINE rows == logs[e][d]
           stored == RowsWith(e, t, rows)
           judged == Judge(e, d, Neighbours(e, d), stored, holiday[d], now - Moment(d, 0))
<1>1. e \in Employees /\ d \in Days
  BY SecondsOfDay
<1>2. RowsOk(e, d, rows)
  BY <1>1 DEF LedgerInv, DayOk
<1>3. rows \subseteq LogRows /\ Distinct(rows)
  BY <1>2 DEF RowsOk
<1>4. now \in Clock /\ logs \in [Employees -> [Days -> SUBSET LogRows]]
      /\ tables \in [Employees -> [Days -> Tables]]
  BY DEF LedgerInv, TypeOK
<1>5. rows = logs[e][d] /\ stored = RowsWith(e, t, rows)
  OBVIOUS
<1> HIDE DEF rows, stored
<1>6. /\ logs' = [logs EXCEPT ![e][d] = stored] /\ tables' = [tables EXCEPT ![e][d] = judged]
      /\ Moment(d, t) <= now /\ now <= Moment(d + 1, t) /\ stored # rows
      /\ UNCHANGED <<now, holiday, cursor, edits>> /\ settled' = FALSE
  <2>1. stored = StoredByDay(e, d, rows, LabelsOf(e, TimesWith(t, rows)))
    BY <1>3, <1>5, StoredByDayIs DEF RowsWith
  <2>2. /\ logs' = [logs EXCEPT ![e][d] = stored]
        /\ tables' = [tables EXCEPT ![e][d] = Processed(e, d, stored, holiday)]
        /\ Moment(d, t) <= now /\ now <= Moment(d + 1, t) /\ stored # rows
        /\ UNCHANGED <<now, holiday, cursor, edits>> /\ settled' = FALSE
    BY <1>5, <2>1, Zenon DEF Ingest, LabelsOf, StoredByDay, TimesWith
  <2>3. Processed(e, d, stored, holiday) = judged
    BY ProcessedIs
  <2>4. QED
    BY <2>2, <2>3
<1>7. RowsOk(e, d, stored) /\ stored # {}
  BY <1>2, <1>5, <1>6, IngestStores
<1>8. d <= Today /\ Today <= d + 1
  BY <1>4, <1>6, IngestToday
<1>9. stored \in SUBSET LogRows /\ judged \in Tables
  BY <1>7, JudgeType DEF RowsOk
<1>10. judged = Judge(e, d, Neighbours(e, d), stored, holiday[d], now - Moment(d, 0))
  OBVIOUS
<1> HIDE DEF judged
<1>11. /\ logs' \in [Employees -> [Days -> SUBSET LogRows]]
       /\ tables' \in [Employees -> [Days -> Tables]]
       /\ logs'[e][d] = stored /\ tables'[e][d] = judged
       /\ \A f \in Employees, x \in Days :
            <<f, x>> # <<e, d>> => logs'[f][x] = logs[f][x] /\ tables'[f][x] = tables[f][x]
  BY <1>1, <1>4, <1>6, <1>9
<1>12. QED
  BY <1>1, <1>2, <1>5, <1>6, <1>7, <1>8, <1>10, <1>11 DEF IngestEffect

LEMMA IngestLedger ==
    ASSUME LedgerInv, NEW p \in MayPunch, Ingest(p[1], p[2], p[3])
    PROVE  LedgerInv'
<1> DEFINE e == p[1]
           d == p[2]
           t == p[3]
<1>1. p \in Employees \X Days \X (0..(DaySeconds - 1))
  BY CalendarAssumption
<1>2. <<e, d, t>> \in MayPunch /\ Ingest(e, d, t)
  BY <1>1
<1> HIDE DEF e, d, t
<1>4. /\ e \in Employees /\ d \in Days /\ d <= Today
      /\ logs' \in [Employees -> [Days -> SUBSET LogRows]]
      /\ tables' \in [Employees -> [Days -> Tables]]
      /\ RowsOk(e, d, logs'[e][d])
      /\ tables'[e][d] = Judge(e, d, Neighbours(e, d), logs'[e][d], holiday[d], now - Moment(d, 0))
      /\ \A f \in Employees, x \in Days :
           <<f, x>> # <<e, d>> => logs'[f][x] = logs[f][x] /\ tables'[f][x] = tables[f][x]
      /\ UNCHANGED <<now, holiday, cursor, edits>> /\ settled' = FALSE
  <2>1. IngestEffect(e, d, t)
    BY <1>2, IngestStep
  <2>2. QED
    BY <2>1 DEF IngestEffect
<1>5. Today' = Today /\ Today \in Days /\ now \in Nat
  BY <1>4, DayOfMoment, CalendarFacts DEF LedgerInv, TypeOK, Today
<1>6. ASSUME NEW f \in Employees, NEW x \in Days
      PROVE  DayOk(f, x, logs'[f][x], holiday[x], tables'[f][x], Today)
  <2>1. CASE <<f, x>> # <<e, d>>
    BY <1>4, <2>1 DEF LedgerInv
  <2>2. CASE <<f, x>> = <<e, d>>
    <3>1. now - Moment(d, 0) \in Int /\ Neighbours(e, d) \in Readings
      BY <1>4, <1>5, CalendarFacts DEF Neighbours, Beside, Readings
    <3>2. QED
      BY <1>4, <1>5, <2>2, <3>1, JudgedDayOk
  <2>3. QED
    BY <2>1, <2>2
<1>7. TypeOK'
  <2>1. ASSUME NEW f \in Employees, NEW x \in Days, NEW r \in logs'[f][x]
        PROVE  <<f, x, r.at>> \in MayPunch
    <3>1. RowsOk(f, x, logs'[f][x])
      BY <1>6 DEF DayOk
    <3>2. QED
      BY <3>1 DEF RowsOk
  <2>2. QED
    BY <1>4, <2>1 DEF LedgerInv, TypeOK
<1>8. QED
  BY <1>4, <1>5, <1>6, <1>7 DEF LedgerInv

\* The employee-days the pass goes over.
PassFirst == IF cursor # NoDay THEN cursor + 1 ELSE SystemStart
PassPairs ==
    LET catchUp == {p \in Employees \X (PassFirst..(Today - 1)) : p[2] >= Floor[p[1]]}
        recent == {d \in Days : holiday[d].on /\ d < Today /\ d >= Today - HOLIDAY_REEVAL_DAYS}
    IN  catchUp \cup (Employees \X ({Today} \cup recent))

LEMMA PassIs ==
    ASSUME DailyPass
    PROVE  /\ ProcessAll(PassPairs, holiday)
           /\ cursor' = IF PassFirst < Today THEN Today - 1 ELSE cursor
           /\ settled' = TRUE /\ UNCHANGED <<now, logs, holiday, edits>>
BY DEF DailyPass, PassPairs, PassFirst

LEMMA PassLedger == LedgerInv /\ DailyPass => LedgerInv'
<1> SUFFICES ASSUME LedgerInv, DailyPass PROVE LedgerInv'
  OBVIOUS
<1>1. TypeOK /\ \A e \in Employees, d \in Days :
                  DayOk(e, d, logs[e][d], holiday[d], tables[e][d], Today)
  BY DEF LedgerInv
<1>2. Today \in Days
  BY <1>1, DayOfMoment DEF TypeOK, Today
<1>3. \A e, d : <<e, d>> \in PassPairs => d <= Today
  <2>1. \A d : d \in PassFirst..(Today - 1) => d <= Today
    BY <1>2, CalendarFacts
  <2>2. \A d \in Days : d < Today => d <= Today
    BY <1>2, CalendarFacts
  <2>3. Today <= Today
    BY <1>2, CalendarFacts
  <2>4. QED
    BY <2>1, <2>2, <2>3 DEF PassPairs
<1>4. /\ tables' \in [Employees -> [Days -> Tables]]
      /\ \A e \in Employees, d \in Days : DayOk(e, d, logs[e][d], holiday[d], tables'[e][d], Today)
  <2>1. ASSUME NEW e \in Employees, NEW d \in Days
        PROVE  /\ RowsOk(e, d, logs[e][d])
               /\ <<e, d>> \in PassPairs => d <= Today
               /\ <<e, d>> \notin PassPairs => DayOk(e, d, logs[e][d], holiday[d], tables[e][d], Today)
    <3>1. DayOk(e, d, logs[e][d], holiday[d], tables[e][d], Today)
      BY <1>1
    <3>2. RowsOk(e, d, logs[e][d])
      BY <3>1 DEF DayOk
    <3>3. QED
      BY <1>3, <3>1, <3>2
  <2>2. ProcessAll(PassPairs, holiday)
    BY PassIs
  <2>3. QED
    BY <1>1, <2>1, <2>2, ProcessAllOk
<1>5. UNCHANGED <<now, logs, holiday, edits>> /\ settled' \in BOOLEAN
  BY PassIs
<1>6. cursor' \in Days \cup {NoDay}
  <2>1. CASE PassFirst < Today
    <3>1. Today - 1 \in Days \cup {NoDay}
      BY <1>2, CalendarFacts DEF NoDay
    <3>2. QED
      BY <2>1, <3>1, PassIs
  <2>2. CASE ~(PassFirst < Today)
    BY <1>1, <2>2, PassIs DEF TypeOK
  <2>3. QED
    BY <2>1, <2>2
<1>7. TypeOK' /\ Today' = Today
  BY <1>1, <1>4, <1>5, <1>6 DEF TypeOK, Today
<1>8. QED
  BY <1>4, <1>5, <1>7 DEF LedgerInv

LEMMA HolidayLedger ==
    ASSUME LedgerInv, NEW s \in HolidaySettings, SaveHoliday(s[1], s[2])
    PROVE  LedgerInv'
<1> DEFINE d == s[1]
           hol == s[2]
           pairs == IF d <= Today THEN Employees \X {d} ELSE {}
<1>1. d \in Days /\ hol \in [on: BOOLEAN, required: SUBSET Sessions]
  BY CalendarAssumption
<1>2. /\ edits < Edits /\ edits' = edits + 1 /\ holiday' = [holiday EXCEPT ![d] = hol]
      /\ ProcessAll(pairs, holiday') /\ settled' = FALSE /\ UNCHANGED <<now, logs, cursor>>
  BY DEF SaveHoliday
<1>3. \A e, x : <<e, x>> \in pairs => x = d /\ d <= Today
  OBVIOUS
<1>4. \A e \in Employees : d <= Today => <<e, d>> \in pairs
  OBVIOUS
<1> HIDE DEF d, hol, pairs
<1>5. TypeOK /\ \A e \in Employees, x \in Days :
                  DayOk(e, x, logs[e][x], holiday[x], tables[e][x], Today)
  BY DEF LedgerInv
<1>6. Today \in Days /\ Today' = Today
  BY <1>2, <1>5, DayOfMoment DEF TypeOK, Today
<1>7. holiday' \in [Days -> [on: BOOLEAN, required: SUBSET Sessions]]
      /\ \A x \in Days : x # d => holiday'[x] = holiday[x]
  BY <1>1, <1>2, <1>5 DEF TypeOK
<1>8. ASSUME NEW e \in Employees, NEW x \in Days
      PROVE  /\ RowsOk(e, x, logs[e][x])
             /\ <<e, x>> \in pairs => x <= Today
             /\ <<e, x>> \notin pairs => DayOk(e, x, logs[e][x], holiday'[x], tables[e][x], Today)
  <2>1. DayOk(e, x, logs[e][x], holiday[x], tables[e][x], Today)
    BY <1>5
  <2>2. CASE x # d
    BY <1>3, <1>7, <2>1, <2>2 DEF DayOk
  <2>3. CASE x = d /\ d <= Today
    BY <1>4, <2>1, <2>3 DEF DayOk
  <2>4. CASE x = d /\ ~(d <= Today)
    <3>1. x > Today
      BY <1>1, <1>6, <2>4, CalendarFacts
    <3>2. logs[e][x] = {} /\ tables[e][x] = NoRows /\ RowsOk(e, x, logs[e][x])
      BY <2>1, <3>1 DEF DayOk
    <3>3. NoRows = Judge(e, x, "MISSED", {}, holiday'[x], -1) /\ "MISSED" \in Readings
      BY UntouchedDay DEF Readings
    <3>4. Follows(e, x, {}, holiday'[x], NoRows)
      BY <3>3 DEF Follows
    <3>5. QED
      BY <1>3, <2>4, <3>2, <3>4 DEF DayOk
  <2>5. QED
    BY <2>2, <2>3, <2>4
<1>9. /\ tables' \in [Employees -> [Days -> Tables]]
      /\ \A e \in Employees, x \in Days : DayOk(e, x, logs[e][x], holiday'[x], tables'[e][x], Today)
  BY <1>2, <1>5, <1>8, ProcessAllOk
<1>10. edits' \in 0..Edits
  <2>1. edits \in 0..Edits /\ Edits \in Nat
    BY <1>5, CalendarAssumption DEF TypeOK
  <2>2. QED
    BY <1>2, <2>1
<1>11. TypeOK'
  BY <1>2, <1>5, <1>7, <1>9, <1>10 DEF TypeOK
<1>12. QED
  BY <1>2, <1>6, <1>9, <1>11 DEF LedgerInv

\* Every state of the ledger is well typed, a day's rows are distinct punches,
\* and what is derived is what process_day would have left.
LEMMA LedgerStep == LedgerInv /\ [Next]_vars => LedgerInv'
<1> SUFFICES ASSUME LedgerInv, [Next]_vars PROVE LedgerInv'
  OBVIOUS
<1>1. CASE Tick
  BY <1>1, TickLedger
<1>2. CASE \E p \in MayPunch : Ingest(p[1], p[2], p[3])
  BY <1>2, IngestLedger
<1>3. CASE DailyPass
  BY <1>3, PassLedger
<1>4. CASE \E s \in HolidaySettings : SaveHoliday(s[1], s[2])
  BY <1>4, HolidayLedger
<1>5. CASE UNCHANGED vars
  BY <1>5 DEF vars, LedgerInv, TypeOK, Today
<1>6. QED
  BY <1>1, <1>2, <1>3, <1>4, <1>5 DEF Next

LEMMA LedgerAlways == Spec => []LedgerInv
BY InitLedger, LedgerStep, PTL DEF Spec

\* The ledger's variables keep their types: rows are punches that were made, one
\* for each instant, labelled with a log type.
THEOREM RecordsTyped == Spec => []TypeOK
<1>1. LedgerInv => TypeOK
  BY DEF LedgerInv
<1>2. QED
  BY <1>1, LedgerAlways, PTL

----------------------------------------------------------------------------
(* Records, one for each day.                                              *)

RecordsOf(F, D) == {F[d] : d \in D}
ByDay(F, D) == DOMAIN F = D /\ \A d \in D : F[d].day = d

LEMMA OneRecordADay ==
    ASSUME NEW D, IsFiniteSet(D), NEW F, ByDay(F, D)
    PROVE  /\ IsFiniteSet(RecordsOf(F, D)) /\ Cardinality(RecordsOf(F, D)) = Cardinality(D)
           /\ OneToOne([d \in D |-> F[d]], D, RecordsOf(F, D))
<1> DEFINE R == RecordsOf(F, D)
           m == [d \in D |-> F[d]]
<1>1. m \in [D -> R] /\ \A x, y \in D : m[x] = m[y] => x = y
  BY DEF ByDay, RecordsOf
<1>2. \A r \in R : \E x \in D : m[x] = r
  BY DEF RecordsOf
<1>3. OneToOne(m, D, R)
  BY <1>1 DEF OneToOne
<1> HIDE DEF m, R
<1>4. m \in Bijection(D, R)
  <2>1. DOMAIN m = D
    BY <1>1
  <2>2. QED
    BY <1>1, <1>2, <2>1 DEF Bijection, Injection, Surjection, IsInjective
<1>5. ExistsBijection(D, R)
  BY <1>4 DEF ExistsBijection
<1>6. IsFiniteSet(R) /\ Cardinality(R) = Cardinality(D)
  BY <1>5, FS_Bijection
<1>7. QED
  BY <1>3, <1>6 DEF m, R

\* A total of records is the sum over the days.
LEMMA TotalByDay ==
    ASSUME NEW D, IsFiniteSet(D), NEW F, ByDay(F, D), NEW field, NEW g \in [D -> Nat],
           \A d \in D : F[d][field] = g[d]
    PROVE  Total(RecordsOf(F, D), field) = SumFunction(g) /\ SumFunction(g) \in Nat
<1> DEFINE R == RecordsOf(F, D)
           m == [d \in D |-> F[d]]
           h == [r \in R |-> r[field]]
<1>1. IsFiniteSet(R) /\ OneToOne(m, D, R)
  BY OneRecordADay
<1>2. \A r \in R : \E d \in D : m[d] = r /\ r[field] = g[d]
  BY DEF RecordsOf
<1>3. h \in [R -> Nat]
  BY <1>2
<1>4. \A d \in D : m[d] \in R /\ h[m[d]] = g[d]
  BY DEF RecordsOf
<1>5. Total(R, field) = SumFunction(h)
  BY DEF Total
<1> HIDE DEF R, m, h
<1>6. \A d \in D : g[d] <= h[m[d]] /\ g[d] = h[m[d]]
  BY <1>4
<1>7. \A r \in R : h[r] = 0 \/ \E d \in D : m[d] = r
  BY <1>2
<1>8. SumFunction(g) = SumFunction(h) /\ SumFunction(g) \in Nat
  BY <1>1, <1>3, <1>6, <1>7, SumCompares
<1>9. QED
  BY <1>5, <1>8 DEF R

LEMMA DisjointUnion ==
    ASSUME NEW S, IsFiniteSet(S), NEW T, IsFiniteSet(T), S \cap T = {}
    PROVE  /\ IsFiniteSet(S \cup T) /\ Cardinality(S \cup T) = Cardinality(S) + Cardinality(T)
           /\ Cardinality(S) \in Nat /\ Cardinality(T) \in Nat /\ Cardinality(S \cup T) \in Nat
<1> DEFINE U == S \cup T
           i == Cardinality(S)
           j == Cardinality(T)
           k == Cardinality(U)
<1>1. IsFiniteSet(U) /\ k = i + j - Cardinality(S \cap T)
  BY FS_Union
<1>2. i \in Nat /\ j \in Nat /\ Cardinality(S \cap T) = 0
  BY FS_CardinalityType, FS_EmptySet
<1> HIDE DEF U, i, j, k
<1>3. k = i + j /\ k \in Nat
  BY <1>1, <1>2
<1>4. QED
  BY <1>1, <1>2, <1>3 DEF U, i, j, k

Finished == {"PRESENT", "LATE", "HALF_DAY", "ABSENT"}

\* Records that are all finished are counted once each.
LEMMA CountsAddUp ==
    ASSUME NEW R, IsFiniteSet(R), \A r \in R : r.status \in Finished
    PROVE  Count(R, "PRESENT") + Count(R, "LATE") + Count(R, "HALF_DAY") + Count(R, "ABSENT")
             = Cardinality(R)
<1> DEFINE With(st) == {r \in R : r.status = st}
           P == With("PRESENT")
           L == With("LATE")
           H == With("HALF_DAY")
           A == With("ABSENT")
<1>1. \A st : Count(R, st) = Cardinality(With(st)) /\ With(st) \subseteq R
  BY DEF Count
<1>2. P \cup (L \cup (H \cup A)) = R
  BY DEF Finished
<1>3. P \cap (L \cup (H \cup A)) = {} /\ L \cap (H \cup A) = {} /\ H \cap A = {}
  OBVIOUS
<1>4. P \subseteq R /\ L \subseteq R /\ H \subseteq R /\ A \subseteq R
  OBVIOUS
<1> HIDE DEF P, L, H, A
<1>5. IsFiniteSet(P) /\ IsFiniteSet(L) /\ IsFiniteSet(H) /\ IsFiniteSet(A)
  BY <1>4, FS_Subset
<1> DEFINE HA == H \cup A
           LHA == L \cup HA
           p == Cardinality(P)
           l == Cardinality(L)
           h == Cardinality(H)
           a == Cardinality(A)
           n == Cardinality(HA)
           m == Cardinality(LHA)
<1>6. IsFiniteSet(HA) /\ n = h + a /\ h \in Nat /\ a \in Nat /\ n \in Nat
  BY <1>3, <1>5, DisjointUnion
<1>7. L \cap HA = {} /\ P \cap LHA = {} /\ P \cup LHA = R
  BY <1>2, <1>3
<1> HIDE DEF HA
<1>8. IsFiniteSet(LHA) /\ m = l + n /\ l \in Nat /\ m \in Nat
  BY <1>5, <1>6, <1>7, DisjointUnion
<1> HIDE DEF LHA
<1>9. Cardinality(R) = p + m /\ p \in Nat
  BY <1>5, <1>7, <1>8, DisjointUnion
<1>10. /\ Count(R, "PRESENT") = p /\ Count(R, "LATE") = l
       /\ Count(R, "HALF_DAY") = h /\ Count(R, "ABSENT") = a
  BY <1>1 DEF P, L, H, A
<1> HIDE DEF p, l, h, a, n, m
<1>11. p + m = p + l + h + a
  BY <1>6, <1>8, <1>9
<1>12. QED
  BY <1>9, <1>10, <1>11

LEMMA OutBeforeMidnight ==
    ASSUME NEW s \in Sessions
    PROVE  SessionOut(Sched, s) \in Nat /\ SessionOut(Sched, s) < 86400
<1>1. /\ Sched.am_in \in Nat /\ Sched.am_out \in Nat /\ Sched.midpoint \in Nat
      /\ Sched.pm_in \in Nat /\ Sched.pm_out \in Nat
  BY CalendarAssumption DEF Schedules
<1>2. Sched.am_out < 86400 /\ Sched.pm_out < 86400
  <2>1. OrderedSchedule(Sched)
    BY CalendarAssumption
  <2>2. QED
    BY <1>1, <2>1 DEF OrderedSchedule, DaySeconds
<1>3. QED
  BY <1>1, <1>2 DEF SessionOut

\* A session of a day gone by is decided.
LEMMA PastSessionDecided ==
    ASSUME TypeOK, NEW d \in Days, d < Today, NEW s \in Sessions
    PROVE  ~SessionIsOpen(SessionOut(Sched, s), now - Moment(d, 0))
<1>1. now \in Nat /\ Today \in Nat /\ d \in Nat /\ Today * 86400 <= now
  <2>1. now \in Clock
    BY DEF TypeOK
  <2>2. Moment(Today, 0) <= now /\ Today \in Days /\ now \in Nat
    BY <2>1, DayOfMoment, CalendarFacts DEF Today
  <2>3. QED
    BY <2>2, CalendarFacts
<1>2. now - Moment(d, 0) >= 86400
  <2>1. Moment(d, 0) = d * 86400
    BY <1>1, CalendarFacts
  <2>2. (d + 1) * 86400 <= Today * 86400
    BY <1>1
  <2>3. QED
    BY <1>1, <2>1, <2>2
<1>3. SessionOut(Sched, s) \in Nat /\ SessionOut(Sched, s) < 86400
  BY OutBeforeMidnight
<1>4. now - Moment(d, 0) \in Int
  BY <1>1, CalendarFacts
<1>5. QED
  BY <1>2, <1>3, <1>4 DEF SessionIsOpen

LEMMA FulltimeDay ==
    ASSUME NEW e, NEW d
    PROVE  /\ FulltimeRecord(e, d).day = d
           /\ (\A s \in Sessions : SessionStatus(e, d, s) # "PENDING")
                => FulltimeRecord(e, d).status \in Finished
<1>1. CASE EventRequirementMet(DayLogs(logs[e][d]), holiday[d].required) \/ HolidayOff(e, d)
  BY <1>1 DEF FulltimeRecord, Credited, Finished
<1>2. CASE ~(EventRequirementMet(DayLogs(logs[e][d]), holiday[d].required) \/ HolidayOff(e, d))
  <2> DEFINE status == [s \in Sessions |-> SessionStatus(e, d, s)]
  <2>1. FulltimeRecord(e, d).day = d /\ FulltimeRecord(e, d).status = DayStatus(status)
    BY <1>2 DEF FulltimeRecord, JudgedRecord, DayRecord
  <2>2. (\A s \in Sessions : SessionStatus(e, d, s) # "PENDING") => "PENDING" \notin Range(status)
    BY DEF Range
  <2>3. "PENDING" \notin Range(status) => DayStatus(status) \in Finished
    BY DEF DayStatus, Finished
  <2>4. QED
    BY <2>1, <2>2, <2>3
<1>3. QED
  BY <1>1, <1>2

\* The days of a range that build_daily_attendance lists.
IncludedDays(e, a, b) == {x \in Days : a <= x /\ x <= b /\ Included(e, x)}
FulltimeRecords(e, a, b) == [d \in IncludedDays(e, a, b) |-> FulltimeRecord(e, d)]

LEMMA FulltimeBuild ==
    ASSUME NEW e \in Fulltime, NEW a, NEW b
    PROVE  /\ BuildDailyAttendance(e, a, b)
                = RecordsOf(FulltimeRecords(e, a, b), IncludedDays(e, a, b))
           /\ ByDay(FulltimeRecords(e, a, b), IncludedDays(e, a, b))
           /\ IsFiniteSet(IncludedDays(e, a, b))
<1> DEFINE D == IncludedDays(e, a, b)
<1>1. BuildDailyAttendance(e, a, b) = {FulltimeRecord(e, d) : d \in D}
  BY DEF BuildDailyAttendance, IncludedDays
<1>2. {FulltimeRecord(e, d) : d \in D} = RecordsOf(FulltimeRecords(e, a, b), D)
  BY DEF RecordsOf, FulltimeRecords
<1>3. ByDay(FulltimeRecords(e, a, b), D)
  BY FulltimeDay DEF ByDay, FulltimeRecords
<1>4. D \in SUBSET Days /\ IsFiniteSet(Days)
  BY CalendarFacts DEF IncludedDays
<1> HIDE DEF D
<1>5. IsFiniteSet(D)
  BY <1>4, FS_Subset
<1>6. QED
  BY <1>1, <1>2, <1>3, <1>5 DEF D

\* A day off derives nothing.
LEMMA DayOffRows ==
    ASSUME LedgerInv, NEW e \in Employees, NEW d \in Days, ~WorksOn(d)
    PROVE  tables[e][d] = NoRows
<1>1. Follows(e, d, logs[e][d], holiday[d], tables[e][d])
  BY DEF LedgerInv, DayOk
<1>2. QED
  BY <1>1 DEF Follows, Judge

\* Of the days a full-timer was tracked on, the pages list those that count.
LEMMA TrackedDays ==
    ASSUME LedgerInv, NEW e \in Fulltime, NEW a \in Days, NEW b \in Days,
           TrackingStart(e) <= a, b <= Today
    PROVE  IncludedDays(e, a, b) = {d \in a..b : WorksOn(d) \/ logs[e][d] # {}}
<1>1. SystemStart \in Nat /\ TrackingStart(e) \in Nat /\ Today \in Nat
  <2>1. Today \in Days
    BY DayOfMoment DEF LedgerInv, TypeOK, Today
  <2> DEFINE recorded == {d \in Days : \E f \in Employees : logs[f][d] # {}}
  <2>2. recorded # {} => Earliest(recorded) \in recorded
    <3>1. recorded \subseteq 0..LastDay /\ LastDay \in Nat
      BY CalendarFacts
    <3> HIDE DEF recorded
    <3>2. QED
      BY <3>1, EarliestLatest
  <2>3. SystemStart \in Days
    <3>1. SystemStart = IF recorded = {} THEN Today ELSE Earliest(recorded)
      BY DEF SystemStart
    <3>2. recorded \subseteq Days
      OBVIOUS
    <3> HIDE DEF recorded
    <3>3. QED
      BY <2>1, <2>2, <3>1, <3>2
  <2>4. Floor[e] \in Nat
    BY CalendarAssumption DEF Employees
  <2>5. QED
    BY <2>1, <2>3, <2>4, CalendarFacts DEF TrackingStart
<1>2. ASSUME NEW d \in Days, a <= d, d <= b
      PROVE  Included(e, d) <=> WorksOn(d) \/ logs[e][d] # {}
  <2>1. TrackingStart(e) <= d /\ d <= Today
    BY <1>1, <1>2, CalendarFacts
  <2>2. ~WorksOn(d) => tables[e][d] = NoRows
    BY DayOffRows DEF Employees
  <2>3. QED
    BY <2>1, <2>2 DEF Included
<1>3. \A d : d \in a..b <=> d \in Days /\ a <= d /\ d <= b
  BY CalendarFacts
<1>4. QED
  BY <1>2, <1>3 DEF IncludedDays

\* The workdays a finished range of a full-timer's days has, holidays included,
\* are the days its totals count as present, late, half or absent: each is
\* listed by build_daily_attendance, once, and none is still pending.
LEMMA WorkdaysCounted == LedgerInv => EveryWorkdayCounts
<1> SUFFICES ASSUME LedgerInv, NEW e \in Fulltime, NEW a \in Days, NEW b \in Days,
                    TrackingStart(e) <= a, a <= b, b < Today, b - a < MAX_RANGE_DAYS
             PROVE  DaysCounted(AttendanceReport(e, a, b).totals)
                      = Cardinality({d \in a..b : WorksOn(d) \/ logs[e][d] # {}})
  BY DEF EveryWorkdayCounts
<1> DEFINE D == IncludedDays(e, a, b)
           F == FulltimeRecords(e, a, b)
           R == RecordsOf(F, D)
<1>1. Today \in Days /\ TypeOK
  BY DayOfMoment DEF LedgerInv, TypeOK, Today
<1>2. AttendanceReport(e, a, b).totals = Summary(R)
  <2>1. e \in Employees /\ ~(a > b) /\ ~(b - a + 1 > MAX_RANGE_DAYS)
    BY CalendarFacts DEF MAX_RANGE_DAYS, Employees
  <2>2. BuildDailyAttendance(e, a, b) = R
    BY FulltimeBuild
  <2> HIDE DEF R
  <2>3. AttendanceReport(e, a, b) = ReportOf(e, R, {})
    BY <2>1, <2>2 DEF AttendanceReport
  <2>4. QED
    BY <2>3 DEF ReportOf
<1>3. D = {d \in a..b : WorksOn(d) \/ logs[e][d] # {}}
  <2>1. b <= Today
    BY <1>1, CalendarFacts
  <2>2. QED
    BY <2>1, TrackedDays
<1>4. \A d \in D : F[d].status \in Finished
  <2> SUFFICES ASSUME NEW d \in D PROVE F[d].status \in Finished
    OBVIOUS
  <2>1. d \in Days /\ d < Today
    BY <1>1, CalendarFacts DEF IncludedDays
  <2>2. \A s \in Sessions : SessionStatus(e, d, s) # "PENDING"
    BY <1>1, <2>1, PastSessionDecided DEF SessionStatus
  <2>3. FulltimeRecord(e, d).status \in Finished
    BY <2>2, FulltimeDay
  <2>4. QED
    BY <2>3 DEF FulltimeRecords
<1>5. \A r \in R : r.status \in Finished
  BY <1>4 DEF RecordsOf
<1>6. IsFiniteSet(R) /\ Cardinality(R) = Cardinality(D)
  BY FulltimeBuild, OneRecordADay
<1> HIDE DEF R, D, F
<1>7. Count(R, "PRESENT") + Count(R, "LATE") + Count(R, "HALF_DAY") + Count(R, "ABSENT")
        = Cardinality(D)
  BY <1>5, <1>6, CountsAddUp
<1>8. DaysCounted(Summary(R))
        = Count(R, "PRESENT") + Count(R, "LATE") + Count(R, "HALF_DAY") + Count(R, "ABSENT")
  BY DEF DaysCounted, Summary
<1>9. QED
  BY <1>2, <1>3, <1>7, <1>8

\* A report's present, late, half and absent days add up to the finished
\* workdays and the days with punches, in every range a report may cover.
THEOREM WorkdaysAlwaysCounted == Spec => []EveryWorkdayCounts
BY WorkdaysCounted, LedgerAlways, PTL

----------------------------------------------------------------------------
(* Weeks.                                                                  *)

\* A day is in the week WeekOf says, and a later day in the same or a later one.
LEMMA WeekFacts ==
    /\ \A d \in Nat : WeekOf(d) \in Int /\ WeekOf(d) <= d /\ d <= WeekOf(d) + 6
    /\ \A c, d \in Nat : c <= d => WeekOf(c) <= WeekOf(d)
<1> DEFINE F == FirstWeekday
<1>1. F \in 0..6
  BY CalendarAssumption
<1>2. \A d \in Nat : WeekOf(d) = d - ((F + d) % 7)
  BY DEF WeekOf, Weekday
<1> HIDE DEF F
<1>3. \A d \in Nat : /\ (F + d) % 7 \in 0..6
                     /\ d - ((F + d) % 7) = 7 * ((F + d) \div 7) - F
  BY <1>1
<1>4. ASSUME NEW c \in Nat, NEW d \in Nat, c <= d
      PROVE  WeekOf(c) <= WeekOf(d)
  <2>1. (F + c) \div 7 <= (F + d) \div 7
    BY <1>1, <1>4
  <2>2. (F + c) \div 7 \in Int /\ (F + d) \div 7 \in Int
    BY <1>1
  <2>3. 7 * ((F + c) \div 7) - F <= 7 * ((F + d) \div 7) - F
    BY <1>1, <2>1, <2>2
  <2>4. WeekOf(c) = 7 * ((F + c) \div 7) - F /\ WeekOf(d) = 7 * ((F + d) \div 7) - F
    BY <1>2, <1>3
  <2>5. QED
    BY <2>3, <2>4
<1>5. ASSUME NEW d \in Nat
      PROVE  WeekOf(d) \in Int /\ WeekOf(d) <= d /\ d <= WeekOf(d) + 6
  <2>1. WeekOf(d) = d - ((F + d) % 7) /\ (F + d) % 7 \in 0..6
    BY <1>2, <1>3
  <2>2. QED
    BY <2>1
<1>6. QED
  BY <1>4, <1>5

ParttimeRecords(e, D) == {ParttimeRecord(e, d) : d \in D}
DaysOfWeek(e, w) == {d \in Days : Included(e, d) /\ WeekOf(d) = w}

LEMMA ParttimeDay == \A e, d : ParttimeRecord(e, d).day = d
BY DEF ParttimeRecord, ParttimeRecordOf, Credited

\* Whatever the range, a week in it is read from all its days.
LEMMA WholeWeek ==
    ASSUME NEW e \in Parttime, NEW a \in Days, NEW b \in Days, NEW d \in a..b
    PROVE  {r \in BuildDailyAttendance(e, WeekOf(a), WeekOf(b) + 6) : WeekOf(r.day) = WeekOf(d)}
             = ParttimeRecords(e, DaysOfWeek(e, WeekOf(d)))
<1> DEFINE w == WeekOf(d)
           D == IncludedDays(e, WeekOf(a), WeekOf(b) + 6)
<1>1. e \notin Fulltime
  BY CalendarAssumption
<1>2. BuildDailyAttendance(e, WeekOf(a), WeekOf(b) + 6) = {ParttimeRecord(e, x) : x \in D}
  BY <1>1 DEF BuildDailyAttendance, IncludedDays
<1>3. a \in Nat /\ b \in Nat /\ d \in Nat /\ a <= d /\ d <= b
  BY CalendarFacts
<1>4. {x \in D : WeekOf(x) = w} = DaysOfWeek(e, w)
  <2> SUFFICES ASSUME NEW x \in Days, WeekOf(x) = w
               PROVE  WeekOf(a) <= x /\ x <= WeekOf(b) + 6
    BY DEF DaysOfWeek, IncludedDays
  <2>1. x \in Nat
    BY CalendarFacts
  <2>2. WeekOf(a) <= w /\ w <= WeekOf(b) /\ w <= x /\ x <= w + 6
    BY <1>3, <2>1, WeekFacts
  <2>3. w \in Int /\ WeekOf(a) \in Int /\ WeekOf(b) \in Int
    BY <1>3, WeekFacts
  <2> HIDE DEF w
  <2>4. QED
    BY <2>1, <2>2, <2>3
<1>5. {r \in {ParttimeRecord(e, x) : x \in D} : WeekOf(r.day) = w}
        = {ParttimeRecord(e, x) : x \in {y \in D : WeekOf(y) = w}}
  BY ParttimeDay
<1> HIDE DEF D
<1>6. QED
  BY <1>2, <1>4, <1>5 DEF ParttimeRecords

\* A part-timer's week reads the same whatever range it is looked at in: the
\* weeks at the range's ends are counted whole.
LEMMA WeeksWhole == WeekSameInAnyRange
<1> SUFFICES ASSUME NEW e \in Parttime, NEW a \in Days, NEW b \in Days, a <= b,
                    NEW row \in WeeklyHours(e, a, b)
             PROVE  row \in WeeklyHours(e, 0, LastDay)
  BY DEF WeekSameInAnyRange
<1> DEFINE records(x, y) == BuildDailyAttendance(e, WeekOf(x), WeekOf(y) + 6)
<1>1. PICK w \in {x \in {WeekOf(d) : d \in a..b} : x <= Today /\ x + 6 >= TrackingStart(e)} :
        row = Week(w, {r \in records(a, b) : WeekOf(r.day) = w})
  BY DEF WeeklyHours, Weeks
<1>2. PICK d \in a..b : w = WeekOf(d)
  BY <1>1
<1>3. 0 \in Days /\ LastDay \in Days /\ d \in 0..LastDay
  BY CalendarFacts
<1>4. {r \in records(a, b) : WeekOf(r.day) = w} = {r \in records(0, LastDay) : WeekOf(r.day) = w}
  BY <1>2, <1>3, WholeWeek
<1>5. w \in {x \in {WeekOf(c) : c \in 0..LastDay} : x <= Today /\ x + 6 >= TrackingStart(e)}
  BY <1>1, <1>2, <1>3
<1> HIDE DEF records
<1>6. row = Week(w, {r \in records(0, LastDay) : WeekOf(r.day) = w})
  BY <1>1, <1>4
<1>7. QED
  BY <1>5, <1>6 DEF WeeklyHours, Weeks, records

\* A part-timer's week is the same in every range that overlaps it.
THEOREM WeeksAlwaysWhole == Spec => []WeekSameInAnyRange
BY WeeksWhole, PTL

----------------------------------------------------------------------------
(* Today, after the pass.                                                  *)

\* The derived rows are those process_day would leave at this moment.
JudgedNow(e, d) ==
    tables[e][d] = Judge(e, d, Neighbours(e, d), logs[e][d], holiday[d], now - Moment(d, 0))

HolidaysOk == \A d \in Days : ~holiday[d].on => holiday[d].required = {}

CardsInv == LedgerInv /\ HolidaysOk /\ (settled => \A e \in Employees : JudgedNow(e, Today))

\* What the pass leaves of an employee-day it goes over, and of the others.
LEMMA PassJudges ==
    ASSUME LedgerInv, DailyPass, NEW e \in Employees, NEW d \in Days
    PROVE  /\ <<e, d>> \in PassPairs => JudgedNow(e, d)'
           /\ <<e, d>> \notin PassPairs => tables'[e][d] = tables[e][d]
<1>1. UNCHANGED <<now, logs, holiday>> /\ ProcessAll(PassPairs, holiday)
  BY PassIs
<1>2. tables'[e][d] = IF <<e, d>> \in PassPairs THEN Processed(e, d, logs[e][d], holiday)
                      ELSE tables[e][d]
  BY <1>1 DEF ProcessAll
<1>3. Processed(e, d, logs[e][d], holiday)
        = Judge(e, d, Neighbours(e, d), logs[e][d], holiday[d], now - Moment(d, 0))
  BY ProcessedIs
<1>4. Neighbours(e, d)' = Neighbours(e, d)
  BY <1>1 DEF Neighbours, HolidayRequires, Today
<1>5. QED
  BY <1>1, <1>2, <1>3, <1>4 DEF JudgedNow

LEMMA CardsStep == CardsInv /\ [Next]_vars => CardsInv'
<1> SUFFICES ASSUME CardsInv, [Next]_vars PROVE CardsInv'
  OBVIOUS
<1>1. LedgerInv /\ LedgerInv'
  BY LedgerStep DEF CardsInv
<1>2. CASE Tick
  BY <1>1, <1>2 DEF CardsInv, Tick, HolidaysOk
<1>3. CASE \E p \in MayPunch : Ingest(p[1], p[2], p[3])
  <2>1. UNCHANGED holiday /\ settled' = FALSE
    BY <1>3 DEF Ingest
  <2>2. QED
    BY <1>1, <2>1 DEF CardsInv, HolidaysOk
<1>4. CASE DailyPass
  <2>1. UNCHANGED <<now, holiday>>
    BY <1>4, PassIs
  <2>2. Today \in Days /\ Today' = Today
    BY <1>1, <2>1, DayOfMoment DEF LedgerInv, TypeOK, Today
  <2>3. \A e \in Employees : <<e, Today>> \in PassPairs
    BY DEF PassPairs
  <2>4. \A e \in Employees : JudgedNow(e, Today)'
    BY <1>1, <1>4, <2>2, <2>3, PassJudges
  <2>5. QED
    BY <1>1, <2>1, <2>2, <2>4 DEF CardsInv, HolidaysOk
<1>5. CASE \E s \in HolidaySettings : SaveHoliday(s[1], s[2])
  <2>1. PICK s \in HolidaySettings : SaveHoliday(s[1], s[2])
    BY <1>5
  <2>2. settled' = FALSE /\ holiday' = [holiday EXCEPT ![s[1]] = s[2]]
    BY <2>1 DEF SaveHoliday
  <2>3. s \in Days \X [on: BOOLEAN, required: SUBSET Sessions] /\ (~s[2].on => s[2].required = {})
    BY CalendarAssumption
  <2>4. HolidaysOk'
    BY <1>1, <2>2, <2>3 DEF CardsInv, HolidaysOk, LedgerInv, TypeOK
  <2>5. QED
    BY <1>1, <2>2, <2>4 DEF CardsInv
<1>6. CASE UNCHANGED vars
  BY <1>1, <1>6 DEF vars, CardsInv, HolidaysOk, JudgedNow, Neighbours, HolidayRequires, Today
<1>7. QED
  BY <1>2, <1>3, <1>4, <1>5, <1>6 DEF Next

LEMMA CardsInit == Init => CardsInv
<1>1. Init => HolidaysOk /\ settled = FALSE
  BY DEF Init, HolidaysOk, NoHoliday
<1>2. QED
  BY <1>1, InitLedger DEF CardsInv

LEMMA CardsAlways == Spec => []CardsInv
BY CardsInit, CardsStep, PTL DEF Spec

\* What the rows of a judged day say of its sessions.
LEMMA JudgedSessions ==
    ASSUME NEW day, NEW t, NEW s \in Sessions, NEW tab, tab = ProcessFulltime(day, Sched, NoTime, t)
    PROVE  /\ ~SessionComplete(day, s) => tab.late[s] = 0 /\ tab.under[s] = 0
           /\ tab.absent[s] # NotAbsent
                <=> ~SessionComplete(day, s) /\ ~SessionIsOpen(SessionOut(Sched, s), t)
<1>1. ~SessionComplete(day, s) => tab.late[s] = 0 /\ tab.under[s] = 0
  BY DEF ProcessFulltime
<1>2. tab.absent[s] = AbsenceOf(day, s, SessionOut(Sched, s), t)
  BY DEF ProcessFulltime
<1>3. QED
  BY <1>1, <1>2 DEF AbsenceOf, NotAbsent

\* Adding up the dashboard's counts is counting the sessions shown.
LEMMA CardCounts ==
    ASSUME NEW L, L \subseteq Employees \X Sessions
    PROVE  SumFunction([e \in Employees |-> Cardinality({s \in Sessions : <<e, s>> \in L})])
             = Cardinality(L)
<1> DEFINE f == [e \in Employees |-> Cardinality({s \in Sessions : <<e, s>> \in L})]
<1>1. \A e \in Employees : Cardinality({s \in Sessions : <<e, s>> \in L}) \in Nat
  BY SessionsFinite, FS_Subset, FS_CardinalityType
<1>2. f \in [Employees -> Nat] /\ \A e \in Employees :
        f[e] = Cardinality({s \in Sessions : <<e, s>> \in L})
  BY <1>1
<1>3. IsFiniteSet(Employees)
  BY CalendarAssumption
<1> HIDE DEF f
<1>4. SumFunction(f) = Cardinality(L)
  BY <1>2, <1>3, SumOfCounts
<1>5. QED
  BY <1>4 DEF f

LEMMA CardsShown == CardsInv => CardsAgree
<1> DEFINE Shown(status) == {p \in Fulltime \X Sessions : SessionStatus(p[1], Today, p[2]) = status}
           LateRows == {p \in Employees \X Sessions : tables[p[1]][Today].late[p[2]] > 0}
           AbsentRows == {p \in Employees \X Sessions : tables[p[1]][Today].absent[p[2]] # NotAbsent}
<1> SUFFICES ASSUME CardsInv, settled, WorksOn(Today), ~holiday[Today].on
             PROVE  /\ Dashboard.late = Cardinality(Shown("LATE"))
                    /\ Dashboard.absent = Cardinality(Shown("ABSENT"))
  BY DEF CardsAgree
<1>1. Today \in Days /\ holiday[Today].required = {}
  BY DayOfMoment DEF CardsInv, LedgerInv, TypeOK, Today, HolidaysOk
<1>2. ASSUME NEW e \in Fulltime, NEW s \in Sessions
      PROVE  /\ tables[e][Today].late[s] > 0 <=> SessionStatus(e, Today, s) = "LATE"
             /\ tables[e][Today].absent[s] # NotAbsent <=> SessionStatus(e, Today, s) = "ABSENT"
  <2> DEFINE day == DayLogs(logs[e][Today])
             t == now - Moment(Today, 0)
  <2>1. tables[e][Today] = ProcessFulltime(day, Sched, NoTime, t)
    <3>1. JudgedNow(e, Today)
      BY DEF CardsInv, Employees
    <3>2. ~EventRequirementMet(day, {})
      BY DEF EventRequirementMet
    <3>3. QED
      BY <1>1, <3>1, <3>2 DEF JudgedNow, Judge
  <2>2. SessionStatus(e, Today, s) =
          IF ~SessionComplete(day, s)
          THEN IF SessionIsOpen(SessionOut(Sched, s), t) THEN "PENDING" ELSE "ABSENT"
          ELSE IF tables[e][Today].late[s] > 0 THEN "LATE" ELSE "PRESENT"
    BY DEF SessionStatus
  <2> HIDE DEF day, t
  <2>3. /\ ~SessionComplete(day, s) => tables[e][Today].late[s] = 0
        /\ tables[e][Today].absent[s] # NotAbsent
             <=> ~SessionComplete(day, s) /\ ~SessionIsOpen(SessionOut(Sched, s), t)
    BY <2>1, JudgedSessions
  <2>4. QED
    BY <2>2, <2>3
<1>3. ASSUME NEW e \in Parttime, NEW s \in Sessions
      PROVE  tables[e][Today].late[s] = 0 /\ tables[e][Today].absent[s] = NotAbsent
  <2>1. JudgedNow(e, Today) /\ e \notin Fulltime
    BY CalendarAssumption DEF CardsInv, Employees
  <2>2. QED
    BY <2>1 DEF JudgedNow, Judge, NoRows
<1>4. LateRows = Shown("LATE")
  BY <1>2, <1>3 DEF Employees
<1>5. AbsentRows = Shown("ABSENT")
  BY <1>2, <1>3 DEF Employees
<1>6. Dashboard.late = Cardinality(LateRows)
  <2>1. \A e \in Employees : {s \in Sessions : tables[e][Today].late[s] > 0}
                               = {s \in Sessions : <<e, s>> \in LateRows}
    OBVIOUS
  <2>2. [e \in Employees |-> Cardinality({s \in Sessions : tables[e][Today].late[s] > 0})]
          = [e \in Employees |-> Cardinality({s \in Sessions : <<e, s>> \in LateRows})]
    BY <2>1
  <2>3. Dashboard.late
          = SumFunction([e \in Employees |-> Cardinality({s \in Sessions : <<e, s>> \in LateRows})])
    BY <2>2 DEF Dashboard
  <2>4. LateRows \subseteq Employees \X Sessions
    OBVIOUS
  <2> HIDE DEF LateRows
  <2>5. QED
    BY <2>3, <2>4, CardCounts
<1>7. Dashboard.absent = Cardinality(AbsentRows)
  <2>1. \A e \in Employees : {s \in Sessions : tables[e][Today].absent[s] # NotAbsent}
                               = {s \in Sessions : <<e, s>> \in AbsentRows}
    OBVIOUS
  <2>2. [e \in Employees |-> Cardinality({s \in Sessions : tables[e][Today].absent[s] # NotAbsent})]
          = [e \in Employees |-> Cardinality({s \in Sessions : <<e, s>> \in AbsentRows})]
    BY <2>1
  <2>3. Dashboard.absent
          = SumFunction([e \in Employees |-> Cardinality({s \in Sessions : <<e, s>> \in AbsentRows})])
    BY <2>2 DEF Dashboard
  <2>4. AbsentRows \subseteq Employees \X Sessions
    OBVIOUS
  <2> HIDE DEF AbsentRows
  <2>5. QED
    BY <2>3, <2>4, CardCounts
<1>8. QED
  BY <1>4, <1>5, <1>6, <1>7

\* After the pass the dashboard's cards count the sessions the Attendance page
\* shows late and absent today: the rows are those of this very moment, and
\* nobody but a full-timer has any.
THEOREM CardsAlwaysAgree == Spec => []CardsAgree
BY CardsAlways, CardsShown, PTL

----------------------------------------------------------------------------
(* Days the pass has finalized.                                            *)

Recorded == {d \in Days : \E e \in Employees : logs[e][d] # {}}
StartOf(recorded, today) == IF recorded = {} THEN today ELSE Earliest(recorded)

\* The workdays before and after a day, as holiday_requires_attendance takes
\* them, and whether the employee missed them, by these logs and up to this day.
Before(d) == WorkdaysOf(0..(d - 1))
After(d) == WorkdaysOf((d + 1)..LastDay)
NextWorkday(d) == Earliest(After(d))
MissedBefore(lg, e, d) == Before(d) # {} /\ lg[e][Latest(Before(d))] = {}
MissedAfter(lg, e, d, today) ==
    After(d) # {} /\ NextWorkday(d) <= today /\ lg[e][NextWorkday(d)] = {}

\* If a day was judged with the neighbouring days attended, it still may be,
\* but for a next workday that the pass after day c was too early to see.
StillRight(e, d, n, hol, lg, today, c) ==
    hol.on /\ n = "ATTENDED" =>
        ~MissedBefore(lg, e, d) /\ (MissedAfter(lg, e, d, today) => NextWorkday(d) >= c + 2)

\* The day was judged once it was over.
Closed(e, d, lg, hol, tab, today, c) ==
    \E n \in Readings, at \in Int :
        /\ at >= 86400 /\ tab = Judge(e, d, n, lg[e][d], hol, at)
        /\ StillRight(e, d, n, hol, lg, today, c)

IsFinal(e, d, start, c) == WorksOn(d) /\ start <= d /\ d <= c /\ Floor[e] <= d

FinalInv ==
    /\ CardsInv
    /\ cursor # NoDay =>
         /\ cursor < Today /\ Recorded # {} /\ SystemStart <= cursor
         /\ \A e \in Employees, d \in Days : IsFinal(e, d, SystemStart, cursor) =>
              Closed(e, d, logs, holiday[d], tables[e][d], Today, cursor)
    /\ settled => cursor = Today - 1 \/ (cursor = NoDay /\ SystemStart >= Today)

\* The pass goes over a holiday in time: when the workday after it has come and
\* no pass has been made on that day yet, the holiday is still one of those that
\* the pass goes over again.
KeepsUp ==
    cursor # NoDay =>
        \A d \in Days :
            /\ d <= cursor /\ WorksOn(d) /\ holiday[d].on /\ After(d) # {}
            /\ cursor + 2 <= NextWorkday(d) /\ NextWorkday(d) <= Today
            => d >= Today - HOLIDAY_REEVAL_DAYS

LEMMA BesideDays ==
    ASSUME NEW d \in Days
    PROVE  /\ Before(d) # {} => Latest(Before(d)) \in Days
           /\ After(d) # {} => /\ NextWorkday(d) \in Days /\ NextWorkday(d) > d
                               /\ \A x \in After(d) : NextWorkday(d) <= x
<1>1. d \in Nat /\ LastDay \in Nat /\ d <= LastDay
  BY CalendarFacts
<1>2. Before(d) \subseteq 0..LastDay /\ After(d) \subseteq 0..LastDay /\ \A x \in After(d) : x > d
  BY <1>1 DEF Before, After, WorkdaysOf
<1>3. Before(d) # {} => Latest(Before(d)) \in Before(d)
  BY <1>1, <1>2, EarliestLatest
<1>4. After(d) # {} => Earliest(After(d)) \in After(d) /\ \A x \in After(d) : Earliest(After(d)) <= x
  BY <1>1, <1>2, EarliestLatest
<1>5. QED
  BY <1>2, <1>3, <1>4, CalendarFacts DEF NextWorkday

LEMMA StartFacts ==
    ASSUME NEW recorded, recorded \subseteq Days, NEW today \in Days
    PROVE  /\ StartOf(recorded, today) \in Days
           /\ recorded # {} => /\ StartOf(recorded, today) \in recorded
                               /\ \A d \in recorded : StartOf(recorded, today) <= d
<1>1. LastDay \in Nat /\ Days = 0..LastDay
  BY CalendarFacts
<1>2. recorded # {} => Earliest(recorded) \in recorded /\ \A d \in recorded : Earliest(recorded) <= d
  BY <1>1, EarliestLatest
<1>3. QED
  BY <1>2 DEF StartOf

LEMMA SystemStartIs == SystemStart = StartOf(Recorded, Today) /\ Recorded \subseteq Days
BY DEF SystemStart, StartOf, Recorded

LEMMA StartNat == TypeOK => SystemStart \in Nat /\ \A e \in Employees : Floor[e] \in Nat
<1> SUFFICES ASSUME TypeOK PROVE SystemStart \in Nat /\ \A e \in Employees : Floor[e] \in Nat
  OBVIOUS
<1>1. Today \in Days
  BY DayOfMoment DEF TypeOK, Today
<1>2. StartOf(Recorded, Today) \in Days
  BY <1>1, SystemStartIs, StartFacts
<1>3. Days \subseteq Nat
  BY CalendarFacts
<1>4. Floor \in [Employees -> Nat]
  BY CalendarAssumption
<1>5. QED
  BY <1>2, <1>3, <1>4, SystemStartIs

LEMMA RequiresIs ==
    ASSUME NEW e, NEW d
    PROVE  HolidayRequires(e, d) <=> MissedBefore(logs, e, d) \/ MissedAfter(logs, e, d, Today)
BY DEF HolidayRequires, MissedBefore, MissedAfter, Before, After, NextWorkday

\* A day judged at this moment, with the neighbouring days as they are now.
LEMMA RightNow ==
    ASSUME NEW e, NEW d, NEW hol, NEW c
    PROVE  StillRight(e, d, Neighbours(e, d), hol, logs, Today, c)
<1>1. CASE HolidayRequires(e, d)
  BY <1>1 DEF StillRight, Neighbours, Beside
<1>2. CASE ~HolidayRequires(e, d)
  BY <1>2, RequiresIs DEF StillRight
<1>3. QED
  BY <1>1, <1>2

LEMMA RightWithMoreLogs ==
    ASSUME NEW e, NEW d \in Days, NEW n, NEW hol, NEW lg, NEW more, NEW today, NEW c,
           \A x \in Days : more[e][x] = {} => lg[e][x] = {},
           StillRight(e, d, n, hol, lg, today, c)
    PROVE  StillRight(e, d, n, hol, more, today, c)
<1>1. MissedBefore(more, e, d) => MissedBefore(lg, e, d)
  BY BesideDays DEF MissedBefore
<1>2. MissedAfter(more, e, d, today) => MissedAfter(lg, e, d, today)
  BY BesideDays DEF MissedAfter
<1>3. QED
  BY <1>1, <1>2 DEF StillRight

LEMMA RightLater ==
    ASSUME NEW e, NEW d \in Days, NEW n, NEW hol, NEW lg, NEW today \in Days, NEW later \in Days,
           NEW c \in Int, c < today, StillRight(e, d, n, hol, lg, today, c)
    PROVE  StillRight(e, d, n, hol, lg, later, c)
<1>1. ASSUME MissedAfter(lg, e, d, later)
      PROVE  MissedAfter(lg, e, d, today) \/ NextWorkday(d) >= c + 2
  <2>1. NextWorkday(d) \in Days /\ After(d) # {} /\ lg[e][NextWorkday(d)] = {}
    BY <1>1, BesideDays DEF MissedAfter
  <2>2. NextWorkday(d) \in Nat /\ today \in Nat
    BY <2>1, CalendarFacts
  <2>3. CASE NextWorkday(d) <= today
    BY <2>1, <2>3 DEF MissedAfter
  <2>4. CASE NextWorkday(d) > today
    BY <2>2, <2>4
  <2>5. QED
    BY <2>2, <2>3, <2>4
<1>2. QED
  BY <1>1 DEF StillRight

\* How far a day that is over is behind the clock.
LEMMA DayOver ==
    ASSUME TypeOK, NEW d \in Days, d < Today
    PROVE  now - Moment(d, 0) \in Int /\ now - Moment(d, 0) >= 86400
<1>1. now \in Clock
  BY DEF TypeOK
<1>2. Moment(Today, 0) <= now /\ Today \in Days /\ now \in Nat
  BY <1>1, DayOfMoment, CalendarFacts DEF Today
<1>3. now \in Nat /\ Today \in Nat /\ d \in Nat /\ Today * 86400 <= now /\ Moment(d, 0) = d * 86400
  BY <1>2, CalendarFacts
<1>4. (d + 1) * 86400 <= Today * 86400
  BY <1>3
<1>5. QED
  BY <1>3, <1>4

\* The days in which something was recorded stay so, and more may come.
LEMMA RecordedGrows ==
    ASSUME LedgerInv, LedgerInv', cursor # NoDay, FinalInv,
           \A e \in Employees, d \in Days : logs'[e][d] = {} => logs[e][d] = {},
           \A d \in Recorded' : d \in Recorded \/ d >= cursor
    PROVE  SystemStart' = SystemStart /\ Recorded' # {}
<1>1. Recorded \subseteq Recorded' /\ Recorded # {} /\ SystemStart <= cursor
  BY DEF Recorded, FinalInv
<1>2. Recorded \subseteq Days /\ Recorded' \subseteq Days /\ Today \in Days /\ Today' \in Days
  BY DayOfMoment DEF LedgerInv, TypeOK, Today, Recorded
<1> DEFINE old == SystemStart
           new == StartOf(Recorded', Today')
<1>3. old \in Recorded /\ \A d \in Recorded : old <= d
  BY <1>1, <1>2, StartFacts, SystemStartIs
<1>4. new \in Recorded' /\ \A d \in Recorded' : new <= d
  <2> DEFINE R == Recorded'
             T == Today'
  <2>1. R \subseteq Days /\ R # {} /\ T \in Days
    BY <1>1, <1>2
  <2> HIDE DEF R, T
  <2>2. StartOf(R, T) \in R /\ \A d \in R : StartOf(R, T) <= d
    BY <2>1, StartFacts
  <2>3. QED
    BY <2>2 DEF R, T
<1>5. SystemStart' = new
  BY DEF SystemStart, StartOf, Recorded
<1>6. cursor \in Int
  BY CalendarFacts DEF LedgerInv, TypeOK, NoDay
<1> HIDE DEF old, new
<1>7. new <= old /\ (new \in Recorded \/ new >= cursor)
  BY <1>1, <1>3, <1>4
<1>8. old \in Nat /\ new \in Nat
  BY <1>2, <1>3, <1>4, CalendarFacts
<1>9. old <= cursor
  BY <1>1 DEF old
<1>10. new = old
  BY <1>3, <1>6, <1>7, <1>8, <1>9
<1>11. QED
  BY <1>1, <1>5, <1>10 DEF old

LEMMA FinalTypes ==
    ASSUME LedgerInv
    PROVE  /\ TypeOK /\ Today \in Days /\ Today \in Nat /\ cursor \in Int /\ SystemStart \in Nat
           /\ \A d \in Days : d \in Nat
           /\ \A e \in Employees : Floor[e] \in Nat
<1>1. TypeOK /\ Today \in Days
  BY DayOfMoment DEF LedgerInv, TypeOK, Today
<1>2. SystemStart \in Days
  BY <1>1, SystemStartIs, StartFacts
<1>3. cursor \in Int
  BY <1>1, CalendarFacts DEF TypeOK, NoDay
<1>4. \A e \in Employees : Floor[e] \in Nat
  BY CalendarAssumption
<1>5. \A d \in Days : d \in Nat
  BY CalendarFacts
<1>6. QED
  BY <1>1, <1>2, <1>3, <1>4, <1>5

LEMMA FinalTick == FinalInv /\ CardsInv' /\ Tick => FinalInv'
<1> SUFFICES ASSUME FinalInv, CardsInv', Tick PROVE FinalInv'
  OBVIOUS
<1>1. UNCHANGED <<logs, holiday, tables, cursor, edits>> /\ settled' = FALSE
  BY DEF Tick
<1>2. LedgerInv /\ LedgerInv'
  BY DEF FinalInv, CardsInv
<1>3. Today <= Today' /\ Today \in Days /\ Today' \in Days /\ cursor \in Int
  BY <1>2, NextMoment, FinalTypes
<1>4. Recorded' = Recorded
  BY <1>1 DEF Recorded
<1>5. ASSUME cursor # NoDay
      PROVE  /\ cursor < Today' /\ Recorded' # {} /\ SystemStart' <= cursor
             /\ \A e \in Employees, d \in Days : IsFinal(e, d, SystemStart', cursor) =>
                  Closed(e, d, logs, holiday[d], tables[e][d], Today', cursor)
  <2>1. SystemStart' = SystemStart /\ Recorded' # {}
    BY <1>1, <1>2, <1>4, <1>5, RecordedGrows
  <2>2. cursor < Today /\ SystemStart <= cursor
    BY <1>5 DEF FinalInv
  <2>3. cursor < Today'
    BY <1>3, <2>2, CalendarFacts
  <2>4. ASSUME NEW e \in Employees, NEW d \in Days, IsFinal(e, d, SystemStart', cursor)
        PROVE  Closed(e, d, logs, holiday[d], tables[e][d], Today', cursor)
    <3>1. Closed(e, d, logs, holiday[d], tables[e][d], Today, cursor)
      BY <1>5, <2>1, <2>4 DEF FinalInv
    <3>2. PICK n \in Readings, at \in Int :
            /\ at >= 86400 /\ tables[e][d] = Judge(e, d, n, logs[e][d], holiday[d], at)
            /\ StillRight(e, d, n, holiday[d], logs, Today, cursor)
      BY <3>1 DEF Closed
    <3> DEFINE later == Today'
    <3>3. later \in Days
      BY <1>3
    <3> HIDE DEF later
    <3>4. StillRight(e, d, n, holiday[d], logs, later, cursor)
      BY <1>3, <2>2, <3>2, <3>3, RightLater
    <3>5. QED
      BY <3>2, <3>4 DEF Closed, later
  <2>5. QED
    BY <2>1, <2>2, <2>3, <2>4
<1>6. QED
  BY <1>1, <1>5 DEF FinalInv

LEMMA FinalIngest ==
    ASSUME FinalInv, CardsInv', NEW p \in MayPunch, Ingest(p[1], p[2], p[3])
    PROVE  FinalInv'
<1> DEFINE e == p[1]
           d == p[2]
           t == p[3]
<1>1. <<e, d, t>> \in MayPunch /\ Ingest(e, d, t)
  BY CalendarAssumption
<1> HIDE DEF e, d, t
<1>2. LedgerInv /\ LedgerInv'
  BY DEF FinalInv, CardsInv
<1>3. /\ e \in Employees /\ d \in Days /\ Today <= d + 1
      /\ tables'[e][d] = Judge(e, d, Neighbours(e, d), logs'[e][d], holiday[d], now - Moment(d, 0))
      /\ \A f \in Employees, x \in Days :
           <<f, x>> # <<e, d>> => logs'[f][x] = logs[f][x] /\ tables'[f][x] = tables[f][x]
      /\ UNCHANGED <<now, holiday, cursor, edits>> /\ settled' = FALSE /\ logs'[e][d] # {}
  <2>1. IngestEffect(e, d, t)
    BY <1>1, <1>2, IngestStep
  <2>2. QED
    BY <2>1 DEF IngestEffect
<1>4. Today' = Today
  BY <1>3 DEF Today
<1>5. \A f \in Employees, x \in Days : logs'[f][x] = {} => logs[f][x] = {}
  BY <1>3
<1>6. ASSUME cursor # NoDay
      PROVE  /\ cursor < Today /\ Recorded' # {} /\ SystemStart' <= cursor
             /\ \A f \in Employees, x \in Days : IsFinal(f, x, SystemStart', cursor) =>
                  Closed(f, x, logs', holiday[x], tables'[f][x], Today, cursor)
  <2>1. cursor < Today /\ SystemStart <= cursor
    BY <1>6 DEF FinalInv
  <2>2. d >= cursor
    BY <1>2, <1>3, <2>1, FinalTypes
  <2>3. \A x \in Recorded' : x \in Recorded \/ x >= cursor
    BY <1>3, <2>2 DEF Recorded
  <2>4. SystemStart' = SystemStart /\ Recorded' # {}
    BY <1>2, <1>5, <1>6, <2>3, RecordedGrows
  <2>5. ASSUME NEW f \in Employees, NEW x \in Days, IsFinal(f, x, SystemStart', cursor)
        PROVE  Closed(f, x, logs', holiday[x], tables'[f][x], Today, cursor)
    <3> DEFINE more == logs'
    <3>0. \A y \in Days : more[f][y] = {} => logs[f][y] = {}
      BY <1>5
    <3>1. x <= cursor
      BY <2>5 DEF IsFinal
    <3>2. CASE <<f, x>> = <<e, d>>
      <4>1. d < Today
        BY <1>2, <2>1, <3>1, <3>2, FinalTypes
      <4>2. now - Moment(d, 0) \in Int /\ now - Moment(d, 0) >= 86400
        BY <1>2, <1>3, <4>1, DayOver, FinalTypes
      <4> HIDE DEF more
      <4>3. StillRight(e, d, Neighbours(e, d), holiday[d], more, Today, cursor)
        BY <1>3, <3>0, <3>2, RightNow, RightWithMoreLogs
      <4>4. Neighbours(e, d) \in Readings
        BY DEF Neighbours, Beside, Readings
      <4>5. QED
        BY <1>3, <3>2, <4>2, <4>3, <4>4 DEF Closed, more
    <3>3. CASE <<f, x>> # <<e, d>>
      <4>1. Closed(f, x, logs, holiday[x], tables[f][x], Today, cursor)
        BY <1>6, <2>4, <2>5 DEF FinalInv
      <4>2. PICK n \in Readings, at \in Int :
              /\ at >= 86400 /\ tables[f][x] = Judge(f, x, n, logs[f][x], holiday[x], at)
              /\ StillRight(f, x, n, holiday[x], logs, Today, cursor)
        BY <4>1 DEF Closed
      <4>3. more[f][x] = logs[f][x] /\ tables'[f][x] = tables[f][x]
        BY <1>3, <3>3
      <4> HIDE DEF more
      <4>4. StillRight(f, x, n, holiday[x], more, Today, cursor)
        BY <3>0, <4>2, RightWithMoreLogs
      <4>5. QED
        BY <4>2, <4>3, <4>4 DEF Closed, more
    <3>4. QED
      BY <3>2, <3>3
  <2>6. QED
    BY <2>1, <2>4, <2>5
<1>7. QED
  BY <1>3, <1>4, <1>6 DEF FinalInv

LEMMA FinalHoliday ==
    ASSUME FinalInv, CardsInv', NEW s \in HolidaySettings, SaveHoliday(s[1], s[2])
    PROVE  FinalInv'
<1> DEFINE d == s[1]
           hol == s[2]
           pairs == IF d <= Today THEN Employees \X {d} ELSE {}
<1>1. d \in Days
  BY CalendarAssumption
<1>2. /\ holiday' = [holiday EXCEPT ![d] = hol] /\ ProcessAll(pairs, holiday')
      /\ settled' = FALSE /\ UNCHANGED <<now, logs, cursor>>
  BY DEF SaveHoliday
<1>3. LedgerInv /\ LedgerInv'
  BY DEF FinalInv, CardsInv
<1>4. \A e \in Employees, x \in Days :
        tables'[e][x] = IF <<e, x>> \in pairs THEN Processed(e, x, logs[e][x], holiday')
                        ELSE tables[e][x]
  BY <1>2 DEF ProcessAll
<1>5. ASSUME NEW e \in Employees, NEW x \in Days, x < Today
      PROVE  IF x = d THEN tables'[e][x] = Judge(e, x, Neighbours(e, x), logs[e][x], holiday'[x],
                                                now - Moment(x, 0))
             ELSE tables'[e][x] = tables[e][x] /\ holiday'[x] = holiday[x]
  <2>1. x = d => <<e, x>> \in pairs
    BY <1>3, <1>5, FinalTypes
  <2>2. x # d => <<e, x>> \notin pairs
    OBVIOUS
  <2>3. x # d => holiday'[x] = holiday[x]
    BY <1>2, <1>3 DEF LedgerInv, TypeOK
  <2> DEFINE hols == holiday'
  <2>4. tables'[e][x] = IF <<e, x>> \in pairs THEN Processed(e, x, logs[e][x], hols) ELSE tables[e][x]
    BY <1>4
  <2> HIDE DEF pairs, hols, d
  <2>5. Processed(e, x, logs[e][x], hols)
          = Judge(e, x, Neighbours(e, x), logs[e][x], hols[x], now - Moment(x, 0))
    BY ProcessedIs
  <2>6. QED
    BY <2>1, <2>2, <2>3, <2>4, <2>5 DEF hols
<1>6. Today' = Today /\ Recorded' = Recorded
  BY <1>2 DEF Today, Recorded
<1> HIDE DEF pairs, d, hol
<1>7. ASSUME cursor # NoDay
      PROVE  /\ cursor < Today /\ Recorded # {} /\ SystemStart' <= cursor
             /\ \A e \in Employees, x \in Days : IsFinal(e, x, SystemStart', cursor) =>
                  Closed(e, x, logs, holiday'[x], tables'[e][x], Today, cursor)
  <2>1. cursor < Today /\ SystemStart <= cursor /\ Recorded # {}
    BY <1>7 DEF FinalInv
  <2>2. SystemStart' = SystemStart
    BY <1>2, <1>3, <1>6, <1>7, RecordedGrows
  <2>3. ASSUME NEW e \in Employees, NEW x \in Days, IsFinal(e, x, SystemStart', cursor)
        PROVE  Closed(e, x, logs, holiday'[x], tables'[e][x], Today, cursor)
    <3>1. x < Today
      BY <1>3, <2>1, <2>3, FinalTypes DEF IsFinal
    <3>2. CASE x = d
      <4>1. now - Moment(x, 0) \in Int /\ now - Moment(x, 0) >= 86400
        BY <1>3, <3>1, DayOver, FinalTypes
      <4> DEFINE new == holiday'[x]
      <4>2. tables'[e][x] = Judge(e, x, Neighbours(e, x), logs[e][x], new, now - Moment(x, 0))
        BY <1>5, <3>1, <3>2
      <4> HIDE DEF new
      <4>3. StillRight(e, x, Neighbours(e, x), new, logs, Today, cursor)
        BY RightNow
      <4>4. Neighbours(e, x) \in Readings
        BY DEF Neighbours, Beside, Readings
      <4>5. QED
        BY <4>1, <4>2, <4>3, <4>4 DEF Closed, new
    <3>3. CASE x # d
      <4>1. Closed(e, x, logs, holiday[x], tables[e][x], Today, cursor)
        BY <1>7, <2>2, <2>3 DEF FinalInv
      <4>2. tables'[e][x] = tables[e][x] /\ holiday'[x] = holiday[x]
        BY <1>5, <3>1, <3>3
      <4>3. QED
        BY <4>1, <4>2
    <3>4. QED
      BY <3>2, <3>3
  <2>4. QED
    BY <2>1, <2>2, <2>3
<1>8. QED
  BY <1>2, <1>6, <1>7 DEF FinalInv

\* The pass finalizes the days since the last one, and goes over the recent
\* holidays again: of those it leaves alone, the next workday has been seen.
LEMMA FinalPass == FinalInv /\ CardsInv' /\ KeepsUp /\ DailyPass => FinalInv'
<1> SUFFICES ASSUME FinalInv, CardsInv', KeepsUp, DailyPass PROVE FinalInv'
  OBVIOUS
<1>1. LedgerInv /\ LedgerInv'
  BY DEF FinalInv, CardsInv
<1>2. /\ cursor' = IF PassFirst < Today THEN Today - 1 ELSE cursor
      /\ settled' = TRUE /\ UNCHANGED <<now, logs, holiday, edits>>
  BY PassIs
<1>3. Today' = Today /\ Recorded' = Recorded /\ SystemStart' = SystemStart
  BY <1>2 DEF Today, Recorded, SystemStart
<1>4. Today \in Nat /\ cursor \in Int /\ SystemStart \in Nat
  BY <1>1, FinalTypes
<1>5. CASE cursor = NoDay /\ ~(SystemStart < Today)
  <2>1. cursor' = NoDay /\ SystemStart >= Today
    BY <1>2, <1>4, <1>5 DEF PassFirst
  <2>2. QED
    BY <1>3, <2>1 DEF FinalInv
<1>6. CASE cursor # NoDay \/ SystemStart < Today
  <2>1. cursor' = Today - 1
    <3>1. cursor # NoDay => cursor < Today
      BY DEF FinalInv
    <3>2. QED
      BY <1>2, <1>4, <1>6, <3>1 DEF PassFirst
  <2>2. Recorded # {} /\ SystemStart <= Today - 1
    <3>1. cursor # NoDay => cursor < Today /\ Recorded # {} /\ SystemStart <= cursor
      BY DEF FinalInv
    <3>2. Recorded = {} => SystemStart = Today
      BY SystemStartIs DEF StartOf
    <3>3. QED
      BY <1>4, <1>6, <3>1, <3>2
  <2> DEFINE c == Today - 1
  <2>3. ASSUME NEW e \in Employees, NEW d \in Days, IsFinal(e, d, SystemStart, c)
        PROVE  Closed(e, d, logs, holiday[d], tables'[e][d], Today, c)
    <3>1. d < Today /\ WorksOn(d) /\ SystemStart <= d /\ Floor[e] <= d /\ d \in Nat
      BY <1>1, <1>4, <2>3, FinalTypes DEF IsFinal
    <3>2. CASE <<e, d>> \in PassPairs
      <4>1. JudgedNow(e, d)'
        BY <1>1, <3>2, PassJudges
      <4>2. Neighbours(e, d)' = Neighbours(e, d)
        BY <1>2 DEF Neighbours, HolidayRequires, Today
      <4>3. tables'[e][d] = Judge(e, d, Neighbours(e, d), logs[e][d], holiday[d], now - Moment(d, 0))
        BY <1>2, <4>1, <4>2 DEF JudgedNow
      <4>4. now - Moment(d, 0) \in Int /\ now - Moment(d, 0) >= 86400
        BY <1>1, <3>1, DayOver, FinalTypes
      <4>5. StillRight(e, d, Neighbours(e, d), holiday[d], logs, Today, c)
        BY RightNow
      <4>6. Neighbours(e, d) \in Readings
        BY DEF Neighbours, Beside, Readings
      <4> HIDE DEF c
      <4>7. QED
        BY <4>3, <4>4, <4>5, <4>6 DEF Closed
    <3>3. CASE <<e, d>> \notin PassPairs
      <4>1. ~(d \in PassFirst..(Today - 1))
        <5>1. d \in PassFirst..(Today - 1) /\ d >= Floor[e] => <<e, d>> \in PassPairs
          BY DEF PassPairs
        <5>2. d >= Floor[e]
          BY <1>1, <3>1, FinalTypes
        <5>3. QED
          BY <3>3, <5>1, <5>2
      <4>2. cursor # NoDay /\ d <= cursor
        BY <1>4, <3>1, <4>1 DEF PassFirst
      <4>3. ~(holiday[d].on /\ d >= Today - HOLIDAY_REEVAL_DAYS)
        BY <3>1, <3>3 DEF PassPairs
      <4>4. Closed(e, d, logs, holiday[d], tables[e][d], Today, cursor) /\ cursor < Today
        BY <3>1, <4>2 DEF FinalInv, IsFinal
      <4>5. PICK n \in Readings, at \in Int :
              /\ at >= 86400 /\ tables[e][d] = Judge(e, d, n, logs[e][d], holiday[d], at)
              /\ StillRight(e, d, n, holiday[d], logs, Today, cursor)
        BY <4>4 DEF Closed
      <4>6. tables'[e][d] = tables[e][d]
        BY <1>1, <3>3, PassJudges
      <4>7. ASSUME holiday[d].on, MissedAfter(logs, e, d, Today), NextWorkday(d) >= cursor + 2
            PROVE  FALSE
        <5>1. NextWorkday(d) \in Days /\ NextWorkday(d) <= Today /\ After(d) # {}
          BY <4>7, BesideDays DEF MissedAfter
        <5>2. cursor + 2 <= NextWorkday(d)
          BY <1>1, <1>4, <4>7, <5>1, FinalTypes
        <5>3. d >= Today - HOLIDAY_REEVAL_DAYS
          BY <3>1, <4>2, <4>7, <5>1, <5>2 DEF KeepsUp
        <5>4. QED
          BY <4>3, <4>7, <5>3
      <4>8. StillRight(e, d, n, holiday[d], logs, Today, c)
        BY <4>5, <4>7 DEF StillRight
      <4> HIDE DEF c
      <4>9. QED
        BY <4>5, <4>6, <4>8 DEF Closed
    <3>4. QED
      BY <3>2, <3>3
  <2>4. c < Today
    BY <1>4
  <2>5. QED
    BY <1>2, <1>3, <2>1, <2>2, <2>3, <2>4 DEF FinalInv
<1>7. QED
  BY <1>5, <1>6

LEMMA FinalStep == FinalInv /\ KeepsUp /\ [Next]_vars => FinalInv'
<1> SUFFICES ASSUME FinalInv, KeepsUp, [Next]_vars PROVE FinalInv'
  OBVIOUS
<1>1. CardsInv'
  BY CardsStep DEF FinalInv
<1>2. CASE Tick
  BY <1>1, <1>2, FinalTick
<1>3. CASE \E p \in MayPunch : Ingest(p[1], p[2], p[3])
  BY <1>1, <1>3, FinalIngest
<1>4. CASE DailyPass
  BY <1>1, <1>4, FinalPass
<1>5. CASE \E s \in HolidaySettings : SaveHoliday(s[1], s[2])
  BY <1>1, <1>5, FinalHoliday
<1>6. CASE UNCHANGED vars
  <2>1. UNCHANGED <<now, logs, holiday, tables, cursor, settled, edits>>
    BY <1>6 DEF vars
  <2>2. Today' = Today /\ Recorded' = Recorded /\ SystemStart' = SystemStart
    BY <2>1 DEF Today, Recorded, SystemStart
  <2>3. QED
    BY <1>1, <2>1, <2>2 DEF FinalInv
<1>7. QED
  BY <1>2, <1>3, <1>4, <1>5, <1>6 DEF Next

LEMMA FinalAlways == Spec /\ []KeepsUp => []FinalInv
<1>1. Init => FinalInv
  <2>1. Init => CardsInv
    BY CardsInit
  <2>2. Init => cursor = NoDay /\ settled = FALSE
    BY DEF Init
  <2>3. QED
    BY <2>1, <2>2 DEF FinalInv
<1>2. QED
  BY <1>1, FinalStep, PTL DEF Spec

----------------------------------------------------------------------------
(* The two readings of a day, and of a range of days.                      *)

\* What the page reads of a day's punches is what its rows hold.
DayAgrees(e, d) ==
    /\ FulltimeRecord(e, d).late = Both(tables[e][d].late)
    /\ FulltimeRecord(e, d).undertime = Both(tables[e][d].under)
    /\ FulltimeRecord(e, d).absent = AbsentMinutes(tables[e][d])

LEMMA SessionMinutesNat == \A s \in Sessions : SessionMinutes(s) \in Nat
<1> SUFFICES ASSUME NEW s \in Sessions PROVE SessionMinutes(s) \in Nat
  OBVIOUS
<1>1. SessionIn(Sched, s) \in Nat /\ SessionOut(Sched, s) \in Nat
  BY CalendarAssumption DEF Schedules, SessionIn, SessionOut
<1>2. MinuteOf(SessionIn(Sched, s)) \in Int /\ MinuteOf(SessionOut(Sched, s)) \in Int
  BY <1>1 DEF MinuteOf
<1>3. QED
  BY <1>2 DEF SessionMinutes, AtLeastZero

\* Rows that hold nothing add nothing.
LEMMA NothingHeld ==
    ASSUME NEW tab, \A s \in Sessions : /\ tab.late[s] = 0 /\ tab.under[s] = 0
                                        /\ tab.absent[s] = NotAbsent
    PROVE  Both(tab.late) = 0 /\ Both(tab.under) = 0 /\ AbsentMinutes(tab) = 0
<1>1. "AM" \in Sessions /\ "PM" \in Sessions
  BY DEF Sessions
<1>2. Both(tab.late) = 0 /\ Both(tab.under) = 0
  BY <1>1 DEF Both
<1>3. Both([s \in Sessions |-> IF tab.absent[s] = NotAbsent THEN 0 ELSE SessionMinutes(s)]) = 0
  BY <1>1 DEF Both
<1>4. QED
  BY <1>2, <1>3 DEF AbsentMinutes

\* A day without punches derives absences at most.
LEMMA UnpunchedRows ==
    ASSUME NEW e, NEW d, NEW n, NEW hol, NEW at, NEW s \in Sessions
    PROVE  /\ Judge(e, d, n, {}, hol, at).late[s] = 0
           /\ Judge(e, d, n, {}, hol, at).under[s] = 0
<1>1. ~SessionComplete(DayLogs({}), s)
  BY EmptyDayLogs, SessionTypes DEF SessionComplete, HasIn, HasOut
<1> DEFINE tab == ProcessFulltime(DayLogs({}), Sched, NoTime, at)
<1>2. tab.late[s] = 0 /\ tab.under[s] = 0
  BY <1>1, JudgedSessions
<1>3. NoRows.late[s] = 0 /\ NoRows.under[s] = 0
  BY DEF NoRows
<1> HIDE DEF tab
<1>4. Judge(e, d, n, {}, hol, at) = NoRows \/ Judge(e, d, n, {}, hol, at) = tab
  BY DEF Judge, tab
<1>5. QED
  BY <1>2, <1>3, <1>4

LEMMA UnlistedRows ==
    ASSUME LedgerInv, NEW e \in Fulltime, NEW d \in Days, ~Included(e, d)
    PROVE  /\ Both(tables[e][d].late) = 0 /\ Both(tables[e][d].under) = 0
           /\ AbsentMinutes(tables[e][d]) = 0
<1>1. logs[e][d] = {} /\ tables[e][d].absent = NoRows.absent /\ tables[e][d].late = NoRows.late
  BY DEF Included
<1>2. Follows(e, d, {}, holiday[d], tables[e][d])
  BY <1>1 DEF LedgerInv, DayOk, Employees
<1>3. \A s \in Sessions : tables[e][d].late[s] = 0 /\ tables[e][d].under[s] = 0
  BY <1>2, UnpunchedRows DEF Follows
<1>4. \A s \in Sessions : tables[e][d].absent[s] = NotAbsent
  BY <1>1 DEF NoRows
<1>5. QED
  BY <1>3, <1>4, NothingHeld

\* A workday judged at this moment, or once over and still right, reads the same
\* from its punches and from its rows.
LEMMA JudgedDayAgrees ==
    ASSUME TypeOK, NEW e \in Fulltime, NEW d \in Days, WorksOn(d), NEW n \in Readings, NEW at \in Int,
           tables[e][d] = Judge(e, d, n, logs[e][d], holiday[d], at),
           at = now - Moment(d, 0) \/ (at >= 86400 /\ d < Today),
           ~(holiday[d].on /\ n = "ATTENDED" /\ HolidayRequires(e, d))
    PROVE  DayAgrees(e, d)
<1> DEFINE day == DayLogs(logs[e][d])
           met == EventRequirementMet(day, holiday[d].required)
           tab == tables[e][d]
<1>1. \A s \in Sessions : /\ NoRows.late[s] = 0 /\ NoRows.under[s] = 0
                          /\ NoRows.absent[s] = NotAbsent
  BY DEF NoRows
<1>2. CASE met
  <2>1. tab = NoRows
    BY <1>2 DEF Judge
  <2>2. FulltimeRecord(e, d) = Credited(d)
    BY <1>2 DEF FulltimeRecord
  <2>3. Both(tab.late) = 0 /\ Both(tab.under) = 0 /\ AbsentMinutes(tab) = 0
    BY <1>1, <2>1, NothingHeld
  <2>4. QED
    BY <2>2, <2>3 DEF DayAgrees, Credited
<1>3. CASE ~met /\ HolidayOff(e, d)
  <2>1. logs[e][d] = {} /\ tab.absent = NoRows.absent
    BY <1>3 DEF HolidayOff
  <2>2. tab = Judge(e, d, n, {}, holiday[d], at)
    BY <2>1
  <2>3. FulltimeRecord(e, d) = Credited(d)
    BY <1>3 DEF FulltimeRecord
  <2> HIDE DEF tab
  <2>4. \A s \in Sessions : tab.late[s] = 0 /\ tab.under[s] = 0 /\ tab.absent[s] = NotAbsent
    BY <1>1, <2>1, <2>2, UnpunchedRows
  <2>5. Both(tab.late) = 0 /\ Both(tab.under) = 0 /\ AbsentMinutes(tab) = 0
    BY <2>4, NothingHeld
  <2>6. QED
    BY <2>3, <2>5 DEF DayAgrees, Credited, tab
<1>4. CASE ~met /\ ~HolidayOff(e, d)
  <2> DEFINE status == [s \in Sessions |-> SessionStatus(e, d, s)]
  <2>1. ~(holiday[d].on /\ holiday[d].required = {} /\ logs[e][d] = {} /\ n = "ATTENDED")
    <3> SUFFICES ASSUME holiday[d].on, holiday[d].required = {}, logs[e][d] = {}, n = "ATTENDED"
                 PROVE  FALSE
      OBVIOUS
    <3>1. tables[e][d] = NoRows
      BY DEF Judge
    <3>2. QED
      BY <1>4, <3>1 DEF HolidayOff
  <2>2. tab = ProcessFulltime(day, Sched, NoTime, at)
    BY <1>4, <2>1 DEF Judge
  <2>3. ASSUME NEW s \in Sessions
        PROVE  tab.absent[s] # NotAbsent <=> status[s] = "ABSENT"
    <3> DEFINE out == SessionOut(Sched, s)
    <3>1. tab.absent[s] # NotAbsent <=> ~SessionComplete(day, s) /\ ~SessionIsOpen(out, at)
      BY <2>2, JudgedSessions
    <3>2. status[s] = "ABSENT"
            <=> ~SessionComplete(day, s) /\ ~SessionIsOpen(out, now - Moment(d, 0))
      BY DEF SessionStatus
    <3>3. SessionIsOpen(out, at) <=> SessionIsOpen(out, now - Moment(d, 0))
      <4>1. CASE at = now - Moment(d, 0)
        BY <4>1
      <4>2. CASE at >= 86400 /\ d < Today
        <5>1. ~SessionIsOpen(out, now - Moment(d, 0))
          BY <4>2, PastSessionDecided
        <5>2. out \in Nat /\ out < 86400
          BY OutBeforeMidnight
        <5>3. ~SessionIsOpen(out, at)
          BY <4>2, <5>2 DEF SessionIsOpen
        <5>4. QED
          BY <5>1, <5>3
      <4>3. QED
        BY <4>1, <4>2
    <3>4. QED
      BY <3>1, <3>2, <3>3
  <2>4. [s \in Sessions |-> IF status[s] = "ABSENT" THEN SessionMinutes(s) ELSE 0]
          = [s \in Sessions |-> IF tab.absent[s] = NotAbsent THEN 0 ELSE SessionMinutes(s)]
    BY <2>3
  <2>5. FulltimeRecord(e, d) = JudgedRecord(e, d, status)
    BY <1>4 DEF FulltimeRecord
  <2>6. FulltimeRecord(e, d).absent
          = Both([s \in Sessions |-> IF status[s] = "ABSENT" THEN SessionMinutes(s) ELSE 0])
    BY <2>5 DEF JudgedRecord, DayRecord
  <2>7. FulltimeRecord(e, d).absent = AbsentMinutes(tab)
    BY <2>4, <2>6 DEF AbsentMinutes
  <2>8. FulltimeRecord(e, d).late = Both(tab.late) /\ FulltimeRecord(e, d).undertime = Both(tab.under)
    BY <2>5 DEF JudgedRecord, DayRecord
  <2>9. QED
    BY <2>7, <2>8 DEF DayAgrees
<1>5. QED
  BY <1>2, <1>3, <1>4

\* After the pass, a tracked workday up to today reads the same both ways:
\* today's rows are of this moment, and those of a finalized day are of a pass
\* after it and still right.
LEMMA SettledDayAgrees ==
    ASSUME FinalInv, settled, NEW e \in Fulltime, NEW d \in Days, WorksOn(d),
           TrackingStart(e) <= d, d <= Today
    PROVE  DayAgrees(e, d)
<1>1. LedgerInv /\ TypeOK /\ CardsInv /\ Today \in Days /\ e \in Employees
  BY DayOfMoment DEF FinalInv, CardsInv, LedgerInv, TypeOK, Today, Employees
<1>2. now \in Int /\ Moment(d, 0) \in Int /\ d \in Nat /\ Today \in Nat
  BY <1>1, CalendarFacts DEF TypeOK
<1>3. CASE d = Today
  <2> DEFINE n == Neighbours(e, d)
             at == now - Moment(d, 0)
  <2>1. tables[e][d] = Judge(e, d, n, logs[e][d], holiday[d], at)
    BY <1>1, <1>3 DEF CardsInv, JudgedNow
  <2>2. n \in Readings /\ ~(n = "ATTENDED" /\ HolidayRequires(e, d))
    BY DEF Neighbours, Beside, Readings
  <2>3. at \in Int /\ at = now - Moment(d, 0)
    BY <1>2
  <2> HIDE DEF n, at
  <2>4. QED
    BY <1>1, <2>1, <2>2, <2>3, JudgedDayAgrees
<1>4. CASE d < Today
  <2>1. SystemStart \in Nat /\ SystemStart <= d /\ Floor[e] <= d
    <3>1. SystemStart \in Nat /\ Floor[e] \in Nat
      BY <1>1, StartNat
    <3>2. QED
      BY <1>2, <3>1 DEF TrackingStart
  <2>2. cursor = Today - 1 /\ cursor # NoDay
    BY <1>2, <1>4, <2>1 DEF FinalInv, NoDay
  <2>3. IsFinal(e, d, SystemStart, cursor)
    BY <1>2, <1>4, <2>1, <2>2 DEF IsFinal
  <2>4. Closed(e, d, logs, holiday[d], tables[e][d], Today, cursor)
    BY <1>1, <2>2, <2>3 DEF FinalInv
  <2>5. PICK n \in Readings, at \in Int :
          /\ at >= 86400 /\ tables[e][d] = Judge(e, d, n, logs[e][d], holiday[d], at)
          /\ StillRight(e, d, n, holiday[d], logs, Today, cursor)
    BY <2>4 DEF Closed
  <2>6. ~(holiday[d].on /\ n = "ATTENDED" /\ HolidayRequires(e, d))
    <3> SUFFICES ASSUME holiday[d].on, n = "ATTENDED", HolidayRequires(e, d) PROVE FALSE
      OBVIOUS
    <3>1. MissedAfter(logs, e, d, Today) /\ NextWorkday(d) >= cursor + 2
      BY <2>5, RequiresIs DEF StillRight
    <3>2. NextWorkday(d) <= Today /\ NextWorkday(d) \in Nat
      BY <3>1, BesideDays, CalendarFacts DEF MissedAfter
    <3>3. QED
      BY <1>2, <2>2, <3>1, <3>2
  <2>7. QED
    BY <1>1, <1>4, <2>5, <2>6, JudgedDayAgrees
<1>5. QED
  BY <1>2, <1>3, <1>4

LEMMA RowDaysFinite ==
    ASSUME NEW e, NEW p, NEW q
    PROVE  /\ IsFiniteSet(RowDays({e}, p, q))
           /\ \A x : x \in RowDays({e}, p, q) <=> \E d \in Days : d \in p..q /\ x = <<e, d>>
<1>1. IsFiniteSet({e})
  BY FS_Singleton
<1>2. IsFiniteSet(Days \cap (p..q))
  <2>1. IsFiniteSet(Days)
    BY CalendarFacts
  <2>2. QED
    BY <2>1, FS_Intersection
<1>3. IsFiniteSet({e} \X (Days \cap (p..q)))
  BY <1>1, <1>2, FS_Product
<1>4. QED
  BY <1>3 DEF RowDays

\* A total of records is any sum of the same terms.
SameTerms(F, D, field, h, P, m) ==
    /\ IsFiniteSet(D) /\ ByDay(F, D) /\ IsFiniteSet(P) /\ h \in [P -> Nat] /\ OneToOne(m, D, P)
    /\ \A d \in D : F[d][field] = h[m[d]]
    /\ \A x \in P : h[x] = 0 \/ \E d \in D : m[d] = x

LEMMA TotalAlong ==
    ASSUME NEW D, NEW F, NEW field, NEW P, NEW h, NEW m, SameTerms(F, D, field, h, P, m)
    PROVE  Total(RecordsOf(F, D), field) = SumFunction(h)
<1> USE DEF SameTerms
<1> DEFINE g == [d \in D |-> h[m[d]]]
<1>1. g \in [D -> Nat] /\ \A d \in D : g[d] = h[m[d]]
  BY DEF OneToOne
<1>2. \A d \in D : F[d][field] = g[d]
  BY <1>1
<1>3. \A d \in D : g[d] <= h[m[d]]
  <2> SUFFICES ASSUME NEW d \in D PROVE g[d] <= h[m[d]]
    OBVIOUS
  <2>1. g[d] \in Nat /\ g[d] = h[m[d]]
    BY <1>1
  <2>2. QED
    BY <2>1
<1> HIDE DEF g
<1>4. Total(RecordsOf(F, D), field) = SumFunction(g)
  BY <1>1, <1>2, TotalByDay
<1>5. SumFunction(g) = SumFunction(h)
  BY <1>1, <1>3, SumCompares
<1>6. QED
  BY <1>4, <1>5

\* A total of the records of a range is a sum over its rows: the days without a
\* record have no rows that count.
RowTerms(e, p, q, field, h) ==
    /\ h \in [RowDays({e}, p, q) -> Nat]
    /\ \A d \in IncludedDays(e, p, q) : FulltimeRecord(e, d)[field] = h[<<e, d>>]
    /\ \A d \in Days : d \in p..q /\ ~Included(e, d) => h[<<e, d>>] = 0

LEMMA TotalIsRowSum ==
    ASSUME NEW e \in Fulltime, NEW p \in Int, NEW q \in Int, NEW field, NEW h,
           RowTerms(e, p, q, field, h)
    PROVE  Total(BuildDailyAttendance(e, p, q), field) = SumFunction(h)
<1> DEFINE D == IncludedDays(e, p, q)
           P == RowDays({e}, p, q)
           F == FulltimeRecords(e, p, q)
           m == [d \in D |-> <<e, d>>]
<1>1. IsFiniteSet(D) /\ ByDay(F, D) /\ BuildDailyAttendance(e, p, q) = RecordsOf(F, D)
  BY FulltimeBuild
<1>2. \A d : d \in D <=> d \in Days /\ d \in p..q /\ Included(e, d)
  BY CalendarFacts DEF IncludedDays
<1>3. \A d \in D : <<e, d>> \in P
  BY <1>2, RowDaysFinite
<1>4. OneToOne(m, D, P) /\ \A d \in D : m[d] = <<e, d>>
  BY <1>3 DEF OneToOne
<1>5. \A d \in D : F[d][field] = h[m[d]]
  BY <1>4 DEF FulltimeRecords, RowTerms
<1>6. ASSUME NEW x \in P PROVE h[x] = 0 \/ \E d \in D : m[d] = x
  <2>1. PICK d \in Days : d \in p..q /\ x = <<e, d>>
    BY DEF RowDays
  <2>2. CASE Included(e, d)
    BY <1>2, <1>4, <2>1, <2>2
  <2>3. CASE ~Included(e, d)
    BY <2>1, <2>3 DEF RowTerms
  <2>4. QED
    BY <2>2, <2>3
<1>7. IsFiniteSet(P) /\ h \in [P -> Nat]
  BY RowDaysFinite DEF RowTerms
<1> HIDE DEF D, P, F, m
<1>8. Total(RecordsOf(F, D), field) = SumFunction(h)
  <2>1. \A x \in P : h[x] = 0 \/ \E d \in D : m[d] = x
    BY <1>6
  <2>2. SameTerms(F, D, field, h, P, m)
    BY <1>1, <1>4, <1>5, <1>7, <2>1 DEF SameTerms
  <2>3. QED
    BY <2>2, TotalAlong
<1>9. QED
  BY <1>1, <1>8

\* A report's lines add up to its days' rows: a session without a line adds
\* nothing.
LinesOf(P, f, h, L, k) ==
    /\ IsFiniteSet(P) /\ f \in [P -> Nat] /\ h \in [P \X Sessions -> Nat]
    /\ \A x \in P : f[x] = h[<<x, "AM">>] + h[<<x, "PM">>]
    /\ L \subseteq P \X Sessions /\ \A x \in P \X Sessions : x \notin L => h[x] = 0
    /\ k \in [L -> Nat] /\ \A x \in L : k[x] = h[x]

LEMMA LinesAddUp ==
    ASSUME NEW P, NEW f, NEW h, NEW L, NEW k, LinesOf(P, f, h, L, k)
    PROVE  SumFunction(k) = SumFunction(f)
<1> USE DEF LinesOf
<1> DEFINE T == P \X Sessions
           m == [x \in L |-> x]
<1>1. IsFiniteSet(T)
  BY SessionsFinite, FS_Product
<1>2. IsFiniteSet(L)
  BY <1>1, FS_Subset
<1>3. OneToOne(m, L, T) /\ \A x \in L : m[x] = x
  BY DEF OneToOne
<1>4. SumFunction(f) = SumFunction(h)
  BY SumOfSessions
<1>5. \A x \in L : k[x] \in Nat /\ k[x] = h[m[x]]
  BY <1>3
<1>6. \A x \in L : k[x] <= h[m[x]] /\ k[x] = h[m[x]]
  BY <1>5
<1>7. \A t \in T : h[t] = 0 \/ \E x \in L : m[x] = t
  BY <1>3
<1>8. h \in [T -> Nat]
  OBVIOUS
<1> HIDE DEF T, m
<1>9. SumFunction(k) = SumFunction(h)
  BY <1>1, <1>2, <1>3, <1>6, <1>7, <1>8, SumCompares
<1>10. QED
  BY <1>4, <1>9

\* The lost minutes of a day's rows are numbers.
LEMMA RowMinutesNat ==
    ASSUME TypeOK, NEW e \in Employees, NEW d \in Days
    PROVE  /\ \A s \in Sessions : tables[e][d].late[s] \in Nat
           /\ Both(tables[e][d].late) \in Nat /\ Both(tables[e][d].under) \in Nat
           /\ AbsentMinutes(tables[e][d]) \in Nat
<1>1. tables[e][d] \in Tables
  BY DEF TypeOK
<1>2. \A s \in Sessions : tables[e][d].late[s] \in Nat /\ tables[e][d].under[s] \in Nat
  BY <1>1 DEF Tables
<1> DEFINE held == [s \in Sessions |->
                     IF tables[e][d].absent[s] = NotAbsent THEN 0 ELSE SessionMinutes(s)]
<1>3. \A s \in Sessions : held[s] \in Nat
  BY SessionMinutesNat
<1>4. AbsentMinutes(tables[e][d]) = Both(held)
  BY DEF AbsentMinutes
<1> HIDE DEF held
<1>5. "AM" \in Sessions /\ "PM" \in Sessions
  BY DEF Sessions
<1>6. QED
  BY <1>2, <1>3, <1>4, <1>5 DEF Both

\* The sums over a range's rows.
LateRows(S, a, b) == [p \in RowDays(S, a, b) |-> Both(tables[p[1]][p[2]].late)]
UnderRows(S, a, b) == [p \in RowDays(S, a, b) |-> Both(tables[p[1]][p[2]].under)]
AbsentRows(S, a, b) == [p \in RowDays(S, a, b) |-> AbsentMinutes(tables[p[1]][p[2]])]

LEMMA LostTimeIs ==
    ASSUME NEW S, NEW a, NEW b
    PROVE  /\ LostTime(S, a, b).late = SumFunction(LateRows(S, a, b))
           /\ LostTime(S, a, b).undertime = SumFunction(UnderRows(S, a, b))
           /\ LostTime(S, a, b).absent = SumFunction(AbsentRows(S, a, b))
           /\ LostTime(S, a, b).lost = SumFunction(LateRows(S, a, b))
                + SumFunction(UnderRows(S, a, b)) + SumFunction(AbsentRows(S, a, b))
BY DEF LostTime, SumOfRows, Sums, LateRows, UnderRows, AbsentRows

\* What a reader of the pages compares: the totals of a range's records, and the
\* sums of its rows.
RangeAgrees(e, p, q) ==
    LET s == Summary(BuildDailyAttendance(e, p, q))
    IN  /\ s.late_minutes = LostTime({e}, p, q).late
        /\ s.undertime_minutes = LostTime({e}, p, q).undertime
        /\ s.absent_minutes = LostTime({e}, p, q).absent
        /\ s.lost_minutes = LostTime({e}, p, q).lost

\* They agree over a range when they agree on every day it lists.
LEMMA RangeFromDays ==
    ASSUME LedgerInv, NEW e \in Fulltime, NEW p \in Int, NEW q \in Int,
           \A d \in IncludedDays(e, p, q) : DayAgrees(e, d)
    PROVE  RangeAgrees(e, p, q)
<1> DEFINE P == RowDays({e}, p, q)
           late == LateRows({e}, p, q)
           under == UnderRows({e}, p, q)
           absent == AbsentRows({e}, p, q)
           R == BuildDailyAttendance(e, p, q)
<1>1. TypeOK /\ e \in Employees
  BY DEF LedgerInv, Employees
<1>2. \A d : d \in Days /\ d \in p..q <=> <<e, d>> \in P
  BY DEF RowDays
<1>3. late \in [P -> Nat] /\ under \in [P -> Nat] /\ absent \in [P -> Nat]
  <2>1. \A x \in P : x[1] \in Employees /\ x[2] \in Days
    BY <1>1 DEF RowDays
  <2>2. QED
    BY <1>1, <2>1, RowMinutesNat DEF LateRows, UnderRows, AbsentRows
<1>4. ASSUME NEW d \in Days, d \in p..q
      PROVE  /\ late[<<e, d>>] = Both(tables[e][d].late)
             /\ under[<<e, d>>] = Both(tables[e][d].under)
             /\ absent[<<e, d>>] = AbsentMinutes(tables[e][d])
  BY <1>2, <1>4 DEF LateRows, UnderRows, AbsentRows
<1>5. \A d \in IncludedDays(e, p, q) : d \in Days /\ d \in p..q
  BY CalendarFacts DEF IncludedDays
<1>6. ASSUME NEW d \in IncludedDays(e, p, q)
      PROVE  /\ FulltimeRecord(e, d)["late"] = late[<<e, d>>]
             /\ FulltimeRecord(e, d)["undertime"] = under[<<e, d>>]
             /\ FulltimeRecord(e, d)["absent"] = absent[<<e, d>>]
  <2>1. DayAgrees(e, d)
    OBVIOUS
  <2>2. QED
    BY <1>4, <1>5, <2>1 DEF DayAgrees
<1>7. ASSUME NEW d \in Days, d \in p..q, ~Included(e, d)
      PROVE  late[<<e, d>>] = 0 /\ under[<<e, d>>] = 0 /\ absent[<<e, d>>] = 0
  BY <1>4, <1>7, UnlistedRows
<1> HIDE DEF P, late, under, absent, R
<1>8. /\ RowTerms(e, p, q, "late", late) /\ RowTerms(e, p, q, "undertime", under)
      /\ RowTerms(e, p, q, "absent", absent)
  BY <1>3, <1>6, <1>7 DEF RowTerms, P
<1>9. /\ Total(R, "late") = SumFunction(late) /\ Total(R, "undertime") = SumFunction(under)
      /\ Total(R, "absent") = SumFunction(absent)
  BY <1>8, TotalIsRowSum DEF R
<1>10. QED
  BY <1>9, LostTimeIs DEF RangeAgrees, Summary, late, under, absent, R

\* What each report's line of a session says, 0 for no line.
LateOf(x, s) == tables[x[1]][x[2]].late[s]
AbsentOf(x, s) == IF tables[x[1]][x[2]].absent[s] = NotAbsent THEN 0 ELSE SessionMinutes(s)

LEMMA SessionsOfRows ==
    ASSUME TypeOK, NEW x \in Employees \X Days
    PROVE  /\ Both(tables[x[1]][x[2]].late) = LateOf(x, "AM") + LateOf(x, "PM")
           /\ AbsentMinutes(tables[x[1]][x[2]]) = AbsentOf(x, "AM") + AbsentOf(x, "PM")
           /\ \A s \in Sessions : LateOf(x, s) \in Nat /\ AbsentOf(x, s) \in Nat
           /\ Both(tables[x[1]][x[2]].late) \in Nat /\ AbsentMinutes(tables[x[1]][x[2]]) \in Nat
<1>1. "AM" \in Sessions /\ "PM" \in Sessions
  BY DEF Sessions
<1>2. AbsentMinutes(tables[x[1]][x[2]]) = AbsentOf(x, "AM") + AbsentOf(x, "PM")
  BY <1>1 DEF AbsentMinutes, Both, AbsentOf
<1>3. QED
  BY <1>2, RowMinutesNat, SessionMinutesNat DEF LateOf, AbsentOf, Both

\* The tardiness and absence reports' lines add up to the same sums.
LEMMA TardyMinutes ==
    ASSUME TypeOK, NEW e \in Employees, NEW a, NEW b
    PROVE  TardinessReport({e}, a, b).minutes = SumFunction(LateRows({e}, a, b))
<1> DEFINE P == RowDays({e}, a, b)
           f == LateRows({e}, a, b)
           h == [p \in P \X Sessions |-> LateOf(p[1], p[2])]
           L == {p \in P \X Sessions : tables[p[1][1]][p[1][2]].late[p[2]] > 0}
           k == [p \in L |-> tables[p[1][1]][p[1][2]].late[p[2]]]
<1>1. IsFiniteSet(P) /\ P \subseteq Employees \X Days
  BY RowDaysFinite DEF RowDays
<1>2. \A x \in P : f[x] = LateOf(x, "AM") + LateOf(x, "PM") /\ f[x] \in Nat
  BY <1>1, SessionsOfRows DEF LateRows
<1>3. \A x \in P, s \in Sessions : LateOf(x, s) \in Nat
  BY <1>1, SessionsOfRows
<1>4. DOMAIN f = P /\ f = [x \in P |-> f[x]]
  BY DEF LateRows
<1>5. f \in [P -> Nat]
  BY <1>2, <1>4
<1>6. L = {p \in P \X Sessions : LateOf(p[1], p[2]) > 0} /\ k = [p \in L |-> LateOf(p[1], p[2])]
  BY DEF LateOf
<1>7. TardinessReport({e}, a, b).minutes = SumFunction(k)
  BY DEF TardinessReport
<1> HIDE DEF P, f, L, k
<1>8. LinesOf(P, f, h, L, k)
  <2>1. h \in [P \X Sessions -> Nat] /\ \A p \in P \X Sessions : h[p] = LateOf(p[1], p[2])
    BY <1>3
  <2>2. L \subseteq P \X Sessions /\ \A p \in P \X Sessions : p \notin L => h[p] = 0
    BY <1>3, <1>6
  <2>3. k \in [L -> Nat] /\ \A p \in L : k[p] = h[p]
    BY <1>3, <1>6
  <2>4. \A x \in P : h[<<x, "AM">>] = LateOf(x, "AM") /\ h[<<x, "PM">>] = LateOf(x, "PM")
    BY DEF Sessions
  <2> HIDE DEF h
  <2>5. QED
    BY <1>1, <1>2, <1>5, <2>1, <2>2, <2>3, <2>4 DEF LinesOf
<1>9. QED
  BY <1>7, <1>8, LinesAddUp DEF f

LEMMA AbsenceMinutes ==
    ASSUME TypeOK, NEW e \in Employees, NEW a, NEW b
    PROVE  AbsenceReport({e}, a, b).minutes = SumFunction(AbsentRows({e}, a, b))
<1> DEFINE P == RowDays({e}, a, b)
           f == AbsentRows({e}, a, b)
           h == [p \in P \X Sessions |-> AbsentOf(p[1], p[2])]
           L == {p \in P \X Sessions : tables[p[1][1]][p[1][2]].absent[p[2]] # NotAbsent}
           k == [p \in L |-> SessionMinutes(p[2])]
<1>1. IsFiniteSet(P) /\ P \subseteq Employees \X Days
  BY RowDaysFinite DEF RowDays
<1>2. \A x \in P : f[x] = AbsentOf(x, "AM") + AbsentOf(x, "PM") /\ f[x] \in Nat
  BY <1>1, SessionsOfRows DEF AbsentRows
<1>3. \A x \in P, s \in Sessions : AbsentOf(x, s) \in Nat
  BY <1>1, SessionsOfRows
<1>4. DOMAIN f = P /\ f = [x \in P |-> f[x]]
  BY DEF AbsentRows
<1>5. f \in [P -> Nat]
  BY <1>2, <1>4
<1>6. /\ L \subseteq P \X Sessions
      /\ \A p \in P \X Sessions : AbsentOf(p[1], p[2]) = IF p \in L THEN SessionMinutes(p[2]) ELSE 0
  BY DEF AbsentOf
<1>7. AbsenceReport({e}, a, b).minutes = SumFunction(k)
  BY DEF AbsenceReport
<1> HIDE DEF P, f, L
<1>8. LinesOf(P, f, h, L, k)
  <2>1. h \in [P \X Sessions -> Nat] /\ \A p \in P \X Sessions : h[p] = AbsentOf(p[1], p[2])
    BY <1>3
  <2>2. L \subseteq P \X Sessions /\ \A p \in P \X Sessions : p \notin L => h[p] = 0
    BY <1>6, <2>1
  <2>3. k \in [L -> Nat] /\ \A p \in L : k[p] = h[p]
    BY <1>6, <2>1, SessionMinutesNat
  <2>4. \A x \in P : h[<<x, "AM">>] = AbsentOf(x, "AM") /\ h[<<x, "PM">>] = AbsentOf(x, "PM")
    BY DEF Sessions
  <2> HIDE DEF h, k
  <2>5. QED
    BY <1>1, <1>2, <1>5, <2>1, <2>2, <2>3, <2>4 DEF LinesOf
<1>9. QED
  BY <1>7, <1>8, LinesAddUp DEF f

LEMMA ReportTotals ==
    ASSUME NEW e \in Fulltime, NEW a \in Days, NEW b \in Days, a <= b, b - a < MAX_RANGE_DAYS
    PROVE  AttendanceReport(e, a, b).totals = Summary(BuildDailyAttendance(e, a, b))
<1>1. e \in Employees /\ ~(a > b) /\ ~(b - a + 1 > MAX_RANGE_DAYS)
  BY CalendarFacts DEF MAX_RANGE_DAYS, Employees
<1>2. AttendanceReport(e, a, b) = ReportOf(e, BuildDailyAttendance(e, a, b), {})
  BY <1>1 DEF AttendanceReport
<1>3. QED
  BY <1>2 DEF ReportOf

\* After a pass that kept up, the pages agree.
LEMMA PagesShown == FinalInv => PagesAgree
<1> SUFFICES ASSUME FinalInv, settled, NEW e \in Fulltime, NEW a \in Days, NEW b \in Days,
                    TrackingStart(e) <= a, a <= b, b <= Today, b - a < MAX_RANGE_DAYS,
                    \A d \in a..b : WorksOn(d) \/ logs[e][d] = {}
             PROVE  /\ PagesAgreeOver(e, a, b)
                    /\ b = Today /\ (\A d \in 0..(a - 1) : ~Included(e, d))
                         => Performance(e).lost = LostTime({e}, Today - 29, Today).lost
  BY DEF PagesAgree
<1>1. LedgerInv /\ TypeOK /\ Today \in Days /\ e \in Employees
  BY DayOfMoment DEF FinalInv, CardsInv, LedgerInv, TypeOK, Today, Employees
<1>2. a \in Nat /\ b \in Nat /\ Today \in Nat /\ TrackingStart(e) \in Int
  <2>1. SystemStart \in Nat /\ Floor[e] \in Nat
    BY <1>1, StartNat
  <2>2. TrackingStart(e) \in Int
    BY <2>1 DEF TrackingStart
  <2>3. QED
    BY <1>1, <2>2, CalendarFacts
<1>3. ASSUME NEW d \in Days, a <= d, d <= b, Included(e, d)
      PROVE  DayAgrees(e, d)
  <2>1. d \in Nat /\ d \in a..b
    BY <1>2, <1>3, CalendarFacts
  <2>2. TrackingStart(e) <= d /\ d <= Today
    BY <1>2, <1>3, <2>1
  <2>3. ~WorksOn(d) => logs[e][d] = {} /\ tables[e][d] = NoRows
    BY <1>1, <2>1, DayOffRows
  <2>4. WorksOn(d)
    BY <1>3, <2>3 DEF Included
  <2>5. QED
    BY <2>2, <2>4, SettledDayAgrees
<1>4. RangeAgrees(e, a, b)
  <2>1. \A d \in IncludedDays(e, a, b) : DayAgrees(e, d)
    BY <1>3 DEF IncludedDays
  <2>2. QED
    BY <1>1, <1>2, <2>1, RangeFromDays
<1>5. PagesAgreeOver(e, a, b)
  BY <1>1, <1>4, ReportTotals, TardyMinutes, AbsenceMinutes, LostTimeIs DEF PagesAgreeOver, Agree, RangeAgrees
<1>6. ASSUME b = Today, \A d \in 0..(a - 1) : ~Included(e, d)
      PROVE  Performance(e).lost = LostTime({e}, Today - 29, Today).lost
  <2>1. \A d \in IncludedDays(e, Today - 29, Today) : DayAgrees(e, d)
    <3> SUFFICES ASSUME NEW d \in Days, d <= Today, Included(e, d) PROVE DayAgrees(e, d)
      BY DEF IncludedDays
    <3>1. d \in Nat
      BY CalendarFacts
    <3>2. d \notin 0..(a - 1)
      BY <1>6
    <3>3. a <= d
      BY <1>2, <3>1, <3>2
    <3>4. QED
      BY <1>3, <1>6, <3>3
  <2>2. Today - 29 \in Int /\ Today \in Int
    BY <1>2
  <2>3. RangeAgrees(e, Today - 29, Today)
    BY <1>1, <2>1, <2>2, RangeFromDays
  <2>4. Performance(e).lost = Summary(BuildDailyAttendance(e, Today - 29, Today)).lost_minutes
    BY DEF Performance, Rates
  <2>5. QED
    BY <2>3, <2>4 DEF RangeAgrees
<1>7. QED
  BY <1>5, <1>6

\* As long as the pass goes over each holiday in time, every pass leaves the
\* Attendance page, the tardiness and absence pages, their reports and the
\* profile's lost time in agreement, over every tracked range in which nobody
\* punched on a day off.
THEOREM PagesAgreeWhenKeptUp == Spec /\ []KeepsUp => []PagesAgree
BY FinalAlways, PagesShown, PTL

\* No day ends without a pass, once there has been one: the pass runs every few
\* minutes.
PassesDaily == cursor # NoDay => Today <= cursor + 2

\* The schedule is weekly: the next workday is within seven days.
LEMMA NextWorkdaySoon ==
    ASSUME NEW d \in Days, WorksOn(d), After(d) # {}
    PROVE  NextWorkday(d) \in Nat /\ NextWorkday(d) <= d + 7
<1>0. FirstWeekday \in 0..6
  BY CalendarAssumption
<1>1. d \in Nat /\ LastDay \in Nat /\ Days = 0..LastDay /\ FirstWeekday \in Nat
  BY <1>0, CalendarFacts
<1>2. NextWorkday(d) \in Days /\ \A x \in After(d) : NextWorkday(d) <= x
  BY BesideDays
<1>3. CASE d + 7 <= LastDay
  <2>1. Weekday(d + 7) = Weekday(d)
    <3> DEFINE F == FirstWeekday
    <3> HIDE DEF F
    <3>1. F \in Nat
      BY <1>1 DEF F
    <3>2. (F + (d + 7)) % 7 = (F + d) % 7
      BY <1>1, <3>1
    <3>3. QED
      BY <3>2 DEF Weekday, F
  <2>2. d + 7 \in After(d)
    BY <1>1, <1>3, <2>1 DEF After, WorkdaysOf, WorksOn
  <2>3. QED
    BY <1>1, <1>2, <2>2
<1>4. CASE d + 7 > LastDay
  BY <1>1, <1>2, <1>4
<1>5. QED
  BY <1>1, <1>3, <1>4

LEMMA DailyKeepsUp ==
    ASSUME HOLIDAY_REEVAL_DAYS >= 7, TypeOK, PassesDaily
    PROVE  KeepsUp
<1> SUFFICES ASSUME cursor # NoDay, NEW d \in Days, d <= cursor, WorksOn(d), After(d) # {},
                    cursor + 2 <= NextWorkday(d), NextWorkday(d) <= Today
             PROVE  d >= Today - HOLIDAY_REEVAL_DAYS
  BY DEF KeepsUp
<1>0. HOLIDAY_REEVAL_DAYS \in Nat
  BY CalendarAssumption
<1>1. Today \in Nat /\ d \in Nat /\ cursor \in Nat
  <2>1. Today \in Days /\ cursor \in Days
    BY DayOfMoment DEF TypeOK, Today
  <2>2. QED
    BY <2>1, CalendarFacts
<1>2. NextWorkday(d) \in Nat /\ NextWorkday(d) <= d + 7
  BY NextWorkdaySoon
<1>3. Today <= cursor + 2
  BY DEF PassesDaily
<1>4. QED
  BY <1>0, <1>1, <1>2, <1>3

\* With the seven days the code goes back over holidays (tasks.py), a pass every
\* day is enough for the pages to agree after each.
THEOREM PagesAgreeWithDailyPass ==
    ASSUME HOLIDAY_REEVAL_DAYS >= 7
    PROVE  Spec /\ []PassesDaily => []PagesAgree
<1>1. TypeOK /\ PassesDaily => KeepsUp
  BY DailyKeepsUp
<1>2. QED
  BY <1>1, RecordsTyped, PagesAgreeWhenKeptUp, PTL

----------------------------------------------------------------------------
(* A part-timer's week, as punches arrive.                                 *)

\* The minutes a part-timer's rows amount to.
InOf(rows) == DayLogs(rows)["IN"]
OutOf(rows) == DayLogs(rows)["OUT"]
Worked(rows) == IF InOf(rows) # NoTime /\ OutOf(rows) # NoTime
                THEN AtLeastZero((OutOf(rows) - InOf(rows)) \div 60) ELSE 0

\* An OUT row was stored because of a punch well before it.
Paired(rows) ==
    \A r \in rows : r.type = "OUT" => \E u \in rows : u.at + DUPLICATE_PUNCH_WINDOW <= r.at

LEMMA InAndOut ==
    ASSUME NEW rows, rows \subseteq LogRows
    PROVE  /\ InOf(rows) # NoTime =>
                \E r \in rows : r.type = "IN" /\ r.at = InOf(rows)
           /\ \A r \in rows : r.type = "IN" => InOf(rows) # NoTime /\ InOf(rows) <= r.at
           /\ OutOf(rows) # NoTime =>
                \E r \in rows : r.type = "OUT" /\ r.at = OutOf(rows)
           /\ \A r \in rows : r.type = "OUT" => OutOf(rows) # NoTime /\ r.at <= OutOf(rows)
<1> DEFINE times(type) == {l.at : l \in {k \in rows : k.type = type}}
<1>1. "IN" \in LogTypes /\ "OUT" \in LogTypes /\ "IN" \notin OutTypes /\ "OUT" \in OutTypes
  BY DEF LogTypes, PARTTIME_TYPES, OutTypes
<1>2. /\ InOf(rows) = IF times("IN") = {} THEN NoTime ELSE Earliest(times("IN"))
      /\ OutOf(rows) = IF times("OUT") = {} THEN NoTime ELSE Latest(times("OUT"))
  BY <1>1 DEF InOf, OutOf, DayLogs
<1>3. DaySeconds - 1 \in Nat /\ \A r \in rows : r.at \in 0..(DaySeconds - 1)
  <2>1. DaySeconds - 1 \in Nat
    BY CalendarFacts
  <2>2. QED
    BY <2>1, RowFields
<1>4. \A type : times(type) \subseteq 0..(DaySeconds - 1)
  BY <1>3
<1>5. \A t, type : t \in times(type) <=> \E r \in rows : r.type = type /\ r.at = t
  OBVIOUS
<1>6. NoTime \notin 0..(DaySeconds - 1)
  BY DEF NoTime
<1> HIDE DEF times
<1>7. times("IN") # {} => /\ Earliest(times("IN")) \in times("IN")
                          /\ \A u \in times("IN") : Earliest(times("IN")) <= u
  BY <1>3, <1>4, EarliestLatest
<1>8. times("OUT") # {} => /\ Latest(times("OUT")) \in times("OUT")
                           /\ \A u \in times("OUT") : u <= Latest(times("OUT"))
  BY <1>3, <1>4, EarliestLatest
<1>9. ASSUME times("IN") # {}
      PROVE  /\ \E r \in rows : r.type = "IN" /\ r.at = InOf(rows)
             /\ \A r \in rows : r.type = "IN" => InOf(rows) # NoTime /\ InOf(rows) <= r.at
  <2>1. InOf(rows) \in times("IN") /\ \A u \in times("IN") : InOf(rows) <= u
    BY <1>2, <1>7, <1>9
  <2>2. InOf(rows) # NoTime
    BY <1>4, <1>6, <2>1
  <2>3. QED
    BY <1>5, <2>1, <2>2
<1>10. ASSUME times("OUT") # {}
       PROVE  /\ \E r \in rows : r.type = "OUT" /\ r.at = OutOf(rows)
              /\ \A r \in rows : r.type = "OUT" => OutOf(rows) # NoTime /\ r.at <= OutOf(rows)
  <2>1. OutOf(rows) \in times("OUT") /\ \A u \in times("OUT") : u <= OutOf(rows)
    BY <1>2, <1>8, <1>10
  <2>2. OutOf(rows) # NoTime
    BY <1>4, <1>6, <2>1
  <2>3. QED
    BY <1>5, <2>1, <2>2
<1>11. ASSUME times("IN") = {} PROVE InOf(rows) = NoTime /\ \A r \in rows : r.type # "IN"
  BY <1>2, <1>5, <1>11
<1>12. ASSUME times("OUT") = {} PROVE OutOf(rows) = NoTime /\ \A r \in rows : r.type # "OUT"
  BY <1>2, <1>5, <1>12
<1>13. QED
  BY <1>9, <1>10, <1>11, <1>12

\* One punch more never takes minutes away: the day now runs from its first to
\* its last punch.
LEMMA PunchAddsMinutes ==
    ASSUME NEW e \in Parttime, NEW rows, rows \subseteq LogRows, Distinct(rows), Paired(rows),
           NEW t \in 0..(DaySeconds - 1)
    PROVE  /\ Paired(RowsWith(e, t, rows))
           /\ Worked(rows) <= Worked(RowsWith(e, t, rows))
           /\ OutOf(rows) # NoTime => OutOf(RowsWith(e, t, rows)) # NoTime
<1> DEFINE T == TimesWith(t, rows)
           first == Earliest(T)
           last == Latest(T)
           labels == LabelsOf(e, T)
           more == RowsWith(e, t, rows)
<1>1. T \subseteq 0..(DaySeconds - 1) /\ T # {} /\ DaySeconds - 1 \in Nat /\ \A r \in rows : r.at \in T
  <2>1. DaySeconds - 1 \in Nat
    BY DEF DaySeconds
  <2>2. \A r \in rows : r.at \in 0..(DaySeconds - 1)
    BY RowFields
  <2>3. QED
    BY <2>1, <2>2 DEF TimesWith
<1>2. labels = {Label("IN", first)}
                 \cup (IF last - first >= DUPLICATE_PUNCH_WINDOW THEN {Label("OUT", last)} ELSE {})
  <2>1. e \notin Fulltime
    BY CalendarAssumption
  <2>2. labels = AssignParttimePunches(T)
    BY <2>1 DEF LabelsOf, ClassifyDay
  <2>3. QED
    BY <1>1, <2>2 DEF AssignParttimePunches, GroupInOut
<1>3. WellLabelled(labels, T) /\ more = Stored(rows, labels)
  BY <1>1, LabelsWell DEF RowsWith
<1>4. first \in T /\ last \in T /\ \A u \in T : first <= u /\ u <= last
  BY <1>1, EarliestLatest
<1> HIDE DEF T, first, last, labels, more
<1>5. more \subseteq LogRows /\ \A u \in more : u.at \in T
  BY <1>1, <1>3, StoredRows
<1>6. /\ Row(first, "IN") \in more
      /\ last - first >= DUPLICATE_PUNCH_WINDOW => Row(last, "OUT") \in more
      /\ \A u \in more : u \in rows \/ u = Row(first, "IN")
                           \/ (u = Row(last, "OUT") /\ last - first >= DUPLICATE_PUNCH_WINDOW)
  <2>1. /\ Label("IN", first).type = "IN" /\ Label("IN", first).at = first
        /\ Label("OUT", last).type = "OUT" /\ Label("OUT", last).at = last
    BY DEF Label
  <2>2. \A l \in labels : \/ l = Label("IN", first)
                          \/ l = Label("OUT", last) /\ last - first >= DUPLICATE_PUNCH_WINDOW
    BY <1>2
  <2>3. Label("IN", first) \in labels
        /\ (last - first >= DUPLICATE_PUNCH_WINDOW => Label("OUT", last) \in labels)
    BY <1>2
  <2>4. \A l \in labels : Row(l.at, l.type) \in more
    BY <1>3 DEF Stored
  <2>5. \A u \in more : u \in rows \/ \E l \in labels : u = Row(l.at, l.type)
    BY <1>3 DEF Stored
  <2>6. QED
    BY <2>1, <2>2, <2>3, <2>4, <2>5
<1>7. DUPLICATE_PUNCH_WINDOW = 300 /\ first \in Nat /\ last \in Nat /\ T \subseteq Nat
  BY <1>1, <1>4 DEF DUPLICATE_PUNCH_WINDOW
<1>8. \A u \in more : u.type = "OUT" => first + DUPLICATE_PUNCH_WINDOW <= u.at
  <2> SUFFICES ASSUME NEW u \in more, u.type = "OUT" PROVE first + DUPLICATE_PUNCH_WINDOW <= u.at
    OBVIOUS
  <2>1. CASE u \in rows
    <3>1. PICK v \in rows : v.at + DUPLICATE_PUNCH_WINDOW <= u.at
      BY <2>1 DEF Paired
    <3>2. v.at \in T /\ u.at \in T
      BY <1>1, <2>1
    <3>3. v.at \in Nat /\ u.at \in Nat /\ first <= v.at
      BY <1>4, <1>7, <3>2
    <3>4. QED
      BY <1>7, <3>1, <3>3
  <2>2. CASE u = Row(last, "OUT") /\ last - first >= DUPLICATE_PUNCH_WINDOW
    BY <1>7, <2>2, RowFields
  <2>3. u # Row(first, "IN")
    BY RowFields
  <2>4. QED
    BY <1>6, <2>1, <2>2, <2>3
<1>9. Paired(more)
  BY <1>6, <1>8, RowFields DEF Paired
<1>10. Worked(rows) <= Worked(more)
  <2> DEFINE i == InOf(rows)
             o == OutOf(rows)
  <2>1. Worked(more) \in Nat
    <3>1. CASE InOf(more) # NoTime /\ OutOf(more) # NoTime
      <4>1. InOf(more) \in Nat /\ OutOf(more) \in Nat
        BY <1>5, <1>7, <3>1, InAndOut
      <4>2. QED
        BY <3>1, <4>1 DEF Worked, AtLeastZero
    <3>2. CASE ~(InOf(more) # NoTime /\ OutOf(more) # NoTime)
      BY <3>2 DEF Worked
    <3>3. QED
      BY <3>1, <3>2
  <2>2. CASE i # NoTime /\ o # NoTime
    <3>1. PICK r \in rows : r.at = i
      BY <2>2, InAndOut
    <3>2. PICK u \in rows : u.type = "OUT" /\ u.at = o
      BY <2>2, InAndOut
    <3>3. PICK v \in rows : v.at + DUPLICATE_PUNCH_WINDOW <= u.at
      BY <3>2 DEF Paired
    <3>4. i \in Nat /\ o \in Nat /\ v.at \in Nat /\ first <= i /\ o <= last /\ first <= v.at
      BY <1>1, <1>4, <1>7, <3>1, <3>2
    <3>5. last - first >= DUPLICATE_PUNCH_WINDOW
      BY <1>7, <3>2, <3>3, <3>4
    <3>6. InOf(more) = first
      <4>1. InOf(more) # NoTime /\ InOf(more) <= first
        BY <1>5, <1>6, RowFields, InAndOut
      <4>2. InOf(more) \in T
        BY <1>5, <4>1, InAndOut
      <4>3. InOf(more) \in Nat /\ first <= InOf(more) /\ InOf(more) <= last
        BY <1>4, <1>7, <4>2
      <4>4. QED
        BY <1>7, <4>1, <4>3
    <3>7. OutOf(more) = last
      <4>1. OutOf(more) # NoTime /\ last <= OutOf(more)
        BY <1>5, <1>6, <3>5, RowFields, InAndOut
      <4>2. OutOf(more) \in T
        BY <1>5, <4>1, InAndOut
      <4>3. OutOf(more) \in Nat /\ first <= OutOf(more) /\ OutOf(more) <= last
        BY <1>4, <1>7, <4>2
      <4>4. QED
        BY <1>7, <4>1, <4>3
    <3>8. first # NoTime /\ last # NoTime
      BY <1>7 DEF NoTime
    <3>9. Worked(more) = AtLeastZero((last - first) \div 60) /\ Worked(rows) = AtLeastZero((o - i) \div 60)
      BY <2>2, <3>6, <3>7, <3>8 DEF Worked
    <3>10. o - i <= last - first /\ o - i \in Int /\ last - first \in Int
      BY <1>7, <3>4
    <3> HIDE DEF i, o
    <3>11. (o - i) \div 60 <= (last - first) \div 60 /\ (o - i) \div 60 \in Int
           /\ (last - first) \div 60 \in Int
      BY <3>10
    <3>12. QED
      BY <3>9, <3>11 DEF AtLeastZero
  <2>3. CASE ~(i # NoTime /\ o # NoTime)
    BY <2>1, <2>3 DEF Worked
  <2>4. QED
    BY <2>2, <2>3
<1>11. ASSUME OutOf(rows) # NoTime PROVE OutOf(more) # NoTime
  <2>1. PICK u \in rows : u.type = "OUT"
    BY <1>11, InAndOut
  <2>2. PICK v \in rows : v.at + DUPLICATE_PUNCH_WINDOW <= u.at
    BY <2>1 DEF Paired
  <2>3. u.at \in Nat /\ v.at \in Nat /\ first <= v.at /\ u.at <= last
    BY <1>1, <1>4, <1>7
  <2>4. last - first >= DUPLICATE_PUNCH_WINDOW
    BY <1>7, <2>2, <2>3
  <2>5. Row(last, "OUT") \in more /\ Row(last, "OUT").type = "OUT"
    BY <1>6, <2>4, RowFields
  <2>6. QED
    BY <1>5, <2>5, InAndOut
<1>12. QED
  BY <1>9, <1>10, <1>11 DEF more

\* A part-timer's week by these logs: its days, its minutes and the days worked.
WeekDays(lg, e, w) == {d \in Days : lg[e][d] # {} /\ WeekOf(d) = w}
WeekWorked(lg, e, w) == SumFunction([d \in WeekDays(lg, e, w) |-> Worked(lg[e][d])])
WeekCame(lg, e, w) == Cardinality({d \in WeekDays(lg, e, w) : Worked(lg[e][d]) # 0})
MetBy(lg, e, w) == WeekWorked(lg, e, w) >= WeeklyMinutes /\ WeekCame(lg, e, w) >= WeeklyMinDays

LEMMA WorkedNat == \A rows : rows \subseteq LogRows => Worked(rows) \in Nat
<1> SUFFICES ASSUME NEW rows, rows \subseteq LogRows PROVE Worked(rows) \in Nat
  OBVIOUS
<1>1. CASE InOf(rows) # NoTime /\ OutOf(rows) # NoTime
  <2>0. \A r \in rows : r.at \in 0..(DaySeconds - 1)
    BY RowFields
  <2>1. \A r \in rows : r.at \in Nat
    <3> SUFFICES ASSUME NEW r \in rows PROVE r.at \in Nat
      OBVIOUS
    <3>1. DaySeconds - 1 \in Int
      BY DEF DaySeconds
    <3>2. r.at \in 0..(DaySeconds - 1)
      BY <2>0
    <3>3. QED
      BY <3>1, <3>2
  <2>2. InOf(rows) \in Nat /\ OutOf(rows) \in Nat
    BY <1>1, <2>1, InAndOut
  <2>3. QED
    BY <1>1, <2>2 DEF Worked, AtLeastZero
<1>2. CASE ~(InOf(rows) # NoTime /\ OutOf(rows) # NoTime)
  BY <1>2 DEF Worked
<1>3. QED
  BY <1>1, <1>2

LEMMA WeekDaysFinite ==
    \A lg, e, w : IsFiniteSet(WeekDays(lg, e, w))
                  /\ IsFiniteSet({d \in WeekDays(lg, e, w) : Worked(lg[e][d]) # 0})
<1> SUFFICES ASSUME NEW lg, NEW e, NEW w
             PROVE  IsFiniteSet(WeekDays(lg, e, w))
                    /\ IsFiniteSet({d \in WeekDays(lg, e, w) : Worked(lg[e][d]) # 0})
  OBVIOUS
<1>1. IsFiniteSet(Days)
  BY CalendarFacts
<1>2. WeekDays(lg, e, w) \subseteq Days
  BY DEF WeekDays
<1>3. QED
  BY <1>1, <1>2, FS_Subset

\* More minutes on each day make a week of more minutes and days.
LEMMA WeekGrows ==
    ASSUME NEW e, NEW w, NEW lg, NEW more,
           \A d \in Days : /\ Worked(lg[e][d]) \in Nat /\ Worked(more[e][d]) \in Nat
                           /\ Worked(lg[e][d]) <= Worked(more[e][d])
                           /\ lg[e][d] # {} => more[e][d] # {}
    PROVE  MetBy(lg, e, w) => MetBy(more, e, w)
<1> DEFINE S == WeekDays(lg, e, w)
           T == WeekDays(more, e, w)
           f == [d \in S |-> Worked(lg[e][d])]
           h == [d \in T |-> Worked(more[e][d])]
           m == [d \in S |-> d]
           A == {d \in S : Worked(lg[e][d]) # 0}
           B == {d \in T : Worked(more[e][d]) # 0}
<1>1. IsFiniteSet(S) /\ IsFiniteSet(T) /\ IsFiniteSet(A) /\ IsFiniteSet(B)
  BY WeekDaysFinite
<1>2. S \subseteq Days /\ T \subseteq Days /\ S \subseteq T
  BY DEF WeekDays
<1>3. f \in [S -> Nat] /\ h \in [T -> Nat] /\ OneToOne(m, S, T) /\ \A d \in S : f[d] <= h[m[d]]
  BY <1>2 DEF OneToOne
<1>4. A \subseteq B
  <2> SUFFICES ASSUME NEW d \in A PROVE d \in B
    OBVIOUS
  <2>1. d \in T /\ Worked(lg[e][d]) \in Nat /\ Worked(more[e][d]) \in Nat
        /\ Worked(lg[e][d]) <= Worked(more[e][d]) /\ Worked(lg[e][d]) # 0
    BY <1>2
  <2>2. QED
    BY <2>1
<1>5. /\ WeekWorked(lg, e, w) = SumFunction(f) /\ WeekWorked(more, e, w) = SumFunction(h)
      /\ WeekCame(lg, e, w) = Cardinality(A) /\ WeekCame(more, e, w) = Cardinality(B)
  BY DEF WeekWorked, WeekCame
<1> HIDE DEF S, T, f, h, m, A, B
<1>6. SumFunction(f) <= SumFunction(h) /\ SumFunction(f) \in Nat /\ SumFunction(h) \in Nat
  BY <1>1, <1>3, SumCompares
<1>7. Cardinality(A) <= Cardinality(B) /\ Cardinality(A) \in Nat /\ Cardinality(B) \in Nat
  BY <1>1, <1>4, FS_Subset, FS_CardinalityType
<1>8. WeeklyMinutes \in Nat /\ WeeklyMinDays \in Nat
  <2>1. WeeklyMinDays \in 1..7 /\ WeeklyMinutes \in Nat
    BY CalendarAssumption
  <2>2. QED
    BY <2>1
<1>9. QED
  BY <1>5, <1>6, <1>7, <1>8 DEF MetBy

\* A week that is met has a day with punches.
LEMMA MetWeekHasDay ==
    ASSUME NEW e, NEW w, NEW lg, MetBy(lg, e, w)
    PROVE  \E d \in Days : lg[e][d] # {} /\ WeekOf(d) = w
<1> SUFFICES ASSUME WeekDays(lg, e, w) = {} PROVE FALSE
  BY DEF WeekDays
<1>1. {d \in WeekDays(lg, e, w) : Worked(lg[e][d]) # 0} = {}
  OBVIOUS
<1>2. WeekCame(lg, e, w) = 0
  BY <1>1, FS_EmptySet DEF WeekCame
<1>3. WeeklyMinDays \in 1..7
  BY CalendarAssumption
<1>4. QED
  BY <1>2, <1>3 DEF MetBy

LEMMA PartRecord ==
    ASSUME NEW e, NEW d
    PROVE  ParttimeRecord(e, d).worked = Worked(logs[e][d])
BY DEF ParttimeRecord, ParttimeRecordOf, Credited, Worked, InOf, OutOf

\* The page's row of a week says it is met when these logs make it so.
LEMMA WeekRead ==
    ASSUME TypeOK, NEW e \in Parttime, NEW w
    PROVE  LET row == Week(w, ParttimeRecords(e, DaysOfWeek(e, w)))
           IN  row.week = w /\ (row.status = "MET" <=> MetBy(logs, e, w))
<1> DEFINE D == WeekDays(logs, e, w)
           A == {d \in D : Worked(logs[e][d]) # 0}
           F == [d \in D |-> ParttimeRecord(e, d)]
           G == [d \in A |-> ParttimeRecord(e, d)]
           g == [d \in D |-> Worked(logs[e][d])]
           R == ParttimeRecords(e, D)
           came == {r \in R : r.worked # 0}
<1>1. e \notin Fulltime /\ e \in Employees
  BY CalendarAssumption DEF Employees
<1>2. DaysOfWeek(e, w) = D
  BY <1>1 DEF DaysOfWeek, Included, WeekDays
<1>3. IsFiniteSet(D) /\ IsFiniteSet(A)
  BY WeekDaysFinite
<1>4. ByDay(F, D) /\ ByDay(G, A)
  BY ParttimeDay DEF ByDay
<1>5. \A d \in D : Worked(logs[e][d]) \in Nat
  <2>1. \A d \in D : logs[e][d] \subseteq LogRows
    BY <1>1 DEF TypeOK, WeekDays
  <2>2. QED
    BY <2>1, WorkedNat
<1>6. g \in [D -> Nat] /\ \A d \in D : F[d]["worked"] = g[d]
  BY <1>5, PartRecord
<1>7. R = RecordsOf(F, D) /\ came = RecordsOf(G, A)
  <2>1. R = RecordsOf(F, D)
    BY DEF RecordsOf, ParttimeRecords
  <2>2. came = RecordsOf(G, A)
    BY PartRecord DEF RecordsOf, ParttimeRecords
  <2>3. QED
    BY <2>1, <2>2
<1>8. WeekWorked(logs, e, w) = SumFunction(g) /\ WeekCame(logs, e, w) = Cardinality(A)
  BY DEF WeekWorked, WeekCame
<1>9. Week(w, R) = WeekRow(w, Total(R, "worked"), Cardinality(came))
  BY DEF Week
<1> HIDE DEF D, A, F, G, g, R, came
<1>10. Total(R, "worked") = SumFunction(g)
  BY <1>3, <1>4, <1>6, <1>7, TotalByDay
<1>11. Cardinality(came) = Cardinality(A)
  BY <1>3, <1>4, <1>7, OneRecordADay
<1>12. Week(w, R) = WeekRow(w, WeekWorked(logs, e, w), WeekCame(logs, e, w))
  BY <1>8, <1>9, <1>10, <1>11
<1>13. /\ WeekRow(w, WeekWorked(logs, e, w), WeekCame(logs, e, w)).week = w
       /\ WeekRow(w, WeekWorked(logs, e, w), WeekCame(logs, e, w)).status = "MET" <=> MetBy(logs, e, w)
  BY DEF WeekRow, MetBy
<1>14. QED
  BY <1>2, <1>12, <1>13 DEF R

\* The weeks of a part-timer that the page shows met.
MetWeeks(e) == {w.week : w \in {x \in WeeklyHours(e, 0, LastDay) : x.status = "MET"}}
IsMet(e, w) ==
    /\ \E d \in Days : w = WeekOf(d)
    /\ w <= Today /\ w + 6 >= TrackingStart(e) /\ MetBy(logs, e, w)

LEMMA MetWeeksAre == TypeOK => \A e \in Parttime : \A w : w \in MetWeeks(e) <=> IsMet(e, w)
<1> SUFFICES ASSUME TypeOK, NEW e \in Parttime PROVE \A w : w \in MetWeeks(e) <=> IsMet(e, w)
  OBVIOUS
<1> DEFINE row(w) == Week(w, ParttimeRecords(e, DaysOfWeek(e, w)))
           shown == {x \in {WeekOf(d) : d \in 0..LastDay} : x <= Today /\ x + 6 >= TrackingStart(e)}
           of(w) == {r \in BuildDailyAttendance(e, WeekOf(0), WeekOf(LastDay) + 6) : WeekOf(r.day) = w}
<1>1. Days = 0..LastDay /\ 0 \in Days /\ LastDay \in Days
  BY CalendarFacts
<1>2. WeeklyHours(e, 0, LastDay) = {Week(w, of(w)) : w \in shown}
  BY DEF WeeklyHours, Weeks
<1>3. \A w \in shown : of(w) = ParttimeRecords(e, DaysOfWeek(e, w))
  BY <1>1, WholeWeek
<1>4. \A w : row(w).week = w /\ (row(w).status = "MET" <=> MetBy(logs, e, w))
  BY WeekRead
<1>5. \A w : w \in shown <=> /\ \E d \in Days : w = WeekOf(d)
                             /\ w <= Today /\ w + 6 >= TrackingStart(e)
  BY <1>1
<1> HIDE DEF shown, of
<1>6. WeeklyHours(e, 0, LastDay) = {row(w) : w \in shown}
  BY <1>2, <1>3
<1> HIDE DEF row
<1>7. \A w : w \in MetWeeks(e) <=> w \in shown /\ MetBy(logs, e, w)
  BY <1>4, <1>6 DEF MetWeeks
<1>8. QED
  BY <1>5, <1>7 DEF IsMet

PairedInv == LedgerInv /\ \A e \in Parttime, d \in Days : Paired(logs[e][d])

\* No step takes punches or a part-timer's minutes away, nor time back.
HoursGrow ==
    /\ Today <= Today' /\ Today \in Days /\ Today' \in Days
    /\ \A e \in Employees, d \in Days : logs[e][d] # {} => logs'[e][d] # {}
    /\ \A e \in Parttime, d \in Days : Worked(logs[e][d]) <= Worked(logs'[e][d])

LEMMA SameHours ==
    ASSUME PairedInv, LedgerInv', UNCHANGED logs, Today <= Today'
    PROVE  PairedInv' /\ HoursGrow
<1>1. Today \in Days /\ Today' \in Days
  BY DayOfMoment DEF PairedInv, LedgerInv, TypeOK, Today
<1>2. \A e \in Parttime, d \in Days : Worked(logs[e][d]) \in Nat
  BY WorkedNat DEF PairedInv, LedgerInv, TypeOK, Employees
<1>3. \A e \in Parttime, d \in Days : Worked(logs[e][d]) <= Worked(logs[e][d])
  BY <1>2
<1>4. QED
  BY <1>1, <1>3 DEF PairedInv, HoursGrow

LEMMA PunchHours ==
    ASSUME PairedInv, LedgerInv', NEW p \in MayPunch, Ingest(p[1], p[2], p[3])
    PROVE  PairedInv' /\ HoursGrow
<1> DEFINE e == p[1]
           d == p[2]
           t == p[3]
<1>1. p \in Employees \X Days \X (0..(DaySeconds - 1))
  BY CalendarAssumption
<1>2. <<e, d, t>> \in MayPunch /\ Ingest(e, d, t) /\ t \in 0..(DaySeconds - 1)
  BY <1>1
<1> HIDE DEF e, d, t
<1>3. IngestEffect(e, d, t)
  BY <1>2, IngestStep DEF PairedInv
<1>4. Today' = Today /\ Today \in Days /\ Today \in Nat
  <2>1. now' = now
    BY <1>3 DEF IngestEffect
  <2>2. Today \in Days
    BY DayOfMoment DEF PairedInv, LedgerInv, TypeOK, Today
  <2>3. QED
    BY <2>1, <2>2, CalendarFacts DEF Today
<1>5. ASSUME NEW f \in Employees, NEW x \in Days, <<f, x>> # <<e, d>>
      PROVE  logs'[f][x] = logs[f][x]
  BY <1>3, <1>5 DEF IngestEffect
<1>6. logs'[e][d] # {}
  BY <1>3 DEF IngestEffect
<1>7. ASSUME e \in Parttime
      PROVE  Paired(logs'[e][d]) /\ Worked(logs[e][d]) <= Worked(logs'[e][d])
  <2>1. d \in Days /\ RowsOk(e, d, logs[e][d]) /\ logs'[e][d] = RowsWith(e, t, logs[e][d])
    BY <1>3 DEF IngestEffect
  <2>2. Paired(logs[e][d]) /\ logs[e][d] \subseteq LogRows /\ Distinct(logs[e][d])
    BY <1>7, <2>1 DEF PairedInv, RowsOk
  <2>3. QED
    BY <1>2, <1>7, <2>1, <2>2, PunchAddsMinutes
<1>8. \A f \in Parttime, x \in Days : Worked(logs[f][x]) \in Nat
  BY WorkedNat DEF PairedInv, LedgerInv, TypeOK, Employees
<1>9. ASSUME NEW f \in Parttime, NEW x \in Days
      PROVE  Paired(logs'[f][x]) /\ Worked(logs[f][x]) <= Worked(logs'[f][x])
  <2>1. CASE <<f, x>> = <<e, d>>
    BY <1>7, <2>1
  <2>2. CASE <<f, x>> # <<e, d>>
    <3>1. logs'[f][x] = logs[f][x]
      BY <1>5, <2>2 DEF Employees
    <3>2. QED
      BY <1>8, <3>1 DEF PairedInv
  <2>3. QED
    BY <2>1, <2>2
<1>10. ASSUME NEW f \in Employees, NEW x \in Days, logs[f][x] # {}
       PROVE  logs'[f][x] # {}
  BY <1>5, <1>6, <1>10
<1>11. QED
  BY <1>4, <1>9, <1>10 DEF PairedInv, HoursGrow

LEMMA HoursStep == PairedInv /\ [Next]_vars => PairedInv' /\ HoursGrow
<1> SUFFICES ASSUME PairedInv, [Next]_vars PROVE PairedInv' /\ HoursGrow
  OBVIOUS
<1>1. LedgerInv' /\ TypeOK
  BY LedgerStep DEF PairedInv, LedgerInv
<1>2. Today \in Nat
  BY <1>1, DayOfMoment, CalendarFacts DEF TypeOK, Today
<1>3. CASE Tick
  <2>1. UNCHANGED logs /\ Today <= Today'
    BY <1>1, <1>3, NextMoment DEF Tick
  <2>2. QED
    BY <1>1, <2>1, SameHours
<1>4. CASE \E p \in MayPunch : Ingest(p[1], p[2], p[3])
  BY <1>1, <1>4, PunchHours
<1>5. CASE DailyPass
  <2>1. UNCHANGED <<now, logs>>
    BY <1>5 DEF DailyPass
  <2>2. Today <= Today'
    BY <1>2, <2>1 DEF Today
  <2>3. QED
    BY <1>1, <2>1, <2>2, SameHours
<1>6. CASE \E s \in HolidaySettings : SaveHoliday(s[1], s[2])
  <2>1. UNCHANGED <<now, logs>>
    BY <1>6 DEF SaveHoliday
  <2>2. Today <= Today'
    BY <1>2, <2>1 DEF Today
  <2>3. QED
    BY <1>1, <2>1, <2>2, SameHours
<1>7. CASE UNCHANGED vars
  <2>1. UNCHANGED <<now, logs>>
    BY <1>7 DEF vars
  <2>2. Today <= Today'
    BY <1>2, <2>1 DEF Today
  <2>3. QED
    BY <1>1, <2>1, <2>2, SameHours
<1>8. QED
  BY <1>3, <1>4, <1>5, <1>6, <1>7 DEF Next

LEMMA PairedInit == Init => PairedInv
<1>1. Init => LedgerInv
  BY InitLedger
<1>2. Init => \A e \in Parttime, d \in Days : logs[e][d] = {}
  BY DEF Init, Employees
<1>3. QED
  BY <1>1, <1>2 DEF PairedInv, Paired

LEMMA PairedAlways == Spec => []PairedInv
BY PairedInit, HoursStep, PTL DEF Spec

\* A later first punch moves the start of tracking to no later day.
LEMMA StartEarlier ==
    ASSUME TypeOK, TypeOK', HoursGrow, NEW e \in Employees, NEW d \in Days, logs[e][d] # {}
    PROVE  /\ TrackingStart(e)' <= TrackingStart(e)
           /\ TrackingStart(e) \in Nat /\ TrackingStart(e)' \in Nat
<1>1. Recorded \subseteq Recorded' /\ Recorded # {}
  BY DEF Recorded, HoursGrow
<1>2. SystemStart = StartOf(Recorded, Today) /\ Recorded \subseteq Days
  BY SystemStartIs
<1>3. SystemStart' = StartOf(Recorded', Today') /\ Recorded' \subseteq Days
  BY DEF SystemStart, StartOf, Recorded
<1>4. StartOf(Recorded, Today) \in Recorded
  BY <1>1, <1>2, StartFacts DEF HoursGrow
<1> DEFINE R == Recorded'
           t == Today'
<1>5. R \subseteq Days /\ R # {} /\ t \in Days /\ StartOf(Recorded, Today) \in R
  BY <1>1, <1>3, <1>4 DEF HoursGrow
<1>6. SystemStart' = StartOf(R, t)
  BY <1>3
<1> HIDE DEF R, t
<1>7. StartOf(R, t) \in R /\ \A x \in R : StartOf(R, t) <= x
  BY <1>5, StartFacts
<1>8. SystemStart' <= SystemStart /\ SystemStart' \in Days /\ SystemStart \in Days
  BY <1>2, <1>4, <1>5, <1>6, <1>7
<1>9. Floor[e] \in Nat
  BY StartNat
<1>10. SystemStart' \in Nat /\ SystemStart \in Nat
  BY <1>8, CalendarFacts
<1>11. QED
  BY <1>8, <1>9, <1>10 DEF TrackingStart

LEMMA MetStep ==
    ASSUME PairedInv, [Next]_vars, NEW e \in Parttime, NEW w, IsMet(e, w)
    PROVE  IsMet(e, w)'
<1>1. PairedInv' /\ HoursGrow /\ e \in Employees
  BY HoursStep DEF Employees
<1>2. TypeOK /\ TypeOK'
  BY <1>1 DEF PairedInv, LedgerInv
<1>3. PICK x \in Days : w = WeekOf(x)
  BY DEF IsMet
<1>4. w \in Int
  BY <1>3, CalendarFacts, WeekFacts
<1>5. w <= Today'
  BY <1>1, <1>4, CalendarFacts DEF IsMet, HoursGrow
<1>6. MetBy(logs', e, w)
  <2> DEFINE lg == logs
             more == logs'
  <2>1. \A d \in Days : /\ Worked(lg[e][d]) \in Nat /\ Worked(more[e][d]) \in Nat
                        /\ Worked(lg[e][d]) <= Worked(more[e][d])
                        /\ lg[e][d] # {} => more[e][d] # {}
    <3> SUFFICES ASSUME NEW d \in Days
                 PROVE  /\ Worked(lg[e][d]) \in Nat /\ Worked(more[e][d]) \in Nat
                        /\ Worked(lg[e][d]) <= Worked(more[e][d])
                        /\ lg[e][d] # {} => more[e][d] # {}
      OBVIOUS
    <3>1. lg[e][d] \subseteq LogRows /\ more[e][d] \subseteq LogRows
      BY <1>1, <1>2 DEF TypeOK
    <3>2. Worked(lg[e][d]) <= Worked(more[e][d]) /\ (lg[e][d] # {} => more[e][d] # {})
      BY <1>1 DEF HoursGrow
    <3> HIDE DEF lg, more
    <3>3. QED
      BY <3>1, <3>2, WorkedNat
  <2>2. MetBy(lg, e, w)
    BY DEF IsMet
  <2> HIDE DEF lg, more
  <2>3. MetBy(more, e, w)
    BY <2>1, <2>2, WeekGrows
  <2>4. QED
    BY <2>3 DEF more
<1>7. w + 6 >= TrackingStart(e)'
  <2>1. MetBy(logs, e, w) /\ w + 6 >= TrackingStart(e)
    BY DEF IsMet
  <2>2. PICK d \in Days : logs[e][d] # {}
    BY <2>1, MetWeekHasDay
  <2>3. /\ TrackingStart(e)' <= TrackingStart(e)
        /\ TrackingStart(e) \in Nat /\ TrackingStart(e)' \in Nat
    BY <1>1, <1>2, <2>2, StartEarlier
  <2>4. QED
    BY <1>4, <2>1, <2>3
<1>8. QED
  BY <1>3, <1>5, <1>6, <1>7 DEF IsMet

LEMMA MetWeeksNext == (TypeOK => \A e \in Parttime : \A w : w \in MetWeeks(e) <=> IsMet(e, w))'
BY MetWeeksAre, PTL

\* A week once met stays met: a punch only moves a day's first moment earlier or
\* its last one later, and the start of tracking only moves back.
THEOREM MetWeeksStayMet == Spec => WeekMetStays
<1>1. ASSUME PairedInv, [Next]_vars
      PROVE  \A e \in Parttime : MetWeeks(e) \subseteq MetWeeks(e)'
  <2> SUFFICES ASSUME NEW e \in Parttime, NEW w \in MetWeeks(e) PROVE w \in MetWeeks(e)'
    OBVIOUS
  <2>1. TypeOK /\ TypeOK'
    BY <1>1, HoursStep DEF PairedInv, LedgerInv
  <2>2. IsMet(e, w)
    BY <2>1, MetWeeksAre
  <2>3. IsMet(e, w)'
    BY <1>1, <2>2, MetStep
  <2>4. QED
    BY <2>1, <2>3, MetWeeksNext
<1>2. PairedInv /\ [Next]_vars =>
        [\A e \in Parttime :
            LET Met == {w.week : w \in {x \in WeeklyHours(e, 0, LastDay) : x.status = "MET"}}
            IN  Met \subseteq Met']_vars
  BY <1>1 DEF MetWeeks
<1>3. QED
  BY <1>2, PairedAlways, PTL DEF Spec, WeekMetStays

----------------------------------------------------------------------------
(* The sessions attended, as punches are read late.                        *)

LEMMA DayHasSeconds == DaySeconds - 1 \in Nat
BY DEF DaySeconds

\* Rows of the ledger attend the sessions they have an IN and an OUT of.
LEMMA AttendedIs ==
    ASSUME NEW rows, \A r \in rows : r.at \in 0..(DaySeconds - 1), NEW s \in Sessions
    PROVE  s \in Attended(rows) <=> Whole(rows, InType(s), OutType(s))
<1>1. DaySeconds - 1 \in Nat
  BY DayHasSeconds
<1>2. /\ DayLogs(rows)[InType(s)] # NoTime <=> Labelled(rows, InType(s))
      /\ DayLogs(rows)[OutType(s)] # NoTime <=> Labelled(rows, OutType(s))
  BY <1>1, SessionTypes, LoggedTypes
<1>3. QED
  BY <1>2 DEF Attended, SessionComplete, HasIn, HasOut, Whole

LEMMA SessionCounts ==
    ASSUME NEW A \in SUBSET Sessions, NEW B \in SUBSET Sessions,
           "AM" \in A => "AM" \in B,
           "PM" \in A => "PM" \in B \/ ("AM" \in B /\ "AM" \notin A)
    PROVE  Cardinality(A) <= Cardinality(B)
<1>1. IsFiniteSet(A) /\ IsFiniteSet(B) /\ Sessions = {"AM", "PM"}
  BY SessionsFinite, FS_Subset DEF Sessions
<1>2. CASE A \subseteq B
  BY <1>1, <1>2, FS_Subset
<1>3. CASE ~(A \subseteq B)
  <2>1. A = {"PM"} /\ {"AM"} \subseteq B
    BY <1>1, <1>3
  <2>2. Cardinality(A) = 1 /\ Cardinality({"AM"}) = 1 /\ IsFiniteSet({"AM"})
    BY <2>1, FS_Singleton
  <2>3. Cardinality({"AM"}) <= Cardinality(B)
    BY <1>1, <2>1, FS_Subset
  <2>4. QED
    BY <2>2, <2>3
<1>4. QED
  BY <1>2, <1>3

\* One punch more leaves no fewer sessions attended, where no stale row counts.
LEMMA PunchKeepsSessions ==
    ASSUME NEW e \in Employees, NEW rows, rows \subseteq LogRows, Distinct(rows),
           NEW t \in 0..(DaySeconds - 1), Attended(rows) \subseteq Attended(ByRules(e, rows))
    PROVE  Cardinality(Attended(rows)) <= Cardinality(Attended(RowsWith(e, t, rows)))
<1> DEFINE S == {r.at : r \in rows}
           T == TimesWith(t, rows)
           labels == LabelsOf(e, T)
           more == RowsWith(e, t, rows)
           before == ByRules(e, rows)
<1>1. S \subseteq 0..(DaySeconds - 1) /\ T \subseteq 0..(DaySeconds - 1) /\ S \subseteq T
      /\ DaySeconds - 1 \in Nat
  <2>1. DaySeconds - 1 \in Nat
    BY DEF DaySeconds
  <2>2. \A r \in rows : r.at \in 0..(DaySeconds - 1)
    BY RowFields
  <2>3. QED
    BY <2>1, <2>2 DEF TimesWith
<1>2. before = LabelsOf(e, S)
  BY DEF ByRules, LabelsOf
<1>3. more = Stored(rows, labels)
  BY DEF RowsWith
<1> HIDE DEF S, T, labels, more, before
<1>4. WellLabelled(before, S) /\ WellLabelled(labels, T)
  BY <1>1, <1>2, LabelsWell DEF labels
<1>5. /\ \A l \in before : l.at \in 0..(DaySeconds - 1)
      /\ \A l \in labels : l.at \in 0..(DaySeconds - 1)
  BY <1>1, <1>4 DEF WellLabelled
<1>6. more \subseteq LogRows
  BY <1>1, <1>3, <1>4, StoredRows
<1>7. \A r \in more : r.at \in 0..(DaySeconds - 1)
  BY <1>6, RowFields
<1>8. \A type : Labelled(labels, type) => Labelled(more, type)
  <2>1. \A l \in labels : Row(l.at, l.type) \in more /\ Row(l.at, l.type).type = l.type
    BY <1>3, RowFields DEF Stored
  <2>2. QED
    BY <2>1 DEF Labelled
<1>9. \A s \in Sessions : Whole(labels, InType(s), OutType(s)) => s \in Attended(more)
  BY <1>7, <1>8, AttendedIs DEF Whole
<1>10. \A s \in Attended(rows) : s \in Sessions /\ Whole(before, InType(s), OutType(s))
  <2>1. \A s \in Attended(rows) : s \in Sessions /\ s \in Attended(before)
    BY DEF Attended, before
  <2>2. QED
    BY <1>5, <2>1, AttendedIs
<1>11. CASE e \in Fulltime
  <2>1. before = AssignFulltimePunches(S, Sched, NoTime)
        /\ labels = AssignFulltimePunches(T, Sched, NoTime)
    BY <1>2, <1>11 DEF labels, LabelsOf, ClassifyDay
  <2>2. /\ \A s \in Attended(rows) : s \in Sessions /\ Attends(S, Sched, NoTime, s)
        /\ \A s \in Sessions : Attends(T, Sched, NoTime, s) => s \in Attended(more)
    BY <1>9, <1>10, <2>1 DEF Attends
  <2>3. Punches(T) /\ IsSchedule(Sched)
    BY <1>1, CalendarAssumption DEF Punches, IsSchedule
  <2>4. /\ Attends(S, Sched, NoTime, "AM") => Attends(T, Sched, NoTime, "AM")
        /\ Attends(S, Sched, NoTime, "PM") =>
             \/ Attends(T, Sched, NoTime, "PM")
             \/ Attends(T, Sched, NoTime, "AM") /\ ~Attends(S, Sched, NoTime, "AM")
    BY <1>1, <2>3, LatePunchesKeepSessions
  <2>5. "AM" \in Sessions /\ "PM" \in Sessions
    BY DEF Sessions
  <2>6. Attended(rows) \in SUBSET Sessions /\ Attended(more) \in SUBSET Sessions
    BY DEF Attended
  <2>7. /\ "AM" \in Attended(rows) => "AM" \in Attended(more)
        /\ "PM" \in Attended(rows) =>
             "PM" \in Attended(more) \/ ("AM" \in Attended(more) /\ "AM" \notin Attended(rows))
    BY <2>2, <2>4, <2>5
  <2>8. QED
    BY <2>6, <2>7, SessionCounts DEF more
<1>12. CASE e \notin Fulltime
  <2>1. before = AssignParttimePunches(S)
    BY <1>2, <1>12 DEF LabelsOf, ClassifyDay
  <2>2. \A s \in Sessions : ~Labelled(before, InType(s))
    BY <2>1, GroupHasNoOther DEF AssignParttimePunches, InType, Sessions
  <2>3. Attended(rows) = {}
    BY <1>10, <2>2 DEF Whole
  <2>4. Cardinality(Attended(more)) \in Nat
    <3>1. Attended(more) \subseteq Sessions
      BY DEF Attended
    <3>2. QED
      BY <3>1, SessionsFinite, FS_Subset, FS_CardinalityType
  <2>5. QED
    BY <2>3, <2>4, FS_EmptySet DEF more
<1>13. QED
  BY <1>11, <1>12

\* What a day's punches attend, when one more of them is read.
KeepsSessions(e, rows, more) ==
    /\ Attended(rows) \subseteq Attended(ByRules(e, rows))
         => Cardinality(Attended(rows)) <= Cardinality(Attended(more))
    /\ e \in Parttime /\ DayLogs(rows)["OUT"] # NoTime => DayLogs(more)["OUT"] # NoTime

LEMMA SessionsStep ==
    ASSUME PairedInv, [Next]_vars, NEW e \in Employees, NEW d \in Days,
           logs'[e][d] # logs[e][d]
    PROVE  KeepsSessions(e, logs[e][d], logs'[e][d])
<1>1. PICK p \in MayPunch : Ingest(p[1], p[2], p[3])
  BY DEF Next, Tick, DailyPass, SaveHoliday, vars
<1>2. p \in Employees \X Days \X (0..(DaySeconds - 1))
  BY CalendarAssumption
<1> DEFINE f == p[1]
           x == p[2]
           t == p[3]
<1>3. <<f, x, t>> \in MayPunch /\ Ingest(f, x, t) /\ t \in 0..(DaySeconds - 1)
  BY <1>1, <1>2
<1> HIDE DEF f, x, t
<1>4. IngestEffect(f, x, t)
  BY <1>3, IngestStep DEF PairedInv
<1>5. f = e /\ x = d
  BY <1>4 DEF IngestEffect
<1>6. RowsOk(e, d, logs[e][d]) /\ logs'[e][d] = RowsWith(e, t, logs[e][d])
  BY <1>4, <1>5 DEF IngestEffect
<1>7. logs[e][d] \subseteq LogRows /\ Distinct(logs[e][d])
  BY <1>6 DEF RowsOk
<1>8. ASSUME Attended(logs[e][d]) \subseteq Attended(ByRules(e, logs[e][d]))
      PROVE  Cardinality(Attended(logs[e][d])) <= Cardinality(Attended(logs'[e][d]))
  BY <1>3, <1>6, <1>7, <1>8, PunchKeepsSessions
<1>9. ASSUME e \in Parttime, OutOf(logs[e][d]) # NoTime
      PROVE  OutOf(logs'[e][d]) # NoTime
  <2>1. Paired(logs[e][d])
    BY <1>9 DEF PairedInv
  <2>2. QED
    BY <1>3, <1>6, <1>7, <1>9, <2>1, PunchAddsMinutes
<1>10. QED
  BY <1>8, <1>9 DEF KeepsSessions, OutOf

\* A punch read late may turn an afternoon attended into a morning attended, but
\* where no stale row counts it never leaves the employee with fewer sessions
\* attended, nor a part-timer's complete day incomplete.
THEOREM SessionsNeverLost == Spec => NoFewerSessions
<1>1. PairedInv /\ [Next]_vars =>
        [\A e \in Employees, d \in Days :
           logs'[e][d] # logs[e][d] =>
             /\ Attended(logs[e][d]) \subseteq Attended(ByRules(e, logs[e][d]))
                  => Cardinality(Attended(logs[e][d])) <= Cardinality(Attended(logs'[e][d]))
             /\ e \in Parttime /\ DayLogs(logs[e][d])["OUT"] # NoTime
                  => DayLogs(logs'[e][d])["OUT"] # NoTime]_vars
  BY SessionsStep DEF KeepsSessions
<1>2. QED
  BY <1>1, PairedAlways, PTL DEF Spec, NoFewerSessions
=============================================================================

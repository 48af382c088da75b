--------------------------- MODULE Filtered_proofs ---------------------------
(***************************************************************************)
(* What is known of a filtered list: it has the elements that pass, no     *)
(* others, and none of them more often than before. The induction over the *)
(* length of the list is by its least counterexample.                      *)
(***************************************************************************)
EXTENDS Filtered, Integers, WellFoundedInduction, TLAPS

\* A set of natural numbers that has a member has a least one.
LEMMA Least ==
  ASSUME NEW T \in SUBSET Nat, T # {}
  PROVE  \E n \in T : \A m \in T : n <= m
<1> DEFINE R == OpToRel(<, Nat)
<1>1. IsWellFoundedOn(R, Nat) BY NatLessThanWellFounded
<1>2. PICK n \in T : \A m \in T : ~(<<m, n>> \in R)
  <2> HIDE DEF R
  <2> QED BY <1>1, WFMin
<1>3. \A m \in T : ~(m < n)
  BY <1>2 DEF OpToRel
<1> QED BY <1>3

(* f lists, for each n up to m, what passes of the first n elements.       *)
Selects(f, s, S, m) ==
  f = [n \in 0..m |->
        IF n = 0 THEN <<>> ELSE IF s[n] \in S THEN Append(f[n - 1], s[n]) ELSE f[n - 1]]

\* There is such a list for every beginning of a sequence.
LEMMA FilterExists ==
  ASSUME NEW s, NEW S, NEW m \in Nat
  PROVE  \E f : Selects(f, s, S, m)
<1> DEFINE T == {k \in Nat : ~\E f : Selects(f, s, S, k)}
<1>1. SUFFICES ASSUME T # {} PROVE FALSE
  OBVIOUS
<1>2. PICK k \in T : \A j \in T : k <= j
  <2>1. T \in SUBSET Nat OBVIOUS
  <2> HIDE DEF T
  <2> QED BY <1>1, <2>1, Least
<1>3. CASE k = 0
  <2>1. Selects([n \in 0..0 |-> <<>>], s, S, 0)
    BY DEF Selects
  <2> QED BY <1>2, <1>3, <2>1
<1>4. CASE k # 0
  <2>1. k \in Nat /\ k - 1 \in Nat
    BY <1>2, <1>4
  <2>2. k - 1 \notin T
    BY <1>2, <2>1
  <2>3. PICK f : Selects(f, s, S, k - 1)
    BY <2>1, <2>2
  <2>4. PICK g : g = [n \in 0..k |-> IF n < k THEN f[n]
                                      ELSE IF s[k] \in S THEN Append(f[k - 1], s[k]) ELSE f[k - 1]]
    OBVIOUS
  <2>5. Selects(g, s, S, k)
    <3>1. \A n \in 0..k : n < k => g[n] = f[n]
      BY <2>4
    <3>2. \A n \in 0..(k - 1) : f[n] = IF n = 0 THEN <<>> ELSE IF s[n] \in S THEN Append(f[n - 1], s[n]) ELSE f[n - 1]
      BY <2>3 DEF Selects
    <3>3. \A n \in 0..k : g[n] = IF n = 0 THEN <<>> ELSE IF s[n] \in S THEN Append(g[n - 1], s[n]) ELSE g[n - 1]
      BY <1>4, <2>1, <2>4, <3>1, <3>2
    <3> QED BY <2>4, <3>3 DEF Selects
  <2> QED BY <1>2, <2>5
<1> QED BY <1>3, <1>4

\* What Among lists is the last of them.
LEMMA AmongFilters ==
  ASSUME NEW T, NEW s \in Seq(T), NEW S
  PROVE  \E f : Selects(f, s, S, Len(s)) /\ Among(s, S) = f[Len(s)]
<1>1. Len(s) \in Nat OBVIOUS
<1>2. PICK f : Selects(f, s, S, Len(s)) BY <1>1, FilterExists
<1> DEFINE kept == CHOOSE g : Selects(g, s, S, Len(s))
<1>3. Selects(kept, s, S, Len(s)) BY <1>2
<1>4. Among(s, S) = kept[Len(s)]
  BY DEF Among, Selects
<1> QED BY <1>3, <1>4
(* t has what passes of the first n elements of s.                         *)
Passes(t, s, S, n) ==
  /\ \A k \in 1..n : s[k] \in S => \E m \in DOMAIN t : t[m] = s[k]
  /\ \A m \in DOMAIN t : \E k \in 1..n : s[k] \in S /\ t[m] = s[k]

Distinct(t) == \A m, n \in DOMAIN t : t[m] = t[n] => m = n

\* An element that is appended.
LEMMA Appended ==
  ASSUME NEW T, NEW t \in Seq(T), NEW e \in T
  PROVE  /\ Append(t, e) \in Seq(T) /\ DOMAIN Append(t, e) = 1..(Len(t) + 1) /\ DOMAIN t = 1..Len(t)
         /\ Append(t, e)[Len(t) + 1] = e /\ \A m \in DOMAIN t : Append(t, e)[m] = t[m]
OBVIOUS

\* One element more.
LEMMA PassesNext ==
  ASSUME NEW T, NEW s \in Seq(T), NEW S, NEW n \in 1..Len(s), NEW t \in Seq(T),
         Passes(t, s, S, n - 1), Distinct(s) => Distinct(t),
         NEW u, u = IF s[n] \in S THEN Append(t, s[n]) ELSE t
  PROVE  u \in Seq(T) /\ Passes(u, s, S, n) /\ (Distinct(s) => Distinct(u))
<1>1. DOMAIN s = 1..Len(s) /\ s[n] \in T /\ n \in Nat
  OBVIOUS
<1>2. \A k \in 1..n : k \in 1..(n - 1) \/ k = n
  BY <1>1
<1>3. CASE s[n] \notin S
  BY <1>1, <1>2, <1>3 DEF Passes
<1>4. CASE s[n] \in S
  <2>1. u = Append(t, s[n]) BY <1>4
  <2>2. PICK l : l = Len(t) + 1 OBVIOUS
  <2>3. /\ u \in Seq(T) /\ l \in DOMAIN u /\ u[l] = s[n]
        /\ \A m \in DOMAIN t : m \in DOMAIN u /\ u[m] = t[m]
        /\ \A m \in DOMAIN u : m = l \/ m \in DOMAIN t
    BY <1>1, <2>1, <2>2, Appended
  <2>4. ASSUME NEW k \in 1..n, s[k] \in S PROVE \E m \in DOMAIN u : u[m] = s[k]
    BY <1>2, <2>3, <2>4 DEF Passes
  <2>5. ASSUME NEW m \in DOMAIN u PROVE \E k \in 1..n : s[k] \in S /\ u[m] = s[k]
    <3>1. CASE m = l
      BY <1>1, <1>4, <2>3, <3>1
    <3>2. CASE m \in DOMAIN t
      <4>1. PICK k \in 1..(n - 1) : s[k] \in S /\ t[m] = s[k] BY <3>2 DEF Passes
      <4>2. k \in 1..n BY <1>1
      <4> QED BY <2>3, <3>2, <4>1, <4>2
    <3> QED BY <2>3, <3>1, <3>2
  <2>6. ASSUME Distinct(s) PROVE Distinct(u)
    <3>1. ASSUME NEW m \in DOMAIN t PROVE t[m] # s[n]
      <4>1. PICK k \in 1..(n - 1) : t[m] = s[k] BY DEF Passes
      <4>2. k \in DOMAIN s /\ n \in DOMAIN s /\ k # n BY <1>1
      <4> QED BY <2>6, <4>1, <4>2 DEF Distinct
    <3>2. \A a, b \in DOMAIN t : t[a] = t[b] => a = b BY <2>6 DEF Distinct
    <3>3. ASSUME NEW a \in DOMAIN u, NEW b \in DOMAIN u, u[a] = u[b] PROVE a = b
      BY <2>3, <3>1, <3>2, <3>3
    <3> QED BY <3>3 DEF Distinct
  <2> QED BY <2>3, <2>4, <2>5, <2>6 DEF Passes
<1> QED BY <1>3, <1>4

\* A filtered list is a list of what passes, and distinct if all were.
LEMMA AmongPasses ==
  ASSUME NEW T, NEW s \in Seq(T), NEW S
  PROVE  /\ Among(s, S) \in Seq(T) /\ Passes(Among(s, S), s, S, Len(s))
         /\ Distinct(s) => Distinct(Among(s, S))
<1>1. PICK f : Selects(f, s, S, Len(s)) /\ Among(s, S) = f[Len(s)]
  BY AmongFilters
<1> DEFINE Good(n) == f[n] \in Seq(T) /\ Passes(f[n], s, S, n) /\ (Distinct(s) => Distinct(f[n]))
<1> DEFINE Bad == {n \in 0..Len(s) : ~Good(n)}
<1>2. SUFFICES ASSUME Bad # {} PROVE FALSE
  BY <1>1
<1>3. PICK n \in Bad : \A m \in Bad : n <= m
  <2>1. Bad \in SUBSET Nat OBVIOUS
  <2> HIDE DEF Bad
  <2> QED BY <1>2, <2>1, Least
<1>4. CASE n = 0
  <2>1. f[0] = <<>> BY <1>1 DEF Selects
  <2>2. Good(0)
    BY <2>1 DEF Passes, Distinct
  <2> QED BY <1>3, <1>4, <2>2
<1>5. CASE n # 0
  <2>1. n \in 1..Len(s) /\ n - 1 \in 0..Len(s) /\ ~(n <= n - 1)
    BY <1>3, <1>5
  <2>2. n - 1 \notin Bad BY <1>3, <2>1
  <2>3. Good(n - 1) BY <2>1, <2>2
  <2>4. f[n] = IF s[n] \in S THEN Append(f[n - 1], s[n]) ELSE f[n - 1]
    BY <1>1, <1>5, <2>1 DEF Selects
  <2>5. Good(n)
    BY <2>1, <2>3, <2>4, PassesNext
  <2> QED BY <1>3, <2>5
<1> QED BY <1>4, <1>5
=============================================================================

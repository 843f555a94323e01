-------------------------- MODULE SelectionProofs --------------------------
(***************************************************************************)
(* What selecting elements from a sequence preserves. The recursive        *)
(* function of Select is shown to exist, and what it computes is found, by *)
(* induction: in the form of the smallest natural number for which a       *)
(* statement fails.                                                        *)
(***************************************************************************)
EXTENDS Selection, WellFoundedInduction, TLAPS

Less == {ss \in Nat \X Nat : ss[1] < ss[2]}

LEMMA LessWellFounded == IsWellFoundedOn(Less, Nat)
BY NatLessThanWellFounded, Zenon DEF OpToRel, Less

\* Of natural numbers there is a least.
LEMMA Least ==
  ASSUME NEW T, T \subseteq Nat, T # {}
  PROVE  \E m \in T : \A n \in T : m <= n
<1>1. \E x \in T : \A y \in T : ~ (<<y, x>> \in Less)
  BY LessWellFounded, WFMin, Zenon
<1>2. \A a, b \in Nat : a < b => <<a, b>> \in Less
  BY DEF Less
<1>3. \E x \in T : \A y \in T : ~ (y < x)
  BY <1>1, <1>2, Zenon
<1> QED
  BY <1>3

\* What is false of 0 but not of the successor of a number of which it is true
\* is true of none: induction, for a set of counterexamples.
LEMMA Induction ==
  ASSUME NEW T, 0 \in T, \A n \in Nat : n \in T => n + 1 \in T
  PROVE  Nat \subseteq T
<1> DEFINE C == Nat \ T
<1>1. SUFFICES ASSUME C # {} PROVE FALSE
  OBVIOUS
<1>2. C \subseteq Nat
  OBVIOUS
<1>3. PICK m \in C : \A n \in C : m <= n
  <2> HIDE DEF C
  <2> QED BY <1>1, <1>2, Least
<1>4. m \in Nat /\ m # 0 /\ m - 1 \in Nat
  OBVIOUS
<1>5. m - 1 \in T
  BY <1>3, <1>4
<1> QED
  BY <1>4, <1>5

\* The recursion of Select, as far as its first n elements.
Chooses(f, s, T, n) ==
  f = [k \in 0..n |-> IF k = 0 THEN <<>>
                      ELSE IF s[k] \in T THEN Append(f[k - 1], s[k]) ELSE f[k - 1]]

LEMMA ChoosesExists ==
  ASSUME NEW s, NEW T, NEW n \in Nat
  PROVE  \E f : Chooses(f, s, T, n)
<1> DEFINE Good == {m \in Nat : \E f : Chooses(f, s, T, m)}
<1>1. 0 \in Good
  <2> DEFINE f == [k \in 0..0 |-> <<>>]
  <2>1. Chooses(f, s, T, 0)
    BY DEF Chooses
  <2> HIDE DEF f
  <2> QED BY <2>1
<1>2. ASSUME NEW m \in Nat, m \in Good
      PROVE  m + 1 \in Good
  <2>1. PICK f : Chooses(f, s, T, m)
    BY <1>2
  <2> DEFINE next == IF s[m + 1] \in T THEN Append(f[m], s[m + 1]) ELSE f[m]
             g == [k \in 0..(m + 1) |-> IF k = m + 1 THEN next ELSE f[k]]
             body(k) == IF k = 0 THEN <<>>
                        ELSE IF s[k] \in T THEN Append(g[k - 1], s[k]) ELSE g[k - 1]
  <2>2. ASSUME NEW k \in 0..(m + 1) PROVE g[k] = body(k)
    <3>1. CASE k = m + 1
      <4>1. g[k - 1] = f[m] /\ g[k] = next /\ k # 0
        BY <3>1
      <4> QED BY <4>1, <3>1
    <3>2. CASE k # m + 1
      <4>1. k \in 0..m
        BY <3>2
      <4>2. f[k] = IF k = 0 THEN <<>>
                   ELSE IF s[k] \in T THEN Append(f[k - 1], s[k]) ELSE f[k - 1]
        BY <2>1, <4>1, Zenon DEF Chooses
      <4>3. g[k] = f[k]
        BY <3>2
      <4>4. k # 0 => g[k - 1] = f[k - 1]
        BY <4>1
      <4> HIDE DEF g
      <4> QED BY <4>2, <4>3, <4>4
    <3> QED BY <3>1, <3>2
  <2>3. g = [k \in 0..(m + 1) |-> g[k]]
    BY Zenon
  <2>4. g = [k \in 0..(m + 1) |-> body(k)]
    <3> HIDE DEF g
    <3>1. [k \in 0..(m + 1) |-> g[k]] = [k \in 0..(m + 1) |-> body(k)]
      BY <2>2, Zenon
    <3> QED BY <2>3, <3>1
  <2>5. Chooses(g, s, T, m + 1)
    BY <2>4 DEF Chooses
  <2> HIDE DEF g
  <2> QED BY <2>5
<1>3. Nat \subseteq Good
  <2> HIDE DEF Good
  <2> QED BY <1>1, <1>2, Induction
<1> QED
  BY <1>3

\* What is chosen from the first elements depends on no others.
LEMMA ChoosesAgree ==
  ASSUME NEW s, NEW t, NEW T, NEW m \in Nat, NEW n \in Nat, NEW f, NEW g,
         Chooses(f, s, T, m), Chooses(g, t, T, n),
         NEW p \in Nat, p <= m, p <= n, \A k \in 1..p : s[k] = t[k]
  PROVE  f[p] = g[p]
<1> DEFINE Good == {k \in Nat : k <= p => f[k] = g[k]}
<1>1. 0 \in Good
  <2>1. 0 \in 0..m /\ 0 \in 0..n
    OBVIOUS
  <2>2. f[0] = <<>> /\ g[0] = <<>>
    BY <2>1, Zenon DEF Chooses
  <2> QED BY <2>2
<1>2. ASSUME NEW k \in Nat, k \in Good
      PROVE  k + 1 \in Good
  <2>1. SUFFICES ASSUME k + 1 <= p PROVE f[k + 1] = g[k + 1]
    OBVIOUS
  <2>2. f[k] = g[k]
    BY <1>2, <2>1
  <2>3. k + 1 \in 0..m /\ k + 1 \in 0..n /\ s[k + 1] = t[k + 1] /\ k + 1 # 0 /\ (k + 1) - 1 = k
    BY <2>1
  <2>4. f[k + 1] = IF s[k + 1] \in T THEN Append(f[k], s[k + 1]) ELSE f[k]
    <3>1. f[k + 1] = IF k + 1 = 0 THEN <<>>
                     ELSE IF s[k + 1] \in T THEN Append(f[(k + 1) - 1], s[k + 1]) ELSE f[(k + 1) - 1]
      BY <2>3, Zenon DEF Chooses
    <3> QED BY <3>1, <2>3
  <2>5. g[k + 1] = IF t[k + 1] \in T THEN Append(g[k], t[k + 1]) ELSE g[k]
    <3>1. g[k + 1] = IF k + 1 = 0 THEN <<>>
                     ELSE IF t[k + 1] \in T THEN Append(g[(k + 1) - 1], t[k + 1]) ELSE g[(k + 1) - 1]
      BY <2>3, Zenon DEF Chooses
    <3> QED BY <3>1, <2>3
  <2> QED BY <2>2, <2>3, <2>4, <2>5
<1>3. Nat \subseteq Good
  <2> HIDE DEF Good
  <2> QED BY <1>1, <1>2, Induction
<1> QED
  BY <1>3

\* Select is what the recursion computes, whichever function satisfies it.
LEMMA SelectIs ==
  ASSUME NEW S, NEW s \in Seq(S), NEW T, NEW f, NEW n \in Nat, n >= Len(s), Chooses(f, s, T, n)
  PROVE  Select(s, T) = f[Len(s)]
<1>1. Len(s) \in Nat
  OBVIOUS
<1>2. PICK g : Chooses(g, s, T, Len(s))
  BY <1>1, ChoosesExists
<1> DEFINE sel == CHOOSE h : h = [k \in 0..Len(s) |->
                     IF k = 0 THEN <<>>
                     ELSE IF s[k] \in T THEN Append(h[k - 1], s[k]) ELSE h[k - 1]]
<1>3. Chooses(sel, s, T, Len(s))
  BY <1>2, Zenon DEF Chooses
<1>4. Select(s, T) = sel[Len(s)]
  BY Zenon DEF Select
<1> HIDE DEF sel
<1>5. sel[Len(s)] = f[Len(s)]
  BY <1>1, <1>3, ChoosesAgree
<1> QED
  BY <1>4, <1>5

-----------------------------------------------------------------------------
\* Select, an element at a time.

LEMMA SelectEmpty ==
  ASSUME NEW T
  PROVE  Select(<<>>, T) = <<>>
<1>1. <<>> \in Seq({}) /\ Len(<<>>) = 0 /\ 0 \in Nat /\ 0 >= Len(<<>>)
  OBVIOUS
<1>2. PICK f : Chooses(f, <<>>, T, 0)
  BY ChoosesExists
<1>3. Select(<<>>, T) = f[0]
  <2>1. Select(<<>>, T) = f[Len(<<>>)]
    BY <1>1, <1>2, SelectIs, Zenon
  <2> QED BY <1>1, <2>1
<1>4. f[0] = <<>>
  <2>1. 0 \in 0..0
    OBVIOUS
  <2> QED BY <1>2, <2>1, Zenon DEF Chooses
<1> QED
  BY <1>3, <1>4

LEMMA SelectAppend ==
  ASSUME NEW S, NEW s \in Seq(S), NEW e \in S, NEW T
  PROVE  Select(Append(s, e), T) = IF e \in T THEN Append(Select(s, T), e) ELSE Select(s, T)
<1> DEFINE t == Append(s, e)
           n == Len(s)
<1>1. /\ n \in Nat /\ t \in Seq(S) /\ Len(t) = n + 1 /\ t[n + 1] = e
      /\ \A k \in 1..n : s[k] = t[k]
  OBVIOUS
<1> HIDE DEF t, n
<1>2. PICK f : Chooses(f, t, T, n + 1)
  <2>1. n + 1 \in Nat
    BY <1>1
  <2> QED BY <2>1, ChoosesExists
<1>3. PICK g : Chooses(g, s, T, n)
  BY <1>1, ChoosesExists
<1>4. Select(t, T) = f[n + 1]
  <2>1. n + 1 \in Nat /\ n + 1 >= Len(t)
    BY <1>1
  <2> QED BY <1>1, <1>2, <2>1, SelectIs
<1>5. Select(s, T) = g[n]
  <2>1. n >= Len(s) /\ n = Len(s)
    BY <1>1 DEF n
  <2> QED BY <1>1, <1>3, <2>1, SelectIs
<1>6. f[n] = g[n]
  <2>1. n + 1 \in Nat /\ n <= n + 1 /\ n <= n /\ \A k \in 1..n : t[k] = s[k]
    BY <1>1
  <2> QED BY <1>1, <1>2, <1>3, <2>1, ChoosesAgree
<1>7. f[n + 1] = IF t[n + 1] \in T THEN Append(f[n], t[n + 1]) ELSE f[n]
  <2>1. n + 1 \in 0..(n + 1) /\ n + 1 # 0 /\ (n + 1) - 1 = n
    BY <1>1
  <2>2. f[n + 1] = IF n + 1 = 0 THEN <<>>
                   ELSE IF t[n + 1] \in T THEN Append(f[(n + 1) - 1], t[n + 1]) ELSE f[(n + 1) - 1]
    BY <1>2, <2>1, Zenon DEF Chooses
  <2> QED BY <2>1, <2>2
<1> QED
  BY <1>1, <1>4, <1>5, <1>6, <1>7 DEF t

-----------------------------------------------------------------------------
\* Sequences, taken apart and put together.

LEMMA LastAppended ==
  ASSUME NEW S, NEW s \in Seq(S), NEW n \in Nat, Len(s) = n + 1
  PROVE  \E t \in Seq(S), e \in S : s = Append(t, e) /\ Len(t) = n
<1> DEFINE t == [k \in 1..n |-> s[k]]
<1>1. s[n + 1] \in S /\ \A k \in 1..n : s[k] \in S
  OBVIOUS
<1>2. t \in Seq(S) /\ Len(t) = n
  BY <1>1
<1>3. s = Append(t, s[n + 1])
  BY <1>1, <1>2
<1> QED
  BY <1>1, <1>2, <1>3

LEMMA ConcatAppend ==
  ASSUME NEW S, NEW s \in Seq(S), NEW t \in Seq(S), NEW e \in S
  PROVE  s \o Append(t, e) = Append(s \o t, e)
OBVIOUS

LEMMA ConcatEmpty ==
  ASSUME NEW S, NEW s \in Seq(S)
  PROVE  s \o <<>> = s /\ <<>> \o s = s
OBVIOUS

LEMMA ConcatAssociative ==
  ASSUME NEW S, NEW s \in Seq(S), NEW t \in Seq(S), NEW u \in Seq(S)
  PROVE  (s \o t) \o u = s \o (t \o u)
OBVIOUS

LEMMA HeadTail ==
  ASSUME NEW S, NEW s \in Seq(S), s # <<>>
  PROVE  Head(s) \in S /\ Tail(s) \in Seq(S) /\ s = <<Head(s)>> \o Tail(s)
OBVIOUS

-----------------------------------------------------------------------------
\* Select, on whole sequences.

LEMMA SelectType ==
  ASSUME NEW S, NEW s \in Seq(S), NEW T
  PROVE  Select(s, T) \in Seq(S \intersect T)
<1> DEFINE Good == {n \in Nat : \A t \in Seq(S) : Len(t) = n => Select(t, T) \in Seq(S \intersect T)}
<1>1. 0 \in Good
  <2>1. \A t \in Seq(S) : Len(t) = 0 => t = <<>>
    OBVIOUS
  <2>2. Select(<<>>, T) = <<>> /\ <<>> \in Seq(S \intersect T)
    BY SelectEmpty
  <2> QED BY <2>1, <2>2
<1>2. ASSUME NEW n \in Nat, n \in Good
      PROVE  n + 1 \in Good
  <2>1. SUFFICES ASSUME NEW t \in Seq(S), Len(t) = n + 1
                 PROVE  Select(t, T) \in Seq(S \intersect T)
    OBVIOUS
  <2>2. PICK u \in Seq(S), e \in S : t = Append(u, e) /\ Len(u) = n
    BY <2>1, LastAppended
  <2>3. Select(u, T) \in Seq(S \intersect T)
    BY <1>2, <2>2
  <2>4. Select(t, T) = IF e \in T THEN Append(Select(u, T), e) ELSE Select(u, T)
    BY <2>2, SelectAppend
  <2> QED BY <2>3, <2>4
<1>3. Nat \subseteq Good
  <2> HIDE DEF Good
  <2> QED BY <1>1, <1>2, Induction
<1>4. Len(s) \in Nat
  OBVIOUS
<1> QED
  BY <1>3, <1>4

LEMMA SelectConcat ==
  ASSUME NEW S, NEW s \in Seq(S), NEW r \in Seq(S), NEW T
  PROVE  Select(s \o r, T) = Select(s, T) \o Select(r, T)
<1> DEFINE Good == {n \in Nat : \A t \in Seq(S) : Len(t) = n =>
                      Select(s \o t, T) = Select(s, T) \o Select(t, T)}
<1>0. \A t \in Seq(S) : Select(t, T) \in Seq(S)
  <2>1. SUFFICES ASSUME NEW t \in Seq(S) PROVE Select(t, T) \in Seq(S)
    OBVIOUS
  <2>2. Select(t, T) \in Seq(S \intersect T)
    BY SelectType
  <2> QED BY <2>2
<1>1. 0 \in Good
  <2>1. SUFFICES ASSUME NEW t \in Seq(S), Len(t) = 0
                 PROVE  Select(s \o t, T) = Select(s, T) \o Select(t, T)
    OBVIOUS
  <2>2. t = <<>>
    BY <2>1
  <2>3. s \o t = s
    BY <2>2, ConcatEmpty
  <2>4. Select(t, T) = <<>>
    BY <2>2, SelectEmpty
  <2>5. Select(s, T) \o <<>> = Select(s, T)
    BY <1>0, ConcatEmpty
  <2> QED BY <2>3, <2>4, <2>5
<1>2. ASSUME NEW n \in Nat, n \in Good
      PROVE  n + 1 \in Good
  <2>1. SUFFICES ASSUME NEW t \in Seq(S), Len(t) = n + 1
                 PROVE  Select(s \o t, T) = Select(s, T) \o Select(t, T)
    OBVIOUS
  <2>2. PICK u \in Seq(S), e \in S : t = Append(u, e) /\ Len(u) = n
    BY <2>1, LastAppended
  <2>3. Select(s \o u, T) = Select(s, T) \o Select(u, T)
    BY <1>2, <2>2
  <2>4. s \o u \in Seq(S)
    OBVIOUS
  <2>5. s \o t = Append(s \o u, e)
    BY <2>2, ConcatAppend
  <2>6. Select(t, T) = IF e \in T THEN Append(Select(u, T), e) ELSE Select(u, T)
    BY <2>2, SelectAppend
  <2>7. Select(Append(s \o u, e), T) =
          IF e \in T THEN Append(Select(s \o u, T), e) ELSE Select(s \o u, T)
    BY <2>4, SelectAppend
  <2>8. Select(s, T) \o Append(Select(u, T), e) = Append(Select(s, T) \o Select(u, T), e)
    BY <1>0, <2>2, ConcatAppend
  <2> QED BY <2>3, <2>5, <2>6, <2>7, <2>8
<1>3. Nat \subseteq Good
  <2> HIDE DEF Good
  <2> QED BY <1>1, <1>2, Induction
<1>4. Len(r) \in Nat
  OBVIOUS
<1> QED
  BY <1>3, <1>4

\* Selecting from a selection.
LEMMA SelectTwice ==
  ASSUME NEW S, NEW s \in Seq(S), NEW T, NEW U, \A e \in S : e \in U => e \in T
  PROVE  Select(Select(s, T), U) = Select(s, U)
<1> DEFINE Good == {n \in Nat : \A t \in Seq(S) : Len(t) = n =>
                      Select(Select(t, T), U) = Select(t, U)}
<1>1. 0 \in Good
  <2>1. \A t \in Seq(S) : Len(t) = 0 => t = <<>>
    OBVIOUS
  <2>2. Select(<<>>, T) = <<>> /\ Select(<<>>, U) = <<>>
    BY SelectEmpty
  <2> QED BY <2>1, <2>2
<1>2. ASSUME NEW n \in Nat, n \in Good
      PROVE  n + 1 \in Good
  <2>1. SUFFICES ASSUME NEW t \in Seq(S), Len(t) = n + 1
                 PROVE  Select(Select(t, T), U) = Select(t, U)
    OBVIOUS
  <2>2. PICK u \in Seq(S), e \in S : t = Append(u, e) /\ Len(u) = n
    BY <2>1, LastAppended
  <2>3. Select(Select(u, T), U) = Select(u, U)
    BY <1>2, <2>2
  <2>4. Select(t, T) = IF e \in T THEN Append(Select(u, T), e) ELSE Select(u, T)
    BY <2>2, SelectAppend
  <2>5. Select(t, U) = IF e \in U THEN Append(Select(u, U), e) ELSE Select(u, U)
    BY <2>2, SelectAppend
  <2>6. Select(u, T) \in Seq(S)
    <3>1. Select(u, T) \in Seq(S \intersect T)
      BY SelectType
    <3> QED BY <3>1
  <2>7. Select(Append(Select(u, T), e), U) =
          IF e \in U THEN Append(Select(Select(u, T), U), e) ELSE Select(Select(u, T), U)
    BY <2>6, SelectAppend
  <2>8. e \in U => e \in T
    BY <2>2
  <2> QED BY <2>3, <2>4, <2>5, <2>7, <2>8
<1>3. Nat \subseteq Good
  <2> HIDE DEF Good
  <2> QED BY <1>1, <1>2, Induction
<1>4. Len(s) \in Nat
  OBVIOUS
<1> QED
  BY <1>3, <1>4

\* Selecting the first element, and the others.
LEMMA SelectHead ==
  ASSUME NEW S, NEW s \in Seq(S), s # <<>>, NEW T
  PROVE  Select(s, T) = IF Head(s) \in T THEN <<Head(s)>> \o Select(Tail(s), T) ELSE Select(Tail(s), T)
<1>1. /\ Head(s) \in S /\ Tail(s) \in Seq(S) /\ s = <<Head(s)>> \o Tail(s)
      /\ <<Head(s)>> \in Seq(S) /\ <<>> \in Seq(S) /\ Append(<<>>, Head(s)) = <<Head(s)>>
  BY HeadTail
<1>2. Select(<<Head(s)>> \o Tail(s), T) = Select(<<Head(s)>>, T) \o Select(Tail(s), T)
  <2>1. \A u, r \in Seq(S) : Select(u \o r, T) = Select(u, T) \o Select(r, T)
    BY SelectConcat
  <2> QED BY <1>1, <2>1, Zenon
<1>3. Select(Append(<<>>, Head(s)), T) =
        IF Head(s) \in T THEN Append(Select(<<>>, T), Head(s)) ELSE Select(<<>>, T)
  BY <1>1, SelectAppend
<1>4. Select(<<>>, T) = <<>>
  BY SelectEmpty
<1>5. Select(Tail(s), T) \in Seq(S)
  <2>1. Select(Tail(s), T) \in Seq(S \intersect T)
    BY <1>1, SelectType
  <2> QED BY <2>1
<1>6. <<>> \o Select(Tail(s), T) = Select(Tail(s), T)
  BY <1>5, ConcatEmpty
<1> QED
  BY <1>1, <1>2, <1>3, <1>4, <1>6

\* What is all selected, and of what nothing is.
LEMMA SelectAll ==
  ASSUME NEW S, NEW s \in Seq(S), NEW T, S \subseteq T
  PROVE  Select(s, T) = s
<1> DEFINE Good == {n \in Nat : \A t \in Seq(S) : Len(t) = n => Select(t, T) = t}
<1>1. 0 \in Good
  <2>1. \A t \in Seq(S) : Len(t) = 0 => t = <<>>
    OBVIOUS
  <2>2. Select(<<>>, T) = <<>>
    BY SelectEmpty
  <2> QED BY <2>1, <2>2
<1>2. ASSUME NEW n \in Nat, n \in Good
      PROVE  n + 1 \in Good
  <2>1. SUFFICES ASSUME NEW t \in Seq(S), Len(t) = n + 1
                 PROVE  Select(t, T) = t
    OBVIOUS
  <2>2. PICK u \in Seq(S), e \in S : t = Append(u, e) /\ Len(u) = n
    BY <2>1, LastAppended
  <2>3. Select(u, T) = u
    BY <1>2, <2>2
  <2>4. Select(t, T) = IF e \in T THEN Append(Select(u, T), e) ELSE Select(u, T)
    BY <2>2, SelectAppend
  <2> QED BY <2>2, <2>3, <2>4
<1>3. Nat \subseteq Good
  <2> HIDE DEF Good
  <2> QED BY <1>1, <1>2, Induction
<1>4. Len(s) \in Nat
  OBVIOUS
<1> QED
  BY <1>3, <1>4

-----------------------------------------------------------------------------
\* The elements of a selection.

\* Sequences are reached from the empty one by appending.
LEMMA SequenceInduction ==
  ASSUME NEW S, NEW P, <<>> \in P,
         \A t \in Seq(S), e \in S : t \in P => Append(t, e) \in P
  PROVE  Seq(S) \subseteq P
<1> DEFINE Good == {n \in Nat : \A t \in Seq(S) : Len(t) = n => t \in P}
<1>1. 0 \in Good
  <2>1. \A t \in Seq(S) : Len(t) = 0 => t = <<>>
    OBVIOUS
  <2> QED BY <2>1
<1>2. ASSUME NEW n \in Nat, n \in Good
      PROVE  n + 1 \in Good
  <2>1. SUFFICES ASSUME NEW t \in Seq(S), Len(t) = n + 1
                 PROVE  t \in P
    OBVIOUS
  <2>2. PICK u \in Seq(S), e \in S : t = Append(u, e) /\ Len(u) = n
    BY <2>1, LastAppended
  <2> QED BY <1>2, <2>2
<1>3. Nat \subseteq Good
  <2> HIDE DEF Good
  <2> QED BY <1>1, <1>2, Induction
<1>4. \A t \in Seq(S) : Len(t) \in Nat
  OBVIOUS
<1> QED
  BY <1>3, <1>4

\* Only what is in the sequence matters to the choice.
LEMMA SelectAgree ==
  ASSUME NEW S, NEW s \in Seq(S), NEW T, NEW U, \A e \in S : e \in T <=> e \in U
  PROVE  Select(s, T) = Select(s, U)
<1> DEFINE P == {t \in Seq(S) : Select(t, T) = Select(t, U)}
<1>1. <<>> \in P
  <2>1. Select(<<>>, T) = <<>> /\ Select(<<>>, U) = <<>> /\ <<>> \in Seq(S)
    BY SelectEmpty
  <2> QED BY <2>1
<1>2. ASSUME NEW t \in Seq(S), NEW e \in S, t \in P
      PROVE  Append(t, e) \in P
  <2>1. /\ Select(Append(t, e), T) = IF e \in T THEN Append(Select(t, T), e) ELSE Select(t, T)
        /\ Select(Append(t, e), U) = IF e \in U THEN Append(Select(t, U), e) ELSE Select(t, U)
    BY SelectAppend
  <2>2. Append(t, e) \in Seq(S)
    OBVIOUS
  <2>3. (e \in T <=> e \in U) /\ Select(t, T) = Select(t, U)
    BY <1>2
  <2>4. Select(Append(t, e), T) = Select(Append(t, e), U)
    BY <2>1, <2>3, Zenon
  <2> QED BY <2>2, <2>4
<1>3. Seq(S) \subseteq P
  <2> HIDE DEF P
  <2> QED BY <1>1, <1>2, SequenceInduction
<1> QED
  BY <1>3

LEMMA AppendIs ==
  ASSUME NEW S, NEW s \in Seq(S), NEW e \in S
  PROVE  /\ Append(s, e) \in Seq(S) /\ Len(s) \in Nat /\ Len(Append(s, e)) = Len(s) + 1
         /\ DOMAIN s = 1..Len(s) /\ DOMAIN Append(s, e) = 1..(Len(s) + 1)
         /\ \A i \in 1..Len(s) : Append(s, e)[i] = s[i]
         /\ Append(s, e)[Len(s) + 1] = e
OBVIOUS

Members(s) == {s[i] : i \in DOMAIN s}

LEMMA AppendMembers ==
  ASSUME NEW S, NEW s \in Seq(S), NEW e \in S
  PROVE  Members(Append(s, e)) = Members(s) \union {e}
<1>1. /\ Len(s) \in Nat
      /\ DOMAIN s = 1..Len(s) /\ DOMAIN Append(s, e) = 1..(Len(s) + 1)
      /\ \A i \in 1..Len(s) : Append(s, e)[i] = s[i]
      /\ Append(s, e)[Len(s) + 1] = e
  BY AppendIs
<1> DEFINE t == Append(s, e)
<1>2. t[Len(s) + 1] = e /\ Len(s) + 1 \in DOMAIN t
  BY <1>1
<1>3. \A i \in DOMAIN s : i \in DOMAIN t /\ t[i] = s[i]
  BY <1>1
<1>4. \A i \in DOMAIN t : i \in DOMAIN s \/ i = Len(s) + 1
  BY <1>1
<1> HIDE DEF t
<1>5. Members(t) = Members(s) \union {e}
  BY <1>2, <1>3, <1>4 DEF Members
<1> QED
  BY <1>5 DEF t

LEMMA SelectMembers ==
  ASSUME NEW S, NEW s \in Seq(S), NEW T
  PROVE  Members(Select(s, T)) = Members(s) \intersect T
<1> DEFINE P == {t \in Seq(S) : Members(Select(t, T)) = Members(t) \intersect T}
<1>1. <<>> \in P
  <2>1. Select(<<>>, T) = <<>> /\ Members(<<>>) = {} /\ <<>> \in Seq(S)
    BY SelectEmpty DEF Members
  <2> QED BY <2>1
<1>2. ASSUME NEW t \in Seq(S), NEW e \in S, t \in P
      PROVE  Append(t, e) \in P
  <2>1. Select(Append(t, e), T) = IF e \in T THEN Append(Select(t, T), e) ELSE Select(t, T)
    BY SelectAppend
  <2>2. Select(t, T) \in Seq(S)
    <3>1. Select(t, T) \in Seq(S \intersect T)
      BY SelectType
    <3> QED BY <3>1
  <2>3. Members(Append(t, e)) = Members(t) \union {e}
    BY AppendMembers
  <2>4. Members(Append(Select(t, T), e)) = Members(Select(t, T)) \union {e}
    BY <2>2, AppendMembers
  <2>5. Append(t, e) \in Seq(S)
    OBVIOUS
  <2> QED BY <1>2, <2>1, <2>3, <2>4, <2>5
<1>3. Seq(S) \subseteq P
  <2> HIDE DEF P
  <2> QED BY <1>1, <1>2, SequenceInduction
<1> QED
  BY <1>3

\* No element occurs twice.
Distinct(s) == \A i, j \in DOMAIN s : s[i] = s[j] => i = j

LEMMA AppendDistinct ==
  ASSUME NEW S, NEW s \in Seq(S), NEW e \in S
  PROVE  Distinct(Append(s, e)) <=> Distinct(s) /\ e \notin Members(s)
<1>1. /\ Len(s) \in Nat
      /\ DOMAIN s = 1..Len(s) /\ DOMAIN Append(s, e) = 1..(Len(s) + 1)
      /\ \A i \in 1..Len(s) : Append(s, e)[i] = s[i]
      /\ Append(s, e)[Len(s) + 1] = e
  BY AppendIs
<1> DEFINE t == Append(s, e)
           n == Len(s) + 1
<1>2. t[n] = e /\ n \in DOMAIN t /\ n \notin DOMAIN s
  BY <1>1
<1>3. \A i \in DOMAIN s : i \in DOMAIN t /\ t[i] = s[i]
  BY <1>1
<1>4. \A i \in DOMAIN t : i \in DOMAIN s \/ i = n
  BY <1>1
<1> HIDE DEF t, n
<1>5. ASSUME Distinct(t) PROVE Distinct(s) /\ e \notin Members(s)
  BY <1>2, <1>3, <1>5 DEF Distinct, Members
<1>6. ASSUME Distinct(s), e \notin Members(s) PROVE Distinct(t)
  <2>1. \A i \in DOMAIN s : s[i] # e
    BY <1>6 DEF Members
  <2> QED BY <1>2, <1>3, <1>4, <1>6, <2>1 DEF Distinct
<1> QED
  BY <1>5, <1>6 DEF t

LEMMA SelectDistinct ==
  ASSUME NEW S, NEW s \in Seq(S), NEW T, Distinct(s)
  PROVE  Distinct(Select(s, T))
<1> DEFINE P == {t \in Seq(S) : Distinct(t) => Distinct(Select(t, T))}
<1>1. <<>> \in P
  <2>1. Select(<<>>, T) = <<>> /\ <<>> \in Seq(S)
    BY SelectEmpty
  <2> QED BY <2>1
<1>2. ASSUME NEW t \in Seq(S), NEW e \in S, t \in P
      PROVE  Append(t, e) \in P
  <2>1. Select(Append(t, e), T) = IF e \in T THEN Append(Select(t, T), e) ELSE Select(t, T)
    BY SelectAppend
  <2>2. Select(t, T) \in Seq(S)
    <3>1. Select(t, T) \in Seq(S \intersect T)
      BY SelectType
    <3> QED BY <3>1
  <2>3. Distinct(Append(t, e)) => Distinct(t) /\ e \notin Members(t)
    BY AppendDistinct
  <2>4. Distinct(Select(t, T)) /\ e \notin Members(Select(t, T)) => Distinct(Append(Select(t, T), e))
    BY <2>2, AppendDistinct
  <2>5. Members(Select(t, T)) = Members(t) \intersect T
    BY SelectMembers
  <2>6. Append(t, e) \in Seq(S)
    OBVIOUS
  <2> QED BY <1>2, <2>1, <2>3, <2>4, <2>5, <2>6
<1>3. Seq(S) \subseteq P
  <2> HIDE DEF P
  <2> QED BY <1>1, <1>2, SequenceInduction
<1> QED
  BY <1>3

-----------------------------------------------------------------------------
\* What becomes of each element.

Mapped(s, f) == [i \in DOMAIN s |-> f[s[i]]]

LEMMA MappedType ==
  ASSUME NEW S, NEW s \in Seq(S), NEW f, NEW R, \A x \in S : f[x] \in R
  PROVE  Mapped(s, f) \in Seq(R)
  BY DEF Mapped

LEMMA MappedIs ==
  ASSUME NEW S, NEW s \in Seq(S), NEW f
  PROVE  /\ DOMAIN Mapped(s, f) = DOMAIN s /\ Len(Mapped(s, f)) = Len(s)
         /\ \A i \in DOMAIN s : Mapped(s, f)[i] = f[s[i]]
<1>1. DOMAIN s = 1..Len(s) /\ Len(s) \in Nat
  OBVIOUS
<1> QED
  BY <1>1 DEF Mapped

LEMMA MappedAppend ==
  ASSUME NEW S, NEW s \in Seq(S), NEW e \in S, NEW f
  PROVE  Mapped(Append(s, e), f) = Append(Mapped(s, f), f[e])
<1> DEFINE t == Append(s, e)
           m == Mapped(s, f)
           R == {f[x] : x \in S}
<1>1. /\ t \in Seq(S) /\ Len(s) \in Nat /\ Len(t) = Len(s) + 1
      /\ DOMAIN s = 1..Len(s)
      /\ \A i \in 1..Len(s) : t[i] = s[i]
      /\ t[Len(s) + 1] = e
  BY AppendIs
<1>0. \A x \in S : f[x] \in R
  OBVIOUS
<1> HIDE DEF R
<1>2. m \in Seq(R) /\ Len(m) = Len(s) /\ \A i \in DOMAIN s : m[i] = f[s[i]]
  <2>1. Mapped(s, f) \in Seq(R)
    BY <1>0, MappedType
  <2>2. Len(Mapped(s, f)) = Len(s)
    BY MappedIs
  <2>3. \A i \in DOMAIN s : Mapped(s, f)[i] = f[s[i]]
    BY MappedIs
  <2> QED BY <2>1, <2>2, <2>3
<1> HIDE DEF t, m
<1>3. Mapped(t, f) \in Seq(R) /\ Len(Mapped(t, f)) = Len(t) /\ \A i \in DOMAIN t : Mapped(t, f)[i] = f[t[i]]
  <2>1. t \in Seq(S)
    BY <1>1
  <2>2. Mapped(t, f) \in Seq(R)
    BY <1>0, <2>1, MappedType
  <2>3. Len(Mapped(t, f)) = Len(t) /\ \A i \in DOMAIN t : Mapped(t, f)[i] = f[t[i]]
    BY <2>1, MappedIs
  <2> QED BY <2>2, <2>3
<1>4. DOMAIN t = 1..(Len(s) + 1) /\ f[e] \in R
  BY <1>0, <1>1
<1> DEFINE u == Append(m, f[e])
<1>5. u \in Seq(R) /\ Len(u) = Len(s) + 1 /\ u[Len(s) + 1] = f[e] /\ \A i \in 1..Len(s) : u[i] = m[i]
  <2>1. /\ Append(m, f[e]) \in Seq(R) /\ Len(m) \in Nat /\ Len(Append(m, f[e])) = Len(m) + 1
        /\ \A i \in 1..Len(m) : Append(m, f[e])[i] = m[i]
        /\ Append(m, f[e])[Len(m) + 1] = f[e]
    BY <1>2, <1>4, AppendIs
  <2> QED BY <1>2, <2>1
<1> HIDE DEF u
<1>6. \A i \in 1..(Len(s) + 1) : Mapped(t, f)[i] = u[i]
  <2>1. SUFFICES ASSUME NEW i \in 1..(Len(s) + 1) PROVE Mapped(t, f)[i] = u[i]
    OBVIOUS
  <2>2. CASE i = Len(s) + 1
    BY <1>1, <1>3, <1>4, <1>5, <2>2
  <2>3. CASE i # Len(s) + 1
    <3>1. i \in 1..Len(s) /\ i \in DOMAIN t /\ i \in DOMAIN s
      BY <1>1, <1>4, <2>3
    <3> QED BY <1>1, <1>2, <1>3, <1>5, <3>1
  <2> QED BY <2>2, <2>3
<1>7. Mapped(t, f) = u
  BY <1>1, <1>3, <1>5, <1>6
<1> QED
  BY <1>7 DEF t, m, u

\* Selecting what has been mapped is mapping what has been selected.
LEMMA SelectMapped ==
  ASSUME NEW S, NEW s \in Seq(S), NEW f, NEW T
  PROVE  Select(Mapped(s, f), T) = Mapped(Select(s, {x \in S : f[x] \in T}), f)
<1> DEFINE U == {x \in S : f[x] \in T}
           P == {t \in Seq(S) : Select(Mapped(t, f), T) = Mapped(Select(t, U), f)}
<1>1. <<>> \in P
  <2>1. /\ Select(<<>>, T) = <<>> /\ Select(<<>>, U) = <<>> /\ Mapped(<<>>, f) = <<>>
        /\ <<>> \in Seq(S)
    BY SelectEmpty DEF Mapped
  <2> QED BY <2>1
<1>2. ASSUME NEW t \in Seq(S), NEW e \in S, t \in P
      PROVE  Append(t, e) \in P
  <2>1. e \in U <=> f[e] \in T
    OBVIOUS
  <2>2. Select(Mapped(t, f), T) = Mapped(Select(t, U), f)
    BY <1>2
  <2> HIDE DEF U
  <2>3. Select(Append(t, e), U) = IF e \in U THEN Append(Select(t, U), e) ELSE Select(t, U)
    BY SelectAppend
  <2>4. Select(t, U) \in Seq(S)
    <3>1. Select(t, U) \in Seq(S \intersect U)
      BY SelectType
    <3> QED BY <3>1
  <2>5. Mapped(Append(t, e), f) = Append(Mapped(t, f), f[e])
    BY MappedAppend
  <2>6. Mapped(Append(Select(t, U), e), f) = Append(Mapped(Select(t, U), f), f[e])
    BY <2>4, MappedAppend
  <2> DEFINE R == {f[x] : x \in S}
  <2>7. Mapped(t, f) \in Seq(R) /\ f[e] \in R
    <3>1. \A x \in S : f[x] \in R
      OBVIOUS
    <3> HIDE DEF R
    <3> QED BY <3>1, MappedType
  <2> HIDE DEF R
  <2>8. Select(Append(Mapped(t, f), f[e]), T)
          = IF f[e] \in T THEN Append(Select(Mapped(t, f), T), f[e]) ELSE Select(Mapped(t, f), T)
    <3> DEFINE m == Mapped(t, f)
               y == f[e]
    <3>1. m \in Seq(R) /\ y \in R
      BY <2>7
    <3> HIDE DEF m, y
    <3>2. Select(Append(m, y), T) = IF y \in T THEN Append(Select(m, T), y) ELSE Select(m, T)
      BY <3>1, SelectAppend
    <3> QED BY <3>2 DEF m, y
  <2>9. Select(Mapped(Append(t, e), f), T) = Mapped(Select(Append(t, e), U), f)
    BY <2>1, <2>2, <2>3, <2>5, <2>6, <2>8
  <2>10. Append(t, e) \in Seq(S)
    OBVIOUS
  <2> QED BY <2>9, <2>10
<1>3. Seq(S) \subseteq P
  <2> HIDE DEF P
  <2> QED BY <1>1, <1>2, SequenceInduction
<1> QED
  BY <1>3
=============================================================================

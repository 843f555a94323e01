------------------------- MODULE PersistenceProofs -------------------------
(***************************************************************************)
(* Proofs about Persistence, for any devices, files, numbers of changes,   *)
(* failures and starts: what was stored stays stored until its device      *)
(* leaves, a rewrite keeps the lines of others, and an undisturbed last    *)
(* save leaves the files as the registry was.                              *)
(***************************************************************************)
EXTENDS Persistence, SelectionProofs, FiniteSetTheorems

-----------------------------------------------------------------------------
\* Lines.

\* No device has two lines.
DevicesOnce(s) == \A i, j \in DOMAIN s : s[i].dev # NoDevice /\ s[i].dev = s[j].dev => i = j

\* Of the devices of D those with a value have a line, which says it.
Lists(s, value, D) ==
  /\ s \in Seq(Line)
  /\ DevicesOnce(s)
  /\ \A k \in DOMAIN s : s[k].dev # NoDevice =>
       s[k].dev \in D /\ value[s[k].dev] > 0 /\ s[k].v = value[s[k].dev]
  /\ \A d \in D : value[d] > 0 => \E k \in DOMAIN s : s[k].dev = d

LEMMA Constants ==
  /\ MaxTime \in Nat /\ 2 <= MaxTime
  /\ IsFiniteSet(Device) /\ NoDevice \notin Device /\ NoDevice \notin Record
  /\ Time \subseteq Nat /\ 0 \in Time
  /\ Absent \notin Seq(Line) /\ Unknown \notin Seq(Line) /\ <<>> \in Seq(Line)
  BY PersistenceAssumption DEF Time

LEMMA LinesAre ==
  /\ \A l \in Line : l.dev \in Device \union {NoDevice} /\ l.v \in Time
  /\ \A d \in Device, v \in Time : [dev |-> d, v |-> v] \in Line
  /\ \A l \in Line : l \in OtherLine <=> l.dev = NoDevice
  /\ OtherLine \subseteq Line
  BY DEF Line, OtherLine

LEMMA Joined ==
  ASSUME NEW S, NEW s \in Seq(S), NEW t \in Seq(S)
  PROVE  /\ s \o t \in Seq(S) /\ Len(s) \in Nat /\ Len(t) \in Nat
         /\ DOMAIN s = 1..Len(s) /\ DOMAIN t = 1..Len(t)
         /\ DOMAIN (s \o t) = 1..(Len(s) + Len(t))
         /\ \A i \in 1..Len(s) : (s \o t)[i] = s[i]
         /\ \A i \in 1..Len(t) : (s \o t)[Len(s) + i] = t[i]
OBVIOUS

LEMMA ListsJoined ==
  ASSUME NEW s, NEW t, NEW value, NEW D, NEW E, D \subseteq Device, E \subseteq Device,
         D \intersect E = {}, Lists(s, value, D), Lists(t, value, E)
  PROVE  Lists(s \o t, value, D \union E)
<1> DEFINE u == s \o t
           n == Len(s)
<1>1. s \in Seq(Line) /\ t \in Seq(Line)
  BY DEF Lists
<1>2. /\ u \in Seq(Line) /\ n \in Nat /\ Len(t) \in Nat
      /\ DOMAIN s = 1..n /\ DOMAIN t = 1..Len(t) /\ DOMAIN u = 1..(n + Len(t))
      /\ \A i \in 1..n : u[i] = s[i]
      /\ \A i \in 1..Len(t) : u[n + i] = t[i]
  BY <1>1, Joined
<1> HIDE DEF u, n
<1>3. ASSUME NEW k \in DOMAIN u
      PROVE  \/ k \in DOMAIN s /\ u[k] = s[k]
             \/ k - n \in DOMAIN t /\ u[k] = t[k - n] /\ k \notin DOMAIN s /\ k = n + (k - n)
  <2>1. CASE k <= n
    BY <1>2, <1>3, <2>1
  <2>2. CASE ~(k <= n)
    <3>1. k - n \in 1..Len(t) /\ k = n + (k - n)
      BY <1>2, <1>3, <2>2
    <3>2. u[n + (k - n)] = t[k - n]
      BY <1>2, <3>1
    <3> QED BY <1>2, <1>3, <2>2, <3>1, <3>2
  <2> QED BY <2>1, <2>2
<1>4. /\ \A k \in DOMAIN s : k \in DOMAIN u /\ u[k] = s[k]
      /\ \A k \in DOMAIN t : n + k \in DOMAIN u /\ u[n + k] = t[k]
  BY <1>2
<1>5. \A k \in DOMAIN s : s[k].dev # NoDevice =>
        s[k].dev \in D /\ value[s[k].dev] > 0 /\ s[k].v = value[s[k].dev]
  BY DEF Lists
<1>6. \A k \in DOMAIN t : t[k].dev # NoDevice =>
        t[k].dev \in E /\ value[t[k].dev] > 0 /\ t[k].v = value[t[k].dev]
  BY DEF Lists
<1>7. ASSUME NEW i \in DOMAIN u, NEW j \in DOMAIN u, u[i].dev # NoDevice, u[i].dev = u[j].dev
      PROVE  i = j
  <2>1. CASE i \in DOMAIN s /\ j \in DOMAIN s
    BY <1>4, <1>7, <2>1 DEF Lists, DevicesOnce
  <2>2. CASE i \notin DOMAIN s /\ j \notin DOMAIN s
    <3>1. /\ i - n \in DOMAIN t /\ u[i] = t[i - n] /\ i = n + (i - n)
          /\ j - n \in DOMAIN t /\ u[j] = t[j - n] /\ j = n + (j - n)
      BY <1>3, <2>2
    <3>2. i - n = j - n
      BY <1>7, <3>1 DEF Lists, DevicesOnce
    <3> QED BY <3>1, <3>2
  <2>3. CASE i \in DOMAIN s /\ j \notin DOMAIN s
    <3>1. u[i].dev \in D
      BY <1>4, <1>5, <1>7, <2>3
    <3>2. j - n \in DOMAIN t /\ u[j] = t[j - n]
      BY <1>3, <2>3
    <3>3. u[j].dev \in E
      BY <1>6, <1>7, <3>2
    <3> QED BY <1>7, <3>1, <3>3
  <2>4. CASE i \notin DOMAIN s /\ j \in DOMAIN s
    <3>1. u[j].dev \in D
      BY <1>4, <1>5, <1>7, <2>4
    <3>2. i - n \in DOMAIN t /\ u[i] = t[i - n]
      BY <1>3, <2>4
    <3>3. u[i].dev \in E
      BY <1>6, <1>7, <3>2
    <3> QED BY <1>7, <3>1, <3>3
  <2> QED BY <2>1, <2>2, <2>3, <2>4
<1>8. \A k \in DOMAIN u : u[k].dev # NoDevice =>
        u[k].dev \in D \union E /\ value[u[k].dev] > 0 /\ u[k].v = value[u[k].dev]
  BY <1>3, <1>5, <1>6
<1>9. \A d \in D \union E : value[d] > 0 => \E k \in DOMAIN u : u[k].dev = d
  <2>1. \A d \in D : value[d] > 0 => \E k \in DOMAIN s : s[k].dev = d
    BY DEF Lists
  <2>2. \A d \in E : value[d] > 0 => \E k \in DOMAIN t : t[k].dev = d
    BY DEF Lists
  <2> QED BY <1>4, <2>1, <2>2
<1>10. Lists(u, value, D \union E)
  BY <1>2, <1>7, <1>8, <1>9 DEF Lists, DevicesOnce
<1> QED
  BY <1>10 DEF u

\* What a file that lists them says of the devices.
LEMMA ListsValue ==
  ASSUME NEW s, NEW value \in [Device -> Nat], Lists(s, value, Device), NEW d \in Device
  PROVE  ValueOf(s, d) = value[d]
<1> DEFINE at == {k \in DOMAIN s : s[k].dev = d}
<1>1. d # NoDevice
  BY Constants
<1>2. CASE value[d] > 0
  <2>1. PICK k \in DOMAIN s : s[k].dev = d
    BY <1>2 DEF Lists
  <2>2. at = {k}
    BY <1>1, <2>1 DEF Lists, DevicesOnce
  <2>3. k \in Nat
    BY <2>1 DEF Lists
  <2>4. (CHOOSE x \in at : \A j \in at : j <= x) = k
    BY <2>2, <2>3
  <2>5. s[k].v = value[d]
    BY <1>1, <2>1 DEF Lists
  <2> QED BY <2>2, <2>4, <2>5 DEF ValueOf
<1>3. CASE ~(value[d] > 0)
  <2>1. value[d] = 0
    BY <1>3
  <2>2. at = {}
    BY <1>1, <2>1 DEF Lists
  <2> QED BY <2>1, <2>2 DEF ValueOf
<1> QED
  BY <1>2, <1>3

\* A bounded set of numbers that is not empty has a greatest member.
LEMMA Greatest ==
  ASSUME NEW n \in Nat, NEW T, T \subseteq 1..n, T # {}
  PROVE  \E m \in T : \A k \in T : k <= m
<1> DEFINE U == {j \in Nat : \A k \in T : k <= j}
<1>1. U \subseteq Nat /\ n \in U
  OBVIOUS
<1>2. PICK m \in U : \A j \in U : m <= j
  <2> HIDE DEF U
  <2> QED BY <1>1, Least
<1>3. m \in T
  <2>1. SUFFICES ASSUME m \notin T PROVE FALSE
    OBVIOUS
  <2>2. m # 0
    <3>1. PICK k \in T : TRUE
      OBVIOUS
    <3>2. k \in 1..n /\ k <= m
      BY <1>2, <3>1
    <3> QED BY <3>2
  <2>3. m - 1 \in U
    BY <1>2, <2>1, <2>2
  <2> QED BY <1>2, <2>3
<1> QED
  BY <1>2, <1>3

LEMMA ValueIn ==
  ASSUME NEW s, NEW T, 0 \in T, s \in Seq([dev : Device \union {NoDevice}, v : T]), NEW d
  PROVE  ValueOf(s, d) \in T
<1> DEFINE at == {k \in DOMAIN s : s[k].dev = d}
<1>1. at \subseteq 1..Len(s) /\ Len(s) \in Nat
  OBVIOUS
<1>2. \A k \in DOMAIN s : s[k].v \in T
  <2> DEFINE R == [dev : Device \union {NoDevice}, v : T]
  <2>1. \A r \in R : r.v \in T
    OBVIOUS
  <2>2. s \in Seq(R)
    OBVIOUS
  <2> HIDE DEF R
  <2>3. \A k \in DOMAIN s : s[k] \in R
    BY <2>2
  <2> QED BY <2>1, <2>3
<1>3. CASE at = {}
  BY <1>3 DEF ValueOf
<1>4. CASE at # {}
  <2> HIDE DEF at
  <2>1. \E m \in at : \A k \in at : k <= m
    BY <1>1, <1>4, Greatest
  <2>2. (CHOOSE x \in at : \A j \in at : j <= x) \in at
    BY <2>1
  <2>3. s[CHOOSE x \in at : \A j \in at : j <= x].v \in T
    BY <1>2, <2>2 DEF at
  <2> QED BY <1>4, <2>3 DEF ValueOf, at
<1> QED
  BY <1>3, <1>4

-----------------------------------------------------------------------------
\* Rendering.

LEMMA SetListed ==
  ASSUME NEW S, IsFiniteSet(S)
  PROVE  /\ SetToSeq(S) \in Seq(S)
         /\ \A i, j \in DOMAIN SetToSeq(S) : SetToSeq(S)[i] = SetToSeq(S)[j] => i = j
         /\ \A x \in S : \E i \in DOMAIN SetToSeq(S) : SetToSeq(S)[i] = x
<1> DEFINE n == Cardinality(S)
           P(f) == IsInjective(f)
           s == SetToSeq(S)
<1>1. n \in Nat /\ ExistsBijection(1..n, S)
  BY FS_CardinalityType
<1>2. PICK f \in [1..n -> S] : IsInjective(f)
  BY <1>1 DEF ExistsBijection, Bijection, Injection
<1>3. s \in [1..n -> S] /\ IsInjective(s)
  BY <1>2 DEF SetToSeq
<1>4. s \in Seq(S)
  BY <1>1, <1>3
<1>5. \A x \in S : \E i \in DOMAIN s : s[i] = x
  <2> DEFINE R == {s[i] : i \in 1..n}
  <2>1. R \subseteq S
    BY <1>3
  <2>2. s \in Bijection(1..n, R)
    BY <1>3 DEF Bijection, Injection, Surjection, IsInjective
  <2>3. Cardinality(R) = n /\ IsFiniteSet(R)
    <3>1. ExistsBijection(1..n, R)
      BY <2>2 DEF ExistsBijection
    <3> HIDE DEF R, n, s
    <3> QED BY <1>1, <3>1, FS_CountingElements, FS_NatBijection
  <2>4. R = S
    <3> HIDE DEF R, n, s
    <3> QED BY <2>1, <2>3, FS_Subset DEF n
  <2> QED BY <1>3, <2>4
<1> QED
  BY <1>3, <1>4, <1>5 DEF IsInjective

LEMMA LinesList ==
  ASSUME NEW D, D \subseteq Device, NEW value \in [D -> Time]
  PROVE  /\ Lists(Lines(value), value, D)
         /\ Lines(value) \in Seq([dev : Device, v : Time])
<1> DEFINE S == {d \in DOMAIN value : value[d] > 0}
           devs == SetToSeq(S)
           s == [k \in DOMAIN devs |-> [dev |-> devs[k], v |-> value[devs[k]]]]
<1>1. Lines(value) = s
  BY DEF Lines
<1>2. S \subseteq D /\ S \subseteq Device /\ \A d \in S : value[d] > 0 /\ value[d] \in Time
  OBVIOUS
<1>3. \A d \in D : value[d] > 0 => d \in S
  OBVIOUS
<1>4. IsFiniteSet(S)
  <2> HIDE DEF S
  <2> QED BY <1>2, Constants, FS_Subset
<1> HIDE DEF S
<1>5. /\ devs \in Seq(S)
      /\ \A i, j \in DOMAIN devs : devs[i] = devs[j] => i = j
      /\ \A x \in S : \E i \in DOMAIN devs : devs[i] = x
  BY <1>4, SetListed
<1> HIDE DEF devs
<1>6. /\ \A k \in DOMAIN s : s[k].dev = devs[k] /\ s[k].v = value[devs[k]] /\ devs[k] \in S
      /\ DOMAIN s = DOMAIN devs
  BY <1>5
<1>7. s \in Seq([dev : Device, v : Time])
  <2>1. \A k \in DOMAIN devs : devs[k] \in Device /\ value[devs[k]] \in Time
    BY <1>2, <1>5
  <2>2. DOMAIN devs = 1..Len(devs) /\ Len(devs) \in Nat
    BY <1>5
  <2> QED BY <2>1, <2>2
<1> HIDE DEF s
<1>8. s \in Seq(Line)
  <2> DEFINE R == [dev : Device, v : Time]
  <2>1. R \subseteq Line
    BY DEF Line
  <2>2. s \in Seq(R)
    BY <1>7
  <2> HIDE DEF R
  <2>3. \A r \in Seq(R) : r \in Seq(Line)
    BY <2>1
  <2> QED BY <2>2, <2>3
<1>9. Lists(s, value, D)
  BY <1>2, <1>3, <1>5, <1>6, <1>8 DEF Lists, DevicesOnce
<1> QED
  BY <1>1, <1>7, <1>9

LEMMA VersionIs ==
  ASSUME NEW r \in Record \union {NoDevice}
  PROVE  /\ Version(r) \in Time
         /\ is_persistable(r) => r \in Record /\ r.state \in Time
         /\ r # NoDevice => r \in Record /\ r.state \in Time /\ Version(r) = r.v
<1>1. CASE r = NoDevice
  BY <1>1, Constants DEF Version, is_persistable
<1>2. CASE r # NoDevice
  <2>1. r \in Record
    BY <1>2
  <2>2. r.v \in Time /\ r.state \in Time
    BY <2>1 DEF Record
  <2> QED BY <1>2, <2>1, <2>2 DEF Version
<1> QED
  BY <1>1, <1>2

\* The lines of a file that are kept.
LEMMA KeptIs ==
  ASSUME NEW db \in Seq(Line), NEW K, K \subseteq DOMAIN db
  PROVE  /\ Select([k \in DOMAIN db |-> k], K) \in Seq(K)
         /\ Distinct(Select([k \in DOMAIN db |-> k], K))
         /\ Members(Select([k \in DOMAIN db |-> k], K)) = K
<1> DEFINE D == DOMAIN db
           ids == [k \in D |-> k]
<1>1. ids \in Seq(D)
  OBVIOUS
<1>2. Distinct(ids) /\ Members(ids) = D
  BY DEF Distinct, Members
<1>3. D \intersect K = K
  OBVIOUS
<1> HIDE DEF D, ids
<1>4. Select(ids, K) \in Seq(D \intersect K)
  BY <1>1, SelectType
<1>5. Distinct(Select(ids, K))
  BY <1>1, <1>2, SelectDistinct
<1>6. Members(Select(ids, K)) = D \intersect K
  BY <1>1, <1>2, SelectMembers
<1>7. Select(ids, K) \in Seq(K) /\ Distinct(Select(ids, K)) /\ Members(Select(ids, K)) = K
  BY <1>3, <1>4, <1>5, <1>6
<1> QED
  BY <1>7 DEF ids, D

\* A line that stays is brought up to date.
LEMMA UpdateIs ==
  ASSUME NEW db \in Seq(Line), NEW snap \in [Device -> Record \union {NoDevice}],
         NEW k \in DOMAIN db, Stays(db, snap, k)
  PROVE  /\ Update(db[k], snap) \in Line
         /\ Update(db[k], snap).dev = db[k].dev
         /\ db[k].dev = NoDevice => Update(db[k], snap) = db[k]
         /\ db[k].dev # NoDevice =>
              /\ db[k].dev \in Device
              /\ Version(snap[db[k].dev]) > 0
              /\ Update(db[k], snap).v = Version(snap[db[k].dev])
<1> DEFINE l == db[k]
<1>1. l \in Line
  OBVIOUS
<1>2. l.dev \in Device \union {NoDevice} /\ l.v \in Time
  BY <1>1, LinesAre
<1>3. CASE l.dev = NoDevice
  BY <1>1, <1>3 DEF Update
<1>4. CASE l.dev # NoDevice
  <2> DEFINE r == snap[l.dev]
             u == [l EXCEPT !.v = r.v]
  <2>1. l.dev \in Device /\ r \in Record \union {NoDevice}
    BY <1>2, <1>4
  <2>2. is_persistable(r)
    BY <1>4 DEF Stays
  <2>3. r # NoDevice /\ Version(r) > 0
    BY <2>2 DEF is_persistable, Version
  <2>4. Version(r) = r.v /\ r.v \in Time
    BY <2>1, <2>3, VersionIs
  <2> HIDE DEF r
  <2>5. u \in Line /\ u.dev = l.dev /\ u.v = r.v
    BY <1>1, <2>4 DEF Line
  <2>6. Update(l, snap) = u
    BY <1>4 DEF Update, r
  <2> HIDE DEF u, l
  <2>7. Update(l, snap) \in Line /\ Update(l, snap).dev = l.dev /\ Update(l, snap).v = Version(r)
    BY <2>4, <2>5, <2>6
  <2> QED BY <1>4, <2>1, <2>3, <2>7 DEF l, r
<1> QED
  BY <1>3, <1>4

LEMMA MergedList ==
  ASSUME NEW db \in Seq(Line), NEW snap \in [Device -> Record \union {NoDevice}]
  PROVE  LET kept == Select([k \in DOMAIN db |-> k], {k \in DOMAIN db : Stays(db, snap, k)})
             m == [k \in DOMAIN kept |-> Update(db[kept[k]], snap)]
         IN /\ Lists(m, [d \in Device |-> Version(snap[d])], Devices(db))
            /\ OtherLines(m) = OtherLines(db)
<1> DEFINE D == DOMAIN db
           K == {k \in D : Stays(db, snap, k)}
           O == {k \in D : db[k].dev = NoDevice}
           ids == [k \in D |-> k]
           kept == Select(ids, K)
           f == [k \in D |-> Update(db[k], snap)]
           m == [k \in DOMAIN kept |-> Update(db[kept[k]], snap)]
           value == [d \in Device |-> Version(snap[d])]
<1>1. kept \in Seq(K) /\ Distinct(kept) /\ Members(kept) = K
  <2>1. K \subseteq D
    OBVIOUS
  <2> HIDE DEF K
  <2> QED BY <2>1, KeptIs
<1>2. \A k \in K : k \in D /\ Stays(db, snap, k)
  OBVIOUS
<1>3. \A k \in K :
        /\ f[k] \in Line /\ f[k].dev = db[k].dev
        /\ db[k].dev = NoDevice => f[k] = db[k]
        /\ db[k].dev # NoDevice =>
             db[k].dev \in Device /\ value[db[k].dev] > 0 /\ f[k].v = value[db[k].dev]
  <2>1. SUFFICES ASSUME NEW k \in K
                 PROVE  /\ f[k] \in Line /\ f[k].dev = db[k].dev
                        /\ db[k].dev = NoDevice => f[k] = db[k]
                        /\ db[k].dev # NoDevice =>
                             db[k].dev \in Device /\ value[db[k].dev] > 0 /\ f[k].v = value[db[k].dev]
    BY Zenon
  <2>2. f[k] = Update(db[k], snap)
    BY <1>2
  <2>3. /\ Update(db[k], snap) \in Line
        /\ Update(db[k], snap).dev = db[k].dev
        /\ db[k].dev = NoDevice => Update(db[k], snap) = db[k]
        /\ db[k].dev # NoDevice =>
             /\ db[k].dev \in Device
             /\ Version(snap[db[k].dev]) > 0
             /\ Update(db[k], snap).v = Version(snap[db[k].dev])
    BY <1>2, UpdateIs
  <2> QED BY <2>2, <2>3
<1>4. \A d \in Device : value[d] = Version(snap[d])
  OBVIOUS
<1>5. m = Mapped(kept, f)
  <2>1. \A i \in DOMAIN kept : kept[i] \in D
    BY <1>1
  <2> HIDE DEF kept
  <2> QED BY <2>1 DEF Mapped
<1>6. \A k \in O : k \in K
  BY DEF Stays
<1>7. \A k \in D : k \in O <=> db[k].dev = NoDevice
  OBVIOUS
<1>8. \A k \in K : db[k].dev # NoDevice => \A j \in 1..(k - 1) : db[j].dev # db[k].dev
  BY DEF Stays
<1>9. \A k \in D : db[k].dev \in Device /\ value[db[k].dev] > 0
                     /\ (\A j \in 1..(k - 1) : db[j].dev # db[k].dev) => k \in K
  BY <1>4 DEF Stays, is_persistable
<1>10. D = 1..Len(db) /\ Len(db) \in Nat /\ \A k \in D : db[k] \in Line
  OBVIOUS
<1>11. ids \in Seq(D)
  BY <1>10
<1>12. db = Mapped(ids, db)
  BY DEF Mapped
<1> HIDE DEF D, K, O, ids, kept, f, m, value
<1>13. /\ m \in Seq(Line) /\ DOMAIN m = DOMAIN kept
       /\ \A i \in DOMAIN m : m[i] = f[kept[i]] /\ kept[i] \in K
  <2>1. Mapped(kept, f) \in Seq(Line)
    BY <1>1, <1>3, MappedType
  <2>2. \A i \in DOMAIN kept : kept[i] \in K
    BY <1>1
  <2>3. DOMAIN Mapped(kept, f) = DOMAIN kept /\ \A i \in DOMAIN kept : Mapped(kept, f)[i] = f[kept[i]]
    BY <1>1, MappedIs
  <2> QED BY <1>5, <2>1, <2>2, <2>3
<1>14. \A i \in DOMAIN m : m[i].dev # NoDevice =>
         m[i].dev \in Devices(db) /\ value[m[i].dev] > 0 /\ m[i].v = value[m[i].dev]
  BY <1>2, <1>3, <1>13 DEF Devices, D
<1>15. ASSUME NEW i \in DOMAIN m, NEW j \in DOMAIN m, m[i].dev # NoDevice, m[i].dev = m[j].dev
       PROVE  i = j
  <2>1. db[kept[i]].dev = db[kept[j]].dev /\ db[kept[i]].dev # NoDevice
    BY <1>3, <1>13, <1>15
  <2>2. kept[i] \in 1..Len(db) /\ kept[j] \in 1..Len(db)
    BY <1>2, <1>10, <1>13
  <2>3. \A a, b \in 1..Len(db) : a < b => a \in 1..(b - 1)
    BY <1>10
  <2> DEFINE a == kept[i]
             b == kept[j]
  <2>4. /\ a \in K /\ b \in K /\ a \in 1..Len(db) /\ b \in 1..Len(db)
        /\ db[a].dev = db[b].dev /\ db[a].dev # NoDevice /\ db[b].dev # NoDevice
    BY <1>13, <2>1, <2>2
  <2> HIDE DEF a, b
  <2>6. ~(a < b) /\ ~(b < a)
    BY <1>8, <2>3, <2>4
  <2>5. kept[i] = kept[j]
    BY <1>10, <2>4, <2>6 DEF a, b
  <2> QED BY <1>1, <1>13, <2>5 DEF Distinct
<1>16. ASSUME NEW d \in Devices(db), value[d] > 0
       PROVE  \E i \in DOMAIN m : m[i].dev = d
  <2> DEFINE at == {k \in D : db[k].dev = d}
  <2>1. d # NoDevice /\ at # {} /\ at \subseteq Nat
    BY <1>10 DEF Devices, D
  <2>2. \A k \in at : k \in D /\ db[k].dev = d
    OBVIOUS
  <2>3. \A k \in D : db[k].dev = d => k \in at
    OBVIOUS
  <2> HIDE DEF at
  <2>4. PICK k \in at : \A j \in at : k <= j
    BY <2>1, Least
  <2>5. k \in D /\ db[k].dev = d /\ d \in Device
    BY <1>10, <2>1, <2>2, LinesAre
  <2>6. \A j \in 1..(k - 1) : db[j].dev # d
    BY <1>10, <2>3, <2>4, <2>5
  <2>7. k \in K
    BY <1>9, <1>16, <2>5, <2>6
  <2>8. PICK i \in DOMAIN kept : kept[i] = k
    BY <1>1, <2>7 DEF Members
  <2> QED BY <1>3, <1>13, <2>5, <2>7, <2>8
<1>17. Lists(m, value, Devices(db))
  BY <1>13, <1>14, <1>15, <1>16 DEF Lists, DevicesOnce
<1>18. OtherLines(m) = Mapped(Select(kept, O), f)
  <2> DEFINE U == {x \in K : f[x] \in OtherLine}
  <2>1. Select(Mapped(kept, f), OtherLine) = Mapped(Select(kept, U), f)
    BY <1>1, SelectMapped
  <2>2. U = O
    <3>1. \A x \in K : f[x] \in OtherLine <=> x \in O
      BY <1>2, <1>3, <1>7, LinesAre
    <3> QED BY <1>6, <3>1
  <2> QED BY <1>5, <2>1, <2>2 DEF OtherLines
<1>19. OtherLines(db) = Mapped(Select(ids, O), db)
  <2> DEFINE U == {x \in D : db[x] \in OtherLine}
  <2>1. Select(Mapped(ids, db), OtherLine) = Mapped(Select(ids, U), db)
    BY <1>11, SelectMapped
  <2>2. U = O
    <3>1. \A x \in D : db[x] \in OtherLine <=> x \in O
      BY <1>7, <1>10, LinesAre
    <3>2. \A x \in O : x \in D
      BY <1>2, <1>6
    <3> QED BY <3>1, <3>2
  <2> QED BY <1>12, <2>1, <2>2 DEF OtherLines
<1>20. Select(kept, O) = Select(ids, O)
  BY <1>6, <1>11, SelectTwice DEF kept
<1>21. Mapped(Select(ids, O), f) = Mapped(Select(ids, O), db)
  <2>1. Select(ids, O) \in Seq(D \intersect O)
    BY <1>11, SelectType
  <2>2. \A i \in DOMAIN Select(ids, O) : Select(ids, O)[i] \in O
    BY <2>1
  <2>3. \A x \in O : f[x] = db[x]
    BY <1>2, <1>3, <1>6, <1>7
  <2> QED BY <2>2, <2>3 DEF Mapped
<1>22. OtherLines(m) = OtherLines(db)
  BY <1>18, <1>19, <1>20, <1>21
<1> QED
  BY <1>17, <1>22 DEF m, kept, ids, K, D, value

\* The file render_database leaves lists the snapshot, and keeps the other lines.
LEMMA RenderIs ==
  ASSUME NEW db \in Seq(Line), NEW snap \in [Device -> Record \union {NoDevice}]
  PROVE  /\ Lists(Render(db, snap), [d \in Device |-> Version(snap[d])], Device)
         /\ OtherLines(Render(db, snap)) = OtherLines(db)
<1> DEFINE kept == Select([k \in DOMAIN db |-> k], {k \in DOMAIN db : Stays(db, snap, k)})
           m == [k \in DOMAIN kept |-> Update(db[kept[k]], snap)]
           value == [d \in Device |-> Version(snap[d])]
           D == Devices(db)
           E == Device \ D
           new == [d \in E |-> Version(snap[d])]
           n == Lines(new)
<1>1. Lists(m, value, D) /\ OtherLines(m) = OtherLines(db)
  BY MergedList
<1>2. D \subseteq Device
  <2>1. \A k \in DOMAIN db : db[k] \in Line
    OBVIOUS
  <2> QED BY <2>1, LinesAre DEF Devices
<1>3. value \in [Device -> Time] /\ new \in [E -> Time]
  BY VersionIs
<1>4. \A d \in E : new[d] = value[d]
  OBVIOUS
<1>5. Render(db, snap) = m \o n
  BY DEF Render
<1>6. D \intersect E = {} /\ D \union E = Device /\ E \subseteq Device
  BY <1>2
<1> HIDE DEF m, value, D, E, new
<1>7. Lists(n, new, E) /\ n \in Seq([dev : Device, v : Time])
  BY <1>3, <1>6, LinesList
<1> HIDE DEF n
<1>8. Lists(n, value, E)
  BY <1>4, <1>7 DEF Lists
<1>9. Lists(m \o n, value, Device)
  <2>1. Lists(m \o n, value, D \union E)
    BY <1>1, <1>2, <1>6, <1>8, ListsJoined
  <2> QED BY <1>6, <2>1
<1>10. OtherLines(m \o n) = OtherLines(m)
  <2>1. m \in Seq(Line) /\ n \in Seq(Line)
    BY <1>1, <1>8 DEF Lists
  <2>2. Select(m \o n, OtherLine) = Select(m, OtherLine) \o Select(n, OtherLine)
    BY <2>1, SelectConcat
  <2>3. Select(n, OtherLine) = <<>>
    <3> DEFINE R == [dev : Device, v : Time]
    <3>1. R \intersect OtherLine = {}
      BY Constants DEF OtherLine
    <3>2. n \in Seq(R)
      BY <1>7
    <3> HIDE DEF R
    <3>3. Select(n, OtherLine) \in Seq(R \intersect OtherLine)
      BY <3>2, SelectType
    <3> QED BY <3>1, <3>3
  <2>4. Select(m, OtherLine) \in Seq(Line \intersect OtherLine)
    BY <2>1, SelectType
  <2>5. Select(m, OtherLine) \o <<>> = Select(m, OtherLine)
    BY <2>4
  <2> QED BY <2>2, <2>3, <2>5 DEF OtherLines
<1>11. Lists(Render(db, snap), value, Device) /\ OtherLines(Render(db, snap)) = OtherLines(db)
  BY <1>1, <1>5, <1>9, <1>10
<1> QED
  BY <1>11 DEF value

LEMMA RenderStateIs ==
  ASSUME NEW snap \in [Device -> Record \union {NoDevice}]
  PROVE  Lists(RenderState(snap),
               [d \in Device |-> IF is_persistable(snap[d]) THEN snap[d].state ELSE 0], Device)
<1> DEFINE value == [d \in Device |-> IF is_persistable(snap[d]) THEN snap[d].state ELSE 0]
<1>1. value \in [Device -> Time]
  BY VersionIs, Constants
<1>2. RenderState(snap) = Lines(value)
  BY DEF RenderState
<1> HIDE DEF value
<1>3. Lists(RenderState(snap), value, Device)
  BY <1>1, <1>2, LinesList
<1> QED
  BY <1>3 DEF value

\* Every line is another's or its device's only one.
LEMMA LinesCounted ==
  ASSUME NEW s \in Seq(Line), DevicesOnce(s)
  PROVE  Cardinality(Devices(s)) + Len(OtherLines(s)) = Len(s)
<1> DEFINE Count(t) == IsFiniteSet(Devices(t)) /\ Cardinality(Devices(t)) + Len(OtherLines(t)) = Len(t)
           P == {t \in Seq(Line) : DevicesOnce(t) => Count(t)}
<1>1. <<>> \in P
  <2>1. <<>> \in Seq(Line) /\ Devices(<<>>) = {} /\ OtherLines(<<>>) = <<>>
    BY SelectEmpty DEF Devices, OtherLines
  <2>2. IsFiniteSet({}) /\ Cardinality({}) = 0
    BY FS_EmptySet
  <2>3. Len(<<>>) = 0 /\ 0 + 0 = 0
    OBVIOUS
  <2>4. Count(<<>>)
    BY <2>1, <2>2, <2>3
  <2> QED BY <2>1, <2>4
<1>2. ASSUME NEW t \in Seq(Line), NEW e \in Line, t \in P
      PROVE  Append(t, e) \in P
  <2> DEFINE u == Append(t, e)
             n == Len(t)
  <2>1. /\ u \in Seq(Line) /\ n \in Nat /\ Len(u) = n + 1
        /\ DOMAIN t = 1..n /\ DOMAIN u = 1..(n + 1)
        /\ \A i \in 1..n : u[i] = t[i]
        /\ u[n + 1] = e
    BY AppendIs
  <2>2. OtherLines(u) = IF e \in OtherLine THEN Append(OtherLines(t), e) ELSE OtherLines(t)
    BY SelectAppend DEF OtherLines
  <2>3. OtherLines(t) \in Seq(Line)
    <3>1. Select(t, OtherLine) \in Seq(Line \intersect OtherLine)
      BY SelectType
    <3> QED BY <3>1 DEF OtherLines
  <2> HIDE DEF u, n
  <2>4. \A i \in DOMAIN t : i \in DOMAIN u /\ u[i] = t[i]
    BY <2>1
  <2>5. n + 1 \in DOMAIN u /\ \A i \in DOMAIN u : i \in DOMAIN t \/ i = n + 1
    BY <2>1
  <2>6. SUFFICES ASSUME DevicesOnce(u) PROVE Count(u)
    BY <2>1 DEF u
  <2>7. DevicesOnce(t)
    BY <2>4, <2>6 DEF DevicesOnce
  <2>8. Count(t)
    BY <1>2, <2>7
  <2>9. Len(Append(OtherLines(t), e)) = Len(OtherLines(t)) + 1 /\ Len(OtherLines(t)) \in Nat
    BY <2>3
  <2>10. CASE e.dev = NoDevice
    <3>1. Devices(u) = Devices(t)
      BY <2>1, <2>4, <2>5, <2>10 DEF Devices
    <3>2. OtherLines(u) = Append(OtherLines(t), e)
      BY <2>2, <2>10, LinesAre
    <3>3. Cardinality(Devices(t)) \in Nat
      BY <2>8, FS_CardinalityType
    <3> QED BY <2>1, <2>8, <2>9, <3>1, <3>2, <3>3 DEF n
  <2>11. CASE e.dev # NoDevice
    <3>1. Devices(u) = Devices(t) \union {e.dev}
      BY <2>1, <2>4, <2>5, <2>11 DEF Devices
    <3>2. e.dev \notin Devices(t)
      <4>1. SUFFICES ASSUME NEW i \in DOMAIN t, t[i].dev = e.dev PROVE FALSE
        BY DEF Devices
      <4>2. i = n + 1
        BY <2>1, <2>4, <2>5, <2>6, <2>11, <4>1 DEF DevicesOnce
      <4> QED BY <2>1, <4>2
    <3>3. OtherLines(u) = OtherLines(t)
      BY <2>2, <2>11, LinesAre
    <3>4. IsFiniteSet(Devices(u)) /\ Cardinality(Devices(u)) = Cardinality(Devices(t)) + 1
      BY <2>8, <3>1, <3>2, FS_AddElement
    <3>5. Cardinality(Devices(t)) \in Nat
      BY <2>8, FS_CardinalityType
    <3> QED BY <2>1, <2>8, <2>9, <3>3, <3>4, <3>5 DEF n
  <2> QED BY <2>10, <2>11
<1>3. P \subseteq Seq(Line) /\ s \in P
  <2> HIDE DEF P
  <2>1. Seq(Line) \subseteq P
    BY <1>1, <1>2, SequenceInduction
  <2> QED BY <2>1 DEF P
<1> QED
  BY <1>3

-----------------------------------------------------------------------------
\* The inductive invariant.

Existing == IF file["db"] = Absent THEN <<>> ELSE file["db"]

\* db says what snap does.
Listed(db, snap) == Lists(db, [d \in Device |-> Version(snap[d])], Device)

\* How far a save has come, and what it has rendered by then.
SaveOf(p) ==
  /\ step[p].at \in {"idle", "copy", "read"} => step[p].target = "db"
  /\ step[p].at = "idle" => snapshot[p] = Nobody
  /\ step[p].at # "copy" => step[p].todo = {}
  /\ \A d \in step[p].todo : snapshot[p][d] = NoDevice
  /\ step[p].at \in {"check", "write"} /\ step[p].target = "db" =>
       Listed(text[p], snapshot[p]) /\ OtherLines(text[p]) = OtherLines(Existing)
  /\ step[p].at \in {"check", "write"} /\ step[p].target = "state" =>
       text[p] = RenderState(snapshot[p])

Saves == \A p \in Proc : SaveOf(p)

\* last_written is what the file holds.
Written == \A f \in File : last[f] # Unknown => last[f] = file[f]

\* Versions are times of changes there have been.
Past ==
  /\ 2 <= time
  /\ \A d \in Device :
       /\ VersionOf(d) <= time /\ Version(live[d]) <= time /\ saved[d] <= time
       /\ \A p \in Proc : Version(snapshot[p][d]) <= time

\* A registry that is up is no older than what was stored, or will be.
Later ==
  phase # "down" => \A d \in Device :
    /\ saved[d] <= Version(live[d])
    /\ live[d] # NoDevice => Version(snapshot[Saver][d]) <= Version(live[d])

\* The main task saves a registry that no longer changes.
Final ==
  step[Main] # Idle => \A d \in Device \ step[Main].todo : snapshot[Main][d] = live[d]

\* An undisturbed shutdown has stored database.db, then both files.
Exit ==
  phase = "stopping" /\ undisturbed =>
    /\ step[Saver] = Idle
    /\ step[Main] = Idle \/ step[Main].target = "state" =>
         \A d \in Device : VersionOf(d) = Version(live[d])
    /\ step[Main] = Idle => Saved

IInv ==
  TypeOK /\ Saves /\ Written /\ Past /\ Later /\ Final /\ Exit /\ KeptUnlessLeft

-----------------------------------------------------------------------------
\* What they say.

LEMMA OldLines == \A s \in Seq(OldLine) : s \in Seq(Line)
<1> DEFINE L == Line
           O == OldLine
<1>1. O \subseteq L
  BY Constants DEF OldLine, Line, Time
<1> HIDE DEF O, L
<1>2. \A s \in Seq(O) : s \in Seq(L)
  BY <1>1
<1> QED
  BY <1>2 DEF O, L

\* Versions and states are times.
LEMMA Times ==
  ASSUME TypeOK
  PROVE  /\ time \in Nat /\ Time \subseteq Nat
         /\ \A d \in Device :
              /\ VersionOf(d) \in Time /\ StateOf(d) \in Time
              /\ Version(live[d]) \in Time /\ saved[d] \in Time
              /\ \A p \in Proc : Version(snapshot[p][d]) \in Time
<1>1. /\ Time \subseteq Nat /\ 0 \in Time /\ time \in Time
      /\ file["db"] \in Seq(Line) \union {Absent}
      /\ file["state"] \in Seq(Line) \union {Absent}
  BY Constants DEF TypeOK, File
<1>2. \A s \in Seq(Line) : \A d : ValueOf(s, d) \in Time
  BY <1>1, ValueIn DEF Line
<1>3. Found \in Seq(Line)
  BY <1>1, OldLines, Constants, PersistenceAssumption DEF Found
<1>4. \A d \in Device : VersionOf(d) \in Time
  BY <1>2, <1>3 DEF VersionOf
<1>5. \A d \in Device : StateOf(d) \in Time
  BY <1>1, <1>2 DEF StateOf
<1>6. \A d \in Device : live[d] \in Record \union {NoDevice} /\ saved[d] \in Time
  BY DEF TypeOK
<1>7. \A p \in Proc, d \in Device : snapshot[p][d] \in Record \union {NoDevice}
  BY DEF TypeOK
<1> QED
  BY <1>1, <1>4, <1>5, <1>6, <1>7, VersionIs

LEMMA Nothing ==
  /\ Nobody \in [Device -> Record \union {NoDevice}]
  /\ \A d \in Device : Nobody[d] = NoDevice
  /\ Version(NoDevice) = 0
  BY DEF Nobody, Version

LEMMA Steps ==
  /\ Idle \in Step /\ Idle.at = "idle" /\ Idle.todo = {} /\ Idle.target = "db"
  /\ \A s \in Step : /\ s.at \in {"idle", "copy", "read", "check", "write"}
                     /\ s.todo \in SUBSET Device /\ s.target \in File
                     /\ s.at = "idle" /\ s.todo = {} /\ s.target = "db" => s = Idle
  /\ \A at \in {"idle", "copy", "read", "check", "write"}, todo \in SUBSET Device, target \in File :
       [at |-> at, todo |-> todo, target |-> target] \in Step
  BY DEF Idle, Step, File

\* What is in the file when it lists a snapshot.
LEMMA ListedValue ==
  ASSUME NEW s, NEW snap \in [Device -> Record \union {NoDevice}], Listed(s, snap), NEW d \in Device
  PROVE  ValueOf(s, d) = Version(snap[d])
<1> DEFINE value == [c \in Device |-> Version(snap[c])]
<1>1. value \in [Device -> Nat]
  BY VersionIs, Constants
<1>2. Lists(s, value, Device)
  BY DEF Listed
<1>3. value[d] = Version(snap[d])
  OBVIOUS
<1> HIDE DEF value
<1>4. ValueOf(s, d) = value[d]
  BY <1>1, <1>2, ListsValue
<1> QED
  BY <1>3, <1>4

LEMMA StateListed ==
  ASSUME NEW snap \in [Device -> Record \union {NoDevice}], NEW d \in Device
  PROVE  ValueOf(RenderState(snap), d) = IF is_persistable(snap[d]) THEN snap[d].state ELSE 0
<1> DEFINE value == [c \in Device |-> IF is_persistable(snap[c]) THEN snap[c].state ELSE 0]
<1>1. value \in [Device -> Nat]
  BY VersionIs, Constants
<1>2. Lists(RenderState(snap), value, Device)
  BY RenderStateIs
<1>3. value[d] = IF is_persistable(snap[d]) THEN snap[d].state ELSE 0
  OBVIOUS
<1> HIDE DEF value
<1>4. ValueOf(RenderState(snap), d) = value[d]
  BY <1>1, <1>2, ListsValue
<1> QED
  BY <1>3, <1>4

LEMMA ListedType ==
  ASSUME NEW snap \in [Device -> Record \union {NoDevice}]
  PROVE  /\ RenderState(snap) \in Seq(Line)
         /\ \A db \in Seq(Line) : Render(db, snap) \in Seq(Line) /\ Listed(Render(db, snap), snap)
         /\ \A db \in Seq(Line) : OtherLines(Render(db, snap)) = OtherLines(db)
         /\ \A db : Listed(db, snap) => db \in Seq(Line)
<1>1. RenderState(snap) \in Seq(Line)
  BY RenderStateIs DEF Lists
<1>2. \A db : Listed(db, snap) => db \in Seq(Line)
  BY DEF Listed, Lists
<1>3. \A db \in Seq(Line) : Listed(Render(db, snap), snap) /\ OtherLines(Render(db, snap)) = OtherLines(db)
  BY RenderIs DEF Listed
<1> QED
  BY <1>1, <1>2, <1>3

\* A save that does not move keeps its place while the other lines stay.
LEMMA SaveKept ==
  ASSUME NEW p \in Proc, SaveOf(p),
         step'[p] = step[p], snapshot'[p] = snapshot[p], text'[p] = text[p],
         OtherLines(Existing') = OtherLines(Existing)
  PROVE  SaveOf(p)'
  BY DEF SaveOf

LEMMA SavesKept ==
  ASSUME Saves, UNCHANGED <<file, saveVars>>
  PROVE  Saves'
<1>1. Existing' = Existing
  BY DEF Existing
<1>2. step' = step /\ snapshot' = snapshot /\ text' = text
  BY DEF saveVars
<1>3. \A p \in Proc : SaveOf(p)'
  BY <1>1, <1>2, SaveKept DEF Saves
<1> QED
  BY <1>3 DEF Saves

LEMMA FilesKept ==
  ASSUME file' = file
  PROVE  /\ Found' = Found /\ Existing' = Existing
         /\ \A d \in Device : VersionOf(d)' = VersionOf(d) /\ StateOf(d)' = StateOf(d)
  BY DEF Found, Existing, VersionOf, StateOf

-----------------------------------------------------------------------------
\* The steps.

LEMMA InitInvariant ==
  ASSUME Init
  PROVE  IInv
<1>1. PICK db \in Databases : file = [f \in File |-> IF f = "db" THEN db ELSE Absent]
  BY DEF Init
<1>2. db \in Seq(Line) \union {Absent} /\ file["db"] = db
  BY <1>1, OldLines, PersistenceAssumption DEF File
<1>3. TypeOK
  <2>1. file \in [File -> Seq(Line) \union {Absent}]
    BY <1>1, <1>2
  <2>2. time \in Time /\ saved \in [Device -> Time]
    BY Constants DEF Init, Time
  <2>3. step = [p \in Proc |-> Idle] /\ step \in [Proc -> Step] /\ step[Main] = Idle /\ step[Saver].at # "write"
    BY Steps DEF Init, Proc, Saver, Main
  <2>4. text \in [Proc -> Seq(Line)]
    BY Constants DEF Init
  <2>5. failures \in 0..MaxFailures /\ starts \in 0..MaxStarts
    BY PersistenceAssumption DEF Init
  <2>6. Saver \in Proc
    BY DEF Proc
  <2>7. live \in [Device -> Record \union {NoDevice}] /\ snapshot \in [Proc -> [Device -> Record \union {NoDevice}]]
    BY Nothing DEF Init
  <2> QED
    BY <2>1, <2>2, <2>3, <2>4, <2>5, <2>6, <2>7 DEF Init, TypeOK
<1>4. Saves
  BY Steps, Nothing DEF Init, Saves, SaveOf
<1>5. Written
  BY DEF Init, Written
<1>6. time = 2 /\ phase = "down" /\ \A d \in Device : saved[d] = 0 /\ Version(live[d]) = 0
  BY Nothing DEF Init
<1>7. \A d \in Device : VersionOf(d) <= 2
  <2>1. ASSUME NEW s \in Seq(OldLine), NEW d
        PROVE  ValueOf(s, d) \in 0..2
    <3>1. 0 \in 0..2 /\ s \in Seq([dev : Device \union {NoDevice}, v : 0..2])
      BY <2>1 DEF OldLine
    <3> QED BY <3>1, ValueIn
  <2>2. Found \in Seq(OldLine)
    <3>1. file["db"] \in Seq(OldLine) \union {Absent}
      BY <1>1, PersistenceAssumption DEF File
    <3>2. <<>> \in Seq(OldLine)
      OBVIOUS
    <3> QED BY <3>1, <3>2, PersistenceAssumption DEF Found
  <2>3. \A d : ValueOf(Found, d) \in 0..2
    BY <2>1, <2>2
  <2> QED BY <2>3 DEF VersionOf
<1>8. Past
  <2>1. \A d \in Device, p \in Proc : Version(snapshot[p][d]) = 0
    BY Nothing DEF Init
  <2> QED BY <1>6, <1>7, <2>1 DEF Past
<1>9. Later /\ Exit
  BY <1>6 DEF Later, Exit
<1>10. Final
  BY DEF Init, Final, Proc, Main
<1>11. KeptUnlessLeft
  BY <1>3, <1>6, Times DEF KeptUnlessLeft
<1> QED
  BY <1>3, <1>4, <1>5, <1>8, <1>9, <1>10, <1>11 DEF IInv

LEMMA MayFailIs ==
  ASSUME TypeOK, NEW fails \in BOOLEAN, MayFail(fails)
  PROVE  failures' \in 0..MaxFailures
<1>1. failures \in 0..MaxFailures /\ MaxFailures \in Nat
  BY PersistenceAssumption DEF TypeOK
<1> QED
  BY <1>1 DEF MayFail

LEMMA StartKeeps ==
  ASSUME IInv, NEW skipped \in SUBSET Devices(Found), NEW stateless \in BOOLEAN, Start(skipped, stateless)
  PROVE  IInv'
<1> DEFINE imported == [d \in Device |-> IF d \in skipped THEN 0 ELSE VersionOf(d)]
<1>1. TypeOK /\ Saves /\ Past /\ KeptUnlessLeft
  BY DEF IInv
<1>2. /\ phase = "down" /\ phase' = "running"
      /\ starts < MaxStarts /\ starts' = starts + 1
      /\ MayFail(skipped # {} \/ stateless)
      /\ live' = [d \in Device |->
                   IF imported[d] > 0 \/ d \in Preseeded
                   THEN [v |-> imported[d], state |-> IF stateless THEN 0 ELSE StateOf(d)]
                   ELSE NoDevice]
      /\ last' = [f \in File |-> Unknown]
      /\ saved' = imported
      /\ UNCHANGED <<time, file, clean, saveVars, left, undisturbed>>
  BY DEF Start
<1>3. /\ time \in Nat /\ Time \subseteq Nat /\ 0 \in Time
      /\ \A d \in Device : VersionOf(d) \in Time /\ StateOf(d) \in Time
      /\ \A p \in Proc, d \in Device : Version(snapshot[p][d]) \in Time
  BY <1>1, Times, Constants
<1>4. \A d \in Device : /\ imported[d] \in Time /\ imported[d] \in Nat
                        /\ VersionOf(d) \in Nat
                        /\ (imported[d] = 0 \/ imported[d] = VersionOf(d))
  BY <1>3
<1>5. imported \in [Device -> Time]
  BY <1>3
<1> HIDE DEF imported
<1>6. /\ file' = file /\ time' = time /\ step' = step /\ snapshot' = snapshot /\ text' = text
      /\ \A d \in Device : VersionOf(d)' = VersionOf(d)
  BY <1>2, FilesKept DEF saveVars
<1>7. /\ step = [p \in Proc |-> Idle]
      /\ \A p \in Proc : snapshot[p] = Nobody
  <2>1. step = [p \in Proc |-> Idle]
    BY <1>1, <1>2 DEF TypeOK
  <2>2. \A p \in Proc : step[p].at = "idle"
    BY <2>1, Steps
  <2> QED BY <1>1, <2>1, <2>2 DEF Saves, SaveOf
<1>8. Main \in Proc /\ Saver \in Proc
  BY DEF Proc
<1>9. \A d \in Device : live'[d] \in Record \union {NoDevice} /\ Version(live'[d]) = imported[d]
  <2>1. SUFFICES ASSUME NEW d \in Device
                 PROVE  live'[d] \in Record \union {NoDevice} /\ Version(live'[d]) = imported[d]
    OBVIOUS
  <2>2. CASE imported[d] > 0 \/ d \in Preseeded
    <3> DEFINE r == [v |-> imported[d], state |-> IF stateless THEN 0 ELSE StateOf(d)]
    <3>1. r \in Record /\ r.v = imported[d]
      BY <1>3, <1>4 DEF Record
    <3>2. live'[d] = r
      BY <1>2, <2>2
    <3> HIDE DEF r
    <3> QED BY <3>1, <3>2, VersionIs, Constants
  <2>3. CASE ~(imported[d] > 0 \/ d \in Preseeded)
    <3>1. live'[d] = NoDevice
      BY <1>2, <2>3
    <3>2. imported[d] = 0
      BY <1>4, <2>3
    <3> QED BY <3>1, <3>2, Nothing
  <2> QED BY <2>2, <2>3
<1>10. TypeOK'
  <2>1. failures' \in 0..MaxFailures
    <3> DEFINE fails == skipped # {} \/ stateless
    <3>1. fails \in BOOLEAN
      OBVIOUS
    <3>2. MayFail(fails)
      BY <1>2
    <3> HIDE DEF fails
    <3> QED BY <1>1, <3>1, <3>2, MayFailIs
  <2>2. starts' \in 0..MaxStarts
    BY <1>1, <1>2, PersistenceAssumption DEF TypeOK
  <2>3. live' \in [Device -> Record \union {NoDevice}]
    BY <1>2, <1>9
  <2>4. last' \in [File -> Seq(Line) \union {Unknown}]
    BY <1>2
  <2>5. saved' \in [Device -> Time]
    BY <1>2, <1>5
  <2>6. step'[Main] = Idle
    BY <1>6, <1>7, <1>8
  <2> QED BY <1>1, <1>2, <1>6, <2>1, <2>2, <2>3, <2>4, <2>5, <2>6 DEF TypeOK
<1>11. Saves'
  BY <1>1, <1>2, SavesKept DEF saveVars
<1>12. Written'
  BY <1>2 DEF Written
<1>13. Past'
  BY <1>1, <1>2, <1>3, <1>4, <1>6, <1>9 DEF Past
<1>14. Later'
  <2>1. \A d \in Device : Version(snapshot'[Saver][d]) = 0
    BY <1>6, <1>7, <1>8, Nothing
  <2>2. \A d \in Device : saved'[d] = Version(live'[d]) /\ Version(live'[d]) \in Nat
    BY <1>2, <1>4, <1>9
  <2>3. \A d \in Device : saved'[d] <= Version(live'[d]) /\ 0 <= Version(live'[d])
    BY <2>2
  <2> QED BY <2>1, <2>3 DEF Later
<1>15. Final'
  BY <1>6, <1>7, <1>8 DEF Final
<1>16. Exit'
  BY <1>2 DEF Exit
<1>17. KeptUnlessLeft'
  <2>1. \A d \in Device : imported[d] <= VersionOf(d)
    BY <1>4
  <2> QED BY <1>2, <1>4, <1>6, <2>1 DEF KeptUnlessLeft
<1> QED
  BY <1>10, <1>11, <1>12, <1>13, <1>14, <1>15, <1>16, <1>17 DEF IInv

\* What every change to a device leaves as it was.
LEMMA ChangeKeeps ==
  ASSUME IInv, NEW d \in Device, Change,
         NEW r \in Record \union {NoDevice}, live' = [live EXCEPT ![d] = r],
         \/ /\ r # NoDevice /\ saved' = saved /\ left' = left
            /\ \/ Version(r) = time + 1
               \/ live[d] # NoDevice /\ Version(r) = Version(live[d])
         \/ r = NoDevice /\ saved' = [saved EXCEPT ![d] = 0] /\ left' = left \union {d},
         UNCHANGED <<filesVars, phase, clean, saveVars, boundVars, undisturbed>>
  PROVE  IInv'
<1>1. TypeOK /\ Saves /\ Written /\ Past /\ Later /\ KeptUnlessLeft
  BY DEF IInv
<1>2. /\ phase = "running" /\ phase' = "running" /\ time < MaxTime /\ time' = time + 1
      /\ file' = file /\ last' = last /\ step' = step /\ snapshot' = snapshot /\ text' = text
      /\ failures' = failures /\ starts' = starts /\ clean' = clean /\ undisturbed' = undisturbed
  BY DEF Change, filesVars, saveVars, boundVars
<1>3. /\ time \in Nat /\ Time \subseteq Nat /\ time + 1 \in Time
      /\ \A c \in Device :
           /\ VersionOf(c) \in Nat /\ Version(live[c]) \in Nat /\ saved[c] \in Nat
           /\ \A p \in Proc : Version(snapshot[p][c]) \in Nat
  <2>1. time + 1 \in Time
    BY <1>1, <1>2, Constants DEF TypeOK, Time
  <2> QED BY <1>1, <2>1, Times
<1>4. \A c \in Device : VersionOf(c)' = VersionOf(c)
  BY <1>2, FilesKept
<1>5. live'[d] = r /\ \A c \in Device \ {d} : live'[c] = live[c]
  BY <1>1 DEF TypeOK
<1>6. \A c \in Device : saved'[c] = saved[c] \/ saved'[c] = 0
  BY <1>1 DEF TypeOK
<1>7. r = NoDevice => saved'[d] = 0 /\ Version(r) = 0
  BY <1>1, Nothing DEF TypeOK
<1>8. r # NoDevice => /\ saved' = saved
                      /\ \/ Version(r) = time + 1
                         \/ live[d] # NoDevice /\ Version(r) = Version(live[d])
  OBVIOUS
<1>9. Main \in Proc /\ Saver \in Proc
  BY DEF Proc
<1>10. step[Main] = Idle
  BY <1>1, <1>2 DEF TypeOK
<1>11. \A c \in Device : saved[c] <= time /\ VersionOf(c) <= time /\ Version(live[c]) <= time
         /\ \A p \in Proc : Version(snapshot[p][c]) <= time
  BY <1>1 DEF Past
<1>12. Version(live'[d]) <= time + 1
  BY <1>3, <1>5, <1>7, <1>8, <1>11
<1>13. TypeOK'
  <2>1. live' \in [Device -> Record \union {NoDevice}]
    BY <1>1 DEF TypeOK
  <2>2. saved' \in [Device -> Time] /\ left' \subseteq Device
    <3>1. saved \in [Device -> Time] /\ left \subseteq Device /\ 0 \in Time
      BY <1>1, Constants DEF TypeOK
    <3>2. CASE saved' = saved /\ left' = left
      BY <3>1, <3>2
    <3>3. CASE saved' = [saved EXCEPT ![d] = 0] /\ left' = left \union {d}
      BY <3>1, <3>3
    <3> QED BY <3>2, <3>3
  <2> QED BY <1>1, <1>2, <1>3, <2>1, <2>2 DEF TypeOK
<1>14. Saves'
  BY <1>1, <1>2, SavesKept DEF saveVars
<1>15. Written'
  BY <1>1, <1>2 DEF Written
<1>16. Past'
  <2>1. \A c \in Device : Version(live'[c]) <= time + 1
    BY <1>3, <1>5, <1>11, <1>12
  <2>2. \A c \in Device : saved'[c] <= time + 1 /\ VersionOf(c)' <= time + 1
    BY <1>3, <1>4, <1>6, <1>11
  <2>3. \A c \in Device, p \in Proc : Version(snapshot'[p][c]) <= time + 1
    BY <1>2, <1>3, <1>11
  <2>4. 2 <= time + 1
    BY <1>1, <1>3 DEF Past
  <2> QED BY <1>2, <2>1, <2>2, <2>3, <2>4 DEF Past
<1>17. Later'
  <2>1. \A c \in Device \ {d} : saved'[c] <= Version(live'[c])
    <3>1. \A c \in Device : saved[c] <= Version(live[c])
      BY <1>1, <1>2 DEF Later
    <3> QED BY <1>3, <1>5, <1>6, <3>1
  <2>2. saved'[d] <= Version(live'[d])
    <3>1. saved[d] <= Version(live[d])
      BY <1>1, <1>2 DEF Later
    <3> QED BY <1>3, <1>5, <1>7, <1>8, <1>11, <3>1
  <2>3. \A c \in Device \ {d} : live'[c] # NoDevice => Version(snapshot'[Saver][c]) <= Version(live'[c])
    BY <1>1, <1>2, <1>5 DEF Later
  <2>4. live'[d] # NoDevice => Version(snapshot'[Saver][d]) <= Version(live'[d])
    <3>1. live[d] # NoDevice => Version(snapshot[Saver][d]) <= Version(live[d])
      BY <1>1, <1>2 DEF Later
    <3> QED BY <1>2, <1>3, <1>5, <1>8, <1>9, <1>11, <3>1
  <2> QED BY <2>1, <2>2, <2>3, <2>4 DEF Later
<1>18. Final'
  BY <1>2, <1>10 DEF Final
<1>19. Exit'
  BY <1>2 DEF Exit
<1>20. KeptUnlessLeft'
  BY <1>1, <1>3, <1>4, <1>6 DEF KeptUnlessLeft
<1> QED
  BY <1>13, <1>14, <1>15, <1>16, <1>17, <1>18, <1>19, <1>20 DEF IInv

LEMMA DeviceKeeps ==
  ASSUME IInv, NEW d \in Device, Seen(d) \/ Report(d) \/ Left(d)
  PROVE  IInv'
<1>1. TypeOK /\ time \in Time /\ live[d] \in Record \union {NoDevice}
  BY DEF IInv, TypeOK
<1>2. Change => time + 1 \in Time
  BY <1>1, Constants DEF Change, Time
<1>3. CASE Seen(d)
  <2> DEFINE r == [v |-> time + 1, state |-> IF live[d] = NoDevice THEN 0 ELSE live[d].state]
  <2>1. r \in Record /\ r.v = time + 1
    BY <1>1, <1>2, <1>3, VersionIs, Constants DEF Seen, Record
  <2>2. live' = [live EXCEPT ![d] = r]
    BY <1>3 DEF Seen
  <2> HIDE DEF r
  <2>3. r # NoDevice /\ Version(r) = time + 1
    BY <2>1, VersionIs, Constants
  <2>4. Change /\ saved' = saved /\ left' = left /\ UNCHANGED <<filesVars, phase, clean, saveVars, boundVars, undisturbed>>
    BY <1>3 DEF Seen, historyVars
  <2>5. r \in Record \union {NoDevice}
    BY <2>1
  <2> QED BY <2>2, <2>3, <2>4, <2>5, ChangeKeeps
<1>4. CASE Report(d)
  <2> DEFINE r == [live[d] EXCEPT !.state = time + 1]
  <2>1. live[d] # NoDevice
    BY <1>4, Nothing DEF Report, is_persistable
  <2>2. live[d] \in Record /\ Version(live[d]) = live[d].v
    BY <1>1, <2>1, VersionIs
  <2>3. r \in Record /\ r.v = live[d].v
    BY <1>2, <1>4, <2>2 DEF Report, Record
  <2>4. live' = [live EXCEPT ![d] = r]
    BY <1>4 DEF Report
  <2> HIDE DEF r
  <2>5. r # NoDevice /\ Version(r) = Version(live[d])
    BY <2>2, <2>3, VersionIs, Constants
  <2>6. Change /\ saved' = saved /\ left' = left /\ UNCHANGED <<filesVars, phase, clean, saveVars, boundVars, undisturbed>>
    BY <1>4 DEF Report, historyVars
  <2> QED BY <2>1, <2>3, <2>4, <2>5, <2>6, ChangeKeeps
<1>5. CASE Left(d)
  <2>1. /\ Change /\ live' = [live EXCEPT ![d] = NoDevice]
        /\ saved' = [saved EXCEPT ![d] = 0] /\ left' = left \union {d}
        /\ UNCHANGED <<filesVars, phase, clean, saveVars, boundVars, undisturbed>>
    BY <1>5 DEF Left
  <2> QED BY <2>1, ChangeKeeps
<1> QED
  BY <1>3, <1>4, <1>5

-----------------------------------------------------------------------------
\* The steps of a save.

LEMMA Underway ==
  ASSUME TypeOK, NEW p \in Proc, step[p].at # "idle"
  PROVE  /\ phase # "down" /\ step[p] # Idle
         /\ p = Main => phase = "stopping"
         /\ step[p] \in Step
<1>1. step[p] # Idle
  BY Steps
<1>2. phase # "down"
  BY <1>1 DEF TypeOK
<1> QED
  BY <1>1, <1>2 DEF TypeOK

\* What every step keeps that moves a save on and leaves the registry and the
\* files alone.
LEMMA MoveKeeps ==
  ASSUME IInv, NEW p \in Proc, NEW x \in Step, NEW y \in [Device -> Record \union {NoDevice}], NEW z \in Seq(Line),
         step' = [step EXCEPT ![p] = x], snapshot' = [snapshot EXCEPT ![p] = y], text' = [text EXCEPT ![p] = z],
         UNCHANGED <<live, time, file, last, phase, clean, starts, saved, left>>,
         failures' \in 0..MaxFailures, undisturbed' \in BOOLEAN,
         SaveOf(p)',
         phase # "down", p = Main => phase = "stopping",
         \E q \in Proc : IF q = p THEN x.at # "write" ELSE step[q].at # "write",
         \A d \in Device : y[d] \in {snapshot[p][d], live[d], NoDevice},
         p = Main /\ x # Idle => \A d \in Device \ x.todo : y[d] = live[d],
         phase = "stopping" /\ undisturbed' =>
           undisturbed /\ x # Idle /\ step[p] # Idle /\ (x.target = "state" => step[p].target = "state")
  PROVE  IInv'
<1>1. TypeOK /\ Saves /\ Written /\ Past /\ Later /\ Final /\ Exit /\ KeptUnlessLeft
  BY DEF IInv
<1>2. /\ step'[p] = x /\ snapshot'[p] = y /\ text'[p] = z
      /\ \A q \in Proc \ {p} : step'[q] = step[q] /\ snapshot'[q] = snapshot[q] /\ text'[q] = text[q]
  BY <1>1 DEF TypeOK
<1>3. Main \in Proc /\ Saver \in Proc /\ Main # Saver
  BY DEF Proc, Main, Saver
<1>4. file' = file /\ live' = live /\ phase' = phase /\ saved' = saved /\ time' = time /\ last' = last
  OBVIOUS
<1>5. \A d \in Device : VersionOf(d)' = VersionOf(d)
  BY <1>4, FilesKept
<1>6. /\ time \in Nat
      /\ \A d \in Device :
           /\ VersionOf(d) \in Nat /\ Version(live[d]) \in Nat /\ saved[d] \in Nat
           /\ \A q \in Proc : Version(snapshot[q][d]) \in Nat
  BY <1>1, Times
<1>7. \A d \in Device : y[d] = snapshot[p][d] \/ y[d] = live[d] \/ y[d] = NoDevice
  OBVIOUS
<1>8. TypeOK'
  <2>1. step' \in [Proc -> Step] /\ text' \in [Proc -> Seq(Line)]
    BY <1>1 DEF TypeOK
  <2>2. snapshot' \in [Proc -> [Device -> Record \union {NoDevice}]]
    BY <1>1 DEF TypeOK
  <2>3. step'[Main] # Idle => phase = "stopping"
    BY <1>1, <1>2, <1>3 DEF TypeOK
  <2>4. \E q \in Proc : step'[q].at # "write"
    BY <1>2
  <2> QED BY <1>1, <1>4, <2>1, <2>2, <2>3, <2>4 DEF TypeOK
<1>9. Saves'
  <2>1. Existing' = Existing
    BY <1>4, FilesKept
  <2>2. \A q \in Proc \ {p} : SaveOf(q)'
    BY <1>1, <1>2, <2>1, SaveKept DEF Saves
  <2> QED BY <2>2 DEF Saves
<1>10. Written'
  BY <1>1, <1>4 DEF Written
<1>11. Past'
  <2>1. ASSUME NEW d \in Device PROVE Version(y[d]) <= time
    <3>1. Version(snapshot[p][d]) <= time /\ Version(live[d]) <= time /\ Version(NoDevice) <= time
      BY <1>1, <1>6, Nothing DEF Past
    <3> QED BY <1>7, <3>1, Zenon
  <2>2. \A d \in Device, q \in Proc : Version(snapshot'[q][d]) <= time
    BY <1>1, <1>2, <2>1 DEF Past
  <2> QED BY <1>1, <1>4, <1>5, <2>2 DEF Past
<1>12. Later'
  <2>1. ASSUME p = Saver, NEW d \in Device, live[d] # NoDevice PROVE Version(y[d]) <= Version(live[d])
    <3>1. /\ Version(snapshot[p][d]) <= Version(live[d]) /\ Version(live[d]) <= Version(live[d])
          /\ Version(NoDevice) <= Version(live[d])
      BY <1>1, <1>6, <2>1, Nothing DEF Later
    <3> QED BY <1>7, <3>1, Zenon
  <2> QED BY <1>1, <1>2, <1>3, <1>4, <2>1 DEF Later
<1>13. Final'
  BY <1>1, <1>2, <1>3, <1>4 DEF Final
<1>14. Exit'
  <2>1. SUFFICES ASSUME phase = "stopping", undisturbed'
                 PROVE  /\ step'[Saver] = Idle /\ step'[Main] # Idle
                        /\ step'[Main].target = "state" =>
                             \A d \in Device : VersionOf(d)' = Version(live'[d])
    BY <1>4 DEF Exit
  <2>2. undisturbed /\ x # Idle /\ step[p] # Idle /\ (x.target = "state" => step[p].target = "state")
    BY <2>1
  <2>3. step[Saver] = Idle
    BY <1>1, <2>1, <2>2 DEF Exit
  <2>4. p = Main
    BY <2>2, <2>3 DEF Proc
  <2>5. x.target = "state" => \A d \in Device : VersionOf(d) = Version(live[d])
    BY <1>1, <2>1, <2>2, <2>4 DEF Exit
  <2> QED BY <1>2, <1>3, <1>4, <1>5, <2>2, <2>3, <2>4, <2>5
<1>15. KeptUnlessLeft'
  BY <1>1, <1>4, <1>5 DEF KeptUnlessLeft
<1> QED
  BY <1>8, <1>9, <1>10, <1>11, <1>12, <1>13, <1>14, <1>15 DEF IInv

\* What follows a file.
LEMMA FileDoneIs ==
  ASSUME TypeOK, NEW p \in Proc, FileDone(p)
  PROVE  \E x \in Step, y \in [Device -> Record \union {NoDevice}], z \in Seq(Line) :
           /\ step' = [step EXCEPT ![p] = x] /\ snapshot' = [snapshot EXCEPT ![p] = y]
           /\ text' = [text EXCEPT ![p] = z]
           /\ x.at # "write" /\ x.todo = {}
           /\ step[p].target = "db" => x # Idle /\ x.target = "state" /\ y = snapshot[p]
           /\ step[p].target # "db" => x = Idle /\ y = Nobody
           /\ SaveOf(p)'
<1>1. /\ step \in [Proc -> Step] /\ text \in [Proc -> Seq(Line)]
      /\ snapshot \in [Proc -> [Device -> Record \union {NoDevice}]]
  BY DEF TypeOK
<1>2. CASE step[p].target = "db"
  <2> DEFINE x == [at |-> "check", todo |-> {}, target |-> "state"]
             y == snapshot[p]
             z == RenderState(y)
  <2>1. step' = [step EXCEPT ![p] = x] /\ snapshot' = snapshot /\ text' = [text EXCEPT ![p] = z]
    BY <1>2 DEF FileDone, Goto
  <2>2. /\ x \in Step /\ x.at = "check" /\ x.todo = {} /\ x.target = "state" /\ x # Idle
    BY Steps DEF File
  <2>3. y \in [Device -> Record \union {NoDevice}]
    BY <1>1
  <2> HIDE DEF x
  <2>4. z \in Seq(Line)
    BY <2>3, ListedType
  <2>5. snapshot' = [snapshot EXCEPT ![p] = y]
    BY <1>1, <2>1
  <2>6. step'[p] = x /\ snapshot'[p] = y /\ text'[p] = z
    BY <1>1, <2>1
  <2>7. SaveOf(p)'
    BY <2>2, <2>6 DEF SaveOf
  <2> HIDE DEF y, z
  <2>8. y = snapshot[p]
    BY DEF y
  <2> QED BY <1>2, <2>1, <2>2, <2>3, <2>4, <2>5, <2>7, <2>8
<1>3. CASE step[p].target # "db"
  <2>1. /\ step' = [step EXCEPT ![p] = Idle] /\ text' = [text EXCEPT ![p] = <<>>]
        /\ snapshot' = [snapshot EXCEPT ![p] = Nobody]
    BY <1>3 DEF FileDone
  <2>2. step'[p] = Idle /\ snapshot'[p] = Nobody
    BY <1>1, <2>1
  <2>3. SaveOf(p)'
    BY <2>2, Steps DEF SaveOf
  <2> QED BY <1>3, <2>1, <2>3, Steps, Nothing, Constants
<1> QED
  BY <1>2, <1>3

LEMMA BeginKeeps ==
  ASSUME IInv, Begin
  PROVE  IInv'
<1> DEFINE x == [at |-> "copy", todo |-> Device, target |-> "db"]
           y == snapshot[Saver]
           z == text[Saver]
<1>1. TypeOK /\ Saves
  BY DEF IInv
<1>2. Saver \in Proc /\ Saver # Main
  BY DEF Proc, Saver, Main
<1>3. /\ phase \in {"running", "stopping"} /\ step[Saver] = Idle
      /\ step' = [step EXCEPT ![Saver] = x]
      /\ undisturbed' = (undisturbed /\ phase = "running")
      /\ UNCHANGED <<live, time, file, last, phase, clean, starts, saved, left, snapshot, text, failures>>
  BY DEF Begin, Goto, filesVars, boundVars
<1>4. x \in Step /\ x.at = "copy" /\ x.todo = Device /\ x.target = "db"
  BY Steps DEF File
<1> HIDE DEF x
<1>5. /\ y \in [Device -> Record \union {NoDevice}] /\ z \in Seq(Line)
      /\ snapshot' = [snapshot EXCEPT ![Saver] = y] /\ text' = [text EXCEPT ![Saver] = z]
      /\ step'[Saver] = x
  BY <1>1, <1>2, <1>3 DEF TypeOK
<1>6. y = Nobody
  BY <1>1, <1>2, <1>3, Steps DEF Saves, SaveOf
<1>7. SaveOf(Saver)'
  <2>1. \A d \in Device : snapshot'[Saver][d] = NoDevice
    BY <1>3, <1>6, Nothing
  <2> QED BY <1>4, <1>5, <2>1 DEF SaveOf
<1>8. failures' \in 0..MaxFailures /\ undisturbed' \in BOOLEAN
  <2>1. undisturbed' \in BOOLEAN
    BY <1>3, Zenon
  <2> QED BY <1>1, <1>3, <2>1 DEF TypeOK
<1>9. \A d \in Device : y[d] \in {snapshot[Saver][d], live[d], NoDevice}
  OBVIOUS
<1>10. ~(phase = "stopping" /\ undisturbed') /\ phase # "down"
  BY <1>3
<1>11. \E q \in Proc : IF q = Saver THEN x.at # "write" ELSE step[q].at # "write"
  BY <1>2, <1>4
<1> HIDE DEF y, z
<1> QED
  BY <1>2, <1>3, <1>4, <1>5, <1>7, <1>8, <1>9, <1>10, <1>11, MoveKeeps

LEMMA CopyKeeps ==
  ASSUME IInv, NEW p \in Proc, NEW d \in Device, Copy(p, d)
  PROVE  IInv'
<1> DEFINE left_over == step[p].todo \ {d}
           x == [at |-> IF step[p].todo = {d} THEN "read" ELSE "copy", todo |-> left_over, target |-> "db"]
           y == [snapshot[p] EXCEPT ![d] = live[d]]
           z == text[p]
<1>1. TypeOK /\ Saves /\ Final
  BY DEF IInv
<1>2. /\ step[p].at = "copy" /\ d \in step[p].todo
      /\ snapshot' = [snapshot EXCEPT ![p] = y]
      /\ step' = [step EXCEPT ![p] = x]
      /\ UNCHANGED <<live, time, file, last, phase, clean, starts, saved, left, text, failures, undisturbed>>
  BY DEF Copy, Goto, filesVars, boundVars, historyVars
<1>3. phase # "down" /\ step[p] # Idle /\ (p = Main => phase = "stopping") /\ step[p] \in Step
  BY <1>1, <1>2, Underway
<1>4. step[p].target = "db" /\ \A c \in step[p].todo : snapshot[p][c] = NoDevice
  BY <1>1, <1>2 DEF Saves, SaveOf
<1>5. left_over \in SUBSET Device /\ \A c \in left_over : c \in step[p].todo /\ c # d
  BY <1>3, Steps
<1>6. /\ x \in Step /\ x.at \in {"read", "copy"} /\ x.todo = left_over /\ x.target = "db" /\ x # Idle
      /\ x.at = "read" => left_over = {}
  <2>1. x \in Step /\ x.at \in {"read", "copy"} /\ x.todo = left_over /\ x.target = "db"
    BY <1>5, Steps DEF File
  <2>2. x.at = "read" => left_over = {}
    OBVIOUS
  <2> HIDE DEF x
  <2> QED BY <2>1, <2>2, Steps
<1>7. /\ y \in [Device -> Record \union {NoDevice}] /\ z \in Seq(Line)
      /\ text' = [text EXCEPT ![p] = z]
      /\ y[d] = live[d] /\ \A c \in Device \ {d} : y[c] = snapshot[p][c]
  BY <1>1, <1>2 DEF TypeOK
<1> HIDE DEF x, y, z, left_over
<1>8. step'[p] = x /\ snapshot'[p] = y
  BY <1>1, <1>2 DEF TypeOK
<1>9. SaveOf(p)'
  <2>1. \A c \in left_over : y[c] = NoDevice
    BY <1>4, <1>5, <1>7
  <2>2. x.at # "copy" => x.todo = {}
    BY <1>6
  <2> QED BY <1>6, <1>8, <2>1, <2>2 DEF SaveOf
<1>10. failures' \in 0..MaxFailures /\ undisturbed' \in BOOLEAN /\ (undisturbed' => undisturbed)
  BY <1>1, <1>2 DEF TypeOK
<1>11. \A c \in Device : y[c] \in {snapshot[p][c], live[c], NoDevice}
  BY <1>7
<1>12. p = Main => \A c \in Device \ x.todo : y[c] = live[c]
  <2>1. SUFFICES ASSUME p = Main, NEW c \in Device \ left_over PROVE y[c] = live[c]
    BY <1>6
  <2>2. c = d \/ c \in Device \ step[Main].todo
    BY <2>1 DEF left_over
  <2> QED BY <1>1, <1>3, <1>7, <2>1, <2>2 DEF Final
<1>13. \E q \in Proc : IF q = p THEN x.at # "write" ELSE step[q].at # "write"
  BY <1>6
<1> QED
  BY <1>2, <1>3, <1>6, <1>7, <1>9, <1>10, <1>11, <1>12, <1>13, MoveKeeps

LEMMA ReadKeeps ==
  ASSUME IInv, NEW p \in Proc, Read(p)
  PROVE  IInv'
<1> DEFINE x == [at |-> "check", todo |-> {}, target |-> "db"]
           y == snapshot[p]
           z == Render(Existing, snapshot[p])
<1>1. TypeOK /\ Saves /\ Final
  BY DEF IInv
<1>2. /\ step[p].at = "read"
      /\ text' = [text EXCEPT ![p] = z]
      /\ step' = [step EXCEPT ![p] = x]
      /\ UNCHANGED <<live, time, file, last, phase, clean, starts, saved, left, snapshot, failures, undisturbed>>
  BY DEF Read, Goto, Existing, filesVars, boundVars, historyVars
<1>3. phase # "down" /\ step[p] # Idle /\ (p = Main => phase = "stopping")
  BY <1>1, <1>2, Underway
<1>4. step[p].todo = {}
  BY <1>1, <1>2 DEF Saves, SaveOf
<1>5. x \in Step /\ x.at = "check" /\ x.todo = {} /\ x.target = "db" /\ x # Idle
  BY Steps DEF File
<1>6. y \in [Device -> Record \union {NoDevice}] /\ snapshot' = [snapshot EXCEPT ![p] = y]
  BY <1>1, <1>2 DEF TypeOK
<1>7. Existing \in Seq(Line)
  BY <1>1, Constants DEF TypeOK, Existing, File
<1> HIDE DEF x
<1>8. z \in Seq(Line) /\ Listed(z, y) /\ OtherLines(z) = OtherLines(Existing)
  BY <1>6, <1>7, ListedType
<1> HIDE DEF z
<1>9. step'[p] = x /\ snapshot'[p] = y /\ text'[p] = z
  BY <1>1, <1>2 DEF TypeOK
<1>10. SaveOf(p)'
  <2>1. Existing' = Existing
    BY <1>2, FilesKept
  <2> QED BY <1>5, <1>8, <1>9, <2>1 DEF SaveOf
<1>11. failures' \in 0..MaxFailures /\ undisturbed' \in BOOLEAN /\ (undisturbed' => undisturbed)
  BY <1>1, <1>2 DEF TypeOK
<1>12. p = Main => \A c \in Device \ x.todo : y[c] = live[c]
  BY <1>1, <1>3, <1>4 DEF Final
<1>13. \E q \in Proc : IF q = p THEN x.at # "write" ELSE step[q].at # "write"
  BY <1>5
<1>14. \A c \in Device : y[c] \in {snapshot[p][c], live[c], NoDevice}
  OBVIOUS
<1> HIDE DEF y
<1> QED
  BY <1>2, <1>3, <1>5, <1>6, <1>8, <1>10, <1>11, <1>12, <1>13, <1>14, MoveKeeps

LEMMA ReadFailsKeeps ==
  ASSUME IInv, NEW p \in Proc, ReadFails(p)
  PROVE  IInv'
<1> DEFINE z == text[p]
<1>1. TypeOK
  BY DEF IInv
<1>2. /\ step[p].at = "read" /\ MayFail(TRUE)
      /\ step' = [step EXCEPT ![p] = Idle]
      /\ snapshot' = [snapshot EXCEPT ![p] = Nobody]
      /\ undisturbed' = FALSE
      /\ UNCHANGED <<live, time, file, last, phase, clean, starts, saved, left, text>>
  BY DEF ReadFails, filesVars
<1>3. phase # "down" /\ step[p] # Idle /\ (p = Main => phase = "stopping")
  BY <1>1, <1>2, Underway
<1>4. z \in Seq(Line) /\ text' = [text EXCEPT ![p] = z]
  BY <1>1, <1>2 DEF TypeOK
<1> HIDE DEF z
<1>5. step'[p] = Idle /\ snapshot'[p] = Nobody
  BY <1>1, <1>2 DEF TypeOK
<1>6. SaveOf(p)'
  BY <1>5, Steps DEF SaveOf
<1>7. failures' \in 0..MaxFailures /\ undisturbed' \in BOOLEAN /\ ~undisturbed'
  BY <1>1, <1>2, MayFailIs
<1>8. \E q \in Proc : IF q = p THEN Idle.at # "write" ELSE step[q].at # "write"
  BY Steps
<1>9. \A c \in Device : Nobody[c] \in {snapshot[p][c], live[c], NoDevice}
  BY Nothing
<1>10. Idle \in Step /\ Nobody \in [Device -> Record \union {NoDevice}]
  BY Steps, Nothing
<1> QED
  BY <1>2, <1>3, <1>4, <1>6, <1>7, <1>8, <1>9, <1>10, MoveKeeps

LEMMA WriteKeeps ==
  ASSUME IInv, NEW p \in Proc, Write(p)
  PROVE  IInv'
<1> DEFINE x == [at |-> "write", todo |-> {}, target |-> step[p].target]
           y == snapshot[p]
           z == text[p]
<1>1. TypeOK /\ Saves /\ Final
  BY DEF IInv
<1>2. /\ step[p].at = "check" /\ \A q \in Proc : step[q].at # "write"
      /\ step' = [step EXCEPT ![p] = x]
      /\ UNCHANGED <<live, time, file, last, phase, clean, starts, saved, left, snapshot, text, failures, undisturbed>>
  BY DEF Write, CanCheck, WhileWriting, Goto, boundVars, historyVars
<1>3. phase # "down" /\ step[p] # Idle /\ (p = Main => phase = "stopping") /\ step[p] \in Step
  BY <1>1, <1>2, Underway
<1>4. step[p].todo = {} /\ SaveOf(p)
  BY <1>1, <1>2 DEF Saves, SaveOf
<1>5. x \in Step /\ x.at = "write" /\ x.todo = {} /\ x.target = step[p].target /\ x # Idle
  BY <1>3, Steps
<1>6. /\ y \in [Device -> Record \union {NoDevice}] /\ z \in Seq(Line)
      /\ snapshot' = [snapshot EXCEPT ![p] = y] /\ text' = [text EXCEPT ![p] = z]
      /\ step'[p] = x /\ snapshot'[p] = snapshot[p] /\ text'[p] = text[p]
  BY <1>1, <1>2 DEF TypeOK
<1> HIDE DEF x
<1>7. SaveOf(p)'
  <2>1. Existing' = Existing
    BY <1>2, FilesKept
  <2> QED BY <1>2, <1>4, <1>5, <1>6, <2>1 DEF SaveOf
<1>8. failures' \in 0..MaxFailures /\ undisturbed' \in BOOLEAN /\ (undisturbed' => undisturbed)
  BY <1>1, <1>2 DEF TypeOK
<1>9. p = Main => \A c \in Device \ x.todo : y[c] = live[c]
  BY <1>1, <1>3, <1>4 DEF Final
<1>10. \E q \in Proc : IF q = p THEN x.at # "write" ELSE step[q].at # "write"
  <2>1. \E q \in Proc : q # p
    BY DEF Proc, Saver, Main
  <2> QED BY <1>2, <2>1
<1>11. \A c \in Device : y[c] \in {snapshot[p][c], live[c], NoDevice}
  OBVIOUS
<1> HIDE DEF y, z
<1> QED
  BY <1>2, <1>3, <1>5, <1>6, <1>7, <1>8, <1>9, <1>10, <1>11, MoveKeeps

LEMMA WriteFailsKeeps ==
  ASSUME IInv, NEW p \in Proc, WriteFails(p)
  PROVE  IInv'
<1>1. TypeOK /\ Saves /\ Final
  BY DEF IInv
<1>2. /\ step[p].at = "write" /\ MayFail(TRUE) /\ FileDone(p)
      /\ undisturbed' = FALSE
      /\ UNCHANGED <<live, time, file, last, phase, clean, starts, saved, left>>
  BY DEF WriteFails, LastIfFailed
<1>3. phase # "down" /\ step[p] # Idle /\ (p = Main => phase = "stopping")
  BY <1>1, <1>2, Underway
<1>4. step[p].todo = {}
  BY <1>1, <1>2 DEF Saves, SaveOf
<1>5. PICK x \in Step, y \in [Device -> Record \union {NoDevice}], z \in Seq(Line) :
           /\ step' = [step EXCEPT ![p] = x] /\ snapshot' = [snapshot EXCEPT ![p] = y]
           /\ text' = [text EXCEPT ![p] = z]
           /\ x.at # "write" /\ x.todo = {}
           /\ step[p].target = "db" => x # Idle /\ x.target = "state" /\ y = snapshot[p]
           /\ step[p].target # "db" => x = Idle /\ y = Nobody
           /\ SaveOf(p)'
  BY <1>1, <1>2, FileDoneIs
<1>6. failures' \in 0..MaxFailures /\ undisturbed' \in BOOLEAN /\ ~undisturbed'
  BY <1>1, <1>2, MayFailIs
<1>7. \E q \in Proc : IF q = p THEN x.at # "write" ELSE step[q].at # "write"
  BY <1>5
<1>8. \A c \in Device : y[c] \in {snapshot[p][c], live[c], NoDevice}
  BY <1>5, Nothing
<1>9. p = Main /\ x # Idle => \A c \in Device \ x.todo : y[c] = live[c]
  BY <1>1, <1>3, <1>4, <1>5 DEF Final
<1> QED
  BY <1>2, <1>3, <1>5, <1>6, <1>7, <1>8, <1>9, MoveKeeps

\* A save that finds its file as it would write it might as well have written it.
LEMMA FinishIs ==
  ASSUME TypeOK, Written, NEW p \in Proc, Skip(p) \/ Replace(p)
  PROVE  /\ step[p].at \in {"check", "write"}
         /\ file' = [file EXCEPT ![step[p].target] = text[p]]
         /\ last' = [last EXCEPT ![step[p].target] = text[p]]
         /\ FileDone(p) /\ Stored(p)
         /\ UNCHANGED <<live, time, phase, clean, failures, starts, left, undisturbed>>
<1>1. CASE Replace(p)
  BY <1>1 DEF Replace, boundVars
<1>2. CASE Skip(p)
  <2> DEFINE f == step[p].target
  <2>1. /\ step[p].at = "check" /\ Unchanged(p) /\ file' = file
        /\ last' = [last EXCEPT ![step[p].target] = text[p]]
        /\ FileDone(p) /\ Stored(p)
        /\ UNCHANGED <<live, time, phase, clean, failures, starts, left, undisturbed>>
    BY <1>2 DEF Skip, CanCheck, boundVars
  <2>2. f \in File /\ text[p] \in Seq(Line)
    BY Steps DEF TypeOK
  <2>3. file[f] = text[p]
    <3>1. last[f] = text[p] \/ file[f] = text[p]
      BY <2>1 DEF Unchanged
    <3>2. CASE last[f] = text[p]
      BY <2>2, <3>2, Constants DEF Written
    <3> QED BY <3>1, <3>2
  <2>4. file = [file EXCEPT ![f] = text[p]]
    BY <2>2, <2>3 DEF TypeOK
  <2> QED BY <2>1, <2>4
<1> QED
  BY <1>1, <1>2

LEMMA FinishKeeps ==
  ASSUME IInv, NEW p \in Proc, Skip(p) \/ Replace(p)
  PROVE  IInv'
<1> DEFINE f == step[p].target
<1>1. TypeOK /\ Saves /\ Written /\ Past /\ Later /\ Final /\ Exit /\ KeptUnlessLeft
  BY DEF IInv
<1>2. /\ step[p].at \in {"check", "write"}
      /\ file' = [file EXCEPT ![f] = text[p]]
      /\ last' = [last EXCEPT ![f] = text[p]]
      /\ FileDone(p) /\ Stored(p)
      /\ live' = live /\ time' = time /\ phase' = phase /\ clean' = clean
      /\ failures' = failures /\ starts' = starts /\ left' = left /\ undisturbed' = undisturbed
  BY <1>1, FinishIs
<1>3. phase # "down" /\ step[p] # Idle /\ (p = Main => phase = "stopping") /\ step[p] \in Step
  BY <1>1, <1>2, Underway
<1>4. Main \in Proc /\ Saver \in Proc /\ Main # Saver /\ Proc = {Main, Saver}
  BY DEF Proc, Main, Saver
<1>5. f \in File /\ File = {"db", "state"} /\ text[p] \in Seq(Line)
  BY <1>1, <1>3, Steps DEF TypeOK, File
<1>6. /\ step[p].todo = {}
      /\ f = "db" => Listed(text[p], snapshot[p]) /\ OtherLines(text[p]) = OtherLines(Existing)
      /\ f = "state" => text[p] = RenderState(snapshot[p])
  BY <1>1, <1>2 DEF Saves, SaveOf
<1>7. PICK x \in Step, y \in [Device -> Record \union {NoDevice}], z \in Seq(Line) :
        /\ step' = [step EXCEPT ![p] = x] /\ snapshot' = [snapshot EXCEPT ![p] = y]
        /\ text' = [text EXCEPT ![p] = z]
        /\ x.at # "write" /\ x.todo = {}
        /\ f = "db" => x # Idle /\ x.target = "state" /\ y = snapshot[p]
        /\ f # "db" => x = Idle /\ y = Nobody
        /\ SaveOf(p)'
  BY <1>1, <1>2, FileDoneIs
<1>8. /\ step'[p] = x /\ snapshot'[p] = y /\ text'[p] = z
      /\ \A q \in Proc \ {p} : step'[q] = step[q] /\ snapshot'[q] = snapshot[q] /\ text'[q] = text[q]
  BY <1>1, <1>7 DEF TypeOK
<1>9. snapshot[p] \in [Device -> Record \union {NoDevice}]
  BY <1>1 DEF TypeOK
<1>10. /\ file'[f] = text[p] /\ last'[f] = text[p]
       /\ \A g \in File \ {f} : file'[g] = file[g] /\ last'[g] = last[g]
  BY <1>1, <1>2, <1>5 DEF TypeOK
<1>11. f = "db" => \A d \in Device : VersionOf(d)' = Version(snapshot[p][d])
  <2>1. SUFFICES ASSUME f = "db", NEW d \in Device PROVE VersionOf(d)' = Version(snapshot[p][d])
    OBVIOUS
  <2>2. Found' = text[p]
    BY <1>5, <1>10, <2>1, Constants DEF Found
  <2>3. ValueOf(text[p], d) = Version(snapshot[p][d])
    BY <1>6, <1>9, <2>1, ListedValue
  <2> QED BY <2>2, <2>3 DEF VersionOf
<1>12. f # "db" => Found' = Found /\ Existing' = Existing /\ \A d \in Device : VersionOf(d)' = VersionOf(d)
  BY <1>5, <1>10 DEF Found, Existing, VersionOf
<1>13. f = "db" => OtherLines(Existing') = OtherLines(Existing)
  <2>1. f = "db" => Existing' = text[p]
    BY <1>5, <1>10, Constants DEF Existing
  <2> QED BY <1>6, <2>1
<1>14. /\ p = Saver /\ f = "db" =>
            \A d \in Device : saved'[d] = IF live[d] = NoDevice THEN 0 ELSE Version(snapshot[p][d])
       /\ ~(p = Saver /\ f = "db") => saved' = saved
  BY <1>2 DEF Stored
<1>15. /\ time \in Nat
       /\ \A d \in Device :
            /\ VersionOf(d) \in Nat /\ Version(live[d]) \in Nat /\ saved[d] \in Nat
            /\ \A q \in Proc : Version(snapshot[q][d]) \in Nat /\ Version(snapshot[q][d]) \in Time
  BY <1>1, Times
<1>16. \A d \in Device : y[d] = snapshot[p][d] \/ y[d] = NoDevice
  BY <1>7, Nothing
<1>17. p = Main => \A d \in Device : snapshot[Main][d] = live[d]
  BY <1>1, <1>3, <1>6 DEF Final
<1>18. TypeOK'
  <2>1. step' \in [Proc -> Step] /\ text' \in [Proc -> Seq(Line)]
    BY <1>1, <1>7 DEF TypeOK
  <2>2. snapshot' \in [Proc -> [Device -> Record \union {NoDevice}]]
    BY <1>1, <1>7 DEF TypeOK
  <2>3. step'[Main] # Idle => phase = "stopping"
    BY <1>1, <1>3, <1>4, <1>8 DEF TypeOK
  <2>4. \E q \in Proc : step'[q].at # "write"
    BY <1>7, <1>8
  <2>5. file' \in [File -> Seq(Line) \union {Absent}] /\ last' \in [File -> Seq(Line) \union {Unknown}]
    BY <1>1, <1>2, <1>5 DEF TypeOK
  <2>6. saved' \in [Device -> Time]
    <3>1. CASE p = Saver /\ f = "db"
      <4>1. saved' = [d \in Device |-> IF live[d] = NoDevice THEN 0 ELSE Version(snapshot[p][d])]
        BY <1>2, <3>1 DEF Stored
      <4> QED BY <1>15, <4>1, Constants
    <3>2. CASE ~(p = Saver /\ f = "db")
      BY <1>1, <1>14, <3>2 DEF TypeOK
    <3> QED BY <3>1, <3>2
  <2> QED BY <1>1, <1>2, <1>3, <2>1, <2>2, <2>3, <2>4, <2>5, <2>6 DEF TypeOK
<1>19. Saves'
  <2>1. OtherLines(Existing') = OtherLines(Existing)
    BY <1>12, <1>13
  <2>2. \A q \in Proc \ {p} : SaveOf(q)'
    BY <1>1, <1>8, <2>1, SaveKept DEF Saves
  <2> QED BY <1>7, <2>2 DEF Saves
<1>20. Written'
  BY <1>1, <1>5, <1>10 DEF Written
<1> HIDE DEF f
<1>21. Past'
  <2>1. ASSUME NEW d \in Device
        PROVE  /\ VersionOf(d)' <= time /\ saved'[d] <= time
               /\ \A q \in Proc : Version(snapshot'[q][d]) <= time
    <3>1. /\ VersionOf(d) <= time /\ saved[d] <= time /\ 0 <= time
          /\ \A q \in Proc : Version(snapshot[q][d]) <= time
      BY <1>1, <1>15 DEF Past
    <3>2. VersionOf(d)' <= time
      BY <1>11, <1>12, <3>1
    <3>3. saved'[d] <= time
      BY <1>14, <3>1
    <3>4. Version(y[d]) <= time
      <4>1. Version(NoDevice) <= time
        BY <3>1, Nothing
      <4> QED BY <1>16, <3>1, <4>1, Zenon
    <3>5. \A q \in Proc : Version(snapshot'[q][d]) <= time
      BY <1>8, <3>1, <3>4
    <3> QED BY <3>2, <3>3, <3>5
  <2>2. 2 <= time /\ \A d \in Device : Version(live[d]) <= time
    BY <1>1 DEF Past
  <2> QED BY <1>2, <2>1, <2>2 DEF Past
<1>22. \A d \in Device : /\ saved[d] <= Version(live[d])
                         /\ live[d] # NoDevice => Version(snapshot[Saver][d]) <= Version(live[d])
  BY <1>1, <1>3 DEF Later
<1>23. Later'
  <2>1. \A d \in Device : saved'[d] <= Version(live[d])
    BY <1>14, <1>15, <1>22
  <2>2. ASSUME NEW d \in Device, live[d] # NoDevice
        PROVE  Version(snapshot'[Saver][d]) <= Version(live[d])
    <3>1. CASE p = Saver
      <4>1. Version(snapshot[p][d]) <= Version(live[d]) /\ Version(NoDevice) <= Version(live[d])
        BY <1>15, <1>22, <2>2, <3>1, Nothing
      <4>2. Version(y[d]) <= Version(live[d])
        BY <1>16, <4>1, Zenon
      <4> QED BY <1>8, <3>1, <4>2
    <3>2. CASE p # Saver
      BY <1>4, <1>8, <1>22, <2>2, <3>2
    <3> QED BY <3>1, <3>2
  <2> QED BY <1>2, <2>1, <2>2 DEF Later
<1>24. Final'
  <2>1. SUFFICES ASSUME step'[Main] # Idle, NEW d \in Device \ step'[Main].todo
                 PROVE  snapshot'[Main][d] = live[d]
    BY <1>2 DEF Final
  <2>2. CASE p = Main
    BY <1>7, <1>8, <1>17, <2>1, <2>2
  <2>3. CASE p # Main
    BY <1>1, <1>4, <1>8, <2>1, <2>3 DEF Final
  <2> QED BY <2>2, <2>3
<1>25. Exit'
  <2>1. SUFFICES ASSUME phase = "stopping", undisturbed
                 PROVE  /\ step'[Saver] = Idle
                        /\ step'[Main] = Idle \/ step'[Main].target = "state" =>
                             \A d \in Device : VersionOf(d)' = Version(live[d])
                        /\ step'[Main] = Idle => Saved'
    BY <1>2 DEF Exit
  <2>2. step[Saver] = Idle
    BY <1>1, <2>1 DEF Exit
  <2>3. p = Main
    BY <1>3, <1>4, <2>2
  <2>4. step'[Saver] = Idle
    BY <1>4, <1>8, <2>2, <2>3
  <2>5. \A d \in Device : VersionOf(d)' = Version(live[d])
    <3>1. CASE f = "db"
      BY <1>11, <1>17, <2>3, <3>1
    <3>2. CASE f # "db"
      <4>1. step[Main].target = "state"
        BY <1>5, <2>3, <3>2 DEF f
      <4>2. \A d \in Device : VersionOf(d) = Version(live[d])
        BY <1>1, <2>1, <4>1 DEF Exit
      <4> QED BY <1>12, <3>2, <4>2
    <3> QED BY <3>1, <3>2
  <2>6. step'[Main] = Idle => Saved'
    <3>1. SUFFICES ASSUME step'[Main] = Idle PROVE Saved'
      OBVIOUS
    <3>2. f = "state"
      BY <1>5, <1>7, <1>8, <2>3, <3>1
    <3>3. file'["state"] = RenderState(snapshot[Main])
      BY <1>6, <1>10, <2>3, <3>2
    <3>4. file'["state"] # Absent
      BY <1>5, <1>10, <3>2, Constants
    <3>5. ASSUME NEW d \in Device, is_persistable(live[d])
          PROVE  StateOf(d)' = live[d].state
      <4>1. snapshot[Main][d] = live[d]
        BY <1>17, <2>3
      <4>2. ValueOf(RenderState(snapshot[Main]), d) =
              IF is_persistable(snapshot[Main][d]) THEN snapshot[Main][d].state ELSE 0
        BY <1>9, <2>3, StateListed
      <4>3. StateOf(d)' = ValueOf(file'["state"], d)
        BY <3>4 DEF StateOf
      <4> QED BY <3>3, <3>5, <4>1, <4>2, <4>3
    <3> QED BY <1>2, <2>5, <3>5 DEF Saved
  <2> QED BY <2>4, <2>5, <2>6
<1>26. KeptUnlessLeft'
  <2>1. ASSUME NEW d \in Device PROVE VersionOf(d)' >= saved'[d]
    <3>1. VersionOf(d) >= saved[d]
      BY <1>1 DEF KeptUnlessLeft
    <3>2. CASE f # "db"
      BY <1>12, <1>14, <3>1, <3>2
    <3>3. CASE f = "db" /\ p = Saver
      BY <1>11, <1>14, <1>15, <3>3
    <3>4. CASE f = "db" /\ p # Saver
      <4>1. p = Main
        BY <1>4, <3>4
      <4>2. VersionOf(d)' = Version(live[d]) /\ saved'[d] = saved[d]
        BY <1>11, <1>14, <1>17, <3>4, <4>1
      <4> QED BY <1>15, <1>22, <4>2
    <3> QED BY <3>2, <3>3, <3>4
  <2> QED BY <2>1 DEF KeptUnlessLeft
<1> QED
  BY <1>18, <1>19, <1>20, <1>21, <1>23, <1>24, <1>25, <1>26 DEF IInv

-----------------------------------------------------------------------------
\* Stopping.

LEMMA ShutdownKeeps ==
  ASSUME IInv, NEW c \in BOOLEAN, Shutdown(c)
  PROVE  IInv'
<1> DEFINE x == [at |-> "copy", todo |-> Device, target |-> "db"]
<1>1. TypeOK /\ Saves /\ Written /\ Past /\ Later /\ KeptUnlessLeft
  BY DEF IInv
<1>2. /\ phase = "running" /\ phase' = "stopping" /\ clean' = c
      /\ step' = [step EXCEPT ![Main] = x]
      /\ undisturbed' = (step[Saver] = Idle)
      /\ live' = live /\ time' = time /\ file' = file /\ last' = last /\ snapshot' = snapshot
      /\ text' = text /\ failures' = failures /\ starts' = starts /\ saved' = saved /\ left' = left
  BY DEF Shutdown, Goto, filesVars, boundVars
<1>3. Main \in Proc /\ Saver \in Proc /\ Main # Saver
  BY DEF Proc, Main, Saver
<1>4. x \in Step /\ x.at = "copy" /\ x.todo = Device /\ x.target = "db" /\ x # Idle
  BY Steps DEF File
<1> HIDE DEF x
<1>5. step[Main] = Idle /\ snapshot[Main] = Nobody
  <2>1. step[Main] = Idle
    BY <1>1, <1>2 DEF TypeOK
  <2> QED BY <1>1, <1>3, <2>1, Steps DEF Saves, SaveOf
<1>6. step'[Main] = x /\ \A q \in Proc \ {Main} : step'[q] = step[q]
  BY <1>1, <1>2, <1>3 DEF TypeOK
<1>7. Existing' = Existing /\ \A d \in Device : VersionOf(d)' = VersionOf(d)
  BY <1>2, FilesKept
<1>8. TypeOK'
  <2>1. step' \in [Proc -> Step]
    BY <1>1, <1>2, <1>4 DEF TypeOK
  <2>2. \E q \in Proc : step'[q].at # "write"
    BY <1>3, <1>4, <1>6
  <2>3. undisturbed' \in BOOLEAN
    BY <1>2, Zenon
  <2> QED BY <1>1, <1>2, <2>1, <2>2, <2>3 DEF TypeOK
<1>9. Saves'
  <2>1. \A q \in Proc \ {Main} : SaveOf(q)'
    BY <1>1, <1>2, <1>6, <1>7, SaveKept DEF Saves
  <2>2. \A d \in Device : snapshot'[Main][d] = NoDevice
    BY <1>2, <1>5, Nothing
  <2>3. SaveOf(Main)'
    BY <1>4, <1>6, <2>2 DEF SaveOf
  <2> QED BY <2>1, <2>3 DEF Saves
<1>10. Written'
  BY <1>1, <1>2 DEF Written
<1>11. Past'
  BY <1>1, <1>2, <1>7 DEF Past
<1>12. Later'
  BY <1>1, <1>2 DEF Later
<1>13. Final'
  BY <1>4, <1>6 DEF Final
<1>14. Exit'
  BY <1>2, <1>3, <1>4, <1>6 DEF Exit
<1>15. KeptUnlessLeft'
  BY <1>1, <1>2, <1>7 DEF KeptUnlessLeft
<1> QED
  BY <1>8, <1>9, <1>10, <1>11, <1>12, <1>13, <1>14, <1>15 DEF IInv

LEMMA ForgetKeeps ==
  ASSUME IInv, Forget
  PROVE  IInv'
<1>1. TypeOK /\ Past /\ KeptUnlessLeft
  BY DEF IInv
<1>2. /\ phase' = "down" /\ live' = Nobody /\ last' = [f \in File |-> Unknown]
      /\ step' = [p \in Proc |-> Idle] /\ snapshot' = [p \in Proc |-> Nobody] /\ text' = [p \in Proc |-> <<>>]
      /\ time' = time /\ file' = file /\ clean' = clean /\ failures' = failures /\ starts' = starts
      /\ saved' = saved /\ left' = left /\ undisturbed' = undisturbed
  BY DEF Forget, boundVars, historyVars
<1>3. \A d \in Device : VersionOf(d)' = VersionOf(d)
  BY <1>2, FilesKept
<1>4. time \in Nat
  BY <1>1, Times
<1>5. Main \in Proc /\ Saver \in Proc
  BY DEF Proc
<1>6. TypeOK'
  <2>1. step' \in [Proc -> Step] /\ text' \in [Proc -> Seq(Line)]
    BY <1>2, Steps, Constants
  <2>2. snapshot' \in [Proc -> [Device -> Record \union {NoDevice}]] /\ live' \in [Device -> Record \union {NoDevice}]
    BY <1>2, Nothing
  <2>3. step'[Main] = Idle /\ step'[Main].at # "write"
    BY <1>2, <1>5, Steps
  <2>4. last' \in [File -> Seq(Line) \union {Unknown}]
    BY <1>2
  <2> QED BY <1>1, <1>2, <1>5, <2>1, <2>2, <2>3, <2>4 DEF TypeOK
<1>7. Saves'
  <2>1. ASSUME NEW p \in Proc PROVE SaveOf(p)'
    <3>1. step'[p] = Idle /\ snapshot'[p] = Nobody
      BY <1>2
    <3> QED BY <3>1, Steps DEF SaveOf
  <2> QED BY <2>1 DEF Saves
<1>8. Written'
  BY <1>2 DEF Written
<1>9. Past'
  <2>1. \A d \in Device : Version(live'[d]) = 0 /\ \A p \in Proc : Version(snapshot'[p][d]) = 0
    BY <1>2, Nothing
  <2>2. 2 <= time /\ 0 <= time /\ \A d \in Device : VersionOf(d) <= time /\ saved[d] <= time
    BY <1>1, <1>4 DEF Past
  <2> QED BY <1>2, <1>3, <2>1, <2>2 DEF Past
<1>10. Later' /\ Exit'
  BY <1>2 DEF Later, Exit
<1>11. Final'
  BY <1>2, <1>5 DEF Final
<1>12. KeptUnlessLeft'
  BY <1>1, <1>2, <1>3 DEF KeptUnlessLeft
<1> QED
  BY <1>6, <1>7, <1>8, <1>9, <1>10, <1>11, <1>12 DEF IInv

LEMMA ReturnKeeps ==
  ASSUME IInv, Return
  PROVE  IInv'
<1>1. TypeOK /\ Saves /\ Written /\ Past /\ Later /\ Final /\ KeptUnlessLeft
  BY DEF IInv
<1>2. /\ phase = "stopping" /\ phase' = "draining" /\ step[Main] = Idle
      /\ live' = live /\ time' = time /\ file' = file /\ last' = last /\ clean' = clean
      /\ step' = step /\ snapshot' = snapshot /\ text' = text
      /\ failures' = failures /\ starts' = starts
      /\ saved' = saved /\ left' = left /\ undisturbed' = undisturbed
  BY DEF Return, filesVars, saveVars, boundVars, historyVars
<1>3. \A d \in Device : VersionOf(d)' = VersionOf(d)
  BY <1>2, FilesKept
<1>4. TypeOK'
  BY <1>1, <1>2 DEF TypeOK
<1>5. Saves'
  BY <1>1, <1>2, SavesKept DEF saveVars
<1>6. Written' /\ Later' /\ Final' /\ Exit'
  BY <1>1, <1>2 DEF Written, Later, Final, Exit
<1>7. Past' /\ KeptUnlessLeft'
  BY <1>1, <1>2, <1>3 DEF Past, KeptUnlessLeft
<1> QED
  BY <1>4, <1>5, <1>6, <1>7 DEF IInv

LEMMA StutterKeeps ==
  ASSUME IInv, UNCHANGED vars
  PROVE  IInv'
<1>1. TypeOK /\ Saves /\ Written /\ Past /\ Later /\ Final /\ Exit /\ KeptUnlessLeft
  BY DEF IInv
<1>2. /\ live' = live /\ time' = time /\ file' = file /\ last' = last /\ clean' = clean /\ phase' = phase
      /\ step' = step /\ snapshot' = snapshot /\ text' = text
      /\ failures' = failures /\ starts' = starts
      /\ saved' = saved /\ left' = left /\ undisturbed' = undisturbed
  BY DEF vars, filesVars, saveVars, boundVars, historyVars
<1>3. \A d \in Device : VersionOf(d)' = VersionOf(d) /\ StateOf(d)' = StateOf(d)
  BY <1>2, FilesKept
<1>4. TypeOK'
  BY <1>1, <1>2 DEF TypeOK
<1>5. Saves'
  BY <1>1, <1>2, SavesKept DEF saveVars
<1>6. Written' /\ Later' /\ Final'
  BY <1>1, <1>2 DEF Written, Later, Final
<1>7. Exit'
  BY <1>1, <1>2, <1>3 DEF Exit, Saved
<1>8. Past' /\ KeptUnlessLeft'
  BY <1>1, <1>2, <1>3 DEF Past, KeptUnlessLeft
<1> QED
  BY <1>4, <1>5, <1>6, <1>7, <1>8 DEF IInv

LEMMA NextKeeps ==
  ASSUME IInv, [Next]_vars
  PROVE  IInv'
<1>1. ASSUME NEW skipped \in SUBSET Devices(Found), NEW stateless \in BOOLEAN, Start(skipped, stateless)
      PROVE  IInv'
  BY <1>1, StartKeeps
<1>2. ASSUME NEW d \in Device, Seen(d) \/ Report(d) \/ Left(d)
      PROVE  IInv'
  BY <1>2, DeviceKeeps
<1>3. ASSUME NEW p \in Proc, SaveStep(p)
      PROVE  IInv'
  BY <1>3, CopyKeeps, ReadKeeps, ReadFailsKeeps, FinishKeeps, WriteKeeps, WriteFailsKeeps DEF SaveStep
<1>4. ASSUME NEW c \in BOOLEAN, Shutdown(c)
      PROVE  IInv'
  BY <1>4, ShutdownKeeps
<1>5. CASE Begin \/ Return
  BY <1>5, BeginKeeps, ReturnKeeps
<1>6. CASE ExitOnError \/ Drained \/ Crash
  BY <1>6, ForgetKeeps DEF ExitOnError, Drained, Crash
<1>7. CASE UNCHANGED vars
  BY <1>7, StutterKeeps
<1> QED
  BY <1>1, <1>2, <1>3, <1>4, <1>5, <1>6, <1>7 DEF Next

-----------------------------------------------------------------------------
\* The results.

LEMMA Invariance == Spec => []IInv
<1>1. Init => IInv
  BY InitInvariant
<1>2. IInv /\ [Next]_vars => IInv'
  BY NextKeeps
<1> QED
  BY <1>1, <1>2, PTL DEF Spec

\* The variables of the store keep their types; a save runs only while the
\* process is up, the main task's only when it stops, and at most one of the two
\* writes (src/persistence.rs, src/bridge.rs).
THEOREM TypeCorrect == Spec => []TypeOK
<1>1. IInv => TypeOK
  BY DEF IInv
<1> QED
  BY <1>1, Invariance, PTL

\* What a start has read or a periodic save has stored of a device is never
\* older in database.db from then on, until the device leaves, whatever crashes,
\* failures and saves that overlap there are (write_if_changed, write_atomic and
\* render_database).
THEOREM StoredIsKept == Spec => []KeptUnlessLeft
<1>1. IInv => KeptUnlessLeft
  BY DEF IInv
<1> QED
  BY <1>1, Invariance, PTL

\* A rewrite of database.db keeps the lines that are no device's, in their
\* order, and has one line per device (render_database).
THEOREM OtherLinesAreKept == Spec => MergeKeepsOthers
<1> DEFINE A == file'["db"] # file["db"] =>
                  /\ file["db"] # Absent => OtherLines(file'["db"]) = OtherLines(file["db"])
                  /\ Cardinality(Devices(file'["db"])) + Len(OtherLines(file'["db"])) = Len(file'["db"])
<1>1. ASSUME IInv, [Next]_vars, file'["db"] # file["db"] PROVE A
  <2>1. TypeOK /\ Saves /\ Written
    BY <1>1 DEF IInv
  <2>2. PICK p \in Proc : Replace(p)
    BY <1>1 DEF Next, Start, Seen, Report, Left, Begin, SaveStep, Copy, Read, ReadFails, Skip, Write,
                WhileWriting, WriteFails, Shutdown, ExitOnError, Return, Drained, Crash, Forget, vars,
                filesVars
  <2>3. step[p].at \in {"check", "write"} /\ file' = [file EXCEPT ![step[p].target] = text[p]]
    BY <2>1, <2>2, FinishIs
  <2>4. step[p].target = "db" /\ file'["db"] = text[p]
    BY <1>1, <2>1, <2>3 DEF TypeOK, File
  <2>5. Listed(text[p], snapshot[p]) /\ OtherLines(text[p]) = OtherLines(Existing)
    BY <2>1, <2>3, <2>4 DEF Saves, SaveOf
  <2>6. text[p] \in Seq(Line) /\ DevicesOnce(text[p])
    BY <2>5 DEF Listed, Lists
  <2>7. Cardinality(Devices(text[p])) + Len(OtherLines(text[p])) = Len(text[p])
    BY <2>6, LinesCounted
  <2>8. file["db"] # Absent => Existing = file["db"]
    BY DEF Existing
  <2> QED BY <2>4, <2>5, <2>7, <2>8
<1>2. IInv /\ [Next]_vars => [A]_vars
  BY <1>1
<1> HIDE DEF A
<1>3. Spec => [][A]_vars
  BY <1>2, Invariance, PTL DEF Spec
<1> QED
  BY <1>3 DEF A, MergeKeepsOthers

\* The files say what the registry said when the process ends after a shutdown
\* save that met no failure and no periodic save (Bridge::run).
THEOREM ShutdownSaves == Spec => SavedAtExit
<1> DEFINE A == (ExitOnError \/ Return) /\ undisturbed => Saved
<1>1. IInv => A
  BY DEF IInv, Exit, ExitOnError, Return
<1>2. IInv /\ [Next]_vars => [A]_vars
  BY <1>1
<1> HIDE DEF A
<1>3. Spec => [][A]_vars
  BY <1>2, Invariance, PTL DEF Spec
<1> QED
  BY <1>3 DEF A, SavedAtExit
=============================================================================

------------------------- MODULE CoordinatorProofs -------------------------
(***************************************************************************)
(* Proofs about Coordinator, for any tasks, capacities and numbers of      *)
(* messages and resets: the types, that start()'s own reset does no harm,  *)
(* that a lost endpoint does not go unnoticed, and that no message queued  *)
(* is lost on its way to the main loop.                                    *)
(***************************************************************************)
EXTENDS Coordinator, SelectionProofs

-----------------------------------------------------------------------------
\* The inductive invariant.

Own(f) == IsReset(f) /\ f.n = 0
Lost(f) == IsReset(f) /\ f.n > 0

ResponseFrame == [kind : {"response"}, status : {"ok", "bad", "rejected"}]
Frame == Indication \union ResponseFrame \union {OtherFrame}

\* What the pump passes on.
Wantable == {f \in Indication : IsWanted(f)}

Types ==
  /\ wire \in Seq(Frame)
  /\ events \in Seq(Indication) /\ early \in Seq(Indication)
  /\ out \in Seq(Wantable) /\ held \in Seq(Wantable)
  /\ lock \in Seq(Task \union {Main})
  /\ messages \in Nat /\ resets \in Nat
  /\ delivered \in Seq(Nat) /\ kept \in Seq(Nat)

\* start() has requests left until it has none, the last of them "info"; what
\* is skipped with "bdb1" is "bdb2".
StepsLeft ==
  \A i \in DOMAIN todo :
    /\ todo[i] # "version"
    /\ todo[i] = "info" <=> i = Len(todo)
    /\ todo[i] = "bdb1" => i + 1 \in DOMAIN todo /\ todo[i + 1] = "bdb2"

Steps ==
  /\ todo \in Seq(StartRequests)
  /\ \/ phase \in {"resetting", "asking"} /\ todo = <<"version">>
     \/ phase = "failed"
     \/ phase \in {"asking", "network", "networked"} /\ todo # <<>> /\ todo # <<"version">>
     \/ phase \in {"draining", "running"} /\ todo = <<>>
  /\ todo # <<"version">> => StepsLeft

\* Pump and main loop wait for start() to return.
Awaited ==
  /\ phase # "running" =>
       /\ pump = "absent" /\ loop = "absent" /\ lock = <<>>
       /\ \A t \in Task : task[t] = 0
       /\ held = <<>> /\ out = <<>> /\ delivered = <<>>
  /\ phase = "running" => pump # "absent" /\ loop # "absent"
  /\ phase = "resetting" => early = <<>>

\* One request is on its way, after the reset, and then its response.
Asked ==
  /\ pending # NoRequest =>
       \/ phase \in {"asking", "networked"} /\ pending = Head(todo)
       \/ phase = "running" /\ pending = ClientRequest /\ lock # <<>>
  /\ \/ toAdapter \in {<<>>, <<"reset">>}
     \/ pending # NoRequest /\ toAdapter \in {<<pending>>, <<"reset", pending>>}
  /\ \A i, j \in DOMAIN wire : wire[i].kind = "response" /\ wire[j].kind = "response" => i = j
  /\ \A i \in DOMAIN wire : wire[i].kind = "response" => pending # NoRequest /\ toAdapter = <<>>

\* The part of TypeOK about the main loop, its tasks and their lock.
LockOK ==
  /\ loop \in {"absent", "opening", "idle", "busy", "ended"}
  /\ task \in [Task -> 0..TaskRequests]
  /\ lock \in Seq(Task \union {Main})
  /\ \A i, j \in DOMAIN lock : lock[i] = lock[j] => i = j
  /\ \A i \in DOMAIN lock :
       IF lock[i] = Main THEN loop \in {"opening", "busy"} ELSE task[lock[i]] > 0

Base == TypeOK /\ Types /\ Steps /\ Awaited /\ Asked

-----------------------------------------------------------------------------
\* Sequences.

LEMMA Appended ==
  ASSUME NEW S, NEW s \in Seq(S), NEW e \in S
  PROVE  /\ Append(s, e) \in Seq(S) /\ Len(Append(s, e)) = Len(s) + 1 /\ Len(s) \in Nat
         /\ DOMAIN s = 1..Len(s) /\ DOMAIN Append(s, e) = 1..(Len(s) + 1)
         /\ \A j \in 1..Len(s) : Append(s, e)[j] = s[j]
         /\ Append(s, e)[Len(s) + 1] = e
OBVIOUS

LEMMA AppendedOne ==
  /\ \A S : \A s \in Seq(S), e \in S : Append(s, e) # <<>>
  /\ \A S : \A a, b \in S : Append(<<a>>, b) = <<a, b>>
<1>1. ASSUME NEW S, NEW s \in Seq(S), NEW e \in S
      PROVE  Append(s, e) # <<>>
  <2>1. Len(Append(s, e)) = Len(s) + 1 /\ Len(s) \in Nat /\ Len(<<>>) = 0
    OBVIOUS
  <2> QED BY <2>1
<1>2. ASSUME NEW S, NEW a \in S, NEW b \in S
      PROVE  Append(<<a>>, b) = <<a, b>>
  <2> DEFINE s == <<a>>
  <2>1. s \in Seq(S) /\ Len(s) = 1 /\ s[1] = a
    OBVIOUS
  <2> HIDE DEF s
  <2> DEFINE t == Append(s, b)
  <2>2. t \in Seq(S) /\ Len(t) = 2 /\ t[1] = a /\ t[2] = b
    <3>1. /\ t \in Seq(S) /\ Len(t) = Len(s) + 1 /\ t[Len(s) + 1] = b
          /\ \A j \in 1..Len(s) : t[j] = s[j]
      <4>1. s \in Seq(S)
        BY <2>1
      <4> QED BY <4>1, Appended
    <3>2. Len(s) + 1 = 2 /\ 1 \in 1..Len(s)
      BY <2>1
    <3> HIDE DEF t
    <3> QED BY <2>1, <3>1, <3>2
  <2> HIDE DEF t
  <2>3. t = <<a, b>>
    BY <2>2
  <2> QED BY <2>3 DEF s, t
<1> QED
  BY <1>1, <1>2

LEMMA Taken ==
  ASSUME NEW S, NEW s \in Seq(S), s # <<>>
  PROVE  /\ Tail(s) \in Seq(S) /\ Len(s) \in Nat \ {0} /\ Len(Tail(s)) = Len(s) - 1
         /\ DOMAIN s = 1..Len(s) /\ DOMAIN Tail(s) = 1..(Len(s) - 1)
         /\ \A j \in 1..(Len(s) - 1) : Tail(s)[j] = s[j + 1]
         /\ Head(s) = s[1] /\ Head(s) \in S /\ 1 \in DOMAIN s
OBVIOUS

LEMMA Joined ==
  ASSUME NEW S, NEW s \in Seq(S), NEW t \in Seq(S)
  PROVE  /\ s \o t \in Seq(S) /\ Len(s \o t) = Len(s) + Len(t) /\ Len(s) \in Nat /\ Len(t) \in Nat
         /\ \A i \in 1..Len(s) : (s \o t)[i] = s[i]
         /\ \A i \in 1..Len(t) : (s \o t)[Len(s) + i] = t[i]
OBVIOUS

\* What is in a sequence put together is in one of the two, and conversely.
LEMMA JoinedFrom ==
  ASSUME NEW S, NEW s \in Seq(S), NEW t \in Seq(S)
  PROVE  /\ \A i \in DOMAIN (s \o t) :
              \/ \E j \in DOMAIN s : (s \o t)[i] = s[j]
              \/ \E j \in DOMAIN t : (s \o t)[i] = t[j]
         /\ \A j \in DOMAIN s : \E i \in DOMAIN (s \o t) : (s \o t)[i] = s[j]
         /\ \A j \in DOMAIN t : \E i \in DOMAIN (s \o t) : (s \o t)[i] = t[j]
<1> DEFINE u == s \o t
<1>1. /\ u \in Seq(S) /\ Len(u) = Len(s) + Len(t) /\ Len(s) \in Nat /\ Len(t) \in Nat
      /\ \A i \in 1..Len(s) : u[i] = s[i]
      /\ \A i \in 1..Len(t) : u[Len(s) + i] = t[i]
  BY Joined
<1>2. DOMAIN u = 1..Len(u) /\ DOMAIN s = 1..Len(s) /\ DOMAIN t = 1..Len(t)
  BY <1>1
<1> HIDE DEF u
<1>3. ASSUME NEW i \in DOMAIN u
      PROVE  (\E j \in DOMAIN s : u[i] = s[j]) \/ (\E j \in DOMAIN t : u[i] = t[j])
  <2>1. CASE i <= Len(s)
    BY <1>1, <1>2, <2>1
  <2>2. CASE i > Len(s)
    <3>1. i - Len(s) \in 1..Len(t) /\ Len(s) + (i - Len(s)) = i
      BY <1>1, <1>2, <2>2
    <3> QED BY <1>1, <1>2, <3>1
  <2> QED BY <1>1, <1>2, <2>1, <2>2
<1>4. ASSUME NEW j \in DOMAIN s PROVE \E i \in DOMAIN u : u[i] = s[j]
  BY <1>1, <1>2
<1>5. ASSUME NEW j \in DOMAIN t PROVE \E i \in DOMAIN u : u[i] = t[j]
  <2>1. Len(s) + j \in DOMAIN u
    BY <1>1, <1>2
  <2> QED BY <1>1, <1>2, <2>1
<1> QED
  BY <1>3, <1>4, <1>5 DEF u

-----------------------------------------------------------------------------
\* The requests of start().

LEMMA AfterVersionSteps ==
  ASSUME NEW z \in BOOLEAN
  PROVE  LET s == AfterVersion(z)
         IN /\ s \in Seq(StartRequests) /\ s # <<>> /\ s # <<"version">>
            /\ \A i \in DOMAIN s : s[i] # "version"
            /\ \A i \in DOMAIN s : s[i] = "info" <=> i = Len(s)
            /\ \A i \in DOMAIN s : s[i] = "bdb1" => i + 1 \in DOMAIN s /\ s[i + 1] = "bdb2"
            /\ \E i \in DOMAIN s : s[i] = "register"
<1> DEFINE nv == [i \in 1..NvItems |-> "nv"]
           bdb == IF z THEN <<"bdb1", "bdb2">> ELSE <<>>
           rest == <<"register", "startup", "info">>
           s == (nv \o bdb) \o rest
<1>1. NvItems \in Nat
  BY CoordinatorAssumption
<1>2. nv \in Seq(StartRequests) /\ Len(nv) = NvItems /\ \A i \in 1..NvItems : nv[i] = "nv"
  BY <1>1 DEF StartRequests
<1>3. bdb \in Seq(StartRequests) /\ (z => bdb = <<"bdb1", "bdb2">>) /\ (~z => bdb = <<>>)
  <2>1. z => bdb = <<"bdb1", "bdb2">>
    BY Zenon
  <2>2. ~z => bdb = <<>>
    BY Zenon
  <2>3. <<"bdb1", "bdb2">> \in Seq(StartRequests) /\ <<>> \in Seq(StartRequests)
    BY DEF StartRequests
  <2> HIDE DEF bdb
  <2> QED BY <2>1, <2>2, <2>3
<1>4. rest \in Seq(StartRequests) /\ rest = <<"register", "startup", "info">>
  BY DEF StartRequests
<1>5. AfterVersion(z) = s
  BY DEF AfterVersion
<1> HIDE DEF nv, bdb, rest
<1>6. /\ nv \o bdb \in Seq(StartRequests) /\ Len(nv \o bdb) = NvItems + Len(bdb)
      /\ \A i \in 1..NvItems : (nv \o bdb)[i] = "nv"
      /\ \A i \in 1..Len(bdb) : (nv \o bdb)[NvItems + i] = bdb[i]
  <2>1. /\ nv \o bdb \in Seq(StartRequests) /\ Len(nv \o bdb) = Len(nv) + Len(bdb)
        /\ \A i \in 1..Len(nv) : (nv \o bdb)[i] = nv[i]
        /\ \A i \in 1..Len(bdb) : (nv \o bdb)[Len(nv) + i] = bdb[i]
    <3>1. nv \in Seq(StartRequests) /\ bdb \in Seq(StartRequests)
      BY <1>2, <1>3
    <3> QED BY <3>1, Joined
  <2> QED BY <1>1, <1>2, <2>1
<1>7. /\ s \in Seq(StartRequests) /\ Len(s) = NvItems + Len(bdb) + 3
      /\ \A i \in 1..(NvItems + Len(bdb)) : s[i] = (nv \o bdb)[i]
      /\ \A i \in 1..3 : s[NvItems + Len(bdb) + i] = rest[i]
  <2> DEFINE u == nv \o bdb
  <2>1. u \in Seq(StartRequests) /\ rest \in Seq(StartRequests) /\ Len(rest) = 3
        /\ Len(u) = NvItems + Len(bdb)
    BY <1>4, <1>6
  <2>2. s = u \o rest
    OBVIOUS
  <2> HIDE DEF u, s
  <2>3. /\ u \o rest \in Seq(StartRequests) /\ Len(u \o rest) = Len(u) + Len(rest)
        /\ \A i \in 1..Len(u) : (u \o rest)[i] = u[i]
        /\ \A i \in 1..Len(rest) : (u \o rest)[Len(u) + i] = rest[i]
    <3>1. u \in Seq(StartRequests) /\ rest \in Seq(StartRequests)
      BY <2>1
    <3> QED BY <3>1, Joined
  <2> QED BY <2>1, <2>2, <2>3 DEF u
<1>8. rest[1] = "register" /\ rest[2] = "startup" /\ rest[3] = "info"
  BY <1>4
<1> HIDE DEF s
<1>9. CASE z
  <2>1. Len(bdb) = 2 /\ bdb[1] = "bdb1" /\ bdb[2] = "bdb2"
    BY <1>3, <1>9
  <2>2. /\ Len(s) = NvItems + 5 /\ \A i \in 1..NvItems : s[i] = "nv"
        /\ s[NvItems + 1] = "bdb1" /\ s[NvItems + 2] = "bdb2"
        /\ s[NvItems + 3] = "register" /\ s[NvItems + 4] = "startup" /\ s[NvItems + 5] = "info"
    <3>1. Len(s) = NvItems + 5 /\ \A i \in 1..NvItems : s[i] = "nv"
      <4>1. Len(s) = NvItems + 5
        BY <1>1, <1>7, <2>1
      <4>2. ASSUME NEW i \in 1..NvItems PROVE s[i] = "nv"
        <5>1. i \in 1..(NvItems + Len(bdb))
          BY <1>1, <2>1
        <5> QED BY <1>6, <1>7, <5>1
      <4> QED BY <4>1, <4>2
    <3>2. s[NvItems + 1] = bdb[1] /\ s[NvItems + 2] = bdb[2]
      BY <1>1, <1>6, <1>7, <2>1
    <3>3. s[NvItems + 2 + 1] = rest[1] /\ s[NvItems + 2 + 2] = rest[2] /\ s[NvItems + 2 + 3] = rest[3]
      BY <1>7, <2>1
    <3> QED BY <1>1, <1>8, <2>1, <3>1, <3>2, <3>3
  <2>3. DOMAIN s = 1..(NvItems + 5) /\ NvItems + 3 \in DOMAIN s /\ NvItems + 2 \in DOMAIN s
    BY <1>1, <1>7, <2>2
  <2>4. \A i \in DOMAIN s : (s[i] = "nv" /\ i <= NvItems) \/ i = NvItems + 1 \/ i = NvItems + 2
                              \/ i = NvItems + 3 \/ i = NvItems + 4 \/ i = NvItems + 5
    BY <1>1, <2>2, <2>3
  <2>5. s # <<>> /\ s # <<"version">>
    BY <1>1, <2>2
  <2>6. /\ \A i \in DOMAIN s : s[i] # "version"
        /\ \A i \in DOMAIN s : s[i] = "info" <=> i = Len(s)
        /\ \A i \in DOMAIN s : s[i] = "bdb1" => i = NvItems + 1
    BY <1>1, <2>2, <2>4
  <2>7. \A i \in DOMAIN s : s[i] = "bdb1" => i + 1 \in DOMAIN s /\ s[i + 1] = "bdb2"
    <3>1. (NvItems + 1) + 1 = NvItems + 2
      BY <1>1
    <3> QED BY <2>2, <2>3, <2>6, <3>1
  <2>8. \E i \in DOMAIN s : s[i] = "register"
    BY <2>2, <2>3
  <2> QED BY <1>5, <1>7, <2>5, <2>6, <2>7, <2>8, Zenon
<1>10. CASE ~z
  <2>1. Len(bdb) = 0
    BY <1>3, <1>10
  <2>2. /\ Len(s) = NvItems + 3 /\ \A i \in 1..NvItems : s[i] = "nv"
        /\ s[NvItems + 1] = "register" /\ s[NvItems + 2] = "startup" /\ s[NvItems + 3] = "info"
    BY <1>1, <1>6, <1>7, <1>8, <2>1
  <2>3. DOMAIN s = 1..(NvItems + 3) /\ NvItems + 1 \in DOMAIN s
    BY <1>1, <1>7, <2>2
  <2>4. \A i \in DOMAIN s : (s[i] = "nv" /\ i <= NvItems) \/ i = NvItems + 1 \/ i = NvItems + 2
                              \/ i = NvItems + 3
    BY <1>1, <2>2, <2>3
  <2>5. s # <<>> /\ s # <<"version">>
    BY <1>1, <2>2
  <2>6. /\ \A i \in DOMAIN s : s[i] # "version"
        /\ \A i \in DOMAIN s : s[i] = "info" <=> i = Len(s)
        /\ \A i \in DOMAIN s : s[i] # "bdb1"
    BY <1>1, <2>2, <2>4
  <2>7. \E i \in DOMAIN s : s[i] = "register"
    BY <2>2, <2>3
  <2> QED BY <1>5, <1>7, <2>5, <2>6, <2>7, Zenon
<1> QED
  BY <1>9, <1>10

LEMMA NextStepsAre ==
  ASSUME NEW outcome
  PROVE  /\ Head(todo) = "version" => NextSteps(outcome) = {AfterVersion(z) : z \in BOOLEAN}
         /\ Head(todo) = "bdb1" /\ outcome = "rejected" => NextSteps(outcome) = {Tail(Tail(todo))}
         /\ Head(todo) # "version" /\ ~(Head(todo) = "bdb1" /\ outcome = "rejected")
              => NextSteps(outcome) = {Tail(todo)}
<1>1. CASE Head(todo) = "version"
  BY <1>1, Zenon DEF NextSteps
<1>2. CASE Head(todo) = "bdb1" /\ outcome = "rejected"
  BY <1>2, Zenon DEF NextSteps
<1>3. CASE Head(todo) # "version" /\ ~(Head(todo) = "bdb1" /\ outcome = "rejected")
  BY <1>3, Zenon DEF NextSteps
<1> QED
  BY <1>1, <1>2, <1>3

\* What becomes of the steps when one is done.
LEMMA StepDoneEffect ==
  ASSUME Steps, phase \in {"asking", "networked"}, NEW outcome, StepDone(outcome)
  PROVE  /\ Steps'
         /\ phase' \in {"asking", "network", "draining", "failed"}
         /\ phase' # "failed" => Tolerated(Head(todo), outcome)
         /\ todo # <<"version">> => todo' # <<"version">>
         /\ \/ todo' = todo /\ phase' = "failed"
            \/ \E i \in DOMAIN todo' : todo'[i] = "register"
            \/ Head(todo) # "version" /\ todo' = Tail(todo)
            \/ Head(todo) = "bdb1" /\ todo' = Tail(Tail(todo)) /\ todo[2] = "bdb2"
<1>1. /\ todo \in Seq(StartRequests) /\ todo # <<>> /\ Head(todo) = todo[1] /\ 1 \in DOMAIN todo
      /\ Len(todo) \in Nat
  BY DEF Steps
<1>2. CASE ~Tolerated(Head(todo), outcome)
  BY <1>1, <1>2 DEF StepDone, Steps, StepsLeft
<1>3. CASE Tolerated(Head(todo), outcome)
  <2>1. /\ todo' \in NextSteps(outcome)
        /\ phase' = CASE Head(todo) = "startup" -> "network"
                      [] Head(todo) = "info" -> "draining"
                      [] OTHER -> "asking"
    BY <1>3, Zenon DEF StepDone
  <2>2. /\ Head(todo) = "startup" => phase' = "network"
        /\ Head(todo) = "info" => phase' = "draining"
        /\ Head(todo) # "startup" /\ Head(todo) # "info" => phase' = "asking"
    <3>1. CASE Head(todo) = "startup"
      BY <2>1, <3>1, Zenon
    <3>2. CASE Head(todo) = "info"
      BY <2>1, <3>2, Zenon
    <3>3. CASE Head(todo) # "startup" /\ Head(todo) # "info"
      BY <2>1, <3>3, Zenon
    <3> QED BY <3>1, <3>2, <3>3
  <2>3. CASE Head(todo) = "version"
    <3>1. PICK z \in BOOLEAN : todo' = AfterVersion(z)
      BY <2>1, <2>3, NextStepsAre
    <3>2. phase' = "asking"
      BY <2>2, <2>3
    <3> QED BY <1>3, <3>1, <3>2, AfterVersionSteps DEF Steps, StepsLeft
  <2>4. CASE Head(todo) # "version"
    <3>0. StepsLeft
      BY <1>1, <2>4 DEF Steps
    <3>1. CASE Head(todo) = "bdb1" /\ outcome = "rejected"
      <4>1. todo' = Tail(Tail(todo)) /\ phase' = "asking"
        BY <2>1, <2>2, <3>1, NextStepsAre
      <4>2. 2 \in DOMAIN todo /\ todo[2] = "bdb2" /\ Len(todo) # 2 /\ Len(todo) # 1
        <5>1. todo[1] # "info" /\ 1 + 1 \in DOMAIN todo /\ todo[1 + 1] = "bdb2"
          BY <1>1, <3>0, <3>1 DEF StepsLeft
        <5>2. 1 + 1 = 2
          OBVIOUS
        <5>3. 2 \in DOMAIN todo /\ todo[2] = "bdb2"
          BY <5>1, <5>2
        <5>4. todo[2] # "info"
          BY <5>3
        <5> QED BY <1>1, <3>0, <5>1, <5>3, <5>4 DEF StepsLeft
      <4>3. /\ todo' \in Seq(StartRequests) /\ Len(todo') = Len(todo) - 2
            /\ \A i \in DOMAIN todo' : i + 2 \in DOMAIN todo /\ todo'[i] = todo[i + 2]
        <5> DEFINE t == Tail(todo)
        <5>0. /\ t \in Seq(StartRequests) /\ Len(t) = Len(todo) - 1
              /\ \A i \in 1..(Len(todo) - 1) : t[i] = todo[i + 1]
          BY <1>1, Taken
        <5> HIDE DEF t
        <5>1. /\ t \in Seq(StartRequests) /\ Len(t) = Len(todo) - 1 /\ t # <<>>
              /\ \A i \in 1..(Len(todo) - 1) : t[i] = todo[i + 1]
          BY <1>1, <4>2, <5>0
        <5>2. /\ Tail(t) \in Seq(StartRequests) /\ Len(Tail(t)) = Len(t) - 1
              /\ \A i \in 1..(Len(t) - 1) : Tail(t)[i] = t[i + 1]
              /\ DOMAIN Tail(t) = 1..(Len(t) - 1)
          BY <5>1
        <5>3. todo' = Tail(t)
          BY <4>1 DEF t
        <5> QED BY <1>1, <5>1, <5>2, <5>3
      <4>4. StepsLeft'
        BY <1>1, <3>0, <4>2, <4>3 DEF StepsLeft
      <4>5. todo' # <<>> /\ todo' # <<"version">>
        <5>1. 1 \in DOMAIN todo'
          BY <1>1, <4>2, <4>3
        <5>2. todo'[1] # "version"
          BY <5>1, <4>4 DEF StepsLeft
        <5> QED BY <5>1, <5>2
      <4> QED BY <1>3, <3>1, <4>1, <4>2, <4>3, <4>4, <4>5 DEF Steps
    <3>2. CASE ~(Head(todo) = "bdb1" /\ outcome = "rejected")
      <4>1. todo' = Tail(todo)
        BY <2>1, <2>4, <3>2, NextStepsAre
      <4>2. /\ todo' \in Seq(StartRequests) /\ Len(todo') = Len(todo) - 1
            /\ \A i \in DOMAIN todo' : i + 1 \in DOMAIN todo /\ todo'[i] = todo[i + 1]
        BY <1>1, <4>1
      <4>3. StepsLeft'
        BY <1>1, <3>0, <4>2 DEF StepsLeft
      <4>4. todo' # <<"version">>
        <5>1. todo' = <<"version">> => 1 \in DOMAIN todo' /\ todo'[1] = "version"
          OBVIOUS
        <5> QED BY <5>1, <4>3 DEF StepsLeft
      <4>5. todo' = <<>> <=> Head(todo) = "info"
        BY <1>1, <3>0, <4>2 DEF StepsLeft
      <4> QED BY <1>3, <2>2, <2>4, <4>1, <4>2, <4>3, <4>4, <4>5 DEF Steps
    <3> QED BY <3>1, <3>2
  <2> QED BY <2>3, <2>4
<1> QED
  BY <1>2, <1>3

\* What becomes of the lock when its holder's request is over.
LEMMA CallDoneEffect ==
  ASSUME LockOK, lock # <<>>, NEW outcome, CallDone(outcome)
  PROVE  LockOK' /\ (loop # "absent" => loop' # "absent")
<1>1. /\ lock' \in Seq(Task \union {Main}) /\ Len(lock) \in Nat \ {0}
      /\ DOMAIN lock = 1..Len(lock) /\ DOMAIN lock' = 1..(Len(lock) - 1)
      /\ \A j \in DOMAIN lock' : lock'[j] = lock[j + 1] /\ j + 1 \in DOMAIN lock /\ j + 1 # 1
      /\ Head(lock) = lock[1] /\ 1 \in DOMAIN lock /\ lock[1] \in Task \union {Main}
  <2>1. lock' = Tail(lock) /\ lock \in Seq(Task \union {Main})
    BY DEF CallDone, Unlocked, LockOK
  <2> QED BY <2>1, Taken
<1>2. /\ \A i, j \in DOMAIN lock' : lock'[i] = lock'[j] => i = j
      /\ \A j \in DOMAIN lock' : lock'[j] # lock[1] /\ lock'[j] \in Task \union {Main}
  BY <1>1 DEF LockOK
<1>3. CASE Head(lock) = Main
  <2>1. loop' \in {"ended", "idle"} /\ task' = task
    BY <1>3 DEF CallDone, LoopAfter
  <2>2. \A j \in DOMAIN lock' : lock'[j] # Main /\ task[lock'[j]] > 0
    BY <1>1, <1>2, <1>3 DEF LockOK
  <2> QED BY <1>1, <1>2, <2>1, <2>2 DEF LockOK
<1>4. CASE Head(lock) # Main
  <2>1. lock[1] \in Task /\ loop' = loop /\ task' = [task EXCEPT ![lock[1]] = @ - 1]
    BY <1>1, <1>4 DEF CallDone
  <2>2. task[lock[1]] \in 1..TaskRequests /\ TaskRequests \in Nat
    BY <1>1, <1>4, <2>1, CoordinatorAssumption DEF LockOK
  <2>3. task' \in [Task -> 0..TaskRequests]
    BY <2>1, <2>2 DEF LockOK
  <2>4. \A j \in DOMAIN lock' : lock'[j] # Main => task'[lock'[j]] = task[lock'[j]]
    BY <1>2, <2>1 DEF LockOK
  <2>5. \A j \in DOMAIN lock' :
          IF lock'[j] = Main THEN loop' \in {"opening", "busy"} ELSE task'[lock'[j]] > 0
    BY <1>1, <2>1, <2>4 DEF LockOK
  <2> QED BY <1>1, <1>2, <2>1, <2>3, <2>5 DEF LockOK
<1> QED
  BY <1>3, <1>4

\* What becomes of the control state when a request is over.
LEMMA AnsweredEffect ==
  ASSUME LockOK, Steps, Awaited, NEW outcome, Answered(outcome),
         \/ phase \in {"asking", "networked"}
         \/ phase = "running" /\ lock # <<>>,
         UNCHANGED <<pump, held, out, delivered>>
  PROVE  /\ LockOK' /\ Steps' /\ Awaited'
         /\ early' = early
         /\ unseen' = unseen \/ (phase' # "running" /\ unseen' = unseen \union {"refused"})
<1>1. CASE phase = "running"
  <2>1. CallDone(outcome) /\ lock # <<>>
    BY <1>1 DEF Answered
  <2>2. LockOK' /\ (loop # "absent" => loop' # "absent")
    BY <2>1, CallDoneEffect
  <2>3. UNCHANGED <<phase, todo, early, unseen>>
    BY <2>1 DEF CallDone, startVars
  <2>4. Steps'
    BY <2>3 DEF Steps, StepsLeft
  <2>5. Awaited'
    BY <1>1, <2>2, <2>3 DEF Awaited
  <2>6. early' = early /\ unseen' = unseen
    BY <2>3
  <2> QED BY <2>2, <2>4, <2>5, <2>6, Zenon
<1>2. CASE phase # "running"
  <2>1. StepDone(outcome) /\ phase \in {"asking", "networked"}
    BY <1>2 DEF Answered
  <2>2. Steps' /\ phase' \in {"asking", "network", "draining", "failed"}
    BY <2>1, StepDoneEffect
  <2>3. UNCHANGED <<early, loop, lock, task>>
    BY <2>1 DEF StepDone, loopVars
  <2>4. unseen' = unseen \/ unseen' = unseen \union {"refused"}
    BY <2>1 DEF StepDone
  <2>5. LockOK'
    BY <2>3 DEF LockOK
  <2>6. Awaited'
    BY <1>2, <2>2, <2>3 DEF Awaited
  <2>7. early' = early /\ phase' # "running"
    BY <2>2, <2>3
  <2> QED BY <2>2, <2>4, <2>5, <2>6, <2>7, Zenon
<1> QED
  BY <1>1, <1>2

\* The same, where the request may as well have been made.
LEMMA AskEffect ==
  ASSUME LockOK, Steps, Awaited, NEW shape, Ask(shape),
         \/ phase \in {"asking", "networked"}
         \/ phase = "running" /\ lock # <<>>,
         UNCHANGED <<pump, held, out, delivered>>
  PROVE  /\ LockOK' /\ Steps' /\ Awaited'
         /\ early' = early
         /\ unseen' = unseen \/ (phase' # "running" /\ unseen' = unseen \union {"refused"})
<1>1. CASE alive
  <2>1. UNCHANGED <<phase, todo, early, loop, lock, task, unseen>>
    BY <1>1 DEF Ask, startVars, loopVars
  <2>2. LockOK'
    BY <2>1 DEF LockOK
  <2>3. Steps'
    BY <2>1 DEF Steps, StepsLeft
  <2>4. Awaited'
    BY <2>1 DEF Awaited
  <2>5. early' = early /\ unseen' = unseen
    BY <2>1
  <2> QED BY <2>2, <2>3, <2>4, <2>5, Zenon
<1>2. CASE ~alive
  <2>1. Answered("closed")
    BY <1>2 DEF Ask
  <2> QED BY <2>1, AnsweredEffect
<1> QED
  BY <1>1, <1>2

-----------------------------------------------------------------------------
\* The control state: start(), the lock, and who waits for start().

LEMMA ControlStep ==
  ASSUME Base, LockOK, [Next]_vars
  PROVE  Steps' /\ Awaited' /\ LockOK'
<1> DEFINE P == Steps' /\ Awaited' /\ LockOK'
<1>1. ASSUME UNCHANGED <<phase, todo, early, loop, lock, task, pump, held, out, delivered>>
      PROVE  P
  <2>1. Steps'
    BY <1>1 DEF Base, Steps, StepsLeft
  <2>2. Awaited'
    BY <1>1 DEF Base, Awaited
  <2>3. LockOK'
    BY <1>1 DEF LockOK
  <2> QED BY <2>1, <2>2, <2>3, Zenon
<1>2. CASE UNCHANGED vars
  <2>1. UNCHANGED <<phase, todo, early, loop, lock, task, pump, held, out, delivered>>
    BY <1>2 DEF vars, startVars, pumpVars, loopVars
  <2> QED BY <1>1, <2>1, Zenon
<1>3. CASE AdapterResets \/ AdapterAnswers \/ AdapterRestarts \/ DeviceHeard
  <2>1. UNCHANGED <<phase, todo, early, loop, lock, task, pump, held, out, delivered>>
    BY <1>3 DEF AdapterResets, AdapterAnswers, AdapterRestarts, DeviceHeard,
                startVars, pumpVars, loopVars
  <2> QED BY <1>1, <2>1, Zenon
<1>4. CASE ReadIndication
  <2>1. UNCHANGED <<phase, todo, early, loop, lock, task, pump, held, out, delivered>>
    BY <1>4 DEF ReadIndication, startVars, pumpVars, loopVars
  <2> QED BY <1>1, <2>1, Zenon
<1>5. CASE ReadResponse
  <2>1. /\ Answered(Head(wire).status)
        /\ UNCHANGED <<pump, held, out, delivered>>
        /\ wire # <<>> /\ Head(wire).kind = "response"
    BY <1>5 DEF ReadResponse, pumpVars
  <2>2. pending # NoRequest
    <3>1. 1 \in DOMAIN wire /\ Head(wire) = wire[1]
      BY <2>1, Taken DEF Base, Types
    <3> QED BY <2>1, <3>1 DEF Base, Asked
  <2> QED BY <2>1, <2>2, AnsweredEffect DEF Base, Asked
<1>6. CASE RequestTimesOut
  <2>1. Answered("timeout") /\ pending # NoRequest /\ UNCHANGED <<pump, held, out, delivered>>
    BY <1>6 DEF RequestTimesOut, pumpVars
  <2> QED BY <2>1, AnsweredEffect DEF Base, Asked
<1>7. CASE ActorStops
  <2>0. UNCHANGED <<pump, held, out, delivered>>
    BY <1>7 DEF ActorStops, pumpVars
  <2>1. CASE pending # NoRequest
    <3>1. Answered("closed")
      BY <1>7, <2>1 DEF ActorStops
    <3> QED BY <2>0, <2>1, <3>1, AnsweredEffect DEF Base, Asked
  <2>2. CASE pending = NoRequest
    <3>1. UNCHANGED <<phase, todo, early, loop, lock, task>>
      BY <1>7, <2>2 DEF ActorStops, startVars, loopVars
    <3> QED BY <1>1, <2>0, <3>1
  <2> QED BY <2>1, <2>2
<1>8. CASE AwaitReset
  <2>1. /\ phase = "resetting" /\ phase' \in {"resetting", "asking"}
        /\ UNCHANGED <<todo, early, loop, lock, task, pump, held, out, delivered>>
    BY <1>8 DEF AwaitReset, pumpVars, loopVars
  <2>2. Steps'
    BY <2>1 DEF Base, Steps, StepsLeft
  <2>3. Awaited'
    BY <2>1 DEF Base, Awaited
  <2>4. LockOK'
    BY <2>1 DEF LockOK
  <2> QED BY <2>2, <2>3, <2>4, Zenon
<1>9. CASE AwaitNoReset
  <2>1. /\ phase = "resetting" /\ phase' \in {"asking", "failed"}
        /\ UNCHANGED <<todo, early, loop, lock, task, pump, held, out, delivered>>
    BY <1>9 DEF AwaitNoReset, pumpVars, loopVars
  <2>2. Steps'
    BY <2>1 DEF Base, Steps, StepsLeft
  <2>3. Awaited'
    BY <2>1 DEF Base, Awaited
  <2>4. LockOK'
    BY <2>1 DEF LockOK
  <2> QED BY <2>2, <2>3, <2>4, Zenon
<1>10. CASE AskNext
  <2>1. phase \in {"asking", "networked"} /\ UNCHANGED <<pump, held, out, delivered>>
    BY <1>10 DEF AskNext, pumpVars
  <2>2. PICK shape : Ask(shape)
    BY <1>10 DEF AskNext
  <2> QED BY <2>1, <2>2, AskEffect DEF Base
<1>11. CASE Call
  <2>1. phase = "running" /\ lock # <<>> /\ Ask(ClientRequest) /\ UNCHANGED <<pump, held, out, delivered>>
    BY <1>11 DEF Call, pumpVars
  <2> QED BY <2>1, AskEffect DEF Base
<1>12. CASE AwaitNetwork
  <2>1. /\ phase = "network" /\ phase' \in {"network", "networked"}
        /\ UNCHANGED <<todo, loop, lock, task, pump, held, out, delivered>>
    BY <1>12 DEF AwaitNetwork, pumpVars, loopVars
  <2>2. Steps'
    BY <2>1 DEF Base, Steps, StepsLeft
  <2>3. Awaited'
    BY <2>1 DEF Base, Awaited
  <2>4. LockOK'
    BY <2>1 DEF LockOK
  <2> QED BY <2>2, <2>3, <2>4, Zenon
<1>13. CASE AwaitNoNetwork
  <2>1. /\ phase = "network" /\ phase' \in {"networked", "failed"}
        /\ UNCHANGED <<todo, early, loop, lock, task, pump, held, out, delivered>>
    BY <1>13 DEF AwaitNoNetwork, pumpVars, loopVars
  <2>2. Steps'
    BY <2>1 DEF Base, Steps, StepsLeft
  <2>3. Awaited'
    BY <2>1 DEF Base, Awaited
  <2>4. LockOK'
    BY <2>1 DEF LockOK
  <2> QED BY <2>2, <2>3, <2>4, Zenon
<1>14. CASE Drain
  <2>1. /\ phase = "draining" /\ phase' = "running" /\ pump' = "running" /\ loop' = "opening"
        /\ lock' = <<Main>>
        /\ UNCHANGED <<todo, task>>
    BY <1>14 DEF Drain
  <2>2. Steps'
    BY <2>1 DEF Base, Steps, StepsLeft
  <2>3. Awaited'
    BY <2>1 DEF Base, Awaited
  <2>4. LockOK'
    BY <2>1 DEF LockOK
  <2> QED BY <2>2, <2>3, <2>4, Zenon
<1>15. CASE PumpTakes \/ PumpEnds
  <2>1. /\ pump = "running" /\ pump' \in {"running", "done"}
        /\ UNCHANGED <<phase, todo, loop, lock, task, out, delivered>>
    BY <1>15 DEF PumpTakes, PumpEnds, PumpAfter, startVars, loopVars
  <2>2. Steps'
    BY <2>1 DEF Base, Steps, StepsLeft
  <2>3. Awaited'
    BY <2>1 DEF Base, Awaited
  <2>4. LockOK'
    BY <2>1 DEF LockOK
  <2> QED BY <2>2, <2>3, <2>4, Zenon
<1>16. CASE PumpSends
  <2>1. held # <<>> /\ UNCHANGED <<phase, todo, early, loop, lock, task, pump, delivered>>
    BY <1>16 DEF PumpSends, startVars, loopVars
  <2>2. Steps'
    BY <2>1 DEF Base, Steps, StepsLeft
  <2>3. Awaited'
    BY <2>1 DEF Base, Awaited
  <2>4. LockOK'
    BY <2>1 DEF LockOK
  <2> QED BY <2>2, <2>3, <2>4, Zenon
<1>17. CASE HandleEvent
  <2>1. /\ loop = "idle" /\ UNCHANGED <<phase, todo, early, loop, lock, pump, held>>
        /\ \/ task' = task
           \/ \E t \in Task : task[t] = 0 /\ task' = [task EXCEPT ![t] = TaskRequests]
    BY <1>17 DEF HandleEvent, startVars
  <2>2. Steps'
    BY <2>1 DEF Base, Steps, StepsLeft
  <2>3. Awaited'
    BY <2>1 DEF Base, Awaited
  <2>4. LockOK'
    <3>1. CASE task' = task
      BY <2>1, <3>1 DEF LockOK
    <3>2. ASSUME NEW t \in Task, task[t] = 0, task' = [task EXCEPT ![t] = TaskRequests]
          PROVE  LockOK'
      <4>1. TaskRequests \in Nat \ {0}
        BY CoordinatorAssumption
      <4>2. /\ task' \in [Task -> 0..TaskRequests]
            /\ \A u \in Task : task[u] > 0 => task'[u] > 0
        BY <3>2, <4>1 DEF LockOK
      <4>3. \A i \in DOMAIN lock : lock[i] \in Task \union {Main}
        BY DEF LockOK
      <4> QED BY <2>1, <4>2, <4>3 DEF LockOK
    <3> QED BY <2>1, <3>1, <3>2
  <2> QED BY <2>2, <2>3, <2>4, Zenon
<1>18. CASE ConnectionLost
  <2>1. loop = "idle" /\ loop' = "ended" /\ UNCHANGED <<phase, todo, early, lock, task, pump, held, out, delivered>>
    BY <1>18 DEF ConnectionLost, startVars, pumpVars
  <2>2. Steps'
    BY <2>1 DEF Base, Steps, StepsLeft
  <2>3. Awaited'
    BY <2>1 DEF Base, Awaited
  <2>4. LockOK'
    BY <2>1 DEF LockOK
  <2> QED BY <2>2, <2>3, <2>4, Zenon
<1>19. CASE HandleCommand
  <2>1. /\ loop = "idle" /\ loop' = "busy" /\ lock' = Append(lock, Main)
        /\ UNCHANGED <<phase, todo, early, task, pump, held, out, delivered>>
    BY <1>19 DEF HandleCommand, startVars, pumpVars
  <2>2. Steps'
    BY <2>1 DEF Base, Steps, StepsLeft
  <2>3. Awaited'
    BY <2>1 DEF Base, Awaited
  <2>4. LockOK'
    <3>1. \A i \in DOMAIN lock : lock[i] # Main /\ lock[i] \in Task
      BY <2>1 DEF LockOK
    <3>2. /\ lock' \in Seq(Task \union {Main}) /\ Len(lock) \in Nat
          /\ DOMAIN lock = 1..Len(lock) /\ DOMAIN lock' = 1..(Len(lock) + 1)
          /\ \A j \in 1..Len(lock) : lock'[j] = lock[j]
          /\ lock'[Len(lock) + 1] = Main
      <4>1. lock \in Seq(Task \union {Main}) /\ Main \in Task \union {Main}
        BY DEF LockOK
      <4> QED BY <2>1, <4>1, Appended
    <3>3. \A j \in DOMAIN lock' : j = Len(lock) + 1 \/ j \in DOMAIN lock
      BY <3>2
    <3> QED BY <2>1, <3>1, <3>2, <3>3 DEF LockOK
  <2> QED BY <2>2, <2>3, <2>4, Zenon
<1>20. ASSUME NEW t \in Task, TaskLocks(t)
       PROVE  P
  <2>1. /\ task[t] > 0 /\ lock' = Append(lock, t) /\ \A i \in DOMAIN lock : lock[i] # t
        /\ UNCHANGED <<phase, todo, early, loop, task, pump, held, out, delivered>>
    BY <1>20 DEF TaskLocks, startVars, pumpVars, Has
  <2>2. Steps'
    BY <2>1 DEF Base, Steps, StepsLeft
  <2>3. Awaited'
    BY <2>1 DEF Base, Awaited
  <2>4. LockOK'
    <3>2. /\ lock' \in Seq(Task \union {Main}) /\ Len(lock) \in Nat
          /\ DOMAIN lock = 1..Len(lock) /\ DOMAIN lock' = 1..(Len(lock) + 1)
          /\ \A j \in 1..Len(lock) : lock'[j] = lock[j]
          /\ lock'[Len(lock) + 1] = t
      <4>1. lock \in Seq(Task \union {Main}) /\ t \in Task \union {Main}
        BY DEF LockOK
      <4> QED BY <2>1, <4>1, Appended
    <3>3. \A j \in DOMAIN lock' : j = Len(lock) + 1 \/ j \in DOMAIN lock
      BY <3>2
    <3>4. t # Main
      BY CoordinatorAssumption
    <3> QED BY <2>1, <3>2, <3>3, <3>4 DEF LockOK
  <2> QED BY <2>2, <2>3, <2>4, Zenon
<1> QED
  BY <1>2, <1>3, <1>4, <1>5, <1>6, <1>7, <1>8, <1>9, <1>10, <1>11, <1>12, <1>13, <1>14, <1>15,
     <1>16, <1>17, <1>18, <1>19, <1>20, Zenon
     DEF Next, Adapter, Actor, Start, Pump

-----------------------------------------------------------------------------
\* Frames, and what the queues hold.

LEMMA FramesAre ==
  /\ \A n \in Nat : Reset(n) \in Indication
  /\ \A up \in BOOLEAN : StateChange(up) \in Indication
  /\ \A n \in Nat, c \in Content : Message(n, c) \in Indication
  /\ \A status \in {"ok", "bad", "rejected"} : Response(status) \in ResponseFrame
  /\ \A f \in ResponseFrame : f.kind = "response" /\ f.status \in {"ok", "bad", "rejected"}
  /\ \A f \in Indication : f.kind \in {"reset", "state", "message"}
  /\ OtherFrame.kind = "other"
  /\ \A f \in Indication : IsReset(f) => f.n \in Nat
  /\ \A f \in Wantable : f \in Indication /\ f.kind = "message" /\ f.n \in Nat
<1>1. /\ \A n \in Nat : Reset(n) \in Indication
      /\ \A up \in BOOLEAN : StateChange(up) \in Indication
      /\ \A n \in Nat, c \in Content : Message(n, c) \in Indication
  BY DEF Reset, StateChange, Message, Indication
<1>2. /\ \A status \in {"ok", "bad", "rejected"} : Response(status) \in ResponseFrame
      /\ \A f \in ResponseFrame : f.kind = "response" /\ f.status \in {"ok", "bad", "rejected"}
      /\ OtherFrame.kind = "other"
  BY DEF Response, ResponseFrame, OtherFrame
<1>3. ASSUME NEW f \in Indication
      PROVE  /\ f.kind \in {"reset", "state", "message"}
             /\ f.kind \in {"reset", "message"} => f.n \in Nat
  BY DEF Indication
<1> QED
  BY <1>1, <1>2, <1>3 DEF Wantable, IsReset, IsWanted

\* What is on the wire is a response, or queued, or dropped.
LEMMA FrameKinds ==
  ASSUME NEW f \in Frame
  PROVE  /\ f.kind = "response" <=> f \in ResponseFrame
         /\ f.kind # "response" /\ f # OtherFrame => f \in Indication
  BY FramesAre DEF Frame

\* A frame sent.
LEMMA Sent ==
  ASSUME Types, NEW f \in Frame
  PROVE  Append(wire, f) \in Seq(Frame)
  BY Appended DEF Types

LEMMA SelectionsAre ==
  ASSUME NEW s \in Seq(Indication)
  PROVE  /\ Retained(s) \in Seq(Indication)
         /\ \A i \in DOMAIN Retained(s) : ~IsReset(Retained(s)[i])
         /\ Select(s, Wantable) \in Seq(Wantable)
         /\ Wanted(s) = Numbers(Select(s, Wantable))
<1> DEFINE T == {f \in Indication : ~IsReset(f)}
<1>1. Select(s, T) \in Seq(Indication \intersect T)
  BY SelectType
<1>2. Select(s, Wantable) \in Seq(Indication \intersect Wantable)
  BY SelectType
<1>3. Indication \intersect T = T /\ Indication \intersect Wantable = Wantable
  BY DEF Wantable
<1>4. \A f \in T : f \in Indication /\ ~IsReset(f)
  OBVIOUS
<1>5. Retained(s) = Select(s, T)
  BY DEF Retained
<1> HIDE DEF T
<1>6. Retained(s) \in Seq(T)
  BY <1>1, <1>3, <1>5
<1>7. \A i \in DOMAIN Retained(s) : Retained(s)[i] \in T
  BY <1>6
<1>8. Retained(s) \in Seq(Indication)
  BY <1>4, <1>6
<1>9. Wanted(s) = Numbers(Select(s, Wantable))
  BY DEF Wanted, Wantable
<1> QED
  BY <1>2, <1>3, <1>4, <1>7, <1>8, <1>9

LEMMA NumbersAre ==
  ASSUME NEW s \in Seq(Wantable)
  PROVE  /\ Numbers(s) \in Seq(Nat) /\ Len(Numbers(s)) = Len(s)
         /\ \A i \in DOMAIN s : Numbers(s)[i] = s[i].n
<1>1. \A i \in 1..Len(s) : s[i] \in Wantable /\ s[i].n \in Nat
  BY FramesAre
<1>2. Numbers(s) = [i \in 1..Len(s) |-> s[i].n] /\ Len(s) \in Nat
  BY DEF Numbers
<1> QED
  BY <1>1, <1>2

LEMMA TypesStep ==
  ASSUME Base, [Next]_vars
  PROVE  Types'
<1>0. Types /\ LockOK'
  <2>1. LockOK
    BY DEF Base, TypeOK, Types, LockOK
  <2> QED BY <2>1, ControlStep DEF Base
<1> DEFINE P == Types'
<1>L. lock' \in Seq(Task \union {Main})
  BY <1>0 DEF LockOK
<1>1. CASE UNCHANGED vars
  BY <1>0, <1>1 DEF Types, vars, adapterVars, startVars, pumpVars, loopVars
<1>2. CASE AdapterResets
  <2>1. wire' = wire \/ wire' = Append(wire, Reset(0))
    BY <1>2 DEF AdapterResets
  <2>2. Reset(0) \in Frame
    BY FramesAre DEF Frame
  <2>3. wire' \in Seq(Frame)
    BY <1>0, <2>1, <2>2, Sent DEF Types
  <2> QED BY <1>0, <1>2, <2>3 DEF Types, AdapterResets, startVars, pumpVars, loopVars
<1>3. CASE AdapterAnswers
  <2>1. \/ wire' = wire
        \/ \E status \in {"ok", "bad", "rejected"}, up \in BOOLEAN :
             wire' = Append(wire, Response(status)) \o (IF up THEN <<StateChange(TRUE)>> ELSE <<>>)
    BY <1>3 DEF AdapterAnswers
  <2>2. ASSUME NEW status \in {"ok", "bad", "rejected"}, NEW up \in BOOLEAN
        PROVE  Append(wire, Response(status)) \o (IF up THEN <<StateChange(TRUE)>> ELSE <<>>)
                 \in Seq(Frame)
    <3>1. Response(status) \in Frame /\ StateChange(TRUE) \in Frame
      BY FramesAre DEF Frame
    <3>2. Append(wire, Response(status)) \in Seq(Frame)
      BY <1>0, <3>1, Sent
    <3> DEFINE more == IF up THEN <<StateChange(TRUE)>> ELSE <<>>
    <3>3. more \in Seq(Frame)
      <4>1. CASE up
        <5>1. more = <<StateChange(TRUE)>>
          BY <4>1, Zenon
        <5> HIDE DEF more
        <5>2. \A f \in Frame : <<f>> \in Seq(Frame)
          OBVIOUS
        <5>3. <<StateChange(TRUE)>> \in Seq(Frame)
          BY <3>1, <5>2, Zenon
        <5> QED BY <5>1, <5>3
      <4>2. CASE ~up
        BY <4>2
      <4> QED BY <4>1, <4>2
    <3> HIDE DEF more
    <3>4. Append(wire, Response(status)) \o more \in Seq(Frame)
      BY <3>2, <3>3, Joined
    <3> QED BY <3>4 DEF more
  <2>3. wire' \in Seq(Frame)
    BY <1>0, <2>1, <2>2, Zenon DEF Types
  <2> QED BY <1>0, <1>3, <2>3 DEF Types, AdapterAnswers, startVars, pumpVars, loopVars
<1>4. CASE AdapterRestarts
  <2>1. wire' = Append(wire, Reset(resets + 1)) /\ resets' = resets + 1 /\ resets \in Nat
    BY <1>0, <1>4 DEF AdapterRestarts, Types
  <2>2. Reset(resets + 1) \in Frame
    BY <2>1, FramesAre DEF Frame
  <2>3. wire' \in Seq(Frame)
    BY <1>0, <2>1, <2>2, Sent
  <2> QED BY <1>0, <1>4, <2>1, <2>3 DEF Types, AdapterRestarts, startVars, pumpVars, loopVars
<1>5. CASE DeviceHeard
  <2>1. messages' = messages + 1 /\ messages \in Nat
    BY <1>0, <1>5 DEF DeviceHeard, Types
  <2>2. PICK f \in {Message(messages + 1, c) : c \in Content} \union {OtherFrame} :
          wire' = Append(wire, f)
    BY <1>5 DEF DeviceHeard
  <2>3. f \in Frame
    <3>1. CASE f = OtherFrame
      BY <3>1 DEF Frame
    <3>2. ASSUME NEW c \in Content, f = Message(messages + 1, c)
          PROVE  f \in Frame
      <4>1. messages + 1 \in Nat
        BY <2>1
      <4>2. Message(messages + 1, c) \in Indication
        BY <4>1, FramesAre
      <4> QED BY <3>2, <4>2 DEF Frame
    <3> QED BY <2>2, <3>1, <3>2
  <2>4. wire' \in Seq(Frame)
    BY <1>0, <2>2, <2>3, Sent
  <2> QED BY <1>0, <1>5, <2>1, <2>4 DEF Types, DeviceHeard, startVars, pumpVars, loopVars
<1>6. CASE ReadResponse
  <2>1. wire' \in Seq(Frame)
    BY <1>0, <1>6, Taken DEF ReadResponse, Types
  <2>2. early' = early
    BY <1>6 DEF ReadResponse, Answered, StepDone, CallDone, startVars
  <2> QED BY <1>0, <1>L, <1>6, <2>1, <2>2 DEF Types, ReadResponse, adapterVars, pumpVars
<1>7. CASE ReadIndication
  <2>1. /\ wire # <<>> /\ wire \in Seq(Frame) /\ Head(wire) \in Frame /\ wire' = Tail(wire)
        /\ wire' \in Seq(Frame) /\ Head(wire).kind # "response"
    BY <1>0, <1>7, Taken DEF ReadIndication, Types
  <2>2. \/ events' = events /\ kept' = kept
        \/ /\ Head(wire) # OtherFrame
           /\ events' = Append(events, Head(wire))
           /\ kept' = IF IsWanted(Head(wire)) THEN Append(kept, Head(wire).n) ELSE kept
    BY <1>7, Zenon DEF ReadIndication
  <2>3. events' \in Seq(Indication) /\ kept' \in Seq(Nat)
    <3>1. CASE events' = events /\ kept' = kept
      BY <1>0, <3>1 DEF Types
    <3>2. CASE /\ Head(wire) # OtherFrame
               /\ events' = Append(events, Head(wire))
               /\ kept' = IF IsWanted(Head(wire)) THEN Append(kept, Head(wire).n) ELSE kept
      <4>1. Head(wire) \in Indication
        BY <2>1, <3>2, FrameKinds
      <4>2. IsWanted(Head(wire)) => Head(wire).n \in Nat
        BY <4>1, FramesAre DEF Wantable
      <4> QED BY <1>0, <3>2, <4>1, <4>2 DEF Types
    <3> QED BY <2>2, <3>1, <3>2
  <2> QED BY <1>0, <1>L, <1>7, <2>1, <2>3 DEF Types, ReadIndication, adapterVars, pumpVars, startVars
<1>8. CASE RequestTimesOut
  <2>2. early' = early
    BY <1>8 DEF RequestTimesOut, Answered, StepDone, CallDone, startVars
  <2> QED BY <1>0, <1>L, <1>8, <2>2 DEF Types, RequestTimesOut, adapterVars, pumpVars
<1>9. CASE ActorStops
  <2>2. early' = early
    BY <1>9 DEF ActorStops, Answered, StepDone, CallDone, startVars
  <2>3. wire' \in Seq(Frame)
    BY <1>9 DEF ActorStops
  <2> QED BY <1>0, <1>L, <1>9, <2>2, <2>3 DEF Types, ActorStops, adapterVars, pumpVars
<1>10. CASE AwaitReset
  <2>1. events' = Tail(events) /\ events' \in Seq(Indication)
    BY <1>0, <1>10, Taken DEF AwaitReset, Types
  <2>2. kept' = Wanted(events')
    BY <1>10, <2>1 DEF AwaitReset
  <2>3. kept' \in Seq(Nat)
    <3>1. PICK s \in Seq(Indication) : s = events'
      BY <2>1
    <3>2. Wanted(s) = Numbers(Select(s, Wantable)) /\ Select(s, Wantable) \in Seq(Wantable)
      BY SelectionsAre
    <3> QED BY <2>2, <3>1, <3>2, NumbersAre
  <2> QED BY <1>0, <1>L, <1>10, <2>1, <2>3 DEF Types, AwaitReset, adapterVars, pumpVars
<1>11. CASE AwaitNoReset \/ AwaitNoNetwork
  BY <1>0, <1>11 DEF Types, AwaitNoReset, AwaitNoNetwork, adapterVars, pumpVars, loopVars
<1>12. CASE AskNext
  <2>1. early' = early
    BY <1>12 DEF AskNext, Ask, Answered, StepDone, CallDone, startVars
  <2> QED BY <1>0, <1>L, <1>12, <2>1 DEF Types, AskNext, adapterVars, pumpVars
<1>13. CASE Call
  <2>1. early' = early
    BY <1>13 DEF Call, Ask, Answered, StepDone, CallDone, startVars
  <2> QED BY <1>0, <1>L, <1>13, <2>1 DEF Types, Call, adapterVars, pumpVars
<1>14. CASE AwaitNetwork
  <2>1. events' \in Seq(Indication) /\ Head(events) \in Indication
    BY <1>0, <1>14, Taken DEF AwaitNetwork, Types
  <2>2. early' = early \/ early' = Append(early, Head(events))
    BY <1>14 DEF AwaitNetwork
  <2>3. early' \in Seq(Indication)
    <3>1. early \in Seq(Indication)
      BY <1>0 DEF Types
    <3>2. Append(early, Head(events)) \in Seq(Indication)
      BY <2>1, <3>1, Appended
    <3> QED BY <2>2, <3>1, <3>2
  <2> QED BY <1>0, <1>L, <1>14, <2>1, <2>3 DEF Types, AwaitNetwork, adapterVars, pumpVars
<1>15. CASE Drain
  <2>1. events' = <<>> /\ early' = Retained(early \o events)
    BY <1>15 DEF Drain
  <2>2. early \o events \in Seq(Indication)
    BY <1>0 DEF Types
  <2>3. early' \in Seq(Indication) /\ events' \in Seq(Indication)
    <3>1. Retained(early \o events) \in Seq(Indication)
      BY <2>2, SelectionsAre
    <3>2. <<>> \in Seq(Indication)
      OBVIOUS
    <3> QED BY <2>1, <3>1, <3>2
  <2> QED BY <1>0, <1>L, <1>15, <2>3 DEF Types, Drain, adapterVars
<1>16. CASE PumpTakes
  <2>1. /\ early # <<>> \/ events # <<>>
        /\ early' = EarlyFirst.early /\ events' = EarlyFirst.events
        /\ held' = IF IsWanted(EarlyFirst.event) THEN <<EarlyFirst.event>> ELSE <<>>
    BY <1>16 DEF PumpTakes
  <2>2. /\ EarlyFirst.early \in Seq(Indication) /\ EarlyFirst.events \in Seq(Indication)
        /\ EarlyFirst.event \in Indication
    <3>1. CASE early # <<>>
      BY <1>0, <3>1, Taken DEF EarlyFirst, Types
    <3>2. CASE early = <<>>
      BY <1>0, <2>1, <3>2, Taken DEF EarlyFirst, Types
    <3> QED BY <3>1, <3>2
  <2>3. held' \in Seq(Wantable)
    <3>1. CASE IsWanted(EarlyFirst.event)
      <4>1. EarlyFirst.event \in Wantable
        BY <2>2, <3>1 DEF Wantable
      <4> QED BY <2>1, <3>1, <4>1
    <3>2. CASE ~IsWanted(EarlyFirst.event)
      BY <2>1, <3>2
    <3> QED BY <3>1, <3>2
  <2> QED BY <1>0, <1>L, <1>16, <2>1, <2>2, <2>3 DEF Types, PumpTakes, adapterVars
<1>17. CASE PumpSends
  <2>1. out' \in Seq(Wantable) /\ held' \in Seq(Wantable)
    BY <1>0, <1>17 DEF PumpSends, Types
  <2> QED BY <1>0, <1>L, <1>17, <2>1 DEF Types, PumpSends, adapterVars, startVars
<1>18. CASE PumpEnds
  BY <1>0, <1>L, <1>18 DEF Types, PumpEnds, adapterVars, startVars
<1>19. CASE HandleEvent
  <2>1. out' \in Seq(Wantable) /\ Head(out) \in Wantable
    BY <1>0, <1>19, Taken DEF HandleEvent, Types
  <2>2. delivered' \in Seq(Nat)
    BY <1>0, <1>19, <2>1, FramesAre DEF HandleEvent, Types
  <2> QED BY <1>0, <1>L, <1>19, <2>1, <2>2 DEF Types, HandleEvent, adapterVars, startVars
<1>20. CASE ConnectionLost \/ HandleCommand
  BY <1>0, <1>L, <1>20 DEF Types, ConnectionLost, HandleCommand, adapterVars, startVars, pumpVars
<1>21. ASSUME NEW t \in Task, TaskLocks(t)
       PROVE  P
  BY <1>0, <1>L, <1>21 DEF Types, TaskLocks, adapterVars, startVars, pumpVars
<1> QED
  BY <1>1, <1>2, <1>3, <1>4, <1>5, <1>6, <1>7, <1>8, <1>9, <1>10, <1>11, <1>12, <1>13, <1>14, <1>15,
     <1>16, <1>17, <1>18, <1>19, <1>20, <1>21, Zenon
     DEF Next, Adapter, Actor, Start, Pump

-----------------------------------------------------------------------------
\* The wire: what a step does to it, frame by frame.

\* At the end comes a frame.
LEMMA FrameSent ==
  ASSUME Types, NEW f \in Frame, wire' = Append(wire, f)
  PROVE  /\ \A i \in DOMAIN wire : i \in DOMAIN wire' /\ wire'[i] = wire[i] /\ i < Len(wire) + 1
         /\ Len(wire) + 1 \in DOMAIN wire' /\ wire'[Len(wire) + 1] = f
         /\ \A i \in DOMAIN wire' : i \in DOMAIN wire \/ i = Len(wire) + 1
         /\ DOMAIN wire \subseteq Nat /\ DOMAIN wire' \subseteq Nat /\ Len(wire) \in Nat
<1>1. wire \in Seq(Frame)
  BY DEF Types
<1>2. /\ Len(wire) \in Nat /\ DOMAIN wire = 1..Len(wire) /\ DOMAIN wire' = 1..(Len(wire) + 1)
      /\ \A j \in 1..Len(wire) : wire'[j] = wire[j]
      /\ wire'[Len(wire) + 1] = f
  BY <1>1, Appended
<1> QED
  BY <1>2

\* The adapter's answer, and the state of the network after it.
LEMMA AnswerSent ==
  ASSUME Types, NEW status \in {"ok", "bad", "rejected"}, NEW up \in BOOLEAN,
         wire' = Append(wire, Response(status)) \o (IF up THEN <<StateChange(TRUE)>> ELSE <<>>)
  PROVE  /\ \A i \in DOMAIN wire : i \in DOMAIN wire' /\ wire'[i] = wire[i] /\ i < Len(wire) + 1
         /\ Len(wire) + 1 \in DOMAIN wire' /\ wire'[Len(wire) + 1] = Response(status)
         /\ \A i \in DOMAIN wire' :
              \/ i \in DOMAIN wire \/ i = Len(wire) + 1
              \/ i = Len(wire) + 2 /\ wire'[i] = StateChange(TRUE)
         /\ DOMAIN wire \subseteq Nat /\ DOMAIN wire' \subseteq Nat /\ Len(wire) \in Nat
<1> DEFINE w == Append(wire, Response(status))
           more == IF up THEN <<StateChange(TRUE)>> ELSE <<>>
<1>1. wire \in Seq(Frame) /\ Response(status) \in Frame /\ StateChange(TRUE) \in Frame
  BY FramesAre DEF Types, Frame
<1>2. /\ w \in Seq(Frame) /\ Len(wire) \in Nat /\ Len(w) = Len(wire) + 1
      /\ DOMAIN wire = 1..Len(wire)
      /\ \A j \in 1..Len(wire) : w[j] = wire[j]
      /\ w[Len(wire) + 1] = Response(status)
  BY <1>1, Appended
<1>3. more \in Seq(Frame) /\ (Len(more) = 0 \/ (Len(more) = 1 /\ more[1] = StateChange(TRUE)))
  <2>1. CASE up
    <3>1. more = <<StateChange(TRUE)>>
      BY <2>1, Zenon
    <3>2. \A f \in Frame : <<f>> \in Seq(Frame) /\ Len(<<f>>) = 1 /\ <<f>>[1] = f
      OBVIOUS
    <3> HIDE DEF more
    <3> QED BY <1>1, <3>1, <3>2, Zenon
  <2>2. CASE ~up
    <3>1. more = <<>>
      BY <2>2, Zenon
    <3>2. <<>> \in Seq(Frame) /\ Len(<<>>) = 0
      OBVIOUS
    <3> HIDE DEF more
    <3> QED BY <3>1, <3>2
  <2> QED BY <2>1, <2>2
<1> HIDE DEF w, more
<1>4. wire' = w \o more
  BY DEF w, more
<1>5. /\ wire' \in Seq(Frame) /\ Len(wire') = Len(w) + Len(more) /\ Len(more) \in Nat
      /\ \A i \in 1..Len(w) : wire'[i] = w[i]
      /\ \A i \in 1..Len(more) : wire'[Len(w) + i] = more[i]
  <2>1. w \in Seq(Frame) /\ more \in Seq(Frame)
    BY <1>2, <1>3
  <2>2. /\ w \o more \in Seq(Frame) /\ Len(w \o more) = Len(w) + Len(more) /\ Len(more) \in Nat
        /\ \A i \in 1..Len(w) : (w \o more)[i] = w[i]
        /\ \A i \in 1..Len(more) : (w \o more)[Len(w) + i] = more[i]
    BY <2>1, Joined
  <2> QED BY <1>4, <2>2, Zenon
<1>6. DOMAIN wire' = 1..Len(wire')
  BY <1>5
<1>7. ASSUME NEW i \in DOMAIN wire', i \notin DOMAIN wire, i # Len(wire) + 1
      PROVE  i = Len(wire) + 2 /\ wire'[i] = StateChange(TRUE)
  <2>1. i = Len(wire) + 2 /\ Len(more) = 1
    BY <1>2, <1>3, <1>5, <1>6, <1>7
  <2>2. wire'[Len(w) + 1] = more[1]
    BY <1>5, <2>1
  <2>3. i = Len(w) + 1
    BY <1>2, <2>1
  <2>4. more[1] = StateChange(TRUE)
    <3>1. Len(more) # 0
      BY <2>1
    <3> QED BY <1>3, <3>1, Zenon
  <2> QED BY <2>1, <2>2, <2>3, <2>4
<1>8. \A i \in DOMAIN wire : i \in DOMAIN wire' /\ wire'[i] = wire[i] /\ i < Len(wire) + 1
  <2>1. ASSUME NEW i \in 1..Len(wire) PROVE i \in 1..Len(wire') /\ i \in 1..Len(w) /\ i < Len(wire) + 1
    BY <1>2, <1>5
  <2> QED BY <1>2, <1>5, <1>6, <2>1
<1>9. Len(wire) + 1 \in DOMAIN wire' /\ wire'[Len(wire) + 1] = Response(status)
  <2>1. Len(wire) + 1 \in 1..Len(wire') /\ Len(wire) + 1 \in 1..Len(w)
    BY <1>2, <1>5
  <2> QED BY <1>2, <1>5, <1>6, <2>1
<1>10. DOMAIN wire \subseteq Nat /\ DOMAIN wire' \subseteq Nat
  BY <1>2, <1>6
<1> QED
  BY <1>2, <1>7, <1>8, <1>9, <1>10

\* The first frame is read.
LEMMA FrameRead ==
  ASSUME Types, wire # <<>>, wire' = Tail(wire)
  PROVE  /\ 1 \in DOMAIN wire /\ Head(wire) = wire[1] /\ Head(wire) \in Frame
         /\ \A i \in DOMAIN wire' : i + 1 \in DOMAIN wire /\ wire'[i] = wire[i + 1] /\ 1 < i + 1
         /\ \A i \in DOMAIN wire : i = 1 \/ (i - 1 \in DOMAIN wire' /\ wire'[i - 1] = wire[i])
         /\ DOMAIN wire \subseteq Nat /\ DOMAIN wire' \subseteq Nat
<1>1. wire \in Seq(Frame)
  BY DEF Types
<1>2. /\ Len(wire) \in Nat \ {0}
      /\ DOMAIN wire = 1..Len(wire) /\ DOMAIN wire' = 1..(Len(wire) - 1)
      /\ \A j \in 1..(Len(wire) - 1) : wire'[j] = wire[j + 1]
      /\ Head(wire) = wire[1] /\ Head(wire) \in Frame /\ 1 \in DOMAIN wire
  BY <1>1, Taken
<1>3. ASSUME NEW i \in DOMAIN wire, i # 1
      PROVE  i - 1 \in DOMAIN wire' /\ wire'[i - 1] = wire[i]
  <2>1. i - 1 \in 1..(Len(wire) - 1) /\ (i - 1) + 1 = i
    BY <1>2, <1>3
  <2> QED BY <1>2, <2>1
<1> QED
  BY <1>2, <1>3

\* What a device sends, and a reset nobody asked for, is no response.
LEMMA HeardFrame ==
  ASSUME Types, AdapterRestarts \/ DeviceHeard
  PROVE  \E f \in Frame : wire' = Append(wire, f) /\ f.kind # "response" /\ ~Own(f)
<1>1. CASE AdapterRestarts
  <2>1. resets \in Nat /\ wire' = Append(wire, Reset(resets + 1))
    BY <1>1 DEF AdapterRestarts, Types
  <2>2. Reset(resets + 1) \in Indication /\ resets + 1 # 0
    BY <2>1, FramesAre
  <2>3. Reset(resets + 1).kind # "response" /\ ~Own(Reset(resets + 1))
    BY <2>2 DEF Reset, Own
  <2> QED BY <2>1, <2>2, <2>3 DEF Frame
<1>2. CASE DeviceHeard
  <2>1. messages \in Nat
    BY DEF Types
  <2>2. PICK f \in {Message(messages + 1, c) : c \in Content} \union {OtherFrame} :
          wire' = Append(wire, f)
    BY <1>2 DEF DeviceHeard
  <2>3. CASE f = OtherFrame
    BY <2>2, <2>3 DEF Frame, OtherFrame, Own, IsReset
  <2>4. ASSUME NEW c \in Content, f = Message(messages + 1, c)
        PROVE  f \in Frame /\ f.kind # "response" /\ ~Own(f)
    <3>1. messages + 1 \in Nat
      BY <2>1
    <3>2. f \in Indication
      BY <2>4, <3>1, FramesAre
    <3>3. f.kind = "message"
      BY <2>4 DEF Message
    <3> QED BY <3>2, <3>3 DEF Frame, Own, IsReset
  <2> QED BY <2>2, <2>3, <2>4
<1> QED
  BY <1>1, <1>2

\* What the adapter is asked.
LEMMA ToAdapter ==
  ASSUME Asked
  PROVE  /\ toAdapter # <<>> /\ Head(toAdapter) = "reset" =>
              /\ \/ Tail(toAdapter) = <<>>
                 \/ pending # NoRequest /\ Tail(toAdapter) = <<pending>>
              /\ toAdapter[1] = "reset" /\ 1 \in DOMAIN toAdapter
         /\ toAdapter # <<>> /\ Head(toAdapter) # "reset" =>
              /\ pending # NoRequest /\ Head(toAdapter) = pending /\ Tail(toAdapter) = <<>>
<1>1. \A r : /\ Head(<<r>>) = r /\ Tail(<<r>>) = <<>> /\ <<r>>[1] = r /\ 1 \in DOMAIN <<r>>
             /\ Head(<<"reset", r>>) = "reset" /\ Tail(<<"reset", r>>) = <<r>>
             /\ <<"reset", r>>[1] = "reset" /\ 1 \in DOMAIN <<"reset", r>>
  OBVIOUS
<1>2. CASE toAdapter = <<>>
  BY <1>2
<1>3. CASE toAdapter = <<"reset">>
  BY <1>1, <1>3, Zenon
<1>4. CASE pending # NoRequest /\ toAdapter = <<pending>>
  BY <1>1, <1>4, Zenon
<1>5. CASE pending # NoRequest /\ toAdapter = <<"reset", pending>>
  BY <1>1, <1>5, Zenon
<1> QED
  BY <1>2, <1>3, <1>4, <1>5 DEF Asked

LEMMA AskedStep ==
  ASSUME Base, [Next]_vars
  PROVE  Asked'
<1> USE DEF Base
<1> DEFINE Waiting == /\ pending' # NoRequest =>
                           \/ phase' \in {"asking", "networked"} /\ pending' = Head(todo')
                           \/ phase' = "running" /\ pending' = ClientRequest /\ lock' # <<>>
           Queued == \/ toAdapter' \in {<<>>, <<"reset">>}
                     \/ pending' # NoRequest /\ toAdapter' \in {<<pending'>>, <<"reset", pending'>>}
           Once == \A i, j \in DOMAIN wire' :
                     wire'[i].kind = "response" /\ wire'[j].kind = "response" => i = j
           Last == \A i \in DOMAIN wire' :
                     wire'[i].kind = "response" => pending' # NoRequest /\ toAdapter' = <<>>
<1>0. SUFFICES Waiting /\ Queued /\ Once /\ Last
  BY DEF Asked
<1>1. ASSUME UNCHANGED <<pending, phase, todo, toAdapter, wire>>, lock # <<>> => lock' # <<>>
      PROVE  Waiting /\ Queued /\ Once /\ Last
  BY <1>1 DEF Asked
<1>2. CASE UNCHANGED vars
  BY <1>1, <1>2 DEF vars, startVars, loopVars
<1>3. CASE AdapterResets
  <2>1. /\ UNCHANGED <<pending, phase, todo, lock>> /\ toAdapter' = Tail(toAdapter)
        /\ toAdapter # <<>> /\ Head(toAdapter) = "reset"
        /\ wire' = wire \/ wire' = Append(wire, Reset(0))
    BY <1>3 DEF AdapterResets, startVars, loopVars
  <2>2. Queued
    BY <2>1, ToAdapter
  <2>3. \A i \in DOMAIN wire : wire[i].kind # "response"
    BY <2>1 DEF Asked
  <2>4. \A i \in DOMAIN wire' : wire'[i].kind # "response"
    <3>1. CASE wire' = wire
      BY <2>3, <3>1
    <3>2. CASE wire' = Append(wire, Reset(0))
      <4>1. Reset(0) \in Frame /\ Reset(0).kind # "response"
        BY FramesAre DEF Frame
      <4> QED BY <2>3, <3>2, <4>1, FrameSent
    <3> QED BY <2>1, <3>1, <3>2
  <2>5. Waiting
    BY <2>1 DEF Asked
  <2> QED BY <2>2, <2>4, <2>5
<1>4. CASE AdapterAnswers
  <2>1. /\ UNCHANGED <<pending, phase, todo, lock>> /\ toAdapter' = Tail(toAdapter)
        /\ toAdapter # <<>> /\ Head(toAdapter) # "reset"
        /\ \/ wire' = wire
           \/ \E status \in {"ok", "bad", "rejected"}, up \in BOOLEAN :
                wire' = Append(wire, Response(status)) \o (IF up THEN <<StateChange(TRUE)>> ELSE <<>>)
    BY <1>4 DEF AdapterAnswers, startVars, loopVars
  <2>2. pending' # NoRequest /\ toAdapter' = <<>>
    BY <2>1, ToAdapter
  <2>3. \A i \in DOMAIN wire : wire[i].kind # "response"
    BY <2>1 DEF Asked
  <2>4. Once
    <3>1. CASE wire' = wire
      BY <2>3, <3>1
    <3>2. ASSUME NEW status \in {"ok", "bad", "rejected"}, NEW up \in BOOLEAN,
                 wire' = Append(wire, Response(status)) \o (IF up THEN <<StateChange(TRUE)>> ELSE <<>>)
          PROVE  Once
      <4>1. StateChange(TRUE).kind # "response"
        BY DEF StateChange
      <4>2. \A i \in DOMAIN wire' : wire'[i].kind = "response" => i = Len(wire) + 1
        BY <2>3, <3>2, <4>1, AnswerSent
      <4> QED BY <4>2
    <3> QED BY <2>1, <3>1, <3>2
  <2>5. Waiting
    BY <2>1 DEF Asked
  <2> QED BY <2>2, <2>4, <2>5
<1>5. CASE AdapterRestarts \/ DeviceHeard
  <2>1. UNCHANGED <<pending, phase, todo, lock, toAdapter>>
    BY <1>5 DEF AdapterRestarts, DeviceHeard, startVars, loopVars
  <2>2. PICK f \in Frame : wire' = Append(wire, f) /\ f.kind # "response"
    BY <1>5, HeardFrame, Zenon
  <2>3. \A i \in DOMAIN wire' :
          wire'[i].kind = "response" => i \in DOMAIN wire /\ wire[i].kind = "response"
    BY <2>2, FrameSent
  <2> QED BY <2>1, <2>3 DEF Asked
<1>6. CASE ReadResponse
  <2>1. /\ wire # <<>> /\ Head(wire).kind = "response" /\ wire' = Tail(wire)
        /\ pending' = NoRequest /\ toAdapter' = toAdapter
    BY <1>6 DEF ReadResponse
  <2>2. toAdapter = <<>>
    BY <2>1, FrameRead DEF Asked
  <2>3. \A i \in DOMAIN wire' : wire'[i].kind # "response"
    BY <2>1, FrameRead DEF Asked
  <2> QED BY <2>1, <2>2, <2>3
<1>7. CASE ReadIndication
  <2>1. /\ wire # <<>> /\ wire' = Tail(wire)
        /\ UNCHANGED <<pending, toAdapter, phase, todo, lock>>
    BY <1>7 DEF ReadIndication, startVars, loopVars
  <2>2. \A i \in DOMAIN wire' : i + 1 \in DOMAIN wire /\ wire'[i] = wire[i + 1] /\ i \in Nat
    BY <2>1, FrameRead
  <2>3. Once
    <3>1. SUFFICES ASSUME NEW i \in DOMAIN wire', NEW j \in DOMAIN wire',
                          wire'[i].kind = "response", wire'[j].kind = "response"
                   PROVE  i = j
      OBVIOUS
    <3>2. i + 1 = j + 1
      BY <2>2, <3>1 DEF Asked
    <3> QED BY <2>2, <3>2
  <2>4. Last
    BY <2>1, <2>2 DEF Asked
  <2>5. Waiting /\ Queued
    BY <2>1 DEF Asked
  <2> QED BY <2>3, <2>4, <2>5
<1>8. CASE RequestTimesOut
  <2>1. /\ pending' = NoRequest /\ pending # NoRequest /\ UNCHANGED <<toAdapter, wire>>
        /\ \A i \in DOMAIN toAdapter : toAdapter[i] # pending
        /\ \A i \in DOMAIN wire : wire[i].kind # "response"
    BY <1>8 DEF RequestTimesOut, Has
  <2>2. toAdapter \in {<<>>, <<"reset">>}
    <3>1. toAdapter # <<pending>>
      BY <2>1
    <3>2. toAdapter # <<"reset", pending>>
      BY <2>1
    <3> QED BY <3>1, <3>2 DEF Asked
  <2> QED BY <2>1, <2>2
<1>9. CASE ActorStops
  BY <1>9 DEF ActorStops
<1>10. CASE AwaitReset \/ AwaitNoReset \/ AwaitNetwork \/ AwaitNoNetwork \/ Drain
  <2>1. phase \in {"resetting", "network", "draining"} /\ UNCHANGED <<pending, toAdapter, wire>>
    BY <1>10 DEF AwaitReset, AwaitNoReset, AwaitNetwork, AwaitNoNetwork, Drain
  <2>2. pending = NoRequest
    BY <2>1 DEF Asked
  <2> QED BY <2>1, <2>2 DEF Asked
<1>11. ASSUME NEW shape \in Requests, Ask(shape), pending = NoRequest, wire' = wire,
              \/ phase \in {"asking", "networked"} /\ shape = Head(todo)
              \/ phase = "running" /\ shape = ClientRequest /\ lock # <<>>
       PROVE  Waiting /\ Queued /\ Once /\ Last
  <2>1. \A i \in DOMAIN wire : wire[i].kind # "response"
    BY <1>11 DEF Asked
  <2>2. toAdapter \in {<<>>, <<"reset">>}
    BY <1>11 DEF Asked
  <2>3. CASE alive
    <3>1. /\ pending' = shape /\ toAdapter' = Append(toAdapter, shape)
          /\ UNCHANGED <<phase, todo, lock>>
      BY <1>11, <2>3 DEF Ask, startVars, loopVars
    <3>2. shape # NoRequest
      BY DEF Requests, StartRequests, ClientRequest, NoRequest
    <3>3. toAdapter' \in {<<shape>>, <<"reset", shape>>}
      <4> DEFINE S == Requests \union {"reset"}
      <4>1. <<"reset">> \in Seq(S) /\ <<>> \in Seq(S) /\ shape \in S
        BY <1>11
      <4> HIDE DEF S
      <4>2. Append(<<"reset">>, shape) = <<"reset", shape>>
        <5>1. "reset" \in S
          BY DEF S
        <5> QED BY <4>1, <5>1, AppendedOne
      <4>3. Append(<<>>, shape) = <<shape>>
        BY <4>1
      <4> QED BY <2>2, <3>1, <4>2, <4>3, Zenon
    <3> QED BY <1>11, <2>1, <3>1, <3>2, <3>3
  <2>4. CASE ~alive
    <3>1. UNCHANGED <<pending, toAdapter>>
      BY <2>4, <1>11 DEF Ask
    <3> QED BY <1>11, <2>1, <2>2, <3>1
  <2> QED BY <2>3, <2>4
<1>12. CASE AskNext
  <2>1. /\ phase \in {"asking", "networked"} /\ pending = NoRequest /\ Ask(Head(todo)) /\ wire' = wire
    BY <1>12 DEF AskNext
  <2>2. PICK shape \in Requests : shape = Head(todo)
    <3>1. todo # <<>> /\ todo \in Seq(StartRequests)
      BY <2>1 DEF Steps
    <3>2. Head(todo) \in StartRequests
      BY <3>1
    <3> QED BY <3>2 DEF Requests
  <2> QED BY <1>11, <2>1, <2>2
<1>13. CASE Call
  <2>1. /\ phase = "running" /\ lock # <<>> /\ pending = NoRequest /\ Ask(ClientRequest) /\ wire' = wire
    BY <1>13 DEF Call
  <2>2. ClientRequest \in Requests
    BY DEF Requests
  <2> QED BY <1>11, <2>1, <2>2
<1>14. CASE Pump \/ HandleEvent \/ ConnectionLost
  BY <1>1, <1>14 DEF Pump, PumpTakes, PumpSends, PumpEnds, HandleEvent, ConnectionLost, startVars, loopVars
<1>15. CASE HandleCommand
  <2>1. UNCHANGED <<pending, phase, todo, toAdapter, wire>> /\ lock' = Append(lock, Main)
    BY <1>15 DEF HandleCommand, startVars
  <2>2. lock' # <<>>
    <3>1. \A s \in Seq(Task \union {Main}), c \in Task \union {Main} : Append(s, c) # <<>>
      <4>1. \A S : \A s \in Seq(S), c \in S : Append(s, c) # <<>>
        BY AppendedOne
      <4> QED BY <4>1
    <3> QED BY <2>1, <3>1 DEF Types
  <2> QED BY <1>1, <2>1, <2>2
<1>16. ASSUME NEW t \in Task, TaskLocks(t)
       PROVE  Waiting /\ Queued /\ Once /\ Last
  <2>1. UNCHANGED <<pending, phase, todo, toAdapter, wire>> /\ lock' = Append(lock, t)
    BY <1>16 DEF TaskLocks, startVars
  <2>2. lock' # <<>>
    <3>1. \A s \in Seq(Task \union {Main}), c \in Task \union {Main} : Append(s, c) # <<>>
      <4>1. \A S : \A s \in Seq(S), c \in S : Append(s, c) # <<>>
        BY AppendedOne
      <4> QED BY <4>1
    <3> QED BY <2>1, <3>1 DEF Types
  <2> QED BY <1>1, <2>1, <2>2
<1> QED
  BY <1>2, <1>3, <1>4, <1>5, <1>6, <1>7, <1>8, <1>9, <1>10, <1>12, <1>13, <1>14, <1>15, <1>16, Zenon
     DEF Next, Adapter, Actor, Start

-----------------------------------------------------------------------------
\* The types.

LEMMA TypeStep ==
  ASSUME Base, [Next]_vars
  PROVE  TypeOK'
<1> USE DEF Base
<1>0. LockOK' /\ Steps' /\ Asked' /\ Types'
  <2>1. LockOK
    BY DEF TypeOK, Types, LockOK
  <2> QED BY <2>1, ControlStep, AskedStep, TypesStep
<1> DEFINE Rest == /\ alive' \in BOOLEAN /\ registered' \in BOOLEAN
                   /\ pending' \in Requests \union {NoRequest}
                   /\ Len(events') <= EventCap /\ Len(out') <= OutCap /\ Len(held') <= 1
                   /\ pump' \in {"absent", "running", "done"}
                   /\ unseen' \subseteq {"refused", "full", "discarded"}
<1>1. ASSUME Rest PROVE TypeOK'
  <2>1. toAdapter' \in Seq(Requests \union {"reset"})
    <3>1. ASSUME pending' \in Requests
          PROVE  <<pending'>> \in Seq(Requests \union {"reset"})
                 /\ <<"reset", pending'>> \in Seq(Requests \union {"reset"})
      BY <3>1
    <3>2. <<>> \in Seq(Requests \union {"reset"}) /\ <<"reset">> \in Seq(Requests \union {"reset"})
      OBVIOUS
    <3>3. pending' # NoRequest => pending' \in Requests
      BY <1>1
    <3> QED BY <1>0, <3>1, <3>2, <3>3, Zenon DEF Asked
  <2>2. phase' \in {"resetting", "asking", "network", "networked", "draining", "running", "failed"}
    BY <1>0 DEF Steps
  <2>3. todo' \in Seq(StartRequests)
    BY <1>0 DEF Steps
  <2> QED BY <1>0, <1>1, <2>1, <2>2, <2>3 DEF TypeOK, LockOK
<1>S. SUFFICES Rest
  BY <1>1
<1>U. ASSUME UNCHANGED <<alive, registered, pending, events, out, held, pump, unseen>>
      PROVE  Rest
  BY <1>U DEF TypeOK
<1>2. CASE UNCHANGED vars
  BY <1>2, <1>U DEF vars, adapterVars, pumpVars
<1>3. CASE Adapter
  BY <1>3 DEF Adapter, AdapterResets, AdapterAnswers, AdapterRestarts, DeviceHeard, pumpVars, TypeOK
<1>4. CASE ReadResponse
  <2>1. UNCHANGED <<alive, registered, events, out, held, pump>> /\ pending' = NoRequest
    BY <1>4 DEF ReadResponse, adapterVars, pumpVars
  <2>2. unseen' \subseteq {"refused", "full", "discarded"}
    BY <1>4 DEF ReadResponse, Answered, StepDone, CallDone, TypeOK
  <2> QED BY <2>1, <2>2 DEF TypeOK
<1>5. CASE ReadIndication
  <2>1. UNCHANGED <<alive, registered, pending, out, held, pump>>
    BY <1>5 DEF ReadIndication, adapterVars, pumpVars
  <2>2. \/ events' = events /\ unseen' = unseen
        \/ Len(events) < EventCap /\ events' = Append(events, Head(wire)) /\ unseen' = unseen
        \/ events' = events /\ unseen' = unseen \union (IF IsReset(Head(wire)) THEN {"full"} ELSE {})
    BY <1>5, Zenon DEF ReadIndication
  <2>3. EventCap \in Nat /\ Len(events) \in Nat /\ events' \in Seq(Indication)
    BY <1>0, CoordinatorAssumption DEF Types
  <2>4. Len(events') <= EventCap
    <3>1. CASE Len(events) < EventCap /\ events' = Append(events, Head(wire))
      BY <2>3, <3>1
    <3> QED BY <2>2, <3>1 DEF TypeOK
  <2>5. unseen' \subseteq {"refused", "full", "discarded"}
    BY <2>2 DEF TypeOK
  <2> QED BY <2>1, <2>4, <2>5 DEF TypeOK
<1>6. CASE RequestTimesOut
  <2>1. UNCHANGED <<alive, registered, events, out, held, pump>> /\ pending' = NoRequest
    BY <1>6 DEF RequestTimesOut, adapterVars, pumpVars
  <2>2. unseen' \subseteq {"refused", "full", "discarded"}
    BY <1>6 DEF RequestTimesOut, Answered, StepDone, CallDone, TypeOK
  <2> QED BY <2>1, <2>2 DEF TypeOK
<1>7. CASE ActorStops
  <2>1. UNCHANGED <<registered, events, out, held, pump>> /\ pending' = NoRequest /\ alive' = FALSE
    BY <1>7 DEF ActorStops, adapterVars, pumpVars
  <2>2. unseen' \subseteq {"refused", "full", "discarded"}
    BY <1>7 DEF ActorStops, Answered, StepDone, CallDone, TypeOK
  <2> QED BY <2>1, <2>2 DEF TypeOK
<1>8. CASE AwaitReset \/ AwaitNetwork
  <2>1. UNCHANGED <<alive, registered, pending, out, held, pump, unseen>> /\ events # <<>> /\ events' = Tail(events)
    BY <1>8 DEF AwaitReset, AwaitNetwork, adapterVars, pumpVars
  <2>2. Len(events') <= EventCap
    <3>1. events \in Seq(Indication)
      BY DEF Types
    <3>2. Len(events) \in Nat /\ Len(events') = Len(events) - 1
      BY <2>1, <3>1
    <3> QED BY <3>2, CoordinatorAssumption DEF TypeOK
  <2> QED BY <2>1, <2>2 DEF TypeOK
<1>9. CASE AwaitNoReset \/ AwaitNoNetwork
  BY <1>9, <1>U DEF AwaitNoReset, AwaitNoNetwork, adapterVars, pumpVars
<1>10. ASSUME NEW shape \in Requests, Ask(shape),
              UNCHANGED <<alive, registered, events, out, held, pump>>
       PROVE  Rest
  <2>1. pending' = shape \/ pending' = pending
    BY <1>10 DEF Ask
  <2>2. unseen' \subseteq {"refused", "full", "discarded"}
    BY <1>10 DEF Ask, Answered, StepDone, CallDone, TypeOK
  <2> QED BY <1>10, <2>1, <2>2 DEF TypeOK
<1>11. CASE AskNext
  <2>1. /\ phase \in {"asking", "networked"} /\ Ask(Head(todo))
        /\ UNCHANGED <<alive, registered, events, out, held, pump>>
    BY <1>11 DEF AskNext, adapterVars, pumpVars
  <2>2. PICK shape \in Requests : shape = Head(todo)
    <3>1. todo # <<>> /\ todo \in Seq(StartRequests)
      BY <2>1 DEF Steps
    <3>2. Head(todo) \in StartRequests
      BY <3>1
    <3> QED BY <3>2 DEF Requests
  <2> QED BY <1>10, <2>1, <2>2
<1>12. CASE Call
  <2>1. Ask(ClientRequest) /\ UNCHANGED <<alive, registered, events, out, held, pump>>
    BY <1>12 DEF Call, adapterVars, pumpVars
  <2>2. ClientRequest \in Requests
    BY DEF Requests
  <2> QED BY <1>10, <2>1, <2>2
<1>13. CASE Drain
  <2>1. /\ UNCHANGED <<alive, registered, pending, out, held>>
        /\ events' = <<>> /\ pump' = "running" /\ unseen' \subseteq unseen \union {"discarded"}
    BY <1>13 DEF Drain, adapterVars
  <2>2. Len(events') <= EventCap
    BY <2>1, CoordinatorAssumption
  <2> QED BY <2>1, <2>2 DEF TypeOK
<1>14. CASE PumpTakes
  <2>1. /\ UNCHANGED <<alive, registered, pending, out, unseen>>
        /\ early # <<>> \/ events # <<>>
        /\ events' = EarlyFirst.events
        /\ held' = <<>> \/ held' = <<EarlyFirst.event>>
        /\ pump' \in {"running", "done"}
    BY <1>14 DEF PumpTakes, PumpAfter, adapterVars, loopVars
  <2>2. Len(held') <= 1
    <3>1. \A x : Len(<<x>>) = 1
      OBVIOUS
    <3>2. Len(<<>>) = 0
      OBVIOUS
    <3>3. CASE held' = <<>>
      BY <3>2, <3>3
    <3>4. CASE held' = <<EarlyFirst.event>>
      <4>1. Len(<<EarlyFirst.event>>) = 1
        BY <3>1, Zenon
      <4> QED BY <3>4, <4>1
    <3> QED BY <2>1, <3>3, <3>4
  <2>3. events' = events \/ (events # <<>> /\ events' = Tail(events))
    BY <2>1 DEF EarlyFirst
  <2>4. Len(events') <= EventCap
    <3>1. events \in Seq(Indication) /\ EventCap \in Nat
      BY CoordinatorAssumption DEF Types
    <3>2. events # <<>> => Len(events) \in Nat /\ Len(Tail(events)) = Len(events) - 1
      BY <3>1
    <3> QED BY <2>3, <3>1, <3>2 DEF TypeOK
  <2> QED BY <2>1, <2>2, <2>4 DEF TypeOK
<1>15. CASE PumpSends
  <2>1. /\ UNCHANGED <<alive, registered, pending, events, pump, unseen>>
        /\ Len(out) < OutCap /\ out' = out \o held /\ held' = <<>>
    BY <1>15 DEF PumpSends, adapterVars, loopVars
  <2>2. Len(out') = Len(out) + Len(held) /\ Len(out) \in Nat /\ Len(held) \in Nat
    <3>1. out \in Seq(Wantable) /\ held \in Seq(Wantable)
      BY DEF Types
    <3> QED BY <2>1, <3>1, Joined
  <2>3. Len(out') <= OutCap
    BY <2>1, <2>2, CoordinatorAssumption DEF TypeOK
  <2>4. Len(held') <= 1
    BY <2>1
  <2> QED BY <2>1, <2>3, <2>4 DEF TypeOK
<1>16. CASE PumpEnds
  BY <1>16 DEF PumpEnds, adapterVars, loopVars, TypeOK
<1>17. CASE HandleEvent
  <2>1. /\ UNCHANGED <<alive, registered, pending, events, held, pump, unseen>>
        /\ out # <<>> /\ out' = Tail(out)
    BY <1>17 DEF HandleEvent, adapterVars
  <2>2. Len(out') <= OutCap
    <3>1. out \in Seq(Wantable) /\ OutCap \in Nat
      BY CoordinatorAssumption DEF Types
    <3>2. Len(out) \in Nat /\ Len(Tail(out)) = Len(out) - 1
      BY <2>1, <3>1
    <3> QED BY <2>1, <3>1, <3>2 DEF TypeOK
  <2> QED BY <2>1, <2>2 DEF TypeOK
<1>18. CASE ConnectionLost \/ HandleCommand
  BY <1>18, <1>U DEF ConnectionLost, HandleCommand, adapterVars, pumpVars
<1>19. ASSUME NEW t \in Task, TaskLocks(t)
       PROVE  Rest
  BY <1>19, <1>U DEF TaskLocks, adapterVars, pumpVars
<1> HIDE DEF Rest
<1> QED
  BY <1>2, <1>3, <1>4, <1>5, <1>6, <1>7, <1>8, <1>9, <1>11, <1>12, <1>13, <1>14, <1>15, <1>16,
     <1>17, <1>18, <1>19, Zenon
     DEF Next, Actor, Start, Pump

LEMMA BaseInit ==
  ASSUME Init
  PROVE  Base
<1>1. TypeOK
  <2>1. toAdapter \in Seq(Requests \union {"reset"})
    BY DEF Init
  <2>2. todo \in Seq(StartRequests)
    BY DEF Init, StartRequests
  <2>3. Len(events) <= EventCap /\ Len(out) <= OutCap /\ Len(held) <= 1
    BY CoordinatorAssumption DEF Init
  <2>4. task \in [Task -> 0..TaskRequests] /\ DOMAIN lock = {}
    BY CoordinatorAssumption DEF Init
  <2> QED BY <2>1, <2>2, <2>3, <2>4 DEF Init, TypeOK
<1>2. Types
  BY DEF Init, Types
<1>3. Steps
  BY DEF Init, Steps, StartRequests
<1>4. Awaited
  BY DEF Init, Awaited
<1>5. Asked
  BY DEF Init, Asked
<1> QED
  BY <1>1, <1>2, <1>3, <1>4, <1>5 DEF Base

LEMMA BaseStep ==
  ASSUME Base, [Next]_vars
  PROVE  Base'
<1>1. LockOK
  BY DEF Base, TypeOK, Types, LockOK
<1> QED
  BY <1>1, TypeStep, TypesStep, ControlStep, AskedStep DEF Base

\* Whatever the capacities and however requests, answers, indications and
\* resets interleave, the queues keep to their capacities, no client is twice
\* in the queue for the lock, and who is in it has reason to (start-up, event
\* pump and lock of znp/mod.rs, bridge.rs).
THEOREM TypeCorrect == Spec => []TypeOK
<1>1. Init => Base
  BY BaseInit
<1>2. Base /\ [Next]_vars => Base'
  BY BaseStep
<1>3. Base => TypeOK
  BY DEF Base
<1> QED
  BY <1>1, <1>2, <1>3, PTL DEF Spec

-----------------------------------------------------------------------------
\* The reset start() asks for comes before the answer to its first request.

OwnFirst ==
  /\ \A i \in DOMAIN toAdapter :
       toAdapter[i] = "reset" =>
         todo = <<"version">> /\ \A j \in DOMAIN wire : ~Own(wire[j])
  /\ \A i \in DOMAIN wire : Own(wire[i]) => todo = <<"version">>
  /\ \A i, j \in DOMAIN wire : wire[i].kind = "response" /\ i < j => ~Own(wire[j])
  /\ pump # "absent" =>
       /\ \A i \in DOMAIN early : ~Own(early[i])
       /\ \A i \in DOMAIN events : ~Own(events[i])

\* Nothing but a response gets start() past its first request, to which it does
\* not return.
LEMMA VersionAnswered ==
  ASSUME Base, [Next]_vars
  PROVE  /\ todo # <<"version">> => todo' # <<"version">>
         /\ todo = <<"version">> => todo' = todo \/ ReadResponse
<1>1. ASSUME NEW outcome, Answered(outcome),
             \/ phase \in {"asking", "networked"}
             \/ phase = "running" /\ lock # <<>>
      PROVE  /\ todo # <<"version">> => todo' # <<"version">>
             /\ todo = <<"version">> /\ outcome \in {"timeout", "closed"} => todo' = todo
  <2>1. CASE phase = "running"
    BY <1>1, <2>1 DEF Answered, CallDone, startVars
  <2>2. CASE phase # "running"
    <3>1. StepDone(outcome) /\ phase \in {"asking", "networked"}
      BY <1>1, <2>2 DEF Answered
    <3>2. todo # <<"version">> => todo' # <<"version">>
      BY <3>1, StepDoneEffect DEF Base
    <3>3. ASSUME todo = <<"version">>, outcome \in {"timeout", "closed"} PROVE todo' = todo
      <4>1. ~Tolerated(Head(todo), outcome)
        BY <3>3 DEF Tolerated
      <4> QED BY <3>1, <4>1 DEF StepDone
    <3> QED BY <3>2, <3>3
  <2> QED BY <2>1, <2>2
<1>2. ASSUME NEW shape, Ask(shape),
             \/ phase \in {"asking", "networked"}
             \/ phase = "running" /\ lock # <<>>
      PROVE  /\ todo # <<"version">> => todo' # <<"version">>
             /\ todo = <<"version">> => todo' = todo
  BY <1>1, <1>2 DEF Ask, startVars
<1>3. CASE ReadResponse
  <2>1. /\ wire # <<>> /\ Head(wire).kind = "response" /\ wire' = Tail(wire)
        /\ Answered(Head(wire).status)
    BY <1>3 DEF ReadResponse
  <2>2. pending # NoRequest
    BY <2>1, FrameRead DEF Base, Asked
  <2> QED BY <1>1, <1>3, <2>1, <2>2 DEF Base, Asked
<1>4. CASE RequestTimesOut
  <2>1. Answered("timeout") /\ pending # NoRequest
    BY <1>4 DEF RequestTimesOut
  <2> QED BY <1>1, <2>1 DEF Base, Asked
<1>5. CASE ActorStops
  <2>1. todo' = todo \/ (Answered("closed") /\ pending # NoRequest)
    BY <1>5 DEF ActorStops, startVars
  <2> QED BY <1>1, <2>1 DEF Base, Asked
<1>6. CASE AskNext
  <2>1. phase \in {"asking", "networked"} /\ Ask(Head(todo))
    BY <1>6 DEF AskNext
  <2> QED BY <1>2, <2>1
<1>7. CASE Call
  <2>1. phase = "running" /\ lock # <<>> /\ Ask(ClientRequest)
    BY <1>7 DEF Call
  <2> QED BY <1>2, <2>1
<1>8. CASE UNCHANGED todo
  BY <1>8
<1>9. CASE UNCHANGED vars \/ Adapter \/ ReadIndication
  BY <1>8, <1>9 DEF vars, startVars, Adapter, AdapterResets, AdapterAnswers, AdapterRestarts,
     DeviceHeard, ReadIndication
<1>10. CASE AwaitReset \/ AwaitNoReset \/ AwaitNetwork \/ AwaitNoNetwork \/ Drain
  BY <1>8, <1>10 DEF AwaitReset, AwaitNoReset, AwaitNetwork, AwaitNoNetwork, Drain
<1>11. CASE Pump \/ HandleEvent \/ ConnectionLost \/ HandleCommand
  BY <1>8, <1>11 DEF Pump, PumpTakes, PumpSends, PumpEnds, HandleEvent, ConnectionLost,
     HandleCommand, startVars
<1>12. ASSUME NEW t \in Task, TaskLocks(t) PROVE todo' = todo
  BY <1>12 DEF TaskLocks, startVars
<1> QED
  BY <1>3, <1>4, <1>5, <1>6, <1>7, <1>8, <1>9, <1>10, <1>11, <1>12, Zenon DEF Next, Actor, Start

LEMMA OwnOnWireStep ==
  ASSUME Base, OwnFirst, [Next]_vars
  PROVE  /\ \A i \in DOMAIN toAdapter' :
              toAdapter'[i] = "reset" =>
                todo' = <<"version">> /\ \A j \in DOMAIN wire' : ~Own(wire'[j])
         /\ \A i \in DOMAIN wire' : Own(wire'[i]) => todo' = <<"version">>
         /\ \A i, j \in DOMAIN wire' : wire'[i].kind = "response" /\ i < j => ~Own(wire'[j])
<1> DEFINE P == /\ \A i \in DOMAIN toAdapter' :
                     toAdapter'[i] = "reset" =>
                       todo' = <<"version">> /\ \A j \in DOMAIN wire' : ~Own(wire'[j])
                /\ \A i \in DOMAIN wire' : Own(wire'[i]) => todo' = <<"version">>
                /\ \A i, j \in DOMAIN wire' : wire'[i].kind = "response" /\ i < j => ~Own(wire'[j])
<1>0. SUFFICES P
  OBVIOUS
<1>T. Types
  BY DEF Base
<1>1. CASE ReadResponse
  <2>1. /\ wire # <<>> /\ Head(wire).kind = "response" /\ wire' = Tail(wire) /\ toAdapter' = toAdapter
    BY <1>1 DEF ReadResponse
  <2>2. /\ 1 \in DOMAIN wire /\ Head(wire) = wire[1]
        /\ \A i \in DOMAIN wire' : i + 1 \in DOMAIN wire /\ wire'[i] = wire[i + 1] /\ 1 < i + 1 /\ i \in Nat
    BY <1>T, <2>1, FrameRead
  <2>3. toAdapter' = <<>>
    BY <2>1, <2>2 DEF Base, Asked
  <2>4. \A i \in DOMAIN wire' : ~Own(wire'[i])
    BY <2>1, <2>2 DEF OwnFirst
  <2> QED BY <2>3, <2>4
<1>2. ASSUME ~ReadResponse PROVE todo' = <<"version">> <=> todo = <<"version">>
  BY <1>2, VersionAnswered
<1> HIDE DEF P
<1>3. ASSUME UNCHANGED <<wire, toAdapter>>, todo' = <<"version">> <=> todo = <<"version">>
      PROVE  P
  BY <1>3 DEF P, OwnFirst
<1>4. CASE AdapterResets
  <2>1. /\ toAdapter' = Tail(toAdapter) /\ toAdapter # <<>> /\ Head(toAdapter) = "reset"
        /\ wire' = wire \/ wire' = Append(wire, Reset(0))
        /\ todo' = todo
    BY <1>4 DEF AdapterResets, startVars
  <2>2. /\ toAdapter[1] = "reset" /\ 1 \in DOMAIN toAdapter
        /\ Tail(toAdapter) = <<>> \/ (pending # NoRequest /\ Tail(toAdapter) = <<pending>>)
    BY <2>1, ToAdapter DEF Base
  <2>3. \A i \in DOMAIN toAdapter' : toAdapter'[i] # "reset"
    <3>1. pending # NoRequest => pending \in Requests
      BY DEF Base, TypeOK
    <3>2. "reset" \notin Requests
      BY DEF Requests, StartRequests, ClientRequest
    <3>3. \A r : \A i \in DOMAIN <<r>> : <<r>>[i] = r
      OBVIOUS
    <3>4. DOMAIN <<>> = {}
      OBVIOUS
    <3>5. CASE toAdapter' = <<>>
      BY <3>4, <3>5
    <3>6. CASE pending # NoRequest /\ toAdapter' = <<pending>>
      <4>1. \A i \in DOMAIN <<pending>> : <<pending>>[i] = pending
        BY <3>3
      <4> QED BY <3>1, <3>2, <3>6, <4>1, Zenon
    <3> QED BY <2>1, <2>2, <3>5, <3>6
  <2>4. todo' = <<"version">>
    BY <2>1, <2>2 DEF OwnFirst
  <2>5. \A i \in DOMAIN wire : wire[i].kind # "response"
    BY <2>1 DEF Base, Asked
  <2>6. \A i \in DOMAIN wire' : wire'[i].kind # "response"
    <3>1. CASE wire' = wire
      BY <2>5, <3>1
    <3>2. CASE wire' = Append(wire, Reset(0))
      <4>1. Reset(0) \in Frame /\ Reset(0).kind # "response"
        BY FramesAre DEF Frame
      <4> QED BY <1>T, <2>5, <3>2, <4>1, FrameSent
    <3> QED BY <2>1, <3>1, <3>2
  <2> QED BY <2>3, <2>4, <2>6 DEF P
<1>5. CASE AdapterAnswers
  <2>1. /\ toAdapter' = Tail(toAdapter) /\ toAdapter # <<>> /\ Head(toAdapter) # "reset"
        /\ todo' = todo
        /\ \/ wire' = wire
           \/ \E status \in {"ok", "bad", "rejected"}, up \in BOOLEAN :
                wire' = Append(wire, Response(status)) \o (IF up THEN <<StateChange(TRUE)>> ELSE <<>>)
    BY <1>5 DEF AdapterAnswers, startVars
  <2>2. toAdapter' = <<>>
    BY <2>1, ToAdapter DEF Base
  <2>3. \A i \in DOMAIN wire : wire[i].kind # "response"
    BY <2>1 DEF Base, Asked
  <2>4. CASE wire' = wire
    BY <2>1, <2>2, <2>3, <2>4 DEF P, OwnFirst
  <2>5. ASSUME NEW status \in {"ok", "bad", "rejected"}, NEW up \in BOOLEAN,
               wire' = Append(wire, Response(status)) \o (IF up THEN <<StateChange(TRUE)>> ELSE <<>>)
        PROVE  P
    <3>1. ~Own(Response(status)) /\ ~Own(StateChange(TRUE)) /\ StateChange(TRUE).kind # "response"
      BY DEF Own, IsReset, Response, StateChange
    <3>2. /\ \A i \in DOMAIN wire : i \in DOMAIN wire' /\ wire'[i] = wire[i] /\ i < Len(wire) + 1
          /\ wire'[Len(wire) + 1] = Response(status)
          /\ \A i \in DOMAIN wire' :
               \/ i \in DOMAIN wire \/ i = Len(wire) + 1
               \/ i = Len(wire) + 2 /\ wire'[i] = StateChange(TRUE)
          /\ DOMAIN wire \subseteq Nat /\ Len(wire) \in Nat
      BY <1>T, <2>5, AnswerSent
    <3>3. \A i \in DOMAIN wire' : Own(wire'[i]) => i \in DOMAIN wire /\ wire'[i] = wire[i]
      BY <3>1, <3>2
    <3>4. \A i \in DOMAIN wire' : wire'[i].kind = "response" => i = Len(wire) + 1
      BY <2>3, <3>1, <3>2
    <3>5. \A i, j \in DOMAIN wire' : wire'[i].kind = "response" /\ Own(wire'[j]) => j < i
      BY <3>2, <3>3, <3>4
    <3>6. DOMAIN wire' \subseteq Nat
      BY <3>2
    <3>7. \A i, j \in DOMAIN wire' : wire'[i].kind = "response" /\ i < j => ~Own(wire'[j])
      BY <3>5, <3>6
    <3> QED BY <2>1, <2>2, <3>3, <3>7 DEF P, OwnFirst
  <2> QED BY <2>1, <2>4, <2>5
<1>6. CASE AdapterRestarts \/ DeviceHeard
  <2>1. toAdapter' = toAdapter /\ todo' = todo
    BY <1>6 DEF AdapterRestarts, DeviceHeard, startVars
  <2>2. PICK f \in Frame : wire' = Append(wire, f) /\ f.kind # "response" /\ ~Own(f)
    BY <1>T, <1>6, HeardFrame, Zenon
  <2>3. /\ \A i \in DOMAIN wire' : Own(wire'[i]) => i \in DOMAIN wire /\ wire'[i] = wire[i]
        /\ \A i \in DOMAIN wire' : wire'[i].kind = "response" => i \in DOMAIN wire /\ wire'[i] = wire[i]
    BY <1>T, <2>2, FrameSent
  <2> QED BY <2>1, <2>3 DEF P, OwnFirst
<1>7. CASE ReadIndication
  <2>1. wire # <<>> /\ wire' = Tail(wire) /\ toAdapter' = toAdapter /\ todo' = todo
    BY <1>7 DEF ReadIndication, startVars
  <2>2. \A i \in DOMAIN wire' : i + 1 \in DOMAIN wire /\ wire'[i] = wire[i + 1] /\ i \in Nat
    BY <1>T, <2>1, FrameRead
  <2>3. \A i, j \in DOMAIN wire' : i < j => i + 1 < j + 1
    BY <2>2
  <2> QED BY <2>1, <2>2, <2>3 DEF P, OwnFirst
<1>8. CASE ActorStops
  BY <1>8 DEF ActorStops, P
<1>9. CASE RequestTimesOut /\ ~ReadResponse
  BY <1>2, <1>3, <1>9 DEF RequestTimesOut
<1>10. ASSUME NEW shape \in Requests, Ask(shape), wire' = wire, ~ReadResponse
       PROVE  P
  <2>1. CASE toAdapter' = toAdapter
    BY <1>2, <1>3, <1>10, <2>1
  <2>2. CASE toAdapter' = Append(toAdapter, shape)
    <3>1. shape # "reset"
      BY DEF Requests, StartRequests, ClientRequest
    <3>2. toAdapter \in Seq(Requests \union {"reset"})
      BY DEF Base, TypeOK
    <3>3. \A i \in DOMAIN toAdapter' :
            toAdapter'[i] = "reset" => i \in DOMAIN toAdapter /\ toAdapter[i] = "reset"
      BY <2>2, <3>1, <3>2
    <3> QED BY <1>2, <1>10, <3>3 DEF P, OwnFirst
  <2> QED BY <1>10, <2>1, <2>2 DEF Ask
<1>11. CASE AskNext /\ ~ReadResponse
  <2>1. phase \in {"asking", "networked"} /\ Ask(Head(todo)) /\ wire' = wire
    BY <1>11 DEF AskNext
  <2>2. PICK shape \in Requests : shape = Head(todo)
    <3>1. todo # <<>> /\ todo \in Seq(StartRequests)
      BY <2>1 DEF Base, Steps
    <3>2. Head(todo) \in StartRequests
      BY <3>1
    <3> QED BY <3>2 DEF Requests
  <2> QED BY <1>10, <1>11, <2>1, <2>2
<1>12. CASE Call /\ ~ReadResponse
  <2>1. Ask(ClientRequest) /\ wire' = wire
    BY <1>12 DEF Call
  <2>2. ClientRequest \in Requests
    BY DEF Requests
  <2> QED BY <1>10, <1>12, <2>1, <2>2
<1>13. CASE UNCHANGED vars
  BY <1>3, <1>13 DEF vars, startVars
<1>14. CASE AwaitReset \/ AwaitNoReset \/ AwaitNetwork \/ AwaitNoNetwork \/ Drain
  BY <1>3, <1>14 DEF AwaitReset, AwaitNoReset, AwaitNetwork, AwaitNoNetwork, Drain
<1>15. CASE Pump \/ HandleEvent \/ ConnectionLost \/ HandleCommand
  BY <1>3, <1>15 DEF Pump, PumpTakes, PumpSends, PumpEnds, HandleEvent, ConnectionLost,
     HandleCommand, startVars
<1>16. ASSUME NEW t \in Task, TaskLocks(t) PROVE P
  BY <1>3, <1>16 DEF TaskLocks, startVars
<1> QED
  BY <1>1, <1>4, <1>5, <1>6, <1>7, <1>8, <1>9, <1>11, <1>12, <1>13, <1>14, <1>15, <1>16, Zenon
     DEF Next, Adapter, Actor, Start

\* What the pump takes is the first of what came early, or else of the queue.
LEMMA PumpTaken ==
  ASSUME Base, PumpTakes
  PROVE  \/ /\ early # <<>> /\ early' = Tail(early) /\ events' = events
            /\ pump' = PumpAfter(Head(early))
            /\ held' = IF IsWanted(Head(early)) THEN <<Head(early)>> ELSE <<>>
         \/ /\ early = <<>> /\ events # <<>> /\ early' = <<>> /\ events' = Tail(events)
            /\ pump' = PumpAfter(Head(events))
            /\ held' = IF IsWanted(Head(events)) THEN <<Head(events)>> ELSE <<>>
<1>1. /\ early' = EarlyFirst.early /\ events' = EarlyFirst.events
      /\ pump' = PumpAfter(EarlyFirst.event)
      /\ held' = IF IsWanted(EarlyFirst.event) THEN <<EarlyFirst.event>> ELSE <<>>
      /\ early # <<>> \/ events # <<>>
  BY DEF PumpTakes
<1>2. CASE early # <<>>
  <2>1. /\ EarlyFirst.early = Tail(early) /\ EarlyFirst.events = events
        /\ EarlyFirst.event = Head(early)
    BY <1>2 DEF EarlyFirst
  <2> QED BY <1>1, <1>2, <2>1, Zenon
<1>3. CASE early = <<>>
  <2>1. /\ EarlyFirst.early = <<>> /\ EarlyFirst.events = Tail(events)
        /\ EarlyFirst.event = Head(events)
    BY <1>3 DEF EarlyFirst
  <2> QED BY <1>1, <1>3, <2>1, Zenon
<1> QED
  BY <1>2, <1>3

\* Answers leave pump and queues alone.
LEMMA AnswersLeave ==
  ASSUME ReadResponse \/ RequestTimesOut \/ ActorStops \/ AskNext \/ Call
  PROVE  UNCHANGED <<pump, held, out, early, events, kept, delivered, registered, resets>>
<1>1. ASSUME NEW outcome, Answered(outcome) PROVE early' = early
  BY <1>1 DEF Answered, StepDone, CallDone, startVars
<1>2. early' = early
  BY <1>1 DEF ReadResponse, RequestTimesOut, ActorStops, AskNext, Call, Ask, startVars
<1> QED
  BY <1>2 DEF ReadResponse, RequestTimesOut, ActorStops, AskNext, Call, pumpVars, adapterVars

LEMMA OwnQueuedStep ==
  ASSUME Base, OwnFirst, [Next]_vars, pump' # "absent"
  PROVE  /\ \A i \in DOMAIN early' : ~Own(early'[i])
         /\ \A i \in DOMAIN events' : ~Own(events'[i])
<1> DEFINE P == /\ \A i \in DOMAIN early' : ~Own(early'[i])
                /\ \A i \in DOMAIN events' : ~Own(events'[i])
<1>0. SUFFICES P
  OBVIOUS
<1>T. early \in Seq(Indication) /\ events \in Seq(Indication) /\ Types
  BY DEF Base, Types
<1>1. pump # "absent" => phase = "running" /\ todo = <<>>
  BY DEF Base, Awaited, Steps
<1>2. ASSUME UNCHANGED <<pump, early, events>> PROVE P
  BY <1>2 DEF OwnFirst
<1> HIDE DEF P
<1>3. CASE ReadResponse \/ RequestTimesOut \/ ActorStops \/ AskNext \/ Call
  BY <1>2, <1>3, AnswersLeave
<1>4. CASE UNCHANGED vars
  BY <1>2, <1>4 DEF vars, pumpVars, startVars
<1>5. CASE Adapter
  BY <1>2, <1>5 DEF Adapter, AdapterResets, AdapterAnswers, AdapterRestarts, DeviceHeard, pumpVars,
     startVars
<1>6. CASE ReadIndication
  <2>1. /\ UNCHANGED <<pump, early>> /\ wire # <<>>
        /\ events' = events \/ events' = Append(events, Head(wire))
    <3>1. events' = events \/ events' = Append(events, Head(wire))
      BY <1>6, Zenon DEF ReadIndication
    <3> QED BY <1>6, <3>1 DEF ReadIndication, pumpVars, startVars
  <2>2. CASE events' = Append(events, Head(wire))
    <3>1. wire \in Seq(Frame)
      BY <1>T DEF Types
    <3>2. Head(wire) = wire[1] /\ 1 \in DOMAIN wire
      BY <2>1, <3>1, Taken
    <3>3. todo # <<"version">>
      BY <1>1, <2>1
    <3>4. ~Own(Head(wire))
      BY <3>2, <3>3 DEF OwnFirst
    <3>5. events' \in Seq(Indication)
      BY TypesStep DEF Types
    <3>6. \A i \in DOMAIN events' : (i \in DOMAIN events /\ events'[i] = events[i]) \/ events'[i] = Head(wire)
      BY <1>T, <2>2, <3>5
    <3> QED BY <2>1, <3>4, <3>6 DEF P, OwnFirst
  <2> QED BY <1>2, <2>1, <2>2
<1>7. CASE AwaitReset \/ AwaitNoReset \/ AwaitNetwork \/ AwaitNoNetwork
  <2>1. phase # "running" /\ pump' = pump
    BY <1>7 DEF AwaitReset, AwaitNoReset, AwaitNetwork, AwaitNoNetwork, pumpVars
  <2> QED BY <1>1, <2>1
<1>8. CASE Drain
  <2>1. early' = Retained(early \o events) /\ events' = <<>>
    BY <1>8 DEF Drain
  <2>2. early \o events \in Seq(Indication)
    BY <1>T
  <2>3. \A i \in DOMAIN early' : ~IsReset(early'[i])
    BY <2>1, <2>2, SelectionsAre
  <2>4. DOMAIN events' = {}
    BY <2>1
  <2> QED BY <2>3, <2>4 DEF P, Own
<1>9. CASE PumpTakes
  <2>1. pump # "absent"
    BY <1>9 DEF PumpTakes
  <2>2. /\ early' = early \/ (early # <<>> /\ early' = Tail(early))
        /\ events' = events \/ (events # <<>> /\ events' = Tail(events))
    BY <1>9, PumpTaken
  <2>3. \A i \in DOMAIN early' : \E j \in DOMAIN early : early'[i] = early[j]
    BY <1>T, <2>2, Taken
  <2>4. \A i \in DOMAIN events' : \E j \in DOMAIN events : events'[i] = events[j]
    BY <1>T, <2>2, Taken
  <2> QED BY <2>1, <2>3, <2>4 DEF P, OwnFirst
<1>10. CASE PumpEnds
  BY <1>10 DEF PumpEnds, startVars, P, OwnFirst
<1>11. CASE PumpSends \/ HandleEvent \/ ConnectionLost \/ HandleCommand
  BY <1>2, <1>11 DEF PumpSends, HandleEvent, ConnectionLost, HandleCommand, startVars, pumpVars
<1>12. ASSUME NEW t \in Task, TaskLocks(t) PROVE P
  BY <1>2, <1>12 DEF TaskLocks, startVars, pumpVars
<1> QED
  BY <1>3, <1>4, <1>5, <1>6, <1>7, <1>8, <1>9, <1>10, <1>11, <1>12, Zenon
     DEF Next, Actor, Start, Pump

LEMMA OwnStep ==
  ASSUME Base, OwnFirst, [Next]_vars
  PROVE  OwnFirst'
<1>1. pump' # "absent" =>
        /\ \A i \in DOMAIN early' : ~Own(early'[i])
        /\ \A i \in DOMAIN events' : ~Own(events'[i])
  BY OwnQueuedStep
<1> QED
  BY <1>1, OwnOnWireStep DEF OwnFirst

\* The reset start() asks for, however late its indication and whatever is
\* answered meanwhile, is neither queued nor on its way when the event pump
\* runs (reset and start, znp/mod.rs).
THEOREM OwnResetDoesNoHarm == Spec => []OwnResetHarmless
<1>1. Init => Base /\ OwnFirst
  <2>1. Init => OwnFirst
    BY DEF Init, OwnFirst
  <2> QED BY <2>1, BaseInit
<1>2. (Base /\ OwnFirst) /\ [Next]_vars => (Base /\ OwnFirst)'
  BY BaseStep, OwnStep
<1>3. Base /\ OwnFirst => OwnResetHarmless
  <2>1. SUFFICES ASSUME Base, OwnFirst, pump # "absent"
                 PROVE  /\ \A i \in DOMAIN wire : ~Own(wire[i])
                        /\ \A i \in DOMAIN (early \o events) : ~Own((early \o events)[i])
                        /\ \A i \in DOMAIN toAdapter : toAdapter[i] # "reset"
    BY Zenon DEF OwnResetHarmless, Has, Own
  <2>2. todo = <<>>
    BY <2>1 DEF Base, Awaited, Steps
  <2>3. \A i \in DOMAIN wire : ~Own(wire[i])
    BY <2>1, <2>2 DEF OwnFirst
  <2>4. \A i \in DOMAIN toAdapter : toAdapter[i] # "reset"
    BY <2>1, <2>2 DEF OwnFirst
  <2>5. \A i \in DOMAIN (early \o events) :
          \/ \E j \in DOMAIN early : (early \o events)[i] = early[j]
          \/ \E j \in DOMAIN events : (early \o events)[i] = events[j]
    <3>1. early \in Seq(Indication) /\ events \in Seq(Indication)
      BY <2>1 DEF Base, Types
    <3> QED BY <3>1, JoinedFrom
  <2> QED BY <2>1, <2>3, <2>4, <2>5 DEF OwnFirst
<1> QED
  BY <1>1, <1>2, <1>3, PTL DEF Spec

-----------------------------------------------------------------------------
\* A lost endpoint is on its way to being noticed.

Heard ==
  \/ registered \/ ~alive \/ pump = "done" \/ unseen # {}
  \/ \E i \in DOMAIN wire : Lost(wire[i])
  \/ \E i \in DOMAIN early : Lost(early[i])
  \/ \E i \in DOMAIN events : Lost(events[i])

\* A registration that has been confirmed holds, unless a reset follows it; once
\* start() is past it, the endpoint is there or its loss is heard.
Registers ==
  /\ \A i \in DOMAIN wire :
       wire[i].kind = "response" /\ wire[i].status = "ok" /\ pending = "register" =>
         registered \/ \E j \in DOMAIN wire : i < j /\ Lost(wire[j])
  /\ todo # <<"version">> /\ (\A i \in DOMAIN todo : todo[i] # "register") => Heard

LEMMA UnseenGrows ==
  ASSUME [Next]_vars
  PROVE  unseen \subseteq unseen'
<1>1. ASSUME NEW outcome, Answered(outcome) PROVE unseen \subseteq unseen'
  BY <1>1 DEF Answered, StepDone, CallDone
<1>2. ASSUME NEW shape, Ask(shape) PROVE unseen \subseteq unseen'
  BY <1>1, <1>2 DEF Ask
<1>3. CASE ReadResponse \/ RequestTimesOut \/ ActorStops
  BY <1>1, <1>3 DEF ReadResponse, RequestTimesOut, ActorStops
<1>4. CASE AskNext \/ Call
  BY <1>2, <1>4 DEF AskNext, Call
<1>5. CASE ReadIndication
  <2>1. \/ unseen' = unseen
        \/ unseen' = unseen \union (IF IsReset(Head(wire)) THEN {"full"} ELSE {})
    BY <1>5, Zenon DEF ReadIndication
  <2> QED BY <2>1
<1>6. CASE UNCHANGED vars \/ Adapter
  BY <1>6 DEF vars, Adapter, AdapterResets, AdapterAnswers, AdapterRestarts, DeviceHeard
<1>7. CASE AwaitReset \/ AwaitNoReset \/ AwaitNetwork \/ AwaitNoNetwork \/ Drain
  BY <1>7 DEF AwaitReset, AwaitNoReset, AwaitNetwork, AwaitNoNetwork, Drain
<1>8. CASE Pump \/ HandleEvent \/ ConnectionLost \/ HandleCommand
  BY <1>8 DEF Pump, PumpTakes, PumpSends, PumpEnds, HandleEvent, ConnectionLost, HandleCommand
<1>9. ASSUME NEW t \in Task, TaskLocks(t) PROVE unseen \subseteq unseen'
  BY <1>9 DEF TaskLocks
<1> QED
  BY <1>3, <1>4, <1>5, <1>6, <1>7, <1>8, <1>9, Zenon DEF Next, Actor, Start

\* Once start() is past its first request, what has been heard stays heard.
LEMMA HeardStays ==
  ASSUME Base, OwnFirst, [Next]_vars, todo # <<"version">>, Heard
  PROVE  Heard'
<1>T. /\ Types /\ wire \in Seq(Frame) /\ early \in Seq(Indication) /\ events \in Seq(Indication)
      /\ events' \in Seq(Indication) /\ early' \in Seq(Indication)
  BY TypesStep DEF Base, Types
<1>1. CASE unseen # {}
  BY <1>1, UnseenGrows DEF Heard
<1>2. ASSUME UNCHANGED <<registered, alive, pump, unseen, early, events>>,
             \A i \in DOMAIN wire : \E j \in DOMAIN wire' : wire'[j] = wire[i]
      PROVE  Heard'
  BY <1>2 DEF Heard
<1>3. CASE UNCHANGED vars
  BY <1>2, <1>3 DEF vars, adapterVars, startVars, pumpVars
<1>4. CASE AdapterResets
  <2>1. toAdapter[1] = "reset" /\ 1 \in DOMAIN toAdapter
    BY <1>4, ToAdapter DEF AdapterResets, Base
  <2> QED BY <2>1 DEF OwnFirst
<1>5. CASE AdapterAnswers
  <2>1. /\ UNCHANGED <<alive, pump, unseen, early, events>> /\ (registered => registered')
        /\ \/ wire' = wire
           \/ \E status \in {"ok", "bad", "rejected"}, up \in BOOLEAN :
                wire' = Append(wire, Response(status)) \o (IF up THEN <<StateChange(TRUE)>> ELSE <<>>)
    <3>1. UNCHANGED <<alive, pump, unseen, early, events>>
      BY <1>5 DEF AdapterAnswers, startVars, pumpVars
    <3>2. registered => registered'
      BY <1>5, Zenon DEF AdapterAnswers
    <3>3. \/ wire' = wire
          \/ \E status \in {"ok", "bad", "rejected"}, up \in BOOLEAN :
               wire' = Append(wire, Response(status)) \o (IF up THEN <<StateChange(TRUE)>> ELSE <<>>)
      BY <1>5, Zenon DEF AdapterAnswers
    <3> QED BY <3>1, <3>2, <3>3
  <2>2. \A i \in DOMAIN wire : \E j \in DOMAIN wire' : wire'[j] = wire[i]
    BY <1>T, <2>1, AnswerSent
  <2> QED BY <2>1, <2>2 DEF Heard
<1>6. CASE AdapterRestarts
  <2>1. resets \in Nat /\ wire' = Append(wire, Reset(resets + 1))
    BY <1>6 DEF AdapterRestarts, Base, Types
  <2>2. Reset(resets + 1) \in Frame
    BY <2>1, FramesAre DEF Frame
  <2>3. Lost(Reset(resets + 1))
    BY <2>1 DEF Lost, IsReset, Reset
  <2>4. \E i \in DOMAIN wire' : wire'[i] = Reset(resets + 1)
    BY <1>T, <2>1, <2>2, FrameSent
  <2> QED BY <2>3, <2>4 DEF Heard
<1>7. CASE DeviceHeard
  <2>1. PICK f \in Frame : wire' = Append(wire, f)
    BY <1>T, <1>7, HeardFrame, Zenon
  <2>2. \A i \in DOMAIN wire : \E j \in DOMAIN wire' : wire'[j] = wire[i]
    BY <1>T, <2>1, FrameSent
  <2> QED BY <1>2, <1>7, <2>2 DEF DeviceHeard, startVars, pumpVars
<1>8. CASE ReadResponse
  <2>1. wire # <<>> /\ Head(wire).kind = "response" /\ wire' = Tail(wire) /\ UNCHANGED <<alive, registered>>
    BY <1>8 DEF ReadResponse, adapterVars
  <2>2. /\ Head(wire) = wire[1]
        /\ \A i \in DOMAIN wire : i = 1 \/ (i - 1 \in DOMAIN wire' /\ wire'[i - 1] = wire[i])
    BY <1>T, <2>1, FrameRead
  <2>3. ~Lost(Head(wire))
    BY <2>1 DEF Lost, IsReset
  <2>4. (\E i \in DOMAIN wire : Lost(wire[i])) => \E i \in DOMAIN wire' : Lost(wire'[i])
    BY <2>2, <2>3
  <2> QED BY <1>1, <1>8, <2>1, <2>4, AnswersLeave DEF Heard
<1>9. CASE ReadIndication
  <2>1. wire # <<>> /\ wire' = Tail(wire) /\ UNCHANGED <<alive, registered, pump, early>>
    BY <1>9 DEF ReadIndication, adapterVars, pumpVars, startVars
  <2>2. /\ Head(wire) = wire[1] /\ 1 \in DOMAIN wire
        /\ \A i \in DOMAIN wire : i = 1 \/ (i - 1 \in DOMAIN wire' /\ wire'[i - 1] = wire[i])
    BY <1>T, <2>1, FrameRead
  <2>3. \/ Head(wire) = OtherFrame /\ events' = events
        \/ events' = Append(events, Head(wire))
        \/ events' = events /\ unseen' = unseen \union (IF IsReset(Head(wire)) THEN {"full"} ELSE {})
    BY <1>9, Zenon DEF ReadIndication
  <2>4. \A i \in DOMAIN events : \E j \in DOMAIN events' : events'[j] = events[i]
    <3>1. CASE events' = events
      BY <3>1
    <3>2. CASE events' = Append(events, Head(wire))
      BY <1>T, <3>2
    <3> QED BY <2>3, <3>1, <3>2
  <2>5. Lost(Head(wire)) => unseen' # {} \/ \E j \in DOMAIN events' : Lost(events'[j])
    <3>1. ~Lost(OtherFrame)
      BY DEF Lost, IsReset, OtherFrame
    <3>2. CASE events' = Append(events, Head(wire))
      <4>1. \E j \in DOMAIN events' : events'[j] = Head(wire)
        BY <1>T, <3>2
      <4> QED BY <4>1
    <3>3. CASE unseen' = unseen \union (IF IsReset(Head(wire)) THEN {"full"} ELSE {})
      BY <3>3 DEF Lost
    <3> QED BY <2>3, <3>1, <3>2, <3>3
  <2>6. (\E i \in DOMAIN wire : Lost(wire[i])) =>
          Lost(Head(wire)) \/ \E i \in DOMAIN wire' : Lost(wire'[i])
    BY <2>2
  <2> QED BY <1>1, <2>1, <2>4, <2>5, <2>6 DEF Heard
<1>10. CASE RequestTimesOut \/ AskNext \/ Call
  <2>1. UNCHANGED <<alive, wire>>
    BY <1>10 DEF RequestTimesOut, AskNext, Call
  <2> QED BY <1>1, <1>10, <2>1, AnswersLeave DEF Heard
<1>11. CASE ActorStops
  BY <1>11 DEF ActorStops, Heard
<1>12. CASE AwaitReset \/ AwaitNoReset
  BY <1>12 DEF AwaitReset, AwaitNoReset, Base, Steps
<1>13. CASE AwaitNetwork
  <2>1. /\ UNCHANGED <<alive, registered, pump, wire, unseen>>
        /\ events # <<>> /\ events' = Tail(events)
        /\ \/ Head(events).kind = "state" /\ early' = early
           \/ early' = Append(early, Head(events))
    BY <1>13 DEF AwaitNetwork, adapterVars, pumpVars
  <2>2. \A i \in DOMAIN early : \E j \in DOMAIN early' : early'[j] = early[i]
    <3>1. CASE early' = Append(early, Head(events))
      <4>1. Head(events) \in Indication
        BY <1>T, <2>1
      <4>2. /\ DOMAIN early = 1..Len(early) /\ DOMAIN early' = 1..(Len(early) + 1)
            /\ Len(early) \in Nat /\ \A j \in 1..Len(early) : early'[j] = early[j]
        BY <1>T, <3>1, <4>1, Appended
      <4> QED BY <4>2
    <3> QED BY <2>1, <3>1
  <2>3. \A i \in DOMAIN events :
          i = 1 \/ (i - 1 \in DOMAIN events' /\ events'[i - 1] = events[i])
    BY <1>T, <2>1
  <2>4. 1 \in DOMAIN events /\ Head(events) = events[1]
    BY <1>T, <2>1
  <2>5. Lost(Head(events)) => \E j \in DOMAIN early' : Lost(early'[j])
    <3>1. CASE Head(events).kind = "state"
      BY <3>1 DEF Lost, IsReset
    <3>2. CASE early' = Append(early, Head(events))
      <4>1. \E j \in DOMAIN early' : early'[j] = Head(events)
        BY <1>T, <3>2
      <4> QED BY <4>1
    <3> QED BY <2>1, <3>1, <3>2
  <2> QED BY <2>1, <2>2, <2>3, <2>4, <2>5 DEF Heard
<1>14. CASE AwaitNoNetwork
  BY <1>2, <1>14 DEF AwaitNoNetwork, adapterVars, pumpVars
<1>15. CASE Drain
  <2>1. /\ UNCHANGED <<alive, registered, wire>> /\ pump = "absent"
        /\ unseen' = unseen \union
             (IF \E i \in DOMAIN (early \o events) : Lost((early \o events)[i])
              THEN {"discarded"} ELSE {})
    <3>1. unseen' = unseen \union
             (IF \E i \in DOMAIN (early \o events) : Lost((early \o events)[i])
              THEN {"discarded"} ELSE {})
      BY <1>15, Zenon DEF Drain, Has, Lost
    <3> QED BY <1>15, <3>1 DEF Drain, adapterVars, Base, Awaited
  <2>2. (\E i \in DOMAIN early : Lost(early[i])) \/ (\E i \in DOMAIN events : Lost(events[i]))
          => \E i \in DOMAIN (early \o events) : Lost((early \o events)[i])
    <3>1. early \in Seq(Indication) /\ events \in Seq(Indication)
      BY <1>T
    <3>2. \A j \in DOMAIN early : \E i \in DOMAIN (early \o events) : (early \o events)[i] = early[j]
      BY <3>1, JoinedFrom
    <3>3. \A j \in DOMAIN events : \E i \in DOMAIN (early \o events) : (early \o events)[i] = events[j]
      BY <3>1, JoinedFrom
    <3> QED BY <3>2, <3>3
  <2> QED BY <2>1, <2>2 DEF Heard
<1>16. CASE PumpTakes
  <2>1. UNCHANGED <<alive, registered, wire>> /\ pump = "running"
    BY <1>16 DEF PumpTakes, adapterVars
  <2>2. CASE /\ early # <<>> /\ early' = Tail(early) /\ events' = events
             /\ pump' = PumpAfter(Head(early))
    <3>1. \A i \in DOMAIN early :
            i = 1 \/ (i - 1 \in DOMAIN early' /\ early'[i - 1] = early[i])
      BY <1>T, <2>2
    <3>2. 1 \in DOMAIN early /\ Head(early) = early[1]
      BY <1>T, <2>2
    <3>3. Lost(Head(early)) => pump' = "done"
      BY <2>2 DEF Lost, PumpAfter
    <3> QED BY <1>1, <2>1, <2>2, <3>1, <3>2, <3>3 DEF Heard
  <2>3. CASE /\ early = <<>> /\ events # <<>> /\ early' = <<>> /\ events' = Tail(events)
             /\ pump' = PumpAfter(Head(events))
    <3>1. \A i \in DOMAIN events :
            i = 1 \/ (i - 1 \in DOMAIN events' /\ events'[i - 1] = events[i])
      BY <1>T, <2>3
    <3>2. 1 \in DOMAIN events /\ Head(events) = events[1]
      BY <1>T, <2>3
    <3>3. Lost(Head(events)) => pump' = "done"
      BY <2>3 DEF Lost, PumpAfter
    <3> QED BY <1>1, <2>1, <2>3, <3>1, <3>2, <3>3 DEF Heard
  <2> QED BY <1>16, <2>2, <2>3, PumpTaken
<1>17. CASE PumpEnds
  BY <1>17 DEF PumpEnds, Heard
<1>18. CASE PumpSends \/ HandleEvent \/ ConnectionLost \/ HandleCommand
  BY <1>2, <1>18 DEF PumpSends, HandleEvent, ConnectionLost, HandleCommand, startVars, pumpVars,
     adapterVars
<1>19. ASSUME NEW t \in Task, TaskLocks(t) PROVE Heard'
  BY <1>2, <1>19 DEF TaskLocks, startVars, pumpVars, adapterVars
<1> QED
  BY <1>3, <1>4, <1>5, <1>6, <1>7, <1>8, <1>9, <1>10, <1>11, <1>12, <1>13, <1>14, <1>15, <1>16,
     <1>17, <1>18, <1>19, Zenon
     DEF Next, Adapter, Actor, Start, Pump

\* A confirmed registration, on its way to start().
LEMMA ConfirmedStep ==
  ASSUME Base, OwnFirst, Registers, [Next]_vars
  PROVE  \A i \in DOMAIN wire' :
           wire'[i].kind = "response" /\ wire'[i].status = "ok" /\ pending' = "register" =>
             registered' \/ \E j \in DOMAIN wire' : i < j /\ Lost(wire'[j])
<1> DEFINE P == \A i \in DOMAIN wire' :
                  wire'[i].kind = "response" /\ wire'[i].status = "ok" /\ pending' = "register" =>
                    registered' \/ \E j \in DOMAIN wire' : i < j /\ Lost(wire'[j])
<1>0. SUFFICES P
  OBVIOUS
<1>T. Types
  BY DEF Base
<1>1. ASSUME UNCHANGED <<pending, registered, wire>> PROVE P
  BY <1>1 DEF Registers
<1>2. ASSUME \A i \in DOMAIN wire' : wire'[i].kind # "response" PROVE P
  BY <1>2
<1>3. ASSUME pending' # "register" PROVE P
  BY <1>3
<1> HIDE DEF P
<1>4. CASE UNCHANGED vars
  BY <1>1, <1>4 DEF vars, adapterVars
<1>5. CASE AdapterResets
  <2>1. /\ toAdapter # <<>> /\ (wire' = wire \/ wire' = Append(wire, Reset(0)))
    BY <1>5 DEF AdapterResets
  <2>2. \A i \in DOMAIN wire : wire[i].kind # "response"
    BY <1>5 DEF AdapterResets, Base, Asked
  <2>3. CASE wire' = Append(wire, Reset(0))
    <3>1. Reset(0) \in Frame /\ Reset(0).kind # "response"
      BY FramesAre DEF Frame
    <3>2. \A i \in DOMAIN wire' : wire'[i].kind # "response"
      BY <1>T, <2>2, <2>3, <3>1, FrameSent
    <3> QED BY <1>2, <3>2
  <2> QED BY <1>2, <2>1, <2>2, <2>3
<1>6. CASE AdapterAnswers
  <2>1. /\ pending' = pending /\ toAdapter # <<>> /\ Head(toAdapter) # "reset"
        /\ \/ wire' = wire
           \/ \E status \in {"ok", "bad", "rejected"}, up \in BOOLEAN :
                /\ wire' = Append(wire, Response(status)) \o (IF up THEN <<StateChange(TRUE)>> ELSE <<>>)
                /\ registered' = (registered \/ (Head(toAdapter) = "register" /\ status = "ok"))
    BY <1>6, Zenon DEF AdapterAnswers
  <2>2. Head(toAdapter) = pending
    BY <2>1, ToAdapter DEF Base
  <2>3. \A i \in DOMAIN wire : wire[i].kind # "response"
    BY <2>1 DEF Base, Asked
  <2>4. CASE wire' = wire
    BY <1>2, <2>3, <2>4
  <2>5. ASSUME NEW status \in {"ok", "bad", "rejected"}, NEW up \in BOOLEAN,
               wire' = Append(wire, Response(status)) \o (IF up THEN <<StateChange(TRUE)>> ELSE <<>>),
               registered' = (registered \/ (Head(toAdapter) = "register" /\ status = "ok"))
        PROVE  P
    <3>1. StateChange(TRUE).kind # "response" /\ Response(status).status = status
      BY DEF StateChange, Response
    <3>2. \A i \in DOMAIN wire' : wire'[i].kind = "response" => wire'[i].status = status
      BY <1>T, <2>3, <2>5, <3>1, AnswerSent
    <3>3. pending' = "register" /\ status = "ok" => registered'
      BY <2>1, <2>2, <2>5, Zenon
    <3> QED BY <3>2, <3>3 DEF P
  <2> QED BY <2>1, <2>4, <2>5
<1>7. CASE AdapterRestarts
  <2>1. resets \in Nat /\ wire' = Append(wire, Reset(resets + 1)) /\ pending' = pending
    BY <1>7 DEF AdapterRestarts, Base, Types
  <2>2. Reset(resets + 1) \in Frame
    BY <2>1, FramesAre DEF Frame
  <2>3. Lost(Reset(resets + 1)) /\ Reset(resets + 1).kind # "response"
    BY <2>1 DEF Lost, IsReset, Reset
  <2>4. /\ \A i \in DOMAIN wire' : i \in DOMAIN wire \/ i = Len(wire) + 1
        /\ \A i \in DOMAIN wire : i < Len(wire) + 1
        /\ Len(wire) + 1 \in DOMAIN wire' /\ wire'[Len(wire) + 1] = Reset(resets + 1)
    BY <1>T, <2>1, <2>2, FrameSent
  <2> QED BY <2>3, <2>4 DEF P
<1>8. CASE DeviceHeard
  <2>1. pending' = pending /\ registered' = registered
    BY <1>8 DEF DeviceHeard
  <2>2. PICK f \in Frame : wire' = Append(wire, f) /\ f.kind # "response"
    BY <1>T, <1>8, HeardFrame, Zenon
  <2>3. /\ \A i \in DOMAIN wire : i \in DOMAIN wire' /\ wire'[i] = wire[i]
        /\ \A i \in DOMAIN wire' : i \in DOMAIN wire \/ i = Len(wire) + 1
        /\ wire'[Len(wire) + 1] = f
    BY <1>T, <2>2, FrameSent
  <2> QED BY <2>1, <2>2, <2>3 DEF P, Registers
<1>9. CASE ReadResponse \/ RequestTimesOut \/ ActorStops
  BY <1>3, <1>9 DEF ReadResponse, RequestTimesOut, ActorStops, NoRequest
<1>10. CASE ReadIndication
  <2>1. wire # <<>> /\ wire' = Tail(wire) /\ UNCHANGED <<pending, registered>>
    BY <1>10 DEF ReadIndication, adapterVars
  <2>2. /\ \A i \in DOMAIN wire' : i + 1 \in DOMAIN wire /\ wire'[i] = wire[i + 1] /\ i \in Nat
        /\ \A i \in DOMAIN wire : i = 1 \/ (i - 1 \in DOMAIN wire' /\ wire'[i - 1] = wire[i])
        /\ DOMAIN wire \subseteq Nat
    BY <1>T, <2>1, FrameRead
  <2>3. SUFFICES ASSUME NEW i \in DOMAIN wire', wire'[i].kind = "response", wire'[i].status = "ok",
                        pending' = "register", ~registered'
                 PROVE  \E j \in DOMAIN wire' : i < j /\ Lost(wire'[j])
    BY DEF P
  <2>4. PICK j \in DOMAIN wire : i + 1 < j /\ Lost(wire[j])
    <3>1. i + 1 \in DOMAIN wire /\ wire[i + 1].kind = "response" /\ wire[i + 1].status = "ok"
          /\ pending = "register" /\ ~registered
      BY <2>1, <2>2, <2>3
    <3> QED BY <3>1 DEF Registers
  <2>5. j \in Nat /\ i \in Nat /\ j # 1 /\ i < j - 1
    BY <2>2, <2>4
  <2> QED BY <2>2, <2>4, <2>5
<1>11. CASE AskNext \/ Call
  <2>1. pending = NoRequest /\ wire' = wire
    BY <1>11 DEF AskNext, Call
  <2>2. \A i \in DOMAIN wire' : wire'[i].kind # "response"
    BY <2>1 DEF Base, Asked
  <2> QED BY <1>2, <2>2
<1>12. CASE AwaitReset \/ AwaitNoReset \/ AwaitNetwork \/ AwaitNoNetwork \/ Drain
  BY <1>1, <1>12 DEF AwaitReset, AwaitNoReset, AwaitNetwork, AwaitNoNetwork, Drain, adapterVars
<1>13. CASE Pump \/ HandleEvent \/ ConnectionLost \/ HandleCommand
  BY <1>1, <1>13 DEF Pump, PumpTakes, PumpSends, PumpEnds, HandleEvent, ConnectionLost,
     HandleCommand, adapterVars
<1>14. ASSUME NEW t \in Task, TaskLocks(t) PROVE P
  BY <1>1, <1>14 DEF TaskLocks, adapterVars
<1> QED
  BY <1>4, <1>5, <1>6, <1>7, <1>8, <1>9, <1>10, <1>11, <1>12, <1>13, <1>14, Zenon
     DEF Next, Adapter, Actor, Start

\* What gets start() past the registration is a confirmation or a refusal.
LEMMA RegistrationDone ==
  ASSUME Base, [Next]_vars, todo' # <<"version">>, \A i \in DOMAIN todo' : todo'[i] # "register",
         todo = <<"version">> \/ \E i \in DOMAIN todo : todo[i] = "register"
  PROVE  \/ unseen' # {}
         \/ ReadResponse /\ Head(wire).status = "ok" /\ pending = "register" /\ todo # <<"version">>
<1> DEFINE P == \/ unseen' # {}
                \/ /\ ReadResponse /\ Head(wire).status = "ok" /\ pending = "register"
                   /\ todo # <<"version">>
<1>1. todo' # todo
  OBVIOUS
<1>2. ASSUME NEW outcome, Answered(outcome),
             \/ phase \in {"asking", "networked"}
             \/ phase = "running" /\ lock # <<>>
      PROVE  /\ phase # "running" /\ Head(todo) = "register" /\ todo # <<"version">>
             /\ outcome = "ok" \/ unseen' # {}
             /\ outcome \in {"ok", "bad"}
  <2>1. phase # "running"
    BY <1>1, <1>2 DEF Answered, CallDone, startVars
  <2>2. StepDone(outcome) /\ phase \in {"asking", "networked"}
    BY <1>2, <2>1 DEF Answered
  <2>3. \/ Head(todo) # "version" /\ todo' = Tail(todo)
        \/ Head(todo) = "bdb1" /\ todo' = Tail(Tail(todo)) /\ todo[2] = "bdb2"
    BY <1>1, <2>2, StepDoneEffect DEF Base
  <2>4. /\ todo \in Seq(StartRequests) /\ todo # <<>> /\ Head(todo) = todo[1] /\ Len(todo) \in Nat \ {0}
        /\ DOMAIN todo = 1..Len(todo) /\ \A j \in 1..(Len(todo) - 1) : Tail(todo)[j] = todo[j + 1]
        /\ DOMAIN Tail(todo) = 1..(Len(todo) - 1) /\ Tail(todo) \in Seq(StartRequests)
        /\ Len(Tail(todo)) = Len(todo) - 1
    <3>1. todo \in Seq(StartRequests) /\ todo # <<>>
      BY <2>2 DEF Base, Steps
    <3> QED BY <3>1, Taken
  <2>5. Head(todo) # "version"
    BY <2>3
  <2>6. PICK i \in DOMAIN todo : todo[i] = "register"
    <3>1. todo # <<"version">>
      BY <2>5
    <3> QED BY <3>1
  <2>7. CASE todo' = Tail(todo)
    <3>1. i = 1
      <4>1. SUFFICES ASSUME i # 1 PROVE FALSE
        OBVIOUS
      <4>2. i - 1 \in 1..(Len(todo) - 1) /\ (i - 1) + 1 = i
        BY <2>4, <4>1
      <4> QED BY <2>4, <2>6, <2>7, <4>2
    <3>2. Head(todo) = "register"
      BY <2>4, <2>6, <3>1
    <3>3. Tolerated(Head(todo), outcome)
      BY <1>1, <2>2 DEF StepDone
    <3>4. outcome \in {"ok", "bad"}
      BY <3>2, <3>3 DEF Tolerated
    <3>5. outcome = "bad" => unseen' # {}
      BY <2>2, <3>2, <3>3 DEF StepDone
    <3> QED BY <2>1, <2>5, <3>2, <3>4, <3>5
  <2>8. CASE Head(todo) = "bdb1" /\ todo' = Tail(Tail(todo)) /\ todo[2] = "bdb2"
    <3>1. i # 1 /\ i # 2
      BY <2>4, <2>6, <2>8
    <3> DEFINE t == Tail(todo)
    <3>0. t \in Seq(StartRequests) /\ Len(t) = Len(todo) - 1
      BY <2>4
    <3> HIDE DEF t
    <3>2. t \in Seq(StartRequests) /\ t # <<>> /\ Len(t) = Len(todo) - 1
      <4>1. Len(t) # 0
        BY <2>4, <2>6, <3>0, <3>1
      <4>2. t # <<>>
        BY <4>1
      <4> QED BY <3>0, <4>2
    <3>3. /\ DOMAIN Tail(t) = 1..(Len(t) - 1)
          /\ \A j \in 1..(Len(t) - 1) : Tail(t)[j] = t[j + 1]
      BY <3>2, Taken
    <3>4. i - 2 \in 1..(Len(t) - 1) /\ (i - 2) + 1 \in 1..(Len(todo) - 1) /\ ((i - 2) + 1) + 1 = i
      BY <2>4, <3>1, <3>2
    <3>5. Tail(t)[i - 2] = todo[i]
      <4>1. Tail(t)[i - 2] = t[(i - 2) + 1]
        BY <3>3, <3>4
      <4>2. t[(i - 2) + 1] = todo[((i - 2) + 1) + 1]
        BY <2>4, <3>4 DEF t
      <4> QED BY <3>4, <4>1, <4>2
    <3>6. todo' = Tail(t)
      BY <2>8 DEF t
    <3> QED BY <2>6, <3>3, <3>4, <3>5, <3>6
  <2> QED BY <2>3, <2>7, <2>8
<1>3. CASE ReadResponse
  <2>1. /\ wire # <<>> /\ Head(wire).kind = "response" /\ wire' = Tail(wire)
        /\ Answered(Head(wire).status)
    BY <1>3 DEF ReadResponse
  <2>2. pending # NoRequest
    BY <2>1, FrameRead DEF Base, Asked
  <2>3. /\ phase # "running" /\ Head(todo) = "register" /\ todo # <<"version">>
        /\ Head(wire).status = "ok" \/ unseen' # {}
    BY <1>2, <2>1, <2>2 DEF Base, Asked
  <2>4. pending = "register"
    BY <2>2, <2>3 DEF Base, Asked
  <2> QED BY <1>3, <2>3, <2>4
<1>4. ASSUME RequestTimesOut PROVE FALSE
  <2>1. Answered("timeout") /\ pending # NoRequest
    BY <1>4 DEF RequestTimesOut
  <2>2. "timeout" \in {"ok", "bad"}
    BY <1>2, <2>1 DEF Base, Asked
  <2> QED BY <2>2
<1>5. ASSUME ActorStops PROVE FALSE
  <2>1. Answered("closed") /\ pending # NoRequest
    BY <1>1, <1>5 DEF ActorStops, startVars
  <2>2. "closed" \in {"ok", "bad"}
    BY <1>2, <2>1 DEF Base, Asked
  <2> QED BY <2>2
<1>6. ASSUME AskNext \/ Call PROVE FALSE
  <2>1. \/ phase \in {"asking", "networked"}
        \/ phase = "running" /\ lock # <<>>
    BY <1>6 DEF AskNext, Call
  <2>2. Answered("closed")
    BY <1>1, <1>6 DEF AskNext, Call, Ask, startVars
  <2>3. "closed" \in {"ok", "bad"}
    BY <1>2, <2>1, <2>2
  <2> QED BY <2>3
<1>7. ASSUME UNCHANGED vars \/ Adapter \/ ReadIndication PROVE FALSE
  BY <1>1, <1>7 DEF vars, startVars, Adapter, AdapterResets, AdapterAnswers, AdapterRestarts,
     DeviceHeard, ReadIndication
<1>8. ASSUME AwaitReset \/ AwaitNoReset \/ AwaitNetwork \/ AwaitNoNetwork \/ Drain PROVE FALSE
  BY <1>1, <1>8 DEF AwaitReset, AwaitNoReset, AwaitNetwork, AwaitNoNetwork, Drain
<1>9. ASSUME Pump \/ HandleEvent \/ ConnectionLost \/ HandleCommand PROVE FALSE
  BY <1>1, <1>9 DEF Pump, PumpTakes, PumpSends, PumpEnds, HandleEvent, ConnectionLost,
     HandleCommand, startVars
<1>10. ASSUME NEW t \in Task, TaskLocks(t) PROVE FALSE
  BY <1>1, <1>10 DEF TaskLocks, startVars
<1> HIDE DEF P
<1>11. P
  BY <1>3, <1>4, <1>5, <1>6, <1>7, <1>8, <1>9, <1>10, Zenon DEF Next, Actor, Start, P
<1> QED
  BY <1>11 DEF P

LEMMA RegistersStep ==
  ASSUME Base, OwnFirst, Registers, [Next]_vars
  PROVE  Registers'
<1>1. ASSUME todo' # <<"version">>, \A i \in DOMAIN todo' : todo'[i] # "register"
      PROVE  Heard'
  <2>1. CASE todo # <<"version">> /\ \A i \in DOMAIN todo : todo[i] # "register"
    BY <2>1, HeardStays DEF Registers
  <2>2. CASE todo = <<"version">> \/ \E i \in DOMAIN todo : todo[i] = "register"
    <3>1. \/ unseen' # {}
          \/ ReadResponse /\ Head(wire).status = "ok" /\ pending = "register" /\ todo # <<"version">>
      BY <1>1, <2>2, RegistrationDone
    <3>2. ASSUME ReadResponse, Head(wire).status = "ok", pending = "register"
          PROVE  Heard'
      <4>1. /\ wire # <<>> /\ Head(wire).kind = "response" /\ wire' = Tail(wire)
            /\ registered' = registered
        BY <3>2 DEF ReadResponse, adapterVars
      <4>2. /\ 1 \in DOMAIN wire /\ Head(wire) = wire[1]
            /\ \A i \in DOMAIN wire : i = 1 \/ (i - 1 \in DOMAIN wire' /\ wire'[i - 1] = wire[i])
            /\ DOMAIN wire \subseteq Nat
        BY <4>1, FrameRead DEF Base
      <4>3. registered \/ \E j \in DOMAIN wire : 1 < j /\ Lost(wire[j])
        BY <3>2, <4>1, <4>2 DEF Registers
      <4>4. CASE registered
        BY <4>1, <4>4 DEF Heard
      <4>5. ASSUME NEW j \in DOMAIN wire, 1 < j, Lost(wire[j])
            PROVE  \E i \in DOMAIN wire' : Lost(wire'[i])
        <5>1. j # 1
          BY <4>5
        <5> QED BY <4>2, <4>5, <5>1
      <4> QED BY <4>3, <4>4, <4>5 DEF Heard
    <3> QED BY <3>1, <3>2 DEF Heard
  <2> QED BY <2>1, <2>2
<1> QED
  BY <1>1, ConfirmedStep DEF Registers

\* A bridge that runs on an adapter that has lost the bridge's endpoint is about
\* to find out: the indication of the reset is on the wire or queued, or the
\* event pump has ended, unless the code has let it pass (start and event_pump,
\* znp/mod.rs).
THEOREM LostEndpointIsNoticed == Spec => []UnregisteredNoticed
<1>1. Init => Base /\ OwnFirst /\ Registers
  <2>1. Init => OwnFirst /\ Registers
    BY DEF Init, OwnFirst, Registers
  <2> QED BY <2>1, BaseInit
<1>2. (Base /\ OwnFirst /\ Registers) /\ [Next]_vars => (Base /\ OwnFirst /\ Registers)'
  BY BaseStep, OwnStep, RegistersStep
<1>3. Base /\ OwnFirst /\ Registers => UnregisteredNoticed
  <2>1. SUFFICES ASSUME Base, Registers, loop \notin {"absent", "ended"}, ~registered
                 PROVE  \/ \E i \in DOMAIN wire : Lost(wire[i])
                        \/ \E i \in DOMAIN (early \o events) : Lost((early \o events)[i])
                        \/ pump = "done" \/ ~alive
                        \/ unseen # {}
    BY Zenon DEF UnregisteredNoticed, Has, Lost
  <2>2. todo = <<>>
    BY <2>1 DEF Base, Awaited, Steps
  <2>3. Heard
    <3>1. DOMAIN todo = {} /\ todo # <<"version">>
      BY <2>2
    <3> QED BY <2>1, <3>1 DEF Registers
  <2>4. early \in Seq(Indication) /\ events \in Seq(Indication)
    BY <2>1 DEF Base, Types
  <2>5. \A j \in DOMAIN early : \E i \in DOMAIN (early \o events) : (early \o events)[i] = early[j]
    BY <2>4, JoinedFrom
  <2>6. \A j \in DOMAIN events : \E i \in DOMAIN (early \o events) : (early \o events)[i] = events[j]
    BY <2>4, JoinedFrom
  <2> QED BY <2>1, <2>3, <2>5, <2>6 DEF Heard
<1> QED
  BY <1>1, <1>2, <1>3, PTL DEF Spec

-----------------------------------------------------------------------------
\* No message is lost.

LEMMA SameElements ==
  ASSUME NEW S, NEW s \in Seq(S), NEW t \in Seq(S), Len(s) = Len(t),
         \A i \in 1..Len(s) : s[i] = t[i]
  PROVE  s = t
OBVIOUS

LEMMA NumbersOf ==
  /\ Numbers(<<>>) = <<>>
  /\ \A f \in Wantable : Numbers(<<f>>) = <<f.n>>
  /\ \A s, t \in Seq(Wantable) : Numbers(s \o t) = Numbers(s) \o Numbers(t)
  /\ \A s \in Seq(Wantable), f \in Wantable : Numbers(Append(s, f)) = Append(Numbers(s), f.n)
<1>1. Numbers(<<>>) = <<>>
  BY DEF Numbers
<1>2. ASSUME NEW f \in Wantable PROVE Numbers(<<f>>) = <<f.n>>
  <2>1. DOMAIN <<f>> = 1..1 /\ <<f>>[1] = f
    OBVIOUS
  <2>2. Numbers(<<f>>) = [i \in 1..1 |-> <<f>>[i].n]
    BY <2>1 DEF Numbers
  <2> QED BY <2>1, <2>2
<1>3. ASSUME NEW s \in Seq(Wantable), NEW t \in Seq(Wantable)
      PROVE  Numbers(s \o t) = Numbers(s) \o Numbers(t)
  <2>1. s \o t \in Seq(Wantable) /\ Len(s \o t) = Len(s) + Len(t) /\ Len(s) \in Nat /\ Len(t) \in Nat
    OBVIOUS
  <2> DEFINE u == s \o t
             a == Numbers(s)
             b == Numbers(t)
  <2>3. a \in Seq(Nat) /\ Len(a) = Len(s) /\ \A i \in 1..Len(s) : a[i] = s[i].n
    BY NumbersAre
  <2>4. b \in Seq(Nat) /\ Len(b) = Len(t) /\ \A i \in 1..Len(t) : b[i] = t[i].n
    BY NumbersAre
  <2>5. /\ u \in Seq(Wantable) /\ Len(u) = Len(s) + Len(t)
        /\ \A i \in 1..(Len(s) + Len(t)) : u[i] = IF i <= Len(s) THEN s[i] ELSE t[i - Len(s)]
    BY <2>1
  <2> HIDE DEF u, a, b
  <2>2. /\ Numbers(u) \in Seq(Nat) /\ Len(Numbers(u)) = Len(s) + Len(t)
        /\ \A i \in 1..(Len(s) + Len(t)) : Numbers(u)[i] = u[i].n
    <3>1. /\ Numbers(u) \in Seq(Nat) /\ Len(Numbers(u)) = Len(u)
          /\ \A i \in DOMAIN u : Numbers(u)[i] = u[i].n
      BY <2>5, NumbersAre
    <3>2. DOMAIN u = 1..Len(u)
      BY <2>5
    <3> QED BY <2>5, <3>1, <3>2
  <2>6. /\ a \o b \in Seq(Nat) /\ Len(a \o b) = Len(s) + Len(t)
        /\ \A i \in 1..(Len(s) + Len(t)) :
             (a \o b)[i] = IF i <= Len(s) THEN a[i] ELSE b[i - Len(s)]
    <3>1. a \in Seq(Nat) /\ b \in Seq(Nat)
      BY <2>3, <2>4
    <3>2. /\ a \o b \in Seq(Nat) /\ Len(a \o b) = Len(a) + Len(b)
          /\ \A i \in 1..(Len(a) + Len(b)) :
               (a \o b)[i] = IF i <= Len(a) THEN a[i] ELSE b[i - Len(a)]
      BY <3>1
    <3> QED BY <2>3, <2>4, <3>2
  <2>7. ASSUME NEW i \in 1..(Len(s) + Len(t)) PROVE Numbers(u)[i] = (a \o b)[i]
    <3>1. CASE i <= Len(s)
      <4>1. i \in 1..Len(s)
        BY <2>1, <3>1
      <4> QED BY <2>2, <2>3, <2>5, <2>6, <3>1, <4>1
    <3>2. CASE ~(i <= Len(s))
      <4>1. i - Len(s) \in 1..Len(t)
        BY <2>1, <3>2
      <4> QED BY <2>2, <2>4, <2>5, <2>6, <3>2, <4>1
    <3> QED BY <3>1, <3>2
  <2>8. Numbers(u) = a \o b
    BY <2>2, <2>6, <2>7, SameElements
  <2> QED BY <2>8 DEF u, a, b
<1>4. ASSUME NEW s \in Seq(Wantable), NEW f \in Wantable
      PROVE  Numbers(Append(s, f)) = Append(Numbers(s), f.n)
  <2>1. <<f>> \in Seq(Wantable) /\ Append(s, f) = s \o <<f>>
    OBVIOUS
  <2>2. Numbers(s \o <<f>>) = Numbers(s) \o <<f.n>>
    BY <1>2, <1>3, <2>1
  <2>3. Numbers(s) \in Seq(Nat) /\ f.n \in Nat
    BY NumbersAre, FramesAre
  <2>4. Numbers(s) \o <<f.n>> = Append(Numbers(s), f.n)
    BY <2>3
  <2> QED BY <2>1, <2>2, <2>4
<1> QED
  BY <1>1, <1>2, <1>3, <1>4

\* What of a sequence of indications is a message to be passed on.
LEMMA WantedOf ==
  /\ Wanted(<<>>) = <<>>
  /\ \A s \in Seq(Indication) : Wanted(s) \in Seq(Nat) /\ Wanted(Retained(s)) = Wanted(s)
  /\ \A s, t \in Seq(Indication) : Wanted(s \o t) = Wanted(s) \o Wanted(t)
  /\ \A s \in Seq(Indication), f \in Indication :
       Wanted(Append(s, f)) = IF IsWanted(f) THEN Append(Wanted(s), f.n) ELSE Wanted(s)
  /\ \A s \in Seq(Indication) : s # <<>> =>
       Wanted(s) = IF IsWanted(Head(s)) THEN <<Head(s).n>> \o Wanted(Tail(s)) ELSE Wanted(Tail(s))
<1>1. \A s : Wanted(s) = Numbers(Select(s, Wantable))
  BY DEF Wanted, Wantable
<1>2. \A s \in Seq(Indication) : Select(s, Wantable) \in Seq(Wantable)
  BY SelectionsAre
<1>3. \A f \in Indication : f \in Wantable <=> IsWanted(f)
  BY DEF Wantable
<1>4. Wanted(<<>>) = <<>>
  BY <1>1, SelectEmpty, NumbersOf
<1>5. ASSUME NEW s \in Seq(Indication)
      PROVE  Wanted(s) \in Seq(Nat) /\ Wanted(Retained(s)) = Wanted(s)
  <2>1. Select(s, Wantable) \in Seq(Wantable)
    BY <1>2
  <2>2. Wanted(s) \in Seq(Nat)
    BY <1>1, <2>1, NumbersAre
  <2> DEFINE T == {f \in Indication : ~IsReset(f)}
  <2>3. \A f \in Indication : f \in Wantable => f \in T
    BY DEF Wantable, IsWanted, IsReset
  <2>4. Retained(s) = Select(s, T)
    BY DEF Retained
  <2> HIDE DEF T
  <2>5. Select(Select(s, T), Wantable) = Select(s, Wantable)
    BY <2>3, SelectTwice
  <2> QED BY <1>1, <2>2, <2>4, <2>5
<1>6. ASSUME NEW s \in Seq(Indication), NEW t \in Seq(Indication)
      PROVE  Wanted(s \o t) = Wanted(s) \o Wanted(t)
  <2>1. Select(s \o t, Wantable) = Select(s, Wantable) \o Select(t, Wantable)
    BY SelectConcat
  <2>2. Select(s, Wantable) \in Seq(Wantable) /\ Select(t, Wantable) \in Seq(Wantable)
    BY <1>2
  <2>3. Numbers(Select(s, Wantable) \o Select(t, Wantable))
          = Numbers(Select(s, Wantable)) \o Numbers(Select(t, Wantable))
    BY <2>2, NumbersOf
  <2> QED BY <1>1, <2>1, <2>3
<1>7. ASSUME NEW s \in Seq(Indication), NEW f \in Indication
      PROVE  Wanted(Append(s, f)) = IF IsWanted(f) THEN Append(Wanted(s), f.n) ELSE Wanted(s)
  <2>1. Select(Append(s, f), Wantable)
          = IF f \in Wantable THEN Append(Select(s, Wantable), f) ELSE Select(s, Wantable)
    BY SelectAppend
  <2>2. Select(s, Wantable) \in Seq(Wantable)
    BY <1>2
  <2>3. CASE IsWanted(f)
    <3>1. f \in Wantable
      BY <1>3, <2>3
    <3>2. Numbers(Append(Select(s, Wantable), f)) = Append(Numbers(Select(s, Wantable)), f.n)
      BY <2>2, <3>1, NumbersOf
    <3> QED BY <1>1, <2>1, <2>3, <3>1, <3>2
  <2>4. CASE ~IsWanted(f)
    BY <1>1, <1>3, <2>1, <2>4
  <2> QED BY <2>3, <2>4
<1>8. ASSUME NEW s \in Seq(Indication), s # <<>>
      PROVE  Wanted(s) = IF IsWanted(Head(s)) THEN <<Head(s).n>> \o Wanted(Tail(s))
                         ELSE Wanted(Tail(s))
  <2>1. Head(s) \in Indication /\ Tail(s) \in Seq(Indication)
    BY <1>8
  <2>2. Select(s, Wantable)
          = IF Head(s) \in Wantable THEN <<Head(s)>> \o Select(Tail(s), Wantable)
            ELSE Select(Tail(s), Wantable)
    BY <1>8, SelectHead
  <2>3. CASE IsWanted(Head(s))
    <3>1. Head(s) \in Wantable
      BY <1>3, <2>1, <2>3
    <3>2. Select(Tail(s), Wantable) \in Seq(Wantable)
      BY <1>2, <2>1, Zenon
    <3>4. <<Head(s)>> \in Seq(Wantable)
      BY <3>1
    <3>3. Numbers(<<Head(s)>> \o Select(Tail(s), Wantable))
            = <<Head(s).n>> \o Numbers(Select(Tail(s), Wantable))
      BY <3>1, <3>2, <3>4, NumbersOf
    <3> QED BY <1>1, <2>2, <2>3, <3>1, <3>3
  <2>4. CASE ~IsWanted(Head(s))
    BY <1>1, <1>3, <2>1, <2>2, <2>4
  <2> QED BY <2>3, <2>4
<1> QED
  BY <1>4, <1>5, <1>6, <1>7, <1>8

\* The messages between the adapter and the main loop, the oldest first.
Pending ==
  delivered \o Numbers(out) \o Numbers(held) \o Wanted(early) \o Wanted(events)

LEMMA PendingParts ==
  ASSUME Base
  PROVE  /\ delivered \in Seq(Nat) /\ kept \in Seq(Nat)
         /\ Numbers(out) \in Seq(Nat) /\ Numbers(held) \in Seq(Nat)
         /\ Wanted(early) \in Seq(Nat) /\ Wanted(events) \in Seq(Nat)
<1>1. out \in Seq(Wantable) /\ held \in Seq(Wantable)
  BY DEF Base, Types
<1>2. early \in Seq(Indication) /\ events \in Seq(Indication)
  BY DEF Base, Types
<1> QED
  BY <1>1, <1>2, NumbersAre, WantedOf DEF Base, Types

\* Numbers moved from one part to the next.
LEMMA JoinMoves ==
  ASSUME NEW a \in Seq(Nat), NEW b \in Seq(Nat), NEW n \in Nat
  PROVE  a \o (<<n>> \o b) = Append(a, n) \o b
OBVIOUS

LEMMA JoinAppends ==
  ASSUME NEW a \in Seq(Nat), NEW b \in Seq(Nat), NEW n \in Nat
  PROVE  a \o Append(b, n) = Append(a \o b, n)
OBVIOUS

LEMMA JoinOne ==
  ASSUME NEW a \in Seq(Nat), NEW n \in Nat
  PROVE  a \o <<n>> = Append(a, n)
OBVIOUS

LEMMA JoinType ==
  ASSUME NEW a \in Seq(Nat), NEW b \in Seq(Nat)
  PROVE  a \o b \in Seq(Nat)
OBVIOUS

LEMMA JoinEmpty ==
  ASSUME NEW a \in Seq(Nat)
  PROVE  a \o <<>> = a
OBVIOUS

LEMMA JoinThree ==
  ASSUME NEW a \in Seq(Nat), NEW b \in Seq(Nat), NEW c \in Seq(Nat)
  PROVE  (a \o b) \o c = a \o (b \o c)
OBVIOUS

LEMMA AnswersLeaveOut ==
  ASSUME Base, ReadResponse \/ RequestTimesOut \/ ActorStops \/ AskNext \/ Call
  PROVE  Pending' = Pending /\ kept' = kept /\ pump' = pump
  BY AnswersLeave DEF Pending

\* What is queued is kept, if it is to be passed on.
LEMMA KeptWhenQueued ==
  ASSUME Base, ReadIndication, Pending = kept
  PROVE  Pending' = kept'
<1>1. /\ UNCHANGED <<delivered, out, held, early>>
      /\ wire # <<>> /\ Head(wire).kind # "response"
  BY DEF ReadIndication, pumpVars, startVars
<1>2. \/ events' = events /\ kept' = kept
      \/ /\ events' = Append(events, Head(wire)) /\ Head(wire) # OtherFrame
         /\ kept' = IF IsWanted(Head(wire)) THEN Append(kept, Head(wire).n) ELSE kept
  BY Zenon DEF ReadIndication
<1>3. CASE events' = events /\ kept' = kept
  BY <1>1, <1>3 DEF Pending
<1>4. CASE /\ events' = Append(events, Head(wire)) /\ Head(wire) # OtherFrame
           /\ kept' = IF IsWanted(Head(wire)) THEN Append(kept, Head(wire).n) ELSE kept
  <2> DEFINE f == Head(wire)
             a == delivered \o Numbers(out) \o Numbers(held) \o Wanted(early)
  <2>1. f \in Indication
    <3>1. wire \in Seq(Frame)
      BY DEF Base, Types
    <3>2. f \in Frame
      BY <1>1, <3>1
    <3> QED BY <1>1, <1>4, <3>2, FrameKinds
  <2>2. events \in Seq(Indication)
    BY DEF Base, Types
  <2>3. a \in Seq(Nat) /\ Wanted(events) \in Seq(Nat)
    BY PendingParts, JoinType
  <2>4. Pending = a \o Wanted(events) /\ Pending' = a \o Wanted(Append(events, f))
    BY <1>1, <1>4 DEF Pending
  <2>5. kept' = IF IsWanted(f) THEN Append(kept, f.n) ELSE kept
    BY <1>4
  <2> HIDE DEF f, a
  <2>6. Wanted(Append(events, f)) = IF IsWanted(f) THEN Append(Wanted(events), f.n) ELSE Wanted(events)
    BY <2>1, <2>2, WantedOf
  <2>7. CASE IsWanted(f)
    <3>1. f.n \in Nat
      <4>1. f \in Wantable
        BY <2>1, <2>7 DEF Wantable
      <4> QED BY <4>1, FramesAre
    <3>2. a \o Append(Wanted(events), f.n) = Append(a \o Wanted(events), f.n)
      BY <2>3, <3>1, JoinAppends
    <3> QED BY <2>4, <2>5, <2>6, <2>7, <3>2
  <2>8. CASE ~IsWanted(f)
    BY <2>4, <2>5, <2>6, <2>8
  <2> QED BY <2>7, <2>8
<1> QED
  BY <1>2, <1>3, <1>4

\* The waits of start() keep what they do not want for themselves in order.
LEMMA KeptByStart ==
  ASSUME Base, AwaitReset \/ AwaitNoReset \/ AwaitNetwork \/ AwaitNoNetwork \/ Drain,
         Pending = kept
  PROVE  Pending' = kept'
<1>1. UNCHANGED <<delivered, out, held>>
  BY DEF AwaitReset, AwaitNoReset, AwaitNetwork, AwaitNoNetwork, Drain, pumpVars
<1>2. events \in Seq(Indication) /\ early \in Seq(Indication)
  BY DEF Base, Types
<1> DEFINE a == delivered \o Numbers(out) \o Numbers(held)
<1>3. /\ a \in Seq(Nat) /\ Wanted(early) \in Seq(Nat) /\ Wanted(events) \in Seq(Nat)
  BY PendingParts, JoinType
<1>4. Pending = a \o Wanted(early) \o Wanted(events) /\ Pending' = a \o Wanted(early') \o Wanted(events')
  <2>1. a' = a
    BY <1>1
  <2>2. Numbers(out)' = Numbers(out') /\ Wanted(early)' = Wanted(early') /\ Wanted(events)' = Wanted(events')
    OBVIOUS
  <2> QED BY <2>1 DEF Pending
<1>5. a = <<>> \/ phase # "resetting"
  BY NumbersOf DEF Base, Awaited
<1> HIDE DEF a
<1>6. CASE AwaitReset
  <2>1. /\ kept' = Wanted(Tail(events)) /\ events' = Tail(events) /\ early' = early
        /\ phase = "resetting" /\ events # <<>>
    BY <1>6 DEF AwaitReset
  <2>2. early = <<>>
    BY <2>1 DEF Base, Awaited
  <2>3. Wanted(early) = <<>> /\ Wanted(Tail(events)) \in Seq(Nat)
    <3>1. Tail(events) \in Seq(Indication)
      BY <1>2, <2>1
    <3> QED BY <2>2, <3>1, WantedOf
  <2>4. <<>> \o <<>> \o Wanted(Tail(events)) = Wanted(Tail(events))
    BY <2>3
  <2> QED BY <1>4, <1>5, <2>1, <2>2, <2>3, <2>4
<1>7. CASE AwaitNoReset \/ AwaitNoNetwork
  BY <1>4, <1>7 DEF AwaitNoReset, AwaitNoNetwork
<1>8. CASE AwaitNetwork
  <2>1. /\ events # <<>> /\ events' = Tail(events) /\ kept' = kept
        /\ \/ Head(events).kind = "state" /\ early' = early
           \/ Head(events).kind # "state" /\ early' = Append(early, Head(events))
    BY <1>8, Zenon DEF AwaitNetwork
  <2> DEFINE f == Head(events)
             rest == Tail(events)
  <2>2. f \in Indication /\ rest \in Seq(Indication)
    BY <1>2, <2>1
  <2>3. Wanted(events) = IF IsWanted(f) THEN <<f.n>> \o Wanted(rest) ELSE Wanted(rest)
    BY <1>2, <2>1, WantedOf
  <2>4. \/ f.kind = "state" /\ early' = early
        \/ f.kind # "state" /\ early' = Append(early, f)
    BY <2>1
  <2>5. events' = rest
    BY <2>1
  <2> HIDE DEF f, rest
  <2>6. Wanted(rest) \in Seq(Nat)
    BY <2>2, WantedOf
  <2>7. Wanted(Append(early, f)) = IF IsWanted(f) THEN Append(Wanted(early), f.n) ELSE Wanted(early)
    BY <1>2, <2>2, WantedOf
  <2>8. CASE IsWanted(f)
    <3>1. f.n \in Nat
      <4>1. f \in Wantable
        BY <2>2, <2>8 DEF Wantable
      <4> QED BY <4>1, FramesAre
    <3>2. f.kind # "state"
      BY <2>8 DEF IsWanted
    <3> DEFINE b == a \o Wanted(early)
    <3>3. b \in Seq(Nat) /\ Append(b, f.n) = a \o Append(Wanted(early), f.n)
      <4>1. b \in Seq(Nat)
        BY <1>3, JoinType
      <4>2. a \o Append(Wanted(early), f.n) = Append(a \o Wanted(early), f.n)
        BY <1>3, <3>1, JoinAppends
      <4> QED BY <4>1, <4>2
    <3>4. Pending = b \o (<<f.n>> \o Wanted(rest))
      BY <1>4, <2>3, <2>8
    <3>5. Pending' = Append(b, f.n) \o Wanted(rest)
      BY <1>4, <2>4, <2>5, <2>7, <2>8, <3>2, <3>3
    <3> HIDE DEF b
    <3>6. b \o (<<f.n>> \o Wanted(rest)) = Append(b, f.n) \o Wanted(rest)
      BY <2>6, <3>1, <3>3, JoinMoves
    <3> QED BY <2>1, <3>4, <3>5, <3>6
  <2>9. CASE ~IsWanted(f)
    BY <1>4, <2>1, <2>3, <2>4, <2>5, <2>7, <2>9
  <2> QED BY <2>8, <2>9
<1>9. CASE Drain
  <2>1. early' = Retained(early \o events) /\ events' = <<>> /\ kept' = kept
    BY <1>9 DEF Drain
  <2>2. early \o events \in Seq(Indication)
    BY <1>2
  <2>3. Wanted(early') = Wanted(early) \o Wanted(events)
    BY <1>2, <2>1, <2>2, WantedOf
  <2>4. Wanted(events') = <<>>
    BY <2>1, WantedOf
  <2> DEFINE b == Wanted(early)
             c == Wanted(events)
  <2>5. a \in Seq(Nat) /\ b \in Seq(Nat) /\ c \in Seq(Nat)
    BY <1>3
  <2>6. Pending = a \o b \o c /\ Pending' = a \o (b \o c) \o <<>>
    BY <1>4, <2>3, <2>4
  <2> HIDE DEF b, c
  <2>7. a \o (b \o c) = a \o b \o c
    BY <2>5, JoinThree
  <2>8. a \o (b \o c) \o <<>> = a \o (b \o c)
    <3>1. a \o b \in Seq(Nat)
      BY <2>5, JoinType
    <3>2. a \o b \o c \in Seq(Nat)
      BY <2>5, <3>1, JoinType
    <3> QED BY <2>7, <3>2, JoinEmpty
  <2> QED BY <2>1, <2>6, <2>7, <2>8
<1> QED
  BY <1>6, <1>7, <1>8, <1>9

\* The pump passes on what it takes, unless it is a reset.
LEMMA KeptByPump ==
  ASSUME Base, PumpTakes, Pending = kept, pump' # "done"
  PROVE  Pending' = kept'
<1>1. UNCHANGED <<delivered, out, kept>> /\ held = <<>> /\ pump = "running"
  BY DEF PumpTakes
<1>2. events \in Seq(Indication) /\ early \in Seq(Indication)
  BY DEF Base, Types
<1> DEFINE a == delivered \o Numbers(out)
           w == Wanted(events)
<1>3. a \in Seq(Nat) /\ Wanted(early) \in Seq(Nat) /\ w \in Seq(Nat)
  BY PendingParts, JoinType
<1>4. /\ Pending = a \o Numbers(held) \o Wanted(early) \o w
      /\ Pending' = a \o Numbers(held') \o Wanted(early') \o Wanted(events')
  <2>1. a' = a
    BY <1>1
  <2>2. Numbers(held)' = Numbers(held') /\ Wanted(early)' = Wanted(early') /\ w' = Wanted(events')
    OBVIOUS
  <2> QED BY <2>1 DEF Pending
<1> HIDE DEF a, w
<1>5. Numbers(held) = <<>> /\ a \o Numbers(held) = a
  BY <1>1, <1>3, NumbersOf, JoinEmpty
\* What is taken of a sequence s is passed on, or not wanted.
<1>6. ASSUME NEW s \in Seq(Indication), s # <<>>,
             held' = IF IsWanted(Head(s)) THEN <<Head(s)>> ELSE <<>>
      PROVE  a \o Numbers(held') \o Wanted(Tail(s)) = a \o Wanted(s)
  <2> DEFINE f == Head(s)
             rest == Tail(s)
  <2>1. f \in Indication /\ rest \in Seq(Indication)
    BY <1>6
  <2>2. Wanted(s) = IF IsWanted(f) THEN <<f.n>> \o Wanted(rest) ELSE Wanted(rest)
    BY <1>6, WantedOf
  <2>3. held' = IF IsWanted(f) THEN <<f>> ELSE <<>>
    BY <1>6
  <2> HIDE DEF f, rest
  <2>4. Wanted(rest) \in Seq(Nat)
    BY <2>1, WantedOf
  <2>5. CASE IsWanted(f)
    <3>1. f \in Wantable
      BY <2>1, <2>5 DEF Wantable
    <3>2. f.n \in Nat
      BY <3>1, FramesAre
    <3>3. Numbers(held') = <<f.n>>
      BY <2>3, <2>5, <3>1, NumbersOf
    <3>4. a \o <<f.n>> = Append(a, f.n)
      BY <1>3, <3>2, JoinOne
    <3>5. a \o (<<f.n>> \o Wanted(rest)) = Append(a, f.n) \o Wanted(rest)
      BY <1>3, <2>4, <3>2, JoinMoves
    <3> QED BY <2>2, <2>5, <3>3, <3>4, <3>5 DEF rest
  <2>6. CASE ~IsWanted(f)
    <3>1. Numbers(held') = <<>>
      BY <2>3, <2>6, NumbersOf
    <3>2. a \o <<>> = a
      BY <1>3, JoinEmpty
    <3> QED BY <2>2, <2>6, <3>1, <3>2 DEF rest
  <2> QED BY <2>5, <2>6
<1>7. CASE /\ early # <<>> /\ early' = Tail(early) /\ events' = events
           /\ held' = IF IsWanted(Head(early)) THEN <<Head(early)>> ELSE <<>>
  <2>1. a \o Numbers(held') \o Wanted(early') = a \o Wanted(early)
    BY <1>2, <1>6, <1>7
  <2>2. Wanted(events') = w
    BY <1>7 DEF w
  <2> QED BY <1>1, <1>4, <1>5, <2>1, <2>2
<1>8. CASE /\ early = <<>> /\ events # <<>> /\ early' = <<>> /\ events' = Tail(events)
           /\ held' = IF IsWanted(Head(events)) THEN <<Head(events)>> ELSE <<>>
  <2>1. a \o Numbers(held') \o Wanted(events') = a \o w
    BY <1>2, <1>6, <1>8 DEF w
  <2>2. Wanted(early) = <<>> /\ Wanted(early') = <<>>
    BY <1>8, WantedOf
  <2>3. a \o <<>> = a
    BY <1>3, JoinEmpty
  <2>4. (a \o Numbers(held')) \o <<>> = a \o Numbers(held')
    <3>0. Next
      BY DEF Next, Pump
    <3>1. held' \in Seq(Wantable)
      BY <3>0, TypesStep DEF Types
    <3>2. Numbers(held') \in Seq(Nat)
      BY <3>1, NumbersAre
    <3>3. a \o Numbers(held') \in Seq(Nat)
      BY <1>3, <3>2, JoinType
    <3> QED BY <3>3, JoinEmpty
  <2> QED BY <1>1, <1>4, <1>5, <2>1, <2>2, <2>3, <2>4
<1> QED
  BY <1>7, <1>8, PumpTaken

\* Passing on, and handling, move the oldest one further.
LEMMA KeptOnTheWay ==
  ASSUME Base, PumpSends \/ HandleEvent, Pending = kept
  PROVE  Pending' = kept' /\ pump' = pump
<1>1. UNCHANGED <<kept, early, events, pump>>
  BY DEF PumpSends, HandleEvent, startVars
<1>2. out \in Seq(Wantable) /\ held \in Seq(Wantable)
  BY DEF Base, Types
<1> DEFINE a == delivered
           b == Numbers(out)
           c == Numbers(held)
<1>3. a \in Seq(Nat) /\ b \in Seq(Nat) /\ c \in Seq(Nat)
  BY PendingParts
<1>4. /\ Pending = a \o b \o c \o Wanted(early) \o Wanted(events)
      /\ Pending' = delivered' \o Numbers(out') \o Numbers(held') \o Wanted(early) \o Wanted(events)
  <2>1. Numbers(out)' = Numbers(out') /\ Numbers(held)' = Numbers(held')
    OBVIOUS
  <2> QED BY <1>1, <2>1 DEF Pending
<1>5. SUFFICES delivered' \o Numbers(out') \o Numbers(held') = a \o b \o c
  BY <1>1, <1>4
<1>6. CASE PumpSends
  <2>1. delivered' = delivered /\ out' = out \o held /\ held' = <<>>
    BY <1>6 DEF PumpSends
  <2>2. Numbers(out') = b \o c /\ Numbers(held') = <<>>
    BY <1>2, <2>1, NumbersOf
  <2> HIDE DEF a, b, c
  <2>3. a \o (b \o c) = a \o b \o c
    BY <1>3, JoinThree
  <2>4. b \o c \in Seq(Nat)
    BY <1>3, JoinType
  <2>5. a \o (b \o c) \in Seq(Nat)
    BY <1>3, <2>4, JoinType
  <2>6. a \o (b \o c) \o <<>> = a \o (b \o c)
    BY <2>5, JoinEmpty
  <2>7. delivered' = a
    BY <2>1 DEF a
  <2> QED BY <2>2, <2>3, <2>6, <2>7
<1>7. CASE HandleEvent
  <2>1. /\ delivered' = Append(delivered, Head(out).n) /\ out' = Tail(out) /\ held' = held
        /\ out # <<>>
    BY <1>7 DEF HandleEvent
  <2> DEFINE f == Head(out)
             rest == Tail(out)
  <2>2. f \in Wantable /\ rest \in Seq(Wantable) /\ out = <<f>> \o rest
    BY <1>2, <2>1
  <2>3. delivered' = Append(a, f.n) /\ out' = rest /\ Numbers(held') = c
    BY <2>1
  <2> HIDE DEF f, rest
  <2>4. f.n \in Nat /\ Numbers(rest) \in Seq(Nat) /\ <<f>> \in Seq(Wantable)
    <3>1. f.n \in Nat
      BY <2>2, FramesAre
    <3>2. Numbers(rest) \in Seq(Nat)
      BY <2>2, NumbersAre
    <3> QED BY <2>2, <3>1, <3>2
  <2>5. b = <<f.n>> \o Numbers(rest)
    BY <2>2, <2>4, NumbersOf
  <2> HIDE DEF a, b, c
  <2>6. a \o (<<f.n>> \o Numbers(rest)) = Append(a, f.n) \o Numbers(rest)
    BY <1>3, <2>4, JoinMoves
  <2> QED BY <2>3, <2>5, <2>6
<1> QED
  BY <1>6, <1>7

\* Every message that found room in the queue since the reset reaches the main
\* loop once and in the order of arrival, unless a reset ends the event pump
\* before it (dispatch_frame, start and event_pump, znp/mod.rs).
THEOREM NoMessageLost == Spec => []NothingLost
<1>1. Init => Base /\ NothingLost
  <2>1. Init => Pending = kept
    <3>1. SUFFICES ASSUME Init PROVE Pending = kept
      OBVIOUS
    <3>2. delivered = <<>> /\ out = <<>> /\ held = <<>> /\ early = <<>> /\ events = <<>> /\ kept = <<>>
      BY <3>1 DEF Init
    <3>3. Numbers(out) = <<>> /\ Numbers(held) = <<>> /\ Wanted(early) = <<>> /\ Wanted(events) = <<>>
      BY <3>2, NumbersOf, WantedOf
    <3>4. <<>> \o <<>> \o <<>> \o <<>> \o <<>> = <<>>
      OBVIOUS
    <3> QED BY <3>2, <3>3, <3>4 DEF Pending
  <2> QED BY <2>1, BaseInit DEF NothingLost, Pending
<1>2. Base /\ NothingLost /\ [Next]_vars => (Base /\ NothingLost)'
  <2>1. SUFFICES ASSUME Base, NothingLost, [Next]_vars, pump' # "done"
                 PROVE  Pending' = kept'
    BY BaseStep DEF NothingLost, Pending
  <2>2. pump # "done" => Pending = kept
    BY <2>1 DEF NothingLost, Pending
  <2>3. ASSUME UNCHANGED <<pump, delivered, out, held, early, events, kept>>
        PROVE  Pending' = kept'
    BY <2>1, <2>2, <2>3 DEF Pending
  <2>4. CASE UNCHANGED vars
    BY <2>3, <2>4 DEF vars, pumpVars, startVars
  <2>5. CASE Adapter
    BY <2>3, <2>5 DEF Adapter, AdapterResets, AdapterAnswers, AdapterRestarts, DeviceHeard,
       pumpVars, startVars
  <2>6. CASE ReadResponse \/ RequestTimesOut \/ ActorStops \/ AskNext \/ Call
    BY <2>1, <2>2, <2>6, AnswersLeaveOut
  <2>7. CASE ReadIndication
    <3>1. pump' = pump
      BY <2>7 DEF ReadIndication, pumpVars
    <3> QED BY <2>1, <2>2, <2>7, <3>1, KeptWhenQueued
  <2>8. CASE AwaitReset \/ AwaitNoReset \/ AwaitNetwork \/ AwaitNoNetwork \/ Drain
    <3>1. phase # "running"
      BY <2>8 DEF AwaitReset, AwaitNoReset, AwaitNetwork, AwaitNoNetwork, Drain
    <3>2. pump # "done"
      BY <2>1, <3>1 DEF Base, Awaited
    <3> QED BY <2>1, <2>2, <2>8, <3>2, KeptByStart
  <2>9. CASE PumpTakes
    <3>1. pump # "done"
      BY <2>9 DEF PumpTakes
    <3> QED BY <2>1, <2>2, <2>9, <3>1, KeptByPump
  <2>10. CASE PumpSends \/ HandleEvent
    <3>1. pump' = pump
      BY <2>10 DEF PumpSends, HandleEvent
    <3> QED BY <2>1, <2>2, <2>10, <3>1, KeptOnTheWay
  <2>11. CASE PumpEnds
    BY <2>1, <2>11 DEF PumpEnds
  <2>12. CASE ConnectionLost \/ HandleCommand
    BY <2>3, <2>12 DEF ConnectionLost, HandleCommand, pumpVars, startVars
  <2>13. ASSUME NEW t \in Task, TaskLocks(t) PROVE Pending' = kept'
    BY <2>3, <2>13 DEF TaskLocks, pumpVars, startVars
  <2> HIDE DEF Pending
  <2> QED
    BY <2>1, <2>4, <2>5, <2>6, <2>7, <2>8, <2>9, <2>10, <2>11, <2>12, <2>13, Zenon
       DEF Next, Adapter, Actor, Start, Pump
<1> QED
  BY <1>1, <1>2, PTL DEF Spec
=============================================================================

------------------------- MODULE ZnpTransportProofs -------------------------
(***************************************************************************)
(* Proofs about ZnpTransport for any number of requests and any shapes.    *)
(*                                                                         *)
(* That a response is only ever mispaired after a timeout rests on the     *)
(* serial port keeping order: whatever is still under way is the pending   *)
(* request, or one that timed out, or one that was itself mispaired.       *)
(***************************************************************************)
EXTENDS ZnpTransport, TLAPS

\* Appending to a sequence and taking its first element, position by position.
LEMMA Appended ==
  ASSUME NEW S, NEW s \in Seq(S), NEW e \in S
  PROVE  /\ Append(s, e) \in Seq(S)
         /\ Len(Append(s, e)) = Len(s) + 1
         /\ \A j \in 1..Len(s) : Append(s, e)[j] = s[j]
         /\ Append(s, e)[Len(s) + 1] = e
OBVIOUS

LEMMA Taken ==
  ASSUME NEW S, NEW s \in Seq(S), s # <<>>
  PROVE  /\ Len(s) \in Nat /\ Len(s) >= 1
         /\ Head(s) = s[1] /\ Head(s) \in S
         /\ Tail(s) \in Seq(S)
         /\ Len(Tail(s)) = Len(s) - 1
         /\ \A j \in 1..Len(Tail(s)) : Tail(s)[j] = s[j + 1]
OBVIOUS

\* How Stop leaves the outcomes, whatever the actor had sent before.
LEMMA Stopped ==
  ASSUME NEW open, NEW why, Stop(open, why), open \in [Request -> Outcome \union {Open}]
  PROVE  /\ outcome' \in [Request -> Outcome \union {Open}]
         /\ status' = why /\ queue' = <<>> /\ pending' = None
         /\ \A r \in Request : outcome'[r] = open[r] \/ (r <= made /\ open[r] = Open
                                                      /\ outcome'[r] = Error("closed"))
BY DEF Stop, Outcome, Open, Error, None

\* The shape of the state holds for every sequence of calls, timeouts and
\* responses; in particular the timeout counter never passes its limit.
TypeInv == TypeOK /\ (Running => timeouts < MAX_CONSECUTIVE_TIMEOUTS)

LEMMA TypeStep == TypeInv /\ [Next]_vars => TypeInv'
<1> SUFFICES ASSUME TypeInv, [Next]_vars PROVE TypeInv'
  OBVIOUS
<1> USE TransportAssumption DEF TypeInv, TypeOK, Running, Request, None
<1>1. CASE Call
  <2>1. made + 1 \in Request /\ made' \in 0..MaxRequests
    BY <1>1 DEF Call
  <2>2. queue' \in Seq(Request)
    <3>1. Append(queue, made + 1) \in Seq(Request)
      BY <2>1
    <3> QED
      BY <1>1, <3>1 DEF Call
  <2>3. Error("closed") \in Outcome
    BY DEF Outcome, Error
  <2>4. outcome' \in [Request -> Outcome \union {Open}]
    BY <1>1, <2>1, <2>3 DEF Call
  <2> QED
    BY <1>1, <2>1, <2>2, <2>4 DEF Call, adapterVars
<1>2. CASE Accept
  BY <1>2, Taken, Appended DEF Accept, Ready, callerVars
<1>3. CASE WriteFails
  <2> DEFINE open == [outcome EXCEPT ![Head(queue)] = Error("failed")]
  <2>1. open \in [Request -> Outcome \union {Open}]
    BY <1>3, Taken DEF WriteFails, Ready, Outcome, Error
  <2>2. Stop(open, "io")
    BY <1>3 DEF WriteFails
  <2>3. /\ outcome' \in [Request -> Outcome \union {Open}]
        /\ status' = "io" /\ queue' = <<>> /\ pending' = None
    BY ONLY <2>1, <2>2, Stopped
  <2> QED
    BY <1>3, <2>3 DEF WriteFails, callerVars, adapterVars
<1>4. CASE TimeOut
  <2> DEFINE told == [outcome EXCEPT ![pending] = Error("timeout")]
  <2>1. told \in [Request -> Outcome \union {Open}]
    BY <1>4 DEF TimeOut, Outcome, Error
  <2>2. ended' \in Seq({"reply", "rejected", "timeout"})
    BY <1>4, Appended DEF TimeOut
  <2>3. timeouts' = timeouts + 1 /\ timeouts' \in 0..MAX_CONSECUTIVE_TIMEOUTS
    BY <1>4 DEF TimeOut, MAX_CONSECUTIVE_TIMEOUTS
  <2>4. CASE GivesUpAt(timeouts + 1)
    <3>1. Stop(told, "unresponsive")
      BY <1>4, <2>4 DEF TimeOut
    <3>2. /\ outcome' \in [Request -> Outcome \union {Open}]
          /\ status' = "unresponsive" /\ queue' = <<>> /\ pending' = None
      BY ONLY <2>1, <3>1, Stopped
    <3> QED
      BY <1>4, <2>2, <2>3, <3>2 DEF TimeOut, callerVars, adapterVars
  <2>5. CASE ~GivesUpAt(timeouts + 1)
    BY <1>4, <2>1, <2>2, <2>3, <2>5
    DEF TimeOut, GivesUpAt, callerVars, adapterVars, MAX_CONSECUTIVE_TIMEOUTS
  <2> QED
    BY <2>4, <2>5
<1>5. CASE Receive
  <2>1. Head(toHost) \in Response /\ toHost' \in Seq(Response)
    BY <1>5, Taken DEF Receive
  <2>2. CASE Match(Head(toHost))
    <3>1. [kind |-> Head(toHost).kind, to |-> Head(toHost).to] \in Outcome
      BY <2>1 DEF Outcome, Response
    <3>2. outcome' \in [Request -> Outcome \union {Open}]
      BY <1>5, <2>2, <3>1 DEF Receive, Match
    <3>3. ended' \in Seq({"reply", "rejected", "timeout"})
      <4>1. Head(toHost).kind \in {"reply", "rejected", "timeout"}
        BY <2>1 DEF Response
      <4>2. Append(ended, Head(toHost).kind) \in Seq({"reply", "rejected", "timeout"})
        BY <4>1
      <4> QED
        BY <1>5, <2>2, <4>2 DEF Receive
    <3> QED
      BY <1>5, <2>1, <2>2, <3>2, <3>3
      DEF Receive, TimeoutsAfter, callerVars, MAX_CONSECUTIVE_TIMEOUTS
  <2>3. CASE ~Match(Head(toHost))
    BY <1>5, <2>1, <2>3 DEF Receive, callerVars
  <2> QED
    BY <2>2, <2>3
<1>6. CASE SerialFails
  <2>1. Stop(outcome, "io")
    BY <1>6 DEF SerialFails
  <2>2. outcome \in [Request -> Outcome \union {Open}]
    OBVIOUS
  <2>3. /\ outcome' \in [Request -> Outcome \union {Open}]
        /\ status' = "io" /\ queue' = <<>> /\ pending' = None
    BY ONLY <2>1, <2>2, Stopped
  <2> QED
    BY <1>6, <2>3 DEF SerialFails, callerVars, adapterVars
<1>7. ASSUME NEW kind \in {"reply", "rejected"}, Answer(kind)
      PROVE  TypeInv'
  <2>1. [kind |-> kind, shape |-> shape[Head(toAdapter)], to |-> Head(toAdapter)] \in Response
    BY <1>7, Taken DEF Answer, Response
  <2> QED
    BY <1>7, <2>1, Taken, Appended DEF Answer, callerVars, actorVars
<1>8. CASE Ignore
  BY <1>8, Taken DEF Ignore, callerVars, actorVars
<1>9. ASSUME NEW s \in Shape, Babble(s)
      PROVE  TypeInv'
  <2>1. [kind |-> "reply", shape |-> s, to |-> None] \in Response
    BY DEF Response
  <2> QED
    BY <1>9, <2>1, Appended DEF Babble, callerVars, actorVars
<1>10. CASE UNCHANGED vars
  BY <1>10 DEF vars
<1> QED
  BY <1>1, <1>2, <1>3, <1>4, <1>5, <1>6, <1>7, <1>8, <1>9, <1>10 DEF Next, Actor, Adapter

LEMMA TypeInit == Init => TypeInv
BY TransportAssumption
DEF Init, TypeInv, TypeOK, Running, Request, None, Open, MAX_CONSECUTIVE_TIMEOUTS

THEOREM TypeCorrect == Spec => []TypeOK
<1>1. TypeInv => TypeOK
  BY DEF TypeInv
<1> QED
  BY <1>1, TypeInit, TypeStep, PTL DEF Spec

-----------------------------------------------------------------------------
\* The counter is the length of the run of timeouts that `ended` finishes with,
\* and the actor stops for it when it reaches the limit and not before.
SilenceInv ==
  /\ timeouts <= Len(ended)
  /\ \A j \in 1..timeouts : ended[Len(ended) + 1 - j] = "timeout"
  /\ timeouts < Len(ended) => ended[Len(ended) - timeouts] # "timeout"
  /\ status = "unresponsive" <=> timeouts = MAX_CONSECUTIVE_TIMEOUTS

LEMMA SilenceStep == TypeInv /\ SilenceInv /\ [Next]_vars => SilenceInv'
<1> SUFFICES ASSUME TypeInv, SilenceInv, [Next]_vars PROVE SilenceInv'
  OBVIOUS
<1>1. /\ ended \in Seq({"reply", "rejected", "timeout"})
      /\ Len(ended) \in Nat /\ timeouts \in Nat
      /\ Running => timeouts < MAX_CONSECUTIVE_TIMEOUTS
  BY DEF TypeInv, TypeOK, MAX_CONSECUTIVE_TIMEOUTS
<1>2. ASSUME UNCHANGED <<timeouts, ended>>,
             status' = status \/ (Running /\ status' = "io")
      PROVE  SilenceInv'
  BY <1>1, <1>2 DEF SilenceInv, Running
<1>3. CASE TimeOut
  <2>1. ended' = Append(ended, "timeout") /\ timeouts' = timeouts + 1
    BY <1>3 DEF TimeOut
  <2>2. /\ Len(ended') = Len(ended) + 1
        /\ \A j \in 1..Len(ended) : ended'[j] = ended[j]
        /\ ended'[Len(ended) + 1] = "timeout"
    BY <1>1, <2>1, Appended
  <2>3. \A j \in 1..timeouts' : ended'[Len(ended') + 1 - j] = "timeout"
    <3> SUFFICES ASSUME NEW j \in 1..timeouts'
                 PROVE  ended'[Len(ended') + 1 - j] = "timeout"
      OBVIOUS
    <3>0. j \in 1..(timeouts + 1) /\ Len(ended') + 1 - j = Len(ended) + 2 - j
      BY <1>1, <2>1, <2>2
    <3>1. CASE j = 1
      BY <1>1, <2>2, <3>0, <3>1
    <3>2. CASE j # 1
      <4>1. j - 1 \in 1..timeouts /\ Len(ended) + 1 - (j - 1) \in 1..Len(ended)
        BY <1>1, <3>0, <3>2 DEF SilenceInv
      <4>2. ended[Len(ended) + 1 - (j - 1)] = "timeout"
        BY <4>1 DEF SilenceInv
      <4>3. Len(ended) + 1 - (j - 1) = Len(ended) + 2 - j
        BY <1>1
      <4> QED
        BY <2>2, <3>0, <4>1, <4>2, <4>3
    <3> QED
      BY <3>1, <3>2
  <2>4. timeouts' < Len(ended') => ended'[Len(ended') - timeouts'] # "timeout"
    BY <1>1, <2>1, <2>2 DEF SilenceInv
  <2>5. status' = "unresponsive" <=> timeouts' = MAX_CONSECUTIVE_TIMEOUTS
    BY <1>1, <1>3, <2>1
    DEF TimeOut, Stop, GivesUpAt, Running, MAX_CONSECUTIVE_TIMEOUTS
  <2> QED
    BY <1>1, <2>1, <2>2, <2>3, <2>4, <2>5 DEF SilenceInv
<1>4. CASE Receive
  <2>1. CASE Match(Head(toHost))
    <3>1. Head(toHost).kind \in {"reply", "rejected"}
      <4>1. toHost \in Seq(Response) /\ toHost # <<>>
        BY <1>4 DEF Receive, TypeInv, TypeOK
      <4>2. Head(toHost) \in Response
        BY <4>1, Taken
      <4> QED
        BY <4>2 DEF Response
    <3>2. /\ ended' = Append(ended, Head(toHost).kind)
          /\ timeouts' = 0 /\ status' = status /\ Running
      BY <1>4, <2>1 DEF Receive, TimeoutsAfter
    <3>3. /\ Len(ended') = Len(ended) + 1
          /\ ended'[Len(ended) + 1] = Head(toHost).kind
      BY <1>1, <3>1, <3>2, Appended
    <3> QED
      BY <1>1, <3>1, <3>2, <3>3 DEF SilenceInv, Running, MAX_CONSECUTIVE_TIMEOUTS
  <2>2. CASE ~Match(Head(toHost))
    BY <1>2, <1>4, <2>2 DEF Receive
  <2> QED
    BY <2>1, <2>2
<1>5. CASE WriteFails \/ SerialFails
  BY <1>2, <1>5 DEF WriteFails, SerialFails, Stop, Ready
<1>6. CASE Call \/ Accept
  BY <1>2, <1>6 DEF Call, Accept
<1>7. CASE Adapter
  BY <1>2, <1>7 DEF Adapter, Answer, Ignore, Babble, actorVars
<1>8. CASE UNCHANGED vars
  BY <1>2, <1>8 DEF vars
<1> QED
  BY <1>3, <1>4, <1>5, <1>6, <1>7, <1>8 DEF Next, Actor

\* The adapter is given up exactly when it has left MAX_CONSECUTIVE_TIMEOUTS
\* requests in a row unanswered.
THEOREM GivesUp == Spec => []GivesUpWhenSilent
<1>1. Init => SilenceInv
  <2> SUFFICES ASSUME Init PROVE SilenceInv
    OBVIOUS
  <2>1. ended = <<>> /\ timeouts = 0 /\ status = "running"
    BY DEF Init
  <2>2. Len(ended) = 0
    BY <2>1
  <2> QED
    BY <2>1, <2>2 DEF SilenceInv, MAX_CONSECUTIVE_TIMEOUTS
<1>2. TypeInv /\ SilenceInv => GivesUpWhenSilent
  <2> SUFFICES ASSUME TypeInv, SilenceInv PROVE GivesUpWhenSilent
    OBVIOUS
  <2>1. /\ Len(ended) \in Nat
        /\ timeouts \in 0..MAX_CONSECUTIVE_TIMEOUTS
    BY DEF TypeInv, TypeOK
  <2>2. CASE timeouts = MAX_CONSECUTIVE_TIMEOUTS
    BY <2>1, <2>2 DEF SilenceInv, GivesUpWhenSilent, LastTimedOut
  <2>3. CASE timeouts # MAX_CONSECUTIVE_TIMEOUTS
    <3>1. timeouts + 1 \in 1..MAX_CONSECUTIVE_TIMEOUTS
      BY <2>1, <2>3 DEF MAX_CONSECUTIVE_TIMEOUTS
    <3>2. ASSUME LastTimedOut(MAX_CONSECUTIVE_TIMEOUTS) PROVE FALSE
      <4>1. ended[Len(ended) + 1 - (timeouts + 1)] = "timeout"
        BY <3>1, <3>2 DEF LastTimedOut
      <4>2. timeouts < Len(ended)
        BY <2>1, <3>1, <3>2 DEF LastTimedOut, MAX_CONSECUTIVE_TIMEOUTS
      <4>3. Len(ended) + 1 - (timeouts + 1) = Len(ended) - timeouts
        BY <2>1, <3>1 DEF MAX_CONSECUTIVE_TIMEOUTS
      <4> QED
        BY <4>1, <4>2, <4>3 DEF SilenceInv
    <3> QED
      BY <2>3, <3>2 DEF SilenceInv, GivesUpWhenSilent
  <2> QED
    BY <2>2, <2>3
<1> QED
  BY <1>1, <1>2, SilenceStep, TypeInit, TypeStep, PTL DEF Spec

-----------------------------------------------------------------------------
\* Sequences by their elements, and sequences whose numbers grow.
Elems(s) == {s[k] : k \in 1..Len(s)}

Increasing(s) == \A j, k \in 1..Len(s) : j < k => s[j] < s[k]

LEMMA ElemsType == ASSUME NEW S, NEW s \in Seq(S) PROVE Elems(s) \subseteq S
BY DEF Elems

LEMMA ElemsEmpty == Elems(<<>>) = {} /\ Increasing(<<>>)
<1>1. Len(<<>>) = 0
  OBVIOUS
<1> QED
  BY <1>1 DEF Elems, Increasing

LEMMA ElemsAppended ==
  ASSUME NEW S, NEW s \in Seq(S), NEW e \in S
  PROVE  Elems(Append(s, e)) = Elems(s) \union {e}
<1> DEFINE t == Append(s, e)
<1>1. /\ Len(s) \in Nat /\ Len(t) = Len(s) + 1
      /\ \A j \in 1..Len(s) : t[j] = s[j]
      /\ t[Len(s) + 1] = e
  BY Appended
<1> HIDE DEF t
<1>2. \A j \in 1..Len(t) : j \in 1..Len(s) \/ j = Len(s) + 1
  BY <1>1
<1>3. Elems(t) \subseteq Elems(s) \union {e}
  BY <1>1, <1>2 DEF Elems
<1>4. \A j \in 1..Len(s) : j \in 1..Len(t)
  BY <1>1
<1>5. Elems(s) \subseteq Elems(t)
  BY <1>1, <1>4 DEF Elems
<1>6. Len(s) + 1 \in 1..Len(t)
  BY <1>1
<1>7. e \in Elems(t)
  BY <1>1, <1>6 DEF Elems
<1> QED
  BY <1>3, <1>5, <1>7 DEF t

LEMMA ElemsTaken ==
  ASSUME NEW S, NEW s \in Seq(S), s # <<>>
  PROVE  Head(s) \in Elems(s) /\ Elems(Tail(s)) \subseteq Elems(s)
<1>1. /\ Len(s) \in Nat /\ Len(s) >= 1 /\ Head(s) = s[1]
      /\ Len(Tail(s)) = Len(s) - 1
      /\ \A j \in 1..Len(Tail(s)) : Tail(s)[j] = s[j + 1]
  BY Taken
<1>2. 1 \in 1..Len(s) /\ \A j \in 1..Len(Tail(s)) : j + 1 \in 1..Len(s)
  BY <1>1
<1> QED
  BY <1>1, <1>2 DEF Elems

LEMMA IncreasingAppended ==
  ASSUME NEW s \in Seq(Nat), NEW e \in Nat, Increasing(s), \A x \in Elems(s) : x < e
  PROVE  Increasing(Append(s, e))
<1> DEFINE t == Append(s, e)
<1>1. /\ Len(s) \in Nat /\ Len(t) = Len(s) + 1
      /\ \A j \in 1..Len(s) : t[j] = s[j]
      /\ t[Len(s) + 1] = e
  BY Appended
<1> HIDE DEF t
<1>2. ASSUME NEW j \in 1..Len(t), NEW k \in 1..Len(t), j < k
      PROVE  t[j] < t[k]
  <2>1. j \in 1..Len(s)
    BY <1>1, <1>2
  <2>2. CASE k \in 1..Len(s)
    BY <1>1, <1>2, <2>1, <2>2 DEF Increasing
  <2>3. CASE k = Len(s) + 1
    BY <1>1, <2>1, <2>3 DEF Elems
  <2> QED
    BY <1>1, <2>2, <2>3
<1> QED
  BY <1>2 DEF Increasing, t

LEMMA IncreasingTaken ==
  ASSUME NEW s \in Seq(Nat), s # <<>>, Increasing(s)
  PROVE  Increasing(Tail(s)) /\ \A x \in Elems(Tail(s)) : Head(s) < x
<1>1. /\ Len(s) \in Nat /\ Len(s) >= 1 /\ Head(s) = s[1]
      /\ Len(Tail(s)) = Len(s) - 1
      /\ \A j \in 1..Len(Tail(s)) : Tail(s)[j] = s[j + 1]
  BY Taken
<1>2. \A j \in 1..Len(Tail(s)) : j + 1 \in 1..Len(s) /\ 1 < j + 1
  BY <1>1
<1>3. Increasing(Tail(s))
  <2> SUFFICES ASSUME NEW j \in 1..Len(Tail(s)), NEW k \in 1..Len(Tail(s)), j < k
               PROVE  Tail(s)[j] < Tail(s)[k]
    BY DEF Increasing
  <2>1. j + 1 < k + 1
    BY <1>1
  <2> QED
    BY <1>1, <1>2, <2>1 DEF Increasing
<1>4. \A x \in Elems(Tail(s)) : Head(s) < x
  <2> SUFFICES ASSUME NEW j \in 1..Len(Tail(s)) PROVE Head(s) < Tail(s)[j]
    BY DEF Elems
  <2>1. 1 \in 1..Len(s)
    BY <1>1
  <2> QED
    BY <1>1, <1>2, <2>1 DEF Increasing
<1> QED
  BY <1>3, <1>4

\* The same for responses, by the request they are to; responses to nothing may
\* be anywhere.
IncreasingTo(s) ==
  \A j, k \in 1..Len(s) : j < k /\ s[k].to # None => s[j].to < s[k].to

LEMMA IncreasingToAppended ==
  ASSUME NEW s \in Seq(Response), NEW e \in Response, IncreasingTo(s),
         e.to # None => \A f \in Elems(s) : f.to < e.to
  PROVE  IncreasingTo(Append(s, e))
<1> DEFINE t == Append(s, e)
<1>1. /\ Len(s) \in Nat /\ Len(t) = Len(s) + 1
      /\ \A j \in 1..Len(s) : t[j] = s[j]
      /\ t[Len(s) + 1] = e
  BY Appended
<1> HIDE DEF t
<1>2. ASSUME NEW j \in 1..Len(t), NEW k \in 1..Len(t), j < k, t[k].to # None
      PROVE  t[j].to < t[k].to
  <2>1. j \in 1..Len(s)
    BY <1>1, <1>2
  <2>2. CASE k \in 1..Len(s)
    BY <1>1, <1>2, <2>1, <2>2 DEF IncreasingTo
  <2>3. CASE k = Len(s) + 1
    BY <1>1, <1>2, <2>1, <2>3 DEF Elems
  <2> QED
    BY <1>1, <2>2, <2>3
<1> QED
  BY <1>2 DEF IncreasingTo, t

LEMMA IncreasingToTaken ==
  ASSUME NEW s \in Seq(Response), s # <<>>, IncreasingTo(s)
  PROVE  /\ IncreasingTo(Tail(s))
         /\ \A f \in Elems(Tail(s)) : f.to # None => Head(s).to < f.to
<1>1. /\ Len(s) \in Nat /\ Len(s) >= 1 /\ Head(s) = s[1]
      /\ Len(Tail(s)) = Len(s) - 1
      /\ \A j \in 1..Len(Tail(s)) : Tail(s)[j] = s[j + 1]
  BY Taken
<1>2. \A j \in 1..Len(Tail(s)) : j + 1 \in 1..Len(s) /\ 1 < j + 1
  BY <1>1
<1>3. IncreasingTo(Tail(s))
  <2> SUFFICES ASSUME NEW j \in 1..Len(Tail(s)), NEW k \in 1..Len(Tail(s)), j < k,
                      Tail(s)[k].to # None
               PROVE  Tail(s)[j].to < Tail(s)[k].to
    BY DEF IncreasingTo
  <2>1. j + 1 < k + 1
    BY <1>1
  <2> QED
    BY <1>1, <1>2, <2>1 DEF IncreasingTo
<1>4. \A f \in Elems(Tail(s)) : f.to # None => Head(s).to < f.to
  <2> SUFFICES ASSUME NEW j \in 1..Len(Tail(s)), Tail(s)[j].to # None
               PROVE  Head(s).to < Tail(s)[j].to
    BY DEF Elems
  <2>1. 1 \in 1..Len(s)
    BY <1>1
  <2> QED
    BY <1>1, <1>2, <2>1 DEF IncreasingTo
<1> QED
  BY <1>3, <1>4

-----------------------------------------------------------------------------
\* What the serial port keeps: the numbers under way, first those on the way
\* back and then those the adapter still holds, only grow, and so do the
\* queued ones.
OrderInv ==
  /\ IncreasingTo(toHost)
  /\ Increasing(toAdapter)
  /\ Increasing(queue)
  /\ \A f \in Elems(toHost), r \in Elems(toAdapter) : f.to < r

\* r has been written: every queued request is after it, and it is not after
\* the pending one.
Written(r) ==
  /\ r <= made
  /\ pending # None => r <= pending
  /\ \A q \in Elems(queue) : r < q

\* What a response to r that is still to come can mean: r awaits it, has timed
\* out, or was given another's.
Stale(r) ==
  Running => \/ r = pending
             \/ outcome[r].kind = "timeout"
             \/ Answered(r) /\ outcome[r].to # r

HostInv(f) ==
  IF f.to = None
  THEN \A r \in Request : shape[r] # f.shape
  ELSE Written(f.to) /\ Stale(f.to) /\ f.shape = shape[f.to]

TransitInv ==
  /\ \A r \in Elems(toAdapter) : Written(r) /\ Stale(r)
  /\ \A f \in Elems(toHost) : HostInv(f)
  /\ pending # None => Running /\ Written(pending) /\ outcome[pending] = Open
  /\ \A q \in Elems(queue) : Running /\ q <= made /\ outcome[q] = Open
  /\ \A r \in Request : r > made => outcome[r] = Open

PairingInv == OrderInv /\ TransitInv /\ MispairedOnlyAfterTimeout

LEMMA PairingInit == Init => PairingInv
<1> SUFFICES ASSUME Init PROVE PairingInv
  OBVIOUS
<1>1. toAdapter = <<>> /\ toHost = <<>> /\ queue = <<>>
  BY DEF Init
<1>2. pending = None /\ outcome = [r \in Request |-> Open]
  BY DEF Init
<1>3. IncreasingTo(<<>>)
  <2>1. Len(<<>>) = 0
    OBVIOUS
  <2> QED
    BY <2>1 DEF IncreasingTo
<1>4. OrderInv
  BY <1>1, <1>3, ElemsEmpty DEF OrderInv
<1>5. TransitInv
  BY <1>1, <1>2, ElemsEmpty DEF TransitInv
<1>6. MispairedOnlyAfterTimeout
  BY <1>2 DEF MispairedOnlyAfterTimeout, Answered, Open
<1> QED
  BY <1>4, <1>5, <1>6 DEF PairingInv

\* What is known of a mispaired call.
Explained(r) ==
  /\ outcome[r].to \in 1..(r - 1)
  /\ shape[outcome[r].to] = shape[r]
  /\ \E q \in 1..(r - 1) : shape[q] = shape[r] /\ outcome[q].kind = "timeout"

\* Outcomes are final, so an explanation stays one.
LEMMA ExplanationsKept ==
  ASSUME TypeInv, MispairedOnlyAfterTimeout, shape' = shape,
         \A r \in Request : outcome[r] # Open => outcome'[r] = outcome[r],
         \A r \in Request : outcome[r] = Open /\ Answered(r)' /\ outcome'[r].to # r
                              => Explained(r)'
  PROVE  MispairedOnlyAfterTimeout'
<1> SUFFICES ASSUME NEW r \in Request, Answered(r)', outcome'[r].to # r
             PROVE  Explained(r)'
  BY DEF MispairedOnlyAfterTimeout, Explained
<1>1. CASE outcome[r] = Open
  BY <1>1
<1>2. CASE outcome[r] # Open
  <2>1. Explained(r) /\ outcome'[r] = outcome[r]
    BY <1>2 DEF MispairedOnlyAfterTimeout, Explained, Answered
  <2>2. PICK q \in 1..(r - 1) : shape[q] = shape[r] /\ outcome[q].kind = "timeout"
    BY <2>1 DEF Explained
  <2>3. q \in Request /\ outcome[q] # Open
    BY <2>2, TransportAssumption DEF Request, Open
  <2> QED
    BY <2>1, <2>2, <2>3 DEF Explained
<1> QED
  BY <1>1, <1>2

LEMMA SeqWidens ==
  ASSUME NEW S, NEW T, S \subseteq T, NEW s \in Seq(S)
  PROVE  s \in Seq(T)
OBVIOUS

\* The types the steps below need.
LEMMA Types ==
  ASSUME TypeInv
  PROVE  /\ made \in Nat /\ Request \subseteq Nat /\ None \notin Request
         /\ \A r \in Request : None < r
         /\ queue \in Seq(Request) /\ toAdapter \in Seq(Request) /\ toHost \in Seq(Response)
         /\ queue \in Seq(Nat) /\ toAdapter \in Seq(Nat)
         /\ Elems(queue) \subseteq Request /\ Elems(toAdapter) \subseteq Request
         /\ Elems(toHost) \subseteq Response
         /\ pending \in Request \union {None}
         /\ outcome \in [Request -> Outcome \union {Open}]
<1>1. queue \in Seq(Request) /\ toAdapter \in Seq(Request) /\ toHost \in Seq(Response)
  BY DEF TypeInv, TypeOK
<1>2. Request \subseteq Nat
  BY TransportAssumption DEF Request
<1>3. queue \in Seq(Nat) /\ toAdapter \in Seq(Nat)
  BY <1>1, <1>2, SeqWidens
<1>4. /\ Elems(queue) \subseteq Request /\ Elems(toAdapter) \subseteq Request
      /\ Elems(toHost) \subseteq Response
  BY <1>1, ElemsType
<1> QED
  BY <1>1, <1>2, <1>3, <1>4, TransportAssumption DEF TypeInv, TypeOK, Request, None

\* The actor stops, having told nobody or one open call a failure.
LEMMA StopKeepsPairing ==
  ASSUME TypeInv, PairingInv, NEW open, NEW why, why # "running", Stop(open, why),
         open \in [Request -> Outcome \union {Open}],
         \A r \in Request : open[r] = outcome[r] \/
            (r <= made /\ outcome[r] = Open /\ open[r].kind \notin {"reply", "rejected"}),
         UNCHANGED <<made, shape, toAdapter, toHost>>
  PROVE  PairingInv'
<1>1. /\ outcome' \in [Request -> Outcome \union {Open}]
      /\ ~Running' /\ queue' = <<>> /\ pending' = None
      /\ \A r \in Request : outcome'[r] = open[r] \/ (r <= made /\ open[r] = Open
                                                   /\ outcome'[r] = Error("closed"))
  BY Stopped DEF Running
<1>2. Elems(queue') = {} /\ Increasing(queue')
  BY <1>1, ElemsEmpty
<1>3. OrderInv'
  BY <1>2 DEF PairingInv, OrderInv
<1>4. \A r \in Request : Written(r) => Written(r)' /\ Stale(r)'
  BY <1>1, <1>2 DEF Written, Stale
<1>5. TransitInv'
  <2>1. \A r \in Request : r > made' => outcome'[r] = Open
    BY <1>1, Types DEF PairingInv, TransitInv
  <2>2. \A f \in Elems(toHost') : HostInv(f)'
    BY <1>4, Types DEF PairingInv, TransitInv, HostInv, Response
  <2> QED
    BY <1>1, <1>2, <1>4, <2>1, <2>2, Types DEF PairingInv, TransitInv
<1>6. MispairedOnlyAfterTimeout'
  <2>1. \A r \in Request : outcome[r] # Open => outcome'[r] = outcome[r]
    BY <1>1
  <2>2. \A r \in Request : outcome[r] = Open => ~Answered(r)'
    BY <1>1 DEF Answered, Error, Open
  <2> QED
    BY <2>1, <2>2, ExplanationsKept DEF PairingInv
<1> QED
  BY <1>3, <1>5, <1>6 DEF PairingInv

LEMMA CallKeepsPairing == TypeInv /\ PairingInv /\ Call => PairingInv'
<1> SUFFICES ASSUME TypeInv, PairingInv, Call PROVE PairingInv'
  OBVIOUS
<1>1. /\ made' = made + 1 /\ made + 1 \in Request
      /\ UNCHANGED <<shape, pending, status, toAdapter, toHost>>
  BY TransportAssumption DEF Call, adapterVars, Request, TypeInv, TypeOK
<1>2. outcome[made + 1] = Open
  BY <1>1, Types DEF PairingInv, TransitInv
<1>3. CASE Running
  <2>1. queue' = Append(queue, made + 1) /\ outcome' = outcome
    BY <1>3 DEF Call
  <2>2. Elems(queue') = Elems(queue) \union {made + 1}
    BY <1>1, <2>1, Types, ElemsAppended
  <2>3. \A q \in Elems(queue) : q < made + 1
    BY Types DEF PairingInv, TransitInv
  <2>4. Increasing(queue')
    BY <1>1, <2>1, <2>3, Types, IncreasingAppended DEF PairingInv, OrderInv
  <2>5. OrderInv'
    BY <1>1, <2>4 DEF PairingInv, OrderInv
  <2>6. \A r \in Request : Written(r) => Written(r)'
    BY <1>1, <2>2, Types DEF Written
  <2>7. \A r \in Request : Stale(r) => Stale(r)'
    BY <1>1, <2>1 DEF Stale, Running, Answered
  <2>8. TransitInv'
    <3>1. \A q \in Elems(queue') : Running' /\ q <= made' /\ outcome'[q] = Open
      BY <1>1, <1>2, <1>3, <2>1, <2>2, <2>3, Types DEF PairingInv, TransitInv, Running
    <3>2. pending' # None => Running' /\ Written(pending)' /\ outcome'[pending'] = Open
      <4> SUFFICES ASSUME pending # None
                   PROVE  Running' /\ Written(pending)' /\ outcome'[pending'] = Open
        BY <1>1
      <4>1. pending \in Request /\ Written(pending) /\ outcome[pending] = Open
        BY Types DEF PairingInv, TransitInv
      <4>2. \A q \in Elems(queue') : pending < q
        BY <1>1, <2>2, <4>1, Types DEF Written
      <4> QED
        BY <1>1, <1>3, <2>1, <4>1, <4>2, Types DEF Written, Running
    <3>3. \A r \in Request : r > made' => outcome'[r] = Open
      BY <1>1, <2>1, Types DEF PairingInv, TransitInv
    <3>4. \A f \in Elems(toHost') : HostInv(f)'
      BY <1>1, <2>6, <2>7, Types DEF PairingInv, TransitInv, HostInv, Response
    <3>5. \A r \in Elems(toAdapter') : Written(r)' /\ Stale(r)'
      BY <1>1, <2>6, <2>7, Types DEF PairingInv, TransitInv
    <3> QED
      BY <3>1, <3>2, <3>3, <3>4, <3>5 DEF TransitInv
  <2>9. MispairedOnlyAfterTimeout'
    BY <1>1, <2>1, ExplanationsKept DEF PairingInv, Answered, Open
  <2> QED
    BY <2>5, <2>8, <2>9 DEF PairingInv
<1>4. CASE ~Running
  <2>1. queue' = queue /\ outcome' = [outcome EXCEPT ![made + 1] = Error("closed")]
    BY <1>4 DEF Call
  <2>2. ~Running'
    BY <1>1, <1>4 DEF Running
  <2>3. pending = None /\ Elems(queue) = {}
    BY <1>4 DEF PairingInv, TransitInv
  <2>4. OrderInv'
    BY <1>1, <2>1 DEF PairingInv, OrderInv
  <2>5. \A r \in Request : Written(r) => Written(r)' /\ Stale(r)'
    BY <1>1, <2>1, <2>2, Types DEF Written, Stale
  <2>6. TransitInv'
    <3>1. \A r \in Request : r > made' => outcome'[r] = Open
      BY <1>1, <2>1, Types DEF PairingInv, TransitInv
    <3>2. \A f \in Elems(toHost') : HostInv(f)'
      BY <1>1, <2>5, Types DEF PairingInv, TransitInv, HostInv, Response
    <3> QED
      BY <1>1, <2>1, <2>3, <2>5, <3>1, <3>2, Types DEF PairingInv, TransitInv
  <2>7. MispairedOnlyAfterTimeout'
    <3>1. \A r \in Request : outcome[r] # Open => outcome'[r] = outcome[r]
      BY <1>1, <1>2, <2>1, Types
    <3>2. \A r \in Request : outcome[r] = Open => ~Answered(r)'
      BY <1>1, <2>1, Types DEF Answered, Open, Error
    <3> QED
      BY <1>1, <3>1, <3>2, ExplanationsKept DEF PairingInv
  <2> QED
    BY <2>4, <2>6, <2>7 DEF PairingInv
<1> QED
  BY <1>3, <1>4

LEMMA AcceptKeepsPairing == TypeInv /\ PairingInv /\ Accept => PairingInv'
<1> SUFFICES ASSUME TypeInv, PairingInv, Accept PROVE PairingInv'
  OBVIOUS
<1>0. Ready /\ Head(queue) \in Request
  BY Types, Taken DEF Accept, Ready
<1> PICK h \in Request : h = Head(queue)
  BY <1>0
<1>1. /\ Running /\ pending = None /\ queue # <<>>
      /\ pending' = h /\ queue' = Tail(queue) /\ toAdapter' = Append(toAdapter, h)
      /\ UNCHANGED <<made, shape, outcome, status, toHost>>
  BY DEF Accept, Ready, callerVars
<1>2. h \in Elems(queue) /\ Elems(queue') \subseteq Elems(queue)
  BY <1>1, Types, ElemsTaken
<1>3. Increasing(queue') /\ \A q \in Elems(queue') : h < q
  BY <1>1, Types, IncreasingTaken DEF PairingInv, OrderInv
<1>4. Elems(toAdapter') = Elems(toAdapter) \union {h}
  BY <1>1, <1>2, Types, ElemsAppended
<1>5. h <= made /\ outcome[h] = Open
  BY <1>2 DEF PairingInv, TransitInv
<1>6. \A r \in Request : Written(r) => r < h /\ Written(r)'
  BY <1>1, <1>2, Types DEF Written
<1>7. Written(h)'
  BY <1>1, <1>2, <1>3, <1>5, Types DEF Written
<1>8. \A r \in Request : Stale(r) => Stale(r)'
  BY <1>1, Types DEF Stale, Running, Answered
<1>9. OrderInv'
  <2>1. \A r \in Elems(toAdapter) : r < h
    BY <1>6, Types DEF PairingInv, TransitInv
  <2>2. Increasing(toAdapter')
    BY <1>1, <1>2, <2>1, Types, IncreasingAppended DEF PairingInv, OrderInv
  <2>3. \A f \in Elems(toHost) : f.to < h
    <3> SUFFICES ASSUME NEW f \in Elems(toHost) PROVE f.to < h
      OBVIOUS
    <3>1. f.to \in Request \union {None} /\ HostInv(f)
      BY Types DEF PairingInv, TransitInv, Response
    <3> QED
      BY <1>2, <1>6, <3>1, Types DEF HostInv
  <2> QED
    BY <1>1, <1>3, <1>4, <2>2, <2>3 DEF PairingInv, OrderInv
<1>10. TransitInv'
  <2>1. \A r \in Elems(toAdapter') : Written(r)' /\ Stale(r)'
    <3>1. Stale(h)'
      BY <1>1 DEF Stale
    <3> QED
      BY <1>4, <1>6, <1>7, <1>8, <3>1, Types DEF PairingInv, TransitInv
  <2>2. pending' # None => Running' /\ Written(pending)' /\ outcome'[pending'] = Open
    <3>1. Running' /\ outcome'[pending'] = Open
      BY <1>1, <1>5 DEF Running
    <3>2. Written(pending)'
      BY <1>1, <1>7 DEF Written
    <3> QED
      BY <3>1, <3>2
  <2>3. \A q \in Elems(queue') : Running' /\ q <= made' /\ outcome'[q] = Open
    BY <1>1, <1>2 DEF PairingInv, TransitInv, Running
  <2>4. \A f \in Elems(toHost') : HostInv(f)'
    BY <1>1, <1>6, <1>8, Types DEF PairingInv, TransitInv, HostInv, Response
  <2>5. \A r \in Request : r > made' => outcome'[r] = Open
    BY <1>1 DEF PairingInv, TransitInv
  <2> QED
    BY <2>1, <2>2, <2>3, <2>4, <2>5 DEF TransitInv
<1>11. MispairedOnlyAfterTimeout'
  BY <1>1, ExplanationsKept DEF PairingInv, Answered, Open
<1> QED
  BY <1>9, <1>10, <1>11 DEF PairingInv

\* The pending request p ends with outcome o, a response or a timeout.
LEMMA EndKeepsPairing ==
  ASSUME TypeInv, PairingInv, NEW p \in Request, p = pending, NEW o \in Outcome,
         outcome' = [outcome EXCEPT ![p] = o], pending' = None,
         UNCHANGED <<made, shape, queue, status, toAdapter>>,
         Elems(toHost') \subseteq Elems(toHost), IncreasingTo(toHost'),
         p \in Elems(toAdapter) => Stale(p)',
         \A f \in Elems(toHost') : f.to = p => Stale(p)',
         Answered(p)' /\ outcome'[p].to # p => Explained(p)'
  PROVE  PairingInv'
<1>1. Running /\ Running' /\ Written(p) /\ p # None /\ outcome[p] = Open
  BY Types DEF PairingInv, TransitInv, Running
<1>2. \A r \in Request : r # p => outcome'[r] = outcome[r]
  BY Types
<1>3. OrderInv'
  BY DEF PairingInv, OrderInv
<1>4. \A r \in Request : Written(r) => Written(r)'
  BY DEF Written
<1>5. \A r \in Request : r # p /\ Stale(r) => Stale(r)'
  BY <1>1, <1>2 DEF Stale, Answered
<1>6. TransitInv'
  <2>1. \A r \in Elems(toAdapter') : Written(r)' /\ Stale(r)'
    BY <1>4, <1>5, Types DEF PairingInv, TransitInv
  <2>2. \A f \in Elems(toHost') : HostInv(f)'
    BY <1>4, <1>5, Types DEF PairingInv, TransitInv, HostInv, Response
  <2>3. \A q \in Elems(queue') : Running' /\ q <= made' /\ outcome'[q] = Open
    <3> SUFFICES ASSUME NEW q \in Elems(queue)
                 PROVE  Running' /\ q <= made' /\ outcome'[q] = Open
      OBVIOUS
    <3>1. p < q /\ q \in Request
      BY <1>1, Types DEF Written
    <3>2. q # p
      BY <3>1, Types
    <3> QED
      BY <1>1, <1>2, <3>1, <3>2 DEF PairingInv, TransitInv
  <2>4. \A r \in Request : r > made' => outcome'[r] = Open
    BY <1>1, <1>2, Types DEF PairingInv, TransitInv, Written
  <2> QED
    BY <2>1, <2>2, <2>3, <2>4 DEF TransitInv
<1>7. MispairedOnlyAfterTimeout'
  <2>1. \A r \in Request : outcome[r] # Open => outcome'[r] = outcome[r]
    BY <1>1, <1>2
  <2>2. \A r \in Request : outcome[r] = Open /\ Answered(r)' /\ outcome'[r].to # r
                             => Explained(r)'
    BY <1>2 DEF Answered, Open
  <2> QED
    BY <2>1, <2>2, ExplanationsKept DEF PairingInv
<1> QED
  BY <1>3, <1>6, <1>7 DEF PairingInv

LEMMA ReceiveKeepsPairing == TypeInv /\ PairingInv /\ Receive => PairingInv'
<1> SUFFICES ASSUME TypeInv, PairingInv, Receive PROVE PairingInv'
  OBVIOUS
<1>1. toHost # <<>> /\ Running /\ toHost' = Tail(toHost)
  BY DEF Receive
<1>2. PICK f \in Response : f = Head(toHost)
  BY <1>1, Types, Taken
<1>3. /\ f \in Elems(toHost) /\ HostInv(f) /\ Elems(toHost') \subseteq Elems(toHost)
      /\ IncreasingTo(toHost')
      /\ \A g \in Elems(toHost') : g.to # None => f.to < g.to
  BY <1>1, <1>2, Types, ElemsTaken, IncreasingToTaken DEF PairingInv, OrderInv, TransitInv
<1>4. UNCHANGED <<made, shape, queue, status, toAdapter>>
  BY DEF Receive, callerVars
<1>5. CASE Match(f)
  <2>1. PICK p \in Request : p = pending
    BY <1>5, Types DEF Match
  <2>2. /\ outcome' = [outcome EXCEPT ![p] = [kind |-> f.kind, to |-> f.to]]
        /\ pending' = None /\ f.shape = shape[p]
    BY <1>2, <1>5, <2>1 DEF Receive, Match
  <2>3. PICK q \in Request : q = f.to
    <3>1. f.to # None
      BY <1>3, <2>2 DEF HostInv
    <3> QED
      BY <3>1 DEF Response
  <2>4. /\ Written(q) /\ Stale(q) /\ shape[q] = shape[p]
        /\ q <= p
    BY <1>3, <2>1, <2>2, <2>3, Types DEF HostInv, Written
  <2>5. /\ outcome'[p] = [kind |-> f.kind, to |-> q]
        /\ \A r \in Request : r # p => outcome'[r] = outcome[r]
        /\ f.kind \in {"reply", "rejected"}
    BY <2>2, <2>3, Types DEF Response
  <2>6. q < p => Stale(p)'
    BY <2>5, Types DEF Stale, Answered
  <2>7. p \in Elems(toAdapter) => Stale(p)'
    BY <1>3, <2>3, <2>6 DEF PairingInv, OrderInv
  <2>8. \A g \in Elems(toHost') : g.to = p => Stale(p)'
    BY <1>3, <2>3, <2>6, Types
  <2>9. q # p => Explained(p)'
    <3> SUFFICES ASSUME q # p PROVE Explained(p)'
      OBVIOUS
    <3>1. q < p /\ p \in Nat /\ q \in Nat /\ 1 <= q /\ q \in 1..(p - 1)
      BY <2>4, Types DEF Request
    <3>2. PICK w \in Request : w <= q /\ shape[w] = shape[q] /\ outcome[w].kind = "timeout"
      <4>1. CASE outcome[q].kind = "timeout"
        BY <3>1, <4>1
      <4>2. CASE Answered(q) /\ outcome[q].to # q
        <5>1. PICK w \in 1..(q - 1) : shape[w] = shape[q] /\ outcome[w].kind = "timeout"
          BY <4>2 DEF PairingInv, MispairedOnlyAfterTimeout
        <5>2. w \in Request /\ w <= q
          BY <3>1, <5>1, TransportAssumption DEF Request
        <5> QED
          BY <5>1, <5>2
      <4> QED
        BY <1>1, <2>1, <2>4, <4>1, <4>2 DEF Stale
    <3>3. w # p /\ w \in 1..(p - 1)
      BY <3>1, <3>2 DEF Request
    <3>4. outcome'[w].kind = "timeout" /\ shape'[w] = shape'[p]
      BY <1>4, <2>4, <2>5, <3>2, <3>3
    <3> QED
      BY <1>4, <2>4, <2>5, <3>1, <3>3, <3>4 DEF Explained
  <2>10. Answered(p)' /\ outcome'[p].to # p => Explained(p)'
    BY <2>5, <2>9
  <2>11. [kind |-> f.kind, to |-> f.to] \in Outcome
    BY DEF Outcome, Response
  <2> QED
    BY <1>3, <1>4, <2>1, <2>2, <2>7, <2>8, <2>10, <2>11, EndKeepsPairing
<1>6. CASE ~Match(f)
  <2>1. UNCHANGED <<outcome, pending>>
    BY <1>2, <1>6 DEF Receive
  <2>2. OrderInv'
    BY <1>3, <1>4 DEF PairingInv, OrderInv
  <2>3. \A r \in Request : Written(r) = Written(r)' /\ Stale(r) = Stale(r)'
    BY <1>4, <2>1 DEF Written, Stale, Running, Answered
  <2>4. TransitInv'
    <3>1. \A g \in Elems(toHost') : HostInv(g)'
      BY <1>3, <1>4, <2>3, Types DEF PairingInv, TransitInv, HostInv, Response
    <3>2. \A r \in Elems(toAdapter') : Written(r)' /\ Stale(r)'
      BY <1>4, <2>3, Types DEF PairingInv, TransitInv
    <3>3. pending' # None => Running' /\ Written(pending)' /\ outcome'[pending'] = Open
      BY <1>4, <2>1 DEF PairingInv, TransitInv, Written, Running
    <3>4. /\ \A q \in Elems(queue') : Running' /\ q <= made' /\ outcome'[q] = Open
          /\ \A r \in Request : r > made' => outcome'[r] = Open
      BY <1>4, <2>1 DEF PairingInv, TransitInv, Running
    <3> QED
      BY <3>1, <3>2, <3>3, <3>4 DEF TransitInv
  <2>5. MispairedOnlyAfterTimeout'
    BY <1>4, <2>1 DEF PairingInv, MispairedOnlyAfterTimeout, Answered
  <2> QED
    BY <2>2, <2>4, <2>5 DEF PairingInv
<1> QED
  BY <1>5, <1>6

LEMMA TimeOutKeepsPairing == TypeInv /\ PairingInv /\ TimeOut => PairingInv'
<1> SUFFICES ASSUME TypeInv, PairingInv, TimeOut PROVE PairingInv'
  OBVIOUS
<1>1. PICK p \in Request : p = pending
  BY Types DEF TimeOut
<1> DEFINE told == [outcome EXCEPT ![p] = Error("timeout")]
<1>2. UNCHANGED <<made, shape, toAdapter, toHost>>
  BY DEF TimeOut, callerVars, adapterVars
<1>3. /\ Error("timeout") \in Outcome /\ Error("timeout").kind = "timeout"
      /\ p <= made /\ p # None /\ outcome[p] = Open
  BY <1>1, Types DEF PairingInv, TransitInv, Written, Outcome, Error
<1>4. CASE GivesUpAt(timeouts + 1)
  <2>1. Stop(told, "unresponsive")
    BY <1>1, <1>4 DEF TimeOut
  <2>2. told \in [Request -> Outcome \union {Open}]
    BY <1>3, Types
  <2>3. \A r \in Request : told[r] = outcome[r] \/
          (r <= made /\ outcome[r] = Open /\ told[r].kind \notin {"reply", "rejected"})
    BY <1>3, Types
  <2> HIDE DEF told
  <2> QED
    BY <1>2, <2>1, <2>2, <2>3, StopKeepsPairing
<1>5. CASE ~GivesUpAt(timeouts + 1)
  <2>1. outcome' = told /\ pending' = None /\ UNCHANGED <<queue, status>>
    BY <1>1, <1>5 DEF TimeOut
  <2>2. outcome'[p].kind = "timeout"
    BY <1>3, <2>1, Types
  <2>3. Stale(p)' /\ ~Answered(p)'
    BY <2>2 DEF Stale, Answered
  <2>4. Elems(toHost') \subseteq Elems(toHost) /\ IncreasingTo(toHost')
    BY <1>2 DEF PairingInv, OrderInv
  <2> QED
    BY <1>1, <1>2, <1>3, <2>1, <2>3, <2>4, EndKeepsPairing
<1> QED
  BY <1>4, <1>5

\* The adapter moves requests and responses, which touches nobody's outcome.
LEMMA AdapterKeepsPairing ==
  ASSUME TypeInv, PairingInv, UNCHANGED <<callerVars, actorVars>>, OrderInv',
         Elems(toAdapter') \subseteq Elems(toAdapter),
         \A f \in Elems(toHost') : f \in Elems(toHost) \/ (f \in Response /\ HostInv(f))
  PROVE  PairingInv'
<1>1. UNCHANGED <<made, shape, queue, pending, status, outcome>>
  BY DEF callerVars, actorVars
<1>2. \A r \in Request : Written(r) = Written(r)' /\ Stale(r) = Stale(r)'
  BY <1>1 DEF Written, Stale, Running, Answered
<1>3. TransitInv'
  <2>1. \A f \in Elems(toHost') : HostInv(f)'
    <3> SUFFICES ASSUME NEW f \in Elems(toHost') PROVE HostInv(f)'
      OBVIOUS
    <3>1. f \in Response /\ HostInv(f)
      BY Types DEF PairingInv, TransitInv
    <3> QED
      BY <1>1, <1>2, <3>1 DEF HostInv, Response
  <2>2. \A r \in Elems(toAdapter') : Written(r)' /\ Stale(r)'
    BY <1>2, Types DEF PairingInv, TransitInv
  <2>3. pending' # None => Running' /\ Written(pending)' /\ outcome'[pending'] = Open
    BY <1>1 DEF PairingInv, TransitInv, Written, Running
  <2>4. /\ \A q \in Elems(queue') : Running' /\ q <= made' /\ outcome'[q] = Open
        /\ \A r \in Request : r > made' => outcome'[r] = Open
    BY <1>1 DEF PairingInv, TransitInv, Running
  <2> QED
    BY <2>1, <2>2, <2>3, <2>4 DEF TransitInv
<1>4. MispairedOnlyAfterTimeout'
  BY <1>1 DEF PairingInv, MispairedOnlyAfterTimeout, Answered
<1> QED
  BY <1>3, <1>4 DEF PairingInv

LEMMA AnswerKeepsPairing ==
  ASSUME TypeInv, PairingInv, NEW kind \in {"reply", "rejected"}, Answer(kind)
  PROVE  PairingInv'
<1>1. toAdapter # <<>> /\ toAdapter' = Tail(toAdapter)
  BY DEF Answer
<1>2. PICK r \in Request : r = Head(toAdapter)
  BY <1>1, Types, Taken
<1>3. /\ r \in Elems(toAdapter) /\ Elems(toAdapter') \subseteq Elems(toAdapter)
      /\ Increasing(toAdapter') /\ \A x \in Elems(toAdapter') : r < x
  BY <1>1, <1>2, Types, ElemsTaken, IncreasingTaken DEF PairingInv, OrderInv
<1> DEFINE e == [kind |-> kind, shape |-> shape[r], to |-> r]
<1>4. e \in Response /\ e.to = r /\ e.shape = shape[r]
  BY DEF Response, TypeInv, TypeOK
<1>5. toHost' = Append(toHost, e)
  BY <1>2 DEF Answer
<1>6. HostInv(e)
  BY <1>3, <1>4, Types DEF HostInv, PairingInv, TransitInv
<1> HIDE DEF e
<1>7. Elems(toHost') = Elems(toHost) \union {e}
  BY <1>4, <1>5, Types, ElemsAppended
<1>8. \A f \in Elems(toHost) : f.to < r
  BY <1>3 DEF PairingInv, OrderInv
<1>9. IncreasingTo(toHost')
  BY <1>4, <1>5, <1>8, Types, IncreasingToAppended DEF PairingInv, OrderInv
<1>10. OrderInv'
  <2>1. queue' = queue
    BY DEF Answer, actorVars
  <2>2. \A f \in Elems(toHost'), x \in Elems(toAdapter') : f.to < x
    BY <1>3, <1>4, <1>7 DEF PairingInv, OrderInv
  <2> QED
    BY <1>3, <1>9, <2>1, <2>2 DEF PairingInv, OrderInv
<1> QED
  BY <1>3, <1>4, <1>6, <1>7, <1>10, AdapterKeepsPairing DEF Answer

LEMMA IgnoreKeepsPairing == TypeInv /\ PairingInv /\ Ignore => PairingInv'
<1> SUFFICES ASSUME TypeInv, PairingInv, Ignore PROVE PairingInv'
  OBVIOUS
<1>1. /\ toAdapter # <<>> /\ toAdapter' = Tail(toAdapter)
      /\ toHost' = toHost /\ queue' = queue
  BY DEF Ignore, actorVars
<1>2. Elems(toAdapter') \subseteq Elems(toAdapter) /\ Increasing(toAdapter')
  BY <1>1, Types, ElemsTaken, IncreasingTaken DEF PairingInv, OrderInv
<1>3. OrderInv'
  BY <1>1, <1>2 DEF PairingInv, OrderInv
<1> QED
  BY <1>1, <1>2, <1>3, AdapterKeepsPairing DEF Ignore

LEMMA BabbleKeepsPairing ==
  ASSUME TypeInv, PairingInv, NEW s \in Shape, Babble(s)
  PROVE  PairingInv'
<1> DEFINE e == [kind |-> "reply", shape |-> s, to |-> None]
<1>1. e \in Response /\ e.to = None /\ HostInv(e)
  BY DEF Response, HostInv, Babble
<1>2. toHost' = Append(toHost, e) /\ toAdapter' = toAdapter /\ queue' = queue
  BY DEF Babble, actorVars
<1> HIDE DEF e
<1>3. Elems(toHost') = Elems(toHost) \union {e}
  BY <1>1, <1>2, Types, ElemsAppended
<1>4. IncreasingTo(toHost')
  BY <1>1, <1>2, Types, IncreasingToAppended DEF PairingInv, OrderInv
<1>5. OrderInv'
  BY <1>1, <1>2, <1>3, <1>4, Types DEF PairingInv, OrderInv
<1> QED
  BY <1>1, <1>2, <1>3, <1>5, AdapterKeepsPairing DEF Babble

LEMMA FailureKeepsPairing ==
  TypeInv /\ PairingInv /\ (WriteFails \/ SerialFails) => PairingInv'
<1> SUFFICES ASSUME TypeInv, PairingInv, WriteFails \/ SerialFails PROVE PairingInv'
  OBVIOUS
<1>1. CASE WriteFails
  <2>1. queue # <<>> /\ UNCHANGED <<made, shape, toAdapter, toHost>>
    BY <1>1 DEF WriteFails, Ready, callerVars, adapterVars
  <2>2. PICK h \in Elems(queue) : h = Head(queue)
    BY <2>1, Types, ElemsTaken
  <2> DEFINE told == [outcome EXCEPT ![h] = Error("failed")]
  <2>3. Stop(told, "io")
    BY <1>1, <2>2 DEF WriteFails
  <2>4. h \in Request /\ h <= made /\ outcome[h] = Open
    BY Types DEF PairingInv, TransitInv
  <2>5. told \in [Request -> Outcome \union {Open}]
    BY <2>4, Types DEF Outcome, Error
  <2>6. \A r \in Request : told[r] = outcome[r] \/
          (r <= made /\ outcome[r] = Open /\ told[r].kind \notin {"reply", "rejected"})
    BY <2>4, Types DEF Error
  <2> HIDE DEF told
  <2> QED
    BY <2>1, <2>3, <2>5, <2>6, StopKeepsPairing
<1>2. CASE SerialFails
  <2>1. Stop(outcome, "io") /\ UNCHANGED <<made, shape, toAdapter, toHost>>
    BY <1>2 DEF SerialFails, callerVars, adapterVars
  <2> QED
    BY <2>1, Types, StopKeepsPairing
<1> QED
  BY <1>1, <1>2

LEMMA PairingInvariance == Spec => [](TypeInv /\ PairingInv)
<1>1. TypeInv /\ PairingInv /\ [Next]_vars => PairingInv'
  <2> SUFFICES ASSUME TypeInv, PairingInv, [Next]_vars PROVE PairingInv'
    OBVIOUS
  <2>1. CASE Call
    BY <2>1, CallKeepsPairing
  <2>2. CASE Actor
    BY <2>2, AcceptKeepsPairing, FailureKeepsPairing, TimeOutKeepsPairing,
       ReceiveKeepsPairing DEF Actor
  <2>3. CASE Adapter
    BY <2>3, AnswerKeepsPairing, IgnoreKeepsPairing, BabbleKeepsPairing DEF Adapter
  <2>4. CASE UNCHANGED vars
    <3>1. UNCHANGED <<callerVars, actorVars, toAdapter, toHost>>
      BY <2>4 DEF vars, callerVars, actorVars
    <3>2. OrderInv'
      BY <3>1 DEF PairingInv, OrderInv, actorVars
    <3> QED
      BY <3>1, <3>2, AdapterKeepsPairing
  <2> QED
    BY <2>1, <2>2, <2>3, <2>4 DEF Next
<1> QED
  BY <1>1, PairingInit, TypeInit, TypeStep, PTL DEF Spec

\* A call is only ever given the response to an earlier request, of the same
\* shape, and only after a request of that shape has timed out.
THEOREM MispairingNeedsTimeout == Spec => []MispairedOnlyAfterTimeout
<1>1. PairingInv => MispairedOnlyAfterTimeout
  BY DEF PairingInv
<1> QED
  BY <1>1, PairingInvariance, PTL

-----------------------------------------------------------------------------
\* Calls end in order because every open one waits to be written or is the one
\* that has been, and those still to be written are all later.
OpenInv ==
  \A r \in Request : r <= made /\ outcome[r] = Open =>
    Running /\ (r = pending \/ r \in Elems(queue))

TurnInv == OpenInv /\ InOrder

LEMMA ElemsLeft ==
  ASSUME NEW S, NEW s \in Seq(S), s # <<>>
  PROVE  \A x \in Elems(s) : x = Head(s) \/ x \in Elems(Tail(s))
<1>1. /\ Len(s) \in Nat /\ Len(s) >= 1 /\ Head(s) = s[1]
      /\ Len(Tail(s)) = Len(s) - 1
      /\ \A j \in 1..Len(Tail(s)) : Tail(s)[j] = s[j + 1]
  BY Taken
<1> SUFFICES ASSUME NEW k \in 1..Len(s), k # 1 PROVE s[k] \in Elems(Tail(s))
  BY <1>1 DEF Elems
<1>2. k - 1 \in 1..Len(Tail(s)) /\ k = (k - 1) + 1
  BY <1>1
<1>3. Tail(s)[k - 1] = s[k]
  BY <1>1, <1>2
<1> QED
  BY <1>2, <1>3 DEF Elems

\* The pending request is the first of the open ones.
LEMMA EndKeepsTurns ==
  ASSUME TypeInv, PairingInv, TurnInv, NEW p \in Request, p = pending, NEW o \in Outcome,
         outcome' = [outcome EXCEPT ![p] = o], pending' = None,
         UNCHANGED <<made, queue, status>>
  PROVE  TurnInv'
<1>1. /\ Running /\ Running' /\ outcome[p] = Open /\ p <= made
      /\ \A q \in Elems(queue) : p < q
  BY Types DEF PairingInv, TransitInv, Written, Running
<1>2. o # Open
  BY DEF Outcome, Open
<1>3. outcome'[p] = o /\ \A r \in Request : r # p => outcome'[r] = outcome[r]
  BY Types
<1>4. OpenInv'
  <2> SUFFICES ASSUME NEW r \in Request, r <= made, outcome'[r] = Open
               PROVE  r \in Elems(queue)
    BY <1>1 DEF OpenInv
  <2> QED
    BY <1>2, <1>3 DEF TurnInv, OpenInv
<1>5. InOrder'
  <2> SUFFICES ASSUME NEW r \in Request, NEW q \in Request, q < r,
                      outcome'[r] # Open, outcome'[r].kind # "closed"
               PROVE  outcome'[q] # Open
    BY DEF InOrder
  <2>1. CASE r = p
    <3>1. q <= made /\ q # p /\ q \notin Elems(queue)
      BY <1>1, <2>1, Types
    <3>2. outcome[q] # Open
      BY <3>1 DEF TurnInv, OpenInv
    <3> QED
      BY <1>3, <3>1, <3>2
  <2>2. CASE r # p
    <3>1. outcome[q] # Open
      BY <1>3, <2>2 DEF TurnInv, InOrder
    <3> QED
      BY <1>2, <1>3, <3>1
  <2> QED
    BY <2>1, <2>2
<1> QED
  BY <1>4, <1>5 DEF TurnInv

LEMMA StopKeepsTurns ==
  ASSUME TypeInv, NEW open, NEW why, Stop(open, why), made' = made,
         open \in [Request -> Outcome \union {Open}],
         \A r \in Request : r > made => open[r] = Open
  PROVE  TurnInv'
<1>1. \A r \in Request : outcome'[r] = IF r <= made /\ open[r] = Open THEN Error("closed") ELSE open[r]
  BY DEF Stop
<1>2. Error("closed") # Open
  BY DEF Error, Open
<1>3. \A r \in Request : r <= made => outcome'[r] # Open
  BY <1>1, <1>2
<1>4. \A r \in Request : ~(r <= made) => outcome'[r] = Open
  BY <1>1, Types
<1> QED
  BY <1>3, <1>4, Types DEF TurnInv, OpenInv, InOrder

LEMMA CallKeepsTurns == TypeInv /\ PairingInv /\ TurnInv /\ Call => TurnInv'
<1> SUFFICES ASSUME TypeInv, PairingInv, TurnInv, Call PROVE TurnInv'
  OBVIOUS
<1>1. made' = made + 1 /\ made + 1 \in Request /\ pending' = pending /\ status' = status
  BY TransportAssumption DEF Call, Request, TypeInv, TypeOK
<1>2. \A r \in Request : r <= made' => r <= made \/ r = made + 1
  BY <1>1, Types
<1>3. CASE Running
  <2>1. queue' = Append(queue, made + 1) /\ outcome' = outcome
    BY <1>3 DEF Call
  <2>2. Elems(queue') = Elems(queue) \union {made + 1}
    BY <1>1, <2>1, Types, ElemsAppended
  <2> QED
    BY <1>1, <1>2, <1>3, <2>1, <2>2 DEF TurnInv, OpenInv, InOrder, Running
<1>4. CASE ~Running
  <2>1. outcome' = [outcome EXCEPT ![made + 1] = Error("closed")]
    BY <1>4 DEF Call
  <2>2. /\ outcome'[made + 1] = Error("closed")
        /\ \A r \in Request : r # made + 1 => outcome'[r] = outcome[r]
    BY <1>1, <2>1, Types
  <2>3. Error("closed") # Open /\ Error("closed").kind = "closed"
    BY DEF Error, Open
  <2>4. \A r \in Request : r <= made => outcome[r] # Open
    BY <1>4 DEF TurnInv, OpenInv
  <2>5. \A r \in Request : r <= made' => outcome'[r] # Open
    BY <1>2, <2>2, <2>3, <2>4
  <2>6. OpenInv'
    BY <2>5 DEF OpenInv
  <2>7. InOrder'
    BY <2>2, <2>3 DEF TurnInv, InOrder
  <2> QED
    BY <2>6, <2>7 DEF TurnInv
<1> QED
  BY <1>3, <1>4

LEMMA ActorKeepsTurns == TypeInv /\ PairingInv /\ TurnInv /\ Actor => TurnInv'
<1> SUFFICES ASSUME TypeInv, PairingInv, TurnInv, Actor PROVE TurnInv'
  OBVIOUS
<1>1. \A r \in Request : r > made => outcome[r] = Open
  BY DEF PairingInv, TransitInv
<1>2. CASE Accept
  <2>1. /\ Running /\ Running' /\ pending = None /\ queue # <<>>
        /\ pending' = Head(queue) /\ queue' = Tail(queue) /\ made' = made /\ outcome' = outcome
    BY <1>2 DEF Accept, Ready, Running, callerVars
  <2>2. \A r \in Elems(queue) : r = pending' \/ r \in Elems(queue')
    BY <2>1, Types, ElemsLeft
  <2>3. pending \notin Request
    BY <2>1, Types
  <2> QED
    BY <2>1, <2>2, <2>3 DEF TurnInv, OpenInv, InOrder
<1>3. CASE WriteFails
  <2>1. queue # <<>> /\ made' = made
    BY <1>3 DEF WriteFails, Ready, callerVars
  <2>2. PICK h \in Elems(queue) : h = Head(queue)
    BY <2>1, Types, ElemsTaken
  <2> DEFINE told == [outcome EXCEPT ![h] = Error("failed")]
  <2>3. Stop(told, "io")
    BY <1>3, <2>2 DEF WriteFails
  <2>4. h \in Request /\ h <= made
    BY Types DEF PairingInv, TransitInv
  <2>5. told \in [Request -> Outcome \union {Open}]
    BY <2>4, Types DEF Outcome, Error
  <2>6. \A r \in Request : r > made => told[r] = Open
    BY <1>1, <2>4, Types
  <2> HIDE DEF told
  <2> QED
    BY <2>1, <2>3, <2>5, <2>6, StopKeepsTurns
<1>4. CASE TimeOut
  <2> DEFINE o == Error("timeout")
             told == [outcome EXCEPT ![pending] = o]
  <2>1. /\ pending \in Request /\ made' = made /\ queue' = IF GivesUpAt(timeouts + 1) THEN <<>> ELSE queue
        /\ IF GivesUpAt(timeouts + 1)
           THEN Stop(told, "unresponsive")
           ELSE outcome' = told /\ pending' = None /\ UNCHANGED <<queue, status>>
    BY <1>4, Types DEF TimeOut, Stop, callerVars
  <2>2. o \in Outcome
    BY DEF Outcome, Error
  <2>3. told \in [Request -> Outcome \union {Open}]
    BY <2>1, <2>2, Types
  <2>4. pending <= made
    BY <2>1, Types DEF PairingInv, TransitInv, Written
  <2>5. \A r \in Request : r > made => told[r] = Open
    BY <1>1, <2>1, <2>4, Types
  <2>6. CASE GivesUpAt(timeouts + 1)
    <3> HIDE DEF told
    <3> QED
      BY <2>1, <2>3, <2>5, <2>6, StopKeepsTurns
  <2>7. CASE ~GivesUpAt(timeouts + 1)
    <3> HIDE DEF o
    <3> QED
      BY <2>1, <2>2, <2>7, EndKeepsTurns
  <2> QED
    BY <2>6, <2>7
<1>5. CASE Receive
  <2> DEFINE f == Head(toHost)
             o == [kind |-> f.kind, to |-> f.to]
  <2>1. /\ toHost # <<>> /\ made' = made /\ queue' = queue /\ status' = status
        /\ IF Match(f)
           THEN outcome' = [outcome EXCEPT ![pending] = o] /\ pending' = None
           ELSE outcome' = outcome /\ pending' = pending
    BY <1>5 DEF Receive, callerVars
  <2>2. f \in Response
    BY <2>1, Types, Taken
  <2>3. o \in Outcome
    BY <2>2 DEF Response, Outcome
  <2> HIDE DEF o, f
  <2>4. CASE Match(f)
    <3>1. pending \in Request
      BY <2>4, Types DEF Match
    <3> QED
      BY <2>1, <2>3, <2>4, <3>1, EndKeepsTurns
  <2>5. CASE ~Match(f)
    BY <2>1, <2>5 DEF TurnInv, OpenInv, InOrder, Running
  <2> QED
    BY <2>4, <2>5
<1>6. CASE SerialFails
  <2>1. Stop(outcome, "io") /\ made' = made
    BY <1>6 DEF SerialFails, callerVars
  <2> QED
    BY <1>1, <2>1, Types, StopKeepsTurns
<1> QED
  BY <1>2, <1>3, <1>4, <1>5, <1>6 DEF Actor

\* Calls of request() end in the order they were made, whatever the adapter does
\* and whenever the actor stops: none ends before an earlier one, but for those
\* that find the actor gone.
THEOREM CallsEndInOrder == Spec => []InOrder
<1>1. Init => TurnInv
  <2> SUFFICES ASSUME Init PROVE TurnInv
    OBVIOUS
  <2>1. made = 0 /\ \A r \in Request : outcome[r] = Open
    BY DEF Init
  <2>2. \A r \in Request : ~(r <= made)
    BY <2>1 DEF Request
  <2> QED
    BY <2>1, <2>2 DEF TurnInv, OpenInv, InOrder
<1>2. TypeInv /\ PairingInv /\ TurnInv /\ [Next]_vars => TurnInv'
  <2> SUFFICES ASSUME TypeInv, PairingInv, TurnInv, [Next]_vars PROVE TurnInv'
    OBVIOUS
  <2>1. CASE Adapter \/ UNCHANGED vars
    <3>1. UNCHANGED <<made, outcome, queue, pending, status>>
      BY <2>1 DEF Adapter, Answer, Ignore, Babble, vars, callerVars, actorVars
    <3> QED
      BY <3>1 DEF TurnInv, OpenInv, InOrder, Running
  <2> QED
    BY <2>1, CallKeepsTurns, ActorKeepsTurns DEF Next
<1>3. TurnInv => InOrder
  BY DEF TurnInv
<1>4. Spec => [](TypeInv /\ PairingInv)
  BY PairingInvariance
<1> QED
  BY <1>1, <1>2, <1>3, <1>4, PTL DEF Spec
=============================================================================

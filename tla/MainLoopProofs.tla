--------------------------- MODULE MainLoopProofs ---------------------------
(***************************************************************************)
(* Proofs about MainLoop and its parts. PermitJoin: for every duration,    *)
(* margin and bound that the assumptions admit, bridge/info shows a window *)
(* that is open, the configured window is kept open for as long as         *)
(* housekeeping comes round in time, and one that was closed stays so.     *)
(* DeviceState: what is kept of a device is of its kind, a press is        *)
(* published once, with what belongs to it, an alarm under the key of the  *)
(* zone type then known, and what is shown of a lamp once nothing is under *)
(* way is what it does. MainLoop: whatever the loop does for a device, the *)
(* window behaves as PermitJoin says, and whatever it does for the window, *)
(* the device as DeviceState says, so that what is proved of either part   *)
(* holds of the loop.                                                      *)
(***************************************************************************)
EXTENDS MainLoop, TLAPS

-----------------------------------------------------------------------------
(***************************************************************************)
(* The permit-join window.                                                 *)
(***************************************************************************)
Durations == 0..Max \union {Forever}

\* The assumptions, as the steps below use them: 255 and "no window" are not
\* numbers, and the times are ordered.
LEMMA Constants ==
  /\ None \notin Int /\ Forever \notin Int /\ None # Forever
  /\ Max \in Nat /\ Margin \in Nat /\ Period \in Nat /\ Timeout \in Nat
  /\ Timeout > 0 /\ Timeout <= Margin /\ Margin < Max
  /\ MaxAsked \in Nat /\ MaxFailures \in Nat
  /\ Asked \subseteq Durations
<1>1. {Max, Margin, Period, Timeout} \subseteq Nat \ {0}
  BY PermitJoinAssumption
<1>2. /\ {MaxAsked, MaxFailures} \subseteq Nat
      /\ None \notin Int /\ Forever \notin Int /\ None # Forever
      /\ Asked \subseteq 0..Max \union {Forever}
      /\ Timeout <= Margin /\ Margin < Max
  BY PermitJoinAssumption
<1> QED
  BY <1>1, <1>2 DEF Durations

-----------------------------------------------------------------------------
\* What the actions share.

LEMMA StartupTypes ==
  ASSUME NEW s \in Startup
  PROVE  /\ s.window \in Durations /\ s.until \in 0..(Max + 1) \union {None}
         /\ s.open \in BOOLEAN /\ s.last \in Durations /\ s.doubt \in {"none", "other"}
         /\ s.doubt = "none" /\ s.open => s.window \in Nat /\ s.window + Timeout >= Max
         /\ s.doubt = "none" /\ ~s.open => s.window = 0
         /\ s.open => s.until = Max /\ s.last = Max
         /\ ~s.open => s.until = None /\ s.last = 0
<1> DEFINE Opened(w, d) ==
      [window |-> w, until |-> Max, open |-> TRUE, last |-> Max, doubt |-> d]
           Closed(w, d) ==
      [window |-> w, until |-> None, open |-> FALSE, last |-> 0, doubt |-> d]
<1>1. \/ \E w \in (Max - Timeout)..Max : s = Opened(w, "none")
      \/ s = Opened(0, "other")
      \/ s = Closed(0, "none")
      \/ \E w \in {0, Max, Forever} : s = Closed(w, "other")
  BY DEF Startup
<1>2. (Max - Timeout)..Max \subseteq 0..Max
  BY Constants
<1>3. CASE \E w \in (Max - Timeout)..Max : s = Opened(w, "none")
  BY <1>2, <1>3, Constants DEF Durations
<1>4. CASE s = Opened(0, "other")
  BY <1>4, Constants DEF Durations
<1>6. CASE s = Closed(0, "none")
  BY <1>6, Constants DEF Durations
<1>5. CASE \E w \in {0, Max, Forever} : s = Closed(w, "other")
  BY <1>5, Constants DEF Durations
<1> QED
  BY <1>1, <1>3, <1>4, <1>5, <1>6

LEMMA LaterTypes ==
  /\ \A t \in Durations : Later(t) \in Durations
  /\ \A t \in 0..(Max + 1) \union {None} : Later(t) \in 0..(Max + 1) \union {None}
  /\ \A t \in Nat : Later(t) = IF t = 0 THEN 0 ELSE t - 1
  /\ Later(None) = None /\ Later(Forever) = Forever
BY Constants DEF Later, Durations

LEMMA OnSentTypes ==
  ASSUME NEW d \in Durations
  PROVE  /\ OnSent(d) \in 0..(Max + 1) \union {None}
         /\ d \in Nat /\ d # 0 => OnSent(d) = d
         /\ d = 0 => OnSent(d) = None
         /\ d = Forever => OnSent(d) = Max + 1
         /\ Enabled(OnSent(d)) <=> d # 0
BY Constants DEF OnSent, Enabled, Durations

\* Taking the first of a queue leaves the rest.
LEMMA Taken ==
  ASSUME NEW S, NEW s \in Seq(S), s # <<>>
  PROVE  Head(s) \in S /\ Tail(s) \in Seq(S)
OBVIOUS

LEMMA OneInQueue ==
  \A d : /\ <<d>> # <<>> /\ Head(<<d>>) = d /\ Tail(<<d>>) = <<>>
         /\ Append(<<>>, d) = <<d>> /\ Len(<<d>>) = 1 /\ <<d>>[1] = d
OBVIOUS

-----------------------------------------------------------------------------
\* Types.

LEMMA TypesInit == PermitInit => PermitTypeOK
<1> SUFFICES ASSUME PermitInit PROVE PermitTypeOK
  OBVIOUS
<1> PICK s \in Startup : /\ window = s.window /\ until = s.until
                         /\ keepEnabled = s.open /\ shown = s.open
                         /\ last = s.last /\ doubt = s.doubt
  BY DEF PermitInit
<1>1. request \in [duration : Durations, before : 0..(Max + 1) \union {None},
                   age : 0..Timeout \union {None}, alone : BOOLEAN]
  BY Constants DEF PermitInit, NoRequest, Durations
<1> QED
  BY <1>1, StartupTypes, Constants DEF PermitInit, PermitTypeOK, Durations

\* The type invariant, in terms of Durations.
LEMMA PermitTypesAre ==
  PermitTypeOK <=>
    /\ window \in Durations /\ until \in 0..(Max + 1) \union {None}
    /\ queue \in Seq(Durations) /\ answers \in Seq({"ok", "refused"})
    /\ keepEnabled \in BOOLEAN /\ shown \in BOOLEAN /\ doubt \in {"none", "late", "other"}
    /\ handler \in {"idle", "command", "refresh", "other"}
    /\ request \in [duration : Durations, before : 0..(Max + 1) \union {None},
                    age : 0..Timeout \union {None}, alone : BOOLEAN]
    /\ elapsed \in 0..Max /\ clock \in 0..Period /\ lag \in 0..(Margin + 1)
    /\ asked \in 0..MaxAsked /\ failures \in 0..MaxFailures
    /\ last \in Durations
BY DEF PermitTypeOK, Durations

LEMMA TypesStep == PermitTypeOK /\ [PermitNext]_permitJoinVars => PermitTypeOK'
<1> SUFFICES ASSUME PermitTypeOK, [PermitNext]_permitJoinVars PROVE PermitTypeOK'
  OBVIOUS
<1> DEFINE AnyUntil == 0..(Max + 1) \union {None}
           AnyRequest == [duration : Durations, before : AnyUntil,
                          age : 0..Timeout \union {None}, alone : BOOLEAN]
<1>0. /\ window \in Durations /\ until \in AnyUntil
      /\ queue \in Seq(Durations) /\ answers \in Seq({"ok", "refused"})
      /\ keepEnabled \in BOOLEAN /\ shown \in BOOLEAN /\ doubt \in {"none", "late", "other"}
      /\ handler \in {"idle", "command", "refresh", "other"}
      /\ request \in AnyRequest
      /\ elapsed \in 0..Max /\ clock \in 0..Period /\ lag \in 0..(Margin + 1)
      /\ asked \in 0..MaxAsked /\ failures \in 0..MaxFailures
      /\ last \in Durations
  BY PermitTypesAre
<1> SUFFICES /\ window' \in Durations /\ until' \in AnyUntil
             /\ queue' \in Seq(Durations) /\ answers' \in Seq({"ok", "refused"})
             /\ keepEnabled' \in BOOLEAN /\ shown' \in BOOLEAN
             /\ doubt' \in {"none", "late", "other"}
             /\ handler' \in {"idle", "command", "refresh", "other"}
             /\ request' \in AnyRequest
             /\ elapsed' \in 0..Max /\ clock' \in 0..Period /\ lag' \in 0..(Margin + 1)
             /\ asked' \in 0..MaxAsked /\ failures' \in 0..MaxFailures
             /\ last' \in Durations
  BY DEF PermitTypeOK, Durations
<1> USE <1>0, Constants DEF windowVars, permitVars, handlerVars, boundVars, permitHistory
<1>n. NoRequest \in AnyRequest
  BY DEF NoRequest, Durations
<1>a. ASSUME NEW d \in Durations, Asks(d) PROVE request' \in AnyRequest
  BY <1>a DEF Asks, NoRequest
<1>e. ASSUME NEW u \in AnyUntil, TakeExpired(u)
      PROVE until' \in AnyUntil /\ shown' \in BOOLEAN
  BY <1>e DEF TakeExpired
<1>d. Max \in Durations /\ InDoubt \in {"none", "other"}
  BY DEF Durations, InDoubt
<1>w. Accepted => answers' \in Seq({"ok", "refused"})
  BY Taken DEF Accepted
<1>1. CASE Tick
  <2>1. /\ window' = Later(window) /\ until' = Later(until)
        /\ clock' = IF Due THEN clock ELSE clock + 1
        /\ elapsed' = IF handler = "refresh" /\ elapsed < Max THEN elapsed + 1 ELSE elapsed
        /\ lag' = IF keepEnabled /\ lag <= Margin THEN lag + 1 ELSE lag
        /\ UNCHANGED <<queue, answers, keepEnabled, shown, handler, asked, failures, last, doubt>>
    BY <1>1 DEF Tick
  <2>2. window' \in Durations /\ until' \in AnyUntil
    BY <2>1, LaterTypes
  <2>3. clock' \in 0..Period
    BY <2>1 DEF Due
  <2>4. request' \in AnyRequest
    <3>1. CASE Underway
      <4>1. request.age \in 0..Timeout /\ request.age < Timeout
        BY <1>1, <3>1 DEF Tick, Underway
      <4>2. request' = [request EXCEPT !.age = @ + 1]
        BY <1>1, <3>1 DEF Tick
      <4>3. request.age + 1 \in 0..Timeout
        BY <4>1
      <4> QED
        BY <4>2, <4>3
    <3>2. CASE ~Underway
      BY <1>1, <3>2 DEF Tick
    <3> QED
      BY <3>1, <3>2
  <2>5. elapsed' \in 0..Max /\ lag' \in 0..(Margin + 1)
    BY <2>1
  <2> QED
    BY <2>1, <2>2, <2>3, <2>4, <2>5
<1>2. CASE AdapterTakes
  <2>1. window' \in Durations /\ queue' \in Seq(Durations)
    BY <1>2, Taken DEF AdapterTakes
  <2>2. answers' \in Seq({"ok", "refused"})
    BY <1>2 DEF AdapterTakes
  <2> QED
    BY <1>2, <2>1, <2>2 DEF AdapterTakes
<1>3. CASE AdapterRefuses
  <2>1. queue' \in Seq(Durations)
    BY <1>3, Taken DEF AdapterRefuses
  <2>2. answers' \in Seq({"ok", "refused"})
    BY <1>3 DEF AdapterRefuses
  <2> QED
    BY <1>3, <2>1, <2>2 DEF AdapterRefuses
<1>4. CASE LostOnTheWay
  <2>1. CASE queue # <<>> /\ queue' = Tail(queue) /\ UNCHANGED answers
    BY <1>4, <2>1, Taken DEF LostOnTheWay
  <2>2. CASE answers # <<>> /\ answers' = Tail(answers) /\ UNCHANGED queue
    BY <1>4, <2>2, Taken DEF LostOnTheWay
  <2> QED
    BY <1>4, <2>1, <2>2 DEF LostOnTheWay
<1>5. ASSUME NEW d \in Asked, PermitCommand(d) PROVE PermitTypeOK'
  <2>1. d \in Durations
    OBVIOUS
  <2>2. request' \in AnyRequest
    BY <1>5, <1>a, <2>1 DEF PermitCommand
  <2> QED
    BY <1>5, <2>2 DEF PermitCommand, Starts, PermitTypeOK, Durations
<1>6. CASE CommandAccepted
  <2>1. request.duration \in Durations
    OBVIOUS
  <2>2. until' \in AnyUntil /\ shown' \in BOOLEAN
    BY <1>6, <2>1, OnSentTypes DEF CommandAccepted, CommandTakes, Enabled
  <2>3. keepEnabled' \in BOOLEAN /\ lag' \in 0..(Margin + 1)
    BY <1>6 DEF CommandAccepted, KeepAfter
  <2>4. /\ handler' = "idle" /\ request' = NoRequest /\ elapsed' = 0
        /\ last' = request.duration /\ doubt' = InDoubt
        /\ UNCHANGED <<window, queue, clock, asked, failures>>
    BY <1>6 DEF CommandAccepted, Ends
  <2>5. answers' \in Seq({"ok", "refused"})
    BY <1>6, <1>w DEF CommandAccepted
  <2> QED
    BY <1>n, <1>d, <2>1, <2>2, <2>3, <2>4, <2>5
<1>7. CASE CommandFails
  BY <1>7, <1>n DEF CommandFails, Late, Ends
<1>8. CASE Housekeeping
  <2>1. CASE NeedsRefresh
    BY <1>8, <1>a, <1>d, <2>1 DEF Housekeeping
  <2>2. CASE ~NeedsRefresh
    BY <1>8, <1>e, <2>2 DEF Housekeeping
  <2> QED
    BY <2>1, <2>2
<1>9. CASE RefreshAccepted
  <2>1. until' \in AnyUntil /\ shown' \in BOOLEAN /\ lag' \in 0..(Margin + 1)
    BY <1>9 DEF RefreshAccepted, Enabled
  <2>2. /\ handler' = "idle" /\ request' = NoRequest /\ elapsed' = 0
        /\ last' = Max /\ doubt' = InDoubt
        /\ UNCHANGED <<window, queue, keepEnabled, clock, asked, failures>>
    BY <1>9 DEF RefreshAccepted, Ends
  <2>3. answers' \in Seq({"ok", "refused"})
    BY <1>9, <1>w DEF RefreshAccepted
  <2> QED
    BY <1>n, <1>d, <2>1, <2>2, <2>3
<1>10. CASE RefreshFails
  <2>1. request.before \in AnyUntil
    OBVIOUS
  <2>2. until' \in AnyUntil /\ shown' \in BOOLEAN
    BY <1>10, <1>e, <2>1 DEF RefreshFails
  <2>3. failures' \in 0..MaxFailures /\ doubt' \in {"late", "other"}
    BY <1>10 DEF RefreshFails, Late
  <2> QED
    BY <1>10, <1>n, <2>2, <2>3 DEF RefreshFails, Ends
<1>11. CASE Send
  <2>1. request' \in AnyRequest
    <3> DEFINE alone == queue = <<>> /\ answers = <<>>
    <3>1. request' = [request EXCEPT !.age = 0, !.alone = alone]
      BY <1>11 DEF Send
    <3>2. alone \in BOOLEAN
      OBVIOUS
    <3> HIDE DEF alone
    <3>3. request' = [duration |-> request.duration, before |-> request.before,
                      age |-> 0, alone |-> alone]
      BY <3>1
    <3>4. 0 \in 0..Timeout \union {None}
      OBVIOUS
    <3> QED
      BY <3>2, <3>3, <3>4, Zenon
  <2>2. queue' \in Seq(Durations)
    BY <1>11 DEF Send
  <2> QED
    BY <1>11, <2>1, <2>2 DEF Send
<1>12. CASE AnswerIgnored
  <2>1. answers' \in Seq({"ok", "refused"})
    BY <1>12, Taken DEF AnswerIgnored
  <2> QED
    BY <1>12, <2>1 DEF AnswerIgnored
<1>13. CASE OtherStarts
  BY <1>13 DEF OtherStarts, Starts
<1>14. CASE OtherEnds
  BY <1>14, <1>n DEF OtherEnds, Ends
<1>15. CASE Republish
  BY <1>15 DEF Republish, Enabled
<1>16. CASE Restart
  <2>1. PICK s \in Startup : /\ window' = s.window /\ until' = s.until
                             /\ keepEnabled' = s.open /\ shown' = s.open
                             /\ last' = s.last /\ doubt' = s.doubt
    BY <1>16 DEF Restart
  <2> QED
    BY <1>16, <2>1, StartupTypes DEF Restart
<1>17. CASE UNCHANGED permitJoinVars
  BY <1>17 DEF permitJoinVars
<1> QED
  BY <1>1, <1>2, <1>3, <1>4, <1>5, <1>6, <1>7, <1>8, <1>9, <1>10, <1>11, <1>12, <1>13,
     <1>14, <1>15, <1>16, <1>17
     DEF PermitNext, AdapterNext, PermitHandlers, PermitTypeOK, Durations

\* Every time stays a number up to its bound or one of the two values that are
\* none, and a request ends before its age passes the timeout.
THEOREM PermitTypes == PermitSpec => []PermitTypeOK
BY TypesInit, TypesStep, PTL DEF PermitSpec

-----------------------------------------------------------------------------
\* The inductive invariant.

\* While nothing is in doubt, the only request and the only answer under way are
\* those awaited; once that is "ok" the adapter has done as asked, `age` ago at
\* most. What else may be under way after refreshes that timed out are refreshes.
Has(d, age) ==
  IF d = Forever THEN window = Forever
  ELSE window \in Nat /\ window <= d /\ window + age >= d

AwaitedOnly ==
  \/ answers = <<>> /\ queue \in {<<>>, <<request.duration>>}
  \/ queue = <<>> /\ answers = <<"refused">>
  \/ queue = <<>> /\ answers = <<"ok">> /\ Has(request.duration, request.age)

Pairing ==
  /\ doubt = "none" /\ ~Underway => queue = <<>> /\ answers = <<>>
  /\ doubt = "none" /\ Underway => request.alone
  /\ Underway /\ request.alone => AwaitedOnly
  /\ doubt = "late" /\ ~(handler = "command" /\ Underway) => queue \in Seq({Max})

\* Only the configuration refreshes, and an explicit disable ends that; a refresh
\* has run for as long as its request.
Refreshing ==
  /\ last = 0 => ~keepEnabled
  /\ handler = "refresh" => keepEnabled /\ request.duration = Max
  /\ handler = "refresh" /\ Underway => request.age <= elapsed

\* What keeps the configured window open: for as long as housekeeping is not
\* overdue there is something left of it, and at least what `until` says, but for
\* the time an answer takes.
Sure ==
  keepEnabled /\ doubt # "other" /\ Longer(last) /\ ~(handler = "command" /\ Underway)

StillOpen ==
  Sure /\ window # Forever =>
    /\ window + lag + Timeout > Margin
    /\ until # None => window + Timeout >= until

\* `until` has not passed unless housekeeping is overdue.
InTime ==
  keepEnabled /\ doubt = "none" /\ Longer(last) =>
    until # None /\ (lag <= Margin => until + lag > Margin)

\* Unless the adapter is being asked, its window is not open for longer than the
\* bridge's; after a refresh, which the bridge dates back, it may be.
InStep ==
  doubt = "none" /\ ~Underway =>
    IF last = Forever THEN window = Forever
    ELSE /\ window \in Nat
         /\ until = None => window = 0
         /\ until # None => window <= until \/ (keepEnabled /\ Longer(last))

\* What is shown is between an open window and one not yet taken for expired.
Showing ==
  /\ shown => until # None
  /\ Enabled(until) => shown
  /\ Awaiting /\ Enabled(request.before) => shown

IInv == PermitTypeOK /\ Pairing /\ Refreshing /\ StillOpen /\ InTime /\ InStep /\ Showing

\* PermitTypeOK, as far as the steps below need it.
LEMMA Shapes ==
  ASSUME PermitTypeOK
  PROVE  /\ window \in Nat \union {Forever} /\ window \in Durations
         /\ until \in Nat \union {None} /\ (until # None => until <= Max + 1)
         /\ queue \in Seq(Durations) /\ answers \in Seq({"ok", "refused"})
         /\ keepEnabled \in BOOLEAN /\ shown \in BOOLEAN
         /\ handler \in {"idle", "command", "refresh", "other"}
         /\ request = [duration |-> request.duration, before |-> request.before,
                       age |-> request.age, alone |-> request.alone]
         /\ request.duration \in Durations /\ request.duration \in Nat \union {Forever}
         /\ request.before \in Nat \union {None}
         /\ request.age \in 0..Timeout \union {None} /\ request.alone \in BOOLEAN
         /\ elapsed \in 0..Max /\ lag \in 0..(Margin + 1)
         /\ last \in Durations /\ last \in Nat \union {Forever}
BY Constants DEF PermitTypeOK, Durations

\* What an accepted request leaves when nothing is in doubt after it.
LEMMA AcceptedAlone ==
  ASSUME PermitTypeOK, Pairing, Accepted, InDoubt = "none"
  PROVE  /\ queue = <<>> /\ answers' = <<>>
         /\ Has(request.duration, request.age) /\ request.age \in 0..Timeout
<1>1. Underway /\ answers # <<>> /\ answers' = Tail(answers)
  BY DEF Accepted
<1>2. request.alone /\ Head(answers) # "refused"
  BY DEF InDoubt
<1>3. queue = <<>> /\ answers = <<"ok">> /\ Has(request.duration, request.age)
  BY <1>1, <1>2, OneInQueue DEF Pairing, AwaitedOnly
<1> QED
  BY <1>1, <1>3, OneInQueue, Shapes DEF Underway

LEMMA RefreshingStep ==
  PermitTypeOK /\ Refreshing /\ [PermitNext]_permitJoinVars => Refreshing'
<1> SUFFICES ASSUME PermitTypeOK, Refreshing, [PermitNext]_permitJoinVars PROVE Refreshing'
  OBVIOUS
<1> USE Constants, Shapes DEF Refreshing, Awaiting, Underway,
        windowVars, permitVars, handlerVars, boundVars, permitHistory
<1>1. CASE Tick
  <2>1. CASE Underway
    <3>1. request' = [request EXCEPT !.age = @ + 1] /\ request.age < Timeout
      BY <1>1, <2>1 DEF Tick
    <3>2. request'.age = request.age + 1 /\ request'.duration = request.duration
      BY <3>1
    <3> QED
      BY <1>1, <2>1, <3>1, <3>2 DEF Tick
  <2>2. CASE ~Underway
    BY <1>1, <2>2 DEF Tick
  <2> QED
    BY <2>1, <2>2
<1>2. CASE AdapterTakes
  BY <1>2 DEF AdapterTakes
<1>3. CASE AdapterRefuses
  BY <1>3 DEF AdapterRefuses
<1>4. CASE LostOnTheWay
  BY <1>4 DEF LostOnTheWay
<1>5. ASSUME NEW d \in Asked, PermitCommand(d) PROVE Refreshing'
  BY <1>5 DEF PermitCommand, Starts
<1>6. CASE CommandAccepted
  BY <1>6 DEF CommandAccepted, KeepAfter, Ends
<1>7. CASE CommandFails
  BY <1>7 DEF CommandFails, Ends
<1>8. CASE Housekeeping
  BY <1>8 DEF Housekeeping, NeedsRefresh, Asks, NoRequest
<1>9. CASE RefreshAccepted
  BY <1>9 DEF RefreshAccepted, Ends
<1>10. CASE RefreshFails
  BY <1>10 DEF RefreshFails, Ends
<1>11. CASE Send
  <2>1. request'.age = 0 /\ request'.duration = request.duration
    BY <1>11 DEF Send
  <2> QED
    BY <1>11, <2>1 DEF Send
<1>12. CASE AnswerIgnored
  BY <1>12 DEF AnswerIgnored
<1>13. CASE OtherStarts
  BY <1>13 DEF OtherStarts, Starts
<1>14. CASE OtherEnds
  BY <1>14 DEF OtherEnds, Ends
<1>15. CASE Republish
  BY <1>15 DEF Republish
<1>16. CASE Restart
  BY <1>16, StartupTypes DEF Restart
<1>17. CASE UNCHANGED permitJoinVars
  BY <1>17 DEF permitJoinVars
<1> QED
  BY <1>1, <1>2, <1>3, <1>4, <1>5, <1>6, <1>7, <1>8, <1>9, <1>10, <1>11, <1>12, <1>13,
     <1>14, <1>15, <1>16, <1>17 DEF PermitNext, AdapterNext, PermitHandlers

LEMMA PairingStep ==
  PermitTypeOK /\ Refreshing /\ Pairing /\ [PermitNext]_permitJoinVars => Pairing'
<1> SUFFICES ASSUME PermitTypeOK, Refreshing, Pairing, [PermitNext]_permitJoinVars
             PROVE  Pairing'
  OBVIOUS
<1> USE DEF windowVars, permitVars, handlerVars, boundVars, permitHistory
<1>u. Underway <=> handler \in {"command", "refresh"} /\ request.age # None
  BY DEF Underway, Awaiting
<1>v. Underway' <=> handler' \in {"command", "refresh"} /\ request'.age # None
  BY DEF Underway, Awaiting
\* A step that leaves the loop and what is under way alone.
<1>s. ASSUME UNCHANGED <<window, queue, answers, handler, request, doubt>> PROVE Pairing'
  BY <1>s DEF Pairing, AwaitedOnly, Has, Underway, Awaiting
\* One that leaves nothing awaited.
<1>e. ASSUME handler' \in {"idle", "other"},
             doubt' = "none" => queue' = <<>> /\ answers' = <<>>,
             doubt' = "late" => queue' \in Seq({Max})
      PROVE  Pairing'
  BY <1>e, <1>v DEF Pairing
<1>q. /\ queue # <<>> => Len(Tail(queue)) \in Nat
      /\ queue \in Seq({Max}) /\ queue # <<>> => Tail(queue) \in Seq({Max}) /\ Head(queue) = Max
      /\ <<>> \in Seq({Max}) /\ <<Max>> \in Seq({Max})
  BY Shapes, Taken
<1>1. CASE Tick
  <2>0. UNCHANGED <<queue, answers, handler, doubt>> /\ window' = Later(window)
    BY <1>1 DEF Tick
  <2>1. CASE Underway
    <3>1. request' = [request EXCEPT !.age = @ + 1] /\ request.age \in Nat
      BY <1>1, <1>u, <2>1, Shapes DEF Tick
    <3>2. /\ request'.age = request.age + 1 /\ request'.duration = request.duration
          /\ request'.alone = request.alone
      BY <3>1, Shapes
    <3>3. Has(request.duration, request.age) => Has(request.duration, request.age)'
      <4>1. CASE request.duration = Forever
        BY <2>0, <3>2, <4>1, LaterTypes DEF Has
      <4>2. CASE request.duration # Forever
        <5>1. request.duration \in Nat
          BY <4>2, Shapes
        <5>2. window \in Nat => window' \in Nat /\ window' <= window /\ window' + 1 >= window
          BY <2>0, LaterTypes
        <5> QED
          BY <3>1, <3>2, <4>2, <5>1, <5>2 DEF Has
      <4> QED
        BY <4>1, <4>2
    <3>4. Underway'
      BY <1>v, <1>u, <2>0, <2>1, <3>1, <3>2, Constants
    <3> QED
      BY <2>0, <2>1, <3>2, <3>3, <3>4 DEF Pairing, AwaitedOnly
  <2>2. CASE ~Underway
    BY <1>1, <1>u, <1>v, <2>0, <2>2 DEF Tick, Pairing
  <2> QED
    BY <2>1, <2>2
\* The adapter and the line take the first of the queue, or of the answers.
<1>t. ASSUME queue # <<>>, queue' = Tail(queue), UNCHANGED <<handler, request, doubt>>,
             \/ window' = Head(queue) /\ answers' = Append(answers, "ok")
             \/ window' = window /\ answers' = Append(answers, "refused")
             \/ window' = window /\ answers' = answers
      PROVE  Pairing'
  <2>0. Underway' = Underway /\ request' = request
    BY <1>t DEF Underway, Awaiting
  <2>1. ASSUME Underway, request.alone PROVE AwaitedOnly'
    <3>1. answers = <<>> /\ queue = <<request.duration>>
      BY <1>t, <2>1 DEF Pairing, AwaitedOnly
    <3>2. queue' = <<>> /\ Head(queue) = request.duration
      BY <1>t, <3>1, OneInQueue
    <3>3. request.age \in Nat
      BY <1>u, <2>1, Shapes
    <3>4. window' = request.duration => Has(request.duration, request.age)'
      BY <2>0, <3>3, Shapes, Constants DEF Has
    <3> QED
      BY <1>t, <2>0, <3>1, <3>2, <3>4, OneInQueue DEF AwaitedOnly
  <2>2. doubt = "none" => Underway /\ request.alone
    BY <1>t DEF Pairing
  <2>3. doubt = "late" /\ ~(handler = "command" /\ Underway) => queue' \in Seq({Max})
    BY <1>t, <1>q DEF Pairing
  <2> QED
    BY <1>t, <2>0, <2>1, <2>2, <2>3 DEF Pairing
<1>2. CASE AdapterTakes
  BY <1>2, <1>t DEF AdapterTakes
<1>3. CASE AdapterRefuses
  BY <1>3, <1>t DEF AdapterRefuses
<1>d. ASSUME answers # <<>>, answers' = Tail(answers),
             UNCHANGED <<window, queue, handler, request, doubt>>
      PROVE  Pairing'
  <2>0. Underway' = Underway
    BY <1>d DEF Underway, Awaiting
  <2>1. ASSUME Underway, request.alone PROVE AwaitedOnly'
    BY <1>d, <2>1, OneInQueue DEF Pairing, AwaitedOnly
  <2>2. doubt = "none" => Underway
    BY <1>d DEF Pairing
  <2> QED
    BY <1>d, <2>0, <2>1, <2>2 DEF Pairing
<1>4. CASE LostOnTheWay
  BY <1>4, <1>t, <1>d DEF LostOnTheWay
<1>12. CASE AnswerIgnored
  BY <1>12, <1>d DEF AnswerIgnored
<1>a. ASSUME NEW d, Asks(d), UNCHANGED <<window, queue, answers, doubt>>, handler = "idle"
      PROVE  Pairing'
  <2>1. request'.age = None
    BY <1>a DEF Asks, NoRequest
  <2> QED
    BY <1>a, <1>u, <1>v, <2>1 DEF Pairing
<1>5. ASSUME NEW d \in Asked, PermitCommand(d) PROVE Pairing'
  BY <1>5, <1>a DEF PermitCommand, Starts
<1>8. CASE Housekeeping
  BY <1>8, <1>a, <1>s DEF Housekeeping
<1>11. CASE Send
  <2>1. /\ queue' = Append(queue, request.duration)
        /\ request'.age = 0 /\ request'.duration = request.duration
        /\ request'.alone = (queue = <<>> /\ answers = <<>>)
        /\ UNCHANGED <<window, answers, handler, doubt>> /\ ~Underway
    BY <1>11, <1>u, Shapes DEF Send
  <2>2. request'.alone => AwaitedOnly'
    BY <2>1, OneInQueue DEF AwaitedOnly
  <2>3. ASSUME doubt = "late", handler # "command" PROVE queue' \in Seq({Max})
    <3>1. request.duration = Max
      BY <1>11, <2>3 DEF Send, Refreshing, Awaiting
    <3> QED
      BY <2>1, <2>3, <3>1 DEF Pairing
  <2>4. Underway'
    BY <1>11, <1>v, <2>1, Constants DEF Send, Awaiting
  <2> QED
    BY <2>1, <2>2, <2>3, <2>4 DEF Pairing
<1>6. CASE CommandAccepted
  <2>1. Accepted /\ doubt' = InDoubt /\ queue' = queue /\ handler' = "idle"
    BY <1>6 DEF CommandAccepted, Ends
  <2>2. InDoubt \in {"none", "other"}
    BY DEF InDoubt
  <2> QED
    BY <1>e, <2>1, <2>2, AcceptedAlone
<1>9. CASE RefreshAccepted
  <2>1. Accepted /\ doubt' = InDoubt /\ queue' = queue /\ handler' = "idle"
    BY <1>9 DEF RefreshAccepted, Ends
  <2>2. InDoubt \in {"none", "other"}
    BY DEF InDoubt
  <2> QED
    BY <1>e, <2>1, <2>2, AcceptedAlone
<1>7. CASE CommandFails
  BY <1>7, <1>e DEF CommandFails, Ends
<1>10. CASE RefreshFails
  <2>1. /\ handler = "refresh" /\ handler' = "idle" /\ queue' = queue /\ Underway
        /\ doubt' = IF doubt = "other" THEN doubt ELSE "late"
    BY <1>10 DEF RefreshFails, Ends, RequestFails
  <2>2. ASSUME doubt # "other" PROVE queue \in Seq({Max})
    <3>1. CASE doubt = "none"
      BY <1>q, <2>1, <3>1 DEF Pairing, AwaitedOnly, Refreshing
    <3>2. CASE doubt = "late"
      BY <2>1, <3>2 DEF Pairing
    <3> QED
      BY <2>2, <3>1, <3>2 DEF PermitTypeOK
  <2> QED
    BY <1>e, <2>1, <2>2
<1>13. CASE OtherStarts
  <2>1. handler = "idle" /\ handler' = "other" /\ UNCHANGED <<queue, answers, doubt>>
    BY <1>13 DEF OtherStarts, Starts
  <2> QED
    BY <1>e, <1>u, <2>1 DEF Pairing
<1>14. CASE OtherEnds
  <2>1. handler = "other" /\ handler' = "idle" /\ UNCHANGED <<queue, answers, doubt>>
    BY <1>14 DEF OtherEnds, Ends
  <2> QED
    BY <1>e, <1>u, <2>1 DEF Pairing
<1>15. CASE Republish
  BY <1>15, <1>s DEF Republish
<1>16. CASE Restart
  <2>1. handler' = "idle" /\ queue' = <<>> /\ answers' = <<>>
    BY <1>16 DEF Restart
  <2> QED
    BY <1>e, <1>q, <2>1
<1>17. CASE UNCHANGED permitJoinVars
  BY <1>17, <1>s DEF permitJoinVars
<1> QED
  BY <1>1, <1>2, <1>3, <1>4, <1>5, <1>6, <1>7, <1>8, <1>9, <1>10, <1>11, <1>12, <1>13,
     <1>14, <1>15, <1>16, <1>17 DEF PermitNext, AdapterNext, PermitHandlers

\* One tick less on both sides.
LEMMA OneLater ==
  ASSUME NEW w \in Nat, NEW wLater \in Nat, NEW t \in Nat, NEW u \in Nat, NEW uLater \in Nat,
         wLater + 1 >= w, uLater = IF u = 0 THEN 0 ELSE u - 1, w + t >= u
  PROVE  wLater + t >= uLater
OBVIOUS

LEMMA KeptStep ==
  PermitTypeOK /\ Refreshing /\ Pairing /\ StillOpen /\ [PermitNext]_permitJoinVars => StillOpen'
<1> SUFFICES ASSUME PermitTypeOK, Refreshing, Pairing, StillOpen, [PermitNext]_permitJoinVars,
                    Sure', window' # Forever
             PROVE  /\ window' + lag' + Timeout > Margin
                    /\ until' # None => window' + Timeout >= until'
  BY DEF StillOpen
<1> USE Constants DEF windowVars, permitVars, handlerVars, boundVars, permitHistory
<1>0. /\ window \in Nat \union {Forever} /\ until \in Nat \union {None}
      /\ lag \in Nat /\ elapsed \in Nat
  BY Shapes
<1>u. Underway <=> handler \in {"command", "refresh"} /\ request.age # None
  BY DEF Underway, Awaiting
<1>v. Underway' <=> handler' \in {"command", "refresh"} /\ request'.age # None
  BY DEF Underway, Awaiting
<1>w. /\ keepEnabled' /\ doubt' # "other" /\ Longer(last')
      /\ ~(handler' = "command" /\ Underway')
  BY DEF Sure, Longer
\* A step that leaves the window alone.
<1>s. ASSUME Sure, UNCHANGED <<window, lag>>, until' \in {until, None} PROVE StillOpen'
  BY <1>s, <1>0 DEF StillOpen
\* An answer in time to a request for d.
<1>o. ASSUME NEW d \in Durations, Longer(d), Has(d, request.age), request.age \in 0..Timeout,
             UNCHANGED window
      PROVE  d # Forever /\ d \in Nat /\ window \in Nat /\ window + Timeout >= d
             /\ window + request.age >= d
  BY <1>o DEF Has, Durations
<1>1. CASE Tick
  <2>1. /\ window' = Later(window) /\ until' = Later(until)
        /\ lag' = IF keepEnabled /\ lag <= Margin THEN lag + 1 ELSE lag
        /\ UNCHANGED <<handler, keepEnabled, doubt, last>>
    BY <1>1 DEF Tick
  <2>2. Underway => Underway'
    BY <1>1, <1>u, <1>v, Shapes DEF Tick
  <2>3. Sure /\ keepEnabled
    BY <1>w, <2>1, <2>2 DEF Sure
  <2>4. window \in Nat /\ window' \in Nat /\ window' + 1 >= window /\ (window = 0 => window' = 0)
    BY <1>0, <2>1, LaterTypes
  <2>5. until' # None => /\ until \in Nat /\ until' \in Nat
                         /\ until' = IF until = 0 THEN 0 ELSE until - 1
    BY <1>0, <2>1, LaterTypes
  <2>6. /\ window + lag + Timeout > Margin
        /\ until # None => window + Timeout >= until
    BY <2>3, <2>4 DEF StillOpen
  <2>7. window' + lag' + Timeout > Margin
    BY <1>0, <2>1, <2>3, <2>4, <2>6
  <2>8. ASSUME until' # None PROVE window' + Timeout >= until'
    <3>1. /\ until \in Nat /\ until' \in Nat
          /\ until' = IF until = 0 THEN 0 ELSE until - 1
      BY <2>5, <2>8
    <3>2. window + Timeout >= until
      BY <2>6, <3>1
    <3>3. PICK w \in Nat : w = window'
      BY <2>4
    <3>4. PICK u \in Nat : u = until'
      BY <3>1
    <3>5. window \in Nat /\ w + 1 >= window
      BY <2>4, <3>3
    <3>6. u = IF until = 0 THEN 0 ELSE until - 1
      BY <3>1, <3>4
    <3>7. w + Timeout >= u
      BY <3>1, <3>2, <3>5, <3>6, OneLater
    <3> QED
      BY <3>3, <3>4, <3>7
  <2> QED
    BY <2>7, <2>8
<1>2. CASE AdapterTakes
  <2>1. UNCHANGED <<until, handler, request, keepEnabled, doubt, last, lag>>
        /\ queue # <<>> /\ window' = Head(queue)
    BY <1>2 DEF AdapterTakes
  <2>2. Sure /\ (Underway <=> Underway')
    BY <1>u, <1>v, <1>w, <2>1 DEF Sure
  <2>3. window' = Max
    <3>1. CASE doubt = "none"
      <4>1. Underway /\ handler = "refresh"
        BY <1>u, <2>1, <2>2, <3>1 DEF Pairing, Sure
      <4>2. queue = <<Max>>
        BY <2>1, <3>1, <4>1 DEF Pairing, AwaitedOnly, Refreshing
      <4> QED
        BY <2>1, <4>2, OneInQueue
    <3>2. CASE doubt = "late"
      <4>1. queue \in Seq({Max})
        BY <2>2, <3>2 DEF Pairing, Sure
      <4> QED
        BY <2>1, <4>1, Taken
    <3> QED
      BY <2>2, <3>1, <3>2, Shapes DEF Sure, PermitTypeOK
  <2>4. until # None => until <= Max + 1
    BY Shapes
  <2> QED
    BY <1>0, <2>1, <2>3, <2>4
<1>3. CASE AdapterRefuses
  BY <1>3, <1>s, <1>u, <1>v, <1>w DEF AdapterRefuses, Sure, StillOpen
<1>4. CASE LostOnTheWay
  BY <1>4, <1>s, <1>u, <1>v, <1>w DEF LostOnTheWay, Sure, StillOpen
<1>5. ASSUME NEW d \in Asked, PermitCommand(d) PROVE StillOpen'
  <2>1. Sure
    BY <1>5, <1>u, <1>w DEF PermitCommand, Starts, Sure
  <2> QED
    BY <1>5, <1>s, <2>1 DEF PermitCommand
<1>6. CASE CommandAccepted
  <2>1. /\ Accepted /\ InDoubt = "none" /\ last' = request.duration
        /\ until' = OnSent(request.duration) /\ UNCHANGED window
        /\ lag' = IF Longer(request.duration) THEN 0 ELSE lag
    BY <1>6, <1>w DEF CommandAccepted, CommandTakes, InDoubt
  <2>2. Longer(request.duration) /\ request.duration \in Durations
    BY <1>w, <2>1, Shapes
  <2>3. Has(request.duration, request.age) /\ request.age \in 0..Timeout
    BY <2>1, AcceptedAlone
  <2>4. request.duration \in Nat /\ window + Timeout >= request.duration /\ window \in Nat
        /\ request.duration # Forever
    BY <1>o, <2>1, <2>2, <2>3
  <2>5. request.duration > Margin /\ until' = request.duration
    BY <2>1, <2>2, <2>4, OnSentTypes DEF Longer
  <2> QED
    BY <2>1, <2>2, <2>4, <2>5
<1>7. CASE CommandFails
  BY <1>7, <1>w DEF CommandFails
<1>8. CASE Housekeeping
  <2>1. UNCHANGED <<window, keepEnabled, doubt, last>> /\ handler = "idle"
    BY <1>8 DEF Housekeeping
  <2>2. Sure
    BY <1>u, <1>w, <2>1 DEF Sure
  <2>3. CASE NeedsRefresh
    BY <1>8, <1>s, <2>2, <2>3 DEF Housekeeping, StillOpen
  <2>4. CASE ~NeedsRefresh
    <3>1. until \in Nat /\ until > Margin /\ lag' = 0
      BY <1>0, <1>8, <1>w, <2>1, <2>4 DEF NeedsRefresh, Housekeeping
    <3>2. until' = until
      BY <1>8, <2>4, <3>1 DEF Housekeeping, TakeExpired
    <3>3. window \in Nat /\ window + Timeout >= until
      BY <1>0, <2>1, <2>2, <3>1 DEF StillOpen
    <3> QED
      BY <2>1, <3>1, <3>2, <3>3
  <2> QED
    BY <2>3, <2>4
<1>9. CASE RefreshAccepted
  <2>1. /\ Accepted /\ InDoubt = "none" /\ UNCHANGED window
        /\ until' = Max - elapsed
        /\ lag' = IF elapsed > Margin THEN Margin + 1 ELSE elapsed
        /\ handler = "refresh" /\ Underway
    BY <1>9, <1>w DEF RefreshAccepted, InDoubt, Accepted
  <2>2. request.duration = Max /\ request.age <= elapsed /\ Longer(Max) /\ Max \in Durations
    BY <2>1 DEF Refreshing, Longer, Durations
  <2>3. Has(Max, request.age) /\ request.age \in 0..Timeout
    BY <2>1, <2>2, AcceptedAlone
  <2>4. window \in Nat /\ window + Timeout >= Max /\ window + request.age >= Max
    BY <1>o, <2>1, <2>2, <2>3
  <2> QED
    BY <1>0, <2>1, <2>2, <2>3, <2>4
<1>10. CASE RefreshFails
  <2>1. /\ UNCHANGED <<window, keepEnabled, last, lag>> /\ handler = "refresh"
        /\ doubt # "other" /\ TakeExpired(request.before)
    BY <1>10, <1>w DEF RefreshFails
  <2>2. Sure
    BY <1>w, <2>1 DEF Sure
  <2> QED
    BY <1>s, <2>1, <2>2 DEF TakeExpired, StillOpen
<1>11. CASE Send
  <2>1. UNCHANGED <<window, until, handler, keepEnabled, doubt, last, lag>> /\ ~Underway
    BY <1>11, <1>u DEF Send
  <2>2. Sure
    BY <1>w, <2>1 DEF Sure
  <2> QED
    BY <1>s, <2>1, <2>2 DEF StillOpen
<1>12. CASE AnswerIgnored
  BY <1>12, <1>s, <1>u, <1>v, <1>w DEF AnswerIgnored, Sure, StillOpen
<1>13. CASE OtherStarts
  BY <1>13, <1>s, <1>u, <1>w DEF OtherStarts, Starts, Sure, StillOpen
<1>14. CASE OtherEnds
  BY <1>14, <1>s, <1>u, <1>w DEF OtherEnds, Sure, StillOpen
<1>15. CASE Republish
  BY <1>15, <1>s, <1>u, <1>v, <1>w DEF Republish, Sure, StillOpen
<1>16. CASE Restart
  <2>1. PICK s \in Startup : /\ window' = s.window /\ until' = s.until
                             /\ keepEnabled' = s.open /\ doubt' = s.doubt
    BY <1>16 DEF Restart
  <2>2. s.open /\ s.doubt = "none" /\ lag' = 0
    BY <1>16, <1>w, <2>1, StartupTypes DEF Restart
  <2> QED
    BY <2>1, <2>2, StartupTypes
<1>17. CASE UNCHANGED permitJoinVars
  BY <1>17, <1>s, <1>u, <1>v, <1>w DEF permitJoinVars, Sure, StillOpen
<1> QED
  BY <1>1, <1>2, <1>3, <1>4, <1>5, <1>6, <1>7, <1>8, <1>9, <1>10, <1>11, <1>12, <1>13,
     <1>14, <1>15, <1>16, <1>17 DEF PermitNext, AdapterNext, PermitHandlers, StillOpen

LEMMA InTimeStep ==
  PermitTypeOK /\ Refreshing /\ InTime /\ [PermitNext]_permitJoinVars => InTime'
<1> SUFFICES ASSUME PermitTypeOK, Refreshing, InTime, [PermitNext]_permitJoinVars,
                    keepEnabled', doubt' = "none", Longer(last')
             PROVE  until' # None /\ (lag' <= Margin => until' + lag' > Margin)
  BY DEF InTime, Longer
<1> USE Constants DEF windowVars, permitVars, handlerVars, boundVars, permitHistory
<1>0. until \in Nat \union {None} /\ lag \in Nat /\ elapsed \in 0..Max
  BY Shapes
<1>s. ASSUME UNCHANGED <<until, keepEnabled, doubt, last, lag>> PROVE InTime'
  BY <1>s DEF InTime, Longer
<1>1. CASE Tick
  <2>1. /\ until' = Later(until) /\ UNCHANGED <<keepEnabled, doubt, last>>
        /\ lag' = IF keepEnabled /\ lag <= Margin THEN lag + 1 ELSE lag
    BY <1>1 DEF Tick
  <2>2. until \in Nat /\ (lag <= Margin => until + lag > Margin)
    BY <1>0, <2>1 DEF InTime
  <2> QED
    BY <1>0, <2>1, <2>2, LaterTypes
<1>2. CASE AdapterTakes
  BY <1>2, <1>s DEF AdapterTakes, InTime
<1>3. CASE AdapterRefuses
  BY <1>3, <1>s DEF AdapterRefuses, InTime
<1>4. CASE LostOnTheWay
  BY <1>4, <1>s DEF LostOnTheWay, InTime
<1>5. ASSUME NEW d \in Asked, PermitCommand(d) PROVE InTime'
  BY <1>5, <1>s DEF PermitCommand
<1>6. CASE CommandAccepted
  <2>1. /\ last' = request.duration /\ until' = OnSent(request.duration)
        /\ lag' = IF Longer(request.duration) THEN 0 ELSE lag
    BY <1>6 DEF CommandAccepted, CommandTakes
  <2>2. Longer(request.duration) /\ request.duration \in Durations
    BY <2>1, Shapes
  <2>3. CASE request.duration = Forever
    BY <2>1, <2>2, <2>3, OnSentTypes
  <2>4. CASE request.duration # Forever
    <3>1. request.duration \in Nat /\ request.duration > Margin
      BY <2>2, <2>4 DEF Longer, Durations
    <3> QED
      BY <2>1, <2>2, <3>1, OnSentTypes
  <2> QED
    BY <2>3, <2>4
<1>7. CASE CommandFails
  BY <1>7 DEF CommandFails
<1>8. CASE Housekeeping
  <2>1. CASE NeedsRefresh
    BY <1>8, <1>s, <2>1 DEF Housekeeping, InTime
  <2>2. CASE ~NeedsRefresh
    <3>1. until \in Nat /\ until > Margin /\ lag' = 0
      BY <1>0, <1>8, <2>2 DEF NeedsRefresh, Housekeeping
    <3> QED
      BY <1>8, <2>2, <3>1 DEF Housekeeping, TakeExpired
  <2> QED
    BY <2>1, <2>2
<1>9. CASE RefreshAccepted
  <2>1. /\ until' = Max - elapsed
        /\ lag' = IF elapsed > Margin THEN Margin + 1 ELSE elapsed
    BY <1>9 DEF RefreshAccepted
  <2> QED
    BY <1>0, <2>1
<1>10. CASE RefreshFails
  BY <1>10 DEF RefreshFails
<1>11. CASE Send
  BY <1>11, <1>s DEF Send, InTime
<1>12. CASE AnswerIgnored
  BY <1>12, <1>s DEF AnswerIgnored, InTime
<1>13. CASE OtherStarts
  BY <1>13, <1>s DEF OtherStarts, InTime
<1>14. CASE OtherEnds
  BY <1>14, <1>s DEF OtherEnds, InTime
<1>15. CASE Republish
  BY <1>15, <1>s DEF Republish, InTime
<1>16. CASE Restart
  <2>1. PICK s \in Startup : until' = s.until /\ keepEnabled' = s.open
    BY <1>16 DEF Restart
  <2>2. until' = Max /\ lag' = 0
    BY <1>16, <2>1, StartupTypes DEF Restart
  <2> QED
    BY <2>2
<1>17. CASE UNCHANGED permitJoinVars
  BY <1>17, <1>s DEF permitJoinVars, InTime
<1> QED
  BY <1>1, <1>2, <1>3, <1>4, <1>5, <1>6, <1>7, <1>8, <1>9, <1>10, <1>11, <1>12, <1>13,
     <1>14, <1>15, <1>16, <1>17 DEF PermitNext, AdapterNext, PermitHandlers, InTime

LEMMA InStepStep ==
  PermitTypeOK /\ Pairing /\ Refreshing /\ InStep /\ [PermitNext]_permitJoinVars => InStep'
<1> SUFFICES ASSUME PermitTypeOK, Pairing, Refreshing, InStep, [PermitNext]_permitJoinVars,
                    doubt' = "none", ~Underway'
             PROVE  InStep'
  BY DEF InStep
<1> USE Constants DEF windowVars, permitVars, handlerVars, boundVars, permitHistory
<1>0. /\ window \in Nat \union {Forever} /\ until \in Nat \union {None}
      /\ elapsed \in 0..Max /\ last \in Nat \union {Forever}
  BY Shapes
<1>u. Underway <=> handler \in {"command", "refresh"} /\ request.age # None
  BY DEF Underway, Awaiting
<1>v. Underway' <=> handler' \in {"command", "refresh"} /\ request'.age # None
  BY DEF Underway, Awaiting
\* A step that leaves the window alone.
<1>s. ASSUME ~Underway, UNCHANGED <<window, until, keepEnabled, doubt, last>> PROVE InStep'
  BY <1>s DEF InStep, Longer
<1>1. CASE Tick
  <2>1. /\ window' = Later(window) /\ until' = Later(until)
        /\ UNCHANGED <<handler, keepEnabled, doubt, last>>
    BY <1>1 DEF Tick
  <2>2. ~Underway
    BY <1>1, <1>u, <1>v, <2>1, Shapes DEF Tick
  <2>3. CASE last = Forever
    BY <2>1, <2>2, <2>3, LaterTypes DEF InStep
  <2>4. CASE last # Forever
    <3>1. /\ window \in Nat /\ (until = None => window = 0)
          /\ until # None => window <= until \/ (keepEnabled /\ Longer(last))
      BY <2>1, <2>2, <2>4 DEF InStep
    <3>2. /\ window' \in Nat /\ window' = (IF window = 0 THEN 0 ELSE window - 1)
          /\ until = None => until' = None
          /\ until # None => /\ until \in Nat /\ until' \in Nat
                             /\ until' = IF until = 0 THEN 0 ELSE until - 1
      BY <1>0, <2>1, <3>1, LaterTypes
    <3>3. until' = None => window' = 0
      BY <3>1, <3>2
    <3>4. until' # None => window' <= until' \/ (keepEnabled /\ Longer(last))
      BY <3>1, <3>2
    <3> QED
      BY <2>1, <2>4, <3>2, <3>3, <3>4 DEF InStep, Longer
  <2> QED
    BY <2>3, <2>4
<1>2. CASE AdapterTakes
  BY <1>2, <1>u, <1>v DEF AdapterTakes, Pairing
<1>3. CASE AdapterRefuses
  BY <1>3, <1>s, <1>u, <1>v DEF AdapterRefuses
<1>4. CASE LostOnTheWay
  BY <1>4, <1>s, <1>u, <1>v DEF LostOnTheWay
<1>5. ASSUME NEW d \in Asked, PermitCommand(d) PROVE InStep'
  BY <1>5, <1>s, <1>u DEF PermitCommand, Starts
<1>6. CASE CommandAccepted
  <2>1. /\ Accepted /\ InDoubt = "none" /\ last' = request.duration
        /\ until' = OnSent(request.duration) /\ UNCHANGED window
    BY <1>6 DEF CommandAccepted, CommandTakes
  <2>2. /\ Has(request.duration, request.age) /\ request.age \in Nat
        /\ request.duration \in Durations /\ request.duration \in Nat \union {Forever}
    BY <2>1, AcceptedAlone, Shapes
  <2>3. CASE request.duration = Forever
    BY <2>1, <2>2, <2>3 DEF InStep, Has
  <2>4. CASE request.duration # Forever
    <3>1. window \in Nat /\ request.duration \in Nat /\ window <= request.duration
      BY <2>2, <2>4 DEF Has
    <3>2. IF request.duration = 0 THEN until' = None ELSE until' = request.duration
      BY <2>1, <2>2, <3>1, OnSentTypes
    <3> QED
      BY <2>1, <2>4, <3>1, <3>2 DEF InStep
  <2> QED
    BY <2>3, <2>4
<1>7. CASE CommandFails
  BY <1>7 DEF CommandFails
<1>8. CASE Housekeeping
  <2>1. UNCHANGED <<window, keepEnabled, doubt, last>> /\ handler = "idle"
    BY <1>8 DEF Housekeeping
  <2>2. CASE NeedsRefresh \/ until # 0
    <3>1. until' = until
      BY <1>8, <2>2 DEF Housekeeping, TakeExpired
    <3> QED
      BY <1>s, <1>u, <2>1, <3>1
  <2>3. CASE ~NeedsRefresh /\ until = 0
    <3>1. ~keepEnabled /\ until' = None
      BY <1>8, <2>3 DEF NeedsRefresh, Housekeeping, TakeExpired
    <3>2. last # Forever => window \in Nat /\ window <= 0
      BY <1>u, <2>1, <2>3, <3>1 DEF InStep
    <3> QED
      BY <1>u, <2>1, <3>1, <3>2 DEF InStep
  <2> QED
    BY <2>2, <2>3
<1>9. CASE RefreshAccepted
  <2>1. /\ Accepted /\ InDoubt = "none" /\ UNCHANGED <<window, keepEnabled>> /\ last' = Max
        /\ until' = Max - elapsed /\ handler = "refresh"
    BY <1>9 DEF RefreshAccepted
  <2>2. request.duration = Max /\ keepEnabled
    BY <2>1 DEF Refreshing
  <2>3. window \in Nat
    BY <2>1, <2>2, AcceptedAlone DEF Has
  <2>4. until' # None /\ Longer(last')
    BY <1>0, <2>1 DEF Longer
  <2> QED
    BY <2>1, <2>2, <2>3, <2>4 DEF InStep, Longer
<1>10. CASE RefreshFails
  BY <1>10 DEF RefreshFails
<1>11. CASE Send
  BY <1>11, <1>v, Shapes DEF Send, Awaiting
<1>12. CASE AnswerIgnored
  BY <1>12, <1>s DEF AnswerIgnored
<1>13. CASE OtherStarts
  BY <1>13, <1>s, <1>u DEF OtherStarts, Starts
<1>14. CASE OtherEnds
  BY <1>14, <1>s, <1>u DEF OtherEnds
<1>15. CASE Republish
  BY <1>15, <1>s, <1>u DEF Republish
<1>16. CASE Restart
  <2>1. PICK s \in Startup : /\ window' = s.window /\ until' = s.until
                             /\ last' = s.last /\ doubt' = s.doubt
    BY <1>16 DEF Restart
  <2>2. s.open \in BOOLEAN /\ window' \in Nat /\ last' \in Nat
        /\ (until' = None => window' = 0) /\ (until' # None => until' = Max)
    BY <2>1, StartupTypes
  <2>3. window' \in Durations
    BY <2>1, StartupTypes
  <2> QED
    BY <2>2, <2>3 DEF InStep, Durations
<1>17. CASE UNCHANGED permitJoinVars
  BY <1>17, <1>s, <1>u, <1>v DEF permitJoinVars
<1> QED
  BY <1>1, <1>2, <1>3, <1>4, <1>5, <1>6, <1>7, <1>8, <1>9, <1>10, <1>11, <1>12, <1>13,
     <1>14, <1>15, <1>16, <1>17 DEF PermitNext, AdapterNext, PermitHandlers

LEMMA ShowingStep ==
  PermitTypeOK /\ Showing /\ [PermitNext]_permitJoinVars => Showing'
<1> SUFFICES ASSUME PermitTypeOK, Showing, [PermitNext]_permitJoinVars PROVE Showing'
  OBVIOUS
<1> USE Constants, Shapes DEF Showing, Awaiting, Enabled,
        windowVars, permitVars, handlerVars, boundVars, permitHistory
<1>1. CASE Tick
  <2>1. until' = Later(until) /\ UNCHANGED <<shown, handler>>
    BY <1>1 DEF Tick
  <2>2. request'.before = request.before
    BY <1>1 DEF Tick
  <2> QED
    BY <2>1, <2>2, LaterTypes
<1>2. CASE AdapterTakes
  BY <1>2 DEF AdapterTakes
<1>3. CASE AdapterRefuses
  BY <1>3 DEF AdapterRefuses
<1>4. CASE LostOnTheWay
  BY <1>4 DEF LostOnTheWay
<1>5. ASSUME NEW d \in Asked, PermitCommand(d) PROVE Showing'
  BY <1>5 DEF PermitCommand, Starts, Asks, NoRequest
<1>6. CASE CommandAccepted
  BY <1>6 DEF CommandAccepted, CommandTakes, Ends
<1>7. CASE CommandFails
  BY <1>7 DEF CommandFails, Ends
<1>8. CASE Housekeeping
  <2>1. CASE NeedsRefresh
    BY <1>8, <2>1 DEF Housekeeping, Asks, NoRequest
  <2>2. CASE ~NeedsRefresh
    BY <1>8, <2>2 DEF Housekeeping, TakeExpired
  <2> QED
    BY <2>1, <2>2
<1>9. CASE RefreshAccepted
  <2>1. until' = Max - elapsed /\ handler' = "idle"
    BY <1>9 DEF RefreshAccepted, Ends
  <2>2. until' \in Int
    BY <2>1
  <2>3. shown' = (shown \/ ~Enabled(request.before)) /\ handler = "refresh"
    BY <1>9 DEF RefreshAccepted
  <2>4. shown'
    BY <2>3
  <2> QED
    BY <2>1, <2>2, <2>4
<1>10. CASE RefreshFails
  BY <1>10 DEF RefreshFails, TakeExpired, Ends
<1>11. CASE Send
  <2>1. request'.before = request.before
    BY <1>11 DEF Send
  <2> QED
    BY <1>11, <2>1 DEF Send
<1>12. CASE AnswerIgnored
  BY <1>12 DEF AnswerIgnored
<1>13. CASE OtherStarts
  BY <1>13 DEF OtherStarts, Starts
<1>14. CASE OtherEnds
  BY <1>14 DEF OtherEnds, Ends
<1>15. CASE Republish
  BY <1>15 DEF Republish
<1>16. CASE Restart
  <2>1. PICK s \in Startup : until' = s.until /\ shown' = s.open
    BY <1>16 DEF Restart
  <2> QED
    BY <1>16, <2>1, StartupTypes DEF Restart
<1>17. CASE UNCHANGED permitJoinVars
  BY <1>17 DEF permitJoinVars
<1> QED
  BY <1>1, <1>2, <1>3, <1>4, <1>5, <1>6, <1>7, <1>8, <1>9, <1>10, <1>11, <1>12, <1>13,
     <1>14, <1>15, <1>16, <1>17 DEF PermitNext, AdapterNext, PermitHandlers

LEMMA InvariantInit == PermitInit => IInv
<1> SUFFICES ASSUME PermitInit PROVE IInv
  OBVIOUS
<1>1. PermitTypeOK
  BY TypesInit
<1> PICK s \in Startup : /\ window = s.window /\ until = s.until
                         /\ keepEnabled = s.open /\ shown = s.open
                         /\ last = s.last /\ doubt = s.doubt
  BY DEF PermitInit
<1>2. /\ queue = <<>> /\ answers = <<>> /\ handler = "idle" /\ lag = 0
      /\ ~Awaiting /\ ~Underway
  BY DEF PermitInit, Awaiting, Underway
<1>3. window \in Nat \union {Forever} /\ (window # Forever => window <= Max)
  BY StartupTypes, Constants DEF Durations
<1>4. Pairing /\ Refreshing
  BY <1>2, StartupTypes, Constants DEF Pairing, Refreshing
<1>5. StillOpen
  <2> SUFFICES ASSUME s.open, s.doubt = "none" PROVE StillOpen
    BY StartupTypes DEF StillOpen, Sure
  <2>1. window \in Nat /\ window + Timeout >= Max /\ until = Max
    BY StartupTypes
  <2> QED
    BY <1>2, <2>1, Constants DEF StillOpen
<1>6. InTime /\ InStep
  BY <1>2, <1>3, StartupTypes, Constants DEF InTime, InStep
<1>7. Showing
  BY <1>2, StartupTypes, Constants DEF Showing, Enabled
<1> QED
  BY <1>1, <1>4, <1>5, <1>6, <1>7 DEF IInv

LEMMA InvariantStep == IInv /\ [PermitNext]_permitJoinVars => IInv'
BY TypesStep, PairingStep, RefreshingStep, KeptStep, InTimeStep, InStepStep, ShowingStep
DEF IInv

LEMMA InvariantHolds == PermitSpec => []IInv
BY InvariantInit, InvariantStep, PTL DEF PermitSpec

-----------------------------------------------------------------------------
\* Nobody joins unseen, for every duration, period, margin and timeout and every
\* order and length of handlers (bridge.rs 1176).
THEOREM OpenWindowIsShown == PermitSpec => []OpenIsShown
<1>1. IInv => OpenIsShown
  <2> SUFFICES ASSUME IInv PROVE OpenIsShown
    OBVIOUS
  <2>1. shown => until # None
    BY DEF IInv, Showing
  <2>2. ASSUME ~Underway, doubt = "none", last # Forever, ~HeldUp, window # 0 PROVE shown
    <3>1. /\ window \in Nat /\ until # None
          /\ window <= until \/ (keepEnabled /\ Longer(last))
      BY <2>2 DEF IInv, InStep
    <3>2. until \in Nat /\ lag \in Nat
      BY <3>1, Shapes DEF IInv
    <3>3. until > 0
      <4>1. CASE window <= until
        BY <2>2, <3>1, <3>2, <4>1
      <4>2. CASE keepEnabled /\ Longer(last)
        <5>1. lag <= Margin
          BY <2>2, <3>2, <4>2, Constants DEF HeldUp
        <5>2. until + lag > Margin
          BY <2>2, <4>2, <5>1 DEF IInv, InTime
        <5> QED
          BY <3>2, <5>1, <5>2, Constants
      <4> QED
        BY <3>1, <4>1, <4>2
    <3> QED
      BY <3>1, <3>3 DEF IInv, Showing, Enabled
  <2> QED
    BY <2>1, <2>2 DEF OpenIsShown
<1> QED
  BY <1>1, InvariantHolds, PTL

\* The configured window stays open for as long as housekeeping is not kept for
\* the margin, less the timeout, from finding it open for long enough or having
\* it renewed: nothing is assumed of how long handlers take, or of how many
\* refreshes time out (bridge.rs 46-50).
THEOREM ConfiguredWindowIsKept == PermitSpec => []KeptOpen
<1>1. IInv => KeptOpen
  <2> SUFFICES ASSUME IInv, keepEnabled, doubt # "other", Longer(last),
                      ~(handler = "command" /\ Underway), window = 0
               PROVE  lag + Timeout > Margin
    BY DEF KeptOpen
  <2>1. window + lag + Timeout > Margin
    BY Constants DEF IInv, StillOpen, Sure
  <2> QED
    BY <2>1, Shapes, Constants DEF IInv
<1> QED
  BY <1>1, InvariantHolds, PTL

\* What an explicit disable closed, the refresh does not open again (bridge.rs
\* 367-372).
THEOREM ClosedWindowStaysClosed == PermitSpec => StaysClosed
<1> DEFINE A == last = 0 /\ doubt = "none" /\ window = 0 /\ window' # 0
                  => handler = "command" \/ Restart
<1>1. IInv /\ [PermitNext]_permitJoinVars => [A]_permitJoinVars
  <2> SUFFICES ASSUME IInv, PermitNext, last = 0, doubt = "none", window = 0, window' # 0
               PROVE  handler = "command" \/ Restart
    OBVIOUS
  <2>1. CASE Tick
    BY <2>1, LaterTypes DEF Tick
  <2>2. CASE AdapterTakes
    BY <2>2 DEF AdapterTakes, IInv, Pairing, Refreshing, Underway, Awaiting
  <2>3. UNCHANGED window \/ Tick \/ AdapterTakes \/ Restart
    BY DEF PermitNext, AdapterNext, PermitHandlers, AdapterRefuses, LostOnTheWay,
       PermitCommand, CommandAccepted, CommandFails, Housekeeping, RefreshAccepted,
       RefreshFails, Send, AnswerIgnored, OtherStarts, OtherEnds, Republish, windowVars
  <2> QED
    BY <2>1, <2>2, <2>3
<1> QED
  BY <1>1, InvariantHolds, PTL DEF PermitSpec, StaysClosed

-----------------------------------------------------------------------------
(***************************************************************************)
(* The device's state.                                                     *)
(***************************************************************************)

\* Sequences and functions.

LEMMA Appended ==
  ASSUME NEW S, NEW s \in Seq(S), NEW e \in S
  PROVE  /\ Append(s, e) \in Seq(S) /\ Len(Append(s, e)) = Len(s) + 1
         /\ \A j \in 1..Len(s) : Append(s, e)[j] = s[j]
         /\ Append(s, e)[Len(s) + 1] = e
OBVIOUS

LEMMA HeadTaken ==
  ASSUME NEW S, NEW s \in Seq(S), s # <<>>
  PROVE  /\ Len(s) \in Nat /\ Len(s) >= 1 /\ Head(s) = s[1] /\ Head(s) \in S
         /\ Tail(s) \in Seq(S) /\ Len(Tail(s)) = Len(s) - 1
         /\ \A j \in 1..Len(Tail(s)) : Tail(s)[j] = s[j + 1]
OBVIOUS

LEMMA NoFrames ==
  ASSUME NEW S PROVE <<>> \in Seq(S)
OBVIOUS

LEMMA Single ==
  ASSUME NEW S, NEW e, NEW test, test => e \in S
  PROVE  (IF test THEN <<e>> ELSE <<>>) \in Seq(S)
OBVIOUS

LEMMA Joined ==
  ASSUME NEW S, NEW s \in Seq(S), NEW t \in Seq(S) PROVE s \o t \in Seq(S)
OBVIOUS

LEMMA Merged ==
  ASSUME NEW f, NEW g
  PROVE  /\ DOMAIN Merge(f, g) = DOMAIN f \union DOMAIN g
         /\ \A k \in DOMAIN f : Merge(f, g)[k] = f[k]
         /\ \A k \in DOMAIN g \ DOMAIN f : Merge(f, g)[k] = g[k]
BY DEF Merge

LEMMA Stripped ==
  ASSUME NEW s
  PROVE  LET t == StripTransientActionFields(s)
         IN /\ DOMAIN t = DOMAIN s \ ActionKeys
            /\ \A k \in DOMAIN t : t[k] = s[k]
BY DEF StripTransientActionFields

LEMMA EmptyState == DOMAIN Empty = {}
BY DEF Empty

-----------------------------------------------------------------------------
\* Types.

Modes == {"hs", "xy", "color_temp"}
Levels == 0..254

LampDevice == [state : {"ON", "OFF"}, brightness : Levels, color_mode : Modes]

LampCommand ==
  [cluster : {"on_off"}, type : {"command"}, value : {"ON", "OFF", "TOGGLE"}]
    \union [cluster : {"level"}, type : {"command"}, value : Levels]
    \union [cluster : {"color"}, type : {"command"}, value : Modes]

LampRequest ==
  [cluster : {"on_off"}, type : {"command"}, value : {"ON", "OFF", "TOGGLE"}]
    \union [cluster : {"level"}, type : {"command"}, value : Nat]
    \union [cluster : {"color"}, type : {"command"}, value : Modes]

LampReport ==
  [cluster : {"on_off"}, type : {"report"}, value : {"ON", "OFF"}]
    \union [cluster : {"level"}, type : {"report"}, value : Levels]
    \union [cluster : {"color"}, type : {"report"}, value : Modes]

SensorFrame ==
  [cluster : {"ias_zone"}, type : {"command"}, value : BOOLEAN]
    \union [cluster : {"ias_zone"}, type : {"read_rsp"}, value : {device.type}]

RemoteFrame == [cluster : {"buttons"}, type : {"command"}, value : Presses]

HeardKeys == {"linkquality", "last_seen"}
LampKeys == {"state", "brightness", "brightness_percent", "color_mode"} \union HeardKeys
AlarmKeys == {"contact", "occupancy", "smoke"}
SensorKeys == AlarmKeys \union HeardKeys

LampState(s) ==
  DOMAIN s \subseteq LampKeys /\ ("brightness" \in DOMAIN s => s["brightness"] \in Levels)

LampTypes ==
  /\ device \in LampDevice
  /\ up \in Seq(LampReport) /\ down \in Seq(LampCommand)
  /\ LampState(state) /\ DOMAIN published \ ActionKeys \subseteq LampKeys
  /\ zoneType = NoType /\ direction = "none"
  /\ set # NoSet =>
       /\ set = [requests |-> set.requests, optimistic |-> set.optimistic,
                 current |-> set.current]
       /\ set.requests \in Seq(LampRequest) /\ LampState(set.optimistic)

SensorTypes ==
  /\ device \in [type : ZoneType, alarm : BOOLEAN]
  /\ up \in Seq(SensorFrame) /\ down = <<>> /\ set = NoSet
  /\ DOMAIN state \subseteq SensorKeys /\ DOMAIN published \ ActionKeys \subseteq SensorKeys
  /\ zoneType \in {NoType, device.type} /\ direction = "none"

RemoteTypes ==
  /\ "held" \in DOMAIN device
  /\ up \in Seq(RemoteFrame) /\ down = <<>> /\ set = NoSet
  /\ DOMAIN state \subseteq HeardKeys /\ DOMAIN published \subseteq ActionKeys \union HeardKeys
  /\ zoneType = NoType

NoneTypes ==
  /\ up = <<>> /\ down = <<>> /\ set = NoSet
  /\ DOMAIN state = {} /\ DOMAIN published = {}
  /\ zoneType = NoType /\ direction = "none"

StateTypes ==
  /\ kind \in Kinds /\ interviewed \in BOOLEAN /\ astray \in BOOLEAN
  /\ sets \in 0..MaxSets /\ acts \in 0..MaxActs /\ losses \in 0..MaxLost
  /\ kind \in Lamps => LampTypes
  /\ kind = "sensor" => SensorTypes
  /\ kind = "remote" => RemoteTypes
  /\ kind = "none" => NoneTypes

-----------------------------------------------------------------------------
\* What the operators make of frames, commands and payloads.

LEMMA AlarmFields ==
  \A t : LET a == Alarm1(t) IN a.field \in AlarmKeys /\ a.on \in BOOLEAN
<1>1. \A t : Alarm1(t).field \in AlarmKeys
  BY Zenon DEF Alarm1, AlarmKeys
<1>2. \A t : Alarm1(t).on \in BOOLEAN
  BY Zenon DEF Alarm1
<1> QED
  BY <1>1, <1>2

LEMMA KeysAre ==
  /\ AlarmKeys \subseteq SensorKeys /\ HeardKeys \subseteq SensorKeys /\ HeardKeys \subseteq LampKeys
  /\ SensorKeys \intersect ActionKeys = {} /\ LampKeys \intersect ActionKeys = {}
  /\ HeardKeys \intersect ActionKeys = {} /\ AlarmKeys \intersect HeardKeys = {}
BY DEF AlarmKeys, SensorKeys, LampKeys, HeardKeys, ActionKeys

\* When and how well a device was heard adds two keys to its record.
LEMMA HeardAdds ==
  ASSUME NEW s
  PROVE  /\ DOMAIN Merge(Heard, s) = HeardKeys \union DOMAIN s
         /\ \A k \in DOMAIN s \ HeardKeys : Merge(Heard, s)[k] = s[k]
<1>1. DOMAIN Heard = HeardKeys
  BY DEF Heard, HeardKeys
<1> QED
  BY <1>1, Merged

LEMMA MergedWithHeard ==
  ASSUME NEW v, NEW s
  PROVE  LET m == Merge(v, Merge(Heard, s))
         IN /\ DOMAIN m = DOMAIN v \union (HeardKeys \union DOMAIN s)
            /\ \A k \in DOMAIN v : m[k] = v[k]
            /\ \A k \in DOMAIN s \ (DOMAIN v \union HeardKeys) : m[k] = s[k]
<1> DEFINE h == Merge(Heard, s)
<1>1. DOMAIN h = HeardKeys \union DOMAIN s /\ \A k \in DOMAIN s \ HeardKeys : h[k] = s[k]
  BY HeardAdds
<1> HIDE DEF h
<1>2. /\ DOMAIN Merge(v, h) = DOMAIN v \union DOMAIN h
      /\ \A k \in DOMAIN v : Merge(v, h)[k] = v[k]
      /\ \A k \in DOMAIN h \ DOMAIN v : Merge(v, h)[k] = h[k]
  BY Merged
<1>3. /\ DOMAIN Merge(v, h) = DOMAIN v \union (HeardKeys \union DOMAIN s)
      /\ \A k \in DOMAIN v : Merge(v, h)[k] = v[k]
      /\ \A k \in DOMAIN s \ (DOMAIN v \union HeardKeys) : Merge(v, h)[k] = s[k]
  BY <1>1, <1>2
<1> QED
  BY <1>3 DEF h

LEMMA PressedIs ==
  ASSUME NEW press, NEW held
  PROVE  \/ Pressed(press, held) = [action |-> <<press.button, press.arg>>]
         \/ Pressed(press, held) = Empty
         \/ Pressed(press, held) = [action |-> <<press.button, held>>, action_duration |-> "time"]
         \/ Pressed(press, held) =
              [action |-> <<press.button>>, action_group |-> "group", action_scene |-> press.arg]
         \/ Pressed(press, held) = [action |-> <<press.button>>]
BY ZenonT(30) DEF Pressed

LEMMA PressedKeys ==
  ASSUME NEW press, NEW held
  PROVE  /\ DOMAIN Pressed(press, held) \subseteq ActionKeys
         /\ Pressed(press, held) =
              [k \in DOMAIN Pressed(press, held) |-> Pressed(press, held)[k]]
<1>1. DOMAIN Pressed(press, held) \subseteq ActionKeys
  BY PressedIs, EmptyState DEF ActionKeys
<1> DEFINE Is(p) == p = [k \in DOMAIN p |-> p[k]]
<1>2. \A v : Is([action |-> v])
  OBVIOUS
<1>3. \A v, w : Is([action |-> v, action_duration |-> w])
  OBVIOUS
<1>4. \A u, v, w : Is([action |-> u, action_group |-> v, action_scene |-> w])
  OBVIOUS
<1>5. Is(Empty)
  BY DEF Empty
<1> HIDE DEF Is
<1>6. Is(Pressed(press, held))
  BY <1>2, <1>3, <1>4, <1>5, PressedIs
<1>7. Pressed(press, held) = [k \in DOMAIN Pressed(press, held) |-> Pressed(press, held)[k]]
  BY <1>6 DEF Is
<1> QED
  BY <1>1, <1>7

\* What a frame of each cluster says.
LEMMA ValuesOf ==
  ASSUME NEW f
  PROVE  /\ f.cluster = "on_off" => Values(f) = [state |-> f.value]
         /\ f.cluster = "level" => Values(f) = Level(f.value)
         /\ f.cluster = "color" => Values(f) = [color_mode |-> f.value]
         /\ f.cluster = "ias_zone" /\ f.type = "read_rsp" => Values(f) = Empty
         /\ f.cluster = "ias_zone" /\ f.type = "command" =>
              Values(f) = ZoneStatus(f.value, zoneType)
         /\ f.cluster = "buttons" => Values(f) = Pressed(f.value, direction)
<1>1. f.cluster = "on_off" => Values(f) = [state |-> f.value]
  BY Zenon DEF Values
<1>2. f.cluster = "level" => Values(f) = Level(f.value)
  BY Zenon DEF Values
<1>3. f.cluster = "color" => Values(f) = [color_mode |-> f.value]
  BY Zenon DEF Values
<1>4. f.cluster = "ias_zone" => Values(f) = IF f.type = "read_rsp" THEN Empty
                                            ELSE ZoneStatus(f.value, zoneType)
  BY Zenon DEF Values
<1>5. f.cluster = "buttons" => Values(f) = Pressed(f.value, direction)
  BY Zenon DEF Values
<1> QED
  BY <1>1, <1>2, <1>3, <1>4, <1>5

LEMMA DirectionIs ==
  ASSUME NEW f
  PROVE  /\ f.cluster # "buttons" => DirectionAfter(f) = direction
         /\ f.cluster = "buttons" /\ f.value.button = "arrow_hold" =>
              DirectionAfter(f) = f.value.arg
         /\ f.cluster = "buttons" /\ f.value.button = "arrow_release" =>
              DirectionAfter(f) = "none"
         /\ f.cluster = "buttons" /\ f.value.button \notin {"arrow_hold", "arrow_release"} =>
              DirectionAfter(f) = direction
<1>1. f.cluster # "buttons" => DirectionAfter(f) = direction
  BY Zenon DEF DirectionAfter
<1>2. f.cluster = "buttons" /\ f.value.button = "arrow_hold" =>
        DirectionAfter(f) = f.value.arg
  BY Zenon DEF DirectionAfter
<1>3. f.cluster = "buttons" /\ f.value.button = "arrow_release" => DirectionAfter(f) = "none"
  BY Zenon DEF DirectionAfter
<1>4. f.cluster = "buttons" /\ f.value.button \notin {"arrow_hold", "arrow_release"} =>
        DirectionAfter(f) = direction
  BY Zenon DEF DirectionAfter
<1> QED
  BY <1>1, <1>2, <1>3, <1>4

LEMMA MergedLampStates ==
  ASSUME NEW v, NEW s, LampState(v), LampState(s)
  PROVE  LampState(Merge(v, s))
<1>1. DOMAIN Merge(v, s) \subseteq LampKeys
  BY Merged DEF LampState
<1>2. ASSUME "brightness" \in DOMAIN Merge(v, s) PROVE Merge(v, s)["brightness"] \in Levels
  <2>1. CASE "brightness" \in DOMAIN v
    BY <2>1, Merged DEF LampState
  <2>2. CASE "brightness" \notin DOMAIN v
    <3>1. "brightness" \in DOMAIN s \ DOMAIN v
      BY <1>2, <2>2, Merged
    <3>2. Merge(v, s)["brightness"] = s["brightness"]
      BY <3>1 DEF Merge
    <3> QED
      BY <3>1, <3>2 DEF LampState
  <2> QED
    BY <2>1, <2>2
<1> QED
  BY <1>1, <1>2 DEF LampState

LEMMA HeardLampState ==
  ASSUME NEW s, LampState(s) PROVE LampState(Merge(Heard, s))
<1>1. LampState(Heard)
  BY DEF Heard, LampState, LampKeys, HeardKeys
<1> QED
  BY <1>1, MergedLampStates

LEMMA LampReportSays ==
  ASSUME NEW f \in LampReport PROVE LampState(Values(f))
<1>1. CASE f.cluster = "on_off"
  <2>1. Values(f) = [state |-> f.value]
    BY <1>1, ValuesOf
  <2> QED
    BY <2>1 DEF LampState, LampKeys
<1>2. CASE f.cluster = "level"
  <2>1. Values(f) = Level(f.value) /\ f.value \in Levels
    BY <1>2, ValuesOf DEF LampReport
  <2>2. DOMAIN Level(f.value) = {"brightness", "brightness_percent"}
        /\ Level(f.value)["brightness"] = f.value
    BY DEF Level
  <2> QED
    BY <2>1, <2>2 DEF LampState, LampKeys
<1>3. CASE f.cluster = "color"
  <2>1. Values(f) = [color_mode |-> f.value]
    BY <1>3, ValuesOf
  <2> QED
    BY <2>1 DEF LampState, LampKeys
<1> QED
  BY <1>1, <1>2, <1>3 DEF LampReport

LEMMA ObeyedIsLamp ==
  ASSUME NEW c \in LampCommand, device \in LampDevice
  PROVE  Obeyed(c) \in LampDevice
<1>1. CASE c.cluster = "on_off"
  <2>1. Obeyed(c) = [device EXCEPT !.state = CASE c.value = "TOGGLE" ->
                                                  IF @ = "ON" THEN "OFF" ELSE "ON"
                                             [] OTHER -> c.value]
    BY <1>1, Zenon DEF Obeyed
  <2>2. c.value = "TOGGLE" =>
          Obeyed(c) = [device EXCEPT !.state = IF @ = "ON" THEN "OFF" ELSE "ON"]
    BY <2>1, Zenon
  <2>3. c.value # "TOGGLE" => Obeyed(c) = [device EXCEPT !.state = c.value]
    BY <2>1, Zenon
  <2> QED
    BY <1>1, <2>2, <2>3 DEF LampCommand, LampDevice
<1>2. CASE c.cluster = "level"
  <2>1. Obeyed(c) = [device EXCEPT !.brightness = c.value,
                                   !.state = IF c.value = 0 THEN "OFF" ELSE "ON"]
    BY <1>2, Zenon DEF Obeyed
  <2> QED
    BY <1>2, <2>1 DEF LampCommand, LampDevice
<1>3. CASE c.cluster = "color"
  <2>1. Obeyed(c) = [device EXCEPT !.color_mode = c.value]
    BY <1>3, Zenon DEF Obeyed
  <2> QED
    BY <1>3, <2>1 DEF LampCommand, LampDevice
<1> QED
  BY <1>1, <1>2, <1>3 DEF LampCommand

LEMMA ReportedAreReports ==
  ASSUME NEW new \in LampDevice PROVE Reported(new) \in Seq(LampReport)
<1> DEFINE Of(key, cluster) ==
      IF kind = "lamp" /\ new[key] # device[key] THEN <<Report(cluster, new[key])>> ELSE <<>>
<1>1. Of("state", "on_off") \in Seq(LampReport)
  <2>1. Report("on_off", new["state"]) \in LampReport
    BY DEF LampDevice, LampReport, Report
  <2> QED
    BY <2>1, Single
<1>2. Of("brightness", "level") \in Seq(LampReport)
  <2>1. Report("level", new["brightness"]) \in LampReport
    BY DEF LampDevice, LampReport, Report
  <2> QED
    BY <2>1, Single
<1>3. Of("color_mode", "color") \in Seq(LampReport)
  <2>1. Report("color", new["color_mode"]) \in LampReport
    BY DEF LampDevice, LampReport, Report
  <2> QED
    BY <2>1, Single
<1> HIDE DEF Of
<1>4. Of("state", "on_off") \o Of("brightness", "level") \in Seq(LampReport)
  BY <1>1, <1>2, Joined
<1>5. Of("state", "on_off") \o Of("brightness", "level") \o Of("color_mode", "color")
        \in Seq(LampReport)
  BY <1>3, <1>4, Joined
<1> QED
  BY <1>5 DEF Reported, Of

LEMMA RequestsAreRequests ==
  ASSUME NEW p \in Payloads PROVE Requests(p) \in Seq(LampRequest)
<1> DEFINE Of(key, cluster) ==
      IF key \in DOMAIN p THEN <<Command(cluster, p[key])>> ELSE <<>>
<1>1. Of("state", "on_off") \in Seq(LampRequest)
  <2>1. "state" \in DOMAIN p => Command("on_off", p["state"]) \in LampRequest
    BY PayloadAssumption DEF LampRequest, Command
  <2> QED
    BY <2>1, Single
<1>2. Of("brightness", "level") \in Seq(LampRequest)
  <2>1. "brightness" \in DOMAIN p => Command("level", p["brightness"]) \in LampRequest
    BY PayloadAssumption DEF LampRequest, Command
  <2> QED
    BY <2>1, Single
<1>3. Of("color_temp", "color") \in Seq(LampRequest)
  <2>1. "color_temp" \in DOMAIN p => Command("color", p["color_temp"]) \in LampRequest
    BY PayloadAssumption DEF LampRequest, Command, Modes
  <2> QED
    BY <2>1, Single
<1>4. Of("color", "color") \in Seq(LampRequest)
  <2>1. "color" \in DOMAIN p => Command("color", p["color"]) \in LampRequest
    BY PayloadAssumption DEF LampRequest, Command, Modes
  <2> QED
    BY <2>1, Single
<1> HIDE DEF Of
<1>5. Of("state", "on_off") \o Of("brightness", "level") \in Seq(LampRequest)
  BY <1>1, <1>2, Joined
<1>6. Of("state", "on_off") \o Of("brightness", "level") \o Of("color_temp", "color")
        \in Seq(LampRequest)
  BY <1>3, <1>5, Joined
<1>7. Of("state", "on_off") \o Of("brightness", "level") \o Of("color_temp", "color")
        \o Of("color", "color") \in Seq(LampRequest)
  BY <1>4, <1>6, Joined
<1> QED
  BY <1>7 DEF Requests, Of

LEMMA EncodedIsCommand ==
  ASSUME NEW c \in LampRequest PROVE Encoded(c) \in LampCommand
BY DEF Encoded, LampRequest, LampCommand, Levels

LEMMA OptimisticIsLampState ==
  ASSUME NEW c \in LampCommand, NEW current, NEW so_far, LampState(so_far)
  PROVE  LampState(Optimistic(c, current, so_far))
<1>1. CASE c.cluster = "on_off"
  <2>1. Optimistic(c, current, so_far) = OptimisticOnOff(c.value, current)
    BY <1>1, Zenon DEF Optimistic
  <2>2. \E v : OptimisticOnOff(c.value, current) \in {[state |-> v], Empty}
    <3>1. c.value # "TOGGLE" => OptimisticOnOff(c.value, current) = [state |-> c.value]
      BY Zenon DEF OptimisticOnOff
    <3>2. c.value = "TOGGLE" /\ current = "ON" =>
            OptimisticOnOff(c.value, current) = [state |-> "OFF"]
      BY Zenon DEF OptimisticOnOff
    <3>3. c.value = "TOGGLE" /\ current = "OFF" =>
            OptimisticOnOff(c.value, current) = [state |-> "ON"]
      BY Zenon DEF OptimisticOnOff
    <3>4. c.value = "TOGGLE" /\ current \notin {"ON", "OFF"} =>
            OptimisticOnOff(c.value, current) = Empty
      BY Zenon DEF OptimisticOnOff
    <3> QED
      BY <3>1, <3>2, <3>3, <3>4
  <2>3. DOMAIN OptimisticOnOff(c.value, current) \subseteq {"state"}
    BY <2>2, EmptyState
  <2> QED
    BY <2>1, <2>3 DEF LampState, LampKeys
<1>2. CASE c.cluster = "level"
  <2> DEFINE level == [brightness |-> c.value, state |-> IF c.value = 0 THEN "OFF" ELSE "ON"]
  <2>1. Optimistic(c, current, so_far) = Merge(so_far, level)
    BY <1>2, Zenon DEF Optimistic
  <2>2. DOMAIN level = {"brightness", "state"} /\ level["brightness"] \in Levels
    BY <1>2 DEF LampCommand
  <2>3. LampState(level)
    BY <2>2 DEF LampState, LampKeys
  <2> HIDE DEF level
  <2> QED
    BY <2>1, <2>3, MergedLampStates
<1>3. CASE c.cluster = "color"
  <2>1. Optimistic(c, current, so_far) = Merge([color_mode |-> c.value], so_far)
    BY <1>3, Zenon DEF Optimistic
  <2>2. LampState([color_mode |-> c.value])
    BY DEF LampState, LampKeys
  <2> QED
    BY <2>1, <2>2, MergedLampStates
<1> QED
  BY <1>1, <1>2, <1>3 DEF LampCommand

LEMMA KindsAre == kind \in Kinds => kind \in Lamps \union {"sensor", "remote", "none"}
BY DeviceAssumption

LEMMA StateTypesInit == StateInit => StateTypes
<1> SUFFICES ASSUME StateInit PROVE StateTypes
  OBVIOUS
<1>1. /\ up = <<>> /\ down = <<>> /\ set = NoSet /\ zoneType = NoType /\ direction = "none"
      /\ DOMAIN state = {} /\ DOMAIN published = {} /\ kind \in Kinds
      /\ interviewed \in BOOLEAN /\ astray \in BOOLEAN
  BY EmptyState DEF StateInit
<1>2. sets \in 0..MaxSets /\ acts \in 0..MaxActs /\ losses \in 0..MaxLost
  BY DeviceAssumption DEF StateInit
<1>3. kind \in Lamps => LampTypes
  <2>1. kind \in Lamps =>
          device \in [state : {"ON", "OFF"}, brightness : {254}, color_mode : {"xy"}]
    BY ZenonT(30) DEF StateInit, Lamps
  <2>2. DOMAIN published \ ActionKeys \subseteq LampKeys /\ LampState(state)
    BY <1>1 DEF LampState, LampKeys
  <2> QED
    BY <1>1, <2>1, <2>2 DEF LampTypes, LampDevice, Modes, Levels
<1>4. kind = "sensor" => SensorTypes
  BY <1>1 DEF StateInit, SensorTypes, Lamps
<1>5. kind = "remote" => RemoteTypes
  BY <1>1 DEF StateInit, RemoteTypes, Lamps
<1>6. kind = "none" => NoneTypes
  BY <1>1 DEF NoneTypes
<1> QED
  BY <1>1, <1>2, <1>3, <1>4, <1>5, <1>6 DEF StateTypes

\* The parts of StateTypes that do not depend on the kind.
Counts ==
  /\ kind \in Kinds /\ interviewed \in BOOLEAN /\ astray \in BOOLEAN
  /\ sets \in 0..MaxSets /\ acts \in 0..MaxActs /\ losses \in 0..MaxLost

KindTypes ==
  /\ kind \in Kinds
  /\ kind \in Lamps => LampTypes
  /\ kind = "sensor" => SensorTypes
  /\ kind = "remote" => RemoteTypes
  /\ kind = "none" => NoneTypes

LEMMA TypesAre == StateTypes <=> Counts /\ KindTypes
BY DEF StateTypes, Counts, KindTypes

LEMMA CountsStep == Counts /\ [StateNext]_deviceStateVars => Counts'
<1> SUFFICES ASSUME Counts, [StateNext]_deviceStateVars PROVE Counts'
  OBVIOUS
<1> USE DeviceAssumption DEF Counts
<1>1. CASE UNCHANGED deviceStateVars
  BY <1>1 DEF deviceStateVars, deviceVars, recordVars, stateBounds, stateHistory
<1>2. CASE LampObeys
  BY <1>2 DEF LampObeys, recordVars, stateBounds, stateHistory
<1>3. CASE LampSwitched
  BY <1>3 DEF LampSwitched, recordVars, stateHistory
<1>4. CASE AlarmChanges
  BY <1>4 DEF AlarmChanges, recordVars, stateHistory
<1>5. CASE SensorAnswers
  BY <1>5 DEF SensorAnswers, recordVars, stateHistory
<1>6. CASE ButtonPressed
  BY <1>6 DEF ButtonPressed, recordVars, stateHistory
<1>7. CASE FrameLost
  BY <1>7 DEF FrameLost, recordVars
<1>8. CASE CompleteInterview
  BY <1>8 DEF CompleteInterview, deviceVars, stateBounds
<1>9. CASE Message
  BY <1>9 DEF Message, stateBounds
<1>10. CASE GetDevice
  BY <1>10 DEF GetDevice, deviceVars, recordVars, stateBounds
<1>11. CASE RepublishState
  BY <1>11 DEF RepublishState, deviceVars, recordVars, stateBounds
<1>12. CASE RestartState
  BY <1>12 DEF RestartState, stateBounds
<1>13. CASE SendAccepted
  BY <1>13 DEF SendAccepted, stateBounds, stateHistory
<1>14. CASE SendFails
  <2>1. losses < MaxLost /\ losses' = losses + 1 /\ UNCHANGED <<kind, interviewed, sets, acts>>
    BY <1>14, Zenon DEF SendFails
  <2>2. astray' \in BOOLEAN
    BY <1>14, Zenon DEF SendFails
  <2> QED
    BY <2>1, <2>2
<1>15. CASE SetEnds
  BY <1>15 DEF SetEnds, deviceVars, stateBounds
<1>16. ASSUME NEW p \in Payloads, SetDevice(p) PROVE Counts'
  <2>1. sets < MaxSets /\ sets' = sets + 1 /\ UNCHANGED <<kind, interviewed, acts, losses>>
    BY <1>16, Zenon DEF SetDevice, deviceVars
  <2>2. astray' \in BOOLEAN
    BY <1>16, Zenon DEF SetDevice
  <2> QED
    BY <2>1, <2>2
<1> QED
  BY <1>1, <1>2, <1>3, <1>4, <1>5, <1>6, <1>7, <1>8, <1>9, <1>10, <1>11, <1>12, <1>13, <1>14, <1>15, <1>16
     DEF StateNext, Outside, SetHandling

LEMMA FourKinds ==
  KindTypes => \/ kind \in Lamps /\ LampTypes
               \/ kind = "sensor" /\ SensorTypes
               \/ kind = "remote" /\ RemoteTypes
               \/ kind = "none" /\ NoneTypes
BY KindsAre DEF KindTypes

LEMMA FourKindsPrimed ==
  ASSUME kind \in Kinds, UNCHANGED kind,
         kind \in Lamps => LampTypes', kind = "sensor" => SensorTypes',
         kind = "remote" => RemoteTypes', kind = "none" => NoneTypes'
  PROVE  KindTypes'
BY DEF KindTypes, Lamps

LEMMA OneKind ==
  /\ kind \in Lamps => kind \notin {"sensor", "remote", "none"}
BY DEF Lamps

\* What happens around the bridge keeps the types of each kind.
LEMMA OutsideKeepsTypes == KindTypes /\ Outside => KindTypes'
<1> SUFFICES ASSUME KindTypes, Outside PROVE KindTypes'
  OBVIOUS
<1>0. kind \in Kinds
  BY DEF KindTypes
<1>1. CASE LampObeys
  <2>1. kind \in Lamps => LampTypes'
    <3> SUFFICES ASSUME kind \in Lamps PROVE LampTypes'
      OBVIOUS
    <3>1. /\ device \in LampDevice /\ Head(down) \in LampCommand
          /\ Tail(down) \in Seq(LampCommand) /\ up \in Seq(LampReport)
      BY <1>1, HeadTaken DEF LampObeys, LampTypes, KindTypes
    <3>2. Obeyed(Head(down)) \in LampDevice
      BY <3>1, ObeyedIsLamp
    <3>3. up \o Reported(Obeyed(Head(down))) \in Seq(LampReport)
      BY <3>1, <3>2, ReportedAreReports, Joined
    <3> QED
      BY <1>1, <3>1, <3>2, <3>3
         DEF LampObeys, LampTypes, LampState, recordVars, mqttVars, KindTypes
  <2>2. kind' = kind /\ kind \notin {"sensor", "none", "remote"}
    BY <1>1 DEF LampObeys, KindTypes, SensorTypes, NoneTypes, RemoteTypes
  <2> QED
    BY <1>0, <2>1, <2>2, FourKindsPrimed
<1>2. CASE LampSwitched
  <2>1. LampTypes'
    <3> DEFINE new == [device EXCEPT !.state = IF @ = "ON" THEN "OFF" ELSE "ON"]
    <3>0. LampTypes
      BY <1>2 DEF LampSwitched, KindTypes, Lamps
    <3>1. new \in LampDevice /\ up \in Seq(LampReport)
      BY <3>0 DEF LampTypes, LampDevice
    <3>2. device' = new /\ up' = up \o Reported(new)
      BY <1>2 DEF LampSwitched
    <3> HIDE DEF new
    <3>3. up' \in Seq(LampReport)
      BY <3>1, <3>2, ReportedAreReports, Joined
    <3> QED
      BY <1>2, <3>0, <3>1, <3>2, <3>3
         DEF LampSwitched, LampTypes, LampState, recordVars, mqttVars
  <2>2. kind' = kind /\ kind = "lamp"
    BY <1>2 DEF LampSwitched
  <2> QED
    BY <1>0, <2>1, <2>2, FourKindsPrimed
<1>3. CASE AlarmChanges
  <2>0. kind' = kind /\ kind = "sensor" /\ SensorTypes
    BY <1>3 DEF AlarmChanges, KindTypes
  <2>1. device' = [device EXCEPT !.alarm = ~@] /\ device \in [type : ZoneType, alarm : BOOLEAN]
    BY <1>3, <2>0 DEF AlarmChanges, SensorTypes
  <2>6. (~device.alarm) \in BOOLEAN
    BY Zenon
  <2>7. device' \in [type : ZoneType, alarm : BOOLEAN] /\ device'.type = device.type
    BY <2>1, <2>6
  <2>2. SensorFrame' = SensorFrame
    BY <2>7 DEF SensorFrame
  <2>3. Command("ias_zone", ~device.alarm) \in SensorFrame
    BY <2>6 DEF Command, SensorFrame
  <2>4. up' \in Seq(SensorFrame)'
    BY <1>3, <2>0, <2>2, <2>3, Appended DEF AlarmChanges, SensorTypes
  <2>5. SensorTypes'
    BY <1>3, <2>0, <2>7, <2>4 DEF AlarmChanges, SensorTypes, recordVars, mqttVars
  <2> QED
    BY <1>0, <2>0, <2>5, FourKindsPrimed DEF Lamps
<1>4. CASE SensorAnswers
  <2>0. kind' = kind /\ kind = "sensor" /\ SensorTypes /\ device' = device
    BY <1>4 DEF SensorAnswers, KindTypes
  <2>2. SensorFrame' = SensorFrame
    BY <2>0 DEF SensorFrame
  <2>3. [Report("ias_zone", device.type) EXCEPT !.type = "read_rsp"] \in SensorFrame
    BY DEF Report, SensorFrame
  <2>4. up' \in Seq(SensorFrame)'
    BY <1>4, <2>0, <2>2, <2>3, Appended DEF SensorAnswers, SensorTypes
  <2>5. SensorTypes'
    BY <1>4, <2>0, <2>4 DEF SensorAnswers, SensorTypes, recordVars, mqttVars
  <2> QED
    BY <1>0, <2>0, <2>5, FourKindsPrimed DEF Lamps
<1>5. CASE ButtonPressed
  <2>0. kind' = kind /\ kind = "remote" /\ RemoteTypes
    BY <1>5 DEF ButtonPressed, KindTypes
  <2>1. PICK press \in Presses :
          /\ device' = [held |-> IF press.button = "arrow_hold" THEN press.arg ELSE "none"]
          /\ up' = Append(up, Command("buttons", press))
    BY <1>5 DEF ButtonPressed
  <2>2. Command("buttons", press) \in RemoteFrame
    BY DEF Command, RemoteFrame
  <2>3. up' \in Seq(RemoteFrame)
    BY <2>0, <2>1, <2>2, Appended DEF RemoteTypes
  <2>5. RemoteTypes'
    BY <1>5, <2>0, <2>1, <2>3 DEF ButtonPressed, RemoteTypes, RemoteFrame, recordVars, mqttVars
  <2> QED
    BY <1>0, <2>0, <2>5, FourKindsPrimed DEF Lamps
<1>6. CASE FrameLost
  <2>0. UNCHANGED <<kind, device, recordVars, mqttVars>>
    BY <1>6 DEF FrameLost
  <2>1. \/ down # <<>> /\ down' = Tail(down) /\ up' = up
        \/ up # <<>> /\ up' = Tail(up) /\ down' = down
    BY <1>6 DEF FrameLost
  <2>2. kind \in Lamps => LampTypes'
    <3> SUFFICES ASSUME kind \in Lamps PROVE LampTypes'
      OBVIOUS
    <3>1. LampTypes
      BY DEF KindTypes
    <3>2. up' \in Seq(LampReport) /\ down' \in Seq(LampCommand)
      BY <2>1, <3>1, HeadTaken DEF LampTypes
    <3> QED
      BY <2>0, <3>1, <3>2 DEF LampTypes, LampState, recordVars, mqttVars
  <2>3. kind = "sensor" => SensorTypes'
    <3> SUFFICES ASSUME kind = "sensor" PROVE SensorTypes'
      OBVIOUS
    <3>1. SensorTypes /\ SensorFrame' = SensorFrame
      BY <2>0 DEF KindTypes, SensorFrame
    <3>2. up' \in Seq(SensorFrame) /\ down' = <<>>
      BY <2>1, <3>1, HeadTaken DEF SensorTypes
    <3> QED
      BY <2>0, <3>1, <3>2 DEF SensorTypes, recordVars, mqttVars
  <2>4. kind = "remote" => RemoteTypes'
    <3> SUFFICES ASSUME kind = "remote" PROVE RemoteTypes'
      OBVIOUS
    <3>1. RemoteTypes
      BY DEF KindTypes
    <3>2. up' \in Seq(RemoteFrame) /\ down' = <<>>
      BY <2>1, <3>1, HeadTaken DEF RemoteTypes
    <3> QED
      BY <2>0, <3>1, <3>2 DEF RemoteTypes, RemoteFrame, recordVars, mqttVars
  <2>5. kind = "none" => NoneTypes'
    BY <2>1 DEF KindTypes, NoneTypes
  <2> QED
    BY <1>0, <2>0, <2>2, <2>3, <2>4, <2>5, FourKindsPrimed
<1> QED
  BY <1>1, <1>2, <1>3, <1>4, <1>5, <1>6 DEF Outside

LEMMA StrippedLampState ==
  ASSUME NEW s, LampState(s) PROVE LampState(StripTransientActionFields(s))
BY DEF LampState, LampKeys, StripTransientActionFields

\* What Message does to the record and to what is published.
LEMMA MessageDoes ==
  ASSUME Message
  PROVE  LET f == Head(up)
             merged == Merge(Values(f), Merge(Heard, state))
         IN /\ up # <<>> /\ up' = Tail(up) /\ set = NoSet /\ set' = NoSet
            /\ UNCHANGED <<kind, device, down>>
            /\ zoneType' = IF f.type = "read_rsp" THEN f.value ELSE zoneType
            /\ direction' = DirectionAfter(f)
            /\ \/ UNCHANGED <<state, published>>
               \/ published' = merged /\ state' = StripTransientActionFields(merged)
BY DEF Message

LEMMA MessageKeepsTypes == KindTypes /\ Message => KindTypes'
<1> SUFFICES ASSUME KindTypes, Message PROVE KindTypes'
  OBVIOUS
<1>0. kind \in Kinds /\ UNCHANGED <<kind, device, down>> /\ set = NoSet /\ set' = NoSet
  BY MessageDoes DEF KindTypes
<1> DEFINE f == Head(up)
           merged == Merge(Values(f), Merge(Heard, state))
<1>1. /\ zoneType' = IF f.type = "read_rsp" THEN f.value ELSE zoneType
      /\ direction' = DirectionAfter(f)
      /\ up # <<>> /\ up' = Tail(up)
      /\ \/ UNCHANGED <<state, published>>
         \/ published' = merged /\ state' = StripTransientActionFields(merged)
  BY MessageDoes
<1>2. kind \in Lamps => LampTypes'
  <2> SUFFICES ASSUME kind \in Lamps PROVE LampTypes'
    OBVIOUS
  <2>1. LampTypes
    BY DEF KindTypes
  <2>2. f \in LampReport /\ up' \in Seq(LampReport)
    BY <1>1, <2>1, HeadTaken DEF LampTypes
  <2>3. f.type = "report" /\ f.cluster # "buttons"
    BY <2>2 DEF LampReport
  <2>4. LampState(merged)
    BY <2>1, <2>2, LampReportSays, HeardLampState, MergedLampStates DEF LampTypes
  <2>5. LampState(StripTransientActionFields(merged))
    BY <2>4, StrippedLampState
  <2>6. LampState(state') /\ DOMAIN published' \ ActionKeys \subseteq LampKeys
    BY <1>1, <2>1, <2>4, <2>5 DEF LampTypes, LampState
  <2>7. zoneType' = NoType /\ direction' = "none"
    BY <1>1, <2>1, <2>3, DirectionIs DEF LampTypes
  <2> QED
    BY <1>0, <2>1, <2>2, <2>6, <2>7 DEF LampTypes, LampState
<1>3. kind = "sensor" => SensorTypes'
  <2> SUFFICES ASSUME kind = "sensor" PROVE SensorTypes'
    OBVIOUS
  <2>1. SensorTypes
    BY DEF KindTypes
  <2>2. f \in SensorFrame /\ up' \in Seq(SensorFrame)
    BY <1>1, <2>1, HeadTaken DEF SensorTypes
  <2>3. f.cluster = "ias_zone"
    BY <2>2 DEF SensorFrame
  <2>4. f.type = "read_rsp" => f.value = device.type
    BY <2>2 DEF SensorFrame
  <2>5. DOMAIN Values(f) \subseteq SensorKeys
    <3>1. CASE f.type = "read_rsp"
      BY <2>3, <3>1, ValuesOf, EmptyState
    <3>2. CASE f.type = "command"
      <4>1. Values(f) = ZoneStatus(f.value, zoneType)
        BY <2>3, <3>2, ValuesOf
      <4>2. DOMAIN ZoneStatus(f.value, zoneType) = {Alarm1(zoneType).field}
        BY DEF ZoneStatus
      <4> QED
        BY <4>1, <4>2, AlarmFields, KeysAre
    <3> QED
      BY <2>2, <3>1, <3>2 DEF SensorFrame
  <2>6. DOMAIN merged \subseteq SensorKeys
    <3>1. DOMAIN merged = DOMAIN Values(f) \union (HeardKeys \union DOMAIN state)
      BY MergedWithHeard
    <3> HIDE DEF merged
    <3> QED BY <2>1, <2>5, <3>1, KeysAre DEF SensorTypes
  <2>7. DOMAIN StripTransientActionFields(merged) \subseteq SensorKeys
    BY <2>6, Stripped
  <2>8. DOMAIN state' \subseteq SensorKeys /\ DOMAIN published' \ ActionKeys \subseteq SensorKeys
    BY <1>1, <2>1, <2>6, <2>7 DEF SensorTypes
  <2>9. zoneType' \in {NoType, device.type} /\ direction' = "none"
    BY <1>1, <2>1, <2>3, <2>4, DirectionIs DEF SensorTypes
  <2>10. SensorFrame' = SensorFrame
    BY <1>0 DEF SensorFrame
  <2> QED
    BY <1>0, <2>1, <2>2, <2>8, <2>9, <2>10 DEF SensorTypes
<1>4. kind = "remote" => RemoteTypes'
  <2> SUFFICES ASSUME kind = "remote" PROVE RemoteTypes'
    OBVIOUS
  <2>1. RemoteTypes
    BY DEF KindTypes
  <2>2. f \in RemoteFrame /\ up' \in Seq(RemoteFrame)
    BY <1>1, <2>1, HeadTaken DEF RemoteTypes
  <2>3. f.cluster = "buttons" /\ f.type = "command"
    BY <2>2 DEF RemoteFrame
  <2>4. DOMAIN merged \subseteq ActionKeys \union HeardKeys
    <3>1. DOMAIN Values(f) \subseteq ActionKeys
      BY <2>3, ValuesOf, PressedKeys
    <3>2. DOMAIN Merge(Heard, state) \subseteq HeardKeys
      BY <2>1, HeardAdds DEF RemoteTypes
    <3> QED
      BY <3>1, <3>2, Merged
  <2>5. DOMAIN state' \subseteq HeardKeys /\ DOMAIN published' \subseteq ActionKeys \union HeardKeys
    BY <1>1, <2>1, <2>4, Stripped DEF RemoteTypes
  <2>6. zoneType' = NoType
    BY <1>1, <2>1, <2>3 DEF RemoteTypes
  <2> QED
    BY <1>0, <2>1, <2>2, <2>5, <2>6 DEF RemoteTypes, RemoteFrame
<1>5. kind # "none"
  BY <1>1 DEF KindTypes, NoneTypes
<1> QED
  BY <1>0, <1>2, <1>3, <1>4, <1>5, FourKindsPrimed

\* A step that neither hears of nor sends to the device.
LEMMA RecordKeepsTypes ==
  ASSUME KindTypes, UNCHANGED <<kind, device, state>>,
         set = NoSet, set' = NoSet, up' \in {up, <<>>}, down' \in {down, <<>>},
         zoneType' \in {zoneType, NoType}, direction' \in {direction, "none"},
         published' \in {published, state}
  PROVE  KindTypes'
<1>1. kind \in Kinds
  BY DEF KindTypes
<1>2. /\ kind' = kind /\ device' = device /\ state' = state
      /\ (up' = up \/ up' = <<>>) /\ (down' = down \/ down' = <<>>)
      /\ (zoneType' = zoneType \/ zoneType' = NoType)
      /\ (direction' = direction \/ direction' = "none")
      /\ (published' = published \/ published' = state)
  OBVIOUS
<1>3. ASSUME NEW S, up \in Seq(S) PROVE up' \in Seq(S)
  <2>1. CASE up' = up
    BY <1>3, <2>1
  <2>2. CASE up' = <<>>
    BY <2>2, NoFrames
  <2> QED
    BY <1>2, <2>1, <2>2
<1>4. ASSUME NEW S, down \in Seq(S) PROVE down' \in Seq(S)
  <2>1. CASE down' = down
    BY <1>4, <2>1
  <2>2. CASE down' = <<>>
    BY <2>2, NoFrames
  <2> QED
    BY <1>2, <2>1, <2>2
<1>5. kind \in Lamps => LampTypes'
  <2> SUFFICES ASSUME kind \in Lamps PROVE LampTypes'
    OBVIOUS
  <2>1. LampTypes
    BY DEF KindTypes
  <2>2. up' \in Seq(LampReport) /\ down' \in Seq(LampCommand)
    BY <1>3, <1>4, <2>1 DEF LampTypes
  <2>3. LampState(state') /\ DOMAIN published' \ ActionKeys \subseteq LampKeys
    BY <1>2, <2>1 DEF LampTypes, LampState
  <2> QED
    BY <1>2, <2>1, <2>2, <2>3 DEF LampTypes, LampState
<1>6. kind = "sensor" => SensorTypes'
  <2> SUFFICES ASSUME kind = "sensor" PROVE SensorTypes'
    OBVIOUS
  <2>1. SensorTypes /\ SensorFrame' = SensorFrame
    BY <1>2 DEF KindTypes, SensorFrame
  <2>2. up' \in Seq(SensorFrame)
    BY <1>3, <2>1 DEF SensorTypes
  <2> QED
    BY <1>2, <2>1, <2>2 DEF SensorTypes
<1>7. kind = "remote" => RemoteTypes'
  <2> SUFFICES ASSUME kind = "remote" PROVE RemoteTypes'
    OBVIOUS
  <2>1. RemoteTypes
    BY DEF KindTypes
  <2>2. up' \in Seq(RemoteFrame)
    BY <1>3, <2>1 DEF RemoteTypes
  <2>3. DOMAIN published' \subseteq ActionKeys \union HeardKeys
    BY <1>2, <2>1 DEF RemoteTypes
  <2> QED
    BY <1>2, <2>1, <2>2, <2>3 DEF RemoteTypes, RemoteFrame
<1>8. kind = "none" => NoneTypes'
  BY <1>2 DEF KindTypes, NoneTypes
<1> QED
  BY <1>1, <1>5, <1>6, <1>7, <1>8, FourKindsPrimed

LEMMA SetKeepsTypes ==
  ASSUME KindTypes, SetHandling \/ \E p \in Payloads : SetDevice(p)
  PROVE  KindTypes'
<1>0. /\ kind \in Kinds /\ kind \in Lamps /\ LampTypes
      /\ UNCHANGED <<kind, device, up, zoneType, direction>>
  BY FourKinds DEF KindTypes, SetHandling, SendAccepted, SendFails, SetEnds, SetDevice, Sending,
     SensorTypes, RemoteTypes, NoneTypes, deviceVars
<1> SUFFICES LampTypes'
  BY <1>0, FourKindsPrimed DEF Lamps
<1>1. ASSUME NEW p \in Payloads, SetDevice(p) PROVE LampTypes'
  <2>1. Requests(p) \in Seq(LampRequest) /\ LampState(Empty)
    BY RequestsAreRequests, EmptyState DEF LampState
  <2>2. set' = [requests |-> Requests(p), optimistic |-> Empty, current |-> set'.current]
    BY <1>1 DEF SetDevice
  <2>3. set'.requests \in Seq(LampRequest) /\ LampState(set'.optimistic)
    BY <2>1, <2>2
  <2> QED
    BY <1>0, <1>1, <2>2, <2>3 DEF SetDevice, LampTypes, LampState, deviceVars, mqttVars
<1>2. ASSUME Sending, NEW o, LampState(o), set' = [set EXCEPT !.requests = Tail(@), !.optimistic = o],
             down' \in {down, Append(down, Encoded(Head(set.requests)))},
             UNCHANGED <<state, published>>
      PROVE  LampTypes'
  <2>1. /\ set # NoSet /\ set.requests \in Seq(LampRequest) /\ set.requests # <<>>
        /\ set = [requests |-> set.requests, optimistic |-> set.optimistic,
                  current |-> set.current]
    BY <1>0, <1>2 DEF Sending, LampTypes
  <2>2. Head(set.requests) \in LampRequest /\ Tail(set.requests) \in Seq(LampRequest)
    BY <2>1, HeadTaken
  <2>3. down' \in Seq(LampCommand)
    BY <1>0, <1>2, <2>2, EncodedIsCommand, Appended DEF LampTypes
  <2>4. set' = [requests |-> Tail(set.requests), optimistic |-> o, current |-> set.current]
    BY <1>2, <2>1
  <2> QED
    BY <1>0, <1>2, <2>2, <2>3, <2>4 DEF LampTypes, LampState
<1>3. CASE SendAccepted
  <2> DEFINE c == Encoded(Head(set.requests))
  <2>1. /\ Sending /\ down' = Append(down, c) /\ UNCHANGED <<state, published>>
        /\ set' = [set EXCEPT !.requests = Tail(@), !.optimistic = Optimistic(c, set.current, @)]
    BY <1>3 DEF SendAccepted, mqttVars
  <2>2. c \in LampCommand /\ LampState(set.optimistic)
    BY <1>0, <2>1, HeadTaken, EncodedIsCommand DEF Sending, LampTypes
  <2>3. LampState(Optimistic(c, set.current, set.optimistic))
    BY <2>2, OptimisticIsLampState
  <2> QED
    BY <1>2, <2>1, <2>3
<1>4. CASE SendFails
  <2> DEFINE c == Encoded(Head(set.requests))
  <2>1. /\ Sending /\ down' \in {down, Append(down, c)} /\ UNCHANGED <<state, published>>
        /\ set' = [set EXCEPT !.requests = Tail(@), !.optimistic = set.optimistic]
    BY <1>4 DEF SendFails, NotAccepted, mqttVars
  <2>2. LampState(set.optimistic)
    BY <1>0, <2>1 DEF Sending, LampTypes
  <2> QED
    BY <1>2, <2>1, <2>2
<1>5. CASE SetEnds
  <2>1. LampState(set.optimistic) /\ LampState(state) /\ set' = NoSet /\ down' = down
    BY <1>0, <1>5 DEF SetEnds, LampTypes, deviceVars
  <2>2. \/ UNCHANGED <<state, published>>
        \/ state' = Merge(set.optimistic, state) /\ published' = state'
    BY <1>5 DEF SetEnds
  <2>3. LampState(state') /\ DOMAIN published' \ ActionKeys \subseteq LampKeys
    BY <1>0, <2>1, <2>2, MergedLampStates DEF LampTypes, LampState
  <2> QED
    BY <1>0, <2>1, <2>3 DEF LampTypes, LampState
<1> QED
  BY <1>1, <1>3, <1>4, <1>5 DEF SetHandling

LEMMA StateTypesStep == StateTypes /\ [StateNext]_deviceStateVars => StateTypes'
<1> SUFFICES ASSUME StateTypes, [StateNext]_deviceStateVars PROVE StateTypes'
  OBVIOUS
<1>1. Counts' /\ KindTypes
  BY TypesAre, CountsStep
<1>2. CASE UNCHANGED deviceStateVars
  <2> USE <1>2 DEF deviceStateVars, deviceVars, recordVars, mqttVars
  <2>1. kind \in Kinds
    BY <1>1 DEF KindTypes
  <2>2. kind \in Lamps => LampTypes'
    BY <1>1 DEF KindTypes, LampTypes, LampState
  <2>3. kind = "sensor" => SensorTypes'
    BY <1>1 DEF KindTypes, SensorTypes, SensorFrame
  <2>4. kind = "remote" => RemoteTypes'
    BY <1>1 DEF KindTypes, RemoteTypes, RemoteFrame
  <2>5. kind = "none" => NoneTypes'
    BY <1>1 DEF KindTypes, NoneTypes
  <2>6. KindTypes'
    BY <2>1, <2>2, <2>3, <2>4, <2>5, FourKindsPrimed
  <2> QED
    BY <1>1, <2>6, TypesAre DEF StateTypes, Counts, KindTypes
<1>3. CASE Outside
  BY <1>1, <1>3, OutsideKeepsTypes DEF StateTypes, Counts, KindTypes
<1>4. CASE Message
  BY <1>1, <1>4, MessageKeepsTypes DEF StateTypes, Counts, KindTypes
<1>5. CASE SetHandling \/ \E p \in Payloads : SetDevice(p)
  BY <1>1, <1>5, SetKeepsTypes DEF StateTypes, Counts, KindTypes
<1>6. CASE CompleteInterview \/ GetDevice \/ RepublishState \/ RestartState
  <2>1. /\ UNCHANGED <<kind, device, state>>
        /\ set = NoSet /\ set' = NoSet /\ up' \in {up, <<>>} /\ down' \in {down, <<>>}
        /\ zoneType' \in {zoneType, NoType} /\ direction' \in {direction, "none"}
        /\ published' \in {published, state}
    BY <1>6 DEF CompleteInterview, GetDevice, RepublishState, RestartState, Republished,
                deviceVars, recordVars
  <2>2. KindTypes'
    BY <1>1, <2>1, RecordKeepsTypes
  <2> QED
    BY <1>1, <2>2 DEF StateTypes, Counts, KindTypes
<1> QED
  BY <1>2, <1>3, <1>4, <1>5, <1>6 DEF StateNext

\* Frames, requests and records hold values of their kind, a level never beyond
\* what ZCL has room for (bridge.rs 649-652), a zone type only the sensor's own.
THEOREM StateTypesHold == StateSpec => []StateTypeOK
<1>1. StateTypes => StateTypeOK
  <2> SUFFICES ASSUME StateTypes PROVE StateTypeOK
    OBVIOUS
  <2>1. \A i \in DOMAIN down : down[i].cluster = "level" => down[i].value \in 0..254
    <3>1. kind \in Lamps => down \in Seq(LampCommand)
      BY DEF StateTypes, LampTypes
    <3>2. kind \notin Lamps => down = <<>>
      BY KindsAre DEF StateTypes, SensorTypes, RemoteTypes, NoneTypes
    <3>3. kind \in Lamps => \A i \in DOMAIN down : down[i] \in LampCommand
      BY <3>1
    <3>4. \A c \in LampCommand : c.cluster = "level" => c.value \in 0..254
      BY DEF LampCommand, Levels
    <3> QED
      BY <3>2, <3>3, <3>4
  <2>2. DOMAIN state \subseteq Keys /\ DOMAIN published \ ActionKeys \subseteq Keys
    <3> DEFINE OfKind ==
          CASE kind \in Lamps -> {"state", "brightness", "brightness_percent", "color_mode"}
            [] kind = "sensor" -> AlarmKeys
            [] OTHER -> {}
    <3>0. DOMAIN Heard = HeardKeys /\ Keys = HeardKeys \union OfKind
      BY DEF Heard, HeardKeys, Keys, AlarmKeys
    <3>1. kind \in Lamps => OfKind = {"state", "brightness", "brightness_percent", "color_mode"}
      BY Zenon, OneKind
    <3>2. kind = "sensor" => OfKind = AlarmKeys
      BY ZenonT(30), OneKind
    <3> HIDE DEF OfKind
    <3>3. kind \in Lamps => Keys = LampKeys
      BY <3>0, <3>1 DEF LampKeys
    <3>4. kind = "sensor" => Keys = SensorKeys
      BY <3>0, <3>2 DEF SensorKeys
    <3>5. HeardKeys \subseteq Keys
      BY <3>0
    <3> QED
      BY <3>3, <3>4, <3>5, KindsAre
         DEF StateTypes, LampTypes, LampState, SensorTypes, RemoteTypes, NoneTypes
  <2>3. "brightness" \in DOMAIN state => state["brightness"] \in 0..254
    <3>1. kind \in Lamps => LampState(state)
      BY DEF StateTypes, LampTypes
    <3>2. kind \notin Lamps => "brightness" \notin DOMAIN state
      BY KindsAre DEF StateTypes, SensorTypes, SensorKeys, AlarmKeys, HeardKeys, RemoteTypes, NoneTypes
    <3> QED
      BY <3>1, <3>2 DEF LampState, Levels
  <2>4. zoneType # NoType => kind = "sensor" /\ zoneType = device.type
    BY KindsAre DEF StateTypes, LampTypes, SensorTypes, RemoteTypes, NoneTypes
  <2>5. direction # "none" => kind = "remote"
    BY KindsAre DEF StateTypes, LampTypes, SensorTypes, RemoteTypes, NoneTypes
  <2> QED
    BY <2>1, <2>2, <2>3, <2>4, <2>5 DEF StateTypes, StateTypeOK
<1> QED
  BY <1>1, StateTypesInit, StateTypesStep, PTL DEF StateSpec

\* The state kept of a device holds nothing of an action.
LEMMA StateHasNoAction == StateTypes => DOMAIN state \intersect ActionKeys = {}
BY KindsAre, KeysAre DEF StateTypes, LampTypes, LampState, SensorTypes, RemoteTypes, NoneTypes

LEMMA StateHasNoActionNext == StateTypes' => DOMAIN state' \intersect ActionKeys = {}
<1> SUFFICES ASSUME StateTypes' PROVE DOMAIN state' \intersect ActionKeys = {}
  OBVIOUS
<1>1. kind' \in Lamps \union {"sensor", "remote", "none"}
  BY DeviceAssumption DEF StateTypes
<1> QED
  BY <1>1, KeysAre DEF StateTypes, LampTypes, LampState, SensorTypes, RemoteTypes, NoneTypes

\* Nor does what is merged with what is heard.
LEMMA HeardHasNoAction ==
  StateTypes => DOMAIN Merge(Heard, state) \intersect ActionKeys = {}
BY StateHasNoAction, HeardAdds, KeysAre

-----------------------------------------------------------------------------
\* Alarms.

\* What was published without the zone type was published as of a door.
AlarmOf(what) == Alarm1(IF what \in untyped THEN NoType ELSE device.type)

\* What a record of a sensor says of its alarm, under the key it was last decoded
\* with, is true.
Says(s) ==
  LET a == AlarmOf("status") IN DOMAIN s # {} => (s[a.field] = a.on) = device.alarm

IsAlarm(f) == f.type = "command"

AlarmInv ==
  kind = "sensor" =>
    /\ interviewed => AlarmOf("discovery") \in discovered
    /\ DOMAIN published \in {{}, DOMAIN state}
    /\ \A k \in DOMAIN published : published[k] = state[k]
    /\ DOMAIN state # {} => AlarmOf("status").field \in DOMAIN state
    /\ ~astray =>
         /\ \A i \in 1..Len(up) :
              IsAlarm(up[i]) /\ (\A j \in 1..Len(up) : j > i => ~IsAlarm(up[j])) =>
                up[i].value = device.alarm
         /\ (\A i \in 1..Len(up) : ~IsAlarm(up[i])) => Says(state)

LEMMA ZoneStatusSays ==
  ASSUME NEW alarm \in BOOLEAN, NEW t
  PROVE  LET e == Alarm1(t)
         IN /\ DOMAIN ZoneStatus(alarm, t) = {e.field}
            /\ (ZoneStatus(alarm, t)[e.field] = e.on) = alarm
<1> DEFINE e == Alarm1(t)
<1>1. e.on \in BOOLEAN
  BY Zenon DEF Alarm1
<1>2. ZoneStatus(alarm, t)[e.field] = IF alarm THEN e.on ELSE ~e.on
  BY DEF ZoneStatus
<1>3. DOMAIN ZoneStatus(alarm, t) = {e.field}
  BY DEF ZoneStatus
<1> HIDE DEF e
<1>4. CASE alarm = TRUE
  BY <1>1, <1>2, <1>3, <1>4 DEF e
<1>5. CASE alarm = FALSE
  <2>1. ZoneStatus(alarm, t)[e.field] # e.on
    BY <1>1, <1>2, <1>5
  <2> QED
    BY <1>3, <1>5, <2>1 DEF e
<1> QED
  BY <1>4, <1>5

\* Discovery announces the alarm of the sensor, or that of a door.
LEMMA Announced ==
  ASSUME StateTypes, kind = "sensor", NEW type \in {zoneType, NoType}, PublishDiscovery(type),
         UNCHANGED device
  PROVE  AlarmOf("discovery")' \in discovered' /\ AlarmOf("status")' = AlarmOf("status")
<1>1. zoneType \in {NoType, device.type} /\ device.type # NoType
  BY DeviceAssumption DEF StateTypes, SensorTypes
<1>2. type = IF "discovery" \in untyped' THEN NoType ELSE device.type
  BY <1>1 DEF PublishDiscovery, Untyped
<1>3. AlarmOf("discovery")' = Alarm1(type)
  BY <1>2 DEF AlarmOf
<1>4. discovered' = discovered \union {Alarm1(type)}
  BY DEF PublishDiscovery, Discovery
<1>5. "status" \in untyped' <=> "status" \in untyped
  BY DEF PublishDiscovery, Untyped
<1> QED
  BY <1>3, <1>4, <1>5 DEF AlarmOf

LEMMA AlarmInit == StateInit => AlarmInv
BY EmptyState DEF StateInit, AlarmInv, Says

LEMMA SameAlarm ==
  ASSUME AlarmInv, UNCHANGED <<kind, device, up, interviewed, state, published, discovered,
                               astray, untyped>>
  PROVE  AlarmInv'
BY DEF AlarmInv, Says, AlarmOf

LEMMA AlarmHeard == StateTypes /\ AlarmInv /\ Message => AlarmInv'
<1> SUFFICES ASSUME StateTypes, AlarmInv, Message, kind = "sensor" PROVE AlarmInv'
  BY DEF Message, AlarmInv
<1> DEFINE f == Head(up)
           merged == Merge(Values(f), Merge(Heard, state))
<1>1. SensorTypes
  BY DEF StateTypes
<1>2. /\ up # <<>> /\ up \in Seq(SensorFrame) /\ f \in SensorFrame /\ f = up[1]
      /\ up' = Tail(up) /\ Len(up) \in Nat /\ Len(up') = Len(up) - 1
      /\ \A j \in 1..Len(up') : up'[j] = up[j + 1]
  BY <1>1, HeadTaken DEF Message, SensorTypes
<1>3. UNCHANGED <<kind, device, interviewed, discovered, astray>>
  BY DEF Message
<1>4. f.cluster = "ias_zone" /\ (f.type = "command" => f.value \in BOOLEAN)
  BY <1>2 DEF SensorFrame
<1>5. CASE f.type = "read_rsp"
  <2>1. UNCHANGED <<state, published, untyped>>
    BY <1>4, <1>5, ValuesOf DEF Message
  <2>2. ~IsAlarm(up[1])
    BY <1>2, <1>5 DEF IsAlarm
  <2>3. (\A i \in 1..Len(up') : ~IsAlarm(up'[i])) => \A i \in 1..Len(up) : ~IsAlarm(up[i])
    <3> SUFFICES ASSUME \A i \in 1..Len(up') : ~IsAlarm(up'[i]), NEW i \in 1..Len(up)
                 PROVE  ~IsAlarm(up[i])
      OBVIOUS
    <3>1. CASE i = 1
      BY <2>2, <3>1
    <3>2. CASE i # 1
      <4>1. i - 1 \in 1..Len(up') /\ (i - 1) + 1 = i
        BY <1>2, <3>2
      <4>2. up'[i - 1] = up[i]
        BY <1>2, <4>1
      <4> QED
        BY <4>1, <4>2
    <3> QED
      BY <3>1, <3>2
  <2>4. ASSUME NEW i \in 1..Len(up'), IsAlarm(up'[i]),
               \A j \in 1..Len(up') : j > i => ~IsAlarm(up'[j]), ~astray
        PROVE  up'[i].value = device.alarm
    <3>1. i + 1 \in 1..Len(up) /\ up'[i] = up[i + 1]
      BY <1>2
    <3>2. ASSUME NEW j \in 1..Len(up), j > i + 1 PROVE ~IsAlarm(up[j])
      <4>1. j - 1 \in 1..Len(up') /\ j - 1 > i /\ up'[j - 1] = up[j]
        BY <1>2, <3>2
      <4> QED
        BY <2>4, <4>1
    <3> QED
      BY <2>4, <3>1, <3>2 DEF AlarmInv
  <2> QED
    BY <1>3, <2>1, <2>3, <2>4 DEF AlarmInv, Says, AlarmOf
<1>6. CASE f.type = "command"
  <2>1. Values(f) = ZoneStatus(f.value, zoneType)
    BY <1>4, <1>6, ValuesOf
  <2>2. /\ DOMAIN Values(f) = {Alarm1(zoneType).field}
        /\ (Values(f)[Alarm1(zoneType).field] = Alarm1(zoneType).on) = f.value
    BY <1>4, <1>6, <2>1, ZoneStatusSays
  <2>3. /\ published' = merged /\ state' = StripTransientActionFields(merged)
        /\ untyped' = Untyped("status", zoneType)
    BY <1>4, <2>2, EmptyState DEF Message
  <2>4. zoneType = IF "status" \in untyped' THEN NoType ELSE device.type
    BY <1>1, <2>3, DeviceAssumption DEF SensorTypes, Untyped
  <2>5. AlarmOf("status")' = Alarm1(zoneType) /\ AlarmOf("discovery")' = AlarmOf("discovery")
    BY <1>3, <2>3, <2>4 DEF AlarmOf, Untyped
  <2>11. /\ DOMAIN merged = DOMAIN Values(f) \union (HeardKeys \union DOMAIN state)
         /\ \A k \in DOMAIN Values(f) : merged[k] = Values(f)[k]
    BY MergedWithHeard
  <2> HIDE DEF f, merged
  <2>8. DOMAIN merged \intersect ActionKeys = {}
    BY <2>2, <2>11, StateHasNoAction, AlarmFields, KeysAre
  <2>9. DOMAIN published' = DOMAIN state' /\ \A k \in DOMAIN published' : published'[k] = state'[k]
    BY <2>3, <2>8, Stripped
  <2>10. /\ Alarm1(zoneType).field \in DOMAIN state'
         /\ (state'[Alarm1(zoneType).field] = Alarm1(zoneType).on) = f.value
    BY <2>2, <2>3, <2>9, <2>11
  <2>6. ASSUME NEW i \in 1..Len(up'), IsAlarm(up'[i]),
               \A j \in 1..Len(up') : j > i => ~IsAlarm(up'[j]), ~astray
        PROVE  up'[i].value = device.alarm
    <3>1. i + 1 \in 1..Len(up) /\ up'[i] = up[i + 1]
      BY <1>2
    <3>2. ASSUME NEW j \in 1..Len(up), j > i + 1 PROVE ~IsAlarm(up[j])
      <4>1. j - 1 \in 1..Len(up') /\ j - 1 > i /\ up'[j - 1] = up[j]
        BY <1>2, <3>2
      <4> QED
        BY <2>6, <4>1
    <3> QED
      BY <2>6, <3>1, <3>2 DEF AlarmInv
  <2>7. ASSUME \A i \in 1..Len(up') : ~IsAlarm(up'[i]), ~astray PROVE f.value = device.alarm
    <3>1. ASSUME NEW j \in 1..Len(up), j > 1 PROVE ~IsAlarm(up[j])
      <4>1. j - 1 \in 1..Len(up') /\ up'[j - 1] = up[j]
        BY <1>2, <3>1
      <4> QED
        BY <2>7, <4>1
    <3>2. 1 \in 1..Len(up) /\ IsAlarm(up[1])
      BY <1>2, <1>6 DEF IsAlarm
    <3> QED
      BY <1>2, <2>7, <3>1, <3>2 DEF AlarmInv
  <2> QED
    BY <1>3, <2>5, <2>6, <2>7, <2>9, <2>10 DEF AlarmInv, Says
<1> QED
  BY <1>2, <1>5, <1>6 DEF SensorFrame

LEMMA AlarmStep == StateTypes /\ AlarmInv /\ [StateNext]_deviceStateVars => AlarmInv'
<1> SUFFICES ASSUME StateTypes, AlarmInv, [StateNext]_deviceStateVars PROVE AlarmInv'
  OBVIOUS
<1>0. kind' = kind
  BY DEF StateNext, Outside, SetHandling, LampObeys, LampSwitched, AlarmChanges, SensorAnswers,
         ButtonPressed, FrameLost, CompleteInterview, Message, GetDevice, RepublishState,
         SetDevice, SendAccepted, SendFails, SetEnds, RestartState, deviceStateVars, deviceVars
<1> SUFFICES ASSUME kind = "sensor" PROVE AlarmInv'
  BY <1>0 DEF AlarmInv
<1>1. SensorTypes
  BY DEF StateTypes
<1>2. CASE UNCHANGED deviceStateVars
  BY <1>2, SameAlarm DEF deviceStateVars, deviceVars, recordVars, mqttVars, stateHistory
<1>3. CASE AlarmChanges
  <2>1. /\ up' = Append(up, Command("ias_zone", ~device.alarm))
        /\ device' = [device EXCEPT !.alarm = ~@]
        /\ UNCHANGED <<interviewed, state, published, discovered, untyped>>
    BY <1>3 DEF AlarmChanges, recordVars, mqttVars, stateHistory
  <2>2. device'.type = device.type /\ device'.alarm = ~device.alarm
    BY <1>1, <2>1 DEF SensorTypes
  <2>3. /\ up \in Seq(SensorFrame) /\ (~device.alarm) \in BOOLEAN
    BY <1>1, Zenon DEF SensorTypes
  <2>4. Command("ias_zone", ~device.alarm) \in SensorFrame
    BY <2>3 DEF Command, SensorFrame
  <2>5. /\ Len(up') = Len(up) + 1 /\ Len(up) \in Nat
        /\ up'[Len(up) + 1] = Command("ias_zone", ~device.alarm)
    BY <2>1, <2>3, <2>4, Appended
  <2>6. IsAlarm(up'[Len(up')]) /\ up'[Len(up')].value = device'.alarm /\ Len(up') \in 1..Len(up')
    BY <2>2, <2>5 DEF Command, IsAlarm
  <2>7. ASSUME NEW i \in 1..Len(up'), IsAlarm(up'[i]),
               \A j \in 1..Len(up') : j > i => ~IsAlarm(up'[j])
        PROVE  up'[i].value = device'.alarm
    <3>1. i = Len(up')
      BY <2>5, <2>6, <2>7
    <3> QED
      BY <2>6, <3>1
  <2> QED
    BY <1>0, <2>1, <2>2, <2>6, <2>7 DEF AlarmInv, AlarmOf
<1>4. CASE SensorAnswers
  <2> DEFINE f == [Report("ias_zone", device.type) EXCEPT !.type = "read_rsp"]
  <2>1. /\ up' = Append(up, f)
        /\ UNCHANGED <<device, interviewed, state, published, discovered, untyped, astray>>
    BY <1>4 DEF SensorAnswers, recordVars, mqttVars, stateHistory
  <2>2. up \in Seq(SensorFrame)
    BY <1>1 DEF SensorTypes
  <2>3. f \in SensorFrame /\ ~IsAlarm(f)
    BY DEF Report, SensorFrame, IsAlarm
  <2>4. /\ Len(up') = Len(up) + 1 /\ Len(up) \in Nat /\ up'[Len(up) + 1] = f
        /\ \A j \in 1..Len(up) : up'[j] = up[j]
    BY <2>1, <2>2, <2>3, Appended
  <2> HIDE DEF f
  <2>5. ASSUME NEW i \in 1..Len(up'), IsAlarm(up'[i]), ~astray,
               \A j \in 1..Len(up') : j > i => ~IsAlarm(up'[j])
        PROVE  up'[i].value = device.alarm
    <3>1. i \in 1..Len(up) /\ up'[i] = up[i]
      BY <2>3, <2>4, <2>5
    <3>2. \A j \in 1..Len(up) : j > i => ~IsAlarm(up[j])
      BY <2>4, <2>5
    <3> QED
      BY <2>5, <3>1, <3>2 DEF AlarmInv
  <2>6. (\A i \in 1..Len(up') : ~IsAlarm(up'[i])) => \A i \in 1..Len(up) : ~IsAlarm(up[i])
    BY <2>4
  <2> QED
    BY <1>0, <2>1, <2>5, <2>6 DEF AlarmInv, Says, AlarmOf
<1>5. CASE FrameLost
  BY <1>0, <1>5 DEF FrameLost, AlarmInv, AlarmOf, recordVars, mqttVars
<1>6. CASE Message
  BY <1>6, AlarmHeard
<1>7. CASE CompleteInterview
  <2>1. PublishDiscovery(zoneType) /\ UNCHANGED <<device, up, state, published, astray>>
    BY <1>7 DEF CompleteInterview, deviceVars
  <2>2. AlarmOf("discovery")' \in discovered' /\ AlarmOf("status")' = AlarmOf("status")
    BY <2>1, Announced
  <2> QED
    BY <1>0, <2>1, <2>2 DEF AlarmInv, Says
<1>8. CASE GetDevice
  BY <1>0, <1>8 DEF GetDevice, AlarmInv, Says, AlarmOf, deviceVars, recordVars
<1>9. ASSUME NEW type \in {zoneType, NoType}, Republished(type),
             UNCHANGED <<device, interviewed, state>>, up' = up \/ up' = <<>>,
             ~astray' => ~astray /\ up' = up
      PROVE  AlarmInv'
  <2>1. /\ interviewed => AlarmOf("discovery")' \in discovered'
        /\ AlarmOf("status")' = AlarmOf("status")
    <3>1. CASE interviewed
      BY <1>9, <3>1, Announced DEF Republished
    <3>2. CASE ~interviewed
      BY <1>9, <3>2 DEF Republished, AlarmOf
    <3> QED
      BY <3>1, <3>2
  <2>2. published' = published \/ published' = state
    BY <1>9 DEF Republished
  <2> QED
    BY <1>0, <1>9, <2>1, <2>2 DEF AlarmInv, Says
<1>10. CASE RepublishState
  BY <1>9, <1>10 DEF RepublishState, deviceVars, recordVars
<1>11. CASE RestartState
  BY <1>9, <1>11 DEF RestartState
<1>12. ~LampObeys /\ ~LampSwitched /\ ~ButtonPressed
  BY <1>1 DEF LampObeys, LampSwitched, ButtonPressed, SensorTypes
<1>13. ~SetHandling /\ ~ \E p \in Payloads : SetDevice(p)
  BY <1>1 DEF SetHandling, SendAccepted, SendFails, SetEnds, Sending, SetDevice, SensorTypes, Lamps
<1> QED
  BY <1>2, <1>3, <1>4, <1>5, <1>6, <1>7, <1>8, <1>10, <1>11, <1>12, <1>13
     DEF StateNext, Outside

\* An alarm is published as it is, whatever the order in which interview, zone
\* type and alarms were heard and whatever restarts there were; and Home Assistant
\* has been told of the key it is under, once the device is interviewed and if
\* discovery and status were published with the same knowledge of the zone type
\* (homeassistant.rs 390-399, zcl/clusters/ias_zone.rs 84-101).
THEOREM AlarmShown == StateSpec => []AlarmReachesHA
<1>1. StateTypes /\ AlarmInv => AlarmReachesHA
  <2> DEFINE a == AlarmOf("status")
  <2> SUFFICES ASSUME StateTypes, AlarmInv, kind = "sensor", Quiet, DOMAIN published # {}
               PROVE  /\ a.field \in DOMAIN published /\ (published[a.field] = a.on) = device.alarm
                      /\ interviewed /\ ("status" \in untyped <=> "discovery" \in untyped) =>
                           a \in discovered
    BY DEF AlarmReachesHA, AlarmOf
  <2>1. DOMAIN published = DOMAIN state /\ a.field \in DOMAIN state
    BY DEF AlarmInv
  <2>2. Says(state)
    BY DEF AlarmInv, Quiet
  <2>3. published[a.field] = state[a.field] /\ (state[a.field] = a.on) = device.alarm
    BY <2>1, <2>2 DEF AlarmInv, Says
  <2>4. interviewed => AlarmOf("discovery") \in discovered
    BY DEF AlarmInv
  <2> QED
    BY <2>1, <2>3, <2>4 DEF AlarmOf
<1> QED
  BY <1>1, StateTypesInit, StateTypesStep, AlarmInit, AlarmStep, PTL DEF StateSpec

-----------------------------------------------------------------------------
\* Presses.

\* What is shown of an action.
ActionOf(p) == [k \in DOMAIN p \intersect ActionKeys |-> p[k]]

IsTurn(f) == f.value.button \in {"arrow_hold", "arrow_release"}

\* The last hold before the i-th frame is of direction h; dir is the direction
\* before the first frame, or "none" when it is not known.
HeldBefore(frames, dir, i, h) ==
  \/ \E j \in 1..Len(frames) :
       /\ j < i /\ frames[j].value.button = "arrow_hold" /\ frames[j].value.arg = h
       /\ \A n \in 1..Len(frames) : j < n /\ n < i => ~IsTurn(frames[n])
  \/ /\ \A n \in 1..Len(frames) : n < i => ~IsTurn(frames[n])
     /\ dir \in {"none", h}

ReleasesMatch ==
  kind = "remote" /\ ~astray =>
    /\ \A i \in 1..Len(up) :
         up[i].value.button = "arrow_release" =>
           HeldBefore(up, direction, i, up[i].value.arg)
    /\ device.held # "none" => HeldBefore(up, direction, Len(up) + 1, device.held)

PressShown ==
  /\ cause = NoPress => DOMAIN published \intersect ActionKeys = {}
  /\ cause # NoPress /\ ~astray => ActionOf(published) = Pressed(cause, cause.arg)

LEMMA NoAction == ASSUME NEW p, DOMAIN p \intersect ActionKeys = {} PROVE ActionOf(p) = Empty
BY DEF ActionOf, Empty

LEMMA WholeAction ==
  ASSUME NEW press, NEW held, NEW s, DOMAIN s \intersect ActionKeys = {}
  PROVE  ActionOf(Merge(Pressed(press, held), s)) = Pressed(press, held)
<1> DEFINE p == Pressed(press, held)
           m == Merge(p, s)
<1>1. DOMAIN p \subseteq ActionKeys
  BY PressedKeys
<1>2. DOMAIN m \intersect ActionKeys = DOMAIN p /\ \A k \in DOMAIN p : m[k] = p[k]
  BY <1>1, Merged
<1>3. p = [k \in DOMAIN p |-> p[k]]
  BY PressedKeys
<1>4. ActionOf(m) = [k \in DOMAIN p |-> p[k]]
  <2> HIDE DEF m, p
  <2> QED
    BY <1>2 DEF ActionOf
<1> QED
  BY <1>3, <1>4

\* A release that no hold goes with says nothing.
LEMMA ReleaseUnheld ==
  \A press : press.button = "arrow_release" => Pressed(press, "none") = Empty
BY ZenonT(30) DEF Pressed

\* The direction matters for a release only.
LEMMA HeldOnlyMatters ==
  ASSUME NEW press, NEW held, NEW other, press.button # "arrow_release"
  PROVE  Pressed(press, held) = Pressed(press, other)
BY ZenonT(30) DEF Pressed

LEMMA ActionInit == StateInit => ReleasesMatch /\ PressShown
<1> SUFFICES ASSUME StateInit PROVE ReleasesMatch /\ PressShown
  OBVIOUS
<1>1. up = <<>> /\ published = Empty /\ cause = NoPress /\ direction = "none"
  BY DEF StateInit
<1>2. ReleasesMatch
  BY <1>1 DEF ReleasesMatch, HeldBefore
<1>3. PressShown
  BY <1>1, EmptyState DEF PressShown
<1> QED
  BY <1>2, <1>3

LEMMA ReleasesMatchStep ==
  StateTypes /\ ReleasesMatch /\ [StateNext]_deviceStateVars => ReleasesMatch'
<1> SUFFICES ASSUME StateTypes, ReleasesMatch, [StateNext]_deviceStateVars PROVE ReleasesMatch'
  OBVIOUS
<1>0. kind' = kind
  BY DEF StateNext, Outside, SetHandling, LampObeys, LampSwitched, AlarmChanges, SensorAnswers,
         ButtonPressed, FrameLost, CompleteInterview, Message, GetDevice, RepublishState,
         SetDevice, SendAccepted, SendFails, SetEnds, RestartState, deviceStateVars, deviceVars
<1> SUFFICES ASSUME kind = "remote" PROVE ReleasesMatch'
  BY <1>0 DEF ReleasesMatch
<1>1. RemoteTypes /\ up \in Seq(RemoteFrame) /\ Len(up) \in Nat
  BY DEF StateTypes, RemoteTypes
<1>2. ASSUME UNCHANGED <<device, up, direction, astray>> PROVE ReleasesMatch'
  BY <1>0, <1>2 DEF ReleasesMatch, HeldBefore
<1>3. CASE ButtonPressed
  <2>1. PICK press \in Presses :
          /\ press.button = "arrow_release" <=> device.held # "none"
          /\ press.button = "arrow_release" => press.arg = device.held
          /\ device' = [held |-> IF press.button = "arrow_hold" THEN press.arg ELSE "none"]
          /\ up' = Append(up, Command("buttons", press))
    BY <1>3 DEF ButtonPressed
  <2>2. UNCHANGED <<direction, astray>>
    BY <1>3 DEF ButtonPressed, recordVars, stateHistory
  <2>3. Command("buttons", press) \in RemoteFrame
    BY DEF Command, RemoteFrame
  <2>4. /\ Len(up') = Len(up) + 1 /\ up'[Len(up) + 1].value = press
        /\ \A j \in 1..Len(up) : up'[j] = up[j]
    BY <1>1, <2>1, <2>3, Appended DEF Command
  <2>5. \A h : \A i \in 1..(Len(up) + 1) :
        HeldBefore(up, direction, i, h) => HeldBefore(up', direction', i, h)
    BY <1>1, <2>2, <2>4 DEF HeldBefore, IsTurn
  <2>6. ASSUME NEW i \in 1..Len(up'), up'[i].value.button = "arrow_release", ~astray
        PROVE  HeldBefore(up', direction', i, up'[i].value.arg)
    <3>1. CASE i \in 1..Len(up)
      BY <1>1, <2>4, <2>5, <2>6, <3>1 DEF ReleasesMatch
    <3>2. CASE i = Len(up) + 1
      <4>1. device.held # "none" /\ up'[i].value.arg = device.held
        BY <2>1, <2>4, <2>6, <3>2
      <4>2. HeldBefore(up, direction, i, device.held)
        BY <2>6, <3>2, <4>1 DEF ReleasesMatch
      <4> QED
        BY <1>1, <2>5, <3>2, <4>1, <4>2
    <3> QED
      BY <1>1, <2>4, <3>1, <3>2
  <2>7. ASSUME device'.held # "none"
        PROVE  HeldBefore(up', direction', Len(up') + 1, device'.held)
    <3>1. press.button = "arrow_hold" /\ device'.held = press.arg
      BY <2>1, <2>7
    <3> QED
      BY <1>1, <2>4, <3>1 DEF HeldBefore
  <2> QED
    BY <1>0, <2>2, <2>6, <2>7 DEF ReleasesMatch
<1>4. CASE Message
  <2> DEFINE f == Head(up)
  <2>1. /\ up # <<>> /\ f = up[1] /\ up' = Tail(up) /\ Len(up') = Len(up) - 1 /\ Len(up) >= 1
        /\ f \in RemoteFrame /\ \A j \in 1..Len(up') : up'[j] = up[j + 1]
    BY <1>1, <1>4, HeadTaken DEF Message
  <2>2. direction' = DirectionAfter(f) /\ UNCHANGED <<device, astray>>
    BY <1>4 DEF Message
  <2>3. /\ f.value.button = "arrow_hold" => direction' = f.value.arg
        /\ f.value.button = "arrow_release" => direction' = "none"
        /\ ~IsTurn(f) => direction' = direction
    BY <2>1, <2>2, DirectionIs DEF RemoteFrame, IsTurn
  <2> HIDE DEF f
  <2>4. ASSUME NEW i \in 2..(Len(up) + 1), NEW h, HeldBefore(up, direction, i, h)
        PROVE  HeldBefore(up', direction', i - 1, h)
    <3>1. CASE \E j \in 1..Len(up) :
                 /\ j < i /\ up[j].value.button = "arrow_hold" /\ up[j].value.arg = h
                 /\ \A n \in 1..Len(up) : j < n /\ n < i => ~IsTurn(up[n])
      <4>1. PICK j \in 1..Len(up) :
              /\ j < i /\ up[j].value.button = "arrow_hold" /\ up[j].value.arg = h
              /\ \A n \in 1..Len(up) : j < n /\ n < i => ~IsTurn(up[n])
        BY <3>1
      <4>2. ASSUME NEW n \in 1..Len(up'), j < n + 1, n < i - 1 PROVE ~IsTurn(up'[n])
        <5>1. n + 1 \in 1..Len(up) /\ n + 1 < i /\ up'[n] = up[n + 1]
          BY <1>1, <2>1, <4>2
        <5> QED
          BY <4>1, <4>2, <5>1
      <4>3. CASE j = 1
        <5>1. \A n \in 1..Len(up') : n < i - 1 => ~IsTurn(up'[n])
          BY <1>1, <2>1, <4>2, <4>3
        <5>2. direction' = h
          BY <2>1, <2>3, <4>1, <4>3
        <5> QED
          BY <5>1, <5>2 DEF HeldBefore, IsTurn
      <4>4. CASE j # 1
        <5>1. j - 1 \in 1..Len(up') /\ j - 1 < i - 1 /\ (j - 1) + 1 = j
          BY <1>1, <2>1, <4>1, <4>4
        <5>2. up'[j - 1] = up[j]
          BY <2>1, <5>1
        <5>3. \A n \in 1..Len(up') : j - 1 < n /\ n < i - 1 => ~IsTurn(up'[n])
          BY <1>1, <2>1, <4>2
        <5> QED
          BY <4>1, <5>1, <5>2, <5>3 DEF HeldBefore, IsTurn
      <4> QED
        BY <4>3, <4>4
    <3>2. CASE /\ \A n \in 1..Len(up) : n < i => ~IsTurn(up[n])
               /\ direction \in {"none", h}
      <4>1. ~IsTurn(f)
        BY <1>1, <2>1, <3>2
      <4>2. ASSUME NEW n \in 1..Len(up'), n < i - 1 PROVE ~IsTurn(up'[n])
        <5>1. n + 1 \in 1..Len(up) /\ n + 1 < i /\ up'[n] = up[n + 1]
          BY <1>1, <2>1, <4>2
        <5> QED
          BY <3>2, <5>1
      <4> QED
        BY <2>3, <3>2, <4>1, <4>2 DEF HeldBefore, IsTurn
    <3> QED
      BY <2>4, <3>1, <3>2 DEF HeldBefore
  <2>5. ASSUME NEW i \in 1..Len(up'), up'[i].value.button = "arrow_release", ~astray
        PROVE  HeldBefore(up', direction', i, up'[i].value.arg)
    <3>1. i + 1 \in 1..Len(up) /\ up'[i] = up[i + 1] /\ i + 1 \in 2..(Len(up) + 1)
          /\ (i + 1) - 1 = i
      BY <1>1, <2>1
    <3>2. HeldBefore(up, direction, i + 1, up'[i].value.arg)
      BY <2>5, <3>1 DEF ReleasesMatch
    <3>3. HeldBefore(up', direction', (i + 1) - 1, up'[i].value.arg)
      BY <2>4, <3>1, <3>2
    <3> QED
      BY <3>1, <3>3
  <2>6. ASSUME device.held # "none", ~astray
        PROVE  HeldBefore(up', direction', Len(up') + 1, device'.held)
    <3>1. HeldBefore(up, direction, Len(up) + 1, device.held)
      BY <2>6 DEF ReleasesMatch
    <3>2. Len(up) + 1 \in 2..(Len(up) + 1) /\ Len(up) + 1 - 1 = Len(up') + 1
      BY <1>1, <2>1
    <3>3. HeldBefore(up', direction', Len(up) + 1 - 1, device.held)
      BY <2>4, <3>1, <3>2
    <3> QED
      BY <2>2, <3>2, <3>3
  <2> QED
    BY <1>0, <2>2, <2>5, <2>6 DEF ReleasesMatch
<1>5. CASE RestartState
  <2>1. up' = <<>> /\ direction' = "none"
    BY <1>5 DEF RestartState
  <2>2. \A h : HeldBefore(up', direction', Len(up') + 1, h)
    BY <2>1 DEF HeldBefore
  <2> QED
    BY <1>0, <2>1, <2>2 DEF ReleasesMatch
<1>6. CASE FrameLost
  BY <1>6 DEF FrameLost, ReleasesMatch
<1>7. CASE CompleteInterview \/ GetDevice \/ RepublishState \/ UNCHANGED deviceStateVars
  BY <1>2, <1>7 DEF CompleteInterview, GetDevice, RepublishState, deviceStateVars, deviceVars,
     recordVars, stateHistory
<1>8. ~LampObeys /\ ~LampSwitched /\ ~AlarmChanges /\ ~SensorAnswers
  BY <1>1 DEF LampObeys, LampSwitched, AlarmChanges, SensorAnswers, RemoteTypes
<1>9. ~SetHandling /\ ~ \E p \in Payloads : SetDevice(p)
  BY <1>1 DEF SetHandling, SendAccepted, SendFails, SetEnds, Sending, SetDevice, RemoteTypes, Lamps
<1> QED
  BY <1>3, <1>4, <1>5, <1>6, <1>7, <1>8, <1>9 DEF StateNext, Outside

LEMMA PressHeard ==
  StateTypes /\ ReleasesMatch /\ PressShown /\ Message => PressShown'
<1> SUFFICES ASSUME StateTypes, ReleasesMatch, PressShown, Message PROVE PressShown'
  OBVIOUS
<1> DEFINE f == Head(up)
           merged == Merge(Values(f), Merge(Heard, state))
<1>1. up # <<>> /\ UNCHANGED <<kind, astray>>
  BY DEF Message
<1>2. CASE Values(f) = Empty
  BY <1>1, <1>2 DEF Message, PressShown
<1>3. CASE Values(f) # Empty /\ kind = "remote"
  <2>1. DOMAIN Merge(Heard, state) \intersect ActionKeys = {} /\ up \in Seq(RemoteFrame)
    BY <1>3, HeardHasNoAction DEF StateTypes, RemoteTypes
  <2>2. f = up[1] /\ f \in RemoteFrame /\ Len(up) \in Nat /\ Len(up) >= 1
    BY <1>1, <2>1, HeadTaken
  <2>3. f.cluster = "buttons" /\ f.value \in Presses
    BY <2>2 DEF RemoteFrame
  <2>4. published' = merged /\ cause' = f.value
    BY <1>3, <2>3 DEF Message
  <2>5. Values(f) = Pressed(f.value, direction)
    BY <2>3, ValuesOf
  <2>6. ActionOf(published') = Pressed(f.value, direction)
    BY <2>1, <2>4, <2>5, WholeAction
  <2>7. ASSUME ~astray PROVE Pressed(f.value, direction) = Pressed(f.value, f.value.arg)
    <3>1. CASE f.value.button = "arrow_release"
      <4>1. HeldBefore(up, direction, 1, f.value.arg)
        BY <1>3, <2>2, <2>7, <3>1 DEF ReleasesMatch
      <4>2. direction \in {"none", f.value.arg}
        BY <2>2, <4>1 DEF HeldBefore
      <4>3. direction # "none"
        BY <1>3, <2>5, <3>1, ReleaseUnheld
      <4> QED
        BY <4>2, <4>3
    <3>2. CASE f.value.button # "arrow_release"
      BY <3>2, HeldOnlyMatters
    <3> QED
      BY <3>1, <3>2
  <2> QED
    BY <1>1, <2>3, <2>4, <2>6, <2>7, DeviceAssumption DEF PressShown
<1>4. CASE Values(f) # Empty /\ kind # "remote"
  <2>1. f.cluster # "buttons" /\ DOMAIN Values(f) \intersect ActionKeys = {}
    <3>1. CASE kind \in Lamps
      <4>1. f \in LampReport
        BY <1>1, <3>1, HeadTaken DEF StateTypes, LampTypes
      <4> QED
        BY <4>1, LampReportSays, KeysAre DEF LampReport, LampState
    <3>2. CASE kind = "sensor"
      <4>1. f \in SensorFrame
        BY <1>1, <3>2, HeadTaken DEF StateTypes, SensorTypes
      <4>2. f.cluster = "ias_zone" /\ f.type \in {"command", "read_rsp"}
        BY <4>1 DEF SensorFrame
      <4>3. Values(f) = ZoneStatus(f.value, zoneType)
        BY <1>4, <4>2, ValuesOf
      <4>4. DOMAIN ZoneStatus(f.value, zoneType) = {Alarm1(zoneType).field}
        BY DEF ZoneStatus
      <4> QED
        BY <4>2, <4>3, <4>4, AlarmFields, KeysAre
    <3>3. CASE kind = "none"
      BY <1>1, <3>3 DEF StateTypes, NoneTypes
    <3> QED
      BY <1>4, <3>1, <3>2, <3>3, KindsAre DEF StateTypes
  <2>2. published' = merged /\ cause' = NoPress
    BY <1>4, <2>1 DEF Message
  <2>3. DOMAIN merged \intersect ActionKeys = {}
    <3>1. DOMAIN merged = DOMAIN Values(f) \union (HeardKeys \union DOMAIN state)
      BY MergedWithHeard
    <3> HIDE DEF f, merged
    <3> QED
      BY <2>1, <3>1, StateHasNoAction, KeysAre
  <2> QED
    BY <2>2, <2>3 DEF PressShown
<1> QED
  BY <1>2, <1>3, <1>4

LEMMA PressShownStep ==
  StateTypes /\ ReleasesMatch /\ PressShown /\ [StateNext]_deviceStateVars => PressShown'
<1> SUFFICES ASSUME StateTypes, ReleasesMatch, PressShown, [StateNext]_deviceStateVars
             PROVE  PressShown'
  OBVIOUS
<1>1. ASSUME UNCHANGED <<published, cause>>, astray => astray' PROVE PressShown'
  BY <1>1 DEF PressShown
<1>2. ASSUME published' = state, cause' = NoPress PROVE PressShown'
  BY <1>2, StateHasNoAction DEF PressShown
<1>3. CASE LampObeys \/ LampSwitched \/ AlarmChanges \/ SensorAnswers \/ ButtonPressed
  BY <1>1, <1>3, Zenon DEF LampObeys, LampSwitched, AlarmChanges, SensorAnswers, ButtonPressed,
                    mqttVars, stateHistory
<1>4. CASE FrameLost
  BY <1>1, <1>4 DEF FrameLost, mqttVars
<1>5. CASE Message
  BY <1>5, PressHeard
<1>6. CASE GetDevice
  BY <1>2, <1>6 DEF GetDevice
<1>7. CASE CompleteInterview
  BY <1>1, <1>7 DEF CompleteInterview
<1>8. CASE RepublishState
  BY <1>1, <1>2, <1>8 DEF RepublishState, Republished
<1>9. CASE RestartState
  <2>1. astray => astray'
    BY <1>9 DEF RestartState
  <2>2. UNCHANGED <<published, cause>> \/ (published' = state /\ cause' = NoPress)
    <3>1. Republished(NoType)
      BY <1>9, Zenon DEF RestartState
    <3> QED
      BY <3>1 DEF Republished
  <2> QED
    BY <1>1, <1>2, <2>1, <2>2
<1>10. ASSUME NEW p \in Payloads, SetDevice(p) PROVE PressShown'
  <2>1. astray => astray'
    BY <1>10, Zenon DEF SetDevice
  <2>2. UNCHANGED <<published, cause>>
    BY <1>10, Zenon DEF SetDevice, mqttVars
  <2> QED
    BY <1>1, <2>1, <2>2
<1>11. CASE SendAccepted
  BY <1>1, <1>11, Zenon DEF SendAccepted, mqttVars, stateHistory
<1>12. CASE SendFails
  <2>1. astray => astray'
    BY <1>12, Zenon DEF SendFails
  <2>2. UNCHANGED <<published, cause>>
    BY <1>12, Zenon DEF SendFails, mqttVars
  <2> QED
    BY <1>1, <2>1, <2>2
<1>13. CASE SetEnds
  <2>1. astray' = astray
    BY <1>13 DEF SetEnds
  <2>2. UNCHANGED <<published, cause>> \/ (published' = state' /\ cause' = NoPress)
    <3>1. CASE set.optimistic = Empty
      BY <1>13, <3>1 DEF SetEnds
    <3>2. CASE set.optimistic # Empty
      BY <1>13, <3>2 DEF SetEnds
    <3> QED
      BY <3>1, <3>2
  <2>3. DOMAIN state' \intersect ActionKeys = {}
    BY StateTypesStep, StateHasNoActionNext
  <2> QED
    BY <1>1, <2>1, <2>2, <2>3 DEF PressShown
<1>14. CASE UNCHANGED deviceStateVars
  BY <1>1, <1>14 DEF deviceStateVars, mqttVars, stateHistory
<1> QED
  BY <1>3, <1>4, <1>5, <1>6, <1>7, <1>8, <1>9, <1>10, <1>11, <1>12, <1>13, <1>14
     DEF StateNext, Outside, SetHandling

\* A press is published when it is heard and never again, whatever else is
\* published of the device; a release with the direction of its own hold
\* (bridge.rs 711-718, 1219-1223).
THEOREM PressShownOnce == StateSpec => []ActionShownOnce
<1>1. StateTypes /\ PressShown => ActionShownOnce
  BY NoAction DEF ActionShownOnce, PressShown, ActionOf
<1> QED
  BY <1>1, StateTypesInit, StateTypesStep, ActionInit, ReleasesMatchStep, PressShownStep, PTL
     DEF StateSpec

-----------------------------------------------------------------------------
\* What a lamp does, and what is shown of it.

Attributes == {"state", "brightness", "color_mode"}

ClusterOf(k) == IF k = "state" THEN "on_off" ELSE IF k = "brightness" THEN "level" ELSE "color"

OnOff(level) == IF level = 0 THEN "OFF" ELSE "ON"
Toggled(s) == IF s = "ON" THEN "OFF" ELSE "ON"

\* What becomes of a value of an attribute when a lamp obeys a command.
After(k, v, c) ==
  IF k = "state" /\ c.cluster = "on_off"
  THEN IF c.value = "TOGGLE" THEN Toggled(v) ELSE c.value
  ELSE IF k = "state" /\ c.cluster = "level" THEN OnOff(c.value)
  ELSE IF k # "state" /\ c.cluster = ClusterOf(k) THEN c.value
  ELSE v

\* What is kept of the lamp once the present set command is over, if nothing
\* more is accepted.
View == IF set = NoSet THEN state ELSE Merge(set.optimistic, state)

\* The last report of an attribute on its way says what the lamp does.
LastReported ==
  \A k \in Attributes, i \in DOMAIN up :
    /\ up[i].cluster = ClusterOf(k)
    /\ \A j \in DOMAIN up : j > i => up[j].cluster # ClusterOf(k)
    => up[i].value = device[k]

\* If no report of an attribute is under way and no command that will bring one
\* about, what is known of it is right.
Agreed ==
  \A k \in Attributes \intersect DOMAIN View :
    /\ \A i \in DOMAIN up : up[i].cluster # ClusterOf(k)
    /\ \A i \in DOMAIN down : After(k, device[k], down[i]) = device[k]
    => View[k] = device[k]

\* Commands take an attribute from one value to another.
Leads(k, v, cmds, w) ==
  \E path :
    /\ path[0] = v /\ path[Len(cmds)] = w
    /\ \A i \in 1..Len(cmds) : path[i] = After(k, path[i - 1], cmds[i])

\* What is known of a lamp that does not report is what the commands on their
\* way will make of it.
Foreseen ==
  \A k \in Attributes :
    \E w : /\ Leads(k, device[k], down, w)
           /\ k = "state" => w \in {"ON", "OFF"}
           /\ k \in DOMAIN View => View[k] = w

\* Requests yet to be made: what goes before them, and that they agree.
AskedIn(lamp, kept, command) ==
  command # NoSet =>
    \A i \in DOMAIN command.requests :
      LET r == command.requests[i]
      IN /\ r.cluster = "on_off" =>
              /\ i = 1 /\ command.optimistic = Empty
              /\ command.current = IF "state" \in DOMAIN kept THEN kept["state"] ELSE NoValue
         /\ r.cluster = "level" =>
              /\ "brightness" \notin DOMAIN command.optimistic
              /\ \A j \in DOMAIN command.requests :
                   command.requests[j].cluster = "level" => j = i
              /\ lamp = "silent lamp" =>
                   /\ "state" \in DOMAIN command.optimistic =>
                        command.optimistic["state"] = OnOff(r.value)
                   /\ \A j \in DOMAIN command.requests :
                        command.requests[j].cluster = "on_off" =>
                          command.requests[j].value = OnOff(r.value)

Asking == AskedIn(kind, state, set)

LampGood ==
  /\ published = state
  /\ kind = "silent lamp" => up = <<>>
  /\ kind = "lamp" => LastReported /\ Agreed
  /\ kind = "silent lamp" => Foreseen
  /\ Asking

LampInv == kind \in Lamps /\ ~astray => LampGood

-----------------------------------------------------------------------------
\* Commands and the values they lead to.

LEMMA ObeyedAttribute ==
  ASSUME NEW c \in LampCommand, device \in LampDevice
  PROVE  /\ DOMAIN Obeyed(c) = Attributes
         /\ \A k \in Attributes : Obeyed(c)[k] = After(k, device[k], c)
<1>0. DOMAIN device = Attributes
  BY DEF LampDevice, Attributes
<1>1. CASE c.cluster = "on_off"
  <2>1. Obeyed(c) = [device EXCEPT !.state = CASE c.value = "TOGGLE" ->
                                                  IF @ = "ON" THEN "OFF" ELSE "ON"
                                             [] OTHER -> c.value]
    BY <1>1, Zenon DEF Obeyed
  <2>2. c.value = "TOGGLE" =>
          Obeyed(c) = [device EXCEPT !.state = IF @ = "ON" THEN "OFF" ELSE "ON"]
    BY <2>1, Zenon
  <2>3. c.value # "TOGGLE" => Obeyed(c) = [device EXCEPT !.state = c.value]
    BY <2>1, Zenon
  <2> QED
    BY <1>0, <1>1, <2>2, <2>3 DEF After, Toggled, Attributes, ClusterOf
<1>2. CASE c.cluster = "level"
  <2>1. Obeyed(c) = [device EXCEPT !.brightness = c.value,
                                   !.state = IF c.value = 0 THEN "OFF" ELSE "ON"]
    BY <1>2, Zenon DEF Obeyed
  <2> QED
    BY <1>0, <1>2, <2>1 DEF After, OnOff, Attributes, ClusterOf
<1>3. CASE c.cluster = "color"
  <2>1. Obeyed(c) = [device EXCEPT !.color_mode = c.value]
    BY <1>3, Zenon DEF Obeyed
  <2> QED
    BY <1>0, <1>3, <2>1 DEF After, Attributes, ClusterOf
<1> QED
  BY <1>1, <1>2, <1>3 DEF LampCommand

LEMMA AfterIsState ==
  ASSUME NEW c \in LampCommand, NEW v, v \in {"ON", "OFF"}
  PROVE  After("state", v, c) \in {"ON", "OFF"}
BY DEF After, LampCommand, OnOff, Toggled

LEMMA LeadsNowhere ==
  ASSUME NEW k, NEW v, NEW w
  PROVE  Leads(k, v, <<>>, w) <=> v = w
<1>1. Len(<<>>) = 0
  OBVIOUS
<1>2. ASSUME v = w PROVE Leads(k, v, <<>>, w)
  <2> DEFINE path == [i \in {0} |-> v]
  <2>1. path[0] = v /\ path[Len(<<>>)] = w
    BY <1>1, <1>2
  <2>2. \A i \in 1..Len(<<>>) : FALSE
    BY <1>1
  <2> HIDE DEF path
  <2> QED BY <2>1, <2>2 DEF Leads
<1> QED
  BY <1>1, <1>2 DEF Leads

LEMMA LeadsFurther ==
  ASSUME NEW S, NEW s \in Seq(S), NEW c \in S, NEW k, NEW v, NEW w, Leads(k, v, s, w)
  PROVE  Leads(k, v, Append(s, c), After(k, w, c))
<1> DEFINE t == Append(s, c)
           n == Len(s)
<1>1. PICK path : /\ path[0] = v /\ path[n] = w
                  /\ \A i \in 1..n : path[i] = After(k, path[i - 1], s[i])
  BY DEF Leads
<1>2. /\ n \in Nat /\ Len(t) = n + 1 /\ t[n + 1] = c
      /\ \A i \in 1..n : t[i] = s[i]
  BY Appended
<1> DEFINE longer == [i \in 0..(n + 1) |-> IF i = n + 1 THEN After(k, w, c) ELSE path[i]]
<1> HIDE DEF t, n
<1>3. /\ longer[0] = v /\ longer[n + 1] = After(k, w, c) /\ longer[n] = w
      /\ \A i \in 1..n : longer[i] = path[i] /\ longer[i - 1] = path[i - 1]
  BY <1>1, <1>2
<1> HIDE DEF longer
<1>4. \A i \in 1..(n + 1) : longer[i] = After(k, longer[i - 1], t[i])
  <2>1. SUFFICES ASSUME NEW i \in 1..(n + 1) PROVE longer[i] = After(k, longer[i - 1], t[i])
    OBVIOUS
  <2>2. CASE i = n + 1
    <3>1. i - 1 = n
      BY <1>2, <2>2
    <3> QED BY <1>2, <1>3, <2>2, <3>1
  <2>3. CASE i # n + 1
    <3>1. i \in 1..n
      BY <1>2, <2>3
    <3>2. longer[i] = path[i] /\ longer[i - 1] = path[i - 1] /\ t[i] = s[i]
      BY <1>2, <1>3, <3>1
    <3>3. path[i] = After(k, path[i - 1], s[i])
      BY <1>1, <3>1
    <3> QED BY <3>2, <3>3
  <2> QED BY <2>2, <2>3
<1>5. Leads(k, v, t, After(k, w, c))
  <2>1. Len(t) = n + 1
    BY <1>2
  <2> QED BY <1>3, <1>4, <2>1 DEF Leads
<1> QED
  BY <1>5 DEF t

LEMMA LeadsFromNext ==
  ASSUME NEW S, NEW s \in Seq(S), s # <<>>, NEW k, NEW v, NEW w, Leads(k, v, s, w)
  PROVE  Leads(k, After(k, v, Head(s)), Tail(s), w)
<1> DEFINE t == Tail(s)
           n == Len(s)
<1>1. PICK path : /\ path[0] = v /\ path[n] = w
                  /\ \A i \in 1..n : path[i] = After(k, path[i - 1], s[i])
  BY DEF Leads
<1>2. /\ n \in Nat /\ n >= 1 /\ Head(s) = s[1] /\ Len(t) = n - 1
      /\ \A i \in 1..Len(t) : t[i] = s[i + 1]
  BY HeadTaken
<1> DEFINE rest == [i \in 0..(n - 1) |-> path[i + 1]]
           u == After(k, v, Head(s))
<1> HIDE DEF t, n
<1>3. /\ rest[0] = path[1] /\ rest[n - 1] = w
      /\ \A i \in 1..(n - 1) : rest[i] = path[i + 1] /\ rest[i - 1] = path[i]
  BY <1>1, <1>2
<1>4. path[1] = After(k, path[0], s[1])
  <2>1. 1 \in 1..n /\ 1 - 1 = 0
    BY <1>2
  <2> QED BY <1>1, <2>1
<1>5. rest[0] = u
  BY <1>1, <1>2, <1>3, <1>4
<1> HIDE DEF rest, u
<1>6. \A i \in 1..(n - 1) : rest[i] = After(k, rest[i - 1], t[i])
  <2>1. SUFFICES ASSUME NEW i \in 1..(n - 1) PROVE rest[i] = After(k, rest[i - 1], t[i])
    OBVIOUS
  <2>2. i + 1 \in 1..n /\ (i + 1) - 1 = i /\ i \in 1..Len(t)
    BY <1>2
  <2>3. path[i + 1] = After(k, path[i], s[i + 1])
    BY <1>1, <2>2
  <2> QED BY <1>2, <1>3, <2>2, <2>3
<1>7. Leads(k, u, t, w)
  <2>1. Len(t) = n - 1
    BY <1>2
  <2> QED BY <1>3, <1>5, <1>6, <2>1 DEF Leads
<1> QED
  BY <1>7 DEF t, u

-----------------------------------------------------------------------------
\* What requests, reports and the optimistic state say.

\* What will be kept of the lamp, and what once a request more is accepted.
Kept == Merge(set.optimistic, state)
KeptAfter(c) == Merge(Optimistic(c, set.current, set.optimistic), state)

LEMMA MergedKept ==
  ASSUME NEW c
  PROVE  LET o == set.optimistic
             p == Optimistic(c, set.current, set.optimistic)
         IN /\ DOMAIN Kept = DOMAIN o \union DOMAIN state
            /\ \A k \in DOMAIN o : Kept[k] = o[k]
            /\ \A k \in DOMAIN state \ DOMAIN o : Kept[k] = state[k]
            /\ DOMAIN KeptAfter(c) = DOMAIN p \union DOMAIN state
            /\ \A k \in DOMAIN p : KeptAfter(c)[k] = p[k]
            /\ \A k \in DOMAIN state \ DOMAIN p : KeptAfter(c)[k] = state[k]
<1> DEFINE p == Optimistic(c, set.current, set.optimistic)
           o == set.optimistic
<1> HIDE DEF o, p
<1>1. /\ DOMAIN Merge(o, state) = DOMAIN o \union DOMAIN state
      /\ \A k \in DOMAIN o : Merge(o, state)[k] = o[k]
      /\ \A k \in DOMAIN state \ DOMAIN o : Merge(o, state)[k] = state[k]
  BY Merged
<1>2. /\ DOMAIN Merge(p, state) = DOMAIN p \union DOMAIN state
      /\ \A k \in DOMAIN p : Merge(p, state)[k] = p[k]
      /\ \A k \in DOMAIN state \ DOMAIN p : Merge(p, state)[k] = state[k]
  BY Merged
<1>3. Kept = Merge(o, state) /\ KeptAfter(c) = Merge(p, state)
  BY DEF Kept, KeptAfter, o, p
<1>4. /\ DOMAIN Kept = DOMAIN o \union DOMAIN state
      /\ \A k \in DOMAIN o : Kept[k] = o[k]
      /\ \A k \in DOMAIN state \ DOMAIN o : Kept[k] = state[k]
      /\ DOMAIN KeptAfter(c) = DOMAIN p \union DOMAIN state
      /\ \A k \in DOMAIN p : KeptAfter(c)[k] = p[k]
      /\ \A k \in DOMAIN state \ DOMAIN p : KeptAfter(c)[k] = state[k]
  BY <1>1, <1>2, <1>3
<1> QED
  BY <1>4 DEF o, p

LEMMA ColorAccepted ==
  ASSUME NEW c \in LampCommand, c.cluster = "color"
  PROVE  /\ DOMAIN KeptAfter(c) = DOMAIN Kept \union {"color_mode"}
         /\ KeptAfter(c)["color_mode"] = c.value
         /\ \A k \in DOMAIN Kept \ {"color_mode"} : KeptAfter(c)[k] = Kept[k]
<1> DEFINE o == set.optimistic
           p == Optimistic(c, set.current, set.optimistic)
           new == [color_mode |-> c.value]
<1>1. p = Merge(new, o)
  BY Zenon DEF Optimistic, LampCommand
<1>2. DOMAIN new = {"color_mode"} /\ new["color_mode"] = c.value
  OBVIOUS
<1>3. /\ DOMAIN Kept = DOMAIN o \union DOMAIN state
      /\ \A k \in DOMAIN o : Kept[k] = o[k]
      /\ \A k \in DOMAIN state \ DOMAIN o : Kept[k] = state[k]
      /\ DOMAIN KeptAfter(c) = DOMAIN p \union DOMAIN state
      /\ \A k \in DOMAIN p : KeptAfter(c)[k] = p[k]
      /\ \A k \in DOMAIN state \ DOMAIN p : KeptAfter(c)[k] = state[k]
  BY MergedKept
<1> HIDE DEF new, p, o
<1>4. /\ DOMAIN Merge(new, o) = DOMAIN new \union DOMAIN o
      /\ \A k \in DOMAIN new : Merge(new, o)[k] = new[k]
      /\ \A k \in DOMAIN o \ DOMAIN new : Merge(new, o)[k] = o[k]
  BY Merged
<1>5. /\ DOMAIN p = DOMAIN o \union {"color_mode"} /\ p["color_mode"] = c.value
      /\ \A k \in DOMAIN o \ {"color_mode"} : p[k] = o[k]
  BY <1>1, <1>2, <1>4
<1> QED
  BY <1>3, <1>5

LEMMA LevelAccepted ==
  ASSUME NEW c \in LampCommand, c.cluster = "level",
         "brightness" \notin DOMAIN set.optimistic
  PROVE  /\ DOMAIN KeptAfter(c) = DOMAIN Kept \union {"brightness", "state"}
         /\ KeptAfter(c)["brightness"] = c.value
         /\ "state" \in DOMAIN set.optimistic =>
              /\ "state" \in DOMAIN Kept /\ Kept["state"] = set.optimistic["state"]
              /\ KeptAfter(c)["state"] = set.optimistic["state"]
         /\ "state" \notin DOMAIN set.optimistic => KeptAfter(c)["state"] = OnOff(c.value)
         /\ \A k \in DOMAIN Kept \ {"brightness", "state"} : KeptAfter(c)[k] = Kept[k]
<1> DEFINE o == set.optimistic
           p == Optimistic(c, set.current, set.optimistic)
           new == [brightness |-> c.value, state |-> IF c.value = 0 THEN "OFF" ELSE "ON"]
<1>1. p = Merge(o, new)
  BY Zenon DEF Optimistic
<1>2. /\ DOMAIN new = {"brightness", "state"} /\ new["brightness"] = c.value
      /\ new["state"] = OnOff(c.value)
  BY DEF OnOff
<1>3. /\ DOMAIN Kept = DOMAIN o \union DOMAIN state
      /\ \A k \in DOMAIN o : Kept[k] = o[k]
      /\ \A k \in DOMAIN state \ DOMAIN o : Kept[k] = state[k]
      /\ DOMAIN KeptAfter(c) = DOMAIN p \union DOMAIN state
      /\ \A k \in DOMAIN p : KeptAfter(c)[k] = p[k]
      /\ \A k \in DOMAIN state \ DOMAIN p : KeptAfter(c)[k] = state[k]
  BY MergedKept
<1>4. "brightness" \notin DOMAIN o
  OBVIOUS
<1> HIDE DEF new, p, o
<1>5. /\ DOMAIN Merge(o, new) = DOMAIN o \union DOMAIN new
      /\ \A k \in DOMAIN o : Merge(o, new)[k] = o[k]
      /\ \A k \in DOMAIN new \ DOMAIN o : Merge(o, new)[k] = new[k]
  BY Merged
<1>6. /\ DOMAIN p = DOMAIN o \union {"brightness", "state"}
      /\ \A k \in DOMAIN o : p[k] = o[k]
      /\ p["brightness"] = c.value
      /\ "state" \notin DOMAIN o => p["state"] = OnOff(c.value)
  BY <1>1, <1>2, <1>4, <1>5
<1> QED
  BY <1>3, <1>6 DEF o

LEMMA OnOffAccepted ==
  ASSUME NEW c \in LampCommand, c.cluster = "on_off", set.optimistic = Empty
  PROVE  /\ "state" \in DOMAIN state <=> "state" \in DOMAIN Kept
         /\ "state" \in DOMAIN state => state["state"] = Kept["state"]
         /\ DOMAIN KeptAfter(c) \ {"state"} = DOMAIN Kept \ {"state"}
         /\ \A k \in DOMAIN Kept \ {"state"} : KeptAfter(c)[k] = Kept[k]
         /\ c.value # "TOGGLE" => KeptAfter(c)["state"] = c.value
         /\ c.value = "TOGGLE" /\ set.current \in {"ON", "OFF"} =>
              KeptAfter(c)["state"] = Toggled(set.current)
         /\ c.value = "TOGGLE" /\ set.current \notin {"ON", "OFF"} => KeptAfter(c) = Kept
<1> DEFINE o == set.optimistic
           p == Optimistic(c, set.current, set.optimistic)
           current == set.current
<1>1. p = OptimisticOnOff(c.value, current)
  BY Zenon DEF Optimistic
<1>2. /\ DOMAIN Kept = DOMAIN o \union DOMAIN state
      /\ \A k \in DOMAIN o : Kept[k] = o[k]
      /\ \A k \in DOMAIN state \ DOMAIN o : Kept[k] = state[k]
      /\ DOMAIN KeptAfter(c) = DOMAIN p \union DOMAIN state
      /\ \A k \in DOMAIN p : KeptAfter(c)[k] = p[k]
      /\ \A k \in DOMAIN state \ DOMAIN p : KeptAfter(c)[k] = state[k]
  BY MergedKept
<1>3. DOMAIN o = {}
  BY EmptyState
<1>4. p = o => KeptAfter(c) = Kept
  BY DEF Kept, KeptAfter
<1> HIDE DEF p
<1>5. c.value # "TOGGLE" => p = [state |-> c.value]
  BY <1>1, Zenon DEF OptimisticOnOff
<1>6. c.value = "TOGGLE" /\ current = "ON" => p = [state |-> "OFF"]
  BY <1>1, Zenon DEF OptimisticOnOff
<1>7. c.value = "TOGGLE" /\ current = "OFF" => p = [state |-> "ON"]
  BY <1>1, Zenon DEF OptimisticOnOff
<1>8. c.value = "TOGGLE" /\ current \notin {"ON", "OFF"} => p = Empty
  BY <1>1, Zenon DEF OptimisticOnOff
<1> DEFINE Only(x) == DOMAIN p = {"state"} /\ p["state"] = x
<1>9. /\ c.value # "TOGGLE" => Only(c.value)
      /\ c.value = "TOGGLE" /\ current \in {"ON", "OFF"} => Only(Toggled(current))
  <2>1. \A x : DOMAIN [state |-> x] = {"state"} /\ [state |-> x]["state"] = x
    OBVIOUS
  <2> QED BY <1>5, <1>6, <1>7, <2>1 DEF Toggled
<1>10. CASE c.value # "TOGGLE"
  <2> HIDE DEF o
  <2> QED BY <1>2, <1>3, <1>9, <1>10
<1>11. CASE c.value = "TOGGLE" /\ current \in {"ON", "OFF"}
  <2> HIDE DEF o
  <2> QED BY <1>2, <1>3, <1>9, <1>11
<1>12. CASE c.value = "TOGGLE" /\ current \notin {"ON", "OFF"}
  <2>1. KeptAfter(c) = Kept
    BY <1>4, <1>8, <1>12
  <2> HIDE DEF o
  <2> QED BY <1>2, <1>3, <1>12, <2>1
<1> QED
  BY <1>10, <1>11, <1>12

LEMMA JoinedAt ==
  ASSUME NEW S, NEW s \in Seq(S), NEW t \in Seq(S)
  PROVE  /\ s \o t \in Seq(S) /\ Len(s) \in Nat /\ Len(t) \in Nat
         /\ Len(s \o t) = Len(s) + Len(t)
         /\ DOMAIN s = 1..Len(s) /\ DOMAIN t = 1..Len(t) /\ DOMAIN (s \o t) = 1..(Len(s) + Len(t))
         /\ \A i \in 1..Len(s) : (s \o t)[i] = s[i]
         /\ \A i \in 1..Len(t) : (s \o t)[Len(s) + i] = t[i]
         /\ \A i \in (Len(s) + 1)..(Len(s) + Len(t)) : (s \o t)[i] = t[i - Len(s)] /\ i - Len(s) \in 1..Len(t)
OBVIOUS

\* A sequence of one element, if any.
LEMMA AtMostOne ==
  ASSUME NEW e, NEW test
  PROVE  LET s == IF test THEN <<e>> ELSE <<>>
         IN /\ Len(s) = IF test THEN 1 ELSE 0
            /\ \A i \in 1..Len(s) : i = 1 /\ s[i] = e /\ test
<1>1. CASE test
  BY <1>1
<1>2. CASE ~test
  BY <1>2
<1> QED
  BY <1>1, <1>2

\* The state goes first, and one level is asked for at most.
LEMMA RequestsInOrder ==
  ASSUME NEW p \in Payloads
  PROVE  \A i \in DOMAIN Requests(p) :
           /\ Requests(p)[i].cluster = "on_off" =>
                i = 1 /\ "state" \in DOMAIN p /\ Requests(p)[i].value = p["state"]
           /\ Requests(p)[i].cluster = "level" =>
                /\ "brightness" \in DOMAIN p /\ Requests(p)[i].value = p["brightness"]
                /\ \A j \in DOMAIN Requests(p) : Requests(p)[j].cluster = "level" => j = i
<1> DEFINE Of(key, cluster) ==
      IF key \in DOMAIN p THEN <<Command(cluster, p[key])>> ELSE <<>>
           a == Of("state", "on_off")
           b == Of("brightness", "level")
           c == Of("color_temp", "color")
           d == Of("color", "color")
<1>1. /\ a \in Seq(LampRequest) /\ Len(a) \in {0, 1}
      /\ \A i \in 1..Len(a) : /\ i = 1 /\ a[i].cluster = "on_off" /\ a[i].value = p["state"]
                              /\ "state" \in DOMAIN p
  <2>1. "state" \in DOMAIN p => Command("on_off", p["state"]) \in LampRequest
    BY PayloadAssumption DEF LampRequest, Command
  <2>2. a \in Seq(LampRequest)
    BY <2>1, Single
  <2>3. Command("on_off", p["state"]).cluster = "on_off"
        /\ Command("on_off", p["state"]).value = p["state"]
    BY DEF Command
  <2> QED BY <2>2, <2>3, AtMostOne
<1>2. /\ b \in Seq(LampRequest) /\ Len(b) \in {0, 1}
      /\ \A i \in 1..Len(b) : /\ i = 1 /\ b[i].cluster = "level" /\ b[i].value = p["brightness"]
                              /\ "brightness" \in DOMAIN p
  <2>1. "brightness" \in DOMAIN p => Command("level", p["brightness"]) \in LampRequest
    BY PayloadAssumption DEF LampRequest, Command
  <2>2. b \in Seq(LampRequest)
    BY <2>1, Single
  <2>3. Command("level", p["brightness"]).cluster = "level"
        /\ Command("level", p["brightness"]).value = p["brightness"]
    BY DEF Command
  <2> QED BY <2>2, <2>3, AtMostOne
<1>3. c \in Seq(LampRequest) /\ \A i \in 1..Len(c) : c[i].cluster = "color"
  <2>1. "color_temp" \in DOMAIN p => Command("color", p["color_temp"]) \in LampRequest
    BY PayloadAssumption DEF LampRequest, Command, Modes
  <2>2. c \in Seq(LampRequest)
    BY <2>1, Single
  <2>3. Command("color", p["color_temp"]).cluster = "color"
    BY DEF Command
  <2> QED BY <2>2, <2>3, AtMostOne
<1>4. d \in Seq(LampRequest) /\ \A i \in 1..Len(d) : d[i].cluster = "color"
  <2>1. "color" \in DOMAIN p => Command("color", p["color"]) \in LampRequest
    BY PayloadAssumption DEF LampRequest, Command, Modes
  <2>2. d \in Seq(LampRequest)
    BY <2>1, Single
  <2>3. Command("color", p["color"]).cluster = "color"
    BY DEF Command
  <2> QED BY <2>2, <2>3, AtMostOne
<1>5. Requests(p) = ((a \o b) \o c) \o d
  BY DEF Requests
<1> HIDE DEF a, b, c, d
<1> DEFINE ab == a \o b
           abc == ab \o c
           r == abc \o d
<1>6. /\ ab \in Seq(LampRequest) /\ Len(ab) = Len(a) + Len(b) /\ Len(ab) \in Nat
      /\ \A i \in 1..Len(a) : ab[i] = a[i]
      /\ \A i \in (Len(a) + 1)..(Len(a) + Len(b)) : ab[i] = b[i - Len(a)] /\ i - Len(a) \in 1..Len(b)
  BY <1>1, <1>2, JoinedAt
<1> HIDE DEF ab
<1>7. /\ abc \in Seq(LampRequest) /\ Len(abc) = Len(ab) + Len(c) /\ Len(abc) \in Nat /\ Len(c) \in Nat
      /\ \A i \in 1..Len(ab) : abc[i] = ab[i]
      /\ \A i \in (Len(ab) + 1)..(Len(ab) + Len(c)) : abc[i] = c[i - Len(ab)] /\ i - Len(ab) \in 1..Len(c)
  <2>1. ab \in Seq(LampRequest) /\ c \in Seq(LampRequest)
    BY <1>3, <1>6
  <2> QED BY <2>1, JoinedAt
<1> HIDE DEF abc
<1>8. /\ Len(d) \in Nat /\ DOMAIN r = 1..(Len(abc) + Len(d))
      /\ \A i \in 1..Len(abc) : r[i] = abc[i]
      /\ \A i \in (Len(abc) + 1)..(Len(abc) + Len(d)) : r[i] = d[i - Len(abc)] /\ i - Len(abc) \in 1..Len(d)
  <2>1. abc \in Seq(LampRequest) /\ d \in Seq(LampRequest)
    BY <1>4, <1>7
  <2> QED BY <2>1, JoinedAt
<1> HIDE DEF r
<1>9. ASSUME NEW i \in DOMAIN r
      PROVE  \/ i \in 1..Len(a) /\ r[i] = a[i]
             \/ i \in (Len(a) + 1)..(Len(a) + Len(b)) /\ r[i] = b[i - Len(a)] /\ i - Len(a) \in 1..Len(b)
             \/ r[i].cluster = "color"
  <2>1. CASE i \in (Len(abc) + 1)..(Len(abc) + Len(d))
    BY <1>4, <1>8, <2>1
  <2>2. CASE i \in (Len(ab) + 1)..(Len(ab) + Len(c))
    <3>1. i \in 1..Len(abc)
      BY <1>6, <1>7, <2>2
    <3> QED BY <1>3, <1>7, <1>8, <2>2, <3>1
  <2>3. CASE i \in 1..Len(ab)
    <3>1. i \in 1..Len(abc)
      BY <1>6, <1>7, <2>3
    <3>2. r[i] = ab[i]
      BY <1>7, <1>8, <2>3, <3>1
    <3>3. i \in 1..Len(a) \/ i \in (Len(a) + 1)..(Len(a) + Len(b))
      BY <1>1, <1>2, <1>6, <2>3
    <3> QED BY <1>6, <3>2, <3>3
  <2> QED BY <1>6, <1>7, <1>8, <2>1, <2>2, <2>3
<1>10. \A i \in DOMAIN r :
         /\ r[i].cluster = "on_off" => i = 1 /\ "state" \in DOMAIN p /\ r[i].value = p["state"]
         /\ r[i].cluster = "level" =>
              i = Len(a) + 1 /\ "brightness" \in DOMAIN p /\ r[i].value = p["brightness"]
  <2>1. SUFFICES ASSUME NEW i \in DOMAIN r
                 PROVE  /\ r[i].cluster = "on_off" =>
                             i = 1 /\ "state" \in DOMAIN p /\ r[i].value = p["state"]
                        /\ r[i].cluster = "level" =>
                             i = Len(a) + 1 /\ "brightness" \in DOMAIN p /\ r[i].value = p["brightness"]
    OBVIOUS
  <2>2. CASE i \in 1..Len(a) /\ r[i] = a[i]
    BY <1>1, <2>2
  <2>3. CASE i \in (Len(a) + 1)..(Len(a) + Len(b)) /\ r[i] = b[i - Len(a)] /\ i - Len(a) \in 1..Len(b)
    BY <1>1, <1>2, <2>3
  <2>4. CASE r[i].cluster = "color"
    BY <2>4
  <2> QED BY <1>9, <2>2, <2>3, <2>4
<1>11. Requests(p) = r
  BY <1>5 DEF r, abc, ab
<1> QED
  BY <1>10, <1>11

\* A lamp reports what changes, each attribute once, and nothing else.
LEMMA ReportedChanges ==
  ASSUME NEW new \in LampDevice, kind \in Lamps
  PROVE  /\ \A i \in DOMAIN Reported(new), k \in Attributes :
              Reported(new)[i].cluster = ClusterOf(k) =>
                Reported(new)[i].value = new[k] /\ new[k] # device[k]
         /\ kind = "lamp" => \A k \in Attributes :
              new[k] # device[k] => \E i \in DOMAIN Reported(new) : Reported(new)[i].cluster = ClusterOf(k)
         /\ kind # "lamp" => Reported(new) = <<>>
<1> DEFINE Of(key, cluster) ==
      IF kind = "lamp" /\ new[key] # device[key] THEN <<Report(cluster, new[key])>> ELSE <<>>
           a == Of("state", "on_off")
           b == Of("brightness", "level")
           c == Of("color_mode", "color")
<1>1. /\ a \in Seq(LampReport) /\ Len(a) = IF kind = "lamp" /\ new["state"] # device["state"] THEN 1 ELSE 0
      /\ \A i \in 1..Len(a) : /\ i = 1 /\ a[i].cluster = "on_off" /\ a[i].value = new["state"]
                              /\ new["state"] # device["state"]
  <2>1. Report("on_off", new["state"]) \in LampReport
    BY DEF LampDevice, LampReport, Report
  <2>2. a \in Seq(LampReport)
    BY <2>1, Single
  <2>3. Report("on_off", new["state"]).cluster = "on_off" /\ Report("on_off", new["state"]).value = new["state"]
    BY DEF Report
  <2> QED BY <2>2, <2>3, AtMostOne
<1>2. /\ b \in Seq(LampReport)
      /\ Len(b) = IF kind = "lamp" /\ new["brightness"] # device["brightness"] THEN 1 ELSE 0
      /\ \A i \in 1..Len(b) : /\ i = 1 /\ b[i].cluster = "level" /\ b[i].value = new["brightness"]
                              /\ new["brightness"] # device["brightness"]
  <2>1. Report("level", new["brightness"]) \in LampReport
    BY DEF LampDevice, LampReport, Report
  <2>2. b \in Seq(LampReport)
    BY <2>1, Single
  <2>3. /\ Report("level", new["brightness"]).cluster = "level"
        /\ Report("level", new["brightness"]).value = new["brightness"]
    BY DEF Report
  <2> QED BY <2>2, <2>3, AtMostOne
<1>3. /\ c \in Seq(LampReport)
      /\ Len(c) = IF kind = "lamp" /\ new["color_mode"] # device["color_mode"] THEN 1 ELSE 0
      /\ \A i \in 1..Len(c) : /\ i = 1 /\ c[i].cluster = "color" /\ c[i].value = new["color_mode"]
                              /\ new["color_mode"] # device["color_mode"]
  <2>1. Report("color", new["color_mode"]) \in LampReport
    BY DEF LampDevice, LampReport, Report
  <2>2. c \in Seq(LampReport)
    BY <2>1, Single
  <2>3. /\ Report("color", new["color_mode"]).cluster = "color"
        /\ Report("color", new["color_mode"]).value = new["color_mode"]
    BY DEF Report
  <2> QED BY <2>2, <2>3, AtMostOne
<1>4. Reported(new) = (a \o b) \o c
  BY DEF Reported
<1>5. kind # "lamp" => Reported(new) = <<>>
  BY DEF Reported
<1> HIDE DEF a, b, c
<1> DEFINE ab == a \o b
           r == ab \o c
<1>6. /\ ab \in Seq(LampReport) /\ Len(ab) = Len(a) + Len(b) /\ Len(a) \in Nat /\ Len(b) \in Nat
      /\ \A i \in 1..Len(a) : ab[i] = a[i]
      /\ \A i \in 1..Len(b) : ab[Len(a) + i] = b[i]
      /\ \A i \in (Len(a) + 1)..(Len(a) + Len(b)) : ab[i] = b[i - Len(a)] /\ i - Len(a) \in 1..Len(b)
  BY <1>1, <1>2, JoinedAt
<1> HIDE DEF ab
<1>7. /\ DOMAIN r = 1..(Len(ab) + Len(c)) /\ Len(c) \in Nat /\ Len(ab) \in Nat
      /\ \A i \in 1..Len(ab) : r[i] = ab[i]
      /\ \A i \in 1..Len(c) : r[Len(ab) + i] = c[i]
      /\ \A i \in (Len(ab) + 1)..(Len(ab) + Len(c)) : r[i] = c[i - Len(ab)] /\ i - Len(ab) \in 1..Len(c)
  <2>1. ab \in Seq(LampReport) /\ c \in Seq(LampReport)
    BY <1>3, <1>6
  <2> QED BY <2>1, JoinedAt
<1> HIDE DEF r
<1>8. ASSUME NEW i \in DOMAIN r, NEW k \in Attributes, r[i].cluster = ClusterOf(k)
      PROVE  r[i].value = new[k] /\ new[k] # device[k]
  <2>1. CASE i \in (Len(ab) + 1)..(Len(ab) + Len(c))
    BY <1>3, <1>7, <1>8, <2>1 DEF ClusterOf, Attributes
  <2>2. CASE i \in 1..Len(ab)
    <3>1. r[i] = ab[i]
      BY <1>7, <2>2
    <3>2. CASE i \in 1..Len(a)
      BY <1>1, <1>6, <1>8, <3>1, <3>2 DEF ClusterOf, Attributes
    <3>3. CASE i \in (Len(a) + 1)..(Len(a) + Len(b))
      BY <1>2, <1>6, <1>8, <3>1, <3>3 DEF ClusterOf, Attributes
    <3> QED BY <1>6, <2>2, <3>2, <3>3
  <2> QED BY <1>7, <2>1, <2>2
<1>9. ASSUME kind = "lamp", NEW k \in Attributes, new[k] # device[k]
      PROVE  \E i \in DOMAIN r : r[i].cluster = ClusterOf(k)
  <2>1. CASE k = "state"
    <3>1. 1 \in 1..Len(a) /\ 1 \in 1..Len(ab) /\ 1 \in DOMAIN r
      BY <1>1, <1>6, <1>7, <1>9, <2>1
    <3> QED BY <1>1, <1>6, <1>7, <2>1, <3>1 DEF ClusterOf
  <2>2. CASE k = "brightness"
    <3>1. 1 \in 1..Len(b) /\ Len(a) + 1 \in 1..Len(ab) /\ Len(a) + 1 \in DOMAIN r
      BY <1>2, <1>6, <1>7, <1>9, <2>2
    <3>2. ab[Len(a) + 1] = b[1]
      BY <1>6, <3>1
    <3>3. r[Len(a) + 1] = b[1]
      BY <1>7, <3>1, <3>2
    <3> QED BY <1>2, <2>2, <3>1, <3>3 DEF ClusterOf
  <2>3. CASE k = "color_mode"
    <3>1. 1 \in 1..Len(c) /\ Len(ab) + 1 \in DOMAIN r
      BY <1>3, <1>6, <1>7, <1>9, <2>3
    <3> QED BY <1>3, <1>7, <2>3, <3>1 DEF ClusterOf
  <2> QED BY <2>1, <2>2, <2>3 DEF Attributes
<1>10. Reported(new) = r
  BY <1>4 DEF r, ab
<1> QED
  BY <1>5, <1>8, <1>9, <1>10

\* What a request adds.
LEMMA OptimisticAdds ==
  ASSUME NEW c \in LampCommand
  PROVE  LET o == set.optimistic
             p == Optimistic(c, set.current, o)
         IN /\ c.cluster = "on_off" =>
                 DOMAIN p \subseteq {"state"} /\ (c.value # "TOGGLE" => p["state"] = c.value)
            /\ c.cluster = "color" =>
                 /\ DOMAIN p = DOMAIN o \union {"color_mode"}
                 /\ "state" \in DOMAIN o => p["state"] = o["state"]
<1> DEFINE o == set.optimistic
           current == set.current
           p == Optimistic(c, current, o)
<1> HIDE DEF o, current
<1>1. ASSUME c.cluster = "on_off"
      PROVE  DOMAIN p \subseteq {"state"} /\ (c.value # "TOGGLE" => p["state"] = c.value)
  <2>1. p = OptimisticOnOff(c.value, current)
    BY <1>1, Zenon DEF Optimistic
  <2>2. c.value # "TOGGLE" => p = [state |-> c.value]
    BY <2>1, Zenon DEF OptimisticOnOff
  <2>3. c.value = "TOGGLE" /\ current = "ON" => p = [state |-> "OFF"]
    BY <2>1, Zenon DEF OptimisticOnOff
  <2>4. c.value = "TOGGLE" /\ current = "OFF" => p = [state |-> "ON"]
    BY <2>1, Zenon DEF OptimisticOnOff
  <2>5. c.value = "TOGGLE" /\ current \notin {"ON", "OFF"} => p = Empty
    BY <2>1, Zenon DEF OptimisticOnOff
  <2> HIDE DEF p
  <2> QED BY <2>2, <2>3, <2>4, <2>5, EmptyState
<1>2. ASSUME c.cluster = "color"
      PROVE  /\ DOMAIN p = DOMAIN o \union {"color_mode"}
             /\ "state" \in DOMAIN o => p["state"] = o["state"]
  <2> DEFINE new == [color_mode |-> c.value]
  <2>1. p = Merge(new, o)
    BY <1>2, Zenon DEF Optimistic
  <2>2. DOMAIN new = {"color_mode"}
    OBVIOUS
  <2> HIDE DEF new, p
  <2>3. /\ DOMAIN Merge(new, o) = DOMAIN new \union DOMAIN o
        /\ \A k \in DOMAIN o \ DOMAIN new : Merge(new, o)[k] = o[k]
    BY Merged
  <2> QED BY <2>1, <2>2, <2>3
<1> QED
  BY <1>1, <1>2 DEF o, current

\* If what is known of an attribute is right, so it is once a request more is
\* accepted, for what the lamp will make of that.
LEMMA AcceptedValue ==
  ASSUME NEW c \in LampCommand, NEW k \in Attributes, NEW x,
         k = "state" => x \in {"ON", "OFF"},
         k \in DOMAIN Kept => Kept[k] = x,
         k \in DOMAIN KeptAfter(c),
         c.cluster = "on_off" =>
           /\ set.optimistic = Empty
           /\ set.current = IF "state" \in DOMAIN state THEN state["state"] ELSE NoValue,
         c.cluster = "level" =>
           /\ "brightness" \notin DOMAIN set.optimistic
           /\ k = "state" /\ "state" \in DOMAIN set.optimistic =>
                set.optimistic["state"] = OnOff(c.value) \/ After(k, x, c) = x
  PROVE  KeptAfter(c)[k] = After(k, x, c)
<1>1. CASE c.cluster = "color"
  <2>1. /\ KeptAfter(c)["color_mode"] = c.value
        /\ DOMAIN KeptAfter(c) = DOMAIN Kept \union {"color_mode"}
        /\ \A l \in DOMAIN Kept \ {"color_mode"} : KeptAfter(c)[l] = Kept[l]
    BY <1>1, ColorAccepted
  <2> QED BY <1>1, <2>1 DEF After, ClusterOf, Attributes
<1>2. CASE c.cluster = "level"
  <2>1. /\ DOMAIN KeptAfter(c) = DOMAIN Kept \union {"brightness", "state"}
        /\ KeptAfter(c)["brightness"] = c.value
        /\ "state" \in DOMAIN set.optimistic =>
             /\ "state" \in DOMAIN Kept /\ Kept["state"] = set.optimistic["state"]
             /\ KeptAfter(c)["state"] = set.optimistic["state"]
        /\ "state" \notin DOMAIN set.optimistic => KeptAfter(c)["state"] = OnOff(c.value)
        /\ \A l \in DOMAIN Kept \ {"brightness", "state"} : KeptAfter(c)[l] = Kept[l]
    BY <1>2, LevelAccepted
  <2>2. k = "state" => After(k, x, c) = OnOff(c.value)
    BY <1>2 DEF After
  <2>3. CASE k = "state"
    BY <1>2, <2>1, <2>2, <2>3
  <2>4. CASE k # "state"
    BY <1>2, <2>1, <2>4 DEF After, ClusterOf, Attributes
  <2> QED BY <2>3, <2>4
<1>3. CASE c.cluster = "on_off"
  <2>1. /\ "state" \in DOMAIN state <=> "state" \in DOMAIN Kept
        /\ "state" \in DOMAIN state => state["state"] = Kept["state"]
        /\ DOMAIN KeptAfter(c) \ {"state"} = DOMAIN Kept \ {"state"}
        /\ \A l \in DOMAIN Kept \ {"state"} : KeptAfter(c)[l] = Kept[l]
        /\ c.value # "TOGGLE" => KeptAfter(c)["state"] = c.value
        /\ c.value = "TOGGLE" /\ set.current \in {"ON", "OFF"} =>
             KeptAfter(c)["state"] = Toggled(set.current)
        /\ c.value = "TOGGLE" /\ set.current \notin {"ON", "OFF"} => KeptAfter(c) = Kept
    BY <1>3, OnOffAccepted
  <2>2. CASE k # "state"
    BY <1>3, <2>1, <2>2 DEF After, ClusterOf, Attributes
  <2>3. CASE k = "state" /\ c.value # "TOGGLE"
    BY <1>3, <2>1, <2>3 DEF After
  <2>4. CASE k = "state" /\ c.value = "TOGGLE"
    <3>1. After(k, x, c) = Toggled(x)
      BY <1>3, <2>4 DEF After
    <3>2. CASE "state" \in DOMAIN state
      <4>1. set.current = x
        BY <1>3, <2>1, <2>4, <3>2
      <4> QED BY <2>1, <2>4, <3>1, <4>1
    <3>3. CASE "state" \notin DOMAIN state
      <4>1. set.current \notin {"ON", "OFF"}
        BY <1>3, <3>3, DeviceAssumption
      <4> QED BY <2>1, <2>4, <3>3, <4>1
    <3> QED BY <3>2, <3>3
  <2> QED BY <2>2, <2>3, <2>4
<1> QED
  BY <1>1, <1>2, <1>3 DEF LampCommand

\* What a lamp's report says.
LEMMA ReportSays ==
  ASSUME NEW f \in LampReport
  PROVE  \E k \in Attributes :
           /\ f.cluster = ClusterOf(k)
           /\ k \in DOMAIN Values(f) /\ Values(f)[k] = f.value
           /\ \A l \in Attributes : l # k => l \notin DOMAIN Values(f)
<1>1. CASE f.cluster = "on_off"
  <2>1. Values(f) = [state |-> f.value]
    BY <1>1, ValuesOf
  <2> QED BY <1>1, <2>1 DEF Attributes, ClusterOf
<1>2. CASE f.cluster = "level"
  <2>1. Values(f) = Level(f.value)
    BY <1>2, ValuesOf
  <2>2. DOMAIN Level(f.value) = {"brightness", "brightness_percent"}
        /\ Level(f.value)["brightness"] = f.value
    BY DEF Level
  <2> QED BY <1>2, <2>1, <2>2 DEF Attributes, ClusterOf
<1>3. CASE f.cluster = "color"
  <2>1. Values(f) = [color_mode |-> f.value]
    BY <1>3, ValuesOf
  <2> QED BY <1>3, <2>1 DEF Attributes, ClusterOf
<1> QED
  BY <1>1, <1>2, <1>3 DEF LampReport

LEMMA ClustersDiffer ==
  ASSUME NEW k \in Attributes, NEW l \in Attributes, ClusterOf(k) = ClusterOf(l)
  PROVE  k = l
BY DEF ClusterOf, Attributes

-----------------------------------------------------------------------------
\* Steps.

\* A step that leaves the lamp, what is under way and what is known of it alone.
LEMMA SameView ==
  ASSUME LampGood, UNCHANGED <<kind, device, up, down>>, published' = state', Asking',
         DOMAIN View' = DOMAIN View, \A k \in DOMAIN View : View'[k] = View[k]
  PROVE  LampGood'
<1>1. LastReported => LastReported'
  BY DEF LastReported
<1>2. Agreed => Agreed'
  <2> HIDE DEF View
  <2> QED BY DEF Agreed
<1>3. Foreseen => Foreseen'
  <2>1. SUFFICES ASSUME Foreseen, NEW k \in Attributes
                 PROVE  \E w : /\ Leads(k, device'[k], down', w)
                               /\ k = "state" => w \in {"ON", "OFF"}
                               /\ k \in DOMAIN View' => View'[k] = w
    BY DEF Foreseen, Leads, After
  <2>2. PICK w : /\ Leads(k, device[k], down, w)
                 /\ k = "state" => w \in {"ON", "OFF"}
                 /\ k \in DOMAIN View => View[k] = w
    BY <2>1 DEF Foreseen
  <2> QED BY <2>2
<1> QED
  BY <1>1, <1>2, <1>3 DEF LampGood

LEMMA SameAsking ==
  ASSUME Asking, UNCHANGED <<kind, state, set>> PROVE Asking'
BY DEF Asking

LEMMA NothingAsked ==
  ASSUME set' = NoSet PROVE Asking'
BY DEF Asking, AskedIn

LEMMA SetIsUnderWay ==
  ASSUME NEW r, NEW o, NEW c
  PROVE  [requests |-> r, optimistic |-> o, current |-> c] # NoSet
<1> DEFINE s == [requests |-> r, optimistic |-> o, current |-> c]
<1>1. "requests" \in DOMAIN s
  OBVIOUS
<1> HIDE DEF s
<1>2. s # NoSet
  BY <1>1, EmptyState DEF NoSet
<1> QED
  BY <1>2 DEF s

LEMMA ViewIs ==
  (set = NoSet => View = state) /\ (set # NoSet => View = Kept)
BY DEF View, Kept

\* A lamp that changes and, if it does, reports so.
Changes ==
  \E new \in LampDevice : device' = new /\ up' = up \o Reported(new)

LEMMA ChangesReported ==
  ASSUME Changes, kind = "lamp", up \in Seq(LampReport), LastReported
  PROVE  /\ LastReported'
         /\ \A k \in Attributes : (\A i \in DOMAIN up' : up'[i].cluster # ClusterOf(k)) =>
              device'[k] = device[k] /\ \A i \in DOMAIN up : up[i].cluster # ClusterOf(k)
<1>1. PICK new \in LampDevice : device' = new /\ up' = up \o Reported(new)
  BY DEF Changes
<1> DEFINE r == Reported(new)
           n == Len(up)
<1>2. r \in Seq(LampReport)
  BY ReportedAreReports
<1>3. /\ \A i \in DOMAIN r, k \in Attributes :
           r[i].cluster = ClusterOf(k) => r[i].value = new[k] /\ new[k] # device[k]
      /\ \A k \in Attributes :
           new[k] # device[k] => \E i \in DOMAIN r : r[i].cluster = ClusterOf(k)
  BY ReportedChanges DEF Lamps
<1> HIDE DEF r
<1>4. /\ n \in Nat /\ Len(r) \in Nat /\ DOMAIN up = 1..n /\ DOMAIN r = 1..Len(r)
      /\ DOMAIN (up \o r) = 1..(n + Len(r))
      /\ \A i \in 1..n : (up \o r)[i] = up[i]
      /\ \A i \in 1..Len(r) : (up \o r)[n + i] = r[i]
      /\ \A i \in (n + 1)..(n + Len(r)) : (up \o r)[i] = r[i - n] /\ i - n \in 1..Len(r)
  BY <1>2, JoinedAt
<1>5. up' = up \o r
  BY <1>1 DEF r
<1> HIDE DEF n
<1>6. /\ DOMAIN up' = 1..(n + Len(r))
      /\ \A i \in 1..n : up'[i] = up[i]
      /\ \A i \in 1..Len(r) : up'[n + i] = r[i]
      /\ \A i \in (n + 1)..(n + Len(r)) : up'[i] = r[i - n] /\ i - n \in 1..Len(r)
  BY <1>4, <1>5
<1>7. ASSUME NEW k \in Attributes, NEW i \in DOMAIN up', up'[i].cluster = ClusterOf(k),
             \A j \in DOMAIN up' : j > i => up'[j].cluster # ClusterOf(k)
      PROVE  up'[i].value = new[k]
  <2>1. CASE i \in (n + 1)..(n + Len(r))
    <3>1. up'[i] = r[i - n] /\ i - n \in DOMAIN r
      BY <1>4, <1>6, <2>1
    <3> QED BY <1>3, <1>7, <3>1
  <2>2. CASE i \in 1..n
    <3>1. \A j \in 1..Len(r) : r[j].cluster # ClusterOf(k)
      <4>1. SUFFICES ASSUME NEW j \in 1..Len(r) PROVE r[j].cluster # ClusterOf(k)
        OBVIOUS
      <4>2. n + j \in DOMAIN up' /\ n + j > i
        BY <1>4, <1>6, <2>2
      <4> QED BY <1>6, <1>7, <4>2
    <3>2. new[k] = device[k]
      BY <1>3, <1>4, <3>1
    <3>3. \A j \in 1..n : j > i => up[j].cluster # ClusterOf(k)
      <4>1. \A j \in 1..n : j \in DOMAIN up'
        BY <1>4, <1>6
      <4> QED BY <1>6, <1>7, <4>1
    <3>4. up[i].cluster = ClusterOf(k) /\ up'[i] = up[i]
      BY <1>6, <1>7, <2>2
    <3>5. up[i].value = device[k]
      BY <1>4, <2>2, <3>3, <3>4 DEF LastReported
    <3> QED BY <3>2, <3>4, <3>5
  <2> QED BY <1>4, <1>6, <2>1, <2>2
<1>8. LastReported'
  BY <1>1, <1>7 DEF LastReported, ClusterOf
<1>9. ASSUME NEW k \in Attributes, \A i \in DOMAIN up' : up'[i].cluster # ClusterOf(k)
      PROVE  device'[k] = device[k] /\ \A i \in DOMAIN up : up[i].cluster # ClusterOf(k)
  <2>1. \A j \in 1..Len(r) : r[j].cluster # ClusterOf(k)
    <3>1. \A j \in 1..Len(r) : n + j \in DOMAIN up'
      BY <1>4, <1>6
    <3> QED BY <1>6, <1>9, <3>1
  <2>2. \A j \in 1..n : j \in DOMAIN up'
    BY <1>4, <1>6
  <2>3. new[k] = device[k]
    BY <1>3, <1>4, <2>1
  <2> QED BY <1>1, <1>4, <1>6, <1>9, <2>2, <2>3
<1> QED
  BY <1>8, <1>9

\* The lamp carries out a command.
LEMMA LampGoodObeyed ==
  ASSUME LampTypes, kind \in Lamps, LampGood, LampObeys PROVE LampGood'
<1> DEFINE c == Head(down)
<1>1. /\ down # <<>> /\ device' = Obeyed(c) /\ down' = Tail(down)
      /\ up' = up \o Reported(Obeyed(c))
      /\ UNCHANGED <<kind, state, set, published>>
  BY DEF LampObeys, recordVars, mqttVars
<1>2. /\ device \in LampDevice /\ up \in Seq(LampReport) /\ down \in Seq(LampCommand)
  BY DEF LampTypes
<1>3. /\ c \in LampCommand /\ Len(down) \in Nat /\ c = down[1] /\ Len(down) >= 1
      /\ Len(Tail(down)) = Len(down) - 1 /\ Tail(down) \in Seq(LampCommand)
      /\ \A i \in 1..Len(Tail(down)) : Tail(down)[i] = down[i + 1]
  BY <1>1, <1>2, HeadTaken
<1> HIDE DEF c
<1>4. Obeyed(c) \in LampDevice
  BY <1>2, <1>3, ObeyedIsLamp
<1>5. \A k \in Attributes : device'[k] = After(k, device[k], c)
  BY <1>1, <1>2, <1>3, ObeyedAttribute
<1>6. View' = View
  BY <1>1 DEF View
<1>7. Asking'
  BY <1>1, SameAsking DEF LampGood
<1>8. CASE kind = "lamp"
  <2>1. Changes
    BY <1>1, <1>4 DEF Changes
  <2>2. /\ LastReported'
        /\ \A k \in Attributes : (\A i \in DOMAIN up' : up'[i].cluster # ClusterOf(k)) =>
             device'[k] = device[k] /\ \A i \in DOMAIN up : up[i].cluster # ClusterOf(k)
    BY <1>2, <1>8, <2>1, ChangesReported DEF LampGood
  <2>3. Agreed'
    <3>1. SUFFICES ASSUME NEW k \in Attributes \intersect DOMAIN View',
                          \A i \in DOMAIN up' : up'[i].cluster # ClusterOf(k),
                          \A i \in DOMAIN down' : After(k, device'[k], down'[i]) = device'[k]
                   PROVE  View'[k] = device'[k]
      BY DEF Agreed, ClusterOf, After, OnOff, Toggled
    <3>2. device'[k] = device[k] /\ \A i \in DOMAIN up : up[i].cluster # ClusterOf(k)
      BY <2>2, <3>1
    <3>3. \A i \in DOMAIN down : After(k, device[k], down[i]) = device[k]
      <4>1. SUFFICES ASSUME NEW i \in DOMAIN down PROVE After(k, device[k], down[i]) = device[k]
        OBVIOUS
      <4>2. CASE i = 1
        BY <1>3, <1>5, <3>1, <3>2, <4>2
      <4>3. CASE i # 1
        <5>1. i \in 1..Len(down)
          BY <1>2
        <5>2. i - 1 \in 1..Len(Tail(down)) /\ (i - 1) + 1 = i
          BY <1>3, <4>3, <5>1
        <5>3. down'[i - 1] = down[i] /\ i - 1 \in DOMAIN down'
          BY <1>1, <1>3, <5>2
        <5>4. After(k, device'[k], down'[i - 1]) = device'[k]
          BY <3>1, <5>3
        <5> QED BY <3>2, <5>3, <5>4
      <4> QED BY <4>2, <4>3
    <3>4. View[k] = device[k]
      BY <1>6, <1>8, <3>1, <3>2, <3>3 DEF LampGood, Agreed
    <3> QED BY <1>6, <3>2, <3>4
  <2> QED BY <1>1, <1>7, <1>8, <2>2, <2>3 DEF LampGood
<1>9. CASE kind = "silent lamp"
  <2>1. up = <<>> /\ Reported(Obeyed(c)) = <<>>
    BY <1>4, <1>9, ReportedChanges DEF LampGood
  <2>2. up' = <<>>
    BY <1>1, <2>1
  <2>3. Foreseen'
    <3>1. SUFFICES ASSUME NEW k \in Attributes
                   PROVE  \E w : /\ Leads(k, device'[k], down', w)
                                 /\ k = "state" => w \in {"ON", "OFF"}
                                 /\ k \in DOMAIN View' => View'[k] = w
      BY DEF Foreseen, Leads, After, ClusterOf, OnOff, Toggled
    <3>2. PICK w : /\ Leads(k, device[k], down, w)
                   /\ k = "state" => w \in {"ON", "OFF"}
                   /\ k \in DOMAIN View => View[k] = w
      BY <1>9 DEF LampGood, Foreseen
    <3>3. Leads(k, After(k, device[k], c), Tail(down), w)
      BY <1>1, <1>2, <3>2, LeadsFromNext DEF c
    <3>4. Leads(k, device'[k], down', w)
      BY <1>1, <1>5, <3>3
    <3> QED BY <1>6, <3>2, <3>4
  <2> QED BY <1>1, <1>7, <1>9, <2>2, <2>3 DEF LampGood
<1> QED
  BY <1>8, <1>9 DEF Lamps

\* The lamp is switched by hand.
LEMMA LampGoodSwitched ==
  ASSUME LampTypes, LampGood, LampSwitched PROVE LampGood'
<1> DEFINE new == [device EXCEPT !.state = IF @ = "ON" THEN "OFF" ELSE "ON"]
<1>1. /\ kind = "lamp" /\ device' = new /\ up' = up \o Reported(new) /\ down' = down
      /\ UNCHANGED <<kind, state, set, published>>
  BY DEF LampSwitched, recordVars, mqttVars
<1>2. new \in LampDevice /\ up \in Seq(LampReport)
  BY DEF LampTypes, LampDevice
<1> HIDE DEF new
<1>3. Changes
  BY <1>1, <1>2 DEF Changes
<1>4. /\ LastReported'
      /\ \A k \in Attributes : (\A i \in DOMAIN up' : up'[i].cluster # ClusterOf(k)) =>
           device'[k] = device[k] /\ \A i \in DOMAIN up : up[i].cluster # ClusterOf(k)
  BY <1>1, <1>2, <1>3, ChangesReported DEF LampGood
<1>5. View' = View
  BY <1>1 DEF View
<1>6. Agreed'
  <2>1. SUFFICES ASSUME NEW k \in Attributes \intersect DOMAIN View',
                        \A i \in DOMAIN up' : up'[i].cluster # ClusterOf(k),
                        \A i \in DOMAIN down' : After(k, device'[k], down'[i]) = device'[k]
                 PROVE  View'[k] = device'[k]
    BY DEF Agreed, ClusterOf, After, OnOff, Toggled
  <2>2. device'[k] = device[k] /\ \A i \in DOMAIN up : up[i].cluster # ClusterOf(k)
    BY <1>4, <2>1
  <2>3. \A i \in DOMAIN down : After(k, device[k], down[i]) = device[k]
    BY <1>1, <2>1, <2>2
  <2>4. View[k] = device[k]
    BY <1>1, <1>5, <2>1, <2>2, <2>3 DEF LampGood, Agreed
  <2> QED BY <1>5, <2>2, <2>4
<1>7. Asking'
  BY <1>1, SameAsking DEF LampGood
<1> QED
  BY <1>1, <1>4, <1>6, <1>7 DEF LampGood

\* A report is merged into what is known.
LEMMA LampGoodHeard ==
  ASSUME LampTypes, kind \in Lamps, LampGood, Message PROVE LampGood'
<1> DEFINE f == Head(up)
           merged == Merge(Values(f), Merge(Heard, state))
<1>1. /\ up # <<>> /\ up' = Tail(up) /\ set = NoSet /\ set' = NoSet
      /\ UNCHANGED <<kind, device, down>>
  BY MessageDoes
<1>2. kind = "lamp" /\ up \in Seq(LampReport)
  BY <1>1 DEF LampTypes, LampGood, Lamps
<1>3. /\ f \in LampReport /\ Len(up) \in Nat /\ f = up[1] /\ Len(up) >= 1 /\ DOMAIN up = 1..Len(up)
      /\ Len(Tail(up)) = Len(up) - 1 /\ DOMAIN Tail(up) = 1..(Len(up) - 1)
      /\ \A i \in 1..Len(Tail(up)) : Tail(up)[i] = up[i + 1]
  <2>1. Tail(up) \in Seq(LampReport)
    BY <1>1, <1>2, HeadTaken
  <2>2. DOMAIN up = 1..Len(up) /\ DOMAIN Tail(up) = 1..Len(Tail(up))
    BY <1>2, <2>1
  <2> QED BY <1>1, <1>2, <2>2, HeadTaken
<1>4. PICK l \in Attributes :
        /\ f.cluster = ClusterOf(l) /\ l \in DOMAIN Values(f) /\ Values(f)[l] = f.value
        /\ \A k \in Attributes : k # l => k \notin DOMAIN Values(f)
  BY <1>3, ReportSays
<1>5. Values(f) # Empty
  BY <1>4, EmptyState
<1>6. published' = merged /\ state' = StripTransientActionFields(merged)
  BY <1>5 DEF Message
<1> HIDE DEF f
<1>7. /\ DOMAIN merged = DOMAIN Values(f) \union (HeardKeys \union DOMAIN state)
      /\ \A k \in DOMAIN Values(f) : merged[k] = Values(f)[k]
      /\ \A k \in DOMAIN state \ (DOMAIN Values(f) \union HeardKeys) : merged[k] = state[k]
  BY MergedWithHeard
<1>8. state' = merged
  <2>1. LampState(merged)
    BY <1>3, LampReportSays, HeardLampState, MergedLampStates DEF LampTypes
  <2>2. DOMAIN merged \ ActionKeys = DOMAIN merged
    BY <2>1, KeysAre DEF LampState
  <2>3. merged = [k \in DOMAIN merged |-> merged[k]]
    BY DEF Merge
  <2> HIDE DEF merged
  <2>4. StripTransientActionFields(merged) = merged
    BY <2>2, <2>3, Zenon DEF StripTransientActionFields
  <2> QED BY <1>6, <2>4
<1> HIDE DEF merged
<1>9. View = state /\ View' = merged
  <2>1. View' = state'
    BY <1>1 DEF View
  <2> QED BY <1>1, <1>8, <2>1, ViewIs
<1>10. LastReported'
  <2>1. SUFFICES ASSUME NEW k \in Attributes, NEW i \in DOMAIN up', up'[i].cluster = ClusterOf(k),
                        \A j \in DOMAIN up' : j > i => up'[j].cluster # ClusterOf(k)
                 PROVE  up'[i].value = device'[k]
    BY DEF LastReported, ClusterOf
  <2>2. i \in 1..(Len(up) - 1) /\ i + 1 \in DOMAIN up /\ up'[i] = up[i + 1]
    BY <1>1, <1>3
  <2>3. \A j \in DOMAIN up : j > i + 1 => up[j].cluster # ClusterOf(k)
    <3>1. SUFFICES ASSUME NEW j \in DOMAIN up, j > i + 1 PROVE up[j].cluster # ClusterOf(k)
      OBVIOUS
    <3>2. j - 1 \in DOMAIN up' /\ j - 1 > i /\ up'[j - 1] = up[j]
      <4>1. j - 1 \in 1..Len(Tail(up)) /\ (j - 1) + 1 = j /\ j - 1 > i
        BY <1>3, <2>2, <3>1
      <4> QED BY <1>1, <1>3, <4>1
    <3> QED BY <2>1, <3>2
  <2>4. up[i + 1].value = device[k]
    BY <1>2, <2>1, <2>2, <2>3 DEF LampGood, LastReported
  <2> QED BY <1>1, <2>2, <2>4
<1>11. Agreed'
  <2>1. SUFFICES ASSUME NEW k \in Attributes, k \in DOMAIN merged,
                        \A i \in DOMAIN up' : up'[i].cluster # ClusterOf(k),
                        \A i \in DOMAIN down : After(k, device[k], down[i]) = device[k]
                 PROVE  merged[k] = device[k]
    BY <1>1, <1>9 DEF Agreed, ClusterOf, After, OnOff, Toggled
  <2>2. \A j \in DOMAIN up : j > 1 => up[j].cluster # ClusterOf(k)
    <3>1. SUFFICES ASSUME NEW j \in DOMAIN up, j > 1 PROVE up[j].cluster # ClusterOf(k)
      OBVIOUS
    <3>2. j - 1 \in DOMAIN up' /\ up'[j - 1] = up[j]
      <4>1. j - 1 \in 1..Len(Tail(up)) /\ (j - 1) + 1 = j
        BY <1>3, <3>1
      <4> QED BY <1>1, <1>3, <4>1
    <3> QED BY <2>1, <3>2
  <2>3. CASE k = l
    <3>1. 1 \in DOMAIN up /\ up[1].cluster = ClusterOf(k)
      BY <1>3, <1>4, <2>3
    <3>2. up[1].value = device[k]
      BY <1>2, <2>2, <3>1 DEF LampGood, LastReported
    <3> QED BY <1>3, <1>4, <1>7, <2>3, <3>2
  <2>4. CASE k # l
    <3>1. k \in DOMAIN state /\ merged[k] = state[k]
      BY <1>4, <1>7, <2>1, <2>4 DEF Attributes, HeardKeys
    <3>2. up[1].cluster # ClusterOf(k)
      BY <1>3, <1>4, <2>4, ClustersDiffer
    <3>3. \A i \in DOMAIN up : up[i].cluster # ClusterOf(k)
      BY <1>3, <2>2, <3>2
    <3>4. View[k] = device[k]
      BY <1>2, <1>9, <2>1, <3>1, <3>3 DEF LampGood, Agreed
    <3> QED BY <1>9, <3>1, <3>4
  <2> QED BY <2>3, <2>4
<1>12. Asking'
  BY <1>1, NothingAsked
<1>13. published' = state'
  BY <1>6, <1>8 DEF merged
<1> QED
  BY <1>1, <1>2, <1>10, <1>11, <1>12, <1>13 DEF LampGood

\* A set command begins.
LEMMA LampGoodSet ==
  ASSUME LampGood, NEW p \in Payloads, SetDevice(p), ~astray'
  PROVE  LampGood'
<1>1. /\ set = NoSet /\ UNCHANGED <<kind, device, up, down, state, published>>
      /\ set' = [requests |-> Requests(p), optimistic |-> Empty,
                 current |-> IF "state" \in DOMAIN state THEN state["state"] ELSE NoValue]
      /\ kind = "silent lamp" => ~Contradictory(p)
  BY DEF SetDevice, deviceVars, mqttVars
<1>2. /\ set' # NoSet /\ set'.requests = Requests(p) /\ set'.optimistic = Empty
      /\ set'.current = IF "state" \in DOMAIN state THEN state["state"] ELSE NoValue
  BY <1>1, SetIsUnderWay
<1>3. View' = Merge(Empty, state)
  BY <1>1, <1>2 DEF View
<1>4. View = state /\ DOMAIN View' = DOMAIN View /\ \A k \in DOMAIN View : View'[k] = View[k]
  <2>1. View = state
    BY <1>1, ViewIs
  <2>2. /\ DOMAIN Merge(Empty, state) = DOMAIN state
        /\ \A k \in DOMAIN state : Merge(Empty, state)[k] = state[k]
    <3>1. /\ DOMAIN Merge(Empty, state) = DOMAIN Empty \union DOMAIN state
          /\ \A k \in DOMAIN state \ DOMAIN Empty : Merge(Empty, state)[k] = state[k]
      BY Merged
    <3> QED BY <3>1, EmptyState
  <2> HIDE DEF View
  <2> QED BY <1>3, <2>1, <2>2
<1>5. \A i \in DOMAIN Requests(p) :
        /\ Requests(p)[i].cluster = "on_off" =>
             i = 1 /\ "state" \in DOMAIN p /\ Requests(p)[i].value = p["state"]
        /\ Requests(p)[i].cluster = "level" =>
             /\ "brightness" \in DOMAIN p /\ Requests(p)[i].value = p["brightness"]
             /\ \A j \in DOMAIN Requests(p) : Requests(p)[j].cluster = "level" => j = i
  BY RequestsInOrder
<1>6. ASSUME kind = "silent lamp", "state" \in DOMAIN p, "brightness" \in DOMAIN p
      PROVE  p["state"] = OnOff(p["brightness"])
  <2>1. p["state"] \in {"ON", "OFF", "TOGGLE"} /\ p["brightness"] \in Nat
    BY <1>6, PayloadAssumption
  <2>2. p["state"] # "TOGGLE" /\ ((p["state"] = "ON") <=> (p["brightness"] > 0))
    BY <1>1, <1>6 DEF Contradictory
  <2> QED BY <2>1, <2>2 DEF OnOff
<1>7. Asking'
  <2>1. SUFFICES ASSUME NEW i \in DOMAIN set'.requests
                 PROVE  LET r == set'.requests[i]
                        IN /\ r.cluster = "on_off" =>
                                /\ i = 1 /\ set'.optimistic = Empty
                                /\ set'.current = IF "state" \in DOMAIN state' THEN state'["state"]
                                                  ELSE NoValue
                           /\ r.cluster = "level" =>
                                /\ "brightness" \notin DOMAIN set'.optimistic
                                /\ \A j \in DOMAIN set'.requests :
                                     set'.requests[j].cluster = "level" => j = i
                                /\ kind' = "silent lamp" =>
                                     /\ "state" \in DOMAIN set'.optimistic =>
                                          set'.optimistic["state"] = OnOff(r.value)
                                     /\ \A j \in DOMAIN set'.requests :
                                          set'.requests[j].cluster = "on_off" =>
                                            set'.requests[j].value = OnOff(r.value)
    BY DEF Asking, AskedIn, OnOff
  <2>2. i \in DOMAIN Requests(p) /\ UNCHANGED <<state, kind>>
    BY <1>1, <1>2, <2>1
  <2> QED BY <1>2, <1>5, <1>6, <2>2, EmptyState
<1>8. published' = state'
  BY <1>1 DEF LampGood
<1> QED
  BY <1>1, <1>4, <1>7, <1>8, SameView

LEMMA Counted ==
  ASSUME NEW S, NEW s \in Seq(S) PROVE Len(s) \in Nat /\ DOMAIN s = 1..Len(s)
OBVIOUS

\* What is left to ask once a request is made.
LEMMA AskingAfter ==
  ASSUME Asking, set # NoSet, NEW S, set.requests \in Seq(S), set.requests # <<>>,
         UNCHANGED <<kind, state>>, set'.requests = Tail(set.requests),
         \A i \in DOMAIN set.requests :
           i # 1 /\ set.requests[i].cluster = "level" =>
             /\ "brightness" \notin DOMAIN set'.optimistic
             /\ kind = "silent lamp" /\ "state" \in DOMAIN set'.optimistic =>
                  set'.optimistic["state"] = OnOff(set.requests[i].value)
  PROVE  Asking'
<1> DEFINE q == set.requests
           n == Len(q)
<1>1. /\ n \in Nat /\ DOMAIN q = 1..n /\ DOMAIN Tail(q) = 1..(n - 1)
      /\ \A i \in 1..(n - 1) : Tail(q)[i] = q[i + 1]
  <2>1. q \in Seq(S) /\ q # <<>>
    OBVIOUS
  <2> HIDE DEF q
  <2>2. /\ Len(q) \in Nat /\ Tail(q) \in Seq(S) /\ Len(Tail(q)) = Len(q) - 1
        /\ \A j \in 1..Len(Tail(q)) : Tail(q)[j] = q[j + 1]
    BY <2>1, HeadTaken
  <2>3. DOMAIN q = 1..Len(q) /\ DOMAIN Tail(q) = 1..Len(Tail(q))
    BY <2>1, <2>2, Counted
  <2> QED BY <2>2, <2>3 DEF n
<1>2. \A i \in DOMAIN q :
        /\ q[i].cluster = "on_off" => i = 1
        /\ q[i].cluster = "level" =>
             /\ \A j \in DOMAIN q : q[j].cluster = "level" => j = i
             /\ kind = "silent lamp" => \A j \in DOMAIN q :
                  q[j].cluster = "on_off" => q[j].value = OnOff(q[i].value)
  BY DEF Asking, AskedIn
<1> HIDE DEF n
<1>3. /\ DOMAIN set'.requests = 1..(n - 1)
      /\ \A i \in 1..(n - 1) : set'.requests[i] = q[i + 1] /\ i + 1 \in DOMAIN q /\ i + 1 # 1
  <2>1. set'.requests = Tail(q)
    OBVIOUS
  <2> HIDE DEF q
  <2>2. \A i \in 1..(n - 1) : i + 1 \in 1..n /\ i + 1 # 1
    <3>1. n \in Nat
      BY <1>1
    <3> QED BY ONLY <3>1
  <2> QED BY <1>1, <2>1, <2>2
<1>4. SUFFICES ASSUME NEW i \in DOMAIN set'.requests
               PROVE  LET r == set'.requests[i]
                      IN /\ r.cluster = "on_off" =>
                              /\ i = 1 /\ set'.optimistic = Empty
                              /\ set'.current = IF "state" \in DOMAIN state' THEN state'["state"]
                                                ELSE NoValue
                         /\ r.cluster = "level" =>
                              /\ "brightness" \notin DOMAIN set'.optimistic
                              /\ \A j \in DOMAIN set'.requests :
                                   set'.requests[j].cluster = "level" => j = i
                              /\ kind' = "silent lamp" =>
                                   /\ "state" \in DOMAIN set'.optimistic =>
                                        set'.optimistic["state"] = OnOff(r.value)
                                   /\ \A j \in DOMAIN set'.requests :
                                        set'.requests[j].cluster = "on_off" =>
                                          set'.requests[j].value = OnOff(r.value)
  BY DEF Asking, AskedIn, OnOff
<1>5. i \in 1..(n - 1) /\ kind' = kind
  BY <1>3
<1>6. \A j \in DOMAIN set'.requests : set'.requests[j].cluster # "on_off"
  <2>1. SUFFICES ASSUME NEW j \in DOMAIN set'.requests PROVE set'.requests[j].cluster # "on_off"
    OBVIOUS
  <2>2. set'.requests[j] = q[j + 1] /\ j + 1 \in DOMAIN q /\ j + 1 # 1
    BY <1>3
  <2> HIDE DEF q
  <2> QED BY <1>2, <2>2
<1>7. ASSUME set'.requests[i].cluster = "level"
      PROVE  /\ "brightness" \notin DOMAIN set'.optimistic
             /\ \A j \in DOMAIN set'.requests : set'.requests[j].cluster = "level" => j = i
             /\ kind = "silent lamp" /\ "state" \in DOMAIN set'.optimistic =>
                  set'.optimistic["state"] = OnOff(set'.requests[i].value)
  <2>1. set'.requests[i] = q[i + 1] /\ i + 1 \in DOMAIN q /\ i + 1 # 1
    BY <1>3, <1>5
  <2>2. /\ "brightness" \notin DOMAIN set'.optimistic
        /\ kind = "silent lamp" /\ "state" \in DOMAIN set'.optimistic =>
             set'.optimistic["state"] = OnOff(q[i + 1].value)
    BY <1>7, <2>1
  <2>3. ASSUME NEW j \in DOMAIN set'.requests, set'.requests[j].cluster = "level" PROVE j = i
    <3>1. q[j + 1].cluster = "level" /\ j + 1 \in DOMAIN q /\ j \in 1..(n - 1)
      BY <1>3, <2>3
    <3>2. j + 1 = i + 1
      BY <1>2, <1>7, <2>1, <3>1
    <3>3. i \in Int /\ j \in Int
      <4>1. n \in Nat /\ i \in 1..(n - 1) /\ j \in 1..(n - 1)
        BY <1>1, <1>5, <3>1
      <4> QED BY ONLY <4>1
    <3> QED BY ONLY <3>2, <3>3
  <2> QED BY <2>1, <2>2, <2>3
<1> QED
  BY <1>5, <1>6, <1>7

\* What is asked first, and what of it is sent.
LEMMA AskedFirst ==
  ASSUME LampTypes, LampGood, Sending
  PROVE  LET q == set.requests
             o == set.optimistic
             c == Encoded(Head(set.requests))
         IN /\ set # NoSet /\ q \in Seq(LampRequest) /\ q # <<>> /\ 1 \in DOMAIN q /\ Head(q) = q[1]
            /\ set = [requests |-> q, optimistic |-> o, current |-> set.current]
            /\ c \in LampCommand /\ c.cluster = q[1].cluster
            /\ c.cluster # "level" => c.value = q[1].value
            /\ c.cluster = "level" => OnOff(c.value) = OnOff(q[1].value)
            /\ c.cluster = "on_off" =>
                 /\ o = Empty
                 /\ set.current = IF "state" \in DOMAIN state THEN state["state"] ELSE NoValue
            /\ c.cluster = "level" =>
                 /\ "brightness" \notin DOMAIN o
                 /\ kind = "silent lamp" /\ "state" \in DOMAIN o => o["state"] = OnOff(c.value)
<1> DEFINE q == set.requests
           c == Encoded(Head(q))
           o == set.optimistic
<1>1. /\ set # NoSet /\ q \in Seq(LampRequest) /\ q # <<>>
      /\ set = [requests |-> q, optimistic |-> o, current |-> set.current]
  BY DEF Sending, LampTypes
<1>2. q[1] \in LampRequest /\ Head(q) = q[1] /\ 1 \in DOMAIN q
  <2>1. DOMAIN q = 1..Len(q)
    BY <1>1
  <2> QED BY <1>1, <2>1, HeadTaken
<1>3. c \in LampCommand
  BY <1>2, EncodedIsCommand
<1>4. /\ c.cluster = q[1].cluster
      /\ c.cluster # "level" => c.value = q[1].value
      /\ c.cluster = "level" => OnOff(c.value) = OnOff(q[1].value)
  BY <1>2 DEF Encoded, LampRequest, OnOff
<1>5. /\ q[1].cluster = "on_off" =>
           /\ o = Empty
           /\ set.current = IF "state" \in DOMAIN state THEN state["state"] ELSE NoValue
      /\ q[1].cluster = "level" =>
           /\ "brightness" \notin DOMAIN o
           /\ kind = "silent lamp" /\ "state" \in DOMAIN o => o["state"] = OnOff(q[1].value)
  BY <1>1, <1>2 DEF LampGood, Asking, AskedIn
<1> HIDE DEF c
<1>6. /\ c.cluster = "on_off" =>
           /\ o = Empty
           /\ set.current = IF "state" \in DOMAIN state THEN state["state"] ELSE NoValue
      /\ c.cluster = "level" =>
           /\ "brightness" \notin DOMAIN o
           /\ kind = "silent lamp" /\ "state" \in DOMAIN o => o["state"] = OnOff(c.value)
  BY <1>4, <1>5
<1> QED
  BY <1>1, <1>2, <1>3, <1>4, <1>6 DEF c

\* A request is accepted.
LEMMA LampGoodAccepted ==
  ASSUME LampTypes, kind \in Lamps, LampGood, SendAccepted PROVE LampGood'
<1> DEFINE q == set.requests
           c == Encoded(Head(q))
           o == set.optimistic
           p == Optimistic(c, set.current, o)
<1>1. /\ Sending /\ down' = Append(down, c) /\ UNCHANGED <<kind, device, up, state, published>>
      /\ set' = [set EXCEPT !.requests = Tail(@), !.optimistic = Optimistic(c, set.current, @)]
  BY DEF SendAccepted, mqttVars
<1>2. /\ set # NoSet /\ q \in Seq(LampRequest) /\ q # <<>> /\ 1 \in DOMAIN q /\ Head(q) = q[1]
      /\ set = [requests |-> q, optimistic |-> o, current |-> set.current]
      /\ c \in LampCommand /\ c.cluster = q[1].cluster
      /\ c.cluster # "level" => c.value = q[1].value
      /\ c.cluster = "level" => OnOff(c.value) = OnOff(q[1].value)
      /\ c.cluster = "on_off" =>
           /\ o = Empty
           /\ set.current = IF "state" \in DOMAIN state THEN state["state"] ELSE NoValue
      /\ c.cluster = "level" =>
           /\ "brightness" \notin DOMAIN o
           /\ kind = "silent lamp" /\ "state" \in DOMAIN o => o["state"] = OnOff(c.value)
  BY <1>1, AskedFirst
<1>3. /\ c.cluster = "on_off" =>
           DOMAIN p \subseteq {"state"} /\ (c.value # "TOGGLE" => p["state"] = c.value)
      /\ c.cluster = "color" =>
           /\ DOMAIN p = DOMAIN o \union {"color_mode"}
           /\ "state" \in DOMAIN o => p["state"] = o["state"]
  <2>1. c \in LampCommand
    BY <1>2
  <2> HIDE DEF c
  <2> QED BY <2>1, OptimisticAdds
<1> DEFINE after == KeptAfter(c)
<1>4. after = Merge(p, state)
  BY DEF KeptAfter
<1> HIDE DEF c, p
<1>5. set' = [requests |-> Tail(q), optimistic |-> p, current |-> set.current]
  BY <1>1, <1>2 DEF p
<1>6. set' # NoSet /\ set'.requests = Tail(q) /\ set'.optimistic = p
  BY <1>5, SetIsUnderWay
<1>7. View = Kept /\ View' = after
  <2>1. View' = Merge(set'.optimistic, state')
    BY <1>6 DEF View
  <2> QED BY <1>1, <1>2, <1>4, <1>6, <2>1, ViewIs
<1>8. Asking'
  <2>1. ASSUME NEW i \in DOMAIN q, i # 1, q[i].cluster = "level"
        PROVE  /\ "brightness" \notin DOMAIN p
               /\ kind = "silent lamp" /\ "state" \in DOMAIN p => p["state"] = OnOff(q[i].value)
    <3>1. /\ "brightness" \notin DOMAIN o
          /\ kind = "silent lamp" /\ "state" \in DOMAIN o => o["state"] = OnOff(q[i].value)
          /\ q[1].cluster = "level" => 1 = i
          /\ kind = "silent lamp" /\ q[1].cluster = "on_off" => q[1].value = OnOff(q[i].value)
      BY <1>2, <2>1 DEF LampGood, Asking, AskedIn
    <3>2. OnOff(q[i].value) # "TOGGLE"
      BY DEF OnOff
    <3>3. CASE c.cluster = "on_off"
      BY <1>2, <1>3, <3>1, <3>2, <3>3
    <3>4. CASE c.cluster = "color"
      BY <1>3, <3>1, <3>4
    <3>5. CASE c.cluster = "level"
      BY <1>2, <2>1, <3>1, <3>5
    <3> QED BY <1>2, <3>3, <3>4, <3>5 DEF LampCommand
  <2> HIDE DEF o
  <2>2. \A i \in DOMAIN set.requests :
           i # 1 /\ set.requests[i].cluster = "level" =>
             /\ "brightness" \notin DOMAIN set'.optimistic
             /\ kind = "silent lamp" /\ "state" \in DOMAIN set'.optimistic =>
                  set'.optimistic["state"] = OnOff(set.requests[i].value)
    BY <1>6, <2>1
  <2>3. UNCHANGED <<kind, state>> /\ Asking
    BY <1>1 DEF LampGood
  <2> QED BY <1>2, <1>6, <2>2, <2>3, AskingAfter
<1>9. /\ Len(down) \in Nat /\ DOMAIN down = 1..Len(down) /\ DOMAIN down' = 1..(Len(down) + 1)
      /\ down'[Len(down) + 1] = c /\ \A i \in 1..Len(down) : down'[i] = down[i]
  <2>1. down \in Seq(LampCommand)
    BY DEF LampTypes
  <2>2. /\ Len(down) \in Nat /\ DOMAIN down = 1..Len(down)
        /\ Append(down, c) \in Seq(LampCommand) /\ Len(Append(down, c)) = Len(down) + 1
        /\ Append(down, c)[Len(down) + 1] = c
        /\ \A i \in 1..Len(down) : Append(down, c)[i] = down[i]
    <3>1. c \in LampCommand
      BY <1>2
    <3> QED BY <2>1, <3>1, Appended
  <2>3. DOMAIN Append(down, c) = 1..Len(Append(down, c))
    BY <2>2
  <2> QED BY <1>1, <2>2, <2>3
<1>10. CASE kind = "lamp"
  <2>1. LastReported'
    BY <1>1, <1>10 DEF LampGood, LastReported, ClusterOf
  <2>2. Agreed'
    <3>1. SUFFICES ASSUME NEW k \in Attributes, k \in DOMAIN after,
                          \A i \in DOMAIN up : up[i].cluster # ClusterOf(k),
                          \A i \in DOMAIN down' : After(k, device[k], down'[i]) = device[k]
                   PROVE  after[k] = device[k]
      BY <1>1, <1>7 DEF Agreed, ClusterOf, After, OnOff, Toggled
    <3>2. \A i \in DOMAIN down : After(k, device[k], down[i]) = device[k]
      <4>1. \A i \in DOMAIN down : i \in DOMAIN down' /\ down'[i] = down[i]
        BY <1>9
      <4> QED BY <3>1, <4>1
    <3>3. After(k, device[k], c) = device[k]
      <4>1. Len(down) + 1 \in DOMAIN down'
        BY <1>9
      <4> QED BY <1>9, <3>1, <4>1
    <3>4. k \in DOMAIN Kept => Kept[k] = device[k]
      BY <1>7, <1>10, <3>1, <3>2 DEF LampGood, Agreed
    <3>5. k = "state" => device[k] \in {"ON", "OFF"}
      BY DEF LampTypes, LampDevice
    <3>6. after[k] = After(k, device[k], c)
      BY <1>2, <3>1, <3>3, <3>4, <3>5, AcceptedValue
    <3> QED BY <3>3, <3>6
  <2> QED BY <1>1, <1>8, <1>10, <2>1, <2>2 DEF LampGood
<1>11. CASE kind = "silent lamp"
  <2>1. Foreseen'
    <3>1. SUFFICES ASSUME NEW k \in Attributes
                   PROVE  \E w : /\ Leads(k, device'[k], down', w)
                                 /\ k = "state" => w \in {"ON", "OFF"}
                                 /\ k \in DOMAIN View' => View'[k] = w
      BY DEF Foreseen, Leads, After, ClusterOf, OnOff, Toggled
    <3>2. PICK w : /\ Leads(k, device[k], down, w)
                   /\ k = "state" => w \in {"ON", "OFF"}
                   /\ k \in DOMAIN View => View[k] = w
      BY <1>11 DEF LampGood, Foreseen
    <3>3. Leads(k, device[k], Append(down, c), After(k, w, c))
      <4>1. down \in Seq(LampCommand)
        BY DEF LampTypes
      <4> QED BY <1>2, <3>2, <4>1, LeadsFurther
    <3>4. k = "state" => After(k, w, c) \in {"ON", "OFF"}
      BY <1>2, <3>2, AfterIsState
    <3>5. k \in DOMAIN after => after[k] = After(k, w, c)
      <4>1. k \in DOMAIN Kept => Kept[k] = w
        BY <1>7, <3>2
      <4> QED BY <1>2, <1>11, <3>2, <4>1, AcceptedValue
    <3>6. Leads(k, device'[k], down', After(k, w, c))
      BY <1>1, <3>3
    <3> QED BY <1>7, <3>4, <3>5, <3>6
  <2> QED BY <1>1, <1>8, <1>11, <2>1 DEF LampGood
<1> QED
  BY <1>10, <1>11 DEF Lamps

\* A request fails, perhaps after it was sent.
LEMMA LampGoodFailed ==
  ASSUME LampTypes, kind \in Lamps, LampGood, SendFails, ~astray' PROVE LampGood'
<1> DEFINE q == set.requests
           c == Encoded(Head(q))
           o == set.optimistic
<1>1. /\ Sending /\ UNCHANGED <<kind, device, up, state, published>>
      /\ set' = [set EXCEPT !.requests = Tail(@), !.optimistic = o]
      /\ \/ down' = down
         \/ down' = Append(down, c) /\ kind # "silent lamp"
  BY DEF SendFails, NotAccepted, mqttVars
<1>2. /\ set # NoSet /\ q \in Seq(LampRequest) /\ q # <<>>
      /\ set = [requests |-> q, optimistic |-> o, current |-> set.current]
      /\ c \in LampCommand
  BY <1>1, AskedFirst
<1> HIDE DEF c
<1>3. set' = [requests |-> Tail(q), optimistic |-> o, current |-> set.current]
  BY <1>1, <1>2
<1>4. set' # NoSet /\ set'.requests = Tail(q) /\ set'.optimistic = o
  BY <1>3, SetIsUnderWay
<1>5. View = Kept /\ View' = Kept
  <2>1. View' = Merge(set'.optimistic, state')
    BY <1>4 DEF View
  <2> QED BY <1>1, <1>2, <1>4, <2>1, ViewIs DEF Kept
<1>6. Asking'
  <2>1. \A i \in DOMAIN set.requests :
          set.requests[i].cluster = "level" =>
            /\ "brightness" \notin DOMAIN set.optimistic
            /\ kind = "silent lamp" /\ "state" \in DOMAIN set.optimistic =>
                 set.optimistic["state"] = OnOff(set.requests[i].value)
    BY <1>2 DEF LampGood, Asking, AskedIn
  <2>2. UNCHANGED <<kind, state>> /\ Asking
    BY <1>1 DEF LampGood
  <2> QED BY <1>2, <1>4, <2>1, <2>2, AskingAfter
<1>7. published' = state'
  BY <1>1 DEF LampGood
<1>8. CASE down' = down
  BY <1>1, <1>5, <1>6, <1>7, <1>8, SameView
<1>9. CASE down' = Append(down, c) /\ kind # "silent lamp"
  <2>1. kind = "lamp"
    BY <1>9 DEF Lamps
  <2>2. down \in Seq(LampCommand) /\ c \in LampCommand
    BY <1>2 DEF LampTypes
  <2>3. \A i \in DOMAIN down : i \in DOMAIN down' /\ down'[i] = down[i]
    <3>1. /\ Append(down, c) \in Seq(LampCommand) /\ Len(Append(down, c)) = Len(down) + 1
          /\ \A i \in 1..Len(down) : Append(down, c)[i] = down[i]
      BY <2>2, Appended
    <3>2. /\ Len(down) \in Nat /\ DOMAIN down = 1..Len(down)
          /\ DOMAIN Append(down, c) = 1..Len(Append(down, c))
      BY <2>2, <3>1, Counted
    <3> DEFINE n == Len(down)
    <3> HIDE DEF n
    <3>3. \A i \in 1..n : i \in 1..(n + 1)
      <4>1. n \in Nat
        BY <3>2 DEF n
      <4> QED BY ONLY <4>1
    <3>4. down' = Append(down, c) /\ DOMAIN down' = 1..(n + 1) /\ DOMAIN down = 1..n
      BY <1>9, <3>1, <3>2 DEF n
    <3>5. \A i \in 1..n : down'[i] = down[i]
      BY <3>1, <3>4 DEF n
    <3> QED BY <3>3, <3>4, <3>5
  <2>4. LastReported'
    BY <1>1, <2>1 DEF LampGood, LastReported, ClusterOf
  <2>5. Agreed'
    <3>1. SUFFICES ASSUME NEW k \in Attributes, k \in DOMAIN View,
                          \A i \in DOMAIN up : up[i].cluster # ClusterOf(k),
                          \A i \in DOMAIN down' : After(k, device[k], down'[i]) = device[k]
                   PROVE  View[k] = device[k]
      BY <1>1, <1>5 DEF Agreed, ClusterOf, After, OnOff, Toggled
    <3>2. \A i \in DOMAIN down : After(k, device[k], down[i]) = device[k]
      BY <2>3, <3>1
    <3> QED BY <2>1, <3>1, <3>2 DEF LampGood, Agreed
  <2> QED BY <1>1, <1>6, <1>7, <2>1, <2>4, <2>5 DEF LampGood
<1> QED
  BY <1>1, <1>8, <1>9

\* What was accepted is kept.
LEMMA LampGoodEnded ==
  ASSUME LampGood, SetEnds PROVE LampGood'
<1> DEFINE o == set.optimistic
<1>1. /\ set # NoSet /\ set' = NoSet /\ UNCHANGED <<kind, device, up, down>>
      /\ \/ o = Empty /\ UNCHANGED <<state, published>>
         \/ state' = Kept /\ published' = state'
  BY DEF SetEnds, deviceVars, Kept
<1>2. View = Kept /\ View' = state'
  <2>1. View' = state'
    BY <1>1 DEF View
  <2> QED BY <1>1, <2>1, ViewIs
<1>3. DOMAIN View' = DOMAIN View /\ \A k \in DOMAIN View : View'[k] = View[k]
  <2>1. CASE o = Empty /\ UNCHANGED <<state, published>>
    <3>1. /\ DOMAIN Kept = DOMAIN o \union DOMAIN state
          /\ \A k \in DOMAIN state \ DOMAIN o : Kept[k] = state[k]
      BY MergedKept
    <3>2. DOMAIN o = {}
      BY <2>1, EmptyState
    <3>3. DOMAIN Kept = DOMAIN state /\ \A k \in DOMAIN Kept : Kept[k] = state[k]
      BY <3>1, <3>2
    <3> HIDE DEF o
    <3> QED BY <1>2, <2>1, <3>3
  <2>2. CASE state' = Kept
    BY <1>2, <2>2
  <2> QED BY <1>1, <2>1, <2>2
<1>4. published' = state'
  BY <1>1 DEF LampGood
<1>5. Asking'
  BY <1>1, NothingAsked
<1> QED
  BY <1>1, <1>3, <1>4, <1>5, SameView

\* A step that leaves the lamp and its record alone.
LEMMA LampGoodKept ==
  ASSUME LampGood, UNCHANGED <<kind, device, up, down, state, set>>,
         published' \in {published, state}
  PROVE  LampGood'
<1>1. View' = View
  BY DEF View
<1>2. Asking'
  BY SameAsking DEF LampGood
<1>3. published' = state'
  BY DEF LampGood
<1> QED
  BY <1>1, <1>2, <1>3, SameView

LEMMA LampInit == StateInit => LampInv
<1> SUFFICES ASSUME StateInit, kind \in Lamps PROVE LampGood
  BY DEF LampInv
<1>1. /\ down = <<>> /\ up = <<>> /\ state = Empty /\ set = NoSet /\ published = Empty
  BY DEF StateInit
<1>2. View = state /\ DOMAIN View = {}
  BY <1>1, ViewIs, EmptyState
<1>3. DOMAIN up = {}
  BY <1>1
<1>4. Foreseen
  <2>1. SUFFICES ASSUME NEW k \in Attributes
                 PROVE  \E w : /\ Leads(k, device[k], down, w)
                               /\ k = "state" => w \in {"ON", "OFF"}
                               /\ k \in DOMAIN View => View[k] = w
    BY DEF Foreseen
  <2>2. Leads(k, device[k], <<>>, device[k])
    BY LeadsNowhere
  <2>3. k = "state" => device[k] \in {"ON", "OFF"}
    <3>1. LampTypes
      BY StateTypesInit DEF StateTypes
    <3> QED BY <3>1 DEF LampTypes, LampDevice
  <2> QED BY <1>1, <1>2, <2>2, <2>3
<1> QED
  BY <1>1, <1>2, <1>3, <1>4 DEF LampGood, LastReported, Agreed, Asking, AskedIn

\* The steps of a lamp whose record is not astray.
LEMMA LampSteps ==
  ASSUME StateTypes, kind \in Lamps, ~astray', [StateNext]_deviceStateVars
  PROVE  /\ kind' = kind /\ ~astray
         /\ \/ LampObeys \/ LampSwitched \/ Message \/ SetHandling
            \/ \E p \in Payloads : SetDevice(p)
            \/ /\ UNCHANGED <<kind, device, up, down, state, set>>
               /\ published' \in {published, state}
<1> DEFINE Kepts == /\ UNCHANGED <<kind, device, up, down, state, set>>
                    /\ published' \in {published, state}
<1>1. CASE UNCHANGED deviceStateVars
  BY <1>1 DEF deviceStateVars, deviceVars, recordVars, mqttVars, stateHistory
<1>2. CASE LampObeys
  BY <1>2 DEF LampObeys, stateHistory
<1>3. CASE LampSwitched
  BY <1>3 DEF LampSwitched, stateHistory
<1>4. ~AlarmChanges /\ ~SensorAnswers /\ ~ButtonPressed /\ ~FrameLost
  BY DEF AlarmChanges, SensorAnswers, ButtonPressed, FrameLost, Lamps
<1>5. CASE CompleteInterview
  BY <1>5 DEF CompleteInterview, deviceVars
<1>6. CASE Message
  BY <1>6 DEF Message
<1>7. CASE GetDevice
  BY <1>7 DEF GetDevice, deviceVars, recordVars
<1>8. CASE RepublishState
  BY <1>8 DEF RepublishState, Republished, deviceVars, recordVars
<1>9. CASE RestartState
  <2>1. /\ UNCHANGED <<kind, device, state, set>> /\ up' = <<>>
        /\ astray' = (astray \/ up # <<>> \/ down' # down)
        /\ published' \in {published, state}
    BY <1>9, Zenon DEF RestartState, Republished
  <2>2. ~astray /\ up = <<>> /\ down' = down
    BY <2>1
  <2> QED BY <2>1, <2>2
<1>10. CASE SendAccepted
  BY <1>10 DEF SendAccepted, SetHandling, stateHistory
<1>11. CASE SendFails
  <2>1. kind' = kind
    BY <1>11, Zenon DEF SendFails
  <2>2. astray' = astray \/ astray' = (astray \/ kind = "silent lamp")
    BY <1>11, Zenon DEF SendFails
  <2>3. ~astray
    BY <2>2, Zenon
  <2> QED BY <1>11, <2>1, <2>3 DEF SetHandling
<1>12. CASE SetEnds
  BY <1>12 DEF SetEnds, SetHandling, deviceVars
<1>13. CASE \E p \in Payloads : SetDevice(p)
  BY <1>13 DEF SetDevice, deviceVars
<1> QED
  BY <1>1, <1>2, <1>3, <1>4, <1>5, <1>6, <1>7, <1>8, <1>9, <1>10, <1>11, <1>12, <1>13
     DEF StateNext, Outside, SetHandling

LEMMA LampStep == StateTypes /\ LampInv /\ [StateNext]_deviceStateVars => LampInv'
<1> SUFFICES ASSUME StateTypes, LampInv, [StateNext]_deviceStateVars, kind' \in Lamps, ~astray'
             PROVE  LampGood'
  BY DEF LampInv, Lamps
<1>1. kind \in Lamps
  BY DEF StateNext, Outside, SetHandling, deviceStateVars, deviceVars, LampObeys, LampSwitched,
     AlarmChanges, SensorAnswers, ButtonPressed, FrameLost, CompleteInterview, Message, GetDevice,
     RepublishState, SetDevice, SendAccepted, SendFails, SetEnds, RestartState
<1>2. /\ ~astray
      /\ \/ LampObeys \/ LampSwitched \/ Message \/ SetHandling
         \/ \E p \in Payloads : SetDevice(p)
         \/ /\ UNCHANGED <<kind, device, up, down, state, set>>
            /\ published' \in {published, state}
  BY <1>1, LampSteps
<1>3. LampTypes /\ LampGood
  BY <1>1, <1>2 DEF StateTypes, LampInv
<1>4. CASE LampObeys
  BY <1>1, <1>3, <1>4, LampGoodObeyed
<1>5. CASE LampSwitched
  BY <1>3, <1>5, LampGoodSwitched
<1>6. CASE Message
  BY <1>1, <1>3, <1>6, LampGoodHeard
<1>7. CASE SendAccepted
  BY <1>1, <1>3, <1>7, LampGoodAccepted
<1>8. CASE SendFails
  BY <1>1, <1>3, <1>8, LampGoodFailed
<1>9. CASE SetEnds
  BY <1>3, <1>9, LampGoodEnded
<1>10. CASE \E p \in Payloads : SetDevice(p)
  BY <1>3, <1>10, LampGoodSet
<1>11. CASE UNCHANGED <<kind, device, up, down, state, set>> /\ published' \in {published, state}
  BY <1>3, <1>11, LampGoodKept
<1> QED
  BY <1>2, <1>4, <1>5, <1>6, <1>7, <1>8, <1>9, <1>10, <1>11 DEF SetHandling

\* What is published of a lamp once nothing is under way is what it does, as far as
\* anything is known of it.
THEOREM LampShownTruly == StateSpec => []LampShown
<1>1. StateTypes /\ LampInv => LampShown
  <2> SUFFICES ASSUME StateTypes, LampInv, kind \in Lamps, Quiet,
                      NEW k \in DOMAIN published \intersect DOMAIN device
               PROVE  published[k] = device[k]
    BY DEF LampShown
  <2>1. /\ LampTypes /\ LampGood /\ set = NoSet /\ down = <<>> /\ up = <<>>
    BY DEF StateTypes, LampInv, Quiet
  <2>2. published = state /\ View = state
    BY <2>1, ViewIs DEF LampGood
  <2>3. k \in Attributes /\ k \in DOMAIN View
    BY <2>1, <2>2 DEF LampTypes, LampDevice, Attributes
  <2>4. CASE kind = "lamp"
    <3>1. DOMAIN up = {} /\ DOMAIN down = {}
      BY <2>1
    <3>2. Agreed
      BY <2>1, <2>4 DEF LampGood
    <3> QED BY <2>2, <2>3, <3>1, <3>2 DEF Agreed
  <2>5. CASE kind = "silent lamp"
    <3>1. PICK w : Leads(k, device[k], <<>>, w) /\ View[k] = w
      BY <2>1, <2>3, <2>5 DEF LampGood, Foreseen
    <3>2. device[k] = w
      BY <3>1, LeadsNowhere
    <3> QED BY <2>2, <3>1, <3>2
  <2> QED BY <2>4, <2>5 DEF Lamps
<1> QED
  BY <1>1, StateTypesInit, StateTypesStep, LampInit, LampStep, PTL DEF StateSpec

-----------------------------------------------------------------------------
(***************************************************************************)
(* The loop.                                                               *)
(***************************************************************************)

LEMMA PermitJoinStep == [MainNext]_vars => [PermitNext]_permitJoinVars
<1> SUFFICES ASSUME [MainNext]_vars PROVE [PermitNext]_permitJoinVars
  OBVIOUS
<1>1. CASE (Tick \/ AdapterNext \/ PermitHandlers) /\ UNCHANGED deviceStateVars
  BY <1>1 DEF PermitNext
<1>2. CASE Outside /\ UNCHANGED permitJoinVars
  BY <1>2
<1>3. CASE Between(CompleteInterview \/ Message \/ GetDevice)
  BY <1>3 DEF Between
<1>4. CASE StartSet \/ StartOther
  BY <1>4 DEF StartSet, StartOther, PermitNext
<1>5. CASE Sent
  BY <1>5 DEF Sent
<1>6. CASE EndSet \/ EndOther
  BY <1>6 DEF EndSet, EndOther, PermitNext
<1>7. CASE Connected \/ Restarted
  BY <1>7 DEF Connected, Restarted, PermitNext
<1>8. CASE UNCHANGED vars
  BY <1>8 DEF vars
<1> QED
  BY <1>1, <1>2, <1>3, <1>4, <1>5, <1>6, <1>7, <1>8 DEF MainNext

\* The loop implements the permit-join window: every step is one of PermitJoin or
\* leaves it alone.
THEOREM LoopImplementsPermitJoin == MainSpec => PermitSpec
<1>1. MainInit => PermitInit
  BY DEF MainInit
<1> QED
  BY <1>1, PermitJoinStep, PTL DEF MainSpec, PermitSpec

LEMMA DeviceStateStep == [MainNext]_vars => [StateNext]_deviceStateVars
<1> SUFFICES ASSUME [MainNext]_vars PROVE [StateNext]_deviceStateVars
  OBVIOUS
<1>1. CASE (Tick \/ AdapterNext \/ PermitHandlers) /\ UNCHANGED deviceStateVars
  BY <1>1
<1>2. CASE Outside /\ UNCHANGED permitJoinVars
  BY <1>2 DEF StateNext
<1>3. CASE Between(CompleteInterview \/ Message \/ GetDevice)
  BY <1>3 DEF Between, StateNext
<1>4. CASE StartSet
  BY <1>4 DEF StartSet, StateNext
<1>5. CASE Sent
  BY <1>5 DEF Sent, StateNext, SetHandling
<1>6. CASE EndSet
  BY <1>6 DEF EndSet, StateNext, SetHandling
<1>7. CASE StartOther \/ EndOther
  BY <1>7 DEF StartOther, EndOther
<1>8. CASE Connected \/ Restarted
  BY <1>8 DEF Connected, Restarted, StateNext
<1>9. CASE UNCHANGED vars
  BY <1>9 DEF vars
<1> QED
  BY <1>1, <1>2, <1>3, <1>4, <1>5, <1>6, <1>7, <1>8, <1>9 DEF MainNext

\* The loop implements the device's state, likewise.
THEOREM LoopImplementsDeviceState == MainSpec => StateSpec
<1>1. MainInit => StateInit
  BY DEF MainInit
<1> QED
  BY <1>1, DeviceStateStep, PTL DEF MainSpec, StateSpec

\* Nobody joins unseen, while set commands hold up the loop as well.
THEOREM LoopShowsOpenWindow == MainSpec => []OpenIsShown
BY LoopImplementsPermitJoin, OpenWindowIsShown, PTL

\* The configured window stays open while they do: a set command may await four
\* answers, each until it times out, and as long as it likes for the lock and for
\* the broker; only if that keeps housekeeping for the margin less the timeout
\* may the window close.
THEOREM LoopKeepsWindow == MainSpec => []KeptOpen
BY LoopImplementsPermitJoin, ConfiguredWindowIsKept, PTL

\* No step of the loop opens again what an explicit disable closed.
THEOREM LoopLeavesClosed == MainSpec => StaysClosed
BY LoopImplementsPermitJoin, ClosedWindowStaysClosed, PTL

\* A press is shown once, also when handlers for other devices hold up the loop.
THEOREM LoopShowsPressOnce == MainSpec => []ActionShownOnce
BY LoopImplementsDeviceState, PressShownOnce, PTL

\* An alarm is published under the key the zone type then known gives it, and
\* Home Assistant has been told of that key with the proviso of AlarmReachesHA.
THEOREM LoopShowsAlarm == MainSpec => []AlarmReachesHA
BY LoopImplementsDeviceState, AlarmShown, PTL

\* What is shown of a lamp is what it does, likewise.
THEOREM LoopShowsLamp == MainSpec => []LampShown
BY LoopImplementsDeviceState, LampShownTruly, PTL

\* While a set command is under way the loop is busy.
Busied == set # NoSet => handler = "other"

LEMMA BusiedStep == Busied /\ [MainNext]_vars => Busied'
<1> SUFFICES ASSUME Busied, [MainNext]_vars PROVE Busied'
  OBVIOUS
<1> USE DEF Busied
<1>1. CASE (Tick \/ AdapterNext) /\ UNCHANGED deviceStateVars
  <2>1. UNCHANGED <<handler, set>>
    BY <1>1, Zenon DEF Tick, AdapterNext, AdapterTakes, AdapterRefuses, LostOnTheWay,
                       handlerVars, deviceStateVars, recordVars
  <2> QED
    BY <2>1
<1>2. CASE PermitHandlers /\ UNCHANGED deviceStateVars
  <2>1. set' = set
    BY <1>2 DEF deviceStateVars, recordVars
  <2>2. handler # "other" \/ handler' = handler
    BY <1>2 DEF PermitHandlers, PermitCommand, Starts, CommandAccepted, CommandFails,
                Housekeeping, RefreshAccepted, RefreshFails, Send, AnswerIgnored, handlerVars
  <2> QED
    BY <2>1, <2>2
<1>3. CASE Outside /\ UNCHANGED permitJoinVars
  BY <1>3 DEF Outside, LampObeys, LampSwitched, AlarmChanges, SensorAnswers, ButtonPressed,
              FrameLost, recordVars, permitJoinVars, handlerVars
<1>4. CASE Between(CompleteInterview \/ Message \/ GetDevice)
  BY <1>4 DEF Between, CompleteInterview, Message, GetDevice, recordVars
<1>5. CASE StartSet \/ StartOther
  BY <1>5 DEF StartSet, StartOther, OtherStarts, Starts
<1>6. CASE Sent
  BY <1>6 DEF Sent, permitJoinVars, handlerVars
<1>7. CASE EndSet \/ EndOther
  BY <1>7 DEF EndSet, EndOther, SetEnds, deviceStateVars, recordVars
<1>8. CASE Connected \/ Restarted
  BY <1>8 DEF Connected, Restarted, RepublishState, RestartState, recordVars
<1>9. CASE UNCHANGED vars
  BY <1>9 DEF vars, permitJoinVars, handlerVars, deviceStateVars, recordVars
<1> QED
  BY <1>1, <1>2, <1>3, <1>4, <1>5, <1>6, <1>7, <1>8, <1>9 DEF MainNext

\* Both parts keep their types, and requests are under way to a device only while
\* the loop is busy with them.
THEOREM LoopTypes == MainSpec => []TypeOK
<1>1. MainInit => Busied
  BY DEF MainInit, StateInit, Busied
<1>2. PermitTypeOK /\ StateTypeOK /\ Busied => TypeOK
  BY DEF TypeOK, Busied
<1>3. MainSpec => []Busied
  BY <1>1, BusiedStep, PTL DEF MainSpec
<1> QED
  BY <1>2, <1>3, LoopImplementsPermitJoin, LoopImplementsDeviceState, PermitTypes,
     StateTypesHold, PTL
=============================================================================

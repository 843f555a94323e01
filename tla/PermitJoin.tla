----------------------------- MODULE PermitJoin -----------------------------
(***************************************************************************)
(* The permit-join window (src/bridge.rs, PermitJoin and its uses in the    *)
(* main loop). The adapter lets devices join for the time it was last asked *)
(* for, and never says when it stops; the bridge keeps a time of its own,   *)
(* shows in bridge/info whether it has passed, and with permit_join: true   *)
(* asks again before it does.                                               *)
(*                                                                          *)
(* Time passes in ticks. The main loop runs one handler at a time, for as   *)
(* long as that may take: requests to devices, waits for the coordinator's  *)
(* lock, publications to a broker that stalls. One that goes on after what  *)
(* is modelled of it is the same as one that ends and another that starts.  *)
(***************************************************************************)
EXTENDS Integers, Sequences

CONSTANTS
  ConfigPermit,  \* what permit_join of the configuration may be
  Max,           \* PERMIT_JOIN_MAX
  Margin,        \* PERMIT_JOIN_REFRESH_MARGIN
  Period,        \* HOUSEKEEPING_INTERVAL
  Timeout,       \* REQUEST_TIMEOUT
  Asked,         \* durations clients ask for
  Forever,       \* 255, which closes the adapter's window never
  None,          \* no window; not yet
  MaxAsked,      \* bound on durations asked for
  MaxFailures    \* bound on requests refused, late or lost, and answers lost

ASSUME PermitJoinAssumption ==
  /\ ConfigPermit \subseteq BOOLEAN
  /\ {Max, Margin, Period, Timeout} \subseteq Nat \ {0}
  /\ {MaxAsked, MaxFailures} \subseteq Nat
  /\ None \notin Int /\ Forever \notin Int /\ None # Forever
  /\ Asked \subseteq 0..Max \union {Forever}
  /\ Timeout <= Margin /\ Margin < Max

VARIABLES
  window,       \* how long the adapter still lets devices join
  queue,        \* requests the adapter has yet to take
  answers,      \* its answers on their way
  until,        \* PermitJoin.until, from now; 0 when it has passed
  keepEnabled,  \* PermitJoin.keep_enabled
  shown,        \* permit_join as last published in bridge/info
  handler,      \* what the main loop runs: "idle", "command", "refresh" or "other"
  request,      \* the request it awaits: the duration, `until` before, the time
                \* since it was sent, and whether nothing was under way by then
  elapsed,      \* how long a refresh has run, up to Max
  clock,        \* time since the housekeeping before, up to Period
  asked,        \* durations asked for so far
  failures,     \* failures so far
  last,         \* history: the duration last taken for accepted
  lag,          \* history: time, to just beyond the margin, since housekeeping
                \* was last content with the window or asked for it again, or a
                \* client for one longer than the margin
  doubt         \* history: what is in doubt of the window: "none", "late" if since
                \* then refreshes timed out, "other" if the adapter may not
                \* have done what was asked last

windowVars == <<window, queue, answers>>
permitVars == <<until, keepEnabled, shown>>
handlerVars == <<handler, request, elapsed, clock>>
boundVars == <<asked, failures>>
permitHistory == <<last, lag, doubt>>
permitJoinVars == <<windowVars, permitVars, handlerVars, boundVars, permitHistory>>

NoRequest == [duration |-> 0, before |-> None, age |-> None, alone |-> TRUE]

Awaiting == handler \in {"command", "refresh"}

\* The request has got the coordinator's lock.
Underway == Awaiting /\ request.age # None

\* PermitJoin::enabled.
Enabled(u) == u # None /\ u > 0

\* PermitJoin::on_sent: for the bridge, 255 is a number of seconds.
OnSent(d) == IF d = 0 THEN None ELSE IF d = Forever THEN Max + 1 ELSE d

Due == clock >= Period

\* How the main loop begins: the adapter, opened or closed explicitly, has done
\* as asked some time before it answered, or has not. A timeout while it is
\* opened ends the process.
Startup ==
  LET Opened(windows, d) ==
        {[window |-> w, until |-> Max, open |-> TRUE, last |-> Max, doubt |-> d] : w \in windows}
      Closed(windows, d) ==
        {[window |-> w, until |-> None, open |-> FALSE, last |-> 0, doubt |-> d] : w \in windows}
  IN (IF TRUE \in ConfigPermit
      THEN Opened((Max - Timeout)..Max, "none") \union Opened({0}, "other") ELSE {})
     \union
     (IF FALSE \in ConfigPermit
      THEN Closed({0}, "none") \union Closed({0, Max, Forever}, "other") ELSE {})

\* The first tick of housekeeping is due at once.
PermitInit ==
  /\ \E s \in Startup : /\ window = s.window /\ until = s.until
                        /\ keepEnabled = s.open /\ shown = s.open
                        /\ last = s.last /\ doubt = s.doubt
  /\ queue = <<>> /\ answers = <<>>
  /\ handler = "idle" /\ request = NoRequest /\ elapsed = 0
  /\ clock = Period /\ lag = 0
  /\ asked = 0 /\ failures = 0

-----------------------------------------------------------------------------
\* Time, and the adapter.

Later(t) == IF t \in {0, None, Forever} THEN t ELSE t - 1

\* A loop that is idle runs a housekeeping that is due before time passes, and
\* one that has sent a request ends in time.
Tick ==
  /\ handler = "idle" => ~Due
  /\ Underway => request.age < Timeout
  /\ window' = Later(window) /\ until' = Later(until)
  /\ clock' = IF Due THEN clock ELSE clock + 1
  /\ elapsed' = IF handler = "refresh" /\ elapsed < Max THEN elapsed + 1 ELSE elapsed
  /\ request' = IF Underway THEN [request EXCEPT !.age = @ + 1] ELSE request
  /\ lag' = IF keepEnabled /\ lag <= Margin THEN lag + 1 ELSE lag
  /\ UNCHANGED <<queue, answers, keepEnabled, shown, handler, boundVars, last, doubt>>

AdapterTakes ==
  /\ queue # <<>>
  /\ window' = Head(queue) /\ queue' = Tail(queue)
  /\ answers' = Append(answers, "ok")
  /\ UNCHANGED <<permitVars, handlerVars, boundVars, permitHistory>>

AdapterRefuses ==
  /\ queue # <<>> /\ failures < MaxFailures
  /\ failures' = failures + 1
  /\ queue' = Tail(queue)
  /\ answers' = Append(answers, "refused")
  /\ UNCHANGED <<window, permitVars, handlerVars, asked, permitHistory>>

LostOnTheWay ==
  /\ failures < MaxFailures
  /\ failures' = failures + 1
  /\ \/ queue # <<>> /\ queue' = Tail(queue) /\ UNCHANGED answers
     \/ answers # <<>> /\ answers' = Tail(answers) /\ UNCHANGED queue
  /\ UNCHANGED <<window, permitVars, handlerVars, asked, permitHistory>>

\* An answer to a request given up, when there is no other.
AnswerIgnored ==
  /\ answers # <<>> /\ ~Underway
  /\ answers' = Tail(answers)
  /\ UNCHANGED <<window, queue, permitVars, handlerVars, boundVars, permitHistory>>

-----------------------------------------------------------------------------
\* Handlers.

Starts(h) == handler = "idle" /\ handler' = h

Ends == handler' = "idle" /\ request' = NoRequest /\ elapsed' = 0

\* CoordinatorHandle::permit_join: it waits for the lock,
Asks(d) == request' = [NoRequest EXCEPT !.duration = d, !.before = until]

\* and sends the request.
Send ==
  /\ Awaiting /\ request.age = None
  /\ queue' = Append(queue, request.duration)
  /\ request' = [request EXCEPT !.age = 0, !.alone = queue = <<>> /\ answers = <<>>]
  /\ UNCHANGED <<window, answers, permitVars, handler, elapsed, clock, boundVars,
                 permitHistory>>

\* The first answer to come is taken for that of the request.
\* ZnpHandle::permit_join: a refusal is logged and taken for an acceptance.
Accepted == Underway /\ answers # <<>> /\ answers' = Tail(answers)

\* It is rejected, which may come at once, or times out.
RequestFails == Underway

\* A request that has failed may still be taken, or answered.
Late ==
  IF queue = <<>> /\ answers = <<>> THEN UNCHANGED failures
  ELSE failures < MaxFailures /\ failures' = failures + 1

\* MqttCommand::PermitJoin.
PermitCommand(d) ==
  /\ asked < MaxAsked
  /\ Starts("command") /\ Asks(d)
  /\ asked' = asked + 1
  /\ UNCHANGED <<windowVars, permitVars, elapsed, clock, failures, permitHistory>>

\* Keeping the configured refresh going whatever was asked for.
KeepAfterAll(d) == keepEnabled

\* An explicit disable also stops the refresh.
KeepAfter(d) == keepEnabled /\ d # 0

\* What an answer leaves in doubt: it was a refusal, or may be that to a request
\* given up before.
InDoubt == IF Head(answers) = "refused" \/ ~request.alone THEN "other" ELSE "none"

\* Leaving bridge/info as it is.
CommandUnpublished(d) ==
  /\ until' = OnSent(d)
  /\ UNCHANGED shown

\* What follows Ok.
CommandTakes(d) ==
  /\ until' = OnSent(d)
  /\ shown' = Enabled(OnSent(d))

Longer(d) == d = Forever \/ d > Margin

CommandAccepted ==
  /\ handler = "command" /\ Accepted
  /\ CommandTakes(request.duration)
  /\ keepEnabled' = KeepAfter(request.duration)
  /\ last' = request.duration /\ doubt' = InDoubt
  /\ lag' = IF Longer(request.duration) THEN 0 ELSE lag
  /\ Ends
  /\ UNCHANGED <<window, queue, clock, boundVars>>

CommandFails ==
  /\ handler = "command" /\ RequestFails /\ Late
  /\ doubt' = "other"
  /\ Ends
  /\ UNCHANGED <<windowVars, permitVars, clock, asked, last, lag>>

\* Asking again only once the window has closed.
RefreshWhenClosed == keepEnabled /\ ~Enabled(until)

NeedsRefresh == keepEnabled /\ (until = None \/ until <= Margin)

\* PermitJoin::take_expired at a time when until was u.
TakeExpired(u) ==
  IF u = 0 THEN until' = None /\ shown' = FALSE ELSE UNCHANGED <<until, shown>>

\* The housekeeping tick, as far as permit join goes: all of it, or up to the
\* request it awaits.
Housekeeping ==
  /\ handler = "idle" /\ Due
  /\ clock' = 0
  /\ IF NeedsRefresh
     THEN handler' = "refresh" /\ Asks(Max) /\ UNCHANGED <<until, shown, lag>>
     ELSE /\ TakeExpired(until)
          /\ lag' = 0
          /\ UNCHANGED <<handler, request>>
  /\ UNCHANGED <<windowVars, keepEnabled, elapsed, boundVars, last, doubt>>

\* The time is that of the tick, from before the request.
RefreshAccepted ==
  /\ handler = "refresh" /\ Accepted
  /\ until' = Max - elapsed
  /\ shown' = (shown \/ ~Enabled(request.before))
  /\ last' = Max /\ doubt' = InDoubt
  /\ lag' = IF elapsed > Margin THEN Margin + 1 ELSE elapsed
  /\ Ends
  /\ UNCHANGED <<window, queue, keepEnabled, clock, boundVars>>

RefreshFails ==
  /\ handler = "refresh" /\ RequestFails /\ Late
  /\ TakeExpired(request.before)
  /\ doubt' = IF doubt = "other" THEN doubt ELSE "late"
  /\ Ends
  /\ UNCHANGED <<windowVars, keepEnabled, clock, asked, last, lag>>

OtherStarts ==
  /\ Starts("other")
  /\ UNCHANGED <<windowVars, permitVars, request, elapsed, clock, boundVars, permitHistory>>

OtherEnds ==
  /\ handler = "other"
  /\ Ends
  /\ UNCHANGED <<windowVars, permitVars, clock, boundVars, permitHistory>>

\* MqttCommand::Connected.
Republish ==
  /\ handler = "idle"
  /\ shown' = Enabled(until)
  /\ UNCHANGED <<windowVars, until, keepEnabled, handlerVars, boundVars, permitHistory>>

\* The process, started again, resets the adapter.
Restart ==
  /\ handler = "idle"
  /\ \E s \in Startup : /\ window' = s.window /\ until' = s.until
                        /\ keepEnabled' = s.open /\ shown' = s.open
                        /\ last' = s.last /\ doubt' = s.doubt
  /\ queue' = <<>> /\ answers' = <<>>
  /\ clock' = Period /\ lag' = 0
  /\ UNCHANGED <<handler, request, elapsed, boundVars>>

AdapterNext == AdapterTakes \/ AdapterRefuses \/ LostOnTheWay

PermitHandlers ==
  \/ \E d \in Asked : PermitCommand(d)
  \/ CommandAccepted \/ CommandFails
  \/ Housekeeping \/ RefreshAccepted \/ RefreshFails
  \/ Send \/ AnswerIgnored

PermitNext ==
  \/ Tick \/ AdapterNext \/ PermitHandlers
  \/ OtherStarts \/ OtherEnds \/ Republish \/ Restart

PermitSpec == PermitInit /\ [][PermitNext]_permitJoinVars

-----------------------------------------------------------------------------
\* Properties.

PermitTypeOK ==
  /\ window \in 0..Max \union {Forever} /\ until \in 0..(Max + 1) \union {None}
  /\ queue \in Seq(0..Max \union {Forever}) /\ answers \in Seq({"ok", "refused"})
  /\ keepEnabled \in BOOLEAN /\ shown \in BOOLEAN /\ doubt \in {"none", "late", "other"}
  /\ handler \in {"idle", "command", "refresh", "other"}
  /\ request \in [duration : 0..Max \union {Forever}, before : 0..(Max + 1) \union {None},
                  age : 0..Timeout \union {None}, alone : BOOLEAN]
  /\ elapsed \in 0..Max /\ clock \in 0..Period /\ lag \in 0..(Margin + 1)
  /\ asked \in 0..MaxAsked /\ failures \in 0..MaxFailures
  /\ last \in 0..Max \union {Forever}

\* The handlers have kept the loop from renewing the window for longer than the
\* margin.
HeldUp == keepEnabled /\ lag > Margin

\* Nobody joins unseen: while the adapter lets devices join, bridge/info says so,
\* unless the adapter is just being asked, may not have done what it was asked
\* last, was asked for 255, or housekeeping has been held up for longer than the
\* margin (`until` counts from before a refresh is sent, and may then pass
\* first); and what is shown as open is known to close (bridge.rs 1176, "Actual
\* permit-join state, as last sent to the coordinator").
OpenIsShown ==
  /\ ~Underway /\ doubt = "none" /\ last # Forever /\ ~HeldUp /\ window # 0 => shown
  /\ shown => until # None

\* With permit_join: true the window closes on its own only if for as long as the
\* margin, less the time an answer takes, housekeeping has neither been content
\* with it nor had an answer to its request: in whatever order handlers fall,
\* however long they take, and with refreshes that time out in between
\* (bridge.rs 46-50). What a client asked for must itself be longer than the
\* margin, and the adapter must not have refused a request or left one of a
\* client unanswered.
KeptOpen ==
  keepEnabled /\ doubt # "other" /\ Longer(last) /\ ~(handler = "command" /\ Underway) =>
    window # 0 \/ lag + Timeout > Margin

\* What an explicit disable closed, and the adapter did close, only a request
\* of a client opens again while the process runs (bridge.rs 367-372).
StaysClosed ==
  [][last = 0 /\ doubt = "none" /\ window = 0 /\ window' # 0
       => handler = "command" \/ Restart]_permitJoinVars
=============================================================================

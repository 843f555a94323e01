---------------------------- MODULE ZnpTransport ----------------------------
(***************************************************************************)
(* The request side of the ZNP serial transport                            *)
(* (src/coordinator/znp/transport.rs): an actor task owns the serial port, *)
(* writes one request at a time and pairs it with the next synchronous     *)
(* response of the same shape (subsystem and command), since the wire      *)
(* format carries no request number. The adapter at the other end answers  *)
(* in order, but may be late, reject a command or never answer.            *)
(***************************************************************************)
EXTENDS Naturals, Sequences

CONSTANTS
  Shape,        \* request shapes: subsystem and command
  MaxRequests,  \* bound on the requests ever made
  MaxSpurious   \* bound on responses to nothing

ASSUME TransportAssumption ==
  /\ MaxRequests \in Nat
  /\ MaxSpurious \in Nat

Request == 1..MaxRequests

\* Nobody's request: an unsolicited response, or no pending request.
None == 0

VARIABLES
  made,      \* requests made so far, numbered in the order of the calls
  shape,     \* the shape of each
  outcome,   \* what each call of request() has returned, or "open"
  queue,     \* the channel from the callers to the actor
  pending,   \* TransportActor.pending
  timeouts,  \* TransportActor.consecutive_timeouts
  status,    \* the actor is running, or why it has stopped
  toAdapter, \* requests written to the serial port
  toHost,    \* responses on the serial port
  spurious,  \* responses to nothing so far
  ended      \* history: how the requests that were written ended, in order

actorVars == <<queue, pending, timeouts, status, outcome, ended>>
callerVars == <<made, shape>>
adapterVars == <<toAdapter, toHost, spurious>>
vars == <<made, shape, outcome, queue, pending, timeouts, status,
          toAdapter, toHost, spurious, ended>>

\* A response: SRSP or RPC error, of a shape, to request `to`.
Response == [kind : {"reply", "rejected"}, shape : Shape, to : Request \union {None}]

\* What request() returns: the response to a request, or one of the errors
\* Timeout, ChannelClosed and (from a failed write) Io.
Outcome == [kind : {"reply", "rejected", "timeout", "closed", "failed"},
            to : Request \union {None}]
Open == [kind |-> "open", to |-> None]
Error(kind) == [kind |-> kind, to |-> None]

MAX_CONSECUTIVE_TIMEOUTS == 3

\* One timeout too late.
GivesUpBeyond(k) == k > MAX_CONSECUTIVE_TIMEOUTS

GivesUpAt(k) == k >= MAX_CONSECUTIVE_TIMEOUTS

Running == status = "running"

\* Writing a request while another is outstanding.
AlwaysReady == Running /\ queue # <<>>

\* The guard of the select! branch that reads the channel.
Ready == Running /\ pending = None /\ queue # <<>>

Init ==
  /\ made = 0
  /\ shape \in [Request -> Shape]
  /\ outcome = [r \in Request |-> Open]
  /\ queue = <<>>
  /\ pending = None
  /\ timeouts = 0
  /\ status = "running"
  /\ toAdapter = <<>>
  /\ toHost = <<>>
  /\ spurious = 0
  /\ ended = <<>>

-----------------------------------------------------------------------------
\* request(): queued for the actor, or refused when it is gone.
Call ==
  /\ made < MaxRequests
  /\ made' = made + 1
  /\ IF Running
     THEN /\ queue' = Append(queue, made + 1)
          /\ UNCHANGED outcome
     ELSE /\ outcome' = [outcome EXCEPT ![made + 1] = Error("closed")]
          /\ UNCHANGED queue
  /\ UNCHANGED <<shape, pending, timeouts, status, adapterVars, ended>>

\* Leaving the callers that are still queued to wait.
ForgetQueued(open, why) ==
  /\ status' = why
  /\ queue' = <<>>
  /\ pending' = None
  /\ outcome' = [r \in Request |-> IF r = pending THEN Error("closed") ELSE open[r]]

\* The actor returns: dropping its fields fails every open request. `open` is
\* the outcomes it has sent before.
Stop(open, why) ==
  /\ status' = why
  /\ queue' = <<>>
  /\ pending' = None
  /\ outcome' = [r \in Request |-> IF r <= made /\ open[r] = Open
                                  THEN Error("closed") ELSE open[r]]

\* The next queued request is written and becomes the pending one.
Accept ==
  /\ Ready
  /\ pending' = Head(queue)
  /\ queue' = Tail(queue)
  /\ toAdapter' = Append(toAdapter, Head(queue))
  /\ UNCHANGED <<callerVars, outcome, timeouts, status, toHost, spurious, ended>>

\* ... or cannot be written, which is fatal.
WriteFails ==
  /\ Ready
  /\ Stop([outcome EXCEPT ![Head(queue)] = Error("failed")], "io")
  /\ UNCHANGED <<callerVars, timeouts, adapterVars, ended>>

\* REQUEST_TIMEOUT has passed.
TimeOut ==
  LET told == [outcome EXCEPT ![pending] = Error("timeout")]
  IN /\ Running
     /\ pending # None
     /\ timeouts' = timeouts + 1
     /\ ended' = Append(ended, "timeout")
     /\ IF GivesUpAt(timeouts + 1)
        THEN Stop(told, "unresponsive")
        ELSE /\ outcome' = told
             /\ pending' = None
             /\ UNCHANGED <<queue, status>>
     /\ UNCHANGED <<callerVars, adapterVars>>

\* Comparing only the command, not the subsystem.
MatchAnything(f) == pending # None

\* match_srsp: a reply or a rejection that names the pending request's shape.
Match(f) == pending # None /\ f.shape = shape[pending]

\* Counting a rejection as no sign of life.
TimeoutsAfterKept(f) == IF f.kind = "reply" THEN 0 ELSE timeouts

\* The adapter answered, so it is alive.
TimeoutsAfter(f) == 0

\* The actor reads a response from the port. One that does not match is
\* dropped.
Receive ==
  LET f == Head(toHost)
  IN /\ Running
     /\ toHost # <<>>
     /\ toHost' = Tail(toHost)
     /\ IF Match(f)
        THEN /\ outcome' = [outcome EXCEPT ![pending] = [kind |-> f.kind, to |-> f.to]]
             /\ pending' = None
             /\ timeouts' = TimeoutsAfter(f)
             /\ ended' = Append(ended, f.kind)
        ELSE UNCHANGED <<outcome, pending, timeouts, ended>>
     /\ UNCHANGED <<callerVars, queue, status, toAdapter, spurious>>

\* The port is closed or fails to read.
SerialFails ==
  /\ Running
  /\ Stop(outcome, "io")
  /\ UNCHANGED <<callerVars, timeouts, adapterVars, ended>>

-----------------------------------------------------------------------------
\* The adapter takes the requests in order, each answered, rejected or dropped.
Answer(kind) ==
  /\ toAdapter # <<>>
  /\ toAdapter' = Tail(toAdapter)
  /\ toHost' = Append(toHost, [kind |-> kind, shape |-> shape[Head(toAdapter)],
                               to |-> Head(toAdapter)])
  /\ UNCHANGED <<callerVars, actorVars, spurious>>

Ignore ==
  /\ toAdapter # <<>>
  /\ toAdapter' = Tail(toAdapter)
  /\ UNCHANGED <<callerVars, actorVars, toHost, spurious>>

\* A response nobody asked for, of a shape no request has.
Babble(s) ==
  /\ spurious < MaxSpurious
  /\ \A r \in Request : shape[r] # s
  /\ spurious' = spurious + 1
  /\ toHost' = Append(toHost, [kind |-> "reply", shape |-> s, to |-> None])
  /\ UNCHANGED <<callerVars, actorVars, toAdapter>>

-----------------------------------------------------------------------------
Actor == Accept \/ WriteFails \/ TimeOut \/ Receive \/ SerialFails

Adapter ==
  \/ \E kind \in {"reply", "rejected"} : Answer(kind)
  \/ Ignore
  \/ \E s \in Shape : Babble(s)

Next == Call \/ Actor \/ Adapter

\* The actor's task is scheduled and its timer fires. Nothing is assumed of the
\* adapter.
Fairness == WF_vars(Accept) /\ WF_vars(TimeOut)

Spec == Init /\ [][Next]_vars /\ Fairness

-----------------------------------------------------------------------------
\* The shape of the state.
TypeOK ==
  /\ made \in 0..MaxRequests
  /\ shape \in [Request -> Shape]
  /\ outcome \in [Request -> Outcome \union {Open}]
  /\ queue \in Seq(Request)
  /\ pending \in Request \union {None}
  /\ timeouts \in 0..MAX_CONSECUTIVE_TIMEOUTS
  /\ status \in {"running", "io", "unresponsive"}
  /\ toAdapter \in Seq(Request)
  /\ toHost \in Seq(Response)
  /\ spurious \in 0..MaxSpurious
  /\ ended \in Seq({"reply", "rejected", "timeout"})

Answered(r) == outcome[r].kind \in {"reply", "rejected"}

\* A call that is given the response to another request got an earlier one of
\* the same shape, and some earlier request of that shape timed out: without
\* timeouts every response reaches the call it answers. (One timeout is enough
\* for a whole run of calls to be given each other's responses, each the one
\* before it, while the requests follow each other closely.)
MispairedOnlyAfterTimeout ==
  \A r \in Request :
    Answered(r) /\ outcome[r].to # r =>
      /\ outcome[r].to \in 1..(r - 1)
      /\ shape[outcome[r].to] = shape[r]
      /\ \E q \in 1..(r - 1) : shape[q] = shape[r] /\ outcome[q].kind = "timeout"

\* The actor gives up on the adapter exactly when MAX_CONSECUTIVE_TIMEOUTS
\* requests in a row have gone unanswered: a reply or a rejection in between
\* starts the count again, a response to something else does not.
LastTimedOut(k) ==
  /\ k <= Len(ended)
  /\ \A j \in 1..k : ended[Len(ended) + 1 - j] = "timeout"

GivesUpWhenSilent == status = "unresponsive" <=> LastTimedOut(MAX_CONSECUTIVE_TIMEOUTS)

\* Calls end in the order they were made: none overtakes an earlier one.
InOrder ==
  \A r, q \in Request :
    q < r /\ outcome[r] # Open /\ outcome[r].kind # "closed" => outcome[q] # Open

\* Every call of request() returns, whatever the adapter does.
EveryCallReturns == \A r \in Request : r <= made ~> outcome[r] # Open

\* "SREQ/SRSP pairing is handled internally": a stale response is Unrelated, so
\* a call only ever gets the response to its own request.
OwnAnswer == \A r \in Request : Answered(r) => outcome[r].to = r
=============================================================================

---------------------------- MODULE Coordinator ----------------------------
(***************************************************************************)
(* The ZNP coordinator between the serial port and the main loop           *)
(* (src/coordinator/znp/mod.rs, src/coordinator/mod.rs): the start-up      *)
(* sequence, the bounded queues of indications, the event pump that        *)
(* translates them, and the lock through which the main loop and the tasks *)
(* it spawns (src/bridge.rs) make their requests. How the transport pairs  *)
(* responses with requests, the late ones among them, is module            *)
(* ZnpTransport; here a request times out when its answer does not come.   *)
(***************************************************************************)
EXTENDS Naturals, Sequences, Selection

CONSTANTS
  Task,          \* tasks the main loop can have spawned at a time
  TaskRequests,  \* requests one of them makes
  Main,          \* the main loop, as a client of the lock
  NvItems,       \* items of write_nv_config
  EventCap,      \* CHANNEL_CAPACITY of the indications
  OutCap,        \* capacity of the coordinator events
  Content,       \* what indications from devices carry
  PermitJoin,    \* Config.permit_join
  MaxMessages,   \* bound on indications from devices
  MaxResets      \* bound on resets nobody asked for

ASSUME CoordinatorAssumption ==
  /\ Main \notin Task
  /\ {TaskRequests, NvItems, EventCap, OutCap} \subseteq Nat \ {0}
  /\ {MaxMessages, MaxResets} \subseteq Nat
  /\ PermitJoin \in BOOLEAN

VARIABLES
  alive,      \* the transport actor is running
  pending,    \* the request it waits to be answered
  toAdapter,  \* requests on the serial port
  wire,       \* responses and indications on the serial port
  registered, \* the adapter has the bridge's endpoint
  messages,   \* indications sent by devices so far
  resets,     \* resets of the adapter nobody asked for, so far
  events,     \* ZnpCoordinator.event_rx, later the pump's znp_rx
  phase,      \* how far start() is
  todo,       \* the requests start() has yet to make
  early,      \* early_events
  pump,       \* the event pump's state
  held,       \* the events it waits to pass on, at most one
  out,        \* CoordinatorHandle.events
  loop,       \* the main loop's state
  lock,       \* who holds CoordinatorHandle.inner, then who waits for it
  task,       \* requests each spawned task has yet to make
  kept,       \* history: messages that found room since the reset
  delivered,  \* history: messages the main loop has handled
  unseen      \* history: why a lost endpoint goes unnoticed

adapterVars == <<registered, messages, resets>>
startVars == <<phase, todo, early>>
pumpVars == <<pump, held, out>>
loopVars == <<loop, lock, task>>
vars == <<alive, pending, toAdapter, wire, adapterVars, events, startVars,
          pumpVars, loopVars, kept, delivered, unseen>>

NoRequest == "none"
NoEvent == "none"

\* The requests of start(), and those of a ZnpHandle, which are alike here.
StartRequests == {"version", "nv", "bdb1", "bdb2", "register", "startup", "info"}
ClientRequest == "client"
Requests == StartRequests \union {ClientRequest}

\* The frames that matter on the wire. A reset has number 0 when start() asked
\* for it; a message has its number in the order of sending.
Response(status) == [kind |-> "response", status |-> status]
Reset(n) == [kind |-> "reset", n |-> n]
StateChange(up) == [kind |-> "state", up |-> up]
Message(n, c) == [kind |-> "message", n |-> n, content |-> c]
OtherFrame == [kind |-> "other"]

\* The event each indication becomes.
EventOf ==
  [EndDeviceAnnceInd |-> "DeviceJoined", LeaveInd |-> "DeviceLeft",
   AfIncomingMsg |-> "Message", ActiveEpRsp |-> "ActiveEpRsp",
   SimpleDescRsp |-> "SimpleDescRsp", BindRsp |-> "BindRsp",
   IeeeAddrRsp |-> "AddressResolved", TcDevInd |-> "AddressResolved"]

\* What an indication carries: its kind, whether it is as long as its fields
\* say, whether the status of an IeeeAddrRsp is a failure, and whether a
\* LeaveInd is long enough to hold a rejoin flag that is set.
AnyContent == [ind : DOMAIN EventOf, whole : BOOLEAN, failed : BOOLEAN, rejoin : BOOLEAN]

ASSUME ContentAssumption == Content \subseteq AnyContent

\* translate_event, with the parsers of commands.rs.
Translate(c) ==
  IF \/ ~c.whole
     \/ c.ind = "IeeeAddrRsp" /\ c.failed
     \/ c.ind = "LeaveInd" /\ c.rejoin
  THEN NoEvent
  ELSE EventOf[c.ind]

\* What dispatch_frame queues.
Indication ==
  [kind : {"reset"}, n : Nat] \union [kind : {"state"}, up : BOOLEAN]
    \union [kind : {"message"}, n : Nat, content : Content]

IsReset(f) == f.kind = "reset"
IsWanted(f) == f.kind = "message" /\ Translate(f.content) # NoEvent

Has(s, Test(_)) == \E i \in DOMAIN s : Test(s[i])
Numbers(s) == [i \in DOMAIN s |-> s[i].n]
Wanted(s) == Numbers(Select(s, {f \in Indication : IsWanted(f)}))

\* The reset reset() asks for is on its way.
Init ==
  /\ alive = TRUE
  /\ pending = NoRequest
  /\ toAdapter = <<"reset">>
  /\ wire = <<>>
  /\ registered \in BOOLEAN
  /\ messages = 0 /\ resets = 0
  /\ events = <<>>
  /\ phase = "resetting" /\ todo = <<"version">> /\ early = <<>>
  /\ pump = "absent" /\ held = <<>> /\ out = <<>>
  /\ loop = "absent" /\ lock = <<>> /\ task = [t \in Task |-> 0]
  /\ kept = <<>> /\ delivered = <<>> /\ unseen = {}

\* The process runs: start() has not failed, run() has not returned.
Up == phase # "failed" /\ loop # "ended"

-----------------------------------------------------------------------------
\* The adapter, which takes requests in order.

\* A soft reset forgets the endpoint and is reported; it may also be ignored.
AdapterResets ==
  /\ Up
  /\ toAdapter # <<>> /\ Head(toAdapter) = "reset"
  /\ toAdapter' = Tail(toAdapter)
  /\ \/ wire' = Append(wire, Reset(0)) /\ registered' = FALSE
     \/ UNCHANGED <<wire, registered>>
  /\ UNCHANGED <<alive, pending, messages, resets, events, startVars, pumpVars,
                 loopVars, kept, delivered, unseen>>

\* A request is answered, refused or left alone. The network that is started
\* may report so, once it is up.
AdapterAnswers ==
  /\ Up
  /\ toAdapter # <<>> /\ Head(toAdapter) # "reset"
  /\ toAdapter' = Tail(toAdapter)
  /\ LET shape == Head(toAdapter)
     IN \/ \E status \in {"ok", "bad", "rejected"}, up \in BOOLEAN :
             /\ up => shape = "startup" /\ status = "ok"
             /\ wire' = Append(wire, Response(status))
                        \o (IF up THEN <<StateChange(TRUE)>> ELSE <<>>)
             /\ registered' = (registered \/ (shape = "register" /\ status = "ok"))
        \/ UNCHANGED <<wire, registered>>
  /\ UNCHANGED <<alive, pending, messages, resets, events, startVars, pumpVars,
                 loopVars, kept, delivered, unseen>>

\* A reset nobody asked for: a brown-out, the watchdog, the button.
AdapterRestarts ==
  /\ Up
  /\ resets < MaxResets
  /\ resets' = resets + 1
  /\ registered' = FALSE
  /\ wire' = Append(wire, Reset(resets + 1))
  /\ UNCHANGED <<alive, pending, toAdapter, messages, events, startVars, pumpVars,
                 loopVars, kept, delivered, unseen>>

\* A device is heard, or something nobody consumes happens.
DeviceHeard ==
  /\ Up
  /\ messages < MaxMessages
  /\ messages' = messages + 1
  /\ \E f \in {Message(messages + 1, c) : c \in Content} \union {OtherFrame} :
       wire' = Append(wire, f)
  /\ UNCHANGED <<alive, pending, toAdapter, registered, resets, events, startVars,
                 pumpVars, loopVars, kept, delivered, unseen>>

-----------------------------------------------------------------------------
\* What becomes of a request's outcome: start() goes on to its next step or
\* fails, a client of the lock releases it.

\* Steps of start() whose failure it tolerates: a status is only logged, unless
\* it is the version that cannot be read; firmware that rejects an NV item or
\* the first BDB command is worked around, and nothing needs get_device_info.
Tolerated(step, outcome) ==
  \/ outcome = "ok"
  \/ outcome = "bad" /\ step # "version"
  \/ outcome = "rejected" /\ step \in {"nv", "bdb1"}
  \/ step = "info"

AfterVersion(zstack3) ==
  [i \in 1..NvItems |-> "nv"]
    \o (IF zstack3 THEN <<"bdb1", "bdb2">> ELSE <<>>)
    \o <<"register", "startup", "info">>

\* Whether the adapter runs Z-Stack 3 is in the version it answers with.
NextSteps(outcome) ==
  CASE Head(todo) = "version" -> {AfterVersion(z) : z \in BOOLEAN}
    [] Head(todo) = "bdb1" /\ outcome = "rejected" -> {Tail(Tail(todo))}
    [] OTHER -> {Tail(todo)}

StepDone(outcome) ==
  /\ IF Tolerated(Head(todo), outcome)
     THEN /\ todo' \in NextSteps(outcome)
          /\ phase' = CASE Head(todo) = "startup" -> "network"
                        [] Head(todo) = "info" -> "draining"
                        [] OTHER -> "asking"
          /\ unseen' = unseen \union (IF Head(todo) = "register" /\ outcome = "bad"
                                      THEN {"refused"} ELSE {})
     ELSE /\ phase' = "failed"
          /\ UNCHANGED <<todo, unseen>>
  /\ UNCHANGED <<early, loopVars>>

\* The first request of run() opens or closes the network for joining, and is
\* fatal when that is configured.
LoopAfter(outcome) ==
  IF loop = "opening" /\ PermitJoin /\ outcome \notin {"ok", "bad"}
  THEN "ended" ELSE "idle"

\* A guard that outlives its call.
StillLocked == lock

Unlocked == Tail(lock)

CallDone(outcome) ==
  /\ lock' = Unlocked
  /\ IF Head(lock) = Main
     THEN loop' = LoopAfter(outcome) /\ UNCHANGED task
     ELSE task' = [task EXCEPT ![Head(lock)] = @ - 1] /\ UNCHANGED loop
  /\ UNCHANGED <<startVars, unseen>>

Answered(outcome) ==
  IF phase = "running" THEN CallDone(outcome) ELSE StepDone(outcome)

-----------------------------------------------------------------------------
\* The transport actor.

\* The actor awaits room: nothing else is read, nor timed out.
StuckForRoom ==
  /\ wire # <<>> /\ Head(wire).kind \in {"reset", "state", "message"}
  /\ Len(events) = EventCap

\* try_send waits for nothing: the actor is always back at its select!.
Stuck == FALSE

\* A request that waits for its turn is written; without the actor it fails.
Ask(shape) ==
  IF alive
  THEN /\ pending' = shape
       /\ toAdapter' = Append(toAdapter, shape)
       /\ UNCHANGED <<startVars, loopVars, unseen>>
  ELSE Answered("closed") /\ UNCHANGED <<pending, toAdapter>>

\* A response ends the request, which is the only one on its way.
ReadResponse ==
  /\ Up /\ alive
  /\ wire # <<>> /\ Head(wire).kind = "response"
  /\ wire' = Tail(wire)
  /\ pending' = NoRequest
  /\ Answered(Head(wire).status)
  /\ UNCHANGED <<alive, toAdapter, adapterVars, events, pumpVars, kept, delivered>>

\* The rest of dispatch_frame: an indication is queued, dropped when the queue
\* is full, and the catch-all is dropped at once.
ReadIndication ==
  /\ Up /\ alive /\ ~Stuck
  /\ wire # <<>> /\ Head(wire).kind # "response"
  /\ wire' = Tail(wire)
  /\ LET f == Head(wire)
         room == Len(events) < EventCap
     IN CASE f = OtherFrame -> UNCHANGED <<events, kept, unseen>>
          [] f # OtherFrame /\ room ->
               /\ events' = Append(events, f)
               /\ kept' = IF IsWanted(f) THEN Append(kept, f.n) ELSE kept
               /\ UNCHANGED unseen
          [] OTHER ->
               /\ unseen' = unseen \union (IF IsReset(f) THEN {"full"} ELSE {})
               /\ UNCHANGED <<events, kept>>
  /\ UNCHANGED <<alive, pending, toAdapter, adapterVars, startVars, pumpVars,
                 loopVars, delivered>>

\* REQUEST_TIMEOUT has passed, and the request was left alone.
RequestTimesOut ==
  /\ Up /\ alive /\ ~Stuck
  /\ pending # NoRequest
  /\ ~ Has(toAdapter, LAMBDA r : r = pending)
  /\ ~ Has(wire, LAMBDA f : f.kind = "response")
  /\ pending' = NoRequest
  /\ Answered("timeout")
  /\ UNCHANGED <<alive, toAdapter, wire, adapterVars, events, pumpVars, kept, delivered>>

\* The actor stops: the serial port is gone, or three requests in a row have
\* timed out. Indications that were queued can still be read.
ActorStops ==
  /\ Up /\ alive
  /\ alive' = FALSE
  /\ toAdapter' = <<>> /\ wire' = <<>>
  /\ pending' = NoRequest
  /\ IF pending # NoRequest
     THEN Answered("closed") ELSE UNCHANGED <<startVars, loopVars, unseen>>
  /\ UNCHANGED <<adapterVars, events, pumpVars, kept, delivered>>

-----------------------------------------------------------------------------
\* start().

\* reset(): what comes before the indication of the reset is dropped.
AwaitReset ==
  /\ phase = "resetting"
  /\ events # <<>>
  /\ events' = Tail(events)
  /\ kept' = Wanted(Tail(events))
  /\ phase' = IF IsReset(Head(events)) THEN "asking" ELSE phase
  /\ UNCHANGED <<alive, pending, toAdapter, wire, adapterVars, todo, early,
                 pumpVars, loopVars, delivered, unseen>>

\* None comes within 5 s, or ever.
AwaitNoReset ==
  /\ phase = "resetting"
  /\ events = <<>>
  /\ phase' \in (IF alive THEN {"asking"} ELSE {"asking", "failed"})
  /\ UNCHANGED <<alive, pending, toAdapter, wire, adapterVars, events, todo, early,
                 pumpVars, loopVars, kept, delivered, unseen>>

\* check_version, write_nv_config, configure_channel_bdb, register_endpoints,
\* start_network's request and get_device_info, in this order.
AskNext ==
  /\ phase \in {"asking", "networked"}
  /\ pending = NoRequest
  /\ Ask(Head(todo))
  /\ UNCHANGED <<alive, wire, adapterVars, events, pumpVars, kept, delivered>>

\* start_network's wait: the indications of other kinds are put aside.
AwaitNetwork ==
  /\ phase = "network"
  /\ events # <<>>
  /\ events' = Tail(events)
  /\ LET f == Head(events)
     IN IF f.kind = "state"
        THEN /\ phase' = IF f.up THEN "networked" ELSE phase
             /\ UNCHANGED early
        ELSE /\ early' = Append(early, f)
             /\ UNCHANGED phase
  /\ UNCHANGED <<alive, pending, toAdapter, wire, adapterVars, todo, pumpVars,
                 loopVars, kept, delivered, unseen>>

\* No coordinator state within NETWORK_START_TIMEOUT, or ever.
AwaitNoNetwork ==
  /\ phase = "network"
  /\ events = <<>>
  /\ phase' \in (IF alive THEN {"networked"} ELSE {"networked", "failed"})
  /\ UNCHANGED <<alive, pending, toAdapter, wire, adapterVars, events, todo, early,
                 pumpVars, loopVars, kept, delivered, unseen>>

\* Keeping the indications of resets, too.
RetainedAll(s) == s

\* early_events without the resets: one may be the reset of start() itself.
Retained(s) == Select(s, {f \in Indication : ~IsReset(f)})

\* What is queued joins early_events, the pump is spawned, and run() has its
\* first request waiting.
Drain ==
  /\ phase = "draining"
  /\ early' = Retained(early \o events)
  /\ events' = <<>>
  /\ unseen' = unseen \union
       (IF Has(early \o events, LAMBDA f : IsReset(f) /\ f.n > 0) THEN {"discarded"} ELSE {})
  /\ phase' = "running"
  /\ pump' = "running"
  /\ loop' = "opening"
  /\ lock' = <<Main>>
  /\ UNCHANGED <<alive, pending, toAdapter, wire, adapterVars, todo, held, out,
                 task, kept, delivered>>

-----------------------------------------------------------------------------
\* event_pump().

\* The queue first, then what came early.
QueueFirst ==
  IF events # <<>> THEN [event |-> Head(events), early |-> early, events |-> Tail(events)]
  ELSE [event |-> Head(early), early |-> Tail(early), events |-> events]

EarlyFirst ==
  IF early # <<>> THEN [event |-> Head(early), early |-> Tail(early), events |-> events]
  ELSE [event |-> Head(events), early |-> early, events |-> Tail(events)]

\* Waiting in a reset's place for the bridge to come back.
PumpAfterIgnored(f) == "running"

\* A reset ends the pump, and with it the coordinator's events.
PumpAfter(f) == IF IsReset(f) THEN "done" ELSE "running"

PumpTakes ==
  /\ Up
  /\ pump = "running" /\ held = <<>>
  /\ early # <<>> \/ events # <<>>
  /\ LET next == EarlyFirst
     IN /\ early' = next.early
        /\ events' = next.events
        /\ pump' = PumpAfter(next.event)
        /\ held' = IF IsWanted(next.event) THEN <<next.event>> ELSE <<>>
  /\ UNCHANGED <<alive, pending, toAdapter, wire, adapterVars, phase, todo, out,
                 loopVars, kept, delivered, unseen>>

\* out.send() waits for room.
PumpSends ==
  /\ Up
  /\ held # <<>> /\ Len(out) < OutCap
  /\ out' = out \o held
  /\ held' = <<>>
  /\ UNCHANGED <<alive, pending, toAdapter, wire, adapterVars, events, startVars,
                 pump, loopVars, kept, delivered, unseen>>

\* The transport has stopped and all it had queued is passed on.
PumpEnds ==
  /\ Up
  /\ pump = "running" /\ held = <<>>
  /\ early = <<>> /\ events = <<>> /\ ~alive
  /\ pump' = "done"
  /\ UNCHANGED <<alive, pending, toAdapter, wire, adapterVars, events, startVars,
                 held, out, loopVars, kept, delivered, unseen>>

-----------------------------------------------------------------------------
\* The main loop and its tasks.

\* Events that make the main loop spawn a task with requests of its own.
Spawning == {"DeviceJoined", "AddressResolved", "ActiveEpRsp", "SimpleDescRsp", "Message"}

HandleEvent ==
  /\ loop = "idle"
  /\ out # <<>>
  /\ out' = Tail(out)
  /\ delivered' = Append(delivered, Head(out).n)
  /\ \/ /\ Translate(Head(out).content) \in Spawning
        /\ \E t \in Task : task[t] = 0 /\ task' = [task EXCEPT ![t] = TaskRequests]
     \/ UNCHANGED task
  /\ UNCHANGED <<alive, pending, toAdapter, wire, adapterVars, events, startVars,
                 pump, held, loop, lock, kept, unseen>>

\* events.recv() has nothing left: run() returns an error, the process exits.
ConnectionLost ==
  /\ loop = "idle"
  /\ out = <<>> /\ pump = "done"
  /\ loop' = "ended"
  /\ UNCHANGED <<alive, pending, toAdapter, wire, adapterVars, events, startVars,
                 pumpVars, lock, task, kept, delivered, unseen>>

\* An MQTT command or the housekeeping makes a request on the main loop.
HandleCommand ==
  /\ loop = "idle"
  /\ loop' = "busy"
  /\ lock' = Append(lock, Main)
  /\ UNCHANGED <<alive, pending, toAdapter, wire, adapterVars, events, startVars,
                 pumpVars, task, kept, delivered, unseen>>

\* A task queues for the lock, for its next request.
TaskLocks(t) ==
  /\ Up
  /\ task[t] > 0
  /\ ~ Has(lock, LAMBDA c : c = t)
  /\ lock' = Append(lock, t)
  /\ UNCHANGED <<alive, pending, toAdapter, wire, adapterVars, events, startVars,
                 pumpVars, loop, task, kept, delivered, unseen>>

\* Who holds the lock makes one request and releases it with the answer.
Call ==
  /\ Up
  /\ phase = "running"
  /\ lock # <<>> /\ pending = NoRequest
  /\ Ask(ClientRequest)
  /\ UNCHANGED <<alive, wire, adapterVars, events, pumpVars, kept, delivered>>

-----------------------------------------------------------------------------
Adapter == AdapterResets \/ AdapterAnswers \/ AdapterRestarts \/ DeviceHeard

Actor == ReadResponse \/ ReadIndication \/ RequestTimesOut

Start ==
  AwaitReset \/ AwaitNoReset \/ AskNext \/ AwaitNetwork \/ AwaitNoNetwork \/ Drain

Pump == PumpTakes \/ PumpSends \/ PumpEnds

Next ==
  \/ Adapter
  \/ Actor \/ ActorStops
  \/ Start
  \/ Pump
  \/ HandleEvent \/ ConnectionLost \/ HandleCommand
  \/ Call \/ \E t \in Task : TaskLocks(t)

\* The adapter answers a request within REQUEST_TIMEOUT or leaves it alone;
\* tasks of the runtime run when they can; the deadlines of reset(),
\* start_network() and the requests pass; and select! picks among its ready
\* branches at random, so that no branch waits forever.
Fairness ==
  /\ WF_vars(AdapterResets) /\ WF_vars(AdapterAnswers)
  /\ WF_vars(Actor) /\ WF_vars(Start) /\ WF_vars(Pump) /\ WF_vars(Call)
  /\ \A t \in Task : WF_vars(TaskLocks(t))
  /\ SF_vars(HandleEvent) /\ SF_vars(ConnectionLost)

Spec == Init /\ [][Next]_vars /\ Fairness

-----------------------------------------------------------------------------
\* Properties.

\* The queues keep to their capacities and the lock to one holder per client,
\* who releases it before it asks for it again.
TypeOK ==
  /\ alive \in BOOLEAN /\ registered \in BOOLEAN
  /\ pending \in Requests \union {NoRequest}
  /\ toAdapter \in Seq(Requests \union {"reset"})
  /\ Len(events) <= EventCap /\ Len(out) <= OutCap /\ Len(held) <= 1
  /\ phase \in {"resetting", "asking", "network", "networked", "draining",
                "running", "failed"}
  /\ todo \in Seq(StartRequests)
  /\ pump \in {"absent", "running", "done"}
  /\ loop \in {"absent", "opening", "idle", "busy", "ended"}
  /\ task \in [Task -> 0..TaskRequests]
  /\ \A i, j \in DOMAIN lock : lock[i] = lock[j] => i = j
  /\ \A i \in DOMAIN lock :
       IF lock[i] = Main THEN loop \in {"opening", "busy"} ELSE task[lock[i]] > 0
  /\ unseen \subseteq {"refused", "full", "discarded"}

\* The reset start() itself asks for, however late its indication, is never
\* taken for one that has cost the adapter its endpoint: by the time the pump
\* runs it is neither queued nor on its way (znp/mod.rs 58-73).
OwnResetHarmless ==
  LET Own(f) == IsReset(f) /\ f.n = 0
  IN pump # "absent" =>
       ~Has(wire, Own) /\ ~Has(early \o events, Own) /\ ~Has(toAdapter, LAMBDA r : r = "reset")

\* A bridge that runs on an adapter without the bridge's endpoint, which hears
\* nothing, is about to find out, so that the process ends and can be started
\* again (znp/mod.rs 446-462, bridge.rs 145-155). The exceptions are what the
\* code lets pass: a registration refused with a status, the indication of a
\* reset dropped from a full queue, or dropped by start().
UnregisteredNoticed ==
  LET Lost(f) == IsReset(f) /\ f.n > 0
  IN loop \notin {"absent", "ended"} /\ ~registered =>
       \/ Has(wire, Lost) \/ Has(early \o events, Lost)
       \/ pump = "done" \/ ~alive
       \/ unseen # {}

\* Every message that found room in the queue since the reset reaches the main
\* loop, once and in the order of arrival, through start(), early_events and
\* both channels, unless a reset ends the pump before it.
NothingLost ==
  pump # "done" =>
    delivered \o Numbers(out) \o Numbers(held) \o Wanted(early) \o Wanted(events) = kept

\* start() returns, whatever the adapter leaves unanswered.
StartEnds == <>(phase \in {"running", "failed"})

\* An adapter that resets under a running bridge ends the bridge, also when
\* the main loop is kept busy by commands.
ResetEndsLoop == (phase = "running" /\ Has(events, IsReset)) ~> (loop = "ended")

\* Every request of the main loop returns, although the pump may be waiting
\* for the main loop to make room and the actor meets a full queue: nobody
\* waits for one who waits for him.
LoopReturns == (loop \in {"opening", "busy"}) ~> (loop \in {"idle", "ended"})
=============================================================================

----------------------------- MODULE Persistence -----------------------------
(***************************************************************************)
(* Keeping the devices across restarts (src/persistence.rs): database.db   *)
(* and state.json are rewritten from snapshots of the registry, by a       *)
(* periodic saver on the blocking pool and once more by the main task when *)
(* it stops (src/bridge.rs), and read back at the next start               *)
(* (src/database.rs). The process can crash between any two steps.         *)
(*                                                                         *)
(* A device's persisted fields are one version number, and so is its state:*)
(* the time of the change that made them what they are.                    *)
(***************************************************************************)
EXTENDS Naturals, Sequences, SequencesExt, FiniteSets, Selection

CONSTANTS
  Device,       \* IEEE addresses
  Preseeded,    \* those with an entry in configuration.yaml
  NoDevice,     \* no such device, or a line that is not a device's
  Absent,       \* the file does not exist
  Unknown,      \* no entry in Store.last_written
  Databases,    \* the files next to the configuration to begin with
  SystemDb,     \* the one of a system-wide zigbee2mqtt installation
  MaxTime,      \* bound on changes to devices
  MaxFailures,  \* bound on files that cannot be read or written
  MaxStarts     \* bound on starts of the program

Time == 0..MaxTime

\* A line of database.db: a device's record, or one that stays as it is (the
\* coordinator, a group, something unparseable), which v tells from the others.
Line == [dev : Device \union {NoDevice}, v : Time]
OtherLine == [dev : {NoDevice}, v : Time]

\* What is there to begin with was written by time 2.
OldLine == [dev : Device \union {NoDevice}, v : 0..2]

Record == [v : Time, state : Time]

ASSUME PersistenceAssumption ==
  /\ MaxTime \in Nat \ {0, 1} /\ MaxFailures \in Nat /\ MaxStarts \in Nat
  /\ IsFiniteSet(Device) /\ Preseeded \subseteq Device
  /\ NoDevice \notin Device \union Record
  /\ Absent \notin Seq(Line) /\ Unknown \notin Seq(Line)
  /\ Databases \subseteq Seq(OldLine) \union {Absent}
  /\ SystemDb \in Seq(OldLine) \union {Absent}

Saver == "saver"
Main == "main"
Proc == {Saver, Main}
File == {"db", "state"}

VARIABLES
  live,         \* the registry
  time,         \* changes to devices so far
  file,         \* database.db and state.json
  last,         \* Store.last_written
  phase,        \* of the process: down, running, stopping, draining
  clean,        \* it stops for a signal, not for an error
  step,         \* where each of the two is in Store::save
  snapshot,     \* save's local of that name, as far as it is taken
  text,         \* what it has rendered
  failures,
  starts,
  saved,        \* history: the versions a start has read or a periodic save stored
  left,         \* history: devices that have left
  undisturbed   \* history: the shutdown save met no failure and no periodic save

filesVars == <<file, last>>
saveVars == <<step, snapshot, text>>
boundVars == <<failures, starts>>
historyVars == <<saved, left, undisturbed>>
vars == <<live, time, filesVars, phase, clean, saveVars, boundVars, historyVars>>

Idle == [at |-> "idle", todo |-> {}, target |-> "db"]
Step == [at : {"idle", "copy", "read", "check", "write"}, todo : SUBSET Device, target : File]
Nobody == [d \in Device |-> NoDevice]

Version(r) == IF r = NoDevice THEN 0 ELSE r.v

\* Seen on the network: not a stub made from configuration.yaml.
is_persistable(r) == Version(r) > 0

-----------------------------------------------------------------------------
\* Rendering a snapshot.

Devices(db) == {db[k].dev : k \in DOMAIN db} \ {NoDevice}

\* Of an existing database, the lines that are no device's stay, and the first
\* of each device in the snapshot.
Stays(db, snap, k) ==
  \/ db[k].dev = NoDevice
  \/ /\ is_persistable(snap[db[k].dev])
     /\ \A j \in 1..(k - 1) : db[j].dev # db[k].dev

Update(line, snap) == IF line.dev = NoDevice THEN line ELSE [line EXCEPT !.v = snap[line.dev].v]

\* A line for each device with a value; 0 is none.
Lines(value) ==
  LET devs == SetToSeq({d \in DOMAIN value : value[d] > 0})
  IN [k \in DOMAIN devs |-> [dev |-> devs[k], v |-> value[devs[k]]]]

\* Regenerating the file instead of merging into it.
RenderAfresh(db, snap) == Lines([d \in Device |-> Version(snap[d])])

\* render_database
Render(db, snap) ==
  LET kept == Select([k \in DOMAIN db |-> k], {k \in DOMAIN db : Stays(db, snap, k)})
  IN [k \in DOMAIN kept |-> Update(db[kept[k]], snap)]
       \o Lines([d \in Device \ Devices(db) |-> Version(snap[d])])

\* render_state
RenderState(snap) ==
  Lines([d \in Device |-> IF is_persistable(snap[d]) THEN snap[d].state ELSE 0])

-----------------------------------------------------------------------------
\* Reading the files at the start. Of several records of a device the registry
\* keeps the last.

ValueOf(lines, d) ==
  LET at == {k \in DOMAIN lines : lines[k].dev = d}
  IN IF at = {} THEN 0 ELSE lines[CHOOSE k \in at : \A j \in at : j <= k].v

\* find_database
Found == IF file["db"] # Absent THEN file["db"] ELSE IF SystemDb # Absent THEN SystemDb ELSE <<>>

VersionOf(d) == ValueOf(Found, d)
StateOf(d) == IF file["state"] = Absent THEN 0 ELSE ValueOf(file["state"], d)

Init ==
  /\ live = Nobody
  /\ time = 2
  /\ file \in {[f \in File |-> IF f = "db" THEN db ELSE Absent] : db \in Databases}
  /\ last = [f \in File |-> Unknown]
  /\ phase = "down"
  /\ clean = TRUE
  /\ step = [p \in Proc |-> Idle]
  /\ snapshot = [p \in Proc |-> Nobody]
  /\ text = [p \in Proc |-> <<>>]
  /\ failures = 0
  /\ starts = 0
  /\ saved = [d \in Device |-> 0]
  /\ left = {}
  /\ undisturbed = TRUE

MayFail(fails) ==
  IF fails THEN failures < MaxFailures /\ failures' = failures + 1 ELSE UNCHANGED failures

\* skipped: the devices whose records load_database cannot use, all of them if
\* it cannot read the file; stateless: load_state cannot read its own.
Start(skipped, stateless) ==
  LET imported == [d \in Device |-> IF d \in skipped THEN 0 ELSE VersionOf(d)]
  IN /\ phase = "down"
     /\ starts < MaxStarts
     /\ starts' = starts + 1
     /\ MayFail(skipped # {} \/ stateless)
     /\ phase' = "running"
     /\ live' = [d \in Device |->
                  IF imported[d] > 0 \/ d \in Preseeded
                  THEN [v |-> imported[d], state |-> IF stateless THEN 0 ELSE StateOf(d)]
                  ELSE NoDevice]
     /\ last' = [f \in File |-> Unknown]
     /\ saved' = imported
     /\ UNCHANGED <<time, file, clean, saveVars, left, undisturbed>>

-----------------------------------------------------------------------------
\* The main loop changes devices.

Change == phase = "running" /\ time < MaxTime /\ time' = time + 1

\* It joins, its address is resolved, or it describes itself.
Seen(d) ==
  /\ Change
  /\ live' = [live EXCEPT ![d] = [v |-> time + 1, state |-> IF @ = NoDevice THEN 0 ELSE @.state]]
  /\ UNCHANGED <<filesVars, phase, clean, saveVars, boundVars, historyVars>>

Report(d) ==
  /\ Change
  /\ is_persistable(live[d])
  /\ live' = [live EXCEPT ![d].state = time + 1]
  /\ UNCHANGED <<filesVars, phase, clean, saveVars, boundVars, historyVars>>

Left(d) ==
  /\ Change
  /\ live[d] # NoDevice
  /\ live' = [live EXCEPT ![d] = NoDevice]
  /\ saved' = [saved EXCEPT ![d] = 0]
  /\ left' = left \union {d}
  /\ UNCHANGED <<filesVars, phase, clean, saveVars, boundVars, undisturbed>>

-----------------------------------------------------------------------------
\* Store::save, by the saver or by the main task.

Goto(p, at, todo, target) == step' = [step EXCEPT ![p] = [at |-> at, todo |-> todo, target |-> target]]

\* The blocking task of a tick; while it runs the saver awaits it.
Begin ==
  /\ phase \in {"running", "stopping"}
  /\ step[Saver] = Idle
  /\ Goto(Saver, "copy", Device, "db")
  /\ undisturbed' = (undisturbed /\ phase = "running")
  /\ UNCHANGED <<live, time, filesVars, phase, clean, snapshot, text, boundVars, saved, left>>

\* all_devices goes through the map while others change it.
Copy(p, d) ==
  /\ step[p].at = "copy"
  /\ d \in step[p].todo
  /\ snapshot' = [snapshot EXCEPT ![p][d] = live[d]]
  /\ Goto(p, IF step[p].todo = {d} THEN "read" ELSE "copy", step[p].todo \ {d}, "db")
  /\ UNCHANGED <<live, time, filesVars, phase, clean, text, boundVars, historyVars>>

Read(p) ==
  /\ step[p].at = "read"
  /\ LET existing == IF file["db"] = Absent THEN <<>> ELSE file["db"]
     IN text' = [text EXCEPT ![p] = Render(existing, snapshot[p])]
  /\ Goto(p, "check", {}, "db")
  /\ UNCHANGED <<live, time, filesVars, phase, clean, snapshot, boundVars, historyVars>>

\* save returns, with neither file written.
ReadFails(p) ==
  /\ step[p].at = "read"
  /\ MayFail(TRUE)
  /\ step' = [step EXCEPT ![p] = Idle]
  /\ snapshot' = [snapshot EXCEPT ![p] = Nobody]
  /\ undisturbed' = FALSE
  /\ UNCHANGED <<live, time, filesVars, phase, clean, text, starts, saved, left>>

\* Ending after database.db.
FileDoneEarly(p) ==
  /\ step' = [step EXCEPT ![p] = Idle]
  /\ text' = [text EXCEPT ![p] = <<>>]
  /\ snapshot' = [snapshot EXCEPT ![p] = Nobody]

\* After write_if_changed for one file comes the next one.
FileDone(p) ==
  IF step[p].target = "db"
  THEN /\ Goto(p, "check", {}, "state")
       /\ text' = [text EXCEPT ![p] = RenderState(snapshot[p])]
       /\ UNCHANGED snapshot
  ELSE /\ step' = [step EXCEPT ![p] = Idle]
       /\ text' = [text EXCEPT ![p] = <<>>]
       /\ snapshot' = [snapshot EXCEPT ![p] = Nobody]

\* History: a periodic save has stored its snapshot of the devices that have not
\* left meanwhile.
Stored(p) ==
  saved' = IF p = Saver /\ step[p].target = "db"
           THEN [d \in Device |-> IF live[d] = NoDevice THEN 0 ELSE Version(snapshot[p][d])]
           ELSE saved

Unchanged(p) ==
  LET f == step[p].target
  IN last[f] = text[p] \/ (last[f] = Unknown /\ file[f] = text[p])

\* Releasing the lock before the file is written.
CanCheckUnlocked(p) == step[p].at = "check"

\* write_if_changed up to write_atomic: it holds the lock of last_written
\* throughout, so nobody else is writing.
CanCheck(p) == step[p].at = "check" /\ \A q \in Proc : step[q].at # "write"

Skip(p) ==
  /\ CanCheck(p)
  /\ Unchanged(p)
  /\ last' = [last EXCEPT ![step[p].target] = text[p]]
  /\ FileDone(p)
  /\ Stored(p)
  /\ UNCHANGED <<live, time, file, phase, clean, boundVars, left, undisturbed>>

\* Creating the file itself anew, not a temporary one.
InPlace(p) == [file EXCEPT ![step[p].target] = <<>>]

\* The file while a temporary one is being written.
WhileWriting(p) == file

Write(p) ==
  /\ CanCheck(p)
  /\ ~Unchanged(p)
  /\ file' = WhileWriting(p)
  /\ Goto(p, "write", {}, step[p].target)
  /\ UNCHANGED <<live, time, last, phase, clean, snapshot, text, boundVars, historyVars>>

Replace(p) ==
  /\ step[p].at = "write"
  /\ file' = [file EXCEPT ![step[p].target] = text[p]]
  /\ last' = [last EXCEPT ![step[p].target] = text[p]]
  /\ FileDone(p)
  /\ Stored(p)
  /\ UNCHANGED <<live, time, phase, clean, boundVars, left, undisturbed>>

\* Taking what should have been written as written.
LastIfFailedEager(p) == [last EXCEPT ![step[p].target] = text[p]]

LastIfFailed(p) == last

WriteFails(p) ==
  /\ step[p].at = "write"
  /\ MayFail(TRUE)
  /\ last' = LastIfFailed(p)
  /\ FileDone(p)
  /\ undisturbed' = FALSE
  /\ UNCHANGED <<live, time, file, phase, clean, starts, saved, left>>

-----------------------------------------------------------------------------
\* Stopping: the main loop ends, for a signal or an error, and the main task
\* saves. (An error before the main loop ends the process at once: a Crash.)

Shutdown(c) ==
  /\ phase = "running"
  /\ phase' = "stopping"
  /\ clean' = c
  /\ Goto(Main, "copy", Device, "db")
  /\ undisturbed' = (step[Saver] = Idle)
  /\ UNCHANGED <<live, time, filesVars, snapshot, text, boundVars, saved, left>>

\* What the process forgets.
Forget ==
  /\ phase' = "down"
  /\ live' = Nobody
  /\ last' = [f \in File |-> Unknown]
  /\ step' = [p \in Proc |-> Idle]
  /\ snapshot' = [p \in Proc |-> Nobody]
  /\ text' = [p \in Proc |-> <<>>]
  /\ UNCHANGED <<time, file, clean, boundVars, historyVars>>

\* process::exit after an error.
ExitOnError ==
  /\ phase = "stopping" /\ ~clean
  /\ step[Main] = Idle
  /\ Forget

\* After a signal main returns, and dropping the runtime waits for the blocking
\* tasks that have begun.
Return ==
  /\ phase = "stopping" /\ clean
  /\ step[Main] = Idle
  /\ phase' = "draining"
  /\ UNCHANGED <<live, time, filesVars, clean, saveVars, boundVars, historyVars>>

Drained ==
  /\ phase = "draining"
  /\ step[Saver] = Idle
  /\ Forget

Crash == phase # "down" /\ Forget

SaveStep(p) ==
  \/ \E d \in Device : Copy(p, d)
  \/ Read(p)
  \/ ReadFails(p)
  \/ Skip(p)
  \/ Write(p)
  \/ Replace(p)
  \/ WriteFails(p)

Next ==
  \/ \E skipped \in SUBSET Devices(Found), stateless \in BOOLEAN : Start(skipped, stateless)
  \/ \E d \in Device : Seen(d) \/ Report(d) \/ Left(d)
  \/ Begin
  \/ \E p \in Proc : SaveStep(p)
  \/ \E c \in BOOLEAN : Shutdown(c)
  \/ ExitOnError
  \/ Return
  \/ Drained
  \/ Crash

Spec == Init /\ [][Next]_vars

\* The interval of the saver keeps ticking, and a save runs to its end.
FairSpec == Spec /\ WF_vars(Begin) /\ WF_vars(SaveStep(Saver))

-----------------------------------------------------------------------------
\* Properties

\* Every variable holds values of its shape; the process has a registry and a
\* save under way only while it is up, and the main task saves only to stop.
TypeOK ==
  /\ live \in [Device -> Record \union {NoDevice}]
  /\ time \in Time
  /\ file \in [File -> Seq(Line) \union {Absent}]
  /\ last \in [File -> Seq(Line) \union {Unknown}]
  /\ phase \in {"down", "running", "stopping", "draining"}
  /\ clean \in BOOLEAN
  /\ step \in [Proc -> Step]
  /\ snapshot \in [Proc -> [Device -> Record \union {NoDevice}]]
  /\ text \in [Proc -> Seq(Line)]
  /\ failures \in 0..MaxFailures
  /\ starts \in 0..MaxStarts
  /\ saved \in [Device -> Time]
  /\ left \subseteq Device
  /\ undisturbed \in BOOLEAN
  /\ phase = "down" => live = Nobody /\ step = [p \in Proc |-> Idle]
  /\ step[Main] # Idle => phase = "stopping"
  /\ \E p \in Proc : step[p].at # "write"

\* What a start has read or a periodic save stored of a device is, in this
\* version or a later one, what the next start finds, whatever crashes, failures
\* and overlapping saves come in between, until the device leaves (the merge and
\* the atomic replacement of src/persistence.rs).
KeptUnlessLeft == \A d \in Device : VersionOf(d) >= saved[d]

OtherLines(db) == Select(db, OtherLine)

\* A rewrite of database.db keeps the lines that are no device's, in their
\* order, and leaves one record per device (render_database).
MergeKeepsOthers ==
  [][file'["db"] # file["db"] =>
       /\ file["db"] # Absent => OtherLines(file'["db"]) = OtherLines(file["db"])
       /\ Cardinality(Devices(file'["db"])) + Len(OtherLines(file'["db"])) = Len(file'["db"])]_vars

Saved ==
  /\ \A d \in Device : VersionOf(d) = Version(live[d])
  /\ \A d \in Device : is_persistable(live[d]) => StateOf(d) = live[d].state

\* A shutdown that meets no failure and no periodic save leaves the files as the
\* registry was, whatever earlier saves failed (Bridge::run's last save).
SavedAtExit == [][(ExitOnError \/ Return) /\ undisturbed => Saved]_vars

\* While the process keeps running, the files come to say what the registry
\* says once it no longer changes (spawn_saver).
EventuallySaved == <>[](phase = "running") => <>[]Saved

\* "Records for devices no longer in the registry (i.e. that left the network)
\* are removed": no others are (src/persistence.rs:10).
RemovedOnlyIfLeft ==
  [][file["db"] # Absent => Devices(file["db"]) \ Devices(file'["db"]) \subseteq left]_vars
=============================================================================

------------------------------ MODULE MainLoop ------------------------------
(***************************************************************************)
(* The daemon's single thread: MainLoop::start, the epoll loop of          *)
(* enterLoop and the handlers it calls.  It composes ConfigWatch and       *)
(* DeviceTable, which share the inotify queue and the profiles in force.   *)
(*                                                                         *)
(* Everything outside the thread moves between any two of its steps:       *)
(* devices come and go, keys are pressed, the configuration file changes,  *)
(* a signal arrives.  One epoll_wait returns a batch of descriptors that   *)
(* the loop then handles one by one, in any order, by number: a handler    *)
(* may close and reopen what the numbers behind it in the batch stand for. *)
(***************************************************************************)
EXTENDS Integers, Sequences, FiniteSets

CONSTANTS
  Devices, Shadowed, Free, Virtual, ProfileLists, NoProfiles,
  MaxNode, MaxFd, MaxQueue, EarlyPlug, Overflow, Faults,
  Unreadable, Incomplete, FileOps, MaxOps, Paced, WatchFaults,
  MaxMoves,    \* bound on the devices plugged in and out
  Interrupts   \* TRUE: epoll_wait may fail with EINTR (SIGSTOP, SIGCONT)

ASSUME MainLoopAssumption ==
  /\ MaxMoves \in Nat /\ Interrupts \in BOOLEAN
  /\ "inotify" \in Faults => WatchFaults

VARIABLES
  nodes, grab, uinput, open, inputWatch, m_currentDevices, deviceList, keyboard,
  m_epollFd, m_signalFd, m_inotifyFd, phase,             \* of DeviceTable
  file, content, shared, ops, m_watch, watches, lastWd, stage, \* of ConfigWatch
  inq, m_profiles,                                       \* of both
  pc,      \* what the thread does next, see Steps
  resume,  \* what it does after the watch it is about to create
  reading, \* the descriptor processEvent reads, or None
  batch,   \* descriptors epoll_wait returned, not handled yet
  left,    \* events of the last inotify read, not handled yet: a prefix of inq
  m_quit,  \* MainLoop::m_quit
  signal,  \* TRUE while a SIGINT or SIGTERM is pending
  moves,   \* devices plugged in and out so far
  inForce  \* history: the profiles the table was last built for

DT == INSTANCE DeviceTable
CW == INSTANCE ConfigWatch

(* What the two components assume of their constants. *)
ASSUME TableAssumption ==
  /\ Free # Virtual /\ Free \notin Devices /\ Virtual \notin Devices
  /\ Shadowed \subseteq Devices
  /\ ProfileLists \subseteq [Devices \cup {Virtual} -> DT!Modes]
  /\ MaxNode \in Nat /\ MaxFd \in Nat /\ MaxQueue \in Nat
  /\ {EarlyPlug, Overflow} \subseteq BOOLEAN /\ Faults \subseteq DT!FaultKinds

ASSUME WatchAssumption ==
  /\ NoProfiles \in ProfileLists
  /\ {Unreadable, Incomplete} \cap ProfileLists = {} /\ Unreadable # Incomplete
  /\ FileOps \subseteq CW!FileOpKinds /\ MaxOps \in Nat
  /\ {Paced, WatchFaults} \subseteq BOOLEAN

deviceVars == <<nodes, grab, uinput, open, inputWatch, m_currentDevices,
                deviceList, keyboard, m_epollFd, m_signalFd, m_inotifyFd, phase>>
configVars == <<file, content, shared, ops, m_watch, watches, lastWd, stage>>
threadVars == <<pc, resume, reading, batch, left, m_quit, signal, moves>>
vars == <<deviceVars, configVars, inq, m_profiles, threadVars>>

(* The process has ended and its descriptors are closed; an exception or a  *)
(* signal has ended it; the assertion at MainLoop.cpp:171 has failed.       *)
Ended == {"exit", "dead", "aborted"}
Steps == {"start", "configure", "watch", "wait", "dispatch", "read",
          "inotify", "reload"} \cup Ended

-----------------------------------------------------------------------------
(* Starting up. *)

(* start: reloadConfig(false), before anything is open. *)
Start ==
  /\ pc = "start"
  /\ CW!FirstRead
  /\ pc' = IF stage' = "dead" THEN "dead" ELSE "configure"
  /\ UNCHANGED <<deviceVars, resume, reading, batch, left, m_quit, signal, moves>>

(* configureAll, and pollAll when it was called for a reload. *)
Configure ==
  /\ pc = "configure"
  /\ DT!scanDevices \/ DT!ConfigureNext \/ DT!pollAll
  /\ pc' = IF phase' = "loop" THEN "inotify" ELSE "configure"
  /\ UNCHANGED <<configVars, resume, reading, batch, left, m_quit, signal, moves>>

(* enterLoop creates its descriptors, polls the devices, then watches; it   *)
(* gives up without an epoll set.                                           *)
EnterLoop ==
  /\ pc = "configure"
  /\ DT!enterLoop
  /\ CW!EnterLoop
  /\ pc' = "watch"
  /\ resume' = "wait"
  /\ UNCHANGED <<reading, batch, left, m_quit, signal, moves>>

GiveUp ==
  /\ pc = "configure"
  /\ DT!enterLoopFails
  /\ pc' = "exit"
  /\ UNCHANGED <<configVars, resume, reading, batch, left, m_quit, signal, moves>>

(* Without an inotify descriptor there is nothing to add a watch to. *)
CreateWatch ==
  /\ pc = "watch"
  /\ CW!createWatchConfig \/ CW!createWatchCwd
  /\ m_inotifyFd = DT!None => UNCHANGED m_watch
  /\ pc' = IF stage' = "watching" THEN resume ELSE "watch"
  /\ UNCHANGED <<deviceVars, resume, reading, batch, left, m_quit, signal, moves>>

-----------------------------------------------------------------------------
(* The loop of enterLoop. *)

Ready ==
  {f \in DOMAIN m_currentDevices : DT!Readable(f)}
    \cup (IF signal THEN {m_signalFd} \ {DT!None} ELSE {})
    \cup (IF inq # <<>> THEN {m_inotifyFd} ELSE {})

(* epoll_wait returns everything that is ready: the array has room for it. *)
Wait ==
  /\ pc = "wait" /\ ~m_quit
  /\ Ready # {}
  /\ batch' = Ready
  /\ pc' = "dispatch"
  /\ UNCHANGED <<deviceVars, configVars, inq, m_profiles, resume, reading, left,
                 m_quit, signal, moves>>

(* The loop ends because m_quit is set, or because epoll_wait failed. *)
LeaveLoop ==
  /\ pc = "wait"
  /\ m_quit \/ Interrupts
  /\ DT!Shutdown
  /\ pc' = "exit"
  /\ UNCHANGED <<configVars, resume, reading, batch, left, m_quit, signal, moves>>

(* One round of the for loop: the device the number now stands for, the     *)
(* signal descriptor, the inotify descriptor, or the assertion.             *)
DispatchDevice(f) ==
  /\ f \in DOMAIN m_currentDevices
  /\ reading' = f
  /\ pc' = "read"
  /\ UNCHANGED <<deviceVars, configVars, inq, m_profiles, left, m_quit, signal>>

(* processSignal *)
DispatchSignal(f) ==
  /\ f \notin DOMAIN m_currentDevices /\ f = m_signalFd
  /\ m_quit' = TRUE
  /\ signal' = FALSE
  /\ UNCHANGED <<deviceVars, configVars, inq, m_profiles, pc, reading, left>>

(* processInotify begins with one read of all that is queued. *)
DispatchInotify(f) ==
  /\ f \notin DOMAIN m_currentDevices /\ f = m_inotifyFd
  /\ left' = Len(inq)
  /\ pc' = "inotify"
  /\ UNCHANGED <<deviceVars, configVars, inq, m_profiles, reading, m_quit, signal>>

DispatchUnknown(f) ==
  /\ f \notin DOMAIN m_currentDevices \cup {m_signalFd, m_inotifyFd}
  /\ pc' = "aborted"
  /\ UNCHANGED <<deviceVars, configVars, inq, m_profiles, reading, left, m_quit,
                 signal>>

Dispatch ==
  /\ pc = "dispatch"
  /\ \E f \in batch :
       /\ batch' = batch \ {f}
       /\ \/ DispatchDevice(f)
          \/ DispatchSignal(f)
          \/ DispatchInotify(f)
          \/ DispatchUnknown(f)
  /\ UNCHANGED <<resume, moves>>

ReadOnFailure(h) == DT!ReadFails(h)  \* mutant: EAGAIN does not end the loop
ReadOver(h) == DT!ReadFails(h) \/ h.input = "none"

(* The loop of processEvent: read until nothing is left or a read fails.    *)
(* Keys that arrive meanwhile are read too.                                 *)
Read ==
  /\ pc = "read"
  /\ DT!processEvent(reading)
  /\ IF ReadOver(m_currentDevices[reading])
       THEN pc' = "dispatch" /\ reading' = DT!None
       ELSE UNCHANGED <<pc, reading>>
  /\ UNCHANGED <<configVars, resume, batch, left, m_quit, signal, moves>>

(* There is no virtual keyboard to post a key to. *)
ReadAborts ==
  /\ pc = "read"
  /\ DT!KeyboardFails(reading)
  /\ pc' = "exit"
  /\ reading' = DT!None
  /\ UNCHANGED <<configVars, resume, batch, left, m_quit, signal, moves>>

EndOfBatch ==
  /\ pc = "dispatch" /\ batch = {}
  /\ pc' = "wait"
  /\ UNCHANGED <<deviceVars, configVars, inq, m_profiles, resume, reading, batch,
                 left, m_quit, signal, moves>>

-----------------------------------------------------------------------------
(* The loop of processInotify. *)

HandledAll == left  \* mutant: only the first event of a read is handled
Handled == 1

LeftForgets == left  \* mutant: what was handled is not subtracted
LeftNext == left - Handled

InotifyDevice ==
  /\ pc = "inotify" /\ left > 0
  /\ Head(inq).wd = DT!InputWd
  /\ DT!DeviceCreated(Head(inq).name, SubSeq(inq, Handled + 1, Len(inq)))
  /\ left' = LeftNext
  /\ UNCHANGED <<configVars, pc, resume, reading, batch, m_quit, signal, moves>>

(* Go on at step, and after a watch at then, unless the read was fatal. *)
GoTo(step, then) ==
  /\ pc' = IF stage' = "dead" THEN "dead" ELSE step
  /\ resume' = then

(* Mutant: a file that reappeared is read but the devices are left alone.   *)
AfterAppearedStays == "inotify"
AfterAppeared == "reload"

(* processConfigChange; a reload goes on with configureAll and pollAll, for *)
(* a file that reappeared after its watch was created.                      *)
InotifyConfig ==
  /\ pc = "inotify" /\ left > 0
  /\ Head(inq).wd # DT!InputWd
  /\ CW!processConfigChange(Head(inq))
  /\ inq' = SubSeq(inq, Handled + 1, Len(inq))
  /\ left' = LeftNext
  /\ \/ CW!AttributesChanged(Head(inq)) /\ GoTo("reload", resume)
     \/ CW!SelfGone(Head(inq)) /\ GoTo("watch", "inotify")
     \/ CW!Appeared(Head(inq)) /\ GoTo("watch", AfterAppeared)
     \/ CW!Ignored(Head(inq)) /\ GoTo("inotify", resume)
  /\ UNCHANGED <<deviceVars, reading, batch, m_quit, signal, moves>>

Reload ==
  /\ pc = "reload"
  /\ DT!ClearDevices
  /\ pc' = "configure"
  /\ UNCHANGED <<configVars, m_profiles, resume, reading, batch, left, m_quit,
                 signal, moves>>

EndOfEvents ==
  /\ pc = "inotify" /\ left = 0
  /\ pc' = "dispatch"
  /\ UNCHANGED <<deviceVars, configVars, inq, m_profiles, resume, reading, batch,
                 left, m_quit, signal, moves>>

Thread ==
  \/ Start \/ Configure \/ EnterLoop \/ GiveUp \/ CreateWatch
  \/ Wait \/ Dispatch \/ Read \/ ReadAborts \/ EndOfBatch
  \/ (m_quit /\ LeaveLoop)
  \/ InotifyDevice \/ InotifyConfig \/ Reload \/ EndOfEvents

-----------------------------------------------------------------------------
(* Outside the thread, while it runs. *)

PlugOrUnplug ==
  /\ moves < MaxMoves
  /\ moves' = moves + 1
  /\ \E d \in Devices : DT!Plug(d) \/ DT!Unplug(d)
  /\ UNCHANGED <<configVars, pc, resume, reading, batch, left, m_quit, signal>>

Type ==
  /\ \E d \in Devices : DT!KeyPress(d)
  /\ UNCHANGED <<configVars, threadVars>>

Edit ==
  /\ CW!User
  /\ UNCHANGED <<deviceVars, threadVars>>

(* Until enterLoop blocks it for the signal descriptor a SIGINT or SIGTERM   *)
(* ends the process at once; then it stays pending, descriptor or not.      *)
Signal ==
  /\ IF m_epollFd = DT!None
       THEN pc' = "dead" /\ UNCHANGED signal
       ELSE signal' = TRUE /\ UNCHANGED pc
  /\ UNCHANGED <<deviceVars, configVars, inq, m_profiles, resume, reading, batch,
                 left, m_quit, moves>>

Outside == pc \notin Ended /\ (PlugOrUnplug \/ Type \/ Edit \/ Signal)

-----------------------------------------------------------------------------
Init ==
  /\ DT!Init
  /\ CW!Init
  /\ pc = "start"
  /\ resume = "wait"
  /\ reading = DT!None
  /\ batch = {}
  /\ left = 0
  /\ m_quit = FALSE
  /\ signal = FALSE
  /\ moves = 0
  /\ inForce = m_profiles

Next ==
  /\ Thread \/ LeaveLoop \/ Outside
  /\ inForce' = IF pc' = "configure" THEN m_profiles' ELSE inForce

(* The thread runs whenever it has something to do. *)
Spec == Init /\ [][Next]_<<vars, inForce>> /\ WF_vars(Thread)

-----------------------------------------------------------------------------
(* Properties. *)

(* The values of the thread's own variables.  left never exceeds what is    *)
(* queued: processInotify does not run past the end of its buffer.          *)
TypeOK ==
  /\ pc \in Steps
  /\ resume \in {"wait", "inotify", "reload"}
  /\ IF pc = "read" THEN reading \in DOMAIN m_currentDevices
                    ELSE reading = DT!None
  /\ batch \subseteq DT!Fds
  /\ left \in 0 .. Len(inq)
  /\ {m_quit, signal} \subseteq BOOLEAN
  /\ moves \in 0 .. MaxMoves
  /\ inForce \in ProfileLists

(* BOOST_ASSERT(false) at MainLoop.cpp:171: every descriptor epoll_wait     *)
(* returned is, when its turn comes, a device of the table, the signal      *)
(* descriptor or the inotify descriptor.                                    *)
NoAssertFailure == pc # "aborted"

(* No device event is handled and the thread does not sleep while the table *)
(* holds a device the profiles in force do not match, or a device without   *)
(* the shadow they ask for.                                                 *)
TableInForce ==
  pc \in {"wait", "dispatch", "read"} =>
    \A f \in DOMAIN m_currentDevices :
      LET h == m_currentDevices[f]
      IN /\ m_profiles[h.dev] # "unmatched"
         /\ h.shadow # DT!None <=> DT!NeedsShadow(h.dev)

Wanted == {d \in Devices : /\ d \in {nodes[n] : n \in DT!Nodes}
                           /\ CW!Loaded(content)[d] # "unmatched"}

Holds(d) == \E f \in DOMAIN m_currentDevices :
              m_currentDevices[f].live /\ m_currentDevices[f].dev = d

(* A daemon with nothing left to do holds exactly the devices that are      *)
(* plugged in and that the configuration file, as it is now, matches, and   *)
(* no dead handle.                                                          *)
RestIsConfigured ==
  pc = "wait" /\ Ready = {} /\ file # CW!Absent =>
    /\ \A d \in Wanted : Holds(d)
    /\ \A f \in DOMAIN m_currentDevices :
         m_currentDevices[f].live /\ m_currentDevices[f].dev \in Wanted

(* processEvent reads for as long as there is something to read (MainLoop   *)
(* handles nothing else meanwhile): what follows is promised to a user who  *)
(* stops typing for a moment.                                               *)
TypingStops == <>[][~Type]_vars

(* README:106, "SIGINT or SIGTERM to exit the daemon": whatever it is busy  *)
(* with, once the typing stops a signal ends it, unless there was no        *)
(* descriptor to read it from.                                              *)
SignalEnds ==
  TypingStops => (signal ~> (pc \in Ended \/ m_signalFd = DT!None))

(* README:31, "when plugined it back, everything back": once the typing     *)
(* stops, a matched device that stays plugged in is held for good, unless   *)
(* the daemon ends or could not watch /dev/input.                           *)
PluggedIsHeld ==
  TypingStops =>
    \A d \in Devices :
      <>[](d \in Wanted) => <>[](Holds(d) \/ pc \in Ended \/ ~inputWatch)

(* The events of a queue that come from the watches W, in their order:      *)
(* kept[n] are those of the first n.                                        *)
EventsOf(q, W) ==
  LET kept[n \in 0 .. Len(q)] ==
        IF n = 0 THEN <<>>
        ELSE IF q[n].wd \in W THEN Append(kept[n - 1], q[n]) ELSE kept[n - 1]
  IN kept[Len(q)]

(* The events of the configuration's watches. *)
Config ==
  INSTANCE ConfigWatch WITH inq <- EventsOf(inq, Nat \ {DT!InputWd})

(* Whatever the thread does with devices and signals in between, and        *)
(* however the two kinds of notices mix in one queue and one read, its      *)
(* steps are steps of ConfigWatch: what is shown of the watch and the       *)
(* reloads there holds of the whole daemon, until it exits.                 *)
ImplementsConfigWatch ==
  Config!Init /\ [][Config!Next \/ pc' = "exit"]_(Config!vars)

(* The notices of devices, and the profiles the table was built for.        *)
Table ==
  INSTANCE DeviceTable WITH
    inq <- EventsOf(inq, {DT!InputWd}),
    m_profiles <- inForce

(* README:102, "newly connected devices are also be monitored by inotify":  *)
(* whenever the daemon is in its loop with no notice of a device left, in   *)
(* the middle of a batch or between two events of one read too, it holds    *)
(* every plugged in device that the profiles its table was built for match; *)
(* neither the reloads between the notices nor the changes of the file      *)
(* queued among them lose one.                                              *)
NoneOverlooked == Table!EveryDeviceIsHeld

(* The other half: seen from the device table a reload is one step, however *)
(* long the thread takes from reading the file, over the watch, to closing  *)
(* the devices; no device is configured or read by a mix of old and new.    *)
ImplementsDeviceTable ==
  Table!Init /\ [][pc = "start" \/ Table!Next \/ Table!Reload]_(Table!vars)
=============================================================================

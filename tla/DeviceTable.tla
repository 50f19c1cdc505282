---------------------------- MODULE DeviceTable ----------------------------
(***************************************************************************)
(* Which input devices the daemon owns: the table m_currentDevices of      *)
(* MainLoop and the life of an EvdevInputDevice in it, from open() over    *)
(* the exclusive grab and the shadow device to its destruction.            *)
(*                                                                         *)
(* The kernel numbers event nodes and file descriptors, both with the      *)
(* lowest free number, keeps the grab of a node, and queues an inotify     *)
(* event for each node that appears in /dev/input.  The devices the daemon *)
(* itself creates through uinput, the virtual keyboard and the shadows,    *)
(* appear there like any other.  A handle outlives its device: after an    *)
(* unplug the descriptor stays open and reads from it fail.                *)
(*                                                                         *)
(* Every device of the model supports EV_KEY.  Only this daemon grabs.     *)
(***************************************************************************)
EXTENDS Integers, Sequences, FiniteSets, Functions

CONSTANTS
  Devices,      \* the physical devices there are
  Shadowed,     \* those with more than key events (EV_REL, EV_ABS, ...)
  Free,         \* a node number not in use
  Virtual,      \* a node of the daemon's own uinput devices
  ProfileLists, \* what a profile list makes of each device, see Modes
  MaxNode,      \* bound on the event node numbers
  MaxFd,        \* bound on the file descriptors
  MaxQueue,     \* bound on the events queued when a device is plugged in
  EarlyPlug,    \* TRUE: devices may be plugged in before /dev/input is watched
  Overflow,     \* TRUE: a device may outrun the reader (SYN_DROPPED)
  Faults        \* the calls that may fail, see below

Nodes == 0 .. MaxNode
Fds == 0 .. MaxFd
None == -1          \* no descriptor
InputWd == 1        \* the first descriptor inotify_add_watch returns

(* "open": opening a node; "uinput": creating a shadow; "keyboard":         *)
(* creating the virtual keyboard; "poll": adding a device to the epoll set; *)
(* the others: a descriptor of enterLoop, and with "inotify" its watch on   *)
(* /dev/input too.                                                          *)
FaultKinds == {"open", "uinput", "keyboard", "poll", "epoll", "signal", "inotify"}

(* What is left of S when each member may fail for that fault.              *)
Outcomes(S, fault) == IF fault \in Faults THEN SUBSET S ELSE {S}

(* "keys": matched, disableNonKeyEvent set; "all": matched, not set. *)
Modes == {"unmatched", "keys", "all"}

ASSUME DeviceTableAssumption ==
  /\ Free # Virtual /\ Free \notin Devices /\ Virtual \notin Devices
  /\ Shadowed \subseteq Devices
  /\ ProfileLists \subseteq [Devices \cup {Virtual} -> Modes]
  /\ MaxNode \in Nat /\ MaxFd \in Nat /\ MaxQueue \in Nat
  /\ {EarlyPlug, Overflow} \subseteq BOOLEAN /\ Faults \subseteq FaultKinds

VARIABLES
  nodes,            \* kernel: what each event node is
  grab,             \* kernel: the descriptor that holds each node's grab
  uinput,           \* kernel: the node behind each open uinput descriptor
  open,             \* kernel: the descriptors that are open
  inq,              \* kernel: events queued on the inotify descriptor
  inputWatch,       \* TRUE while /dev/input is watched
  m_currentDevices, \* the daemon's handles, by descriptor
  deviceList,       \* handles scanDevices opened, not configured yet
  keyboard,         \* uinput descriptor of the virtual keyboard, or None
  m_epollFd, m_signalFd, m_inotifyFd,
  m_profiles,       \* the profiles in force
  phase             \* where the daemon is, see Phases

kernelVars == <<nodes, grab, uinput, open>>
loopVars == <<m_epollFd, m_signalFd, m_inotifyFd, inputWatch>>
vars == <<kernelVars, inq, m_currentDevices, deviceList, keyboard, loopVars,
          m_profiles, phase>>

Phases == {"scan", "configure", "poll", "loop", "exit"}

(* What waits in a handle's event buffer: nothing, key events, or key       *)
(* events behind a SYN_DROPPED.                                             *)
Inputs == {"none", "keys", "dropped"}

Handle == [node : Nodes, dev : Devices \cup {Virtual}, live : BOOLEAN,
           input : Inputs, shadow : Fds \cup {None}, polled : BOOLEAN]

-----------------------------------------------------------------------------
(* The kernel's numbers. *)

Lowest(x, S) == x \in S /\ \A y \in S : x <= y

NextFd(f, taken) == Lowest(f, (Fds \ open) \ taken)
NextNode(n) == Lowest(n, {m \in Nodes : nodes[m] = Free})

(* The members of S, in order, on the lowest numbers of F. *)
Allocations(S, F) ==
  {a \in [S -> F] : /\ \A x, y \in S : x < y => a[x] < a[y]
                    /\ \A x \in S, n \in F : n < a[x] => \E y \in S : a[y] = n}

(* f, with v at x. *)
Put(f, x, v) == [y \in DOMAIN f \cup {x} |-> IF y = x THEN v ELSE f[y]]

NodeCreated(n) ==
  IF inputWatch THEN <<[wd |-> InputWd, mask |-> "CREATE", name |-> n]>>
                ELSE <<>>

Plugged == {n \in Nodes : nodes[n] \in Devices}

-----------------------------------------------------------------------------
(* EvdevInputDevice. *)

(* The constructor on the node's file, once open() succeeded. *)
NewHandle(n) ==
  [node |-> n, dev |-> nodes[n], live |-> TRUE, input |-> "none",
   shadow |-> None, polled |-> FALSE]

(* valid: the node could be opened and is not one of the daemon's own.      *)
validAnyName(n) == nodes[n] # Free          \* mutant: no test of the name
validUnopened(n) == nodes[n] # Virtual      \* mutant: no test of the descriptor
valid(n) == nodes[n] \notin {Free, Virtual}

(* A matched device that supports more than keys, unless told to drop the   *)
(* rest.                                                                    *)
NeedsShadow(d) == m_profiles[d] = "all" /\ d \in Shadowed

(* EVIOCGRAB fails with ENODEV on a dead handle, with EBUSY when another    *)
(* handle has the node.                                                     *)
CanGrab(h) == h.live /\ grab[h.node] = None

Shadows(D) == {m_currentDevices[f].shadow : f \in D} \ {None}

ReleasedKeepsFd(D) == Shadows(D)  \* mutant: no close(m_evdevFd)
Released(D) == D \cup Shadows(D)

CloseNothing(D) == UNCHANGED <<nodes, uinput, grab>>  \* mutant: never deleted
CloseKeepsShadow(D) ==  \* mutant: the shadow is not destroyed
  /\ grab' = [n \in Nodes |-> IF grab[n] \in D THEN None ELSE grab[n]]
  /\ UNCHANGED <<nodes, uinput>>

(* ~EvdevInputDevice for the table's handles in D: destroy the shadow,      *)
(* ungrab, close.  What becomes of the descriptors is left to the caller.   *)
Close(D) ==
  LET gone == {uinput[u] : u \in Shadows(D)}
  IN /\ nodes' = [n \in Nodes |-> IF n \in gone THEN Free ELSE nodes[n]]
     /\ uinput' = Restrict(uinput, DOMAIN uinput \ Shadows(D))
     /\ grab' = [n \in Nodes |-> IF grab[n] \in D THEN None ELSE grab[n]]

(* Erased from the table. *)
Destroy(D) ==
  /\ Close(D)
  /\ open' = open \ Released(D)
  /\ m_currentDevices' = Restrict(m_currentDevices, DOMAIN m_currentDevices \ D)

(* grabAndPrepare where it succeeds, and the insertion in the table: the    *)
(* handle h, open at f, is grabbed and gets a shadow if it needs one.       *)
(* queue is what is left of inq.                                            *)
grabAndPrepare(f, h, queue) ==
  /\ CanGrab(h)
  /\ grab' = [grab EXCEPT ![h.node] = f]
  /\ \/ /\ ~NeedsShadow(h.dev)
        /\ m_currentDevices' = Put(m_currentDevices, f, h)
        /\ inq' = queue
        /\ open' = open \cup {f}
        /\ UNCHANGED <<nodes, uinput>>
     \/ /\ NeedsShadow(h.dev)
        /\ \E u \in Fds, n \in Nodes :
             /\ NextFd(u, {f})
             /\ NextNode(n)
             /\ nodes' = [nodes EXCEPT ![n] = Virtual]
             /\ uinput' = Put(uinput, u, n)
             /\ open' = open \cup {f, u}
             /\ m_currentDevices' =
                  Put(m_currentDevices, f, [h EXCEPT !.shadow = u])
             /\ inq' = queue \o NodeCreated(n)

(* configureAddIfMatch: a handle that no profile matches, that cannot be    *)
(* grabbed or whose shadow cannot be created is closed again.               *)
configureAddIfMatch(f, h, queue) ==
  \/ m_profiles[h.dev] # "unmatched" /\ grabAndPrepare(f, h, queue)
  \/ /\ \/ m_profiles[h.dev] = "unmatched"
        \/ ~CanGrab(h)
        \/ NeedsShadow(h.dev) /\ "uinput" \in Faults
     /\ inq' = queue
     /\ open' = open \ {f}
     /\ UNCHANGED <<nodes, grab, uinput, m_currentDevices>>

(* UinputKeyboard::instance, on the first key that is posted. *)
CreateKeyboard ==
  \E u \in Fds, n \in Nodes :
    /\ NextFd(u, {})
    /\ NextNode(n)
    /\ keyboard' = u
    /\ nodes' = [nodes EXCEPT ![n] = Virtual]
    /\ uinput' = Put(uinput, u, n)
    /\ open' = open \cup {u}
    /\ inq' = inq \o NodeCreated(n)

ReadFails(h) == ~h.live \/ h.input = "dropped"

(* Mutant: a failing read sweeps out every dead handle of the table.        *)
FailedSweep(f) ==
  {g \in DOMAIN m_currentDevices : g = f \/ ~m_currentDevices[g].live}
Failed(f) == {f}

(* processEvent, and the erase in enterLoop when it returns false: a        *)
(* SYN_DROPPED or a failing read ends the handle, otherwise the buffer is   *)
(* drained and its keys are posted.                                         *)
processEvent(f) ==
  LET h == m_currentDevices[f]
  IN /\ \/ /\ ReadFails(h)
           /\ Destroy(Failed(f))
           /\ UNCHANGED <<keyboard, inq>>
        \/ /\ ~ReadFails(h)
           /\ m_currentDevices' = [m_currentDevices EXCEPT ![f].input = "none"]
           /\ UNCHANGED grab
           /\ IF h.input = "keys" /\ keyboard = None
                THEN CreateKeyboard
                ELSE UNCHANGED <<nodes, uinput, open, keyboard, inq>>
     /\ UNCHANGED <<deviceList, loopVars, m_profiles, phase>>

-----------------------------------------------------------------------------
(* MainLoop. *)

ClearedNone == {}  \* mutant: the devices of the last configuration stay
Cleared == DOMAIN m_currentDevices

(* configureAll begins by dropping every device. *)
ClearDevices ==
  /\ Destroy(Cleared)
  /\ phase' = "scan"
  /\ UNCHANGED <<inq, deviceList, keyboard, loopVars>>

(* scanDevices: open every valid node, in the order of the node numbers. *)
scanDevices ==
  /\ phase = "scan"
  /\ \E S \in Outcomes({n \in Nodes : valid(n)}, "open") :
       \E fdOf \in Allocations(S, Fds \ open) :
         /\ deviceList' = [f \in {fdOf[n] : n \in S} |->
                             NewHandle(CHOOSE n \in S : fdOf[n] = f)]
         /\ open' = open \cup {fdOf[n] : n \in S}
  /\ phase' = "configure"
  /\ UNCHANGED <<nodes, grab, uinput, inq, m_currentDevices, keyboard, loopVars,
                 m_profiles>>

NotYet(f) == Restrict(deviceList, DOMAIN deviceList \ {f})

(* The loop of configureAll, one device at a time. *)
ConfigureNext ==
  /\ phase = "configure"
  /\ IF DOMAIN deviceList = {}
       THEN /\ phase' = "poll"
            /\ UNCHANGED <<kernelVars, inq, m_currentDevices, deviceList>>
       ELSE \E f \in DOMAIN deviceList :
              /\ Lowest(f, DOMAIN deviceList)
              /\ configureAddIfMatch(f, deviceList[f], inq)
              /\ deviceList' = NotYet(f)
              /\ UNCHANGED phase
  /\ UNCHANGED <<keyboard, loopVars, m_profiles>>

(* Mutants: no device is added to the epoll set; a device that could not be *)
(* added stays in the table.                                                *)
PolledNone(kept) == Restrict(m_currentDevices, kept)
PolledOrNot(kept) ==
  [f \in DOMAIN m_currentDevices |->
     [m_currentDevices[f] EXCEPT !.polled = f \in kept]]

(* The table of the devices that could be added. *)
Polled(kept) == [f \in kept |-> [m_currentDevices[f] EXCEPT !.polled = TRUE]]

Refused(kept) == DOMAIN m_currentDevices \ kept

(* registerPoll for every device; one that is refused is erased. *)
RegisterPolls(kept) ==
  /\ kept \in Outcomes(DOMAIN m_currentDevices, "poll")
  /\ Close(Refused(kept))
  /\ m_currentDevices' = Polled(kept)

(* pollAll after a reload. *)
pollAll ==
  /\ phase = "poll" /\ m_epollFd # None
  /\ \E kept \in SUBSET DOMAIN m_currentDevices :
       RegisterPolls(kept) /\ open' = open \ Released(Refused(kept))
  /\ phase' = "loop"
  /\ UNCHANGED <<inq, deviceList, keyboard, loopVars, m_profiles>>

(* Each is empty where the call fails; fd has the numbers.  The watch on     *)
(* /dev/input may be refused as well.                                       *)
createSignalFd(signal, fd) ==
  m_signalFd' = IF signal = {} THEN None ELSE fd[1]
createInotifyFd(inotify, fd) ==
  /\ m_inotifyFd' = IF inotify = {} THEN None ELSE fd[2]
  /\ \E watch \in Outcomes(inotify, "inotify") : inputWatch' = (watch # {})

(* enterLoop up to the loop: epoll, pollAll, the signal descriptor, the     *)
(* inotify descriptor and its watch on /dev/input, each but the first       *)
(* optional.                                                                *)
enterLoop ==
  /\ phase = "poll" /\ m_epollFd = None
  /\ \E kept \in SUBSET DOMAIN m_currentDevices, epoll \in Fds,
        signal \in Outcomes({1}, "signal"), inotify \in Outcomes({2}, "inotify") :
       LET after == (open \cup {epoll}) \ Released(Refused(kept))
       IN /\ NextFd(epoll, {})
          /\ RegisterPolls(kept)
          /\ m_epollFd' = epoll
          /\ \E fd \in Allocations(signal \cup inotify, Fds \ after) :
               /\ createSignalFd(signal, fd) /\ createInotifyFd(inotify, fd)
               /\ open' = after \cup Range(fd)
  /\ phase' = "loop"
  /\ UNCHANGED <<inq, deviceList, keyboard, m_profiles>>

(* The device a notice is about: open it, configure it and poll it.  One    *)
(* that cannot be polled is erased again; its shadow, if it had one, has    *)
(* announced itself.                                                        *)
AddDevice(n, queue) ==
  \E f \in Fds :
    LET h == [NewHandle(n) EXCEPT !.polled = TRUE]
    IN /\ NextFd(f, {})
       /\ \/ configureAddIfMatch(f, h, queue)
          \/ /\ "poll" \in Faults
             /\ m_profiles[h.dev] # "unmatched" /\ CanGrab(h)
             /\ IF NeedsShadow(h.dev)
                  THEN \E u \in Fds, m \in Nodes : /\ NextFd(u, {f})
                                                   /\ NextNode(m)
                                                   /\ inq' = queue \o NodeCreated(m)
                  ELSE inq' = queue
             /\ UNCHANGED <<kernelVars, m_currentDevices>>

(* The device branch of processInotify. *)
DeviceCreated(n, queue) ==
  /\ phase = "loop"
  /\ \/ valid(n) /\ AddDevice(n, queue)
     \/ /\ ~valid(n) \/ "open" \in Faults
        /\ inq' = queue
        /\ UNCHANGED <<kernelVars, m_currentDevices>>
  /\ UNCHANGED <<deviceList, keyboard, loopVars, m_profiles, phase>>

(* The kernel closes the descriptors of a process that ends. *)
End ==
  /\ nodes' = [n \in Nodes |-> IF n \in Range(uinput) THEN Free ELSE nodes[n]]
  /\ uinput' = <<>>
  /\ grab' = [n \in Nodes |-> None]
  /\ open' = {}
  /\ m_currentDevices' = <<>>
  /\ keyboard' = None
  /\ m_epollFd' = None /\ m_signalFd' = None /\ m_inotifyFd' = None
  /\ inputWatch' = FALSE
  /\ inq' = <<>>
  /\ phase' = "exit"
  /\ UNCHANGED <<deviceList, m_profiles>>

(* Without an epoll set enterLoop returns, and the process ends. *)
enterLoopFails ==
  phase = "poll" /\ m_epollFd = None /\ "epoll" \in Faults /\ End

(* The end of enterLoop, and the destructor of the virtual keyboard when    *)
(* the process ends.                                                        *)
Shutdown == phase = "loop" /\ End

(* The assertion in UinputKeyboard's constructor, on the first key that is  *)
(* posted: without a virtual keyboard the daemon aborts.                    *)
KeyboardFails(f) ==
  LET h == m_currentDevices[f]
  IN /\ ~ReadFails(h) /\ h.input = "keys"
     /\ keyboard = None /\ "keyboard" \in Faults
     /\ End

-----------------------------------------------------------------------------
(* What happens at the keyboards. *)

Plug(d) ==
  /\ d \notin {nodes[n] : n \in Nodes}
  /\ EarlyPlug \/ inputWatch
  /\ Len(inq) < MaxQueue
  /\ \E n \in Nodes :
       /\ NextNode(n)
       /\ nodes' = [nodes EXCEPT ![n] = d]
       /\ inq' = inq \o NodeCreated(n)
  /\ UNCHANGED <<grab, uinput, open, m_currentDevices, deviceList, keyboard,
                 loopVars, m_profiles, phase>>

(* The node disappears at once; the handles on it die. *)
Killed(handles, n) ==
  [f \in DOMAIN handles |->
     [handles[f] EXCEPT !.live = @ /\ handles[f].node # n]]

Unplug(d) ==
  /\ \E n \in Nodes :
       /\ nodes[n] = d
       /\ nodes' = [nodes EXCEPT ![n] = Free]
       /\ grab' = [grab EXCEPT ![n] = None]
       /\ m_currentDevices' = Killed(m_currentDevices, n)
       /\ deviceList' = Killed(deviceList, n)
  /\ UNCHANGED <<uinput, open, inq, keyboard, loopVars, m_profiles, phase>>

(* Someone types on d: the handle with the grab gets the events, without a  *)
(* grab every open handle on the node does.                                 *)
Typed(handles, n, input) ==
  [f \in DOMAIN handles |->
     IF /\ handles[f].live /\ handles[f].node = n
        /\ grab[n] \in {None, f}
        /\ handles[f].input # "dropped"
     THEN [handles[f] EXCEPT !.input = input]
     ELSE handles[f]]

KeyPress(d) ==
  /\ \E n \in Nodes, input \in {"keys", "dropped"} :
       /\ nodes[n] = d
       /\ input = "dropped" => Overflow
       /\ m_currentDevices' = Typed(m_currentDevices, n, input)
       /\ deviceList' = Typed(deviceList, n, input)
  /\ UNCHANGED <<kernelVars, inq, keyboard, loopVars, m_profiles, phase>>

Hands == \E d \in Devices : Plug(d) \/ Unplug(d) \/ KeyPress(d)

-----------------------------------------------------------------------------
(* The component alone: any profile list may come into force at any time.   *)
(* At first the devices that are plugged in are numbered without a gap, in  *)
(* any order; unplugging makes gaps.                                        *)

Init ==
  /\ nodes \in [Nodes -> Devices \cup {Free}]
  /\ \A m, n \in Nodes : nodes[m] = nodes[n] => m = n \/ nodes[m] = Free
  /\ \A m, n \in Nodes : nodes[m] = Free /\ m < n => nodes[n] = Free
  /\ grab = [n \in Nodes |-> None]
  /\ uinput = <<>>
  /\ open = {}
  /\ inq = <<>>
  /\ inputWatch = FALSE
  /\ m_currentDevices = <<>>
  /\ deviceList = <<>>
  /\ keyboard = None
  /\ m_epollFd = None /\ m_signalFd = None /\ m_inotifyFd = None
  /\ m_profiles \in ProfileLists
  /\ phase = "scan"

Readable(f) == LET h == m_currentDevices[f]
               IN h.polled /\ (~h.live \/ h.input # "none")

ReadDevice ==
  /\ phase = "loop"
  /\ \E f \in DOMAIN m_currentDevices :
       Readable(f) /\ (processEvent(f) \/ KeyboardFails(f))

HandleEvent == inq # <<>> /\ DeviceCreated(Head(inq).name, Tail(inq))

Reload ==
  /\ phase = "loop"
  /\ m_profiles' \in ProfileLists
  /\ ClearDevices

(* MaxQueue bounds the notices of repeated reloads, too.                    *)
Next ==
  \/ scanDevices \/ ConfigureNext \/ pollAll \/ enterLoop \/ enterLoopFails
  \/ ReadDevice \/ HandleEvent \/ (Len(inq) < MaxQueue /\ Reload) \/ Shutdown
  \/ Hands

Spec == Init /\ [][Next]_vars

-----------------------------------------------------------------------------
(* Properties. *)

(* The values of every variable. *)
TypeOK ==
  /\ nodes \in [Nodes -> Devices \cup {Free, Virtual}]
  /\ grab \in [Nodes -> Fds \cup {None}]
  /\ DOMAIN uinput \subseteq Fds
  /\ uinput \in [DOMAIN uinput -> Nodes]
  /\ open \subseteq Fds
  /\ inq \in Seq([wd : {InputWd}, mask : {"CREATE"}, name : Nodes])
  /\ inputWatch \in BOOLEAN
  /\ DOMAIN m_currentDevices \subseteq Fds
  /\ m_currentDevices \in [DOMAIN m_currentDevices -> Handle]
  /\ DOMAIN deviceList \subseteq Fds
  /\ deviceList \in [DOMAIN deviceList -> Handle]
  /\ {keyboard, m_epollFd, m_signalFd, m_inotifyFd} \subseteq Fds \cup {None}
  /\ m_profiles \in ProfileLists
  /\ phase \in Phases

(* The kernel's grabs and the table agree.  A node is grabbed only by a     *)
(* live handle of the table, whose device the node still is: no keyboard is *)
(* left grabbed with nobody reading it.  A live handle of the table has the *)
(* grab: none of its keys reach anyone else, and no device is in the table  *)
(* twice.                                                                   *)
GrabMatchesTable ==
  /\ \A n \in Nodes : grab[n] # None =>
       /\ grab[n] \in DOMAIN m_currentDevices
       /\ m_currentDevices[grab[n]].node = n
       /\ m_currentDevices[grab[n]].live
  /\ \A f \in DOMAIN m_currentDevices : m_currentDevices[f].live =>
       /\ grab[m_currentDevices[f].node] = f
       /\ nodes[m_currentDevices[f].node] = m_currentDevices[f].dev

(* What the daemon has an open descriptor filed as.                         *)
Filed ==
  DOMAIN m_currentDevices \cup DOMAIN deviceList \cup DOMAIN uinput
    \cup ({m_epollFd, m_signalFd, m_inotifyFd} \ {None})

(* The descriptors that are open are those the daemon has filed: no path of *)
(* destruction leaks one, and none is closed while something is still filed *)
(* under its number, for which the kernel may then give out the number      *)
(* again.  Each is filed for one purpose.                                   *)
DescriptorsOwned ==
  /\ open = Filed
  /\ DOMAIN m_currentDevices \cap DOMAIN deviceList = {}
  /\ DOMAIN uinput
      \cap (DOMAIN m_currentDevices \cup DOMAIN deviceList) = {}
  /\ \A f \in {m_epollFd, m_signalFd, m_inotifyFd} :
       f \notin DOMAIN m_currentDevices \cup DOMAIN deviceList \cup DOMAIN uinput
  /\ m_epollFd # None => m_epollFd \notin {m_signalFd, m_inotifyFd}
  /\ m_signalFd # None => m_signalFd # m_inotifyFd

(* Every uinput device is the virtual keyboard or the shadow of exactly one *)
(* handle, and every virtual node has one: destroying a handle, on whatever *)
(* path, takes its shadow along and never another's.                        *)
UinputsOwned ==
  /\ DOMAIN uinput =
       ({keyboard} \cup {m_currentDevices[f].shadow :
                            f \in DOMAIN m_currentDevices}) \ {None}
  /\ \A f \in DOMAIN m_currentDevices : m_currentDevices[f].shadow # None =>
       /\ m_currentDevices[f].shadow # keyboard
       /\ \A g \in DOMAIN m_currentDevices :
            m_currentDevices[g].shadow = m_currentDevices[f].shadow => f = g
  /\ {n \in Nodes : nodes[n] = Virtual} = {uinput[u] : u \in DOMAIN uinput}

(* The daemon never reads a device it created itself, although each of them *)
(* announces itself in /dev/input and a matcher may match it: keys do not   *)
(* run in a circle.                                                         *)
NoFeedback ==
  \A handles \in {m_currentDevices, deviceList} :
    \A f \in DOMAIN handles : handles[f].dev \in Devices

(* From the moment a reload begins to configure, every handle of the table  *)
(* is one the profiles in force match, with a shadow if they ask for it.    *)
TableFollowsProfiles ==
  phase # "scan" =>
    \A f \in DOMAIN m_currentDevices :
      LET h == m_currentDevices[f]
      IN m_profiles[h.dev] # "unmatched" /\ (h.shadow # None <=> NeedsShadow(h.dev))

(* In the loop every handle is in the epoll set, whichever way it came into *)
(* the table: its keys and its end will be seen.                            *)
AllPolled ==
  phase = "loop" => \A f \in DOMAIN m_currentDevices : m_currentDevices[f].polled

(* README:31, "when plugined it back, everything back", and README:102,  *)
(* "newly connected devices are also be monitored by inotify": with no      *)
(* notice left to handle, every matched device that is plugged in is in the *)
(* table and alive, however often it was unplugged and whatever was         *)
(* reloaded meanwhile.                                                      *)
EveryDeviceIsHeld ==
  phase = "loop" /\ inq = <<>> =>
    \A n \in Plugged : m_profiles[nodes[n]] # "unmatched" =>
      \E f \in DOMAIN m_currentDevices :
        m_currentDevices[f].live /\ m_currentDevices[f].node = n
=============================================================================

# A TLA+ model of UnifiedKeyboardCombo

UnifiedKeyboardCombo is a Linux daemon that grabs any number of input devices,
remaps their keys and posts them to one virtual keyboard. It watches its
configuration file and `/dev/input`, and reconfigures itself when either
changes. This directory holds TLA+ modules of that daemon, the TLC
configurations that check them and TLAPS proofs about them. All file and line
numbers are those of `src/`.

## The system

One process, one thread. The concurrency is between that thread, the kernel
(inotify, epoll, evdev, uinput), the user's hands and whoever edits `ukc.json`.

| Component | State it keeps | Operations | Module |
|---|---|---|---|
| Event loop (`core/MainLoop.cpp`) | `m_quit`, the epoll batch, the inotify read buffer | `start`, `enterLoop`, `processSignal`, `processInotify` | `MainLoop` |
| Configuration watching (`core/MainLoop.cpp`) | `m_watch[CONFIG]`, `m_watch[CWD]`, `m_profiles` | `reloadConfig`, `processConfigChange`, `createWatchConfig`, `createWatchCwd` | `ConfigWatch`, `ConfigReload` |
| Device table and handles (`core/MainLoop.cpp`, `core/linux/EvdevInputDevice.cpp`) | `m_currentDevices`, each handle's descriptor, grab, shadow and place in the epoll set | `scanDevices`, `configureAll`, `configureAddIfMatch`, `grabAndPrepare`, `pollAll`, `registerPoll`, `tryCreateNew`, `processEvent`, the destructor | `DeviceTable` |
| Key routing and virtual keyboard (`core/linux/EvdevInputDevice.cpp`, `core/linux/UinputKeyboard.cpp`) | `m_keyMaps`, `m_disableUnmappedKey`, `m_disableNonKeyEvent`, `m_uinputDev`, `m_virtualDpiFactor`, the kernel's key states | `configure`, `processEvent`, `postKeyEvent`, `postMouseEvent` | `KeyRouting`, `UnifiedKeyboard` |
| Wildcards (`core/Utility.cpp`, `core/linux/EvdevMatcher.cpp`) | one entry of `m_wild` | `setWild`, `readSelf`, `stripWildString`, `simpleWildMatch` | `WildMatch` |
| Profiles and matchers (`core/Profile.cpp`, `core/*Matcher.cpp`) | the profile list, a tree of matchers each, the registered classes | `globalInit`, `read`, `write`, `readList`, `writeList`, `matchDevice`, `deepClone`, the setters | `ProfileList` |

How they interact:

- `MainLoop` calls everything else, directly, on its own thread. There are no
  callbacks and no locks. What makes it hard is that one `epoll_wait` returns a
  batch of descriptor *numbers* and one `read` a buffer of inotify events, and
  that handling the first of them may change what the others stand for.
- `ConfigWatch` and `DeviceTable` share the inotify descriptor and `m_profiles`.
  A reload clears the table, scans again and polls again.
- A device handle calls the one `UinputKeyboard`, which is created when the
  first key is posted and announces itself in `/dev/input` like any device.
- The kernel reuses descriptor and node numbers at once, keeps the state of
  every key of the virtual keyboard, and drops a device's events when the
  buffer of its descriptor overruns.

What is hard to test here, with the lines, is the list `hazards` in
`PROJECT.json`: batches that outlive a reload, the gap between reading a file
and watching it, the gap between scanning a directory and watching it, notices
of devices already taken, dead handles, failures between a grab and its shadow,
keys held down across any of these, two sources of one key.

## The modules

**`ConfigWatch`** models how `ukc.json` is followed. A file is an inode; every
file that appears under the name is a new one, and the kernel's `watches` sit on
inodes. `shared` is the set of inodes that have another name or are open in some
program. When the file is replaced or removed, an inode that is not shared comes
to its end: the kernel sends `IN_ATTRIB` and `IN_DELETE_SELF` and drops the
watch. One that is shared sends `IN_ATTRIB` alone and keeps its watch
(`EndNotices`, `WatchesAfter`), and the daemon stays with it. `inq` is the
inotify queue. `stage` says where the thread is: each step between two system
calls that see the file system is an action of its own, so the user may act
between the read of the file and the creation of the watch.
`processConfigChange` is the disjunction of its four ways through
(`AttributesChanged`, `SelfGone`, `Appeared`, `Ignored`). The user can write in
place, touch, create, rename over, move away or remove the file, give it a
second name or open it and undo either (`Share`), change or let go of an inode
that the daemon still watches although it has lost the name (`Elsewhere`), or
create a neighbour. Reading gives a profile list, a parse error (caught, the
list is empty) or a missing key (not caught, the process ends: stage `dead`).

**`ConfigReload`** extends it with four history variables, `hasty`, `written`,
`refused` and `orphaned`, that remember what the environment has done so far. They
let one run, and one theorem, say what holds for which user and which kernel.

**`DeviceTable`** models the table. Handles are filed under their descriptor;
nodes and descriptors get the lowest free number, as in Linux, so that numbers
are reused as early as they can be. `grab`, `uinput` and `open` are the kernel's
view, `m_currentDevices`, `deviceList`, `keyboard` and the three descriptors of
the loop the daemon's. A new descriptor is chosen by `open` alone, so a
descriptor that is not closed stays taken and one that is closed too early is
given out again while something is still filed under it; that neither happens is
`DescriptorsOwned`. An unplugged device leaves a dead handle behind. A key press
puts `"keys"`, or after an overrun `"dropped"`, in the buffer of the handle that
has the grab. Alone, the module lets any profile list come into force at any
time. `Faults` names the calls that may fail: opening a node, creating a shadow
or the virtual keyboard (which aborts the daemon, `KeyboardFails`), adding a
device to the epoll set, `epoll_create1`, `signalfd`, and `inotify_init1` or its
watch on `/dev/input`. `Outcomes` turns a fault into what is left of a set of
attempts, so the same action stands for the call that succeeds, fails, or fails
for some devices.

**`MainLoop`** composes the two (`DT == INSTANCE DeviceTable`,
`CW == INSTANCE ConfigWatch`) and adds the thread: `batch` holds the
descriptors `epoll_wait` returned, `left` counts the events of the last inotify
read, `pc` is the program counter between calls. `Dispatch` looks each number
up in the table *as it is then*, which is what `enterLoop` does. `Read` is the
loop of `processEvent`: it goes on as long as there is something to read, so a
device that never pauses starves the rest. The queue of `inotify` is one for
both components, as in the program.

**`UnifiedKeyboard`** is the abstract specification of the program (README:3-21
of the repository): fingers on keys of devices, a target for each key, and a
virtual keyboard on which a key is down exactly while a finger is on some key
that stands for it. It has three variables and two actions.

**`KeyRouting`** models one device's events one by one: what a profile makes of
the key map (`MappedKeys`, with the names `KeyMap` accepts), which event types
call for a shadow, what `processEvent` does with an event (`RouteKey`,
`NextEvent`), and which keys are down on the virtual keyboard. The thread is
reduced to the order in which devices are opened, configured and read, and the
virtual keyboard is taken to exist: its creation, and what becomes of a daemon
that cannot create it, is `DeviceTable`'s.
Configuring a device whose profile has `DISABLE_UNMAPPED_KEY` runs
`std::fill_n` far past its array (stage `crashed`); the assertion at
`EvdevInputDevice.cpp:311` has the stage `aborted`.

**`WildMatch`** models one property of an `EvdevMatcher`: the pattern as it was
`written`, what `setWild` or `readSelf` makes of it, and `simpleWildMatch`, one
turn of its loop per step. The answer is compared with what the written pattern
means: `Glob` is the set of lengths of the text's beginnings that are an instance
of the pattern. `stripWildString`, `Split` and `Glob` are recursive functions, so
that the proofs can follow them.

**`ProfileList`** models what happens between the property tree of the file and
the profile a device gets. Matchers and trees are records of the same nesting as
in the code; each class has its own `match`, `clone`, `write` and `read`
operator, and the virtual functions dispatch on the class. `readOne` is one turn
of `readList`'s loop: `push_back` copies every earlier profile, through
`operator=` and `deepClone`, whenever the vector is full. A class without a
registered reader (`globalInit`) reads as `AllMatcher`. A second actor is a
program that builds a list with the setters and saves it, as
`test_write_test_json.cpp` does. The other modules see the result only: a
profile list is a function from devices to settings there.

The modules `MC*` hold the values of the constants for TLC. Definitions whose
comment begins with "Mutant" are faulty variants of the code's operations that
`PROJECT.json` lists to show that each property can fail.

## The runs

| Run | What it checks | Bounds | States |
|---|---|---|---|
| `config_any` | `TypeOK`, `OneWatch`, `NoLeakedWatch`, `WatchIsCurrent`, `HearsNewFile`, `FileIsLoaded`, `TurnsToCwd` | 6 changes of any kind at any moment, of a file that may have another name or be open elsewhere; any watch may be refused | 1.4 million |
| `devices_faults` | `TypeOK`, `GrabMatchesTable`, `DescriptorsOwned`, `UinputsOwned`, `NoFeedback`, `TableFollowsProfiles`, `AllPolled` | a mouse and a keyboard, two profile lists, 4 nodes, 6 descriptors, any number of plugs, reloads and overruns; any `open`, shadow, virtual keyboard, `epoll_ctl` or `epoll_create1` may be refused | 3.2 million |
| `devices_early` (violated) | `EveryDeviceIsHeld` | the same without faults, plugging before the watch | |
| `main_hotplug` | `NoAssertFailure`, `SignalEnds`, `PluggedIsHeld` | 2 plugs or unplugs, no change of the file; any of the loop's descriptors and watches and the virtual keyboard may be refused | 420 000 |
| `main_reload` | `TypeOK`, `TableInForce`, `RestIsConfigured`, `NoneOverlooked`, `ImplementsConfigWatch`, `ImplementsDeviceTable` | 2 renames or removals of the file, 1 plug or unplug while at most 1 notice is queued, keys and signals at will, `epoll_wait` interrupted at any time | 1.1 million |
| `main_abort` (violated) | `NoAssertFailure` | 1 rename over the file | |
| `routing_careful` | `TypeOK`, `NoStuckKey`, `HeldIsDown`, `ImplementsUnifiedKeyboard` | 2 devices that both post to the virtual keyboard under one of two profile lists, 2 keys, buffers of 2 events, reloads at will | 1.7 million |
| `routing_faults` | `TypeOK`, `RoutesAsPromised`, `AssertionHolds` | three profile lists, buffers of 1 event, unplugging, overruns, refused shadows, repeat-rate events, dropping profiles, typing at any moment | 430 000 |
| `routing_shared`, `routing_unplug` (violated) | `HeldIsDown`, `NoStuckKey` | the same key on both keyboards; an unplug with a key down | |
| `wild_words` | `TypeOK`, `Sound`, `CompleteIfOpen` | every text of up to 4 and every pattern of up to 5 characters over two letters and `*`, set for any property or read from a profile | 220 000 |
| `profiles_files` | `GrabsNoMore`, `RoutesAsTheFileSays`, `SavedComesBack` | 3 devices; files of up to 3 of 10 profiles, among them an incomplete one, one of an unknown class and one with an unknown relation, edited one profile at a time; programs of up to 6 calls | 139 000 |

Why the bounds are enough to be interesting. Six changes let the file go through
every pair of replace, move, remove and re-create twice, and through a second
name that is made, outlives two replacements and is let go; several notices may
be queued, and the handlers look at one notice and two slots. Two devices are
what it takes for one handler to disturb another's number; four nodes hold both
devices, the virtual keyboard and one shadow, and a fifth and eight descriptors
are allowed in the composition, where unplugged devices come back while their
dead handle is still open. Where a bound could stop the system the configuration
says `CHECK_DEADLOCK FALSE` and why. In `main_reload` the user waits until a
change is digested (`Paced`): what a hasty user can do to the watches is
`config_any`'s business. `Paced`, `MaxQueue`, `MaxMoves`, `MaxOps`, `MaxNode`,
`MaxFd`, `MaxBuffer`, `MaxText`, `MaxWild`, `MaxList` and `MaxCalls` are all the
bounds there are. A pattern is one longer than an id's four digits, which is
what it takes for `setWild` to cut or pad it. Three profiles make the vector of
`readList` grow three times, its first element is copied twice; six calls build
two different profiles. In `ProfileList` the program works only while there is
no file: it shares nothing else with the daemon, which reads the file in one
step.

Fairness. `WF_vars(Thread)` in `MainLoop`: a thread that is not blocked in
`epoll_wait` runs on, and `epoll_wait` returns while anything is readable.
Nothing is assumed of the user, the devices or signals. Within a batch the loop
handles every descriptor, so weak fairness of the whole thread suffices. There
is one thing the code does not give: `processEvent` returns only when its device
has nothing left to read (`EvdevInputDevice.cpp:246-263`), so `SignalEnds` and
`PluggedIsHeld` are stated under `TypingStops`, that from some moment on nobody
types. Without it TLC finds the device that is read for ever. `TurnsToCwd` is
about `ConfigWatch`, which knows no devices; it assumes in so many words
(`Attended`) that the thread comes back to its inotify descriptor, which a
device that types for ever can prevent. `SignalEnds` also leaves out a daemon
that got no signal descriptor: `createSignalFd` blocks the two signals first
(`MainLoop.cpp:44-55`), so that one cannot be ended by them at all. The
refinements need no fairness.

## The refinements

- `KeyRouting` implements `UnifiedKeyboard` (`ImplementsUnifiedKeyboard`). The
  fingers are where the events that have been *read* put them (`ReadFingers`
  undoes what is still queued), the target is the handle's key map, and `down`
  is the kernel's state of the virtual keyboard. Each event read is one `Move`
  or a stutter; configuring is `Configure`, which the abstract keyboard allows
  only while no key is held. It holds for the users of `routing_careful`: no
  key is held while devices are configured, and a profile list gives each key
  one source. `routing_shared` and `routing_unplug` show what becomes of it
  otherwise.
- `MainLoop` implements `ConfigWatch` (`ImplementsConfigWatch`): the queue is
  what `inotify` queued for the configuration's watches, everything else is the
  thread's own. So what is checked and proved of `ConfigWatch` under any
  user is not lost when its events share a queue and a read with those of
  devices. The daemon's exit, which `ConfigWatch` does not have, ends it.
- `MainLoop` implements `DeviceTable` (`ImplementsDeviceTable`): the queue is
  the rest. `DeviceTable` takes new profiles and drops the devices in one step;
  the thread sets `m_profiles` when it reads the file and calls `configureAll`
  several steps later, after a watch was created. The history variable `inForce`
  holds the profiles the table was last built for, and maps to `m_profiles`.
  That this works says that in between no device is read, configured or added by
  the new profiles (`TableInForce` says it of the table alone).

All three are checked as safety, step by step (`Init /\ [][Next]_vars`), and
proved for any bounds, the first for users and profiles of that kind.

## What the violated runs show

- `main_abort`: the file is replaced while a device has events. One batch holds
  the inotify descriptor and the device. The reload closes and reopens every
  device, the old number is nobody's, and `BOOST_ASSERT(false)`
  (`MainLoop.cpp:171`) ends the daemon. The harmless half, an old number that now
  stands for another device, only reads that one early: `NoneOverlooked` holds in
  `main_reload`, where batches outlive reloads, too.
- `devices_early`: `createInotifyFd` runs after the scan (`MainLoop.cpp:101`), a
  device plugged in between is held only after the next reload.
- `routing_shared`: with `shift` held on both keyboards, releasing one releases
  the virtual `shift` (`UinputKeyboard.cpp:48`).
- `routing_unplug`: a keyboard that is unplugged with a key down leaves that key
  down on the virtual keyboard: `read` fails before the kernel's own release is
  read, and the destructor posts nothing.

More departures were met while modelling. They are visible in the models and are
not runs of their own: a profile with `DISABLE_UNMAPPED_KEY` ends the daemon
(stage `crashed` of `KeyRouting`; README:78 promises that such keys are
dropped); a file edited in place is not reloaded (`MainLoop.cpp:426`; drop
`~written` from `FileIsLoaded`); a file that changes between its reading and the
watch on it is not read again (`MainLoop.cpp:205`; drop `~hasty`); a file that
is replaced or removed while a hard link or an open descriptor keeps its inode
sends `IN_ATTRIB` alone, so the daemon reloads once, stays on the orphan and
hears of no later file (`MainLoop.cpp:426-430`; drop `~orphaned` from
`FileIsLoaded` or `[]~orphaned` from `TurnsToCwd`); after a rename over the
watched file the daemon stays with the directory although the file is there
(`MainLoop.cpp:434`); an `EV_REP` event of a device without shadow reaches the
assertion at `EvdevInputDevice.cpp:311` (`AssertionHolds` says that nothing else
does); `simpleWildMatch("aa", "*a")` is false (`Utility.cpp:59`), which is why
`CompleteIfOpen` speaks of patterns with a star at the end only; `setWild` pads
an id with two stars in a row with NUL characters, so that it matches nothing
(`EvdevMatcher.cpp:17-18`; drop the condition on ids from `CompleteIfOpen`); and
a key mapped to `MOUSE_HWHEEL_*` posts to an axis that the virtual keyboard
never enables (`UinputKeyboard.cpp:29-32`; the models leave the pointer's axes
out). SIGSTOP and SIGCONT interrupt `epoll_wait` and end the daemon
(`MainLoop.cpp:130`). Of `ProfileList`: a class name nobody registered, and a
`MultiMatcher` of nothing, match every device (`DeviceMatcher.cpp:28`;
README:113-115 warns of unexpected grabs, and `GrabsNoMore` speaks of matchers
that mean something, `Meaningful`); a NOT read from a file is empty and matches
nothing (`NotMatcher.cpp:31-35`; README:34 promises AND/NOT/OR; drop `HasNot`
from `Plain`, while `GrabsNoMore` shows that no device is grabbed because of
it); a saved profile keeps only the last of its key maps (`Profile.cpp:101`;
drop the bound on `m_keyMaps` from `SavedComesBack`); copies lose name and
description (`Profile.cpp:18-28`), so only the profiles behind the last growth
of the vector are logged with theirs; and `m_disableNonKeyEvent` is on by
default (`Profile.hpp:92`), README:116-117 says off, so that
`RoutesAsTheFileSays` speaks of profiles that spell it out (drop that condition
from `Plain`: TLC finds the file that leaves it to the default).

## The proofs

Eight modules hold theorems that TLAPS checks for every value of the constants:
any number of devices, descriptors, changes of the file, any profile lists,
texts and patterns of any length, any set of faults. `PROJECT.json` lists the
theorems. The assumptions about the constants are the `ASSUME`s of the modules,
which say what kind of value each one is and which model values differ; TLC
evaluates them on every run. Some theorems have hypotheses of their own, which
are named below.

Every invariant was checked by TLC, with the bounds of a run, and then proved.
Each proof has one lemma per action; the lemma that goes through all actions is
called `NextInv`, `NextKeeps`, `NextCovers`, `NextRoutes`, `NextQuiet`,
`ThreadStep`, `RestKept` or `WildInvStep`.

| Module | Proves | Inductive invariant |
|---|---|---|
| `ConfigWatchProofs` | `TypeOK`, `OneWatch`, `NoLeakedWatch`, `WatchIsCurrent` | `WatchInv` |
| `ConfigReloadProofs` | `HearsNewFile`, `FileIsLoaded` | `SlotsInv`, `CalmInv` |
| `DeviceTableProofs` | the seven invariants of `devices_faults`, `EveryDeviceIsHeld` | `TableInv`, `CoverInv` |
| `KeyRoutingProofs` | `TypeOK`, `AssertionHolds`, `RoutesAsPromised` | `RouteInv` |
| `UnifiedProofs` | `NoStuckKey`, `HeldIsDown`, `ImplementsUnifiedKeyboard` | `QuietInv`, `UnifiedInv` |
| `MainLoopProofs` | `TypeOK`, `TableInForce`, `NoAssertFailure`, `ImplementsDeviceTable`, `ImplementsConfigWatch`, `NoneOverlooked`, `RestIsConfigured` | `ThreadInv`, `RestInv` |
| `WildMatchProofs` | `TypeOK`, `Sound`, `CompleteIfOpen` | `WildInv` |
| `Inductions` | induction on numbers and sequences, recursion on an interval | |

**`ConfigWatch` and `ConfigReload`.**

- `WatchInv == TypeOK /\ OneWatch /\ NoLeakedWatch /\ WatchTracksFile`. `OneWatch`
  is not inductive alone: that a handler finds both slots empty needs
  `NoLeakedWatch`, and that a notice's descriptor is the slot's own needs the
  types. `WatchIsCurrent` is weaker than it needs to be to survive a step: a
  queued notice excuses any watch. `WatchTracksFile` says which notice has to be
  there, a move or deletion of the watched file itself, unless the watch is on the
  file that has the name or on one that is shared.
- `HearsNewFileHolds`: `SlotsInv` adds that the directory's slot, if set, names a
  watch the kernel still has (`CwdWatched`), that without a refusal the daemon in
  its loop has one of the two watches (`NeverBlind`), and that a watch on a file
  without the name means a notice of its departure, or an orphan (`WatchOnFile`).
  The lemma `SlotsStep` goes through the daemon's steps once.
- `FileIsLoadedWhenCalm`: the hypotheses are in the property: the user has
  waited for each change to be handled, has not written in place and has not
  replaced or removed a watched file that something else keeps, and no watch was
  refused. He may make second names and close them again. `FileIsLoaded` holds
  at rest, and a change makes it false until its notice is handled. `CalmInv`
  says that as long as nothing has gone wrong outside the daemon the queue holds
  at most one notice, or the pair a vanishing inode sends (`ShortQueue`), and
  that the profiles in force are the file's or the next notice will make the
  daemon read it (`LoadedOrDue`). `UserQueues` is the heart of it: in both
  modes, each of the user's changes that may alter the text queues a notice that
  reloads.

**`DeviceTable`.** `TableInv` is the conjunction of the seven invariants,
`DescriptorsOwned` in two parts (`DescriptorsDistinct`, `OpenIsFiled`), and
three facts that make them inductive: handles that `scanDevices` has opened and
not yet configured have no shadow and are on their device's node
(`ListIsFresh`), a scan begins with an empty table (`ScanStartsEmpty`), and no
two descriptors are of one uinput device (`UinputsDistinct`). The kernel's part
is proved once for all six paths on which handles are closed (`CloseKeeps`).
That the numbers are distinct does not hold by itself: a new descriptor avoids
those the kernel has open, and only together with `OpenIsFiled`, that these are
the ones the daemon has filed, does it avoid those of the tables.

`EveryDeviceIsHeldHolds` says that scans, hotplug and reloads between them
overlook no device: with no notice left, each plugged device that the profiles
match is in the table and alive. `CoverInv` says what is known before the
notices are read: such a device is in the table, or in the list `scanDevices`
has opened, or announced in the queue (`Covered`), and no input buffer has
overrun (`NoDrops`). A reload changes the profiles under the table, and
`Covered` holds across it because it empties the table and goes on with a scan,
which looks at everything that is plugged in. The hypothesis is `Reliable`:
nothing is plugged in before `/dev/input` is watched, no buffer overruns, and
opening a device, making its shadow and polling it succeed; the daemon's own
descriptors may be refused. That the first part is needed `devices_early` shows:
it is a race the code has. With `EarlyPlug = FALSE` in `DeviceTable_early.cfg`
TLC finds the invariant to hold, and with it `CoverInv`, in 323 000 states. A
device that is refused or overruns is let go, and no notice brings it back until
it is plugged in again or the next reload scans.

**`KeyRouting`.** `RouteInv` ties each device in use to the profile in force
(`ConfiguredByProfile`) and each queued event to the types its device has
(`BuffersFit`), which is what the assertion in `processEvent` is about. That the
key map a device computes is the one the profile promises, the last good map of
a key deciding, is an induction over key maps of any length. The loop of
`configure` is written as a recursive function; `Inductions` derives induction
and the existence of such functions from the well-foundedness of the natural
numbers.

**The unified keyboard.** `UnifiedProofs` proves that `KeyRouting` implements
`UnifiedKeyboard`. The invariant has to say where the fingers were: for each open
device there is a trace from the fingers as far as they have been read to the
fingers as they are, one queued event per step (`BuffersTrace`). With it,
`OnlyFingersDown` (whatever is down on the virtual keyboard stands for a finger)
is inductive; its converse `FingersAllDown` needs that a virtual key has one
source. The hypotheses:

- `Undisturbed`: nobody types while devices are configured, nothing is unplugged,
  no buffer overruns. `NoStuckKeyHolds` needs only this, and holds for keys that
  share a target.
- `OneSourcePerKey`: in a profile list no two keys of devices in use have the
  same target. `HeldIsDownHolds` and `ImplementsHolds` need it as well.

`routing_careful` satisfies both. `routing_shared` satisfies the first and not
the second, and violates `HeldIsDown`; `routing_unplug` breaks the first, and
violates `NoStuckKey`. So neither can be dropped.

**The daemon.** `MainLoopProofs` uses what is proved of the components through
instances of their proof modules (`TB`, `CB`), with the refinement mapping in
place of their variables. `EventsOf` splits the one inotify queue into the two
the components see; lemmas by induction over the queue say that it commutes
with appending, concatenation and taking the first event. `ThreadInv` is the
invariants of both components, read through the mapping, and four facts of the
thread's own (`OwnInv`): its step fixes the table's phase (`PhaseFollows`), the
table was built for the profiles read last except between a reload's read and
its scan (`BuiltForProfiles`), no event of a read is left over outside
`processInotify` (`NothingLeft`), and without an inotify descriptor nothing is
watched or queued (`NoQueueNoWatch`). For each action a lemma shows that it
keeps `OwnInv` and is a step of each component or none of its business; the
components' own theorems do the rest.

- `ImplementsDeviceTableHolds` and `ImplementsConfigWatchHolds` are the two
  refinements, `TableOfTheDaemon` and `WatchOfTheDaemon` what follows: the
  invariants of the components hold of the daemon as a whole. What
  `WatchIsCurrent` says there is what it says of `ConfigWatch`: an inode that
  something else keeps may hold the watch.
- `TableInForceHolds` follows from `TableFollowsProfiles`, which is about
  `inForce` there, and `BuiltForProfiles`.
- `NoAssertFailureHolds` has the hypothesis `FileOps = {}`: nobody changes the
  file. Then no reload is ever due (`NobodyReloads`) and every number in the
  batch is a device, the signal or the inotify descriptor (`BatchStands`). It is
  the configuration of `main_hotplug`; `main_abort` shows that one rename is
  enough to make it false.
- `DevicesOfTheDaemon` is `EveryDeviceIsHeld` for the whole daemon
  (`NoneOverlooked`). It does not
  follow from the refinement: the daemon's first read of the file sets the
  profiles in a step the table does not have. Its hypothesis `NoDeviceRefused` is
  `Reliable` in the daemon's constants; nothing is asked of the file, its watches
  or the user.
- `RestIsConfiguredHolds` is the promise of the whole program: a daemon with
  nothing left to do holds exactly the plugged devices the file as it is now
  matches. The hypothesis `AllGoesWell` adds to `NoDeviceRefused` that the
  kernel grants every watch and that the user waits for each change to be
  handled, does not write in place and gives the file no second name, nor does
  another program have it open: a little more than `FileIsLoaded` asks of him;
  `main_reload` satisfies it. `RestInv` puts together what the components know:
  `CB!CalmInv` (the profiles are the file's or a notice will make the daemon
  read it) and `TB!CoverInv` (a device is held or on its way). `CalmInv` is
  about `ConfigReload`, whose history variables record that something went wrong
  outside the daemon; here that is excluded (no inode is ever shared,
  `Unshared`), `CB` has `FALSE` in their place, and `StaysCalm` shows that each
  step of `ConfigWatch` then is one of `ConfigReload`. That needs that a file
  which replaces another is a new inode (`Numbered`): otherwise it would look
  like a write in place. Last, the thread goes on only with a configuration that
  was read (`HasRead`).

**Wildcards.** `WildMatchProofs` proves that `simpleWildMatch` is right for texts
and patterns of any length. It goes in three steps.

- *What the tokens mean.* `EndsOf(text, ts, held)` is where the tokens `ts` can
  end if they are placed one after the other, the first one at the head of the
  text when `held`. `SplitMeansGlob`, by induction over the pattern: `Glob` of a
  pattern is `EndsOf` its tokens, or everything from there on when the pattern
  ends in a star. `StripKeepsGlob`: merging stars changes nothing.
- *The search takes the least end.* The invariant of the loop (`Searching`) is
  that `searchPos` is the least end of the tokens before the `i`-th.
  `FirstFitIsLeast` keeps it through a turn, and shows that a turn that fails
  leaves the tokens no place at all; `TextTooShort` is the same for the early
  `return false` at the end of the text, which needs that no token is empty.
  What an answer says about the pattern in use follows (`Answered`): an
  acceptance is always right, a rejection is if the pattern ends in a star. The
  one wrong rejection is the last `if` of the function: the least end of the
  last token is not the only one it could have.
- *Back to what was written.* `PatternSource` says where the `m_wild` entry comes
  from. The only one that means something else than the written pattern is an
  id that got shorter when its stars were merged and was padded: it ends in a
  `NUL` no text has, and accepts nothing (`PaddedMeansNothing`). So `Sound` holds
  of it, and `CompleteIfOpen` has to except it.

Only model-checked are:

- the liveness properties (`TurnsToCwd`, `SignalEnds`, `PluggedIsHeld`): the
  prover has no rule for fairness;
- `ProfileList`, whose matchers nest to any depth and are recursive operators,
  which the prover's backends do not take.

## What is not modelled

- The text of the JSON file, and the memory of matchers (a read that throws
  leaks the ones it had made).
- A queue overflow of `inotify` (`MainLoop.cpp:450`): its limit is 16384 events,
  far beyond what TLC can fill.
- The size in bytes of what `processInotify` reads: it counts events.
- An old inode that gets the name back: it counts as a new one, and the notice
  its watch then gives is one of `Elsewhere`'s.
- `epoll_ctl` refusing the signal or the inotify descriptor
  (`MainLoop.cpp:96`, `114`); refusing a device is modelled.
- The values written for pointer movement, and everything logged. In
  `KeyRouting` the type `"SYN"` stands for `EV_MSC` as well.
- The second constructor and the descriptions of `EvdevInputDevice`, which the
  tests and the log use.
- The Windows stub, the command line tool (it prints the devices of one scan,
  reads a line and exits: nothing it keeps could go wrong later), the empty GUI,
  `core/input.h` (the kernel's constants) and the tests.

## Plan

Done: all components that keep state, their composition, the three refinements,
the faults of the calls the daemon makes, and the proofs of every safety
property a run checks and finds to hold, but those of `ProfileList`. Those and
liveness stay with TLC, as said above.

What could be added: `RestIsConfigured` for a user who is hasty at first but
waits after his last change, if that is a replacement, and a `ProfileList` with
matchers as trees of bounded depth, whose meaning could then be written without
recursion.

----------------------------- MODULE KeyRouting -----------------------------
(***************************************************************************)
(* From a key on a physical device to the one virtual keyboard: how an     *)
(* EvdevInputDevice is configured with a profile's key maps, what          *)
(* processEvent does with each event it reads, and what UinputKeyboard     *)
(* makes of it.                                                            *)
(*                                                                         *)
(* The kernel keeps the state of every key.  It queues the events of a     *)
(* device for a client from open() on, drops an event of the virtual       *)
(* keyboard that changes nothing, and releases a leaving device's keys     *)
(* just before reads from it begin to fail.  A buffer that overruns is     *)
(* cleared and says so (SYN_DROPPED).  MainLoop's table and its watch on   *)
(* the file are modules of their own; here a device returns only after the *)
(* handle of its last visit is gone, and a reload comes from nowhere.      *)
(***************************************************************************)
EXTENDS Integers, Sequences, FiniteSets, SequencesExt

CONSTANTS
  Devices,     \* the physical devices there are
  Types,       \* per device: its event types, EV_SYN and EV_MSC apart
  Keys,        \* key codes, KEY_RESERVED not among them
  Reserved,    \* KEY_RESERVED
  BadName,     \* a name that is no key; also the code -1
  MouseTypo,   \* a name that begins with MOUSE_ and is no action
  Unmatched,   \* in place of a profile: no profile matches the device
  NoDevice,    \* no device is being read
  ProfileLists,\* what a profile list says of each device
  MaxBuffer,   \* bound on the events queued for one device
  Careful,     \* TRUE: no key is held or typed while devices are configured
  Faults       \* what may happen: "unplug", a buffer's "overrun", a failing
               \* "uinput", another program setting a "repeat" rate

MouseRelActions ==
  {"MOUSE_X_NEG", "MOUSE_X_POS", "MOUSE_Y_NEG", "MOUSE_Y_POS",
   "MOUSE_HWHEEL_NEG", "MOUSE_HWHEEL_POS", "MOUSE_WHEEL_NEG",
   "MOUSE_WHEEL_POS", "MOUSE_DPI_NEG", "MOUSE_DPI_POS"}

EventTypes == {"KEY", "REP", "REL", "ABS", "SW", "LED", "SND", "FF", "PWR",
               "FF_STATUS"}
Targets == Keys \cup MouseRelActions \cup {Reserved}
Names == Targets \cup {BadName, MouseTypo}
KeyMap == [fromKey : Names \ {Reserved}, toKey : Names]
Profile == [keyMaps : Seq(KeyMap), disableNonKeyEvent : BOOLEAN,
            disableUnmappedKey : BOOLEAN]

ASSUME KeyRoutingAssumption ==
  /\ Types \in [Devices -> SUBSET EventTypes]
  /\ \A d \in Devices : "KEY" \in Types[d]
  /\ NoDevice \notin Devices
  /\ Reserved \notin Keys /\ {BadName, MouseTypo} \cap Targets = {}
  /\ MouseRelActions \cap (Keys \cup {Reserved}) = {}
  /\ ProfileLists \subseteq [Devices -> Profile \cup {Unmatched}]
  /\ Unmatched \notin Profile
  /\ MaxBuffer \in Nat \ {0}
  /\ Careful \in BOOLEAN
  /\ Faults \subseteq {"unplug", "overrun", "uinput", "repeat"}

VARIABLES
  presence,      \* kernel: is the device "in", "leaving" or "out"
  pressed,       \* kernel: the keys that are down on each device
  buffer,        \* kernel: events queued on the daemon's descriptor
  notices,       \* devices whose node the daemon has yet to hear of
  handle,        \* the daemon's handle of each device, see Handles
  m_keyMaps,     \* per device: the target of each key
  m_disableUnmappedKey, m_disableNonKeyEvent,
  hasShadow,     \* per device: m_uinputDev is set
  m_profiles,    \* the profile list in force
  stage,         \* what the thread is doing, see Stages
  current,       \* the device processEvent is reading
  virtual,       \* kernel: the keys that are down on the virtual keyboard
  m_virtualDpiFactor

deviceVars == <<presence, pressed, buffer, notices>>
configVars == <<m_keyMaps, m_disableUnmappedKey, m_disableNonKeyEvent, hasShadow>>
keyboardVars == <<virtual, m_virtualDpiFactor>>
vars == <<deviceVars, handle, configVars, m_profiles, stage, current,
          keyboardVars>>

Handles == {"closed", "open", "held"}
Stages == {"loop", "scan", "configure", "crashed", "aborted"}
Running == stage \in {"loop", "scan", "configure"}

Event == [type : EventTypes \cup {"SYN", "DROPPED"},
          code : Keys \cup {Reserved}, value : 0 .. 2]
KeyEvent(k, v) == [type |-> "KEY", code |-> k, value |-> v]
OtherEvent(t) == [type |-> t, code |-> Reserved, value |-> 0]

-----------------------------------------------------------------------------
(* UinputKeyboard. *)

(* The kernel's state of the virtual keys after an event: a press of a key  *)
(* that is down, a release of one that is up and a repeat change nothing.   *)
Down(k, v) ==
  CASE v = 0 -> virtual \ {k} [] v = 1 -> virtual \cup {k} [] v = 2 -> virtual

(* Mutants: no key is ever released; a repeat counts as a release.          *)
postKeyEventHolds(k, v) ==
  virtual' = Down(k, IF v = 0 THEN 2 ELSE v) /\ UNCHANGED m_virtualDpiFactor
postKeyEventToggles(k, v) ==
  virtual' = Down(k, v % 2) /\ UNCHANGED m_virtualDpiFactor

postKeyEvent(k, v) ==
  virtual' = Down(k, v) /\ UNCHANGED m_virtualDpiFactor

MinFactor == 1
MaxFactorMissing == 2^16  \* mutant: no bound below overflow
MaxFactor == 2^15

(* A DPI action halves or doubles the 16-bit factor, every other action     *)
(* moves the pointer or a wheel and changes no state.                       *)
postMouseEvent(a) ==
  /\ m_virtualDpiFactor' =
       CASE a = "MOUSE_DPI_NEG" /\ m_virtualDpiFactor # MinFactor
              -> m_virtualDpiFactor \div 2
         [] a = "MOUSE_DPI_POS" /\ m_virtualDpiFactor # MaxFactor
              -> (m_virtualDpiFactor * 2) % 2^16
         [] OTHER -> m_virtualDpiFactor
  /\ UNCHANGED virtual

-----------------------------------------------------------------------------
(* EvdevInputDevice. *)

(* KeyMap: the codes that stand for the names, -1 for one that is unknown.  *)
CodeFromName(name) == IF name \in Keys \cup {Reserved} THEN name ELSE BadName
isMouseRel(m) == m.toKey \in MouseRelActions \cup {MouseTypo}
mouseRelActionNameToCode(name) ==
  IF name \in MouseRelActions THEN name ELSE BadName
fromKeyCode(m) == CodeFromName(m.fromKey)
toKeyCode(m) == IF isMouseRel(m) THEN mouseRelActionNameToCode(m.toKey)
                                 ELSE CodeFromName(m.toKey)

Identity == [k \in Keys |-> k]

GoodFrom(m) == fromKeyCode(m) # BadName  \* mutant: no test of the target
Good(m) == fromKeyCode(m) # BadName /\ toKeyCode(m) # BadName

Mapped(t, m) ==
  IF Good(m) THEN [t EXCEPT ![fromKeyCode(m)] = toKeyCode(m)] ELSE t

(* Mutant: the maps apply last to first. *)
MappedKeysBackwards(maps) ==
  LET after[n \in 0 .. Len(maps)] ==
        IF n = 0 THEN Identity ELSE Mapped(after[n - 1], maps[Len(maps) + 1 - n])
  IN after[Len(maps)]

(* configure's table: every key stands for itself until a map says          *)
(* otherwise; a map with a bad name is skipped.  after[n] is the table      *)
(* after n turns of the loop.                                               *)
MappedKeys(maps) ==
  LET after[n \in 0 .. Len(maps)] ==
        IF n = 0 THEN Identity ELSE Mapped(after[n - 1], maps[n])
  IN after[Len(maps)]

NeedsSwitchless == {"REL", "ABS", "LED", "SND", "FF", "PWR", "FF_STATUS"}  \* mutant
needPassthroughType ==
  {"REL", "ABS", "SW", "LED", "SND", "FF", "PWR", "FF_STATUS"}
hasOtherEventType(d) == Types[d] \cap needPassthroughType # {}
NeedsShadow(d, p) == hasOtherEventType(d) /\ ~p.disableNonKeyEvent

(* Mutant: the shadow outlives the device.                                  *)
DestroyKeepsShadow(D) ==
  /\ handle' = [d \in Devices |-> IF d \in D THEN "closed" ELSE handle[d]]
  /\ buffer' = [d \in Devices |-> IF d \in D THEN <<>> ELSE buffer[d]]
  /\ UNCHANGED configVars

(* ~EvdevInputDevice: the descriptor, its buffer, the shadow and the        *)
(* configuration are gone.                                                  *)
Destroy(D) ==
  /\ handle' = [d \in Devices |-> IF d \in D THEN "closed" ELSE handle[d]]
  /\ buffer' = [d \in Devices |-> IF d \in D THEN <<>> ELSE buffer[d]]
  /\ m_keyMaps' =
       [d \in Devices |-> IF d \in D THEN Identity ELSE m_keyMaps[d]]
  /\ m_disableUnmappedKey' =
       [d \in Devices |-> d \notin D /\ m_disableUnmappedKey[d]]
  /\ m_disableNonKeyEvent' =
       [d \in Devices |-> d \notin D /\ m_disableNonKeyEvent[d]]
  /\ hasShadow' = [d \in Devices |-> d \notin D /\ hasShadow[d]]

(* configure and grabAndPrepare of an open handle.  The grab fails on a     *)
(* device that has left.  The fill_n of a profile that disables unmapped    *)
(* keys takes a pointer for the count and runs off the heap.                *)
Configure(d) ==
  /\ stage = "configure"
  /\ handle[d] = "open"
  /\ LET p == m_profiles[d]
     IN \/ /\ p # Unmatched =>
                /\ ~p.disableUnmappedKey
                /\ presence[d] = "out" \/ (NeedsShadow(d, p) /\ "uinput" \in Faults)
           /\ Destroy({d})
           /\ UNCHANGED stage
        \/ /\ p # Unmatched /\ p.disableUnmappedKey
           /\ stage' = "crashed"
           /\ m_disableUnmappedKey' = [m_disableUnmappedKey EXCEPT ![d] = TRUE]
           /\ UNCHANGED <<handle, buffer, m_keyMaps, m_disableNonKeyEvent,
                          hasShadow>>
        \/ /\ p # Unmatched /\ ~p.disableUnmappedKey /\ presence[d] # "out"
           /\ handle' = [handle EXCEPT ![d] = "held"]
           /\ m_keyMaps' = [m_keyMaps EXCEPT ![d] = MappedKeys(p.keyMaps)]
           /\ m_disableNonKeyEvent' =
                [m_disableNonKeyEvent EXCEPT ![d] = p.disableNonKeyEvent]
           /\ hasShadow' = [hasShadow EXCEPT ![d] = NeedsShadow(d, p)]
           /\ m_disableUnmappedKey' = [m_disableUnmappedKey EXCEPT ![d] = FALSE]
           /\ UNCHANGED <<buffer, stage>>
  /\ UNCHANGED <<presence, pressed, notices, m_profiles, current, keyboardVars>>

(* A key event goes to the key its code is mapped to, a press of a key      *)
(* mapped to a mouse action to the mouse; a key mapped to KEY_RESERVED is   *)
(* passed on or dropped as the profile says.                                *)
RouteKey(d, e) ==
  LET to == m_keyMaps[d][e.code]
  IN \/ to \in Keys /\ postKeyEvent(to, e.value)
     \/ /\ to \in MouseRelActions
        /\ IF e.value >= 1 THEN postMouseEvent(to) ELSE UNCHANGED keyboardVars
     \/ /\ to = Reserved
        /\ IF m_disableUnmappedKey[d] THEN UNCHANGED keyboardVars
                                      ELSE postKeyEvent(e.code, e.value)

(* processEvent's assertion on an event it can neither drop nor pass on:    *)
(* without a shadow device only EV_MSC and EV_SYN are expected.             *)
Unexpected(d, e) ==
  e.type \notin {"KEY", "SYN"} /\ ~m_disableNonKeyEvent[d] /\ ~hasShadow[d]

(* One turn of the loop in processEvent, after epoll named the device.      *)
NextEvent ==
  LET d == current
      e == Head(buffer[d])
      fine == presence[d] # "out" /\ buffer[d] # <<>> /\ e.type # "DROPPED"
  IN /\ stage = "loop" /\ d # NoDevice
     /\ \/ /\ \/ presence[d] = "out"
              \/ buffer[d] # <<>> /\ e.type = "DROPPED"
           /\ Destroy({d})
           /\ current' = NoDevice
           /\ UNCHANGED <<stage, keyboardVars>>
        \/ /\ presence[d] # "out" /\ buffer[d] = <<>>
           /\ current' = NoDevice
           /\ UNCHANGED <<buffer, handle, configVars, stage, keyboardVars>>
        \/ /\ fine /\ ~Unexpected(d, e)
           /\ buffer' = [buffer EXCEPT ![d] = Tail(@)]
           /\ IF e.type = "KEY" THEN RouteKey(d, e) ELSE UNCHANGED keyboardVars
           /\ UNCHANGED <<handle, configVars, current, stage>>
        \/ /\ fine /\ Unexpected(d, e)
           /\ stage' = "aborted"
           /\ UNCHANGED <<buffer, handle, configVars, current, keyboardVars>>
     /\ UNCHANGED <<presence, pressed, notices, m_profiles>>

-----------------------------------------------------------------------------
(* MainLoop, as far as it decides what is read and configured when. *)

Idle == stage = "loop" /\ current = NoDevice
HandsOff == Careful => \A d \in Devices : pressed[d] = {} /\ buffer[d] = <<>>

(* epoll_wait returns a device: it has events, or it has gone. *)
Poll ==
  /\ Idle
  /\ \E d \in Devices :
       /\ handle[d] = "held"
       /\ presence[d] = "out" \/ buffer[d] # <<>>
       /\ current' = d
  /\ UNCHANGED <<deviceVars, handle, configVars, m_profiles, stage, keyboardVars>>

(* The handle's event buffer begins with open(). *)
Open(D) ==
  handle' = [d \in Devices |-> IF d \in D THEN "open" ELSE handle[d]]

(* The device branch of processInotify: open the new node. *)
NodeCreated ==
  /\ Idle /\ HandsOff
  /\ \E d \in notices :
       /\ notices' = notices \ {d}
       /\ IF presence[d] # "out" /\ handle[d] = "closed"
            THEN Open({d}) /\ stage' = "configure"
            ELSE UNCHANGED <<handle, stage>>
  /\ UNCHANGED <<presence, pressed, buffer, configVars, m_profiles, current,
                 keyboardVars>>

(* A reload takes new profiles and closes every device. *)
Reload ==
  /\ Idle /\ HandsOff
  /\ m_profiles' \in ProfileLists
  /\ Destroy(Devices)
  /\ stage' = "scan"
  /\ UNCHANGED <<presence, pressed, notices, current, keyboardVars>>

(* scanDevices opens whatever is there. *)
Scan ==
  /\ stage = "scan"
  /\ Open({d \in Devices : presence[d] # "out"})
  /\ stage' = "configure"
  /\ UNCHANGED <<deviceVars, configVars, m_profiles, current, keyboardVars>>

(* Every opened device has been configured: back to the loop. *)
Configured ==
  /\ stage = "configure"
  /\ \A d \in Devices : handle[d] # "open"
  /\ stage' = "loop"
  /\ UNCHANGED <<deviceVars, handle, configVars, m_profiles, current,
                 keyboardVars>>

Daemon ==
  \/ \E d \in Devices : Configure(d)
  \/ NextEvent \/ Poll \/ NodeCreated \/ Reload \/ Scan \/ Configured

-----------------------------------------------------------------------------
(* The devices and their user. *)

(* The events reach the daemon's buffer if it has the device open. *)
Queue(d, events) ==
  buffer' =
    [buffer EXCEPT ![d] =
       CASE handle[d] = "closed" -> <<>>
         [] handle[d] # "closed" /\ Len(@ \o events) <= MaxBuffer -> @ \o events
         [] OTHER -> <<OtherEvent("DROPPED")>>]

HasRoom(d, n) == "overrun" \in Faults \/ Len(buffer[d]) + n <= MaxBuffer

Send(d, e) ==
  /\ presence[d] = "in"
  /\ Running
  /\ HasRoom(d, 1)
  /\ Queue(d, <<e>>)
  /\ UNCHANGED <<presence, notices, handle, configVars, m_profiles, stage,
                 current, keyboardVars>>

Press(d, k) ==
  /\ k \notin pressed[d]
  /\ Careful => stage = "loop"
  /\ pressed' = [pressed EXCEPT ![d] = @ \cup {k}]
  /\ Send(d, KeyEvent(k, 1))

Release(d, k) ==
  /\ k \in pressed[d]
  /\ pressed' = [pressed EXCEPT ![d] = @ \ {k}]
  /\ Send(d, KeyEvent(k, 0))

Repeat(d, k) ==
  /\ k \in pressed[d]
  /\ UNCHANGED pressed
  /\ Send(d, KeyEvent(k, 2))

(* Movement, a switch, a report's end ...; "SYN" stands for EV_MSC too.     *)
Other(d) ==
  /\ UNCHANGED pressed
  /\ \E t \in (Types[d] \ {"KEY", "REP"}) \cup {"SYN"} : Send(d, OtherEvent(t))

(* Another program sets the repeat rate: EVIOCSREP passes by a grab. *)
SetRepeat(d) ==
  /\ "repeat" \in Faults /\ "REP" \in Types[d]
  /\ UNCHANGED pressed
  /\ Send(d, OtherEvent("REP"))

(* The kernel releases what is down ... *)
Unplug(d) ==
  /\ "unplug" \in Faults /\ Running
  /\ presence[d] = "in"
  /\ HasRoom(d, Cardinality(pressed[d]))
  /\ presence' = [presence EXCEPT ![d] = "leaving"]
  /\ pressed' = [pressed EXCEPT ![d] = {}]
  /\ Queue(d, SetToSeq({KeyEvent(k, 0) : k \in pressed[d]}))
  /\ UNCHANGED <<notices, handle, configVars, m_profiles, stage, current,
                 keyboardVars>>

(* ... and fails every read from then on, whatever was queued. *)
Gone(d) ==
  /\ presence[d] = "leaving" /\ Running
  /\ presence' = [presence EXCEPT ![d] = "out"]
  /\ buffer' = [buffer EXCEPT ![d] = <<>>]
  /\ UNCHANGED <<pressed, notices, handle, configVars, m_profiles, stage,
                 current, keyboardVars>>

Plug(d) ==
  /\ presence[d] = "out" /\ handle[d] = "closed" /\ Running
  /\ presence' = [presence EXCEPT ![d] = "in"]
  /\ notices' = notices \cup {d}
  /\ UNCHANGED <<pressed, buffer, handle, configVars, m_profiles, stage,
                 current, keyboardVars>>

World ==
  \E d \in Devices :
    \/ \E k \in Keys : Press(d, k) \/ Release(d, k) \/ Repeat(d, k)
    \/ Other(d) \/ SetRepeat(d)
    \/ Unplug(d) \/ Gone(d) \/ Plug(d)

-----------------------------------------------------------------------------
(* The state after reloadConfig, before the first scan. *)
Init ==
  /\ presence \in [Devices -> {"in", "out"}]
  /\ pressed = [d \in Devices |-> {}]
  /\ buffer = [d \in Devices |-> <<>>]
  /\ notices = {}
  /\ handle = [d \in Devices |-> "closed"]
  /\ m_keyMaps = [d \in Devices |-> Identity]
  /\ m_disableUnmappedKey = [d \in Devices |-> FALSE]
  /\ m_disableNonKeyEvent = [d \in Devices |-> FALSE]
  /\ hasShadow = [d \in Devices |-> FALSE]
  /\ m_profiles \in ProfileLists
  /\ stage = "scan"
  /\ current = NoDevice
  /\ virtual = {}
  /\ m_virtualDpiFactor = 8

Next == Daemon \/ World

Spec == Init /\ [][Next]_vars

-----------------------------------------------------------------------------
(* Properties. *)

(* The values of every variable; the pointer's factor stays a power of two  *)
(* that 16 bits hold and never becomes 0, from which no action leads back.  *)
TypeOK ==
  /\ presence \in [Devices -> {"in", "leaving", "out"}]
  /\ pressed \in [Devices -> SUBSET Keys]
  /\ buffer \in [Devices -> Seq(Event)]
  /\ \A d \in Devices : Len(buffer[d]) <= MaxBuffer
  /\ notices \subseteq Devices
  /\ handle \in [Devices -> Handles]
  /\ m_keyMaps \in [Devices -> [Keys -> Targets]]
  /\ m_disableUnmappedKey \in [Devices -> BOOLEAN]
  /\ m_disableNonKeyEvent \in [Devices -> BOOLEAN]
  /\ hasShadow \in [Devices -> BOOLEAN]
  /\ m_profiles \in ProfileLists
  /\ stage \in Stages
  /\ current \in Devices \cup {NoDevice}
  /\ virtual \subseteq Keys
  /\ m_virtualDpiFactor \in {2^i : i \in 0 .. 15}

(* What a profile promises for a key: the last map for it to something      *)
(* there is, itself if there is none or the map names KEY_RESERVED.         *)
Promised(p, k) ==
  LET its == {i \in DOMAIN p.keyMaps :
                p.keyMaps[i].fromKey = k /\ p.keyMaps[i].toKey \in Targets}
      last == CHOOSE i \in its : \A j \in its : j <= i
  IN IF its = {} \/ p.keyMaps[last].toKey = Reserved THEN k
                                                    ELSE p.keyMaps[last].toKey

PromisedOf(d) == {Promised(m_profiles[d], k) : k \in pressed[d]}

(* Every event has been read. *)
Rest == Idle /\ \A d \in Devices : buffer[d] = <<>>

(* README:29-31, "disconnect any devices without any worry, everything      *)
(* still works": once everything is read, no key of the virtual keyboard is *)
(* down but for a key that is held down on a device in use.                 *)
NoStuckKey ==
  Rest => virtual \subseteq
            UNION {PromisedOf(d) : d \in {c \in Devices : handle[c] = "held"}}

(* README:18-21, a function key held on one keyboard counts for the others, *)
(* "as one unified keyboard": once everything is read, the key that each    *)
(* held key of a device in use is mapped to is down on the virtual          *)
(* keyboard.                                                                *)
HeldIsDown ==
  Rest => \A d \in Devices :
            handle[d] = "held" => PromisedOf(d) \cap Keys \subseteq virtual

(* A device in use routes its keys by the profile in force, whatever        *)
(* profile it had before and in whatever order it came and went; a shadow   *)
(* exists exactly while a device that needs one is in use.                  *)
RoutesAsPromised ==
  \A d \in Devices :
    /\ handle[d] = "held" =>
         \A k \in Keys :
           (IF m_keyMaps[d][k] = Reserved THEN k ELSE m_keyMaps[d][k])
             = Promised(m_profiles[d], k)
    /\ hasShadow[d] <=> /\ handle[d] = "held"
                        /\ Types[d] \ {"KEY", "REP"} # {}
                        /\ ~m_profiles[d].disableNonKeyEvent

(* EvdevInputDevice.cpp:310, "device only support EV_KEY so drop MSC and    *)
(* SYN event": the assertion that follows can fail for one reason only, an  *)
(* EV_REP event, the one type that calls for no shadow and is not dropped.  *)
AssertionHolds == stage = "aborted" => Head(buffer[current]).type = "REP"

(* The fingers as the events that have been read put them: a key with an    *)
(* event still queued is in the state before it.                            *)
ReadFingers(d) ==
  LET changes(k) == {i \in DOMAIN buffer[d] : /\ buffer[d][i].type = "KEY"
                                              /\ buffer[d][i].code = k
                                              /\ buffer[d][i].value # 2}
      first(k) == CHOOSE i \in changes(k) : \A j \in changes(k) : i <= j
  IN IF handle[d] = "held"
       THEN {k \in Keys : IF changes(k) = {} THEN k \in pressed[d]
                                             ELSE buffer[d][first(k)].value = 0}
       ELSE {}

Unified ==
  INSTANCE UnifiedKeyboard WITH
    fingers <- [d \in Devices |-> ReadFingers(d)],
    target <- [d \in Devices |->
                 [k \in Keys |-> IF m_keyMaps[d][k] = Reserved
                                   THEN k ELSE m_keyMaps[d][k]]],
    down <- virtual

(* README:18-21, "as one unified keyboard": as long as each virtual key has *)
(* one source, the event loop implements the unified keyboard step by step. *)
(* Whichever of the keyboards an event is read from, it moves the virtual   *)
(* key it stands for and no other, and no reload, configuring or pointer    *)
(* movement moves any.                                                      *)
ImplementsUnifiedKeyboard == Unified!Spec
=============================================================================

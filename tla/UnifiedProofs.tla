---------------------------- MODULE UnifiedProofs ----------------------------
(***************************************************************************)
(* KeyRouting implements the unified keyboard, for every set of devices,   *)
(* keys and profile lists and every buffer, while nobody types during a    *)
(* configuration and nothing fails; and what is left of it at rest.        *)
(***************************************************************************)
EXTENDS KeyRoutingProofs

(* No two keys in use have the same key of the virtual keyboard.            *)
OneSourcePerKey ==
  \A p \in ProfileLists : \A c, d \in Devices : \A j, k \in Keys :
    /\ p[c] # Unmatched /\ p[d] # Unmatched
    /\ Promised(p[c], j) \in Keys
    /\ Promised(p[c], j) = Promised(p[d], k)
    => c = d /\ j = k

(* One event moves the fingers from before to after: no key is pressed that *)
(* is down or released that is up.                                          *)
Moves(before, e, after) ==
  \/ /\ e.type = "KEY" /\ e.value = 1
     /\ e.code \notin before /\ after = before \cup {e.code}
  \/ /\ e.type = "KEY" /\ e.value = 0
     /\ e.code \in before /\ after = before \ {e.code}
  \/ (e.type # "KEY" \/ e.value = 2) /\ after = before

(* F[i] is where the fingers were after i of the queued events.             *)
Traces(F, events, fingers) ==
  /\ F[Len(events)] = fingers
  /\ \A i \in 1 .. Len(events) : Moves(F[i - 1], events[i], F[i])

(* The queued events of an open device lead to where the fingers are.       *)
BuffersTrace ==
  \A d \in Devices : handle[d] # "closed" =>
    \E F \in [0 .. Len(buffer[d]) -> SUBSET Keys] : Traces(F, buffer[d], pressed[d])

(* A closed device has nothing queued, no buffer ever overran, and an open  *)
(* device is there.                                                         *)
DevicesStay ==
  \A d \in Devices :
    /\ IF handle[d] = "closed" THEN buffer[d] = <<>> ELSE presence[d] = "in"
    /\ presence[d] # "leaving"
    /\ \A i \in 1 .. Len(buffer[d]) : buffer[d][i].type # "DROPPED"

(* Nobody types while devices are configured. *)
QuietWhileConfiguring ==
  stage \notin {"loop", "aborted"} =>
    \A d \in Devices :
      /\ pressed[d] = {}
      /\ \A i \in 1 .. Len(buffer[d]) : buffer[d][i].type # "KEY"

(* No device in use drops unmapped keys. *)
HeldPassesKeys ==
  \A d \in Devices : handle[d] = "held" => ~m_disableUnmappedKey[d]

(* The target of a key, as RoutesAsPromised sees it. *)
Target(d, k) == IF m_keyMaps[d][k] = Reserved THEN k ELSE m_keyMaps[d][k]

(* The keys of the virtual keyboard that the fingers stand for, as far as   *)
(* the events have been read.                                               *)
Image ==
  Keys \cap UNION {{Target(d, k) : k \in ReadFingers(d)} : d \in Devices}

OnlyFingersDown == virtual \subseteq Image
FingersAllDown == Image \subseteq virtual

(* The inductive invariant: what holds of queues, fingers and handles, and  *)
(* what then holds of the virtual keyboard, without and with one source per *)
(* key.                                                                     *)
Calm == BuffersTrace /\ DevicesStay /\ QuietWhileConfiguring /\ HeldPassesKeys
QuietInv == RouteInv /\ Calm /\ OnlyFingersDown
UnifiedInv == QuietInv /\ FingersAllDown

(* Nothing is typed into a configuration, no device leaves, no buffer       *)
(* overruns.                                                                *)
Undisturbed == Careful = TRUE /\ Faults \cap {"unplug", "overrun"} = {}

-----------------------------------------------------------------------------
(* Where the fingers were before the queued events. *)

Changes(events, k) ==
  {i \in DOMAIN events : /\ events[i].type = "KEY"
                         /\ events[i].code = k
                         /\ events[i].value # 2}
Origin(events, fingers) ==
  {k \in Keys : IF Changes(events, k) = {} THEN k \in fingers
                ELSE events[CHOOSE i \in Changes(events, k) :
                              \A j \in Changes(events, k) : i <= j].value = 0}

LEMMA ReadIsOrigin ==
  ASSUME NEW d \in Devices
  PROVE  /\ ReadFingers(d) =
              IF handle[d] = "held" THEN Origin(buffer[d], pressed[d]) ELSE {}
         /\ ReadFingers(d)' =
              IF handle'[d] = "held" THEN Origin(buffer'[d], pressed'[d]) ELSE {}
BY DEF ReadFingers, Origin, Changes

(* The events before a key's first change leave it alone.                   *)
LEMMA UnchangedUntil ==
  ASSUME NEW events \in Seq(Event), NEW fingers,
         NEW F \in [0 .. Len(events) -> SUBSET Keys], Traces(F, events, fingers),
         NEW k \in Keys, NEW m \in 0 .. Len(events),
         \A i \in 1 .. m : i \notin Changes(events, k)
  PROVE  k \in F[m] <=> k \in F[0]
<1> DEFINE N == Len(events)
           S == {n \in Nat : n <= m => (k \in F[n] <=> k \in F[0])}
<1>1. N \in Nat /\ m \in Nat /\ m <= N /\ DOMAIN events = 1 .. N
  OBVIOUS
<1>2. 0 \in S
  OBVIOUS
<1>3. ASSUME NEW n \in Nat, n \in S, n + 1 <= m
      PROVE  k \in F[n + 1] <=> k \in F[n]
  <2>1. n + 1 \in 1 .. m /\ n + 1 \in 1 .. N /\ (n + 1) - 1 = n
    BY <1>1, <1>3
  <2>2. n + 1 \notin Changes(events, k)
    BY <2>1
  <2>3. Moves(F[n], events[n + 1], F[n + 1])
    BY <2>1 DEF Traces
  <2>4. events[n + 1].type # "KEY" \/ events[n + 1].code # k \/ events[n + 1].value = 2
    BY <1>1, <2>1, <2>2 DEF Changes
  <2> QED
    BY <2>3, <2>4 DEF Moves
<1>4. \A n \in Nat : n \in S => n + 1 \in S
  BY <1>1, <1>3
<1> HIDE DEF S
<1>5. Nat \subseteq S
  BY <1>2, <1>4, Induction
<1> QED
  BY <1>1, <1>5 DEF S

LEMMA TraceBegins ==
  ASSUME NEW events \in Seq(Event), NEW fingers,
         NEW F \in [0 .. Len(events) -> SUBSET Keys], Traces(F, events, fingers)
  PROVE  Origin(events, fingers) = F[0]
<1> DEFINE N == Len(events)
<1>1. N \in Nat /\ DOMAIN events = 1 .. N /\ F[0] \subseteq Keys
  OBVIOUS
<1>2. ASSUME NEW k \in Keys PROVE k \in Origin(events, fingers) <=> k \in F[0]
  <2>1. CASE Changes(events, k) = {}
    <3>1. k \in F[N] <=> k \in F[0]
      BY <1>1, <2>1, UnchangedUntil
    <3> QED
      BY <2>1, <3>1 DEF Origin, Traces
  <2>2. CASE Changes(events, k) # {}
    <3> DEFINE First(i) == i \in Changes(events, k) /\ \A j \in Changes(events, k) : i <= j
               first == CHOOSE i \in Changes(events, k) :
                          \A j \in Changes(events, k) : i <= j
    <3>1. Changes(events, k) \in SUBSET Nat /\ Changes(events, k) \subseteq 1 .. N
      BY <1>1 DEF Changes
    <3>2. First(first)
      BY <2>2, <3>1, LeastMember
    <3> HIDE DEF first
    <3>3. first \in 1 .. N /\ first - 1 \in 0 .. N
      BY <1>1, <3>1, <3>2
    <3>4. \A i \in 1 .. (first - 1) : i \notin Changes(events, k)
      BY <3>1, <3>2, <3>3
    <3>5. k \in F[first - 1] <=> k \in F[0]
      BY <3>3, <3>4, UnchangedUntil
    <3>6. Moves(F[first - 1], events[first], F[first])
      BY <3>3 DEF Traces
    <3>7. events[first].type = "KEY" /\ events[first].code = k /\ events[first].value # 2
      BY <3>2 DEF Changes
    <3>8. k \in F[first - 1] <=> events[first].value = 0
      BY <3>6, <3>7 DEF Moves
    <3> QED
      BY <2>2, <3>5, <3>8 DEF Origin, first
  <2> QED
    BY <2>1, <2>2
<1> QED
  BY <1>1, <1>2 DEF Origin

-----------------------------------------------------------------------------
(* How the readings and the queue change together. *)

(* One more event is queued: the reading stays.                             *)
LEMMA TraceGrows ==
  ASSUME NEW events \in Seq(Event), NEW fingers, NEW after \in SUBSET Keys,
         NEW e \in Event, Moves(fingers, e, after),
         NEW F \in [0 .. Len(events) -> SUBSET Keys], Traces(F, events, fingers)
  PROVE  \E G \in [0 .. Len(events \o <<e>>) -> SUBSET Keys] :
           Traces(G, events \o <<e>>, after) /\ G[0] = F[0]
<1> DEFINE N == Len(events)
           more == events \o <<e>>
           G == [i \in 0 .. N + 1 |-> IF i <= N THEN F[i] ELSE after]
<1>1. N \in Nat /\ Len(more) = N + 1 /\ more[N + 1] = e
      /\ \A i \in 1 .. N : more[i] = events[i]
  OBVIOUS
<1> HIDE DEF N, more
<1>2. G \in [0 .. N + 1 -> SUBSET Keys]
  BY <1>1 DEF N
<1>3. G[0] = F[0] /\ G[N + 1] = after /\ F[N] = fingers
  BY <1>1 DEF Traces, N
<1>4. ASSUME NEW i \in 1 .. N + 1 PROVE Moves(G[i - 1], more[i], G[i])
  <2>1. CASE i = N + 1
    <3>1. i - 1 = N /\ G[N] = F[N]
      BY <1>1, <2>1
    <3> QED
      BY <1>1, <1>3, <2>1, <3>1
  <2>2. CASE i # N + 1
    <3>1. i \in 1 .. N /\ G[i] = F[i] /\ G[i - 1] = F[i - 1]
      BY <1>1, <2>2
    <3> QED
      BY <1>1, <3>1 DEF Traces, N
  <2> QED
    BY <2>1, <2>2
<1> HIDE DEF G
<1>5. Traces(G, more, after)
  BY <1>1, <1>3, <1>4 DEF Traces
<1> QED
  BY <1>1, <1>2, <1>3, <1>5 DEF more, N

(* One event is read: the reading moves by it.                              *)
LEMMA TraceShrinks ==
  ASSUME NEW events \in Seq(Event), events # <<>>, NEW fingers,
         NEW F \in [0 .. Len(events) -> SUBSET Keys], Traces(F, events, fingers)
  PROVE  \E G \in [0 .. Len(Tail(events)) -> SUBSET Keys] :
           Traces(G, Tail(events), fingers) /\ Moves(F[0], Head(events), G[0])
<1> DEFINE N == Len(events)
           rest == Tail(events)
           G == [i \in 0 .. N - 1 |-> F[i + 1]]
<1>1. /\ N \in Nat \ {0} /\ Len(rest) = N - 1 /\ Head(events) = events[1]
      /\ \A i \in 1 .. N - 1 : rest[i] = events[i + 1]
  OBVIOUS
<1> HIDE DEF N, rest
<1>2. G \in [0 .. N - 1 -> SUBSET Keys]
  BY <1>1 DEF N
<1>3. G[N - 1] = fingers
  BY <1>1 DEF Traces, N
<1>4. ASSUME NEW i \in 1 .. N - 1 PROVE Moves(G[i - 1], rest[i], G[i])
  <2>1. i + 1 \in 1 .. N /\ i - 1 \in 0 .. N - 1 /\ (i - 1) + 1 = (i + 1) - 1
    BY <1>1
  <2>2. Moves(F[(i + 1) - 1], events[i + 1], F[i + 1])
    BY <2>1 DEF Traces, N
  <2>3. G[i - 1] = F[(i + 1) - 1] /\ G[i] = F[i + 1]
    BY <1>1, <2>1
  <2> QED
    BY <1>1, <2>2, <2>3
<1>5. Moves(F[0], Head(events), G[0])
  <2>1. 1 \in 1 .. N /\ 1 - 1 = 0 /\ G[0] = F[1]
    BY <1>1
  <2> QED
    BY <1>1, <2>1 DEF Traces, N
<1> HIDE DEF G
<1>6. Traces(G, rest, fingers)
  BY <1>1, <1>3, <1>4 DEF Traces
<1> QED
  BY <1>1, <1>2, <1>5, <1>6 DEF rest, N

LEMMA ImageHas ==
  ASSUME NEW x
  PROVE  /\ x \in Image <=>
              /\ x \in Keys
              /\ \E d \in Devices : \E k \in ReadFingers(d) : x = Target(d, k)
         /\ x \in Image' <=>
              /\ x \in Keys
              /\ \E d \in Devices : \E k \in ReadFingers(d)' : x = Target(d, k)'
BY DEF Image

(* A queue without a key's event hides no finger.                           *)
LEMMA QuietOrigin ==
  ASSUME NEW events \in Seq(Event), NEW fingers \in SUBSET Keys,
         \A i \in 1 .. Len(events) : events[i].type # "KEY"
  PROVE  Origin(events, fingers) = fingers
<1>1. DOMAIN events = 1 .. Len(events)
  OBVIOUS
<1>2. \A k \in Keys : Changes(events, k) = {}
  BY <1>1 DEF Changes
<1> QED
  BY <1>2 DEF Origin

-----------------------------------------------------------------------------
(* The three kinds of steps, as the virtual keyboard sees them: nothing     *)
(* changes; nothing is held while devices and profiles change; one event is *)
(* read and the key it stands for follows.                                  *)
Stutters ==
  /\ UNCHANGED virtual
  /\ \A d \in Devices : /\ ReadFingers(d)' = ReadFingers(d)
                        /\ \A k \in Keys : Target(d, k)' = Target(d, k)

Configures ==
  /\ UNCHANGED virtual
  /\ \A d \in Devices : ReadFingers(d) = {} /\ ReadFingers(d)' = {}

Follows(d, e) ==
  /\ handle[d] = "held" /\ e.type = "KEY" /\ e.code \in Keys
  /\ UNCHANGED <<handle, m_keyMaps>>
  /\ Moves(ReadFingers(d), e, ReadFingers(d)')
  /\ \A c \in Devices \ {d} : ReadFingers(c)' = ReadFingers(c)
  /\ LET to == Target(d, e.code)
     IN virtual' = IF to \in Keys THEN Down(to, e.value) ELSE virtual

LEMMA RouteKeyFollows ==
  ASSUME TypeOK, NEW d \in Devices, ~m_disableUnmappedKey[d],
         NEW e \in Event, e.code \in Keys, RouteKey(d, e)
  PROVE  virtual' = IF Target(d, e.code) \in Keys
                      THEN Down(Target(d, e.code), e.value) ELSE virtual
<1> USE KeyRoutingAssumption
<1> DEFINE to == m_keyMaps[d][e.code]
<1>1. /\ \A k \in Keys : k \notin MouseRelActions /\ k # Reserved
      /\ Reserved \notin MouseRelActions
  OBVIOUS
<1>2. CASE to \in Keys /\ postKeyEvent(to, e.value)
  BY <1>1, <1>2 DEF Target, postKeyEvent
<1>3. CASE /\ to \in MouseRelActions
           /\ IF e.value >= 1 THEN postMouseEvent(to) ELSE UNCHANGED keyboardVars
  <2>1. UNCHANGED virtual
    BY <1>3 DEF postMouseEvent, keyboardVars
  <2>2. Target(d, e.code) = to /\ to \notin Keys
    BY <1>1, <1>3 DEF Target
  <2> QED
    BY <2>1, <2>2
<1>4. CASE /\ to = Reserved
           /\ IF m_disableUnmappedKey[d] THEN UNCHANGED keyboardVars
                                         ELSE postKeyEvent(e.code, e.value)
  BY <1>4 DEF Target, postKeyEvent
<1> QED
  BY <1>2, <1>3, <1>4 DEF RouteKey

(* Steps that touch no queue, handle or table.                              *)
LEMMA IdleStep ==
  ASSUME Calm,
         UNCHANGED <<presence, pressed, buffer, handle, m_keyMaps,
                     m_disableUnmappedKey, virtual>>,
         stage' \in {stage, "loop", "aborted"}
  PROVE  Calm' /\ Stutters
<1>1. Calm'
  BY DEF Calm, BuffersTrace, DevicesStay, QuietWhileConfiguring, HeldPassesKeys
<1>2. Stutters
  BY ReadIsOrigin DEF Stutters, Target
<1> QED
  BY <1>1, <1>2

(* A step of configuring, while nothing is held or typed: every device is   *)
(* closed, stays open or is opened.                                         *)
Quiet ==
  \A d \in Devices :
    /\ pressed[d] = {}
    /\ \A i \in 1 .. Len(buffer[d]) : buffer[d][i].type # "KEY"

LEMMA ConfigureStep ==
  ASSUME Calm, TypeOK, TypeOK', Quiet, HeldPassesKeys',
         UNCHANGED <<presence, pressed, virtual>>,
         \A d \in Devices :
           \/ handle'[d] = "closed" /\ buffer'[d] = <<>>
           \/ /\ handle[d] # "closed" \/ presence[d] # "out"
              /\ handle'[d] # "closed" /\ buffer'[d] = buffer[d]
  PROVE  Calm' /\ Configures
<1>1. ASSUME NEW d \in Devices
      PROVE  /\ pressed'[d] = {} /\ presence'[d] = presence[d]
             /\ buffer'[d] \in {<<>>, buffer[d]}
             /\ \A i \in 1 .. Len(buffer'[d]) : /\ buffer'[d][i].type # "KEY"
                                                /\ buffer'[d][i].type # "DROPPED"
  <2>1. buffer'[d] \in {<<>>, buffer[d]}
    OBVIOUS
  <2>2. CASE buffer'[d] = <<>>
    BY <2>1, <2>2 DEF Quiet
  <2>3. CASE buffer'[d] = buffer[d]
    BY <2>1, <2>3 DEF Quiet, Calm, DevicesStay
  <2> QED
    BY <2>1, <2>2, <2>3 DEF Quiet
<1>2. \A d \in Devices : buffer[d] \in Seq(Event) /\ buffer'[d] \in Seq(Event)
  BY DEF TypeOK
<1>3. Configures
  <2>1. ASSUME NEW d \in Devices
        PROVE  Origin(buffer[d], pressed[d]) = {} /\ Origin(buffer'[d], pressed'[d]) = {}
    <3>1. pressed[d] = {} /\ pressed'[d] = {} /\ {} \in SUBSET Keys
      BY <1>1 DEF Quiet
    <3> QED
      BY <3>1, <1>1, <1>2, QuietOrigin DEF Quiet
  <2> QED
    BY <2>1, ReadIsOrigin DEF Configures
<1>4. BuffersTrace'
  <2>1. ASSUME NEW d \in Devices
        PROVE  \E F \in [0 .. Len(buffer'[d]) -> SUBSET Keys] :
                 Traces(F, buffer'[d], pressed'[d])
    <3>1. ASSUME NEW i \in 1 .. Len(buffer'[d])
          PROVE  Moves({}, buffer'[d][i], {})
      BY <1>1, <3>1 DEF Moves
    <3> DEFINE F == [i \in 0 .. Len(buffer'[d]) |-> {}]
    <3>2. Len(buffer'[d]) \in Nat
      BY <1>2
    <3>3. F \in [0 .. Len(buffer'[d]) -> SUBSET Keys]
      OBVIOUS
    <3>4. F[Len(buffer'[d])] = pressed'[d]
      BY <1>1, <3>2
    <3>5. ASSUME NEW i \in 1 .. Len(buffer'[d])
          PROVE  Moves(F[i - 1], buffer'[d][i], F[i])
      BY <3>1, <3>2
    <3> HIDE DEF F
    <3> QED
      BY <3>3, <3>4, <3>5 DEF Traces
  <2> QED
    BY <2>1 DEF BuffersTrace
<1>5. DevicesStay'
  <2>1. ASSUME NEW d \in Devices
        PROVE  /\ IF handle'[d] = "closed" THEN buffer'[d] = <<>> ELSE presence'[d] = "in"
               /\ presence'[d] # "leaving"
    BY <1>1 DEF Calm, DevicesStay, TypeOK
  <2> QED
    BY <2>1, <1>1 DEF DevicesStay
<1>6. QuietWhileConfiguring'
  BY <1>1 DEF QuietWhileConfiguring
<1> QED
  BY <1>3, <1>4, <1>5, <1>6 DEF Calm

-----------------------------------------------------------------------------
(* The daemon's actions. *)

LEMMA ConfigureCalm ==
  ASSUME RouteInv, Calm, TypeOK', NEW d \in Devices, Configure(d)
  PROVE  Calm' /\ Configures
<1> USE DEF RouteInv
<1>1. /\ stage = "configure" /\ handle[d] = "open"
      /\ UNCHANGED <<presence, pressed, virtual>>
  BY DEF Configure, keyboardVars
<1>2. Quiet
  BY <1>1 DEF Calm, QuietWhileConfiguring, Quiet
<1>3. CASE Destroy({d})
  <2>1. ASSUME NEW c \in Devices
        PROVE  /\ handle'[c] = IF c = d THEN "closed" ELSE handle[c]
               /\ buffer'[c] = IF c = d THEN <<>> ELSE buffer[c]
               /\ m_disableUnmappedKey'[c] <=> c # d /\ m_disableUnmappedKey[c]
    <3>1. c \in {d} <=> c = d
      OBVIOUS
    <3> QED
      BY <1>3, <3>1 DEF Destroy
  <2>2. HeldPassesKeys'
    BY <2>1 DEF HeldPassesKeys, Calm
  <2>3. ASSUME NEW c \in Devices
        PROVE  \/ handle'[c] = "closed" /\ buffer'[c] = <<>>
               \/ /\ handle[c] # "closed" \/ presence[c] # "out"
                  /\ handle'[c] # "closed" /\ buffer'[c] = buffer[c]
    BY <2>1 DEF Calm, DevicesStay
  <2> QED
    BY <1>1, <1>2, <2>2, <2>3, ConfigureStep
<1>4. CASE /\ m_disableUnmappedKey' = [m_disableUnmappedKey EXCEPT ![d] = TRUE]
           /\ UNCHANGED <<handle, buffer>>
  <2>1. HeldPassesKeys'
    BY <1>1, <1>4 DEF HeldPassesKeys, Calm, TypeOK
  <2>2. ASSUME NEW c \in Devices
        PROVE  \/ handle'[c] = "closed" /\ buffer'[c] = <<>>
               \/ /\ handle[c] # "closed" \/ presence[c] # "out"
                  /\ handle'[c] # "closed" /\ buffer'[c] = buffer[c]
    BY <1>4 DEF Calm, DevicesStay
  <2> QED
    BY <1>1, <1>2, <2>1, <2>2, ConfigureStep
<1>5. CASE /\ handle' = [handle EXCEPT ![d] = "held"]
           /\ m_disableUnmappedKey' = [m_disableUnmappedKey EXCEPT ![d] = FALSE]
           /\ UNCHANGED buffer
  <2>1. HeldPassesKeys'
    BY <1>1, <1>5 DEF HeldPassesKeys, Calm, TypeOK
  <2>2. ASSUME NEW c \in Devices
        PROVE  \/ handle'[c] = "closed" /\ buffer'[c] = <<>>
               \/ /\ handle[c] # "closed" \/ presence[c] # "out"
                  /\ handle'[c] # "closed" /\ buffer'[c] = buffer[c]
    <3>1. handle'[c] = IF c = d THEN "held" ELSE handle[c]
      BY <1>5 DEF TypeOK
    <3> QED
      BY <3>1, <1>1, <1>5 DEF Calm, DevicesStay
  <2> QED
    BY <1>1, <1>2, <2>1, <2>2, ConfigureStep
<1> QED
  BY <1>3, <1>4, <1>5 DEF Configure

LEMMA ReloadCalm ==
  ASSUME Undisturbed, RouteInv, Calm, TypeOK', Reload
  PROVE  Calm' /\ Configures
<1>1. Quiet /\ UNCHANGED <<presence, pressed, virtual>>
  <2>1. \A d \in Devices : pressed[d] = {} /\ buffer[d] = <<>>
    BY DEF Undisturbed, Reload, HandsOff
  <2> QED
    BY <2>1 DEF Quiet, Reload, keyboardVars
<1>2. \A d \in Devices : handle'[d] = "closed" /\ buffer'[d] = <<>>
  BY DEF Reload, Destroy
<1>3. HeldPassesKeys'
  BY <1>2 DEF HeldPassesKeys
<1> QED
  BY <1>1, <1>2, <1>3, ConfigureStep DEF RouteInv

LEMMA NodeCreatedCalm ==
  ASSUME Undisturbed, RouteInv, Calm, TypeOK', NodeCreated
  PROVE  Calm' /\ Configures
<1> USE DEF RouteInv
<1>1. Quiet
  <2>1. \A d \in Devices : pressed[d] = {} /\ buffer[d] = <<>>
    BY DEF Undisturbed, NodeCreated, HandsOff
  <2> QED
    BY <2>1 DEF Quiet
<1>2. PICK d \in notices :
        IF presence[d] # "out" /\ handle[d] = "closed"
          THEN Open({d}) /\ stage' = "configure"
          ELSE UNCHANGED <<handle, stage>>
  BY DEF NodeCreated
<1>3. UNCHANGED <<presence, pressed, buffer, m_disableUnmappedKey, virtual>>
  BY DEF NodeCreated, configVars, keyboardVars
<1>4. ASSUME NEW c \in Devices
      PROVE  \/ handle'[c] = handle[c]
             \/ presence[c] # "out" /\ handle'[c] = "open"
  <2>1. CASE Open({d}) /\ presence[d] # "out"
    BY <2>1 DEF Open
  <2>2. CASE UNCHANGED handle
    BY <2>2
  <2> QED
    BY <1>2, <2>1, <2>2
<1>5. HeldPassesKeys'
  BY <1>3, <1>4 DEF HeldPassesKeys, Calm
<1>6. ASSUME NEW c \in Devices
      PROVE  \/ handle'[c] = "closed" /\ buffer'[c] = <<>>
             \/ /\ handle[c] # "closed" \/ presence[c] # "out"
                /\ handle'[c] # "closed" /\ buffer'[c] = buffer[c]
  BY <1>3, <1>4 DEF Calm, DevicesStay
<1> QED
  BY <1>1, <1>3, <1>5, <1>6, ConfigureStep

LEMMA ScanCalm ==
  ASSUME RouteInv, Calm, TypeOK', Scan
  PROVE  Calm' /\ Configures
<1> USE DEF RouteInv
<1>1. /\ stage = "scan"
      /\ Open({d \in Devices : presence[d] # "out"})
      /\ UNCHANGED <<presence, pressed, buffer, m_disableUnmappedKey, virtual>>
  BY DEF Scan, deviceVars, configVars, keyboardVars
<1>2. Quiet
  BY <1>1 DEF Calm, QuietWhileConfiguring, Quiet
<1>3. \A c \in Devices : \/ handle'[c] = handle[c]
                         \/ presence[c] # "out" /\ handle'[c] = "open"
  BY <1>1 DEF Open
<1>4. HeldPassesKeys'
  BY <1>1, <1>3 DEF HeldPassesKeys, Calm
<1>5. ASSUME NEW c \in Devices
      PROVE  \/ handle'[c] = "closed" /\ buffer'[c] = <<>>
             \/ /\ handle[c] # "closed" \/ presence[c] # "out"
                /\ handle'[c] # "closed" /\ buffer'[c] = buffer[c]
  BY <1>1, <1>3 DEF Calm, DevicesStay
<1> QED
  BY <1>1, <1>2, <1>4, <1>5, ConfigureStep

LEMMA WaitingCalm ==
  ASSUME Calm, Poll \/ Configured \/ UNCHANGED vars
  PROVE  Calm' /\ Stutters
<1>1. /\ UNCHANGED <<presence, pressed, buffer, handle, m_keyMaps,
                     m_disableUnmappedKey, virtual>>
      /\ stage' \in {stage, "loop"}
  BY DEF Poll, Configured, vars, deviceVars, configVars, keyboardVars
<1> QED
  BY <1>1, IdleStep

(* Reading is where the virtual keyboard moves.  No device has left and no  *)
(* buffer overran, so no handle is destroyed here.                          *)
LEMMA NextEventCalm ==
  ASSUME RouteInv, Calm, TypeOK', NextEvent
  PROVE  /\ Calm'
         /\ Stutters \/ \E d \in Devices, e \in Event : Follows(d, e)
<1> USE DEF RouteInv
<1> DEFINE d == current
           e == Head(buffer[d])
           rest == Tail(buffer[d])
<1>1. /\ stage = "loop" /\ d \in Devices /\ handle[d] = "held"
      /\ UNCHANGED <<presence, pressed, notices, m_profiles>>
  BY DEF NextEvent, TypeOK, ReadsHeldDevice
<1>2. /\ presence[d] = "in" /\ ~m_disableUnmappedKey[d] /\ buffer[d] \in Seq(Event)
      /\ \A i \in 1 .. Len(buffer[d]) : buffer[d][i].type # "DROPPED"
  BY <1>1 DEF Calm, DevicesStay, HeldPassesKeys, TypeOK
<1>3. ASSUME buffer[d] # <<>>
      PROVE  /\ e \in Event /\ rest \in Seq(Event) /\ e.type # "DROPPED"
             /\ Len(rest) = Len(buffer[d]) - 1
             /\ \A i \in 1 .. Len(rest) : /\ i + 1 \in 1 .. Len(buffer[d])
                                          /\ rest[i] = buffer[d][i + 1]
             /\ e.type = "KEY" => e.code \in Keys
  <2>1. Len(buffer[d]) \in Nat \ {0} /\ e = buffer[d][1] /\ 1 \in 1 .. Len(buffer[d])
    BY <1>2, <1>3
  <2> QED
    BY <1>1, <1>2, <1>3, <2>1 DEF BuffersFit
<1>4. CASE \/ current' = NoDevice /\ UNCHANGED <<buffer, handle, configVars, stage, keyboardVars>>
           \/ /\ stage' = "aborted"
              /\ UNCHANGED <<buffer, handle, configVars, current, keyboardVars>>
  <2>1. /\ UNCHANGED <<presence, pressed, buffer, handle, m_keyMaps,
                       m_disableUnmappedKey, virtual>>
        /\ stage' \in {stage, "aborted"}
    BY <1>1, <1>4 DEF configVars, keyboardVars
  <2> QED
    BY <2>1, IdleStep
<1>5. CASE /\ buffer[d] # <<>>
           /\ buffer' = [buffer EXCEPT ![d] = rest]
           /\ IF e.type = "KEY" THEN RouteKey(d, e) ELSE UNCHANGED keyboardVars
           /\ UNCHANGED <<handle, configVars, current, stage>>
  <2>1. /\ buffer'[d] = rest
        /\ \A c \in Devices : c # d => buffer'[c] = buffer[c]
        /\ UNCHANGED <<m_keyMaps, m_disableUnmappedKey>>
    BY <1>1, <1>3, <1>5 DEF TypeOK, configVars
  <2> HIDE DEF rest, e
  <2>2. PICK F \in [0 .. Len(buffer[d]) -> SUBSET Keys] :
          Traces(F, buffer[d], pressed[d])
    BY <1>1 DEF Calm, BuffersTrace
  <2>3. PICK G \in [0 .. Len(rest) -> SUBSET Keys] :
          Traces(G, rest, pressed[d]) /\ Moves(F[0], e, G[0])
    BY <1>2, <1>5, <2>2, TraceShrinks DEF rest, e
  <2>4. ReadFingers(d) = F[0] /\ ReadFingers(d)' = G[0]
    <3>1. Origin(buffer[d], pressed[d]) = F[0]
      BY <1>2, <2>2, TraceBegins
    <3>2. Origin(rest, pressed[d]) = G[0]
      BY <1>3, <1>5, <2>3, TraceBegins
    <3> QED
      BY <1>1, <1>5, <2>1, <3>1, <3>2, ReadIsOrigin
  <2>5. \A c \in Devices \ {d} : ReadFingers(c)' = ReadFingers(c)
    BY <1>1, <1>5, <2>1, ReadIsOrigin
  <2>6. Calm'
    <3>1. BuffersTrace'
      BY <1>1, <1>5, <2>1, <2>3 DEF Calm, BuffersTrace
    <3>2. \A i \in 1 .. Len(rest) : rest[i].type # "DROPPED"
      BY <1>2, <1>3, <1>5
    <3>3. DevicesStay'
      <4>1. ASSUME NEW c \in Devices
            PROVE  /\ IF handle'[c] = "closed" THEN buffer'[c] = <<>>
                                               ELSE presence'[c] = "in"
                   /\ presence'[c] # "leaving"
                   /\ \A i \in 1 .. Len(buffer'[c]) : buffer'[c][i].type # "DROPPED"
        <5>1. CASE c = d
          BY <5>1, <1>1, <1>2, <1>5, <2>1, <3>2
        <5>2. CASE c # d
          BY <5>2, <1>1, <1>5, <2>1 DEF Calm, DevicesStay
        <5> QED
          BY <5>1, <5>2
      <4> QED
        BY <4>1 DEF DevicesStay
    <3>4. QuietWhileConfiguring' /\ HeldPassesKeys'
      BY <1>1, <1>5, <2>1 DEF Calm, QuietWhileConfiguring, HeldPassesKeys
    <3> QED
      BY <3>1, <3>3, <3>4 DEF Calm
  <2>7. CASE e.type = "KEY"
    <3>1. virtual' = IF Target(d, e.code) \in Keys
                       THEN Down(Target(d, e.code), e.value) ELSE virtual
      BY <1>1, <1>2, <1>3, <1>5, <2>7, RouteKeyFollows
    <3>2. Follows(d, e)
      BY <1>1, <1>3, <1>5, <2>1, <2>3, <2>4, <2>5, <2>7, <3>1 DEF Follows
    <3> QED
      BY <1>1, <1>3, <1>5, <2>6, <3>2
  <2>8. CASE e.type # "KEY"
    <3>1. ReadFingers(d)' = ReadFingers(d)
      BY <2>3, <2>4, <2>8 DEF Moves
    <3>2. Stutters
      BY <1>5, <2>1, <2>5, <2>8, <3>1 DEF Stutters, Target, keyboardVars
    <3> QED
      BY <2>6, <3>2
  <2> QED
    BY <2>7, <2>8
<1>6. ~(presence[d] = "out" \/ (buffer[d] # <<>> /\ e.type = "DROPPED"))
  BY <1>2, <1>3
<1> QED
  BY <1>4, <1>5, <1>6 DEF NextEvent

-----------------------------------------------------------------------------
(* The devices and their user. *)

(* What is sent is queued behind the rest, and read later.                  *)
LEMMA SendCalm ==
  ASSUME Undisturbed, RouteInv, Calm, TypeOK', NEW d \in Devices, NEW e \in Event,
         Send(d, e), e.type # "DROPPED",
         NEW after \in SUBSET Keys, pressed' = [pressed EXCEPT ![d] = after],
         Moves(pressed[d], e, after),
         stage \notin {"loop", "aborted"} => e.type # "KEY"
  PROVE  Calm' /\ Stutters
<1> USE DEF RouteInv
<1> DEFINE more == IF handle[d] = "closed" THEN <<>> ELSE buffer[d] \o <<e>>
<1>1. /\ presence[d] = "in"
      /\ UNCHANGED <<presence, handle, m_keyMaps, m_disableUnmappedKey, stage, virtual>>
  BY DEF Send, configVars, keyboardVars
<1>2. /\ buffer[d] \in Seq(Event)
      /\ \A i \in 1 .. Len(buffer[d]) : buffer[d][i].type # "DROPPED"
  BY DEF TypeOK, Calm, DevicesStay
<1>3. buffer'[d] = more /\ \A c \in Devices : c # d => buffer'[c] = buffer[c]
  <2> DEFINE new == CASE handle[d] = "closed" -> <<>>
                      [] handle[d] # "closed" /\ Len(buffer[d] \o <<e>>) <= MaxBuffer
                           -> buffer[d] \o <<e>>
                      [] OTHER -> <<OtherEvent("DROPPED")>>
  <2>1. buffer' = [buffer EXCEPT ![d] = new]
    BY DEF Send, Queue
  <2>2. Len(buffer[d] \o <<e>>) <= MaxBuffer
    BY <1>2 DEF Send, HasRoom, Undisturbed
  <2>3. new = more
    BY <2>2
  <2> HIDE DEF new, more
  <2> QED
    BY <2>1, <2>3 DEF TypeOK
<1>4. pressed'[d] = after /\ \A c \in Devices : c # d => pressed'[c] = pressed[c]
  BY DEF TypeOK
<1>5. ASSUME handle[d] # "closed"
      PROVE  /\ \E G \in [0 .. Len(buffer'[d]) -> SUBSET Keys] :
                  Traces(G, buffer'[d], after)
             /\ Origin(buffer'[d], after) = Origin(buffer[d], pressed[d])
             /\ \A i \in 1 .. Len(buffer'[d]) :
                  buffer'[d][i] = IF i <= Len(buffer[d]) THEN buffer[d][i] ELSE e
  <2>1. PICK F \in [0 .. Len(buffer[d]) -> SUBSET Keys] :
          Traces(F, buffer[d], pressed[d])
    BY <1>5 DEF Calm, BuffersTrace
  <2>2. PICK G \in [0 .. Len(buffer[d] \o <<e>>) -> SUBSET Keys] :
          Traces(G, buffer[d] \o <<e>>, after) /\ G[0] = F[0]
    BY <1>2, <2>1, TraceGrows
  <2>3. Origin(buffer[d], pressed[d]) = F[0]
    BY <1>2, <2>1, TraceBegins
  <2>4. Origin(buffer[d] \o <<e>>, after) = G[0]
    <3>1. ASSUME NEW events, events = buffer[d] \o <<e>>
          PROVE  Origin(events, after) = G[0]
      <4>1. events \in Seq(Event)
        BY <1>2, <3>1
      <4> QED
        BY <2>2, <3>1, <4>1, TraceBegins
    <3> QED
      BY <3>1
  <2>5. \A i \in 1 .. Len(buffer[d] \o <<e>>) :
          (buffer[d] \o <<e>>)[i] = IF i <= Len(buffer[d]) THEN buffer[d][i] ELSE e
    BY <1>2
  <2> QED
    BY <1>3, <1>5, <2>2, <2>3, <2>4, <2>5
<1>6. Stutters
  <2>1. ReadFingers(d)' = ReadFingers(d)
    BY <1>1, <1>4, <1>5, ReadIsOrigin
  <2>2. \A c \in Devices : c # d => ReadFingers(c)' = ReadFingers(c)
    BY <1>1, <1>3, <1>4, ReadIsOrigin
  <2> QED
    BY <1>1, <2>1, <2>2 DEF Stutters, Target
<1>7. BuffersTrace'
  BY <1>1, <1>3, <1>4, <1>5 DEF Calm, BuffersTrace
<1>8. DevicesStay'
  <2>1. ASSUME NEW c \in Devices
        PROVE  /\ IF handle'[c] = "closed" THEN buffer'[c] = <<>>
                                           ELSE presence'[c] = "in"
               /\ presence'[c] # "leaving"
               /\ \A i \in 1 .. Len(buffer'[c]) : buffer'[c][i].type # "DROPPED"
    <3>1. CASE c # d
      BY <3>1, <1>1, <1>3 DEF Calm, DevicesStay
    <3>2. CASE c = d /\ handle[d] = "closed"
      BY <3>2, <1>1, <1>3
    <3>3. CASE c = d /\ handle[d] # "closed"
      <4>1. ASSUME NEW i \in 1 .. Len(buffer'[d]) PROVE buffer'[d][i].type # "DROPPED"
        <5>1. CASE i <= Len(buffer[d])
          <6>1. i \in 1 .. Len(buffer[d])
            BY <5>1, <1>2
          <6> QED
            BY <5>1, <6>1, <1>2, <1>5, <3>3
        <5>2. CASE ~(i <= Len(buffer[d]))
          BY <5>2, <1>5, <3>3
        <5> QED
          BY <5>1, <5>2
      <4> QED
        BY <3>3, <4>1, <1>1
    <3> QED
      BY <3>1, <3>2, <3>3
  <2> QED
    BY <2>1 DEF DevicesStay
<1>9. QuietWhileConfiguring'
  <2>1. ASSUME stage \notin {"loop", "aborted"}, NEW c \in Devices
        PROVE  /\ pressed'[c] = {}
               /\ \A i \in 1 .. Len(buffer'[c]) : buffer'[c][i].type # "KEY"
    <3>1. /\ \A b \in Devices : pressed[b] = {}
          /\ \A b \in Devices : \A i \in 1 .. Len(buffer[b]) : buffer[b][i].type # "KEY"
          /\ e.type # "KEY"
      BY <2>1 DEF Calm, QuietWhileConfiguring
    <3>2. CASE c # d
      BY <3>1, <3>2, <1>3, <1>4
    <3>3. CASE c = d
      <4>1. pressed'[d] = {}
        BY <3>1, <1>4 DEF Moves
      <4>2. ASSUME NEW i \in 1 .. Len(buffer'[d]) PROVE buffer'[d][i].type # "KEY"
        <5>1. CASE handle[d] = "closed"
          BY <5>1, <1>3
        <5>2. CASE handle[d] # "closed" /\ i <= Len(buffer[d])
          <6>1. i \in 1 .. Len(buffer[d])
            BY <5>2, <1>2
          <6> QED
            BY <5>2, <6>1, <1>5, <3>1
        <5>3. CASE handle[d] # "closed" /\ ~(i <= Len(buffer[d]))
          BY <5>3, <1>5, <3>1
        <5> QED
          BY <5>1, <5>2, <5>3
      <4> QED
        BY <3>3, <4>1, <4>2
    <3> QED
      BY <3>2, <3>3
  <2> QED
    BY <1>1, <2>1 DEF QuietWhileConfiguring
<1>10. HeldPassesKeys'
  BY <1>1 DEF Calm, HeldPassesKeys
<1> QED
  BY <1>6, <1>7, <1>8, <1>9, <1>10 DEF Calm

LEMMA WorldCalm ==
  ASSUME Undisturbed, RouteInv, Calm, TypeOK', World
  PROVE  Calm' /\ Stutters
<1> USE KeyRoutingAssumption DEF RouteInv
<1>1. PICK d \in Devices :
        \/ \E k \in Keys : Press(d, k) \/ Release(d, k) \/ Repeat(d, k)
        \/ Other(d) \/ SetRepeat(d)
        \/ Unplug(d) \/ Gone(d) \/ Plug(d)
  BY DEF World
<1>2. pressed[d] \subseteq Keys /\ pressed = [pressed EXCEPT ![d] = pressed[d]]
  BY DEF TypeOK
<1>3. ASSUME NEW k \in Keys, Press(d, k) \/ Release(d, k) \/ Repeat(d, k)
      PROVE  Calm' /\ Stutters
  <2>1. \A v \in 0 .. 2 : /\ KeyEvent(k, v) \in Event
                          /\ KeyEvent(k, v).type = "KEY"
                          /\ KeyEvent(k, v).code = k /\ KeyEvent(k, v).value = v
    BY EventType DEF KeyEvent
  <2>2. stage \in {"loop", "aborted"}
    BY <1>3 DEF Press, Release, Repeat, Undisturbed, Calm, QuietWhileConfiguring
  <2>3. ASSUME NEW v \in 0 .. 2, Send(d, KeyEvent(k, v)),
               NEW after \in SUBSET Keys, pressed' = [pressed EXCEPT ![d] = after],
               Moves(pressed[d], KeyEvent(k, v), after)
        PROVE  Calm' /\ Stutters
    <3>1. PICK e \in Event : e = KeyEvent(k, v) /\ e.type = "KEY"
      BY <2>1
    <3>2. /\ Send(d, e) /\ Moves(pressed[d], e, after) /\ e.type # "DROPPED"
          /\ stage \notin {"loop", "aborted"} => e.type # "KEY"
      BY <2>2, <2>3, <3>1
    <3> QED
      BY <2>3, <3>2, SendCalm
  <2>4. CASE Press(d, k)
    <3> DEFINE after == pressed[d] \cup {k}
    <3>1. Moves(pressed[d], KeyEvent(k, 1), after)
      BY <2>1, <2>4 DEF Press, Moves
    <3>2. pressed' = [pressed EXCEPT ![d] = after] /\ Send(d, KeyEvent(k, 1))
      BY <2>4 DEF Press
    <3>3. after \in SUBSET Keys /\ 1 \in 0 .. 2 /\ 0 \in 0 .. 2
      BY <1>2
    <3> HIDE DEF after
    <3> QED
      BY <2>3, <3>1, <3>2, <3>3
  <2>5. CASE Release(d, k)
    <3> DEFINE after == pressed[d] \ {k}
    <3>1. Moves(pressed[d], KeyEvent(k, 0), after)
      BY <2>1, <2>5 DEF Release, Moves
    <3>2. pressed' = [pressed EXCEPT ![d] = after] /\ Send(d, KeyEvent(k, 0))
      BY <2>5 DEF Release
    <3>3. after \in SUBSET Keys /\ 1 \in 0 .. 2 /\ 0 \in 0 .. 2
      BY <1>2
    <3> HIDE DEF after
    <3> QED
      BY <2>3, <3>1, <3>2, <3>3
  <2>6. CASE Repeat(d, k)
    <3>1. Moves(pressed[d], KeyEvent(k, 2), pressed[d])
      BY <2>1 DEF Moves
    <3>2. pressed' = [pressed EXCEPT ![d] = pressed[d]] /\ Send(d, KeyEvent(k, 2))
      BY <1>2, <2>6 DEF Repeat
    <3>3. pressed[d] \in SUBSET Keys /\ 2 \in 0 .. 2
      BY <1>2
    <3> QED
      BY <2>3, <3>1, <3>2, <3>3
  <2> QED
    BY <1>3, <2>4, <2>5, <2>6
<1>4. ASSUME Other(d) \/ SetRepeat(d) PROVE Calm' /\ Stutters
  <2>1. PICK t \in (Types[d] \ {"KEY"}) \cup {"SYN"} : Send(d, OtherEvent(t))
    <3>1. CASE Other(d)
      BY <3>1 DEF Other
    <3>2. CASE SetRepeat(d)
      BY <3>2 DEF SetRepeat
    <3> QED
      BY <1>4, <3>1, <3>2
  <2>2. /\ OtherEvent(t) \in Event /\ OtherEvent(t).type # "DROPPED"
        /\ OtherEvent(t).type # "KEY"
    BY EventType DEF OtherEvent, EventTypes
  <2>3. Moves(pressed[d], OtherEvent(t), pressed[d])
    BY <2>2 DEF Moves
  <2>4. pressed' = [pressed EXCEPT ![d] = pressed[d]]
    BY <1>2, <1>4 DEF Other, SetRepeat
  <2> QED
    BY <1>2, <2>1, <2>2, <2>3, <2>4, SendCalm
<1>5. ASSUME Plug(d) PROVE Calm' /\ Stutters
  <2>1. /\ handle[d] = "closed" /\ presence' = [presence EXCEPT ![d] = "in"]
        /\ UNCHANGED <<pressed, buffer, handle, m_keyMaps, m_disableUnmappedKey,
                       stage, virtual>>
    BY <1>5 DEF Plug, configVars, keyboardVars
  <2>2. Stutters
    BY <2>1, ReadIsOrigin DEF Stutters, Target
  <2>3. DevicesStay'
    BY <2>1 DEF Calm, DevicesStay, TypeOK
  <2>4. BuffersTrace' /\ QuietWhileConfiguring' /\ HeldPassesKeys'
    BY <2>1 DEF Calm, BuffersTrace, QuietWhileConfiguring, HeldPassesKeys
  <2> QED
    BY <2>2, <2>3, <2>4 DEF Calm
<1>6. ~Unplug(d) /\ ~Gone(d)
  BY DEF Undisturbed, Unplug, Gone, Calm, DevicesStay
<1> QED
  BY <1>1, <1>3, <1>4, <1>5, <1>6

-----------------------------------------------------------------------------
(* The virtual keyboard. *)

LEMMA NextCalm ==
  ASSUME Undisturbed, RouteInv, Calm, [Next]_vars
  PROVE  /\ RouteInv' /\ Calm'
         /\ \/ Stutters \/ Configures
            \/ \E d \in Devices, e \in Event : Follows(d, e)
<1>1. RouteInv' /\ TypeOK'
  BY NextRoutes DEF RouteInv
<1>2. CASE \E d \in Devices : Configure(d)
  BY <1>1, <1>2, ConfigureCalm
<1>3. CASE NextEvent
  BY <1>1, <1>3, NextEventCalm
<1>4. CASE NodeCreated \/ Reload \/ Scan
  BY <1>1, <1>4, NodeCreatedCalm, ReloadCalm, ScanCalm
<1>5. CASE Poll \/ Configured \/ UNCHANGED vars
  BY <1>1, <1>5, WaitingCalm
<1>6. CASE World
  BY <1>1, <1>6, WorldCalm
<1> QED
  BY <1>2, <1>3, <1>4, <1>5, <1>6 DEF Next, Daemon

(* A key that is read as held is on a device in use. *)
LEMMA ReadOnHeld ==
  ASSUME TypeOK, NEW d \in Devices, NEW k \in ReadFingers(d)
  PROVE  handle[d] = "held" /\ k \in Keys
BY DEF ReadFingers

LEMMA HeldTarget ==
  ASSUME RouteInv, NEW d \in Devices, handle[d] = "held", NEW k \in Keys
  PROVE  /\ Target(d, k) = Promised(m_profiles[d], k)
         /\ m_profiles \in ProfileLists /\ m_profiles[d] # Unmatched
BY RouteInvRoutes DEF RoutesAsPromised, Target, RouteInv, TypeOK, ConfiguredByProfile

LEMMA SourceIsUnique ==
  ASSUME RouteInv, OneSourcePerKey,
         NEW c \in Devices, NEW j \in Keys, handle[c] = "held",
         NEW d \in Devices, NEW k \in Keys, handle[d] = "held",
         Target(c, j) \in Keys, Target(c, j) = Target(d, k)
  PROVE  c = d /\ j = k
BY HeldTarget DEF OneSourcePerKey

(* A stutter or a configuration leaves the image and the keyboard alone.    *)
LEMMA ImageStays ==
  ASSUME TypeOK, Stutters \/ Configures
  PROVE  Image' = Image /\ virtual' = virtual
<1>1. ASSUME NEW x PROVE x \in Image' <=> x \in Image
  <2>1. CASE Stutters
    BY <2>1, ImageHas, ReadOnHeld DEF Stutters
  <2>2. CASE Configures
    BY <2>2, ImageHas DEF Configures
  <2> QED
    BY <2>1, <2>2
<1>2. virtual' = virtual
  BY DEF Stutters, Configures
<1> QED
  BY <1>1, <1>2

(* What is down after an event has been read was down before, but for the   *)
(* key pressed; and it is not the key released.                             *)
LEMMA OnlyFingersStay ==
  ASSUME TypeOK, OnlyFingersDown,
         NEW d \in Devices, NEW e \in Event, Follows(d, e)
  PROVE  OnlyFingersDown'
<1> DEFINE to == Target(d, e.code)
<1>1. /\ e.value \in {0, 1, 2} /\ e.code \in Keys /\ virtual \subseteq Keys
      /\ Moves(ReadFingers(d), e, ReadFingers(d)')
      /\ e.type = "KEY"
  BY DEF Follows, TypeOK, Event
<1>2. \A c \in Devices : c # d => ReadFingers(c)' = ReadFingers(c)
  BY DEF Follows
<1>3. \A c, k : Target(c, k)' = Target(c, k)
  BY DEF Follows, Target
<1>4. virtual' = IF to \in Keys THEN Down(to, e.value) ELSE virtual
  BY DEF Follows
<1>5. ASSUME NEW x \in virtual' PROVE x \in Image'
  <2>1. CASE x \in virtual
    <3>1. PICK c \in Devices : \E k \in ReadFingers(c) : x = Target(c, k)
      BY <2>1, ImageHas DEF OnlyFingersDown
    <3>2. PICK k \in ReadFingers(c) : x = Target(c, k)
      BY <3>1
    <3>3. k \in ReadFingers(c)'
      <4>1. CASE e.value = 0
        <5>1. x # to
          BY <1>1, <1>4, <1>5, <2>1, <4>1 DEF Down
        <5>2. ReadFingers(d)' = ReadFingers(d) \ {e.code}
          BY <1>1, <4>1 DEF Moves
        <5> QED
          BY <1>2, <3>2, <5>1, <5>2
      <4>2. CASE e.value # 0
        BY <1>1, <1>2, <3>2, <4>2 DEF Moves
      <4> QED
        BY <4>1, <4>2
    <3> QED
      BY <1>1, <1>3, <2>1, <3>2, <3>3, ImageHas
  <2>2. CASE x \notin virtual
    <3>1. x = to /\ to \in Keys /\ e.value = 1
      BY <1>1, <1>4, <1>5, <2>2 DEF Down
    <3>2. e.code \in ReadFingers(d)'
      BY <1>1, <3>1 DEF Moves
    <3> QED
      BY <1>3, <3>1, <3>2, ImageHas
  <2> QED
    BY <2>1, <2>2
<1> QED
  BY <1>5 DEF OnlyFingersDown

(* With one source per key, the key released has no other finger on it.     *)
LEMMA FingersStayDown ==
  ASSUME RouteInv, OneSourcePerKey, FingersAllDown,
         NEW d \in Devices, NEW e \in Event, Follows(d, e)
  PROVE  FingersAllDown'
<1> DEFINE to == Target(d, e.code)
<1>1. /\ e.value \in {0, 1, 2} /\ e.code \in Keys /\ e.type = "KEY"
      /\ handle[d] = "held" /\ handle' = handle
      /\ Moves(ReadFingers(d), e, ReadFingers(d)')
  BY DEF Follows, Event
<1>2. \A c \in Devices : c # d => ReadFingers(c)' = ReadFingers(c)
  BY DEF Follows
<1>3. \A c, k : Target(c, k)' = Target(c, k)
  BY DEF Follows, Target
<1>4. virtual' = IF to \in Keys THEN Down(to, e.value) ELSE virtual
  BY DEF Follows
<1>5. ASSUME NEW x \in Image' PROVE x \in virtual'
  <2>1. PICK c \in Devices : \E k \in ReadFingers(c)' : x = Target(c, k)
    BY <1>3, ImageHas
  <2>2. PICK k \in ReadFingers(c)' : x = Target(c, k)
    BY <2>1
  <2>3. x \in Keys
    BY ImageHas
  <2>4. CASE k \in ReadFingers(c)
    <3>1. x \in virtual
      BY <2>2, <2>3, <2>4, ImageHas DEF FingersAllDown
    <3>2. ASSUME e.value = 0 PROVE x # to
      <4>1. ASSUME x = to PROVE FALSE
        <5>1. handle[c] = "held" /\ k \in Keys
          BY <2>4, ReadOnHeld DEF RouteInv
        <5>2. c = d /\ k = e.code
          BY <1>1, <2>2, <2>3, <4>1, <5>1, SourceIsUnique
        <5>3. e.code \notin ReadFingers(d)'
          BY <1>1, <3>2 DEF Moves
        <5> QED
          BY <2>2, <5>2, <5>3
      <4> QED
        BY <4>1
    <3> QED
      BY <1>1, <1>4, <3>1, <3>2 DEF Down
  <2>5. CASE k \notin ReadFingers(c)
    <3>1. c = d /\ k = e.code /\ e.value = 1
      BY <1>1, <1>2, <2>2, <2>5 DEF Moves
    <3> QED
      BY <1>4, <2>2, <2>3, <3>1 DEF Down
  <2> QED
    BY <2>4, <2>5
<1> QED
  BY <1>5 DEF FingersAllDown

-----------------------------------------------------------------------------
(* The theorems. *)

LEMMA InitUnified == Init => UnifiedInv
<1> SUFFICES ASSUME Init PROVE UnifiedInv
  OBVIOUS
<1>1. RouteInv
  BY InitRouteInv
<1>2. Calm
  BY DEF Init, Calm, BuffersTrace, DevicesStay, QuietWhileConfiguring, HeldPassesKeys
<1>3. \A d \in Devices : ReadFingers(d) = {}
  BY ReadIsOrigin DEF Init
<1>4. Image = {} /\ virtual = {}
  BY <1>3, ImageHas DEF Init
<1> QED
  BY <1>1, <1>2, <1>4 DEF UnifiedInv, QuietInv, OnlyFingersDown, FingersAllDown

LEMMA NextQuiet ==
  ASSUME Undisturbed, QuietInv, [Next]_vars
  PROVE  QuietInv'
<1>1. /\ RouteInv' /\ Calm'
      /\ \/ Stutters \/ Configures
         \/ \E d \in Devices, e \in Event : Follows(d, e)
  BY NextCalm DEF QuietInv
<1>2. OnlyFingersDown'
  BY <1>1, ImageStays, OnlyFingersStay DEF QuietInv, RouteInv, OnlyFingersDown
<1> QED
  BY <1>1, <1>2 DEF QuietInv

LEMMA NextUnified ==
  ASSUME Undisturbed, OneSourcePerKey, UnifiedInv, [Next]_vars
  PROVE  UnifiedInv'
<1>1. \/ Stutters \/ Configures
      \/ \E d \in Devices, e \in Event : Follows(d, e)
  BY NextCalm DEF UnifiedInv, QuietInv
<1>2. FingersAllDown'
  BY <1>1, ImageStays, FingersStayDown DEF UnifiedInv, QuietInv, RouteInv, FingersAllDown
<1> QED
  BY <1>2, NextQuiet DEF UnifiedInv

(* The fingers account for what is down on the virtual keyboard, however    *)
(* the daemon's reading, configuring and reloading interleave with typing.  *)
THEOREM QuietInvHolds == ASSUME Undisturbed PROVE Spec => []QuietInv
<1>1. Init => QuietInv
  BY InitUnified DEF UnifiedInv
<1>2. QuietInv /\ [Next]_vars => QuietInv'
  BY NextQuiet
<1> QED
  BY <1>1, <1>2, PTL DEF Spec

(* With one source per key, they account for exactly that. *)
THEOREM UnifiedInvHolds ==
  ASSUME Undisturbed, OneSourcePerKey
  PROVE  Spec => []UnifiedInv
<1>1. UnifiedInv /\ [Next]_vars => UnifiedInv'
  BY NextUnified
<1> QED
  BY InitUnified, <1>1, PTL DEF Spec

(* At rest the reading is where the fingers are. *)
LEMMA RestReads ==
  ASSUME TypeOK, Rest, NEW d \in Devices
  PROVE  ReadFingers(d) = IF handle[d] = "held" THEN pressed[d] ELSE {}
<1>1. buffer[d] \in Seq(Event) /\ Len(buffer[d]) = 0
  BY DEF Rest, TypeOK
<1>2. pressed[d] \in SUBSET Keys
  BY DEF TypeOK
<1>3. Origin(buffer[d], pressed[d]) = pressed[d]
  BY <1>1, <1>2, QuietOrigin
<1> QED
  BY <1>3, ReadIsOrigin

(* No key of the virtual keyboard is left down by a device whose events     *)
(* have been read, whatever profiles the keyboards use and however many     *)
(* keys share a target (README:29-31).                                      *)
THEOREM NoStuckKeyHolds == ASSUME Undisturbed PROVE Spec => []NoStuckKey
<1>1. QuietInv => NoStuckKey
  <2> SUFFICES ASSUME QuietInv, Rest, NEW x \in virtual
               PROVE  \E d \in Devices : handle[d] = "held" /\ x \in PromisedOf(d)
    BY DEF NoStuckKey
  <2>1. TypeOK /\ RouteInv /\ x \in Image
    BY DEF QuietInv, RouteInv, OnlyFingersDown
  <2>2. PICK d \in Devices : \E k \in ReadFingers(d) : x = Target(d, k)
    BY <2>1, ImageHas
  <2>3. PICK k \in ReadFingers(d) : x = Target(d, k)
    BY <2>2
  <2>4. handle[d] = "held" /\ k \in Keys /\ k \in pressed[d]
    BY <2>1, <2>3, ReadOnHeld, RestReads
  <2> QED
    BY <2>1, <2>3, <2>4, HeldTarget DEF PromisedOf
<1> QED
  BY QuietInvHolds, <1>1, PTL

(* What is held on any device in use is down on the virtual keyboard once   *)
(* everything is read (README:18-21).                                       *)
THEOREM HeldIsDownHolds ==
  ASSUME Undisturbed, OneSourcePerKey
  PROVE  Spec => []HeldIsDown
<1>1. UnifiedInv => HeldIsDown
  <2> SUFFICES ASSUME UnifiedInv, Rest, NEW d \in Devices, handle[d] = "held",
                      NEW x \in PromisedOf(d), x \in Keys
               PROVE  x \in virtual
    BY DEF HeldIsDown
  <2>1. TypeOK /\ RouteInv /\ FingersAllDown
    BY DEF UnifiedInv, QuietInv, RouteInv
  <2>2. PICK k \in pressed[d] : x = Promised(m_profiles[d], k)
    BY DEF PromisedOf
  <2>3. k \in Keys /\ k \in ReadFingers(d)
    BY <2>1, RestReads DEF TypeOK
  <2>4. x = Target(d, k)
    BY <2>1, <2>2, <2>3, HeldTarget
  <2> QED
    BY <2>1, <2>3, <2>4, ImageHas DEF FingersAllDown
<1> QED
  BY UnifiedInvHolds, <1>1, PTL

-----------------------------------------------------------------------------
(* The refinement. *)

(* What the refinement puts for fingers and target. *)
Reads == [d \in Devices |-> ReadFingers(d)]
TargetTable ==
  [d \in Devices |->
     [k \in Keys |-> IF m_keyMaps[d][k] = Reserved THEN k ELSE m_keyMaps[d][k]]]

LEMMA TargetTableAt ==
  /\ \A d \in Devices : \A k \in Keys : TargetTable[d][k] = Target(d, k)
  /\ \A d \in Devices : \A k \in Keys : TargetTable'[d][k] = Target(d, k)'
BY DEF TargetTable, Target

LEMMA UnifiedImage ==
  /\ TypeOK => Unified!Image = Image
  /\ TypeOK' => Unified!Image' = Image'
<1>1. ASSUME TypeOK PROVE Unified!Image = Image
  <2>1. Unified!Image = Keys \cap UNION {{TargetTable[d][k] : k \in Reads[d]} : d \in Devices}
    BY DEF Unified!Image, TargetTable, Reads
  <2>2. \A d \in Devices : Reads[d] = ReadFingers(d) /\ ReadFingers(d) \subseteq Keys
    BY <1>1, ReadOnHeld DEF Reads
  <2>3. ASSUME NEW x PROVE x \in Unified!Image <=> x \in Image
    BY <2>1, <2>2, ImageHas, TargetTableAt
  <2> QED
    BY <2>3
<1>2. ASSUME TypeOK' PROVE Unified!Image' = Image'
  <2>1. Unified!Image' =
          Keys \cap UNION {{TargetTable'[d][k] : k \in Reads'[d]} : d \in Devices}
    BY DEF Unified!Image, TargetTable, Reads
  <2>2. \A d \in Devices : Reads'[d] = ReadFingers(d)' /\ ReadFingers(d)' \subseteq Keys
    BY <1>2 DEF Reads, ReadFingers
  <2>3. ASSUME NEW x PROVE x \in Unified!Image' <=> x \in Image'
    BY <2>1, <2>2, ImageHas, TargetTableAt
  <2> QED
    BY <2>3
<1> QED
  BY <1>1, <1>2

LEMMA TargetTableType ==
  /\ TypeOK => TargetTable \in [Devices -> [Keys -> Targets]]
  /\ TypeOK' => TargetTable' \in [Devices -> [Keys -> Targets]]
BY DEF TypeOK, TargetTable, Targets

(* The unified keyboard's state stands still. *)
LEMMA UnifiedStutters ==
  ASSUME UNCHANGED virtual,
         \A d \in Devices : /\ ReadFingers(d)' = ReadFingers(d)
                            /\ \A k \in Keys : Target(d, k)' = Target(d, k)
  PROVE  UNCHANGED Unified!vars
<1>1. Reads' = Reads
  BY DEF Reads
<1>2. TargetTable' = TargetTable
  BY DEF TargetTable, Target
<1> QED
  BY <1>1, <1>2 DEF Unified!vars, Reads, TargetTable

LEMMA ConfigureImplements ==
  ASSUME TypeOK', Configures
  PROVE  Unified!Configure
<1>1. /\ \A d \in Devices : Reads[d] = {}
      /\ Reads' = Reads
      /\ TargetTable' \in [Devices -> [Keys -> Targets]]
      /\ virtual' = virtual
  BY TargetTableType DEF Configures, Reads
<1> QED
  BY <1>1 DEF Unified!Configure, Reads, TargetTable

LEMMA ReadImplements ==
  ASSUME UnifiedInv, UnifiedInv', NEW d \in Devices, NEW e \in Event, Follows(d, e)
  PROVE  Unified!Move(d) \/ UNCHANGED Unified!vars
<1>1. /\ e.value \in {0, 1, 2} /\ e.code \in Keys /\ e.type = "KEY"
      /\ m_keyMaps' = m_keyMaps
      /\ Moves(ReadFingers(d), e, ReadFingers(d)')
      /\ \A c \in Devices : c # d => ReadFingers(c)' = ReadFingers(c)
      /\ \A c, k : Target(c, k)' = Target(c, k)
  BY DEF Follows, Event, Target
<1>2. CASE e.value = 2
  <2>1. ReadFingers(d)' = ReadFingers(d) /\ virtual' = virtual
    BY <1>1, <1>2 DEF Moves, Follows, Down
  <2> QED
    BY <1>1, <2>1, UnifiedStutters
<1>3. CASE e.value # 2
  <2>1. /\ ReadFingers(d)' # ReadFingers(d)
        /\ ReadFingers(d)' \in {ReadFingers(d) \cup {e.code}, ReadFingers(d) \ {e.code}}
    BY <1>1, <1>3 DEF Moves
  <2>2. /\ Reads'[d] # Reads[d]
        /\ Reads' \in {[Reads EXCEPT ![d] = @ \cup {e.code}],
                       [Reads EXCEPT ![d] = @ \ {e.code}]}
    BY <1>1, <2>1 DEF Reads
  <2>3. TargetTable' = TargetTable
    BY <1>1 DEF TargetTable
  <2>4. virtual' = Unified!Image'
    <3>1. virtual' = Image' /\ TypeOK'
      BY DEF UnifiedInv, QuietInv, RouteInv, OnlyFingersDown, FingersAllDown
    <3> QED
      BY <3>1, UnifiedImage
  <2> QED
    BY <1>1, <2>2, <2>3, <2>4 DEF Unified!Move, Reads, TargetTable
<1> QED
  BY <1>2, <1>3

(* With one source per key, the daemon and its devices are one keyboard,    *)
(* step by step: every event read moves the virtual key it stands for, and  *)
(* nothing else does (README:3-21).                                         *)
THEOREM ImplementsHolds ==
  ASSUME Undisturbed, OneSourcePerKey
  PROVE  Spec => ImplementsUnifiedKeyboard
<1>1. Init => Unified!Init
  <2> SUFFICES ASSUME Init PROVE Unified!Init
    OBVIOUS
  <2>1. TypeOK /\ virtual = {} /\ \A d \in Devices : ReadFingers(d) = {}
    BY InitRouteInv, ReadIsOrigin DEF RouteInv, Init
  <2>2. Reads = [d \in Devices |-> {}]
    BY <2>1 DEF Reads
  <2> QED
    BY <2>1, <2>2, TargetTableType DEF Unified!Init, Reads, TargetTable
<1>2. UnifiedInv /\ UnifiedInv' /\ [Next]_vars => [Unified!Next]_Unified!vars
  <2> SUFFICES ASSUME UnifiedInv, UnifiedInv', [Next]_vars
               PROVE  [Unified!Next]_Unified!vars
    OBVIOUS
  <2>1. TypeOK'
    BY DEF UnifiedInv, QuietInv, RouteInv
  <2>2. \/ Stutters \/ Configures
        \/ \E d \in Devices, e \in Event : Follows(d, e)
    BY NextCalm DEF UnifiedInv, QuietInv
  <2>3. CASE Stutters
    BY <2>3, UnifiedStutters DEF Stutters
  <2>4. CASE Configures
    BY <2>1, <2>4, ConfigureImplements DEF Unified!Next
  <2>5. CASE \E d \in Devices, e \in Event : Follows(d, e)
    BY <2>5, ReadImplements DEF Unified!Next
  <2> QED
    BY <2>2, <2>3, <2>4, <2>5
<1> QED
  BY UnifiedInvHolds, <1>1, <1>2, PTL DEF Spec, ImplementsUnifiedKeyboard, Unified!Spec

==============================================================================

-------------------------- MODULE KeyRoutingProofs --------------------------
(***************************************************************************)
(* Theorems about KeyRouting, for every set of devices and keys, every set *)
(* of profile lists and every bound on the buffers.                        *)
(***************************************************************************)
EXTENDS KeyRouting, FiniteSetTheorems, Inductions, TLAPS

Table == [Keys -> Targets]

LEMMA IdentityType == Identity \in Table
BY DEF Identity, Table, Targets

(* A map that is good has a key to map and a target that is named as it is. *)
LEMMA GoodMap ==
  ASSUME NEW m \in KeyMap
  PROVE  /\ Good(m) <=> m.fromKey \in Keys /\ m.toKey \in Targets
         /\ Good(m) => fromKeyCode(m) = m.fromKey /\ toKeyCode(m) = m.toKey
<1> USE KeyRoutingAssumption
<1>1. m.fromKey \in Names \ {Reserved} /\ m.toKey \in Names
  BY DEF KeyMap
<1>2. fromKeyCode(m) = IF m.fromKey \in Keys THEN m.fromKey ELSE BadName
  BY <1>1 DEF fromKeyCode, CodeFromName
<1>3. toKeyCode(m) = IF m.toKey \in Targets THEN m.toKey ELSE BadName
  BY <1>1 DEF toKeyCode, isMouseRel, mouseRelActionNameToCode, CodeFromName,
              Names, Targets
<1> QED
  BY <1>1, <1>2, <1>3 DEF Good, Targets

LEMMA MappedType ==
  ASSUME NEW t \in Table, NEW m \in KeyMap
  PROVE  Mapped(t, m) \in Table
BY GoodMap DEF Mapped, Table

(* The loop's table after n maps. *)
LEMMA MappedKeysLoop ==
  ASSUME NEW maps \in Seq(KeyMap)
  PROVE  \E f \in [0 .. Len(maps) -> Table] :
           /\ f[0] = Identity
           /\ \A n \in 1 .. Len(maps) : f[n] = Mapped(f[n - 1], maps[n])
           /\ MappedKeys(maps) = f[Len(maps)]
<1> DEFINE N == Len(maps)
           step == [n \in 1 .. N |-> [t \in Table |-> Mapped(t, maps[n])]]
           Loop(g) == g = [n \in 0 .. N |-> IF n = 0 THEN Identity
                                                   ELSE Mapped(g[n - 1], maps[n])]
           f == CHOOSE g : Loop(g)
<1>1. N \in Nat /\ \A n \in 1 .. N : maps[n] \in KeyMap
  OBVIOUS
<1>2. step \in [1 .. N -> [Table -> Table]]
  BY <1>1, MappedType
<1> HIDE DEF N, step
<1>3. PICK g \in [0 .. N -> Table] :
        g[0] = Identity /\ \A n \in 1 .. N : g[n] = step[n][g[n - 1]]
  <2>1. ASSUME NEW X, X = Table
        PROVE  \E g \in [0 .. N -> X] : Recursion(g, N, Identity, step)
    <3>1. N \in Nat /\ Identity \in X /\ step \in [1 .. N -> [X -> X]]
      BY <2>1, <1>1, <1>2, IdentityType
    <3> QED
      BY <3>1, RecursionHasSolution
  <2> QED
    BY <2>1 DEF Recursion
<1>4. ASSUME NEW n \in 1 .. N PROVE g[n] = Mapped(g[n - 1], maps[n])
  <2>1. n - 1 \in 0 .. N
    BY <1>1
  <2> QED
    BY <1>3, <2>1 DEF step
<1>5. Loop(g)
  BY <1>3, <1>4
<1>6. Loop(f)
  BY <1>5
<1> HIDE DEF f
<1>7. /\ DOMAIN f = 0 .. N
      /\ f[0] = Identity
      /\ \A n \in 1 .. N : f[n] = Mapped(f[n - 1], maps[n])
  BY <1>1, <1>6
<1>8. \A n \in 0 .. N : f[n] \in Table
  <2> DEFINE S == {n \in Nat : n <= N => f[n] \in Table}
  <2>1. 0 \in S
    BY <1>7, IdentityType
  <2>2. ASSUME NEW n \in Nat, n \in S PROVE n + 1 \in S
    <3>1. CASE n + 1 \in 1 .. N
      <4>1. n <= N /\ (n + 1) - 1 = n /\ n + 1 \in Nat
        BY <3>1, <1>1
      <4>2. f[n] \in Table
        BY <2>2, <4>1
      <4>3. maps[n + 1] \in KeyMap
        BY <1>1, <3>1
      <4>4. f[n + 1] = Mapped(f[n], maps[n + 1])
        BY <1>7, <3>1, <4>1
      <4>5. f[n + 1] \in Table
        BY <4>2, <4>3, <4>4, MappedType
      <4> QED
        BY <4>1, <4>5
    <3>2. CASE n + 1 \notin 1 .. N
      BY <3>2, <1>1
    <3> QED
      BY <3>1, <3>2
  <2> HIDE DEF S
  <2>3. Nat \subseteq S
    BY <2>1, <2>2, Induction
  <2> QED
    BY <2>3, <1>1 DEF S
<1>9. f \in [0 .. N -> Table]
  BY <1>6, <1>7, <1>8
<1>10. MappedKeys(maps) = f[N]
  BY DEF MappedKeys, f, N
<1> QED
  BY <1>7, <1>9, <1>10 DEF N

LEMMA MappedAt ==
  ASSUME NEW t \in Table, NEW m \in KeyMap, NEW k \in Keys
  PROVE  Mapped(t, m)[k] =
           IF m.fromKey = k /\ m.toKey \in Targets THEN m.toKey ELSE t[k]
BY GoodMap DEF Mapped, Table

(* The last good map for a key decides, whatever came before. *)
LEMMA LastMapWins ==
  ASSUME NEW maps \in Seq(KeyMap), NEW k \in Keys,
         NEW its, its = {i \in DOMAIN maps : maps[i].fromKey = k
                                              /\ maps[i].toKey \in Targets}
  PROVE  /\ MappedKeys(maps) \in Table
         /\ its = {} => MappedKeys(maps)[k] = k
         /\ \A last \in its : (\A j \in its : j <= last)
              => MappedKeys(maps)[k] = maps[last].toKey
<1> DEFINE N == Len(maps)
<1>1. /\ N \in Nat /\ DOMAIN maps = 1 .. N
      /\ \A n \in 1 .. N : maps[n] \in KeyMap
  OBVIOUS
<1>2. PICK f \in [0 .. N -> Table] :
        /\ f[0] = Identity
        /\ \A n \in 1 .. N : f[n] = Mapped(f[n - 1], maps[n])
        /\ MappedKeys(maps) = f[N]
  BY MappedKeysLoop
<1> HIDE DEF N
<1> DEFINE Decided(n) ==
             /\ its \cap (1 .. n) = {} => f[n][k] = k
             /\ \A last \in its \cap (1 .. n) :
                  (\A j \in its \cap (1 .. n) : j <= last)
                    => f[n][k] = maps[last].toKey
           S == {n \in Nat : n <= N => Decided(n)}
<1>3. Decided(0)
  BY <1>2 DEF Identity
<1>4. ASSUME NEW n \in Nat, n + 1 <= N, Decided(n) PROVE Decided(n + 1)
  <2>1. /\ n + 1 \in 1 .. N /\ n \in 0 .. N
        /\ f[n] \in Table /\ maps[n + 1] \in KeyMap
    BY <1>1, <1>2, <1>4
  <2>2. f[n + 1][k] = IF n + 1 \in its THEN maps[n + 1].toKey ELSE f[n][k]
    <3>1. f[n + 1] = Mapped(f[n], maps[n + 1])
      BY <1>2, <2>1
    <3> QED
      BY <3>1, <2>1, <1>1, MappedAt
  <2>3. 1 .. n + 1 = (1 .. n) \cup {n + 1}
    OBVIOUS
  <2>4. CASE n + 1 \in its
    <3>1. ASSUME NEW last \in its \cap (1 .. n + 1),
                 \A j \in its \cap (1 .. n + 1) : j <= last
          PROVE  last = n + 1
      BY <3>1, <2>4
    <3> QED
      BY <3>1, <2>2, <2>4
  <2>5. CASE n + 1 \notin its
    <3>1. its \cap (1 .. n + 1) = its \cap (1 .. n)
      BY <2>3, <2>5
    <3> QED
      BY <3>1, <2>2, <2>5, <1>4
  <2> QED
    BY <2>4, <2>5
<1> HIDE DEF Decided
<1>5. 0 \in S
  BY <1>3
<1>6. ASSUME NEW n \in Nat, n \in S PROVE n + 1 \in S
  BY <1>6, <1>1, <1>4
<1> HIDE DEF S
<1>7. Nat \subseteq S
  BY <1>5, <1>6, Induction
<1>8. Decided(N)
  BY <1>7, <1>1 DEF S
<1>9. its \cap (1 .. N) = its
  BY <1>1
<1> QED
  BY <1>1, <1>2, <1>8, <1>9 DEF Decided

(* The table of configure keeps what the profile promises. *)
LEMMA TableKeepsPromise ==
  ASSUME NEW p \in Profile, NEW k \in Keys
  PROVE  (IF MappedKeys(p.keyMaps)[k] = Reserved THEN k ELSE MappedKeys(p.keyMaps)[k])
           = Promised(p, k)
<1> DEFINE its == {i \in DOMAIN p.keyMaps : p.keyMaps[i].fromKey = k
                                              /\ p.keyMaps[i].toKey \in Targets}
           last == CHOOSE i \in its : \A j \in its : j <= i
<1>1. p.keyMaps \in Seq(KeyMap)
  BY DEF Profile
<1>2. k # Reserved
  BY KeyRoutingAssumption
<1>3. Promised(p, k) = IF its = {} \/ p.keyMaps[last].toKey = Reserved
                         THEN k ELSE p.keyMaps[last].toKey
  BY DEF Promised
<1>4. CASE its = {}
  BY <1>1, <1>2, <1>3, <1>4, LastMapWins
<1>5. CASE its # {}
  <2>1. Len(p.keyMaps) \in Nat /\ its \subseteq 0 .. Len(p.keyMaps)
    BY <1>1
  <2>2. last \in its /\ \A j \in its : j <= last
    <3> HIDE DEF its
    <3>1. \E i \in its : \A j \in its : j <= i
      BY <2>1, <1>5, GreatestMember
    <3> QED
      BY <3>1
  <2> HIDE DEF last
  <2>3. MappedKeys(p.keyMaps)[k] = p.keyMaps[last].toKey
    <3>1. \A i \in its : (\A j \in its : j <= i)
            => MappedKeys(p.keyMaps)[k] = p.keyMaps[i].toKey
      <4>1. ASSUME NEW S, S = its
            PROVE  \A i \in S : (\A j \in S : j <= i)
                     => MappedKeys(p.keyMaps)[k] = p.keyMaps[i].toKey
        BY <4>1, <1>1, LastMapWins
      <4> QED
        BY <4>1
    <3> QED
      BY <2>2, <3>1
  <2> QED
    BY <1>3, <1>5, <2>3
<1> QED
  BY <1>4, <1>5

-----------------------------------------------------------------------------
(* The inductive invariant, beside the types. *)

(* A device sends events of its own types only, a key event with a key.     *)
BuffersFit ==
  \A d \in Devices : \A i \in 1 .. Len(buffer[d]) :
    /\ buffer[d][i].type \in Types[d] \cup {"SYN", "DROPPED"}
    /\ buffer[d][i].type = "KEY" => buffer[d][i].code \in Keys

(* A held device is configured by the profile in force and has the shadow   *)
(* it asks for, any other has none.                                         *)
ConfiguredByProfile ==
  \A d \in Devices :
    /\ handle[d] = "held" =>
         /\ m_profiles[d] # Unmatched
         /\ m_keyMaps[d] = MappedKeys(m_profiles[d].keyMaps)
         /\ m_disableNonKeyEvent[d] = m_profiles[d].disableNonKeyEvent
         /\ hasShadow[d] = NeedsShadow(d, m_profiles[d])
    /\ handle[d] # "held" => ~hasShadow[d]

(* The device being read is held; it is read in the loop only. *)
ReadsHeldDevice ==
  current # NoDevice => handle[current] = "held" /\ stage \in {"loop", "aborted"}

(* A scan begins with every handle closed. *)
ScanStartsClosed ==
  stage = "scan" => \A d \in Devices : handle[d] = "closed"

(* Fingers are finitely many, whatever the keyboard. *)
FinitelyPressed == \A d \in Devices : IsFiniteSet(pressed[d])

RouteInv ==
  /\ TypeOK /\ AssertionHolds
  /\ BuffersFit /\ ConfiguredByProfile /\ ReadsHeldDevice /\ FinitelyPressed
  /\ ScanStartsClosed

-----------------------------------------------------------------------------
(* The pointer's factor. *)

Factors == {1, 2, 4, 8, 16, 32, 64, 128, 256, 512, 1024, 2048, 4096, 8192, 16384,
            32768}

LEMMA FactorsArePowers == {2^i : i \in 0 .. 15} = Factors
<1>1. 0 .. 15 = {0, 1, 2, 3, 4, 5, 6, 7, 8, 9, 10, 11, 12, 13, 14, 15}
  OBVIOUS
<1>2. /\ 2^0 = 1 /\ 2^1 = 2 /\ 2^2 = 4 /\ 2^3 = 8 /\ 2^4 = 16 /\ 2^5 = 32
      /\ 2^6 = 64 /\ 2^7 = 128 /\ 2^8 = 256 /\ 2^9 = 512 /\ 2^10 = 1024
      /\ 2^11 = 2048 /\ 2^12 = 4096 /\ 2^13 = 8192 /\ 2^14 = 16384
      /\ 2^15 = 32768
  OBVIOUS
<1> QED
  BY <1>1, <1>2 DEF Factors

(* Halving stops at 1 and doubling at 2^15, the highest power 16 bits hold. *)
LEMMA FactorStays ==
  ASSUME m_virtualDpiFactor \in {2^i : i \in 0 .. 15}, NEW a, postMouseEvent(a)
  PROVE  m_virtualDpiFactor' \in {2^i : i \in 0 .. 15}
<1>1. m_virtualDpiFactor \in Factors
  BY FactorsArePowers
<1>2. MaxFactor = 32768 /\ 2^16 = 65536 /\ MinFactor = 1
  BY DEF MaxFactor, MinFactor
<1>3. m_virtualDpiFactor' \in Factors
  <2>1. CASE m_virtualDpiFactor' = m_virtualDpiFactor
    BY <1>1, <2>1
  <2>2. CASE /\ m_virtualDpiFactor # 1
             /\ m_virtualDpiFactor' = m_virtualDpiFactor \div 2
    BY <1>1, <2>2 DEF Factors
  <2>3. CASE /\ m_virtualDpiFactor # 32768
             /\ m_virtualDpiFactor' = (m_virtualDpiFactor * 2) % 65536
    BY <1>1, <2>3 DEF Factors
  <2> QED
    BY <1>2, <2>1, <2>2, <2>3 DEF postMouseEvent
<1> QED
  BY <1>3, FactorsArePowers

-----------------------------------------------------------------------------
(* The actions' parts. *)

LEMMA DestroyKeeps ==
  ASSUME TypeOK, BuffersFit, ConfiguredByProfile, FinitelyPressed,
         NEW D \in SUBSET Devices, Destroy(D)
  PROVE  /\ handle' \in [Devices -> Handles]
         /\ buffer' \in [Devices -> Seq(Event)]
         /\ \A d \in Devices : Len(buffer'[d]) <= MaxBuffer
         /\ m_keyMaps' \in [Devices -> Table]
         /\ m_disableUnmappedKey' \in [Devices -> BOOLEAN]
         /\ m_disableNonKeyEvent' \in [Devices -> BOOLEAN]
         /\ hasShadow' \in [Devices -> BOOLEAN]
         /\ BuffersFit'
         /\ \A d \in D : handle'[d] = "closed" /\ ~hasShadow'[d]
         /\ \A d \in Devices \ D :
              /\ handle'[d] = handle[d] /\ buffer'[d] = buffer[d]
              /\ m_keyMaps'[d] = m_keyMaps[d]
              /\ m_disableNonKeyEvent'[d] = m_disableNonKeyEvent[d]
              /\ hasShadow'[d] = hasShadow[d]
<1> USE KeyRoutingAssumption
<1>1. \A d \in Devices : buffer'[d] = IF d \in D THEN <<>> ELSE buffer[d]
  BY DEF Destroy
<1>2. buffer' \in [Devices -> Seq(Event)]
  BY DEF Destroy, TypeOK
<1>3. BuffersFit' /\ \A d \in Devices : Len(buffer'[d]) <= MaxBuffer
  BY <1>1 DEF BuffersFit, TypeOK
<1>4. /\ handle' \in [Devices -> Handles]
      /\ m_keyMaps' \in [Devices -> Table]
  BY IdentityType DEF Destroy, TypeOK, Handles, Table
<1>5. /\ m_disableUnmappedKey' \in [Devices -> BOOLEAN]
      /\ m_disableNonKeyEvent' \in [Devices -> BOOLEAN]
      /\ hasShadow' \in [Devices -> BOOLEAN]
  BY DEF Destroy
<1>6. \A d \in D : handle'[d] = "closed" /\ ~hasShadow'[d]
  BY DEF Destroy
<1>7. \A d \in Devices \ D :
        /\ handle'[d] = handle[d] /\ buffer'[d] = buffer[d]
        /\ m_keyMaps'[d] = m_keyMaps[d]
  BY DEF Destroy
<1>8. \A d \in Devices \ D :
        /\ m_disableNonKeyEvent'[d] = m_disableNonKeyEvent[d]
        /\ hasShadow'[d] = hasShadow[d]
  BY DEF Destroy, TypeOK
<1> QED
  BY <1>2, <1>3, <1>4, <1>5, <1>6, <1>7, <1>8

(* What the devices send. *)
LEMMA EventType ==
  /\ \A k \in Keys, v \in 0 .. 2 : KeyEvent(k, v) \in Event
  /\ \A t \in EventTypes \cup {"SYN", "DROPPED"} : OtherEvent(t) \in Event
<1>1. "KEY" \in EventTypes
  BY DEF EventTypes
<1> QED
  BY <1>1 DEF KeyEvent, OtherEvent, Event

Fitting(d) ==
  {e \in Event : /\ e.type \in Types[d] \cup {"SYN", "DROPPED"}
                 /\ e.type = "KEY" => e.code \in Keys}

LEMMA QueueKeeps ==
  ASSUME TypeOK, BuffersFit, NEW d \in Devices,
         NEW events \in Seq(Fitting(d)), Queue(d, events)
  PROVE  /\ buffer' \in [Devices -> Seq(Event)]
         /\ \A c \in Devices : Len(buffer'[c]) <= MaxBuffer
         /\ BuffersFit'
<1> USE KeyRoutingAssumption
<1> DEFINE new == CASE handle[d] = "closed" -> <<>>
                    [] handle[d] # "closed" /\ Len(buffer[d] \o events) <= MaxBuffer
                         -> buffer[d] \o events
                    [] OTHER -> <<OtherEvent("DROPPED")>>
<1>1. buffer' = [buffer EXCEPT ![d] = new]
  BY DEF Queue
<1>2. OtherEvent("DROPPED") \in Fitting(d)
  BY EventType DEF OtherEvent, Fitting
<1>3. buffer[d] \in Seq(Fitting(d))
  BY DEF TypeOK, BuffersFit, Fitting
<1>4. new \in Seq(Fitting(d)) /\ Len(new) <= MaxBuffer
  <2>1. CASE new = <<>>
    BY <2>1
  <2>2. CASE new = buffer[d] \o events /\ Len(buffer[d] \o events) <= MaxBuffer
    BY <2>2, <1>3
  <2>3. CASE new = <<OtherEvent("DROPPED")>>
    <3> DEFINE e == OtherEvent("DROPPED")
    <3>1. e \in Fitting(d)
      BY <1>2
    <3> HIDE DEF e
    <3>2. <<e>> \in Seq(Fitting(d)) /\ Len(<<e>>) <= MaxBuffer
      BY <3>1
    <3> QED
      BY <2>3, <3>2 DEF e
  <2> QED
    BY <2>1, <2>2, <2>3
<1> HIDE DEF new
<1>5. /\ new \in Seq(Event)
      /\ \A i \in 1 .. Len(new) : new[i] \in Fitting(d)
  BY <1>4 DEF Fitting
<1>6. buffer'[d] = new /\ \A c \in Devices : c # d => buffer'[c] = buffer[c]
  BY <1>1 DEF TypeOK
<1>7. BuffersFit'
  BY <1>5, <1>6 DEF BuffersFit, Fitting
<1> QED
  BY <1>1, <1>4, <1>5, <1>6, <1>7 DEF TypeOK

-----------------------------------------------------------------------------
LEMMA InitRouteInv == Init => RouteInv
<1> SUFFICES ASSUME Init PROVE RouteInv
  OBVIOUS
<1> USE KeyRoutingAssumption
<1>1. TypeOK
  <2>1. m_keyMaps \in [Devices -> [Keys -> Targets]]
    BY IdentityType DEF Init, Table
  <2>2. buffer \in [Devices -> Seq(Event)] /\ \A d \in Devices : Len(buffer[d]) <= MaxBuffer
    BY DEF Init
  <2>3. m_virtualDpiFactor \in {2^i : i \in 0 .. 15}
    BY FactorsArePowers DEF Init, Factors
  <2>4. /\ presence \in [Devices -> {"in", "leaving", "out"}]
        /\ pressed \in [Devices -> SUBSET Keys]
        /\ handle \in [Devices -> Handles]
        /\ m_disableUnmappedKey \in [Devices -> BOOLEAN]
        /\ m_disableNonKeyEvent \in [Devices -> BOOLEAN]
        /\ hasShadow \in [Devices -> BOOLEAN]
    BY DEF Init, Handles
  <2> QED
    BY <2>1, <2>2, <2>3, <2>4 DEF Init, TypeOK, Stages
<1>2. BuffersFit /\ ConfiguredByProfile /\ ReadsHeldDevice /\ AssertionHolds
      /\ ScanStartsClosed
  BY DEF Init, ScanStartsClosed, BuffersFit, ConfiguredByProfile, ReadsHeldDevice, AssertionHolds
<1>3. FinitelyPressed
  BY FS_EmptySet DEF Init, FinitelyPressed
<1> QED
  BY <1>1, <1>2, <1>3 DEF RouteInv

(* Closing d leaves the others configured as they were.                     *)
LEMMA OthersStayConfigured ==
  ASSUME ConfiguredByProfile, NEW d \in Devices, UNCHANGED m_profiles,
         handle'[d] = "closed", ~hasShadow'[d],
         \A c \in Devices \ {d} :
           /\ handle'[c] = handle[c] /\ buffer'[c] = buffer[c]
           /\ m_keyMaps'[c] = m_keyMaps[c]
           /\ m_disableNonKeyEvent'[c] = m_disableNonKeyEvent[c]
           /\ hasShadow'[c] = hasShadow[c]
  PROVE  ConfiguredByProfile'
<1> SUFFICES ASSUME NEW c \in Devices
             PROVE  /\ handle'[c] = "held" =>
                         /\ m_profiles'[c] # Unmatched
                         /\ m_keyMaps'[c] = MappedKeys(m_profiles'[c].keyMaps)
                         /\ m_disableNonKeyEvent'[c]
                              = m_profiles'[c].disableNonKeyEvent
                         /\ hasShadow'[c] = NeedsShadow(c, m_profiles'[c])
                    /\ handle'[c] # "held" => ~hasShadow'[c]
  BY Zenon DEF ConfiguredByProfile
<1>1. m_profiles'[c] = m_profiles[c]
  OBVIOUS
<1>2. CASE c = d
  BY <1>2
<1>3. CASE c # d
  <2>1. /\ handle'[c] = handle[c] /\ hasShadow'[c] = hasShadow[c]
        /\ m_keyMaps'[c] = m_keyMaps[c]
        /\ m_disableNonKeyEvent'[c] = m_disableNonKeyEvent[c]
    BY <1>3
  <2>2. /\ handle[c] = "held" =>
             /\ m_profiles[c] # Unmatched
             /\ m_keyMaps[c] = MappedKeys(m_profiles[c].keyMaps)
             /\ m_disableNonKeyEvent[c] = m_profiles[c].disableNonKeyEvent
             /\ hasShadow[c] = NeedsShadow(c, m_profiles[c])
        /\ handle[c] # "held" => ~hasShadow[c]
    BY DEF ConfiguredByProfile
  <2> QED
    BY <1>1, <2>1, <2>2, Zenon
<1> QED
  BY <1>2, <1>3

LEMMA ConfigureRoutes ==
  ASSUME RouteInv, NEW d \in Devices, Configure(d)
  PROVE  RouteInv'
<1> USE KeyRoutingAssumption DEF RouteInv
<1> DEFINE p == m_profiles[d]
<1>1. /\ stage = "configure" /\ handle[d] = "open" /\ current = NoDevice
      /\ UNCHANGED <<presence, pressed, notices, m_profiles, current, virtual,
                     m_virtualDpiFactor>>
  BY DEF Configure, ReadsHeldDevice, keyboardVars
<1>2. p \in Profile \cup {Unmatched}
  BY DEF TypeOK
<1>3. FinitelyPressed' /\ ReadsHeldDevice'
  BY <1>1 DEF FinitelyPressed, ReadsHeldDevice
<1>7. stage' # "scan" => ScanStartsClosed'
  BY DEF ScanStartsClosed
<1>4. CASE Destroy({d}) /\ stage' = stage
  <2>1. /\ handle' \in [Devices -> Handles]
        /\ buffer' \in [Devices -> Seq(Event)]
        /\ \A c \in Devices : Len(buffer'[c]) <= MaxBuffer
        /\ m_keyMaps' \in [Devices -> Table]
        /\ m_disableUnmappedKey' \in [Devices -> BOOLEAN]
        /\ m_disableNonKeyEvent' \in [Devices -> BOOLEAN]
        /\ hasShadow' \in [Devices -> BOOLEAN]
        /\ BuffersFit'
        /\ handle'[d] = "closed" /\ ~hasShadow'[d]
        /\ \A c \in Devices \ {d} :
             /\ handle'[c] = handle[c] /\ buffer'[c] = buffer[c]
             /\ m_keyMaps'[c] = m_keyMaps[c]
             /\ m_disableNonKeyEvent'[c] = m_disableNonKeyEvent[c]
             /\ hasShadow'[c] = hasShadow[c]
    BY <1>4, DestroyKeeps
  <2>2. TypeOK'
    BY <1>1, <1>4, <2>1 DEF TypeOK, Table
  <2>3. ConfiguredByProfile'
    BY <1>1, <2>1, OthersStayConfigured
  <2>4. AssertionHolds'
    BY <1>1, <1>4 DEF AssertionHolds
  <2> QED
    BY <2>1, <2>2, <2>3, <2>4, <1>1, <1>3, <1>4, <1>7
<1>5. CASE /\ stage' = "crashed"
           /\ m_disableUnmappedKey' = [m_disableUnmappedKey EXCEPT ![d] = TRUE]
           /\ UNCHANGED <<handle, buffer, m_keyMaps, m_disableNonKeyEvent, hasShadow>>
  BY <1>1, <1>3, <1>5, <1>7
     DEF TypeOK, Stages, BuffersFit, ConfiguredByProfile, AssertionHolds
<1>6. CASE /\ p # Unmatched
           /\ handle' = [handle EXCEPT ![d] = "held"]
           /\ m_keyMaps' = [m_keyMaps EXCEPT ![d] = MappedKeys(p.keyMaps)]
           /\ m_disableNonKeyEvent' =
                [m_disableNonKeyEvent EXCEPT ![d] = p.disableNonKeyEvent]
           /\ hasShadow' = [hasShadow EXCEPT ![d] = NeedsShadow(d, p)]
           /\ m_disableUnmappedKey' = [m_disableUnmappedKey EXCEPT ![d] = FALSE]
           /\ UNCHANGED <<buffer, stage>>
  <2>1. /\ p \in Profile
        /\ p.keyMaps \in Seq(KeyMap) /\ p.disableNonKeyEvent \in BOOLEAN
    BY <1>2, <1>6 DEF Profile
  <2>2. MappedKeys(p.keyMaps) \in Table
    <3>1. PICK f \in [0 .. Len(p.keyMaps) -> Table] :
            MappedKeys(p.keyMaps) = f[Len(p.keyMaps)]
      BY <2>1, MappedKeysLoop
    <3> QED
      BY <2>1, <3>1
  <2>3. NeedsShadow(d, p) \in BOOLEAN
    BY DEF NeedsShadow
  <2>4. TypeOK'
    BY <1>1, <1>6, <2>1, <2>2, <2>3 DEF TypeOK, Table, Handles
  <2>5. ConfiguredByProfile'
    BY <1>1, <1>6 DEF ConfiguredByProfile, TypeOK, NeedsShadow, hasOtherEventType
  <2>6. BuffersFit' /\ AssertionHolds'
    BY <1>1, <1>6 DEF BuffersFit, AssertionHolds
  <2> QED
    BY <2>4, <2>5, <2>6, <1>1, <1>3, <1>6, <1>7
<1> QED
  BY <1>4, <1>5, <1>6 DEF Configure

(* What a key event does to the virtual keyboard. *)
LEMMA RouteKeyType ==
  ASSUME TypeOK, NEW d \in Devices, NEW e \in Event, e.code \in Keys, RouteKey(d, e)
  PROVE  virtual' \subseteq Keys /\ m_virtualDpiFactor' \in {2^i : i \in 0 .. 15}
<1> DEFINE to == m_keyMaps[d][e.code]
<1>1. /\ virtual \subseteq Keys
      /\ m_virtualDpiFactor \in {2^i : i \in 0 .. 15}
      /\ e.value \in {0, 1, 2}
  BY DEF TypeOK, Event
<1>2. ASSUME NEW k \in Keys, postKeyEvent(k, e.value)
      PROVE  virtual' \subseteq Keys /\ m_virtualDpiFactor' = m_virtualDpiFactor
  <2>1. Down(k, e.value) \in {virtual \ {k}, virtual \cup {k}, virtual}
    BY <1>1 DEF Down
  <2> QED
    BY <1>1, <1>2, <2>1 DEF postKeyEvent
<1>3. CASE postMouseEvent(to)
  BY <1>1, <1>3, FactorStays DEF postMouseEvent
<1>4. CASE UNCHANGED keyboardVars
  BY <1>1, <1>4 DEF keyboardVars
<1> QED
  BY <1>1, <1>2, <1>3, <1>4 DEF RouteKey

LEMMA NextEventRoutes == ASSUME RouteInv, NextEvent PROVE RouteInv'
<1> USE KeyRoutingAssumption DEF RouteInv
<1> DEFINE d == current
           e == Head(buffer[d])
           rest == Tail(buffer[d])
<1>1. /\ stage = "loop" /\ d \in Devices /\ handle[d] = "held"
      /\ UNCHANGED <<presence, pressed, notices, m_profiles>>
  BY DEF NextEvent, TypeOK, ReadsHeldDevice
<1>2. FinitelyPressed' /\ ScanStartsClosed'
  <2>1. stage' # "scan"
    BY <1>1 DEF NextEvent
  <2> QED
    BY <1>1, <2>1 DEF FinitelyPressed, ScanStartsClosed
<1>3. CASE /\ Destroy({d})
           /\ current' = NoDevice
           /\ UNCHANGED <<stage, keyboardVars>>
  <2>1. /\ handle' \in [Devices -> Handles]
        /\ buffer' \in [Devices -> Seq(Event)]
        /\ \A c \in Devices : Len(buffer'[c]) <= MaxBuffer
        /\ m_keyMaps' \in [Devices -> Table]
        /\ m_disableUnmappedKey' \in [Devices -> BOOLEAN]
        /\ m_disableNonKeyEvent' \in [Devices -> BOOLEAN]
        /\ hasShadow' \in [Devices -> BOOLEAN]
        /\ BuffersFit'
        /\ handle'[d] = "closed" /\ ~hasShadow'[d]
        /\ \A c \in Devices \ {d} :
             /\ handle'[c] = handle[c] /\ buffer'[c] = buffer[c]
             /\ m_keyMaps'[c] = m_keyMaps[c]
             /\ m_disableNonKeyEvent'[c] = m_disableNonKeyEvent[c]
             /\ hasShadow'[c] = hasShadow[c]
    BY <1>1, <1>3, DestroyKeeps
  <2>2. TypeOK'
    BY <1>1, <1>3, <2>1 DEF TypeOK, Table, keyboardVars
  <2>3. ConfiguredByProfile'
    BY <1>1, <2>1, OthersStayConfigured
  <2>4. AssertionHolds' /\ ReadsHeldDevice'
    BY <1>1, <1>3 DEF AssertionHolds, ReadsHeldDevice
  <2> QED
    BY <2>1, <2>2, <2>3, <2>4, <1>2
<1>4. CASE /\ current' = NoDevice
           /\ UNCHANGED <<buffer, handle, configVars, stage, keyboardVars>>
  BY <1>1, <1>2, <1>4
     DEF TypeOK, BuffersFit, ConfiguredByProfile, AssertionHolds,
         ReadsHeldDevice, configVars, keyboardVars
<1>5. ASSUME buffer[d] # <<>>
      PROVE  /\ e \in Event /\ rest \in Seq(Event) /\ Len(rest) = Len(buffer[d]) - 1
             /\ \A i \in 1 .. Len(rest) : rest[i] = buffer[d][i + 1]
             /\ e.type \in Types[d] \cup {"SYN", "DROPPED"}
             /\ e.type = "KEY" => e.code \in Keys
  <2>1. buffer[d] \in Seq(Event)
    BY <1>1 DEF TypeOK
  <2>2. Len(buffer[d]) \in Nat \ {0} /\ e = buffer[d][1]
    BY <1>5, <2>1
  <2> QED
    BY <1>1, <1>5, <2>1, <2>2 DEF BuffersFit
<1>6. CASE /\ buffer[d] # <<>>
           /\ buffer' = [buffer EXCEPT ![d] = rest]
           /\ IF e.type = "KEY" THEN RouteKey(d, e) ELSE UNCHANGED keyboardVars
           /\ UNCHANGED <<handle, configVars, current, stage>>
  <2>1. virtual' \subseteq Keys /\ m_virtualDpiFactor' \in {2^i : i \in 0 .. 15}
    <3>1. CASE e.type = "KEY"
      BY <1>1, <1>5, <1>6, <3>1, RouteKeyType
    <3>2. CASE e.type # "KEY"
      BY <1>6, <3>2 DEF TypeOK, keyboardVars
    <3> QED
      BY <3>1, <3>2
  <2>2. /\ buffer' \in [Devices -> Seq(Event)]
        /\ buffer'[d] = rest
        /\ \A c \in Devices : c # d => buffer'[c] = buffer[c]
    BY <1>1, <1>5, <1>6 DEF TypeOK
  <2>3. \A c \in Devices : Len(buffer'[c]) <= MaxBuffer
    BY <1>1, <1>5, <1>6, <2>2 DEF TypeOK
  <2>4. TypeOK'
    BY <1>1, <1>6, <2>1, <2>2, <2>3 DEF TypeOK, configVars
  <2>5. BuffersFit'
    <3>1. ASSUME NEW i \in 1 .. Len(rest)
          PROVE  /\ rest[i].type \in Types[d] \cup {"SYN", "DROPPED"}
                 /\ rest[i].type = "KEY" => rest[i].code \in Keys
      <4>1. i + 1 \in 1 .. Len(buffer[d])
        BY <1>5, <1>6, <1>1 DEF TypeOK
      <4> QED
        BY <1>1, <1>5, <1>6, <4>1 DEF BuffersFit
    <3> QED
      BY <2>2, <3>1 DEF BuffersFit
  <2>6. ConfiguredByProfile' /\ AssertionHolds' /\ ReadsHeldDevice'
    BY <1>1, <1>6
       DEF ConfiguredByProfile, AssertionHolds, ReadsHeldDevice, configVars
  <2> QED
    BY <2>4, <2>5, <2>6, <1>2
<1>7. CASE /\ buffer[d] # <<>> /\ e.type # "DROPPED" /\ Unexpected(d, e)
           /\ stage' = "aborted"
           /\ UNCHANGED <<buffer, handle, configVars, current, keyboardVars>>
  <2>1. e.type = "REP"
    <3>1. Types[d] \cap needPassthroughType = {}
      BY <1>1, <1>7
         DEF Unexpected, ConfiguredByProfile, NeedsShadow, hasOtherEventType
    <3>2. e.type \in Types[d] /\ Types[d] \subseteq EventTypes /\ e.type # "KEY"
      BY <1>1, <1>5, <1>7 DEF Unexpected
    <3> QED
      BY <3>1, <3>2 DEF EventTypes, needPassthroughType
  <2>2. AssertionHolds'
    BY <1>7, <2>1 DEF AssertionHolds
  <2> QED
    BY <1>1, <1>2, <1>7, <2>2
       DEF TypeOK, Stages, BuffersFit, ConfiguredByProfile, ReadsHeldDevice,
           configVars, keyboardVars
<1> QED
  BY <1>3, <1>4, <1>6, <1>7 DEF NextEvent

LEMMA PollRoutes == ASSUME RouteInv, Poll PROVE RouteInv'
<1>1. /\ stage = "loop" /\ current' \in Devices /\ handle[current'] = "held"
      /\ UNCHANGED <<presence, pressed, buffer, notices, handle, configVars,
                     m_profiles, stage, keyboardVars>>
  BY DEF Poll, Idle, deviceVars
<1> QED
  BY <1>1
     DEF RouteInv, TypeOK, BuffersFit, ConfiguredByProfile, AssertionHolds,
         ReadsHeldDevice, FinitelyPressed, ScanStartsClosed, configVars, keyboardVars

LEMMA OpenType ==
  ASSUME TypeOK, NEW D, Open(D)
  PROVE  /\ handle' \in [Devices -> Handles]
         /\ \A d \in Devices : handle'[d] = IF d \in D THEN "open" ELSE handle[d]
BY DEF Open, TypeOK, Handles

LEMMA NodeCreatedRoutes == ASSUME RouteInv, NodeCreated PROVE RouteInv'
<1> USE DEF RouteInv
<1>1. PICK d \in notices :
        /\ notices' = notices \ {d}
        /\ IF presence[d] # "out" /\ handle[d] = "closed"
             THEN Open({d}) /\ stage' = "configure"
             ELSE UNCHANGED <<handle, stage>>
  BY DEF NodeCreated
<1>2. /\ stage = "loop" /\ current = NoDevice
      /\ UNCHANGED <<presence, pressed, buffer, configVars, m_profiles, current,
                     keyboardVars>>
  BY DEF NodeCreated, Idle
<1>3. CASE handle[d] = "closed" /\ Open({d}) /\ stage' = "configure"
  <2>1. /\ handle' \in [Devices -> Handles]
        /\ \A c \in Devices : handle'[c] = IF c = d THEN "open" ELSE handle[c]
    BY <1>3, OpenType
  <2>2. TypeOK'
    BY <1>1, <1>2, <1>3, <2>1 DEF TypeOK, Stages, configVars, keyboardVars
  <2>3. ConfiguredByProfile'
    BY <1>2, <1>3, <2>1 DEF ConfiguredByProfile, configVars
  <2> QED
    BY <1>2, <1>3, <2>2, <2>3
       DEF BuffersFit, AssertionHolds, ReadsHeldDevice, FinitelyPressed, ScanStartsClosed
<1>4. CASE UNCHANGED <<handle, stage>>
  BY <1>1, <1>2, <1>4
     DEF TypeOK, BuffersFit, ConfiguredByProfile, AssertionHolds,
         ReadsHeldDevice, FinitelyPressed, ScanStartsClosed, configVars, keyboardVars
<1> QED
  BY <1>1, <1>3, <1>4

LEMMA ReloadRoutes == ASSUME RouteInv, Reload PROVE RouteInv'
<1> USE DEF RouteInv
<1>1. /\ stage = "loop" /\ current = NoDevice /\ stage' = "scan"
      /\ m_profiles' \in ProfileLists
      /\ Destroy(Devices)
      /\ UNCHANGED <<presence, pressed, notices, current, keyboardVars>>
  BY DEF Reload, Idle
<1>2. /\ handle' \in [Devices -> Handles]
      /\ buffer' \in [Devices -> Seq(Event)]
      /\ \A c \in Devices : Len(buffer'[c]) <= MaxBuffer
      /\ m_keyMaps' \in [Devices -> Table]
      /\ m_disableUnmappedKey' \in [Devices -> BOOLEAN]
      /\ m_disableNonKeyEvent' \in [Devices -> BOOLEAN]
      /\ hasShadow' \in [Devices -> BOOLEAN]
      /\ BuffersFit'
      /\ \A d \in Devices : handle'[d] = "closed" /\ ~hasShadow'[d]
  BY <1>1, DestroyKeeps
<1>3. TypeOK'
  BY <1>1, <1>2 DEF TypeOK, Table, Stages, keyboardVars
<1>4. ConfiguredByProfile'
  BY <1>2 DEF ConfiguredByProfile
<1> QED
  BY <1>1, <1>2, <1>3, <1>4 DEF AssertionHolds, ReadsHeldDevice, FinitelyPressed, ScanStartsClosed

LEMMA ScanRoutes == ASSUME RouteInv, Scan PROVE RouteInv'
<1> USE DEF RouteInv
<1>1. /\ stage = "scan" /\ stage' = "configure"
      /\ Open({d \in Devices : presence[d] # "out"})
      /\ UNCHANGED <<presence, pressed, buffer, notices, configVars, m_profiles,
                     current, keyboardVars>>
  BY DEF Scan, deviceVars
<1>2. current = NoDevice
  BY <1>1 DEF ReadsHeldDevice
<1>3. /\ handle' \in [Devices -> Handles]
      /\ \A c \in Devices : handle'[c] = "open" \/ handle'[c] = handle[c]
  BY <1>1, OpenType
<1>4. TypeOK'
  BY <1>1, <1>3 DEF TypeOK, Stages, configVars, keyboardVars
<1>5. ConfiguredByProfile'
  <2>1. ASSUME NEW c \in Devices, handle'[c] = "open" PROVE ~hasShadow[c]
    BY <1>1 DEF ConfiguredByProfile, ScanStartsClosed
  <2> QED
    BY <1>1, <1>3, <2>1 DEF ConfiguredByProfile, configVars
<1> QED
  BY <1>1, <1>2, <1>4, <1>5
     DEF BuffersFit, AssertionHolds, ReadsHeldDevice, FinitelyPressed, ScanStartsClosed

LEMMA ConfiguredRoutes == ASSUME RouteInv, Configured PROVE RouteInv'
BY DEF Configured, RouteInv, TypeOK, Stages, BuffersFit, ConfiguredByProfile,
       AssertionHolds, ReadsHeldDevice, FinitelyPressed, ScanStartsClosed, deviceVars, configVars,
       keyboardVars

-----------------------------------------------------------------------------
(* What the devices and their user do changes neither handles nor profiles. *)
LEMMA WorldRoutes ==
  ASSUME RouteInv, Running, UNCHANGED stage,
         UNCHANGED <<handle, configVars, m_profiles, current, keyboardVars>>,
         presence' \in [Devices -> {"in", "leaving", "out"}],
         pressed' \in [Devices -> SUBSET Keys],
         buffer' \in [Devices -> Seq(Event)],
         \A d \in Devices : Len(buffer'[d]) <= MaxBuffer,
         notices' \subseteq Devices,
         BuffersFit', FinitelyPressed'
  PROVE  RouteInv'
BY DEF RouteInv, Running, TypeOK, ConfiguredByProfile, AssertionHolds,
       ReadsHeldDevice, ScanStartsClosed, configVars, keyboardVars

LEMMA SendRoutes ==
  ASSUME RouteInv, NEW d \in Devices, NEW e \in Fitting(d), Send(d, e),
         pressed' \in [Devices -> SUBSET Keys], FinitelyPressed'
  PROVE  RouteInv'
<1>1. <<e>> \in Seq(Fitting(d))
  OBVIOUS
<1>2. /\ buffer' \in [Devices -> Seq(Event)]
      /\ \A c \in Devices : Len(buffer'[c]) <= MaxBuffer
      /\ BuffersFit'
  BY <1>1, QueueKeeps DEF Send, RouteInv
<1> QED
  BY <1>2, WorldRoutes DEF Send, RouteInv, TypeOK

LEMMA PressRoutes ==
  ASSUME RouteInv, NEW d \in Devices, NEW k \in Keys,
         Press(d, k) \/ Release(d, k) \/ Repeat(d, k)
  PROVE  RouteInv'
<1> USE KeyRoutingAssumption
<1>1. \A v \in 0 .. 2 : KeyEvent(k, v) \in Fitting(d)
  BY EventType DEF KeyEvent, Fitting
<1>2. PICK v \in 0 .. 2 : Send(d, KeyEvent(k, v))
  BY DEF Press, Release, Repeat
<1>3. PICK down \in {pressed[d] \cup {k}, pressed[d] \ {k}, pressed[d]} :
        pressed' = [pressed EXCEPT ![d] = down]
  BY DEF Press, Release, Repeat, RouteInv, TypeOK
<1>4. pressed[d] \subseteq Keys /\ IsFiniteSet(pressed[d])
  BY DEF RouteInv, TypeOK, FinitelyPressed
<1>5. down \subseteq Keys /\ IsFiniteSet(down)
  BY <1>4, FS_AddElement, FS_RemoveElement
<1>6. pressed' \in [Devices -> SUBSET Keys]
  BY <1>3, <1>5 DEF RouteInv, TypeOK
<1>7. FinitelyPressed'
  BY <1>3, <1>5 DEF RouteInv, TypeOK, FinitelyPressed
<1> QED
  BY <1>1, <1>2, <1>6, <1>7, SendRoutes

LEMMA OtherRoutes ==
  ASSUME RouteInv, NEW d \in Devices, Other(d) \/ SetRepeat(d)
  PROVE  RouteInv'
<1> USE KeyRoutingAssumption
<1>1. PICK t \in (Types[d] \ {"KEY"}) \cup {"SYN"} : Send(d, OtherEvent(t))
  <2>1. CASE Other(d)
    BY <2>1 DEF Other
  <2>2. CASE SetRepeat(d)
    BY <2>2 DEF SetRepeat
  <2> QED
    BY <2>1, <2>2
<1>2. OtherEvent(t) \in Fitting(d)
  BY EventType DEF OtherEvent, Fitting
<1>3. UNCHANGED pressed
  BY DEF Other, SetRepeat
<1> QED
  BY <1>1, <1>2, <1>3, SendRoutes DEF RouteInv, TypeOK, FinitelyPressed

(* The releases of the keys that were down, in some order. *)
LEMMA ReleasesType ==
  ASSUME NEW d \in Devices, NEW K \in SUBSET Keys, IsFiniteSet(K)
  PROVE  SetToSeq({KeyEvent(k, 0) : k \in K}) \in Seq(Fitting(d))
<1> USE KeyRoutingAssumption
<1> DEFINE R == {KeyEvent(k, 0) : k \in K}
           release == [k \in K |-> KeyEvent(k, 0)]
<1>1. R \subseteq Fitting(d)
  <2>1. ASSUME NEW k \in K PROVE KeyEvent(k, 0) \in Fitting(d)
    <3>1. "KEY" \in Types[d] /\ k \in Keys /\ KeyEvent(k, 0) \in Event
      BY EventType
    <3> QED
      BY <3>1 DEF KeyEvent, Fitting
  <2> QED
    BY <2>1
<1>2. release \in Surjection(K, R)
  BY DEF Surjection
<1> HIDE DEF R
<1>3. IsFiniteSet(R)
  BY <1>2, FS_Surjection
<1>4. Cardinality(R) \in Nat /\ ExistsBijection(1 .. Cardinality(R), R)
  BY <1>3, FS_CardinalityType
<1>5. \E f \in [1 .. Cardinality(R) -> R] : IsInjective(f)
  BY <1>4 DEF ExistsBijection, Bijection, Injection, IsInjective
<1>6. SetToSeq(R) \in [1 .. Cardinality(R) -> R]
  BY <1>5 DEF SetToSeq
<1>7. SetToSeq(R) \in Seq(R)
  BY <1>4, <1>6
<1>8. SetToSeq(R) \in Seq(Fitting(d))
  BY <1>1, <1>7
<1> QED
  BY <1>8 DEF R

LEMMA UnplugRoutes ==
  ASSUME RouteInv, NEW d \in Devices, Unplug(d)
  PROVE  RouteInv'
<1>1. pressed[d] \subseteq Keys /\ IsFiniteSet(pressed[d])
  BY DEF RouteInv, TypeOK, FinitelyPressed
<1>2. /\ buffer' \in [Devices -> Seq(Event)]
      /\ \A c \in Devices : Len(buffer'[c]) <= MaxBuffer
      /\ BuffersFit'
  BY <1>1, ReleasesType, QueueKeeps DEF Unplug, RouteInv
<1>3. FinitelyPressed'
  BY FS_EmptySet DEF Unplug, RouteInv, TypeOK, FinitelyPressed
<1>4. /\ pressed' \in [Devices -> SUBSET Keys]
      /\ presence' \in [Devices -> {"in", "leaving", "out"}]
  BY DEF Unplug, RouteInv, TypeOK
<1> QED
  BY <1>2, <1>3, <1>4, WorldRoutes DEF Unplug, RouteInv, TypeOK

LEMMA GoneRoutes ==
  ASSUME RouteInv, NEW d \in Devices, Gone(d) \/ Plug(d)
  PROVE  RouteInv'
<1>1. buffer' = [buffer EXCEPT ![d] = <<>>] \/ buffer' = buffer
  BY DEF Gone, Plug
<1>2. ASSUME NEW c \in Devices PROVE buffer'[c] = <<>> \/ buffer'[c] = buffer[c]
  <2>1. CASE buffer' = buffer
    BY <2>1
  <2>2. CASE buffer' = [buffer EXCEPT ![d] = <<>>]
    BY <2>2 DEF RouteInv, TypeOK
  <2> QED
    BY <1>1, <2>1, <2>2
<1>3. buffer' \in [Devices -> Seq(Event)]
  <2>1. <<>> \in Seq(Event) /\ buffer \in [Devices -> Seq(Event)]
    BY DEF RouteInv, TypeOK
  <2>2. ASSUME NEW none \in Seq(Event)
        PROVE  [buffer EXCEPT ![d] = none] \in [Devices -> Seq(Event)]
    BY <2>1
  <2> QED
    BY <1>1, <2>1, <2>2
<1>4. ASSUME NEW c \in Devices
      PROVE  /\ Len(buffer'[c]) <= MaxBuffer
             /\ \A i \in 1 .. Len(buffer'[c]) :
                  /\ buffer'[c][i].type \in Types[c] \cup {"SYN", "DROPPED"}
                  /\ buffer'[c][i].type = "KEY" => buffer'[c][i].code \in Keys
  <2>1. CASE buffer'[c] = <<>>
    BY <2>1, KeyRoutingAssumption
  <2>2. CASE buffer'[c] = buffer[c]
    BY <2>2 DEF RouteInv, TypeOK, BuffersFit
  <2> QED
    BY <1>2, <2>1, <2>2
<1>7. BuffersFit'
  BY <1>4 DEF BuffersFit
<1>5. /\ presence' \in [Devices -> {"in", "leaving", "out"}]
      /\ notices' \subseteq Devices
      /\ pressed' = pressed
  BY DEF Gone, Plug, RouteInv, TypeOK
<1>6. FinitelyPressed'
  BY <1>5 DEF RouteInv, FinitelyPressed
<1> QED
  BY <1>3, <1>4, <1>5, <1>6, <1>7, WorldRoutes DEF Gone, Plug, RouteInv, TypeOK

-----------------------------------------------------------------------------
LEMMA NextRoutes == RouteInv /\ [Next]_vars => RouteInv'
<1> SUFFICES ASSUME RouteInv, [Next]_vars PROVE RouteInv'
  OBVIOUS
<1>1. CASE Daemon
  BY <1>1, ConfigureRoutes, NextEventRoutes, PollRoutes, NodeCreatedRoutes,
     ReloadRoutes, ScanRoutes, ConfiguredRoutes DEF Daemon
<1>2. CASE World
  BY <1>2, PressRoutes, OtherRoutes, UnplugRoutes, GoneRoutes DEF World
<1>3. CASE UNCHANGED vars
  BY <1>3
     DEF vars, deviceVars, configVars, keyboardVars, RouteInv, TypeOK, BuffersFit,
         ConfiguredByProfile, AssertionHolds, ReadsHeldDevice, FinitelyPressed,
         ScanStartsClosed
<1> QED
  BY <1>1, <1>2, <1>3 DEF Next

(* The inductive invariant. *)
THEOREM RouteInvHolds == Spec => []RouteInv
  BY InitRouteInv, NextRoutes, PTL DEF Spec

(* Every variable keeps its type: no key event goes to a key there is not,  *)
(* and the 16-bit factor of UinputKeyboard::postMouseEvent stays a power of *)
(* two.                                                                     *)
THEOREM TypeOKHolds == Spec => []TypeOK
<1>1. RouteInv => TypeOK
  BY DEF RouteInv
<1> QED
  BY RouteInvHolds, <1>1, PTL

(* The assertion in processEvent fails for EV_REP only, however profiles    *)
(* and devices change.                                                      *)
THEOREM AssertionHoldsButForRepeat == Spec => []AssertionHolds
<1>1. RouteInv => AssertionHolds
  BY DEF RouteInv
<1> QED
  BY RouteInvHolds, <1>1, PTL

(* The invariant fixes how a device in use routes its keys. *)
LEMMA RouteInvRoutes == RouteInv => RoutesAsPromised
<1> SUFFICES ASSUME RouteInv, NEW d \in Devices
             PROVE  /\ handle[d] = "held" =>
                         \A k \in Keys :
                           (IF m_keyMaps[d][k] = Reserved
                              THEN k ELSE m_keyMaps[d][k])
                             = Promised(m_profiles[d], k)
                    /\ hasShadow[d] <=> /\ handle[d] = "held"
                                        /\ Types[d] \ {"KEY", "REP"} # {}
                                        /\ ~m_profiles[d].disableNonKeyEvent
  BY DEF RoutesAsPromised
<1> USE KeyRoutingAssumption
<1>1. CASE handle[d] = "held"
  <2>1. m_profiles[d] \in Profile
    BY <1>1 DEF RouteInv, TypeOK, ConfiguredByProfile
  <2>2. m_keyMaps[d] = MappedKeys(m_profiles[d].keyMaps)
    BY <1>1 DEF RouteInv, ConfiguredByProfile
  <2>3. hasOtherEventType(d) <=> Types[d] \ {"KEY", "REP"} # {}
    <3>1. Types[d] \subseteq EventTypes
      OBVIOUS
    <3> QED
      BY <3>1 DEF hasOtherEventType, needPassthroughType, EventTypes
  <2>4. hasShadow[d] <=> NeedsShadow(d, m_profiles[d])
    BY <1>1 DEF RouteInv, ConfiguredByProfile, TypeOK
  <2> QED
    BY <1>1, <2>1, <2>2, <2>3, <2>4, TableKeepsPromise DEF NeedsShadow
<1>2. CASE handle[d] # "held"
  BY <1>2 DEF RouteInv, ConfiguredByProfile
<1> QED
  BY <1>1, <1>2

(* Every device in use routes each of its keys as the profile in force      *)
(* promises, with the last good map deciding (EvdevInputDevice::configure), *)
(* and has a shadow exactly when it needs one.                              *)
THEOREM RoutesAsPromisedHolds == Spec => []RoutesAsPromised
  BY RouteInvHolds, RouteInvRoutes, PTL
=============================================================================

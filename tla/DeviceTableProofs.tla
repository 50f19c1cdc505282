------------------------- MODULE DeviceTableProofs -------------------------
(***************************************************************************)
(* Theorems about DeviceTable, for every set of devices, every set of      *)
(* profile lists, every bound and every kind of fault.                     *)
(***************************************************************************)
EXTENDS DeviceTable, TLAPS

(* Only while it is configured does the list hold handles.  They are new:   *)
(* none has a shadow, and one whose device is still there is on its node.   *)
ListIsFresh ==
  /\ phase # "configure" => DOMAIN deviceList = {}
  /\ \A f \in DOMAIN deviceList :
       /\ deviceList[f].shadow = None
       /\ deviceList[f].live =>
            nodes[deviceList[f].node] = deviceList[f].dev

(* A scan begins with an empty table. *)
ScanStartsEmpty == phase = "scan" => DOMAIN m_currentDevices = {}

(* No two uinput descriptors are of one device. *)
UinputsDistinct ==
  \A u, v \in DOMAIN uinput : uinput[u] = uinput[v] => u = v

(* The descriptors the tables name are all different.                       *)
DescriptorsDistinct ==
  /\ DOMAIN m_currentDevices \cap DOMAIN deviceList = {}
  /\ DOMAIN uinput
      \cap (DOMAIN m_currentDevices \cup DOMAIN deviceList) = {}
  /\ \A f \in {m_epollFd, m_signalFd, m_inotifyFd} :
       f \notin DOMAIN m_currentDevices \cup DOMAIN deviceList \cup DOMAIN uinput
  /\ m_epollFd # None => m_epollFd \notin {m_signalFd, m_inotifyFd}
  /\ m_signalFd # None => m_signalFd # m_inotifyFd

(* They are those the kernel has open; before the epoll set there is no     *)
(* other descriptor of the loop.                                            *)
OpenIsFiled ==
  /\ open = Filed
  /\ m_epollFd = None => m_signalFd = None /\ m_inotifyFd = None

(* The inductive invariant. *)
TableInv ==
  /\ TypeOK /\ GrabMatchesTable /\ DescriptorsDistinct /\ OpenIsFiled
  /\ UinputsOwned /\ NoFeedback /\ TableFollowsProfiles /\ AllPolled
  /\ ListIsFresh /\ ScanStartsEmpty /\ UinputsDistinct

-----------------------------------------------------------------------------
(* Restrict, point by point. *)
LEMMA RestrictAt ==
  ASSUME NEW f, NEW S
  PROVE  /\ DOMAIN Restrict(f, S) = S
         /\ \A x \in S : Restrict(f, S)[x] = f[x]
         /\ Restrict(f, S) = [x \in S |-> Restrict(f, S)[x]]
BY DEF Restrict

-----------------------------------------------------------------------------
(* Every action that closes descriptors of the table, destroying their      *)
(* shadows, or leaves the kernel alone (D is empty) keeps the kernel's part *)
(* of the invariant, whatever else it changes in the handles that remain.   *)
LEMMA CloseKeeps ==
  ASSUME TypeOK, GrabMatchesTable, UinputsOwned, NoFeedback, UinputsDistinct,
         NEW D \in SUBSET DOMAIN m_currentDevices,
         Close(D),
         m_currentDevices' \in [DOMAIN m_currentDevices \ D -> Handle],
         \A f \in DOMAIN m_currentDevices \ D :
           /\ m_currentDevices'[f].node = m_currentDevices[f].node
           /\ m_currentDevices'[f].dev = m_currentDevices[f].dev
           /\ m_currentDevices'[f].live = m_currentDevices[f].live
           /\ m_currentDevices'[f].shadow = m_currentDevices[f].shadow,
         keyboard' = keyboard
  PROVE  /\ nodes' \in [Nodes -> Devices \cup {Free, Virtual}]
         /\ grab' \in [Nodes -> Fds \cup {None}]
         /\ DOMAIN uinput' = DOMAIN uinput \ Shadows(D)
         /\ uinput' \in [DOMAIN uinput' -> Nodes]
         /\ \A n \in Nodes : nodes[n] # Virtual => nodes'[n] = nodes[n]
         /\ GrabMatchesTable' /\ UinputsOwned' /\ UinputsDistinct'
<1> USE DeviceTableAssumption
<1> DEFINE T == DOMAIN m_currentDevices
           gone == {uinput[u] : u \in Shadows(D)}
<1>1. /\ DOMAIN m_currentDevices' = T \ D
      /\ DOMAIN uinput' = DOMAIN uinput \ Shadows(D)
      /\ \A u \in DOMAIN uinput' : uinput'[u] = uinput[u]
      /\ uinput' = [u \in DOMAIN uinput' |-> uinput'[u]]
  BY RestrictAt DEF Close
<1>2. Shadows(D) \subseteq DOMAIN uinput
  BY DEF Shadows, UinputsOwned
<1>3. gone \subseteq {n \in Nodes : nodes[n] = Virtual}
  BY <1>2 DEF UinputsOwned
<1>4. \A n \in Nodes : nodes'[n] = IF n \in gone THEN Free ELSE nodes[n]
  BY DEF Close
<1>5. \A n \in Nodes : nodes[n] # Virtual => nodes'[n] = nodes[n]
  BY <1>3, <1>4
<1>6. \A n \in Nodes : grab'[n] = IF grab[n] \in D THEN None ELSE grab[n]
  BY DEF Close
<1>7. nodes' \in [Nodes -> Devices \cup {Free, Virtual}]
  BY DEF Close, TypeOK
<1>8. grab' \in [Nodes -> Fds \cup {None}]
  BY DEF Close, TypeOK
<1>9. uinput' \in [DOMAIN uinput' -> Nodes]
  BY <1>1 DEF TypeOK
<1>10. UinputsDistinct'
  BY <1>1 DEF UinputsDistinct
<1>11. GrabMatchesTable'
  <2>1. ASSUME NEW n \in Nodes, grab'[n] # None
        PROVE  /\ grab'[n] \in T \ D
               /\ m_currentDevices'[grab'[n]].node = n
               /\ m_currentDevices'[grab'[n]].live
    BY <2>1, <1>6 DEF GrabMatchesTable
  <2>2. ASSUME NEW f \in T \ D, m_currentDevices'[f].live
        PROVE  /\ grab'[m_currentDevices'[f].node] = f
               /\ nodes'[m_currentDevices'[f].node] = m_currentDevices'[f].dev
    <3>1. m_currentDevices[f].node \in Nodes
      BY DEF TypeOK, Handle
    <3>2. m_currentDevices[f].dev # Virtual
      BY DEF NoFeedback
    <3> QED
      BY <2>2, <3>1, <3>2, <1>5, <1>6 DEF GrabMatchesTable
  <2> QED
    BY <2>1, <2>2, <1>1 DEF GrabMatchesTable
<1>12. UinputsOwned'
  <2> DEFINE owned == {m_currentDevices[f].shadow : f \in T}
             kept == {m_currentDevices[f].shadow : f \in T \ D}
  <2>1. {m_currentDevices'[f].shadow : f \in T \ D} = kept
    OBVIOUS
  <2>2. (({keyboard} \cup owned) \ {None}) \ Shadows(D)
          = ({keyboard} \cup kept) \ {None}
    <3>1. ASSUME NEW x \in owned, x \notin Shadows(D), x # None PROVE x \in kept
      BY <3>1 DEF Shadows
    <3>2. ASSUME NEW x \in kept, x # None PROVE x \notin Shadows(D)
      BY <3>2 DEF Shadows, UinputsOwned
    <3>3. keyboard \notin Shadows(D)
      BY DEF Shadows, UinputsOwned
    <3>4. kept \subseteq owned
      OBVIOUS
    <3> HIDE DEF owned, kept
    <3>5. ASSUME NEW x
          PROVE  x \in (({keyboard} \cup owned) \ {None}) \ Shadows(D)
                   <=> x \in ({keyboard} \cup kept) \ {None}
      BY <3>1, <3>2, <3>3, <3>4
    <3> QED
      BY <3>5
  <2>3. DOMAIN uinput'
          = ({keyboard'} \cup {m_currentDevices'[f].shadow :
                                  f \in DOMAIN m_currentDevices'}) \ {None}
    <3>1. DOMAIN uinput' = ({keyboard} \cup kept) \ {None}
      <4>1. DOMAIN uinput = ({keyboard} \cup owned) \ {None}
        BY DEF UinputsOwned
      <4> HIDE DEF owned, kept
      <4> QED
        BY <1>1, <2>2, <4>1
    <3> QED
      BY <3>1, <1>1, <2>1
  <2>4. ASSUME NEW f \in DOMAIN m_currentDevices',
               m_currentDevices'[f].shadow # None
        PROVE  /\ m_currentDevices'[f].shadow # keyboard'
               /\ \A g \in DOMAIN m_currentDevices' :
                    m_currentDevices'[g].shadow = m_currentDevices'[f].shadow
                      => f = g
    BY <2>4, <1>1 DEF UinputsOwned
  <2>5. {n \in Nodes : nodes'[n] = Virtual}
          = {n \in Nodes : nodes[n] = Virtual} \ gone
    BY <1>4
  <2>6. {uinput[u] : u \in DOMAIN uinput \ Shadows(D)}
          = {uinput[u] : u \in DOMAIN uinput} \ gone
    BY <1>2 DEF UinputsDistinct
  <2>7. {n \in Nodes : nodes'[n] = Virtual} = {uinput'[u] : u \in DOMAIN uinput'}
    <3>1. {uinput'[u] : u \in DOMAIN uinput'}
            = {uinput[u] : u \in DOMAIN uinput \ Shadows(D)}
      BY <1>1
    <3> QED
      BY <2>5, <2>6, <3>1 DEF UinputsOwned
  <2> QED
    BY <2>3, <2>4, <2>7 DEF UinputsOwned
<1> QED
  BY <1>1, <1>5, <1>7, <1>8, <1>9, <1>10, <1>11, <1>12

-----------------------------------------------------------------------------
(* The notice of a node is well formed. *)

Notice == [wd : {InputWd}, mask : {"CREATE"}, name : Nodes]

LEMMA NoticeType ==
  ASSUME NEW q \in Seq(Notice), NEW n \in Nodes
  PROVE  q \o NodeCreated(n) \in Seq(Notice)
<1>1. NodeCreated(n) \in Seq(Notice)
  <2>1. [wd |-> InputWd, mask |-> "CREATE", name |-> n] \in Notice
    BY DEF Notice
  <2> QED
    BY <2>1 DEF NodeCreated
<1> QED
  BY <1>1

LEMMA NextFdType ==
  ASSUME NEW f, NEW taken, NextFd(f, taken)
  PROVE  f \in Fds /\ f \notin open /\ f \notin taken
BY DEF NextFd, Lowest

LEMMA NextNodeType ==
  ASSUME NEW n, NextNode(n)
  PROVE  n \in Nodes /\ nodes[n] = Free
BY DEF NextNode, Lowest

(* A descriptor that is not in the table is inserted, with or without a new *)
(* shadow: the table and the kernel still agree, and the handles that were  *)
(* there stay as they are.                                                  *)
LEMMA GrabKeeps ==
  ASSUME TableInv,
         NEW f \in Fds,
         f \notin DOMAIN m_currentDevices, f \notin DOMAIN uinput,
         NEW h \in Handle, h.shadow = None, h.dev \in Devices,
         h.live => nodes[h.node] = h.dev,
         NEW queue \in Seq(Notice),
         grabAndPrepare(f, h, queue),
         keyboard' = keyboard
  PROVE  /\ nodes' \in [Nodes -> Devices \cup {Free, Virtual}]
         /\ grab' \in [Nodes -> Fds \cup {None}]
         /\ DOMAIN uinput' \subseteq Fds
         /\ uinput' \in [DOMAIN uinput' -> Nodes]
         /\ inq' \in Seq(Notice)
         /\ DOMAIN m_currentDevices' = DOMAIN m_currentDevices \cup {f}
         /\ m_currentDevices' \in [DOMAIN m_currentDevices' -> Handle]
         /\ \A g \in DOMAIN m_currentDevices :
              m_currentDevices'[g] = m_currentDevices[g]
         /\ m_currentDevices'[f].dev = h.dev
         /\ m_currentDevices'[f].polled = h.polled
         /\ m_currentDevices'[f].shadow # None <=> NeedsShadow(h.dev)
         /\ DOMAIN uinput \subseteq DOMAIN uinput'
         /\ \A u \in DOMAIN uinput' :
              u \in DOMAIN uinput \/ u \notin open \cup {f}
         /\ open' = open \cup {f} \cup DOMAIN uinput'
         /\ \A n \in Nodes : nodes[n] # Free => nodes'[n] = nodes[n]
         /\ GrabMatchesTable' /\ UinputsOwned' /\ UinputsDistinct'
<1> USE DeviceTableAssumption DEF TableInv
<1> DEFINE T == DOMAIN m_currentDevices
<1>1. h.node \in Nodes /\ h.live /\ grab[h.node] = None
  BY DEF grabAndPrepare, CanGrab, Handle
<1>2. /\ grab' \in [Nodes -> Fds \cup {None}]
      /\ grab'[h.node] = f
      /\ \A n \in Nodes : n # h.node => grab'[n] = grab[n]
  BY <1>1 DEF grabAndPrepare, TypeOK
<1>3. None \notin Fds
  BY DEF Fds, None
(* What the two cases have in common: the handle as it is inserted, g.      *)
<1>4. ASSUME NEW g \in Handle, g.node = h.node, g.dev = h.dev, g.live = h.live,
             m_currentDevices' = Put(m_currentDevices, f, g),
             \A n \in Nodes : nodes[n] # Free => nodes'[n] = nodes[n]
      PROVE  /\ DOMAIN m_currentDevices' = T \cup {f}
             /\ m_currentDevices'[f] = g
             /\ \A e \in T : m_currentDevices'[e] = m_currentDevices[e]
             /\ m_currentDevices' \in [T \cup {f} -> Handle]
             /\ GrabMatchesTable'
  <2>1. /\ DOMAIN m_currentDevices' = T \cup {f}
        /\ m_currentDevices'[f] = g
        /\ \A e \in T : m_currentDevices'[e] = m_currentDevices[e]
    BY <1>4 DEF Put
  <2>2. m_currentDevices' \in [T \cup {f} -> Handle]
    BY <1>4 DEF Put, TypeOK
  <2>3. ASSUME NEW n \in Nodes, grab'[n] # None
        PROVE  /\ grab'[n] \in T \cup {f}
               /\ m_currentDevices'[grab'[n]].node = n
               /\ m_currentDevices'[grab'[n]].live
    <3>1. CASE n = h.node
      BY <3>1, <2>1, <1>1, <1>2, <1>4
    <3>2. CASE n # h.node
      <4>1. grab[n] = grab'[n]
        BY <3>2, <1>2
      <4>2. /\ grab[n] \in T
            /\ m_currentDevices[grab[n]].node = n
            /\ m_currentDevices[grab[n]].live
        BY <4>1, <2>3 DEF GrabMatchesTable
      <4> QED
        BY <4>1, <4>2, <2>1
    <3> QED
      BY <3>1, <3>2
  <2>4. ASSUME NEW e \in T, m_currentDevices'[e].live
        PROVE  /\ grab'[m_currentDevices'[e].node] = e
               /\ nodes'[m_currentDevices'[e].node] = m_currentDevices'[e].dev
    <3>1. m_currentDevices[e].node \in Nodes /\ e \in Fds
      BY DEF TypeOK, Handle
    <3>2. grab[m_currentDevices[e].node] = e
      BY <2>1, <2>4 DEF GrabMatchesTable
    <3>3. /\ nodes[m_currentDevices[e].node] = m_currentDevices[e].dev
          /\ m_currentDevices[e].dev # Free
      BY <2>1, <2>4 DEF GrabMatchesTable, NoFeedback
    <3> QED
      BY <3>1, <3>2, <3>3, <2>1, <1>1, <1>2, <1>3, <1>4
  <2>5. grab'[g.node] = f /\ nodes'[g.node] = g.dev
    BY <1>1, <1>2, <1>4
  <2> QED
    BY <2>1, <2>2, <2>3, <2>4, <2>5 DEF GrabMatchesTable
<1>5. CASE ~NeedsShadow(h.dev)
  <2>1. /\ m_currentDevices' = Put(m_currentDevices, f, h)
        /\ inq' = queue
        /\ open' = open \cup {f}
        /\ nodes' = nodes /\ uinput' = uinput
    BY <1>5 DEF grabAndPrepare
  <2>2. /\ DOMAIN m_currentDevices' = T \cup {f}
        /\ m_currentDevices'[f] = h
        /\ \A e \in T : m_currentDevices'[e] = m_currentDevices[e]
        /\ m_currentDevices' \in [T \cup {f} -> Handle]
        /\ GrabMatchesTable'
    BY <2>1, <1>4
  <2>3. {m_currentDevices'[e].shadow : e \in T \cup {f}}
          = {m_currentDevices[e].shadow : e \in T} \cup {None}
    BY <2>2
  <2>4. UinputsOwned'
    BY <2>1, <2>2, <2>3 DEF UinputsOwned
  <2>5. UinputsDistinct'
    BY <2>1 DEF UinputsDistinct
  <2>6. open' = open \cup {f} \cup DOMAIN uinput'
    BY <2>1 DEF OpenIsFiled, Filed
  <2> QED
    BY <2>1, <2>2, <2>4, <2>5, <2>6, <1>2, <1>5 DEF TypeOK
<1>6. CASE NeedsShadow(h.dev)
  <2>1. PICK u \in Fds, n \in Nodes :
          /\ NextFd(u, {f})
          /\ NextNode(n)
          /\ nodes' = [nodes EXCEPT ![n] = Virtual]
          /\ uinput' = Put(uinput, u, n)
          /\ open' = open \cup {f, u}
          /\ m_currentDevices' = Put(m_currentDevices, f, [h EXCEPT !.shadow = u])
          /\ inq' = queue \o NodeCreated(n)
    BY <1>6 DEF grabAndPrepare
  <2>2. u \notin open /\ u # f /\ nodes[n] = Free
    BY <2>1, NextFdType, NextNodeType
  <2> DEFINE g == [h EXCEPT !.shadow = u]
  <2>3. /\ g \in Handle /\ g.node = h.node /\ g.dev = h.dev /\ g.live = h.live
        /\ g.polled = h.polled /\ g.shadow = u
    BY DEF Handle
  <2>4. /\ nodes' \in [Nodes -> Devices \cup {Free, Virtual}]
        /\ nodes'[n] = Virtual
        /\ \A m \in Nodes : m # n => nodes'[m] = nodes[m]
    BY <2>1 DEF TypeOK
  <2>5. \A m \in Nodes : nodes[m] # Free => nodes'[m] = nodes[m]
    BY <2>2, <2>4
  <2>6. m_currentDevices' = Put(m_currentDevices, f, g)
    BY <2>1
  <2> HIDE DEF g
  <2>7. /\ DOMAIN m_currentDevices' = T \cup {f}
        /\ m_currentDevices'[f] = g
        /\ \A e \in T : m_currentDevices'[e] = m_currentDevices[e]
        /\ m_currentDevices' \in [T \cup {f} -> Handle]
        /\ GrabMatchesTable'
    BY <2>3, <2>5, <2>6, <1>4
  <2>8. /\ DOMAIN uinput' = DOMAIN uinput \cup {u}
        /\ u \notin DOMAIN uinput
        /\ uinput'[u] = n
        /\ \A v \in DOMAIN uinput : uinput'[v] = uinput[v]
        /\ uinput' \in [DOMAIN uinput \cup {u} -> Nodes]
    BY <2>1, <2>2 DEF Put, TypeOK, OpenIsFiled, Filed
  <2>9. \A v \in DOMAIN uinput : uinput[v] \in Nodes /\ uinput[v] # n
    BY <2>2 DEF UinputsOwned, TypeOK
  <2>10. inq' \in Seq(Notice)
    BY <2>1, NoticeType
  <2>11. UinputsDistinct'
    BY <2>8, <2>9 DEF UinputsDistinct
  <2>12. UinputsOwned'
    <3>1. {m_currentDevices'[e].shadow : e \in DOMAIN m_currentDevices'}
            = {m_currentDevices[e].shadow : e \in T} \cup {u}
      BY <2>3, <2>7
    <3>2. u # None
      BY <1>3
    <3>3. DOMAIN uinput'
            = ({keyboard'} \cup {m_currentDevices'[e].shadow :
                                    e \in DOMAIN m_currentDevices'}) \ {None}
      BY <2>8, <3>1, <3>2 DEF UinputsOwned
    <3>4. u # keyboard /\ \A e \in T : m_currentDevices[e].shadow # u
      BY <2>8, <3>2 DEF UinputsOwned
    <3>5. ASSUME NEW e \in DOMAIN m_currentDevices',
                 m_currentDevices'[e].shadow # None
          PROVE  /\ m_currentDevices'[e].shadow # keyboard'
                 /\ \A d \in DOMAIN m_currentDevices' :
                      m_currentDevices'[d].shadow = m_currentDevices'[e].shadow
                        => e = d
      BY <3>4, <3>5, <2>3, <2>7 DEF UinputsOwned
    <3>6. {m \in Nodes : nodes'[m] = Virtual} = {uinput'[v] : v \in DOMAIN uinput'}
      <4>1. {m \in Nodes : nodes'[m] = Virtual}
              = {m \in Nodes : nodes[m] = Virtual} \cup {n}
        BY <2>4
      <4>2. {uinput'[v] : v \in DOMAIN uinput'}
              = {uinput[v] : v \in DOMAIN uinput} \cup {n}
        BY <2>8
      <4> QED
        BY <4>1, <4>2 DEF UinputsOwned
    <3> QED
      BY <3>3, <3>5, <3>6 DEF UinputsOwned
  <2>13. \A v \in DOMAIN uinput' : v \in DOMAIN uinput \/ v \notin open \cup {f}
    BY <2>2, <2>8
  <2>14. open' = open \cup {f} \cup DOMAIN uinput'
    BY <2>1, <2>8 DEF OpenIsFiled, Filed
  <2> QED
    BY <2>2, <2>3, <2>4, <2>5, <2>7, <2>8, <2>10, <2>11, <2>12, <2>13, <2>14,
       <1>2, <1>3, <1>6 DEF TypeOK
<1> QED
  BY <1>5, <1>6

(* The same for a handle that is not inserted after all. *)
LEMMA ConfigureKeeps ==
  ASSUME TableInv,
         NEW f \in Fds,
         f \notin DOMAIN m_currentDevices, f \notin DOMAIN uinput,
         NEW h \in Handle, h.shadow = None, h.dev \in Devices,
         h.live => nodes[h.node] = h.dev,
         NEW queue \in Seq(Notice),
         configureAddIfMatch(f, h, queue),
         keyboard' = keyboard
  PROVE  /\ nodes' \in [Nodes -> Devices \cup {Free, Virtual}]
         /\ grab' \in [Nodes -> Fds \cup {None}]
         /\ DOMAIN uinput' \subseteq Fds
         /\ uinput' \in [DOMAIN uinput' -> Nodes]
         /\ inq' \in Seq(Notice)
         /\ DOMAIN m_currentDevices' \subseteq DOMAIN m_currentDevices \cup {f}
         /\ DOMAIN m_currentDevices \subseteq DOMAIN m_currentDevices'
         /\ m_currentDevices' \in [DOMAIN m_currentDevices' -> Handle]
         /\ \A g \in DOMAIN m_currentDevices :
              m_currentDevices'[g] = m_currentDevices[g]
         /\ f \in DOMAIN m_currentDevices' =>
              /\ m_profiles[h.dev] # "unmatched"
              /\ m_currentDevices'[f].dev = h.dev
              /\ m_currentDevices'[f].polled = h.polled
              /\ m_currentDevices'[f].shadow # None <=> NeedsShadow(h.dev)
         /\ DOMAIN uinput \subseteq DOMAIN uinput'
         /\ \A u \in DOMAIN uinput' :
              u \in DOMAIN uinput \/ u \notin open \cup {f}
         /\ open' = (open \ {f}) \cup (DOMAIN m_currentDevices' \cap {f})
                      \cup DOMAIN uinput'
         /\ \A n \in Nodes : nodes[n] # Free => nodes'[n] = nodes[n]
         /\ GrabMatchesTable' /\ UinputsOwned' /\ UinputsDistinct'
<1>1. CASE m_profiles[h.dev] # "unmatched" /\ grabAndPrepare(f, h, queue)
  <2>1. /\ DOMAIN m_currentDevices' = DOMAIN m_currentDevices \cup {f}
        /\ open' = open \cup {f} \cup DOMAIN uinput'
    BY <1>1, GrabKeeps
  <2>2. open' = (open \ {f}) \cup (DOMAIN m_currentDevices' \cap {f})
                  \cup DOMAIN uinput'
    BY <2>1
  <2> QED
    BY <1>1, <2>2, GrabKeeps
<1>2. CASE /\ inq' = queue /\ open' = open \ {f}
           /\ UNCHANGED <<nodes, grab, uinput, m_currentDevices>>
  <2>1. /\ nodes' = nodes /\ grab' = grab /\ uinput' = uinput
        /\ m_currentDevices' = m_currentDevices
    BY <1>2
  <2>2. TypeOK
    BY DEF TableInv
  <2>3. GrabMatchesTable' /\ UinputsOwned' /\ UinputsDistinct'
    BY <2>1 DEF TableInv, GrabMatchesTable, UinputsOwned, UinputsDistinct
  <2>4. open' = (open \ {f}) \cup (DOMAIN m_currentDevices' \cap {f})
                  \cup DOMAIN uinput'
    BY <1>2, <2>1 DEF TableInv, OpenIsFiled, Filed
  <2> QED
    BY <1>2, <2>1, <2>2, <2>3, <2>4 DEF TypeOK
<1> QED
  BY <1>1, <1>2 DEF configureAddIfMatch

-----------------------------------------------------------------------------
(* What is open once the table's handles in D are destroyed.                *)
LEMMA ReleasedFiled ==
  ASSUME TableInv, NEW D \in SUBSET DOMAIN m_currentDevices
  PROVE  open \ Released(D)
           = (DOMAIN m_currentDevices \ D) \cup DOMAIN deviceList
               \cup (DOMAIN uinput \ Shadows(D))
               \cup ({m_epollFd, m_signalFd, m_inotifyFd} \ {None})
<1>1. open = Filed
  BY DEF TableInv, OpenIsFiled
<1>2. Shadows(D) \subseteq DOMAIN uinput
  BY DEF TableInv, UinputsOwned, Shadows
<1>3. DescriptorsDistinct
  BY DEF TableInv
<1> HIDE DEF Shadows
<1> QED
  BY <1>1, <1>2, <1>3 DEF Filed, Released, DescriptorsDistinct

-----------------------------------------------------------------------------
LEMMA InitTableInv == Init => TableInv
<1> SUFFICES ASSUME Init PROVE TableInv
  OBVIOUS
<1> USE DeviceTableAssumption
<1>1. /\ DOMAIN uinput = {} /\ DOMAIN m_currentDevices = {}
      /\ DOMAIN deviceList = {}
  BY DEF Init
<1>2. TypeOK
  <2>1. /\ uinput \in [{} -> Nodes]
        /\ m_currentDevices \in [{} -> Handle]
        /\ deviceList \in [{} -> Handle]
    BY DEF Init
  <2>2. /\ nodes \in [Nodes -> Devices \cup {Free, Virtual}]
        /\ grab \in [Nodes -> Fds \cup {None}]
    BY DEF Init
  <2>3. inq \in Seq([wd : {InputWd}, mask : {"CREATE"}, name : Nodes])
    BY DEF Init
  <2>4. inputWatch \in BOOLEAN /\ open \subseteq Fds
    BY DEF Init
  <2>5. /\ {keyboard, m_epollFd, m_signalFd, m_inotifyFd} \subseteq Fds \cup {None}
        /\ m_profiles \in ProfileLists
        /\ phase \in Phases
    BY DEF Init, Phases
  <2> QED
    BY <1>1, <2>1, <2>2, <2>3, <2>4, <2>5 DEF TypeOK
<1>3. \A n \in Nodes : nodes[n] # Virtual
  BY DEF Init
<1> QED
  BY <1>1, <1>2, <1>3
     DEF Init, TableInv, GrabMatchesTable, DescriptorsDistinct, OpenIsFiled,
         Filed, UinputsOwned, NoFeedback, TableFollowsProfiles, AllPolled, ListIsFresh,
         ScanStartsEmpty, UinputsDistinct

LEMMA ScanKeeps == ASSUME TableInv, scanDevices PROVE TableInv'
<1> USE DeviceTableAssumption DEF TableInv
<1>1. PICK S \in SUBSET {n \in Nodes : valid(n)} :
        \E fdOf \in Allocations(S, Fds \ open) :
          /\ deviceList' = [f \in {fdOf[n] : n \in S} |->
                              NewHandle(CHOOSE n \in S : fdOf[n] = f)]
          /\ open' = open \cup {fdOf[n] : n \in S}
  BY DEF scanDevices, Outcomes
<1>2. PICK fdOf \in Allocations(S, Fds \ open) :
        /\ deviceList' = [f \in {fdOf[n] : n \in S} |->
                            NewHandle(CHOOSE n \in S : fdOf[n] = f)]
        /\ open' = open \cup {fdOf[n] : n \in S}
  BY <1>1
<1>3. fdOf \in [S -> Fds \ open]
  BY <1>2 DEF Allocations
<1>4. /\ phase = "scan" /\ phase' = "configure"
      /\ UNCHANGED <<nodes, grab, uinput, inq, m_currentDevices, keyboard,
                     m_epollFd, m_signalFd, m_inotifyFd, inputWatch, m_profiles>>
  BY DEF scanDevices, loopVars
<1>5. DOMAIN deviceList' \subseteq Fds \ open
  BY <1>2, <1>3
<1>6. ASSUME NEW f \in DOMAIN deviceList'
      PROVE  \E n \in Nodes : deviceList'[f] = NewHandle(n) /\ valid(n)
  <2>1. PICK n \in S : fdOf[n] = f
    BY <1>2
  <2> DEFINE m == CHOOSE k \in S : fdOf[k] = f
  <2>2. m \in S
    BY <2>1
  <2>3. deviceList'[f] = NewHandle(m)
    BY <1>2
  <2> QED
    BY <2>2, <2>3
<1>7. ASSUME NEW f \in DOMAIN deviceList'
      PROVE  /\ deviceList'[f] \in Handle
             /\ deviceList'[f].dev \in Devices
             /\ deviceList'[f].shadow = None
             /\ nodes[deviceList'[f].node] = deviceList'[f].dev
  <2>1. PICK n \in Nodes : deviceList'[f] = NewHandle(n) /\ valid(n)
    BY <1>6
  <2>2. nodes[n] \in Devices
    BY <2>1 DEF valid, TypeOK
  <2> QED
    BY <2>1, <2>2 DEF NewHandle, Handle, Inputs
<1>8. deviceList' \in [DOMAIN deviceList' -> Handle]
  BY <1>2, <1>7
<1>9. TypeOK'
  <2>1. open' \subseteq Fds
    BY <1>2, <1>3 DEF TypeOK
  <2> QED
    BY <1>4, <1>5, <1>8, <2>1 DEF TypeOK, Phases
<1>10. DescriptorsDistinct' /\ OpenIsFiled'
  <2>1. DescriptorsDistinct'
    <3>1. \A x \in DOMAIN deviceList' : x \in Fds /\ x \notin Filed
      BY <1>5 DEF OpenIsFiled
    <3>2. None \notin Fds
      BY DEF Fds, None
    <3> QED
      BY <1>4, <3>1, <3>2 DEF DescriptorsDistinct, Filed
  <2>2. DOMAIN deviceList = {} /\ open' = open \cup DOMAIN deviceList'
    BY <1>2, <1>4 DEF ListIsFresh
  <2> QED
    BY <1>4, <2>1, <2>2 DEF OpenIsFiled, Filed
<1>11. ListIsFresh' /\ NoFeedback'
  BY <1>4, <1>7 DEF ListIsFresh, NoFeedback
<1>12. GrabMatchesTable' /\ UinputsOwned' /\ UinputsDistinct'
  BY <1>4 DEF GrabMatchesTable, UinputsOwned, UinputsDistinct
<1>13. TableFollowsProfiles' /\ AllPolled' /\ ScanStartsEmpty'
  BY <1>4 DEF TableFollowsProfiles, AllPolled, ScanStartsEmpty
<1> QED
  BY <1>9, <1>10, <1>11, <1>12, <1>13

LEMMA ConfigureNextKeeps == ASSUME TableInv, ConfigureNext PROVE TableInv'
<1> USE DeviceTableAssumption DEF TableInv
<1>1. /\ phase = "configure"
      /\ UNCHANGED <<keyboard, m_epollFd, m_signalFd, m_inotifyFd, inputWatch,
                     m_profiles>>
  BY DEF ConfigureNext, loopVars
<1>2. CASE DOMAIN deviceList = {}
  <2>1. /\ phase' = "poll"
        /\ UNCHANGED <<nodes, grab, uinput, open, inq, m_currentDevices,
                       deviceList>>
    BY <1>2 DEF ConfigureNext, kernelVars
  <2>2. TypeOK'
    BY <1>1, <2>1 DEF TypeOK, Phases
  <2>3. /\ GrabMatchesTable' /\ DescriptorsDistinct' /\ OpenIsFiled'
        /\ UinputsOwned' /\ NoFeedback'
    BY <1>1, <2>1
       DEF GrabMatchesTable, DescriptorsDistinct, OpenIsFiled, Filed,
           UinputsOwned, NoFeedback
  <2>4. /\ TableFollowsProfiles' /\ AllPolled' /\ ListIsFresh'
        /\ ScanStartsEmpty' /\ UinputsDistinct'
    BY <1>1, <1>2, <2>1
       DEF TableFollowsProfiles, AllPolled, ListIsFresh, ScanStartsEmpty,
           UinputsDistinct, NeedsShadow
  <2> QED
    BY <2>2, <2>3, <2>4
<1>3. CASE DOMAIN deviceList # {}
  <2>1. PICK f \in DOMAIN deviceList :
          /\ configureAddIfMatch(f, deviceList[f], inq)
          /\ deviceList' = Restrict(deviceList, DOMAIN deviceList \ {f})
          /\ phase' = phase
    BY <1>3 DEF ConfigureNext, NotYet
  <2> DEFINE h == deviceList[f]
             T == DOMAIN m_currentDevices
  <2>2. /\ f \in Fds /\ f \notin T /\ f \notin DOMAIN uinput
        /\ f \notin {m_epollFd, m_signalFd, m_inotifyFd}
    BY DEF TypeOK, DescriptorsDistinct
  <2>3. /\ h \in Handle /\ h.shadow = None /\ h.dev \in Devices
        /\ h.live => nodes[h.node] = h.dev
    BY DEF TypeOK, ListIsFresh, NoFeedback
  <2>4. inq \in Seq(Notice)
    BY DEF TypeOK, Notice
  <2>5. /\ nodes' \in [Nodes -> Devices \cup {Free, Virtual}]
        /\ grab' \in [Nodes -> Fds \cup {None}]
        /\ DOMAIN uinput' \subseteq Fds
        /\ uinput' \in [DOMAIN uinput' -> Nodes]
        /\ inq' \in Seq(Notice)
        /\ T \subseteq DOMAIN m_currentDevices'
        /\ DOMAIN m_currentDevices' \subseteq T \cup {f}
        /\ m_currentDevices' \in [DOMAIN m_currentDevices' -> Handle]
        /\ \A g \in T : m_currentDevices'[g] = m_currentDevices[g]
        /\ f \in DOMAIN m_currentDevices' =>
             /\ m_profiles[h.dev] # "unmatched"
             /\ m_currentDevices'[f].dev = h.dev
             /\ m_currentDevices'[f].shadow # None <=> NeedsShadow(h.dev)
        /\ DOMAIN uinput \subseteq DOMAIN uinput'
        /\ \A u \in DOMAIN uinput' :
             u \in DOMAIN uinput \/ u \notin open \cup {f}
        /\ open' = (open \ {f}) \cup (DOMAIN m_currentDevices' \cap {f})
                     \cup DOMAIN uinput'
        /\ \A n \in Nodes : nodes[n] # Free => nodes'[n] = nodes[n]
        /\ GrabMatchesTable' /\ UinputsOwned' /\ UinputsDistinct'
    BY <1>1, <2>1, <2>2, <2>3, <2>4, ConfigureKeeps
  <2>6. /\ DOMAIN deviceList' = DOMAIN deviceList \ {f}
        /\ \A g \in DOMAIN deviceList' : deviceList'[g] = deviceList[g]
        /\ deviceList' \in [DOMAIN deviceList' -> Handle]
    BY <2>1, RestrictAt DEF TypeOK
  <2>7. TypeOK'
    <3>1. open' \subseteq Fds
      BY <2>2, <2>5 DEF TypeOK
    <3> QED
      BY <1>1, <2>1, <2>2, <2>5, <2>6, <3>1 DEF TypeOK, Notice
  <2>8. DescriptorsDistinct' /\ OpenIsFiled'
    <3>1. f \in open
      BY DEF OpenIsFiled, Filed
    <3>2. DescriptorsDistinct'
      <4>1. \A x \in DOMAIN uinput' :
              x \in Fds /\ (x \in DOMAIN uinput \/ x \notin Filed)
        BY <2>5 DEF OpenIsFiled
      <4>2. None \notin Fds
        BY DEF Fds, None
      <4>3. f \notin DOMAIN uinput'
        BY <2>2, <2>5, <3>1
      <4> QED
        BY <1>1, <2>2, <2>5, <2>6, <4>1, <4>2, <4>3
           DEF DescriptorsDistinct, Filed
    <3>3. open' = Filed'
      BY <1>1, <2>2, <2>5, <2>6 DEF OpenIsFiled, Filed
    <3> QED
      BY <1>1, <3>2, <3>3 DEF OpenIsFiled
  <2>9. NoFeedback'
    BY <2>3, <2>5, <2>6 DEF NoFeedback
  <2>10. TableFollowsProfiles'
    BY <1>1, <2>1, <2>5 DEF TableFollowsProfiles, NeedsShadow
  <2>11. AllPolled' /\ ScanStartsEmpty'
    BY <1>1, <2>1 DEF AllPolled, ScanStartsEmpty
  <2>12. ListIsFresh'
    <3>1. ASSUME NEW g \in DOMAIN deviceList', deviceList'[g].live
          PROVE  nodes'[deviceList'[g].node] = deviceList'[g].dev
      <4>1. /\ deviceList[g].node \in Nodes
            /\ deviceList[g].dev # Free
            /\ nodes[deviceList[g].node] = deviceList[g].dev
        BY <2>6, <3>1 DEF TypeOK, Handle, NoFeedback, ListIsFresh
      <4> QED
        BY <4>1, <2>5, <2>6
    <3> QED
      BY <3>1, <1>1, <2>1, <2>6 DEF ListIsFresh
  <2> QED
    BY <2>5, <2>7, <2>8, <2>9, <2>10, <2>11, <2>12
<1> QED
  BY <1>2, <1>3

LEMMA HandleEventKeeps == ASSUME TableInv, HandleEvent PROVE TableInv'
<1> USE DeviceTableAssumption DEF TableInv
<1> DEFINE n == Head(inq).name
           queue == Tail(inq)
           T == DOMAIN m_currentDevices
<1>1. n \in Nodes /\ queue \in Seq(Notice)
  <2>1. inq \in Seq(Notice) /\ inq # <<>>
    BY DEF HandleEvent, TypeOK, Notice
  <2>2. Head(inq) \in Notice
    BY <2>1
  <2> QED
    BY <2>1, <2>2 DEF Notice
<1> HIDE DEF n, queue
<1>2. /\ phase = "loop"
      /\ \/ valid(n) /\ AddDevice(n, queue)
         \/ inq' = queue /\ UNCHANGED <<kernelVars, m_currentDevices>>
      /\ UNCHANGED <<deviceList, keyboard, m_epollFd, m_signalFd, m_inotifyFd,
                     inputWatch, m_profiles, phase>>
  BY DEF HandleEvent, DeviceCreated, loopVars, n, queue
<1>3. ASSUME inq' \in Seq(Notice), UNCHANGED <<kernelVars, m_currentDevices>>
      PROVE  TableInv'
  <2>1. UNCHANGED <<nodes, grab, uinput, open, m_currentDevices>>
    BY <1>3 DEF kernelVars
  <2>2. TypeOK'
    BY <1>2, <1>3, <2>1 DEF TypeOK, Notice
  <2> QED
    BY <1>2, <2>1, <2>2
       DEF GrabMatchesTable, DescriptorsDistinct, OpenIsFiled, Filed,
           UinputsOwned, NoFeedback, TableFollowsProfiles, AllPolled,
           ListIsFresh, ScanStartsEmpty, UinputsDistinct, NeedsShadow
<1>4. CASE valid(n) /\ AddDevice(n, queue)
  <2> DEFINE h == [NewHandle(n) EXCEPT !.polled = TRUE]
  <2>1. PICK f \in Fds :
          /\ NextFd(f, {})
          /\ \/ configureAddIfMatch(f, h, queue)
             \/ /\ IF NeedsShadow(h.dev)
                     THEN \E u \in Fds, m \in Nodes :
                            /\ NextFd(u, {f})
                            /\ NextNode(m)
                            /\ inq' = queue \o NodeCreated(m)
                     ELSE inq' = queue
                /\ UNCHANGED <<kernelVars, m_currentDevices>>
    BY <1>4 DEF AddDevice
  <2>2. f \notin open
    BY <2>1, NextFdType
  <2>3. /\ f \notin T /\ f \notin DOMAIN uinput /\ f \notin DOMAIN deviceList
        /\ f \notin {m_epollFd, m_signalFd, m_inotifyFd}
    BY <2>2 DEF OpenIsFiled, Filed, Fds, None
  <2>4. /\ h \in Handle /\ h.shadow = None /\ h.dev \in Devices
        /\ h.dev = nodes[n] /\ h.node = n /\ h.polled = TRUE
    <3>1. nodes[n] \in Devices
      BY <1>1, <1>4 DEF valid, TypeOK
    <3> DEFINE new == NewHandle(n)
    <3>2. /\ new \in Handle /\ new.shadow = None
          /\ new.dev = nodes[n] /\ new.node = n
      BY <1>1, <3>1 DEF NewHandle, Handle, Inputs
    <3> HIDE DEF new
    <3> QED
      BY <3>1, <3>2 DEF Handle, new
  <2> HIDE DEF h
  <2>5. CASE ~configureAddIfMatch(f, h, queue)
    <3>1. inq' \in Seq(Notice)
      <4>1. CASE inq' = queue
        BY <4>1, <1>1
      <4>2. ASSUME NEW u \in Fds, NEW m \in Nodes, inq' = queue \o NodeCreated(m)
            PROVE  inq' \in Seq(Notice)
        BY <4>2, <1>1, NoticeType
      <4> QED
        BY <4>1, <4>2, <2>5, <2>1
    <3> QED
      BY <3>1, <2>1, <2>5, <1>3
  <2>6. CASE configureAddIfMatch(f, h, queue)
    <3>1. /\ nodes' \in [Nodes -> Devices \cup {Free, Virtual}]
          /\ grab' \in [Nodes -> Fds \cup {None}]
          /\ DOMAIN uinput' \subseteq Fds
          /\ uinput' \in [DOMAIN uinput' -> Nodes]
          /\ inq' \in Seq(Notice)
          /\ T \subseteq DOMAIN m_currentDevices'
          /\ DOMAIN m_currentDevices' \subseteq T \cup {f}
          /\ m_currentDevices' \in [DOMAIN m_currentDevices' -> Handle]
          /\ \A g \in T : m_currentDevices'[g] = m_currentDevices[g]
          /\ f \in DOMAIN m_currentDevices' =>
               /\ m_profiles[h.dev] # "unmatched"
               /\ m_currentDevices'[f].dev = h.dev
               /\ m_currentDevices'[f].polled = h.polled
               /\ m_currentDevices'[f].shadow # None <=> NeedsShadow(h.dev)
          /\ DOMAIN uinput \subseteq DOMAIN uinput'
          /\ \A u \in DOMAIN uinput' :
               u \in DOMAIN uinput \/ u \notin open \cup {f}
          /\ open' = (open \ {f}) \cup (DOMAIN m_currentDevices' \cap {f})
                       \cup DOMAIN uinput'
          /\ GrabMatchesTable' /\ UinputsOwned' /\ UinputsDistinct'
      BY <2>6, <1>1, <1>2, <2>3, <2>4, ConfigureKeeps
    <3>2. TypeOK'
      <4>1. open' \subseteq Fds
        BY <3>1 DEF TypeOK
      <4> QED
        BY <1>2, <2>3, <3>1, <4>1 DEF TypeOK, Notice
    <3>3. DescriptorsDistinct' /\ OpenIsFiled'
      <4>1. DescriptorsDistinct'
        <5>1. \A x \in DOMAIN uinput' :
                /\ x \in Fds
                /\ x \in DOMAIN uinput \/ (x \notin Filed /\ x # f)
          BY <3>1 DEF OpenIsFiled
        <5>2. None \notin Fds
          BY DEF Fds, None
        <5> QED
          BY <1>2, <2>3, <3>1, <5>1, <5>2 DEF DescriptorsDistinct, Filed
      <4>2. open' = Filed'
        BY <1>2, <2>2, <3>1 DEF OpenIsFiled, Filed
      <4> QED
        BY <1>2, <4>1, <4>2 DEF OpenIsFiled
    <3>4. NoFeedback' /\ AllPolled'
      BY <1>2, <2>4, <3>1 DEF NoFeedback, AllPolled
    <3>5. TableFollowsProfiles'
      BY <1>2, <3>1 DEF TableFollowsProfiles, NeedsShadow
    <3>6. ListIsFresh' /\ ScanStartsEmpty'
      BY <1>2 DEF ListIsFresh, ScanStartsEmpty
    <3> QED
      BY <3>1, <3>2, <3>3, <3>4, <3>5, <3>6
  <2> QED
    BY <2>1, <2>5, <2>6
<1> QED
  BY <1>1, <1>2, <1>3, <1>4

(* pollAll and enterLoop: what the epoll set refuses is closed. *)
LEMMA RegisterKeeps ==
  ASSUME TableInv, NEW kept, RegisterPolls(kept), keyboard' = keyboard
  PROVE  /\ kept \subseteq DOMAIN m_currentDevices
         /\ nodes' \in [Nodes -> Devices \cup {Free, Virtual}]
         /\ grab' \in [Nodes -> Fds \cup {None}]
         /\ DOMAIN uinput' = DOMAIN uinput \ Shadows(Refused(kept))
         /\ uinput' \in [DOMAIN uinput' -> Nodes]
         /\ DOMAIN m_currentDevices' = kept
         /\ m_currentDevices' \in [kept -> Handle]
         /\ \A f \in kept : /\ m_currentDevices'[f].dev = m_currentDevices[f].dev
                           /\ m_currentDevices'[f].shadow
                                = m_currentDevices[f].shadow
                           /\ m_currentDevices'[f].polled
         /\ GrabMatchesTable' /\ UinputsOwned' /\ UinputsDistinct'
<1> DEFINE T == DOMAIN m_currentDevices
<1>1. /\ kept \subseteq T
      /\ Close(Refused(kept))
      /\ m_currentDevices' = [f \in kept |-> [m_currentDevices[f] EXCEPT !.polled = TRUE]]
  BY DEF RegisterPolls, Outcomes, Polled
<1>2. ASSUME NEW f \in kept
      PROVE  /\ m_currentDevices'[f] \in Handle
             /\ m_currentDevices'[f].node = m_currentDevices[f].node
             /\ m_currentDevices'[f].dev = m_currentDevices[f].dev
             /\ m_currentDevices'[f].live = m_currentDevices[f].live
             /\ m_currentDevices'[f].shadow = m_currentDevices[f].shadow
             /\ m_currentDevices'[f].polled
  <2>1. m_currentDevices[f] \in Handle
    BY <1>1 DEF TableInv, TypeOK
  <2>2. m_currentDevices'[f] = [m_currentDevices[f] EXCEPT !.polled = TRUE]
    BY <1>1
  <2> QED
    BY <2>1, <2>2 DEF Handle
<1>3. DOMAIN m_currentDevices' = kept /\ m_currentDevices' \in [kept -> Handle]
  BY <1>1, <1>2
<1>4. T \ Refused(kept) = kept /\ Refused(kept) \in SUBSET T
  BY <1>1 DEF Refused
<1>5. /\ TypeOK /\ GrabMatchesTable /\ UinputsOwned /\ NoFeedback
      /\ UinputsDistinct
  BY DEF TableInv
<1> HIDE DEF T
<1>6. /\ nodes' \in [Nodes -> Devices \cup {Free, Virtual}]
      /\ grab' \in [Nodes -> Fds \cup {None}]
      /\ DOMAIN uinput' = DOMAIN uinput \ Shadows(Refused(kept))
      /\ uinput' \in [DOMAIN uinput' -> Nodes]
      /\ GrabMatchesTable' /\ UinputsOwned' /\ UinputsDistinct'
  BY <1>1, <1>2, <1>3, <1>4, <1>5, CloseKeeps DEF T
<1>7. \A f \in kept : /\ m_currentDevices'[f].dev = m_currentDevices[f].dev
                    /\ m_currentDevices'[f].shadow = m_currentDevices[f].shadow
                    /\ m_currentDevices'[f].polled
  BY <1>2
<1>8. kept \subseteq DOMAIN m_currentDevices
  BY <1>1 DEF T
<1> QED
  BY <1>3, <1>6, <1>7, <1>8

LEMMA PollAllKeeps == ASSUME TableInv, pollAll PROVE TableInv'
<1> USE DEF TableInv
<1>1. PICK kept : RegisterPolls(kept) /\ open' = open \ Released(Refused(kept))
  BY DEF pollAll
<1>2. /\ phase = "poll" /\ phase' = "loop"
      /\ UNCHANGED <<inq, deviceList, keyboard, m_epollFd, m_signalFd,
                     m_inotifyFd, inputWatch, m_profiles>>
  BY DEF pollAll, loopVars
<1>3. /\ kept \subseteq DOMAIN m_currentDevices
      /\ nodes' \in [Nodes -> Devices \cup {Free, Virtual}]
      /\ grab' \in [Nodes -> Fds \cup {None}]
      /\ DOMAIN uinput' = DOMAIN uinput \ Shadows(Refused(kept))
      /\ uinput' \in [DOMAIN uinput' -> Nodes]
      /\ DOMAIN m_currentDevices' = kept
      /\ m_currentDevices' \in [kept -> Handle]
      /\ \A f \in kept : /\ m_currentDevices'[f].dev = m_currentDevices[f].dev
                        /\ m_currentDevices'[f].shadow = m_currentDevices[f].shadow
                        /\ m_currentDevices'[f].polled
      /\ GrabMatchesTable' /\ UinputsOwned' /\ UinputsDistinct'
  BY <1>1, <1>2, RegisterKeeps
<1>4. TypeOK'
  <2>1. open' \subseteq Fds
    BY <1>1 DEF TypeOK
  <2> QED
    BY <1>2, <1>3, <2>1 DEF TypeOK, Phases
<1>5. DescriptorsDistinct' /\ OpenIsFiled'
  <2>1. DescriptorsDistinct'
    BY <1>2, <1>3 DEF DescriptorsDistinct
  <2>2. DOMAIN m_currentDevices \ Refused(kept) = kept
    BY <1>3 DEF Refused
  <2>3. open' = kept \cup DOMAIN deviceList
                  \cup (DOMAIN uinput \ Shadows(Refused(kept)))
                  \cup ({m_epollFd, m_signalFd, m_inotifyFd} \ {None})
    <3>1. Refused(kept) \in SUBSET DOMAIN m_currentDevices
      BY DEF Refused
    <3> QED
      BY <1>1, <2>2, <3>1, ReleasedFiled
  <2> QED
    BY <1>2, <1>3, <2>1, <2>3 DEF OpenIsFiled, Filed
<1>6. NoFeedback' /\ AllPolled' /\ ListIsFresh' /\ ScanStartsEmpty'
  BY <1>2, <1>3 DEF NoFeedback, AllPolled, ListIsFresh, ScanStartsEmpty
<1>7. TableFollowsProfiles'
  BY <1>2, <1>3 DEF TableFollowsProfiles, NeedsShadow
<1> QED
  BY <1>3, <1>4, <1>5, <1>6, <1>7

(* The three descriptors are new, or those of a refused device and its      *)
(* shadow.                                                                  *)
LEMMA EnterLoopKeeps == ASSUME TableInv, enterLoop PROVE TableInv'
<1> USE DEF TableInv
<1>1. PICK kept \in SUBSET DOMAIN m_currentDevices, epoll \in Fds,
           signal \in SUBSET {1}, inotify \in SUBSET {2} :
        LET after == (open \cup {epoll}) \ Released(Refused(kept))
        IN /\ NextFd(epoll, {})
           /\ RegisterPolls(kept)
           /\ m_epollFd' = epoll
           /\ \E fd \in Allocations(signal \cup inotify, Fds \ after) :
                /\ createSignalFd(signal, fd) /\ createInotifyFd(inotify, fd)
                /\ open' = after \cup Range(fd)
  BY DEF enterLoop, Outcomes
<1> DEFINE T == DOMAIN m_currentDevices
           after == (open \cup {epoll}) \ Released(Refused(kept))
           fds == Fds \ after
<1>2. /\ phase = "poll" /\ phase' = "loop" /\ m_epollFd = None
      /\ UNCHANGED <<inq, deviceList, keyboard, m_profiles>>
  BY DEF enterLoop
<1>3. /\ nodes' \in [Nodes -> Devices \cup {Free, Virtual}]
      /\ grab' \in [Nodes -> Fds \cup {None}]
      /\ DOMAIN uinput' = DOMAIN uinput \ Shadows(Refused(kept))
      /\ uinput' \in [DOMAIN uinput' -> Nodes]
      /\ DOMAIN m_currentDevices' = kept
      /\ m_currentDevices' \in [kept -> Handle]
      /\ \A f \in kept : /\ m_currentDevices'[f].dev = m_currentDevices[f].dev
                        /\ m_currentDevices'[f].shadow = m_currentDevices[f].shadow
                        /\ m_currentDevices'[f].polled
      /\ GrabMatchesTable' /\ UinputsOwned' /\ UinputsDistinct'
  BY <1>1, <1>2, RegisterKeeps
<1>4. PICK fd \in Allocations(signal \cup inotify, fds) :
        /\ createSignalFd(signal, fd) /\ createInotifyFd(inotify, fd)
        /\ open' = after \cup Range(fd)
  BY <1>1
<1>5. /\ fd \in [signal \cup inotify -> fds]
      /\ \A x, y \in signal \cup inotify : x < y => fd[x] < fd[y]
  BY <1>4 DEF Allocations
<1>6. /\ m_epollFd' \in Fds /\ m_epollFd' \notin open
      /\ None \notin Fds
  BY <1>1, NextFdType DEF Fds, None
<1> HIDE DEF fds
<1>7. signal # {} => m_signalFd' = fd[1] /\ fd[1] \in fds
  BY <1>4, <1>5 DEF createSignalFd
<1>8. inotify # {} => m_inotifyFd' = fd[2] /\ fd[2] \in fds
  BY <1>4, <1>5 DEF createInotifyFd
<1>9. /\ signal = {} => m_signalFd' = None
      /\ inotify = {} => m_inotifyFd' = None
      /\ inputWatch' \in BOOLEAN
  BY <1>4 DEF createSignalFd, createInotifyFd
<1>10. {m_signalFd', m_inotifyFd'} \subseteq fds \cup {None}
  BY <1>7, <1>8, <1>9
<1>11. m_signalFd' # None => m_signalFd' # m_inotifyFd'
  <2>1. CASE signal = {} \/ inotify = {}
    BY <2>1, <1>6, <1>7, <1>9 DEF fds
  <2>2. CASE signal # {} /\ inotify # {}
    <3>1. 1 \in signal /\ 2 \in inotify
      BY <2>2
    <3>2. fd[1] < fd[2] /\ fd[1] \in Fds /\ fd[2] \in Fds
      BY <1>5, <1>7, <1>8, <2>2, <3>1 DEF fds
    <3> QED
      BY <1>7, <1>8, <2>2, <3>2 DEF Fds
  <2> QED
    BY <2>1, <2>2
<1>12. TypeOK'
  <2>1. open' \subseteq Fds
    BY <1>4, <1>5 DEF Range, TypeOK, fds
  <2> QED
    BY <1>2, <1>3, <1>6, <1>9, <1>10, <2>1 DEF TypeOK, Phases, fds
(* What stays open is the rest of the table with its shadows, and epoll.    *)
<1>13. after = kept \cup DOMAIN uinput' \cup {m_epollFd'}
  <2>1. Refused(kept) \in SUBSET T /\ T \ Refused(kept) = kept
    BY DEF Refused
  <2>2. Released(Refused(kept)) \subseteq open
    BY <2>1 DEF Released, Shadows, UinputsOwned, OpenIsFiled, Filed
  <2>3. epoll \notin Released(Refused(kept)) /\ m_epollFd' = epoll
    BY <1>1, <1>6, <2>2
  <2>4. /\ DOMAIN deviceList = {}
        /\ m_signalFd = None /\ m_inotifyFd = None
    BY <1>2 DEF ListIsFresh, OpenIsFiled
  <2>5. open \ Released(Refused(kept))
          = kept \cup (DOMAIN uinput \ Shadows(Refused(kept)))
    <3>1. open \ Released(Refused(kept))
            = (T \ Refused(kept)) \cup DOMAIN deviceList
                \cup (DOMAIN uinput \ Shadows(Refused(kept)))
                \cup ({m_epollFd, m_signalFd, m_inotifyFd} \ {None})
      BY <2>1, ReleasedFiled
    <3> QED
      BY <1>2, <2>1, <2>4, <3>1
  <2> QED
    BY <1>3, <2>3, <2>5
<1>14. DescriptorsDistinct' /\ OpenIsFiled'
  <2>1. DOMAIN deviceList' = {}
    BY <1>2 DEF ListIsFresh
  <2>2. /\ kept \cup DOMAIN uinput' \subseteq Fds
        /\ kept \cap DOMAIN uinput' = {}
    BY <1>3 DEF TypeOK, DescriptorsDistinct
  <2>3. m_epollFd' \notin kept \cup DOMAIN uinput'
    BY <1>3, <1>6 DEF OpenIsFiled, Filed
  <2>4. m_epollFd' \notin {m_signalFd', m_inotifyFd'}
    BY <1>6, <1>10, <1>13 DEF fds
  <2>5. DescriptorsDistinct'
    <3>1. {m_signalFd', m_inotifyFd'} \cap (kept \cup DOMAIN uinput') = {}
      BY <1>6, <1>10, <1>13, <2>2 DEF fds
    <3> QED
      BY <2>1, <2>2, <2>3, <2>4, <3>1, <1>3, <1>11 DEF DescriptorsDistinct
  <2>6. Range(fd) = {m_signalFd', m_inotifyFd'} \ {None}
    <3>1. DOMAIN fd = signal \cup inotify
      BY <1>5
    <3>2. None \notin Range(fd)
      BY <1>5, <1>6 DEF Range, fds
    <3>3. Range(fd) \subseteq {m_signalFd', m_inotifyFd'}
      BY <3>1, <1>7, <1>8 DEF Range
    <3>4. {m_signalFd', m_inotifyFd'} \subseteq Range(fd) \cup {None}
      BY <3>1, <1>7, <1>8, <1>9 DEF Range
    <3> QED
      BY <3>2, <3>3, <3>4
  <2>7. open' = Filed'
    BY <1>3, <1>4, <1>6, <1>13, <2>1, <2>6 DEF Filed
  <2> QED
    BY <1>6, <2>5, <2>7 DEF OpenIsFiled
<1>15. NoFeedback' /\ AllPolled' /\ ListIsFresh' /\ ScanStartsEmpty'
  BY <1>2, <1>3 DEF NoFeedback, AllPolled, ListIsFresh, ScanStartsEmpty
<1>16. TableFollowsProfiles'
  BY <1>2, <1>3 DEF TableFollowsProfiles, NeedsShadow
<1> QED
  BY <1>3, <1>12, <1>14, <1>15, <1>16

(* The end of the process gives everything back. *)
LEMMA EndKeeps ==
  ASSUME TableInv, End, phase \in {"poll", "loop"}
  PROVE  TableInv'
<1> USE DeviceTableAssumption DEF TableInv
<1>1. /\ DOMAIN uinput' = {} /\ DOMAIN m_currentDevices' = {}
      /\ DOMAIN deviceList' = {} /\ deviceList' = deviceList
  BY DEF End, ListIsFresh
<1>2. \A n \in Nodes : nodes'[n] \in Devices \cup {Free}
  BY DEF End, Range, TypeOK, UinputsOwned
<1>3. \A n \in Nodes : grab'[n] = None
  BY DEF End
<1>4. TypeOK'
  <2>1. /\ uinput' \in [{} -> Nodes]
        /\ m_currentDevices' \in [{} -> Handle]
        /\ deviceList' \in [{} -> Handle]
    BY <1>1 DEF End, TypeOK
  <2>2. /\ nodes' \in [Nodes -> Devices \cup {Free, Virtual}]
        /\ grab' \in [Nodes -> Fds \cup {None}]
    BY <1>2 DEF End
  <2>3. inq' \in Seq([wd : {InputWd}, mask : {"CREATE"}, name : Nodes])
    BY DEF End
  <2>4. inputWatch' \in BOOLEAN /\ open' \subseteq Fds
    BY DEF End
  <2>5. /\ {keyboard', m_epollFd', m_signalFd', m_inotifyFd'}
             \subseteq Fds \cup {None}
        /\ m_profiles' \in ProfileLists
        /\ phase' \in Phases
    BY DEF End, TypeOK, Phases
  <2> QED
    BY <1>1, <2>1, <2>2, <2>3, <2>4, <2>5 DEF TypeOK
<1>5. GrabMatchesTable' /\ UinputsDistinct' /\ NoFeedback'
  BY <1>1, <1>3 DEF GrabMatchesTable, UinputsDistinct, NoFeedback
<1>6. UinputsOwned'
  BY <1>1, <1>2 DEF End, UinputsOwned
<1>7. DescriptorsDistinct' /\ OpenIsFiled'
  BY <1>1 DEF End, DescriptorsDistinct, OpenIsFiled, Filed
<1>8. TableFollowsProfiles' /\ AllPolled' /\ ListIsFresh' /\ ScanStartsEmpty'
  BY <1>1 DEF TableFollowsProfiles, AllPolled, ListIsFresh, ScanStartsEmpty
<1> QED
  BY <1>4, <1>5, <1>6, <1>7, <1>8

LEMMA ReloadKeeps == ASSUME TableInv, Reload PROVE TableInv'
<1> USE DEF TableInv
<1> DEFINE T == DOMAIN m_currentDevices
<1>1. /\ phase = "loop" /\ phase' = "scan" /\ m_profiles' \in ProfileLists
      /\ Close(T) /\ m_currentDevices' = Restrict(m_currentDevices, T \ T)
      /\ open' = open \ Released(T)
      /\ UNCHANGED <<inq, deviceList, keyboard, m_epollFd, m_signalFd,
                     m_inotifyFd, inputWatch>>
  BY DEF Reload, ClearDevices, Cleared, Destroy, loopVars
<1>2. /\ DOMAIN m_currentDevices' = {}
      /\ m_currentDevices' \in [T \ T -> Handle]
  BY <1>1 DEF Restrict
<1>3. DOMAIN deviceList = {}
  BY <1>1 DEF ListIsFresh
<1>4. /\ nodes' \in [Nodes -> Devices \cup {Free, Virtual}]
      /\ grab' \in [Nodes -> Fds \cup {None}]
      /\ DOMAIN uinput' = DOMAIN uinput \ Shadows(T)
      /\ uinput' \in [DOMAIN uinput' -> Nodes]
      /\ GrabMatchesTable' /\ UinputsOwned' /\ UinputsDistinct'
  BY <1>1, <1>2, CloseKeeps
<1>5. TypeOK'
  <2>1. open' \subseteq Fds
    BY <1>1 DEF TypeOK
  <2> QED
    BY <1>1, <1>2, <1>4, <2>1 DEF TypeOK, Phases
<1>6. DescriptorsDistinct' /\ OpenIsFiled'
  <2>1. DescriptorsDistinct'
    BY <1>1, <1>2, <1>3, <1>4 DEF DescriptorsDistinct
  <2>2. open \ Released(T)
          = (T \ T) \cup DOMAIN deviceList \cup (DOMAIN uinput \ Shadows(T))
              \cup ({m_epollFd, m_signalFd, m_inotifyFd} \ {None})
    BY ReleasedFiled
  <2> QED
    BY <1>1, <1>2, <1>4, <2>1, <2>2 DEF OpenIsFiled, Filed
<1>7. /\ NoFeedback' /\ TableFollowsProfiles' /\ AllPolled' /\ ListIsFresh'
      /\ ScanStartsEmpty'
  BY <1>1, <1>2, <1>3
     DEF NoFeedback, TableFollowsProfiles, AllPolled, ListIsFresh,
         ScanStartsEmpty
<1> QED
  BY <1>4, <1>5, <1>6, <1>7

LEMMA PlugKeeps == ASSUME TableInv, NEW d \in Devices, Plug(d) PROVE TableInv'
<1> USE DeviceTableAssumption DEF TableInv
<1>1. PICK n \in Nodes :
        /\ NextNode(n)
        /\ nodes' = [nodes EXCEPT ![n] = d]
        /\ inq' = inq \o NodeCreated(n)
  BY DEF Plug
<1>2. UNCHANGED <<grab, uinput, open, m_currentDevices, deviceList, keyboard,
                  m_epollFd, m_signalFd, m_inotifyFd, inputWatch, m_profiles,
                  phase>>
  BY DEF Plug, loopVars
<1>3. nodes[n] = Free
  BY <1>1, NextNodeType
<1>4. /\ nodes' \in [Nodes -> Devices \cup {Free, Virtual}]
      /\ nodes'[n] = d
      /\ \A m \in Nodes : m # n => nodes'[m] = nodes[m]
  BY <1>1 DEF TypeOK
<1>5. inq' \in Seq(Notice)
  BY <1>1, NoticeType DEF TypeOK, Notice
<1>6. TypeOK'
  BY <1>2, <1>4, <1>5 DEF TypeOK, Notice
<1>7. GrabMatchesTable'
  <2>1. ASSUME NEW f \in DOMAIN m_currentDevices, m_currentDevices[f].live
        PROVE  nodes'[m_currentDevices[f].node] = m_currentDevices[f].dev
    BY <2>1, <1>3, <1>4 DEF GrabMatchesTable, NoFeedback, TypeOK, Handle
  <2> QED
    BY <2>1, <1>2 DEF GrabMatchesTable
<1>8. ListIsFresh'
  <2>1. ASSUME NEW f \in DOMAIN deviceList, deviceList[f].live
        PROVE  nodes'[deviceList[f].node] = deviceList[f].dev
    BY <2>1, <1>3, <1>4 DEF ListIsFresh, NoFeedback, TypeOK, Handle
  <2> QED
    BY <2>1, <1>2 DEF ListIsFresh
<1>9. UinputsOwned'
  <2>1. {m \in Nodes : nodes'[m] = Virtual} = {m \in Nodes : nodes[m] = Virtual}
    BY <1>3, <1>4
  <2> QED
    BY <2>1, <1>2 DEF UinputsOwned
<1> QED
  BY <1>2, <1>6, <1>7, <1>8, <1>9
     DEF DescriptorsDistinct, OpenIsFiled, Filed, NoFeedback,
         TableFollowsProfiles, AllPolled, ScanStartsEmpty, UinputsDistinct,
         NeedsShadow

(* A handle that is marked stays otherwise as it was. *)
LEMMA KilledAt ==
  ASSUME NEW handles, NEW n, \A f \in DOMAIN handles : handles[f] \in Handle
  PROVE  /\ DOMAIN Killed(handles, n) = DOMAIN handles
         /\ Killed(handles, n) \in [DOMAIN handles -> Handle]
         /\ \A f \in DOMAIN handles :
              /\ Killed(handles, n)[f].node = handles[f].node
              /\ Killed(handles, n)[f].dev = handles[f].dev
              /\ Killed(handles, n)[f].shadow = handles[f].shadow
              /\ Killed(handles, n)[f].polled = handles[f].polled
              /\ Killed(handles, n)[f].live <=>
                   handles[f].live /\ handles[f].node # n
<1>1. \A f \in DOMAIN handles :
        Killed(handles, n)[f]
          = [handles[f] EXCEPT !.live = handles[f].live /\ handles[f].node # n]
  BY DEF Killed
<1> QED
  BY <1>1 DEF Killed, Handle

LEMMA UnplugKeeps == ASSUME TableInv, NEW d \in Devices, Unplug(d) PROVE TableInv'
<1> USE DeviceTableAssumption DEF TableInv
<1> DEFINE T == DOMAIN m_currentDevices
           L == DOMAIN deviceList
<1>1. PICK n \in Nodes :
        /\ nodes[n] = d
        /\ nodes' = [nodes EXCEPT ![n] = Free]
        /\ grab' = [grab EXCEPT ![n] = None]
        /\ m_currentDevices' = Killed(m_currentDevices, n)
        /\ deviceList' = Killed(deviceList, n)
  BY DEF Unplug
<1>2. UNCHANGED <<uinput, open, inq, keyboard, m_epollFd, m_signalFd,
                  m_inotifyFd, inputWatch, m_profiles, phase>>
  BY DEF Unplug, loopVars
<1>3. /\ nodes' \in [Nodes -> Devices \cup {Free, Virtual}]
      /\ nodes'[n] = Free
      /\ \A m \in Nodes : m # n => nodes'[m] = nodes[m]
  BY <1>1 DEF TypeOK
<1>4. /\ grab' \in [Nodes -> Fds \cup {None}]
      /\ grab'[n] = None
      /\ \A m \in Nodes : m # n => grab'[m] = grab[m]
  BY <1>1 DEF TypeOK
<1>5. /\ DOMAIN m_currentDevices' = T
      /\ m_currentDevices' \in [T -> Handle]
      /\ \A f \in T :
           /\ m_currentDevices'[f].node = m_currentDevices[f].node
           /\ m_currentDevices'[f].dev = m_currentDevices[f].dev
           /\ m_currentDevices'[f].shadow = m_currentDevices[f].shadow
           /\ m_currentDevices'[f].polled = m_currentDevices[f].polled
           /\ m_currentDevices'[f].live <=>
                m_currentDevices[f].live /\ m_currentDevices[f].node # n
  BY <1>1, KilledAt DEF TypeOK
<1>6. /\ DOMAIN deviceList' = L
      /\ deviceList' \in [L -> Handle]
      /\ \A f \in L :
           /\ deviceList'[f].node = deviceList[f].node
           /\ deviceList'[f].dev = deviceList[f].dev
           /\ deviceList'[f].shadow = deviceList[f].shadow
           /\ deviceList'[f].live <=> deviceList[f].live /\ deviceList[f].node # n
  BY <1>1, KilledAt DEF TypeOK
<1>7. TypeOK'
  BY <1>2, <1>3, <1>4, <1>5, <1>6 DEF TypeOK
<1>8. GrabMatchesTable'
  <2>1. ASSUME NEW m \in Nodes, grab'[m] # None
        PROVE  /\ grab'[m] \in T
               /\ m_currentDevices'[grab'[m]].node = m
               /\ m_currentDevices'[grab'[m]].live
    BY <2>1, <1>4, <1>5 DEF GrabMatchesTable
  <2>2. ASSUME NEW f \in T, m_currentDevices'[f].live
        PROVE  /\ grab'[m_currentDevices'[f].node] = f
               /\ nodes'[m_currentDevices'[f].node] = m_currentDevices'[f].dev
    BY <2>2, <1>3, <1>4, <1>5 DEF GrabMatchesTable, TypeOK, Handle
  <2> QED
    BY <2>1, <2>2, <1>5 DEF GrabMatchesTable
<1>9. DescriptorsDistinct' /\ OpenIsFiled'
  BY <1>2, <1>5, <1>6 DEF DescriptorsDistinct, OpenIsFiled, Filed
<1>10. UinputsOwned'
  <2>1. {m \in Nodes : nodes'[m] = Virtual} = {m \in Nodes : nodes[m] = Virtual}
    BY <1>1, <1>3
  <2>2. {m_currentDevices'[f].shadow : f \in T} = {m_currentDevices[f].shadow : f \in T}
    BY <1>5
  <2> QED
    BY <2>1, <2>2, <1>2, <1>5 DEF UinputsOwned
<1>11. NoFeedback' /\ TableFollowsProfiles' /\ AllPolled'
  BY <1>2, <1>5, <1>6
     DEF NoFeedback, TableFollowsProfiles, AllPolled, NeedsShadow
<1>12. ListIsFresh'
  BY <1>2, <1>3, <1>6 DEF ListIsFresh, TypeOK, Handle
<1>13. ScanStartsEmpty' /\ UinputsDistinct'
  BY <1>2, <1>5 DEF ScanStartsEmpty, UinputsDistinct
<1> QED
  BY <1>7, <1>8, <1>9, <1>10, <1>11, <1>12, <1>13

(* What waits in a handle's buffer is no part of the invariant. *)
LEMMA InputKeeps ==
  ASSUME TableInv,
         UNCHANGED <<nodes, grab, uinput, open, inq, keyboard, m_epollFd,
                     m_signalFd, m_inotifyFd, inputWatch, m_profiles, phase>>,
         m_currentDevices' \in [DOMAIN m_currentDevices -> Handle],
         \A f \in DOMAIN m_currentDevices :
           /\ m_currentDevices'[f].node = m_currentDevices[f].node
           /\ m_currentDevices'[f].dev = m_currentDevices[f].dev
           /\ m_currentDevices'[f].live = m_currentDevices[f].live
           /\ m_currentDevices'[f].shadow = m_currentDevices[f].shadow
           /\ m_currentDevices'[f].polled = m_currentDevices[f].polled,
         deviceList' \in [DOMAIN deviceList -> Handle],
         \A f \in DOMAIN deviceList :
           /\ deviceList'[f].node = deviceList[f].node
           /\ deviceList'[f].dev = deviceList[f].dev
           /\ deviceList'[f].live = deviceList[f].live
           /\ deviceList'[f].shadow = deviceList[f].shadow
  PROVE  TableInv'
<1> USE DEF TableInv
<1> DEFINE T == DOMAIN m_currentDevices
<1>1. /\ DOMAIN m_currentDevices' = T
      /\ DOMAIN deviceList' = DOMAIN deviceList
  OBVIOUS
<1>2. TypeOK'
  BY <1>1 DEF TypeOK
<1>3. GrabMatchesTable'
  BY <1>1 DEF GrabMatchesTable
<1>4. UinputsOwned'
  <2>1. {m_currentDevices'[f].shadow : f \in T} = {m_currentDevices[f].shadow : f \in T}
    OBVIOUS
  <2> QED
    BY <2>1, <1>1 DEF UinputsOwned
<1>5. /\ DescriptorsDistinct' /\ OpenIsFiled' /\ NoFeedback'
      /\ UinputsDistinct' /\ ScanStartsEmpty'
  BY <1>1 DEF DescriptorsDistinct, OpenIsFiled, Filed, NoFeedback,
              UinputsDistinct, ScanStartsEmpty
<1>6. TableFollowsProfiles' /\ AllPolled' /\ ListIsFresh'
  BY <1>1 DEF TableFollowsProfiles, AllPolled, ListIsFresh, NeedsShadow
<1> QED
  BY <1>2, <1>3, <1>4, <1>5, <1>6

LEMMA TypedAt ==
  ASSUME NEW handles, NEW n, NEW input \in Inputs,
         \A f \in DOMAIN handles : handles[f] \in Handle
  PROVE  /\ Typed(handles, n, input) \in [DOMAIN handles -> Handle]
         /\ \A f \in DOMAIN handles :
              /\ Typed(handles, n, input)[f].node = handles[f].node
              /\ Typed(handles, n, input)[f].dev = handles[f].dev
              /\ Typed(handles, n, input)[f].live = handles[f].live
              /\ Typed(handles, n, input)[f].shadow = handles[f].shadow
              /\ Typed(handles, n, input)[f].polled = handles[f].polled
<1>1. \A f \in DOMAIN handles :
        \/ Typed(handles, n, input)[f] = [handles[f] EXCEPT !.input = input]
        \/ Typed(handles, n, input)[f] = handles[f]
  BY DEF Typed
<1> QED
  BY <1>1 DEF Typed, Handle

LEMMA KeyPressKeeps ==
  ASSUME TableInv, NEW d \in Devices, KeyPress(d)
  PROVE  TableInv'
<1>1. PICK n \in Nodes, input \in {"keys", "dropped"} :
        /\ m_currentDevices' = Typed(m_currentDevices, n, input)
        /\ deviceList' = Typed(deviceList, n, input)
  BY DEF KeyPress
<1>2. UNCHANGED <<nodes, grab, uinput, open, inq, keyboard, m_epollFd,
                  m_signalFd, m_inotifyFd, inputWatch, m_profiles, phase>>
  BY DEF KeyPress, kernelVars, loopVars
<1>3. /\ \A f \in DOMAIN m_currentDevices : m_currentDevices[f] \in Handle
      /\ \A f \in DOMAIN deviceList : deviceList[f] \in Handle
      /\ input \in Inputs
  BY DEF TableInv, TypeOK, Inputs
<1>4. /\ m_currentDevices' \in [DOMAIN m_currentDevices -> Handle]
      /\ \A f \in DOMAIN m_currentDevices :
           /\ m_currentDevices'[f].node = m_currentDevices[f].node
           /\ m_currentDevices'[f].dev = m_currentDevices[f].dev
           /\ m_currentDevices'[f].live = m_currentDevices[f].live
           /\ m_currentDevices'[f].shadow = m_currentDevices[f].shadow
           /\ m_currentDevices'[f].polled = m_currentDevices[f].polled
  BY <1>1, <1>3, TypedAt
<1>5. /\ deviceList' \in [DOMAIN deviceList -> Handle]
      /\ \A f \in DOMAIN deviceList :
           /\ deviceList'[f].node = deviceList[f].node
           /\ deviceList'[f].dev = deviceList[f].dev
           /\ deviceList'[f].live = deviceList[f].live
           /\ deviceList'[f].shadow = deviceList[f].shadow
  BY <1>1, <1>3, TypedAt
<1> QED
  BY <1>2, <1>4, <1>5, InputKeeps

(* A key is posted for the first time: the virtual keyboard has a           *)
(* descriptor and a node of its own.                                        *)
LEMMA KeyboardKeeps ==
  ASSUME TableInv, keyboard = None, CreateKeyboard,
         phase = "loop",
         UNCHANGED <<grab, deviceList, m_epollFd, m_signalFd, m_inotifyFd,
                     inputWatch, m_profiles, phase>>,
         m_currentDevices' \in [DOMAIN m_currentDevices -> Handle],
         \A f \in DOMAIN m_currentDevices :
           /\ m_currentDevices'[f].node = m_currentDevices[f].node
           /\ m_currentDevices'[f].dev = m_currentDevices[f].dev
           /\ m_currentDevices'[f].live = m_currentDevices[f].live
           /\ m_currentDevices'[f].shadow = m_currentDevices[f].shadow
           /\ m_currentDevices'[f].polled = m_currentDevices[f].polled
  PROVE  TableInv'
<1> USE DeviceTableAssumption DEF TableInv
<1> DEFINE T == DOMAIN m_currentDevices
<1>1. PICK u \in Fds, n \in Nodes :
        /\ NextFd(u, {})
        /\ NextNode(n)
        /\ keyboard' = u
        /\ nodes' = [nodes EXCEPT ![n] = Virtual]
        /\ uinput' = Put(uinput, u, n)
        /\ open' = open \cup {u}
        /\ inq' = inq \o NodeCreated(n)
  BY DEF CreateKeyboard
<1>2. u \notin open /\ nodes[n] = Free
  BY <1>1, NextFdType, NextNodeType
<1>3. /\ nodes' \in [Nodes -> Devices \cup {Free, Virtual}]
      /\ nodes'[n] = Virtual
      /\ \A m \in Nodes : m # n => nodes'[m] = nodes[m]
  BY <1>1 DEF TypeOK
<1>4. /\ DOMAIN uinput' = DOMAIN uinput \cup {u}
      /\ u \notin DOMAIN uinput
      /\ uinput'[u] = n
      /\ \A v \in DOMAIN uinput : uinput'[v] = uinput[v]
      /\ uinput' \in [DOMAIN uinput \cup {u} -> Nodes]
  BY <1>1, <1>2 DEF Put, TypeOK, OpenIsFiled, Filed
<1>5. DOMAIN m_currentDevices' = T /\ DOMAIN deviceList = {}
  BY DEF ListIsFresh
<1>6. inq' \in Seq(Notice)
  BY <1>1, NoticeType DEF TypeOK, Notice
<1>7. TypeOK'
  BY <1>1, <1>3, <1>4, <1>5, <1>6 DEF TypeOK, Notice
<1>8. GrabMatchesTable'
  <2>1. ASSUME NEW f \in T, m_currentDevices[f].live
        PROVE  nodes'[m_currentDevices[f].node] = m_currentDevices[f].dev
    BY <2>1, <1>2, <1>3 DEF GrabMatchesTable, NoFeedback, TypeOK, Handle
  <2> QED
    BY <2>1, <1>5 DEF GrabMatchesTable
<1>9. DescriptorsDistinct' /\ OpenIsFiled'
  <2>1. DescriptorsDistinct'
    BY <1>2, <1>4, <1>5 DEF DescriptorsDistinct, OpenIsFiled, Filed, Fds, None
  <2> QED
    BY <1>1, <1>4, <1>5, <2>1 DEF OpenIsFiled, Filed
<1>10. UinputsDistinct'
  <2>1. \A v \in DOMAIN uinput : uinput[v] # n
    BY <1>2 DEF UinputsOwned, TypeOK
  <2> QED
    BY <2>1, <1>4 DEF UinputsDistinct
<1>11. UinputsOwned'
  <2>1. {m_currentDevices'[f].shadow : f \in DOMAIN m_currentDevices'}
          = {m_currentDevices[f].shadow : f \in T}
    BY <1>5
  <2>2. u # None
    BY DEF Fds, None
  <2>3. DOMAIN uinput'
          = ({keyboard'} \cup {m_currentDevices'[f].shadow :
                                  f \in DOMAIN m_currentDevices'}) \ {None}
    BY <1>1, <1>4, <2>1, <2>2 DEF UinputsOwned
  <2>4. ASSUME NEW f \in DOMAIN m_currentDevices',
               m_currentDevices'[f].shadow # None
        PROVE  /\ m_currentDevices'[f].shadow # keyboard'
               /\ \A g \in DOMAIN m_currentDevices' :
                    m_currentDevices'[g].shadow = m_currentDevices'[f].shadow
                      => f = g
    BY <2>4, <1>1, <1>4, <1>5 DEF UinputsOwned
  <2>5. {m \in Nodes : nodes'[m] = Virtual} = {uinput'[v] : v \in DOMAIN uinput'}
    <3>1. {m \in Nodes : nodes'[m] = Virtual}
            = {m \in Nodes : nodes[m] = Virtual} \cup {n}
      BY <1>3
    <3>2. {uinput'[v] : v \in DOMAIN uinput'}
            = {uinput[v] : v \in DOMAIN uinput} \cup {n}
      BY <1>4
    <3> QED
      BY <3>1, <3>2 DEF UinputsOwned
  <2> QED
    BY <2>3, <2>4, <2>5 DEF UinputsOwned
<1>12. NoFeedback' /\ TableFollowsProfiles' /\ AllPolled'
  BY <1>5 DEF NoFeedback, TableFollowsProfiles, AllPolled, NeedsShadow
<1>13. ListIsFresh' /\ ScanStartsEmpty'
  BY <1>5 DEF ListIsFresh, ScanStartsEmpty
<1> QED
  BY <1>7, <1>8, <1>9, <1>10, <1>11, <1>12, <1>13

LEMMA ReadDeviceKeeps == ASSUME TableInv, ReadDevice PROVE TableInv'
<1> USE DEF TableInv
<1> DEFINE T == DOMAIN m_currentDevices
<1>a. PICK r \in T : processEvent(r) \/ KeyboardFails(r)
  BY DEF ReadDevice
<1>b. CASE KeyboardFails(r)
  BY <1>b, EndKeeps DEF KeyboardFails, ReadDevice
<1>c. SUFFICES ASSUME NEW f \in T, processEvent(f) PROVE TableInv'
  BY <1>a, <1>b
<1>1. processEvent(f)
  BY <1>c
<1>2. /\ phase = "loop"
      /\ UNCHANGED <<deviceList, m_epollFd, m_signalFd, m_inotifyFd, inputWatch,
                     m_profiles, phase>>
  BY <1>1 DEF ReadDevice, processEvent, loopVars
<1>3. DOMAIN deviceList = {}
  BY <1>2 DEF ListIsFresh
<1>4. CASE Destroy({f}) /\ UNCHANGED <<keyboard, inq>>
  <2>1. /\ Close({f}) /\ {f} \in SUBSET T
        /\ m_currentDevices' = Restrict(m_currentDevices, T \ {f})
        /\ open' = open \ Released({f})
    BY <1>4 DEF Destroy
  <2>2. /\ DOMAIN m_currentDevices' = T \ {f}
        /\ \A g \in T \ {f} : m_currentDevices'[g] = m_currentDevices[g]
        /\ m_currentDevices' \in [T \ {f} -> Handle]
    BY <2>1, RestrictAt DEF TypeOK
  <2>3. /\ nodes' \in [Nodes -> Devices \cup {Free, Virtual}]
        /\ grab' \in [Nodes -> Fds \cup {None}]
        /\ DOMAIN uinput' = DOMAIN uinput \ Shadows({f})
        /\ uinput' \in [DOMAIN uinput' -> Nodes]
        /\ GrabMatchesTable' /\ UinputsOwned' /\ UinputsDistinct'
    BY <1>4, <2>1, <2>2, CloseKeeps
  <2>4. TypeOK'
    BY <1>2, <1>4, <2>1, <2>2, <2>3 DEF TypeOK
  <2>5. DescriptorsDistinct' /\ OpenIsFiled'
    <3>1. DescriptorsDistinct'
      BY <1>2, <2>2, <2>3 DEF DescriptorsDistinct
    <3>2. open' = (T \ {f}) \cup DOMAIN deviceList
                    \cup (DOMAIN uinput \ Shadows({f}))
                    \cup ({m_epollFd, m_signalFd, m_inotifyFd} \ {None})
      BY <2>1, ReleasedFiled
    <3> QED
      BY <1>2, <2>2, <2>3, <3>1, <3>2 DEF OpenIsFiled, Filed
  <2>6. /\ NoFeedback' /\ TableFollowsProfiles' /\ AllPolled' /\ ListIsFresh'
        /\ ScanStartsEmpty'
    BY <1>2, <1>3, <2>2
       DEF NoFeedback, TableFollowsProfiles, AllPolled, ListIsFresh,
           ScanStartsEmpty, NeedsShadow
  <2> QED
    BY <2>3, <2>4, <2>5, <2>6
<1>5. CASE /\ m_currentDevices' = [m_currentDevices EXCEPT ![f].input = "none"]
           /\ UNCHANGED grab
           /\ \/ keyboard = None /\ CreateKeyboard
              \/ UNCHANGED <<nodes, uinput, open, keyboard, inq>>
  <2>1. /\ m_currentDevices' \in [T -> Handle]
        /\ \A g \in T :
             /\ m_currentDevices'[g].node = m_currentDevices[g].node
             /\ m_currentDevices'[g].dev = m_currentDevices[g].dev
             /\ m_currentDevices'[g].live = m_currentDevices[g].live
             /\ m_currentDevices'[g].shadow = m_currentDevices[g].shadow
             /\ m_currentDevices'[g].polled = m_currentDevices[g].polled
    <3>1. "none" \in Inputs /\ m_currentDevices \in [T -> Handle]
      BY DEF Inputs, TypeOK
    <3> QED
      BY <3>1, <1>5 DEF Handle
  <2>2. CASE keyboard = None /\ CreateKeyboard
    BY <1>2, <1>5, <2>1, <2>2, KeyboardKeeps
  <2>3. CASE UNCHANGED <<nodes, uinput, open, keyboard, inq>>
    <3>1. deviceList' \in [DOMAIN deviceList -> Handle]
      BY <1>2 DEF TypeOK
    <3> QED
      BY <1>2, <1>5, <2>1, <2>3, <3>1, InputKeeps
  <2> QED
    BY <1>5, <2>2, <2>3
<1> QED
  BY <1>1, <1>4, <1>5 DEF processEvent, Failed

-----------------------------------------------------------------------------
LEMMA NextKeeps == TableInv /\ [Next]_vars => TableInv'
<1> SUFFICES ASSUME TableInv, [Next]_vars PROVE TableInv'
  OBVIOUS
<1>1. ASSUME NEW d \in Devices, Plug(d) \/ Unplug(d) \/ KeyPress(d)
      PROVE  TableInv'
  BY <1>1, PlugKeeps, UnplugKeeps, KeyPressKeeps
<1>2. CASE enterLoopFails \/ Shutdown
  BY <1>2, EndKeeps DEF enterLoopFails, Shutdown
<1>3. CASE UNCHANGED vars
  <2>1. TypeOK'
    BY <1>3 DEF vars, kernelVars, loopVars, TableInv, TypeOK
  <2>2. GrabMatchesTable' /\ UinputsOwned' /\ UinputsDistinct' /\ ListIsFresh'
    BY <1>3
       DEF vars, kernelVars, loopVars, TableInv, GrabMatchesTable,
           UinputsOwned, UinputsDistinct, ListIsFresh
  <2>3. DescriptorsDistinct' /\ OpenIsFiled'
    BY <1>3
       DEF vars, kernelVars, loopVars, TableInv, DescriptorsDistinct,
           OpenIsFiled, Filed
  <2>4. /\ NoFeedback' /\ TableFollowsProfiles' /\ AllPolled'
        /\ ScanStartsEmpty'
    BY <1>3
       DEF vars, kernelVars, loopVars, TableInv, NoFeedback,
           TableFollowsProfiles, AllPolled, ScanStartsEmpty, NeedsShadow
  <2> QED
    BY <2>1, <2>2, <2>3, <2>4 DEF TableInv
<1> QED
  BY <1>1, <1>2, <1>3, ScanKeeps, ConfigureNextKeeps, PollAllKeeps,
     EnterLoopKeeps, ReadDeviceKeeps, HandleEventKeeps, ReloadKeeps
     DEF Next, Hands

(* The invariant and its strengthenings hold in every reachable state. *)
THEOREM TableInvHolds == Spec => []TableInv
<1>1. TableInv /\ [Next]_vars => TableInv'
  BY NextKeeps
<1> QED
  BY InitTableInv, <1>1, PTL DEF Spec

(* Every variable keeps its type.                                           *)
THEOREM TypeOKHolds == Spec => []TypeOK
<1>1. TableInv => TypeOK
  BY DEF TableInv
<1> QED
  BY TableInvHolds, <1>1, PTL

(* The grabs the kernel holds and the live handles of m_currentDevices agree, *)
(* whatever is plugged in or out, fails or is reloaded (EvdevInputDevice's  *)
(* grabAndPrepare and destructor, MainLoop's erase and configureAll).       *)
THEOREM GrabMatchesTableHolds == Spec => []GrabMatchesTable
<1>1. TableInv => GrabMatchesTable
  BY DEF TableInv
<1> QED
  BY TableInvHolds, <1>1, PTL

(* The kernel's open descriptors are those the daemon has filed, each for   *)
(* one purpose: the destructors and error paths of EvdevInputDevice,        *)
(* UinputKeyboard and MainLoop leak none and close none that is still in    *)
(* use, whatever fails or is unplugged.                                     *)
THEOREM DescriptorsOwnedHolds == Spec => []DescriptorsOwned
<1>1. TableInv => DescriptorsOwned
  BY DEF TableInv, OpenIsFiled, DescriptorsDistinct, DescriptorsOwned
<1> QED
  BY TableInvHolds, <1>1, PTL

(* Every uinput device is the virtual keyboard or the shadow of exactly one *)
(* handle: ~EvdevInputDevice destroys its own shadow and leaves none behind. *)
THEOREM UinputsOwnedHolds == Spec => []UinputsOwned
<1>1. TableInv => UinputsOwned
  BY DEF TableInv
<1> QED
  BY TableInvHolds, <1>1, PTL

(* valid() keeps the daemon's own uinput devices out of the table and the list. *)
THEOREM NoFeedbackHolds == Spec => []NoFeedback
<1>1. TableInv => NoFeedback
  BY DEF TableInv
<1> QED
  BY TableInvHolds, <1>1, PTL

(* After configureAll has begun, no handle of an earlier configuration remains. *)
THEOREM TableFollowsProfilesHolds == Spec => []TableFollowsProfiles
<1>1. TableInv => TableFollowsProfiles
  BY DEF TableInv
<1> QED
  BY TableInvHolds, <1>1, PTL

(* Every handle the loop holds is registered with epoll.                    *)
THEOREM AllPolledHolds == Spec => []AllPolled
<1>1. TableInv => AllPolled
  BY DEF TableInv
<1> QED
  BY TableInvHolds, <1>1, PTL

-----------------------------------------------------------------------------
(* No device is overlooked: where no device outruns its reader, none is     *)
(* plugged in before /dev/input is watched, and neither opening a device,   *)
(* nor making its shadow, nor polling it is refused.                        *)

Reliable ==
  ~EarlyPlug /\ ~Overflow /\ Faults \cap {"open", "uinput", "poll"} = {}

NotDropped(handles) == \A f \in DOMAIN handles : handles[f].input # "dropped"
NoDrops == NotDropped(m_currentDevices) /\ NotDropped(deviceList)

LiveOn(handles, n) ==
  \E f \in DOMAIN handles : handles[f].live /\ handles[f].node = n

NoticeOf(q, n) == \E i \in 1 .. Len(q) : q[i].name = n

(* EveryDeviceIsHeld strengthened: what is not held yet is on its way.      *)
Covered ==
  phase \notin {"scan", "exit"} =>
    \A n \in Plugged : m_profiles[nodes[n]] # "unmatched" =>
      \/ LiveOn(m_currentDevices, n)
      \/ LiveOn(deviceList, n)
      \/ NoticeOf(inq, n)

CoverInv == NoDrops /\ Covered

LEMMA LongerQueue ==
  ASSUME NEW q \in Seq(Notice), NEW r \in Seq(Notice), NEW n
  PROVE  /\ NoticeOf(q, n) => NoticeOf(q \o r, n)
         /\ NoticeOf(r, n) => NoticeOf(q \o r, n)
<1> DEFINE s == q \o r
<1>1. /\ Len(q) \in Nat /\ Len(r) \in Nat /\ Len(s) = Len(q) + Len(r)
      /\ \A i \in 1 .. Len(q) : s[i] = q[i]
      /\ \A i \in 1 .. Len(r) : s[Len(q) + i] = r[i]
  OBVIOUS
<1> HIDE DEF s
<1>2. ASSUME NEW i \in 1 .. Len(q), q[i].name = n PROVE NoticeOf(s, n)
  <2>1. i \in 1 .. Len(s) /\ s[i].name = n
    BY <1>1, <1>2
  <2> QED
    BY <2>1 DEF NoticeOf
<1>3. ASSUME NEW i \in 1 .. Len(r), r[i].name = n PROVE NoticeOf(s, n)
  <2>1. Len(q) + i \in 1 .. Len(s) /\ s[Len(q) + i].name = n
    BY <1>1, <1>3
  <2> QED
    BY <2>1 DEF NoticeOf
<1>4. (NoticeOf(q, n) => NoticeOf(s, n)) /\ (NoticeOf(r, n) => NoticeOf(s, n))
  BY <1>2, <1>3 DEF NoticeOf
<1> QED
  BY <1>4 DEF s

LEMMA NodeNotice ==
  ASSUME NEW q \in Seq(Notice), NEW n \in Nodes, NEW m
  PROVE  /\ NoticeOf(q, m) => NoticeOf(q \o NodeCreated(n), m)
         /\ inputWatch => NoticeOf(q \o NodeCreated(n), n)
<1> DEFINE e == [wd |-> InputWd, mask |-> "CREATE", name |-> n]
<1>1. e \in Notice /\ e.name = n
  BY DEF Notice
<1> HIDE DEF e
<1>2. /\ <<>> \in Seq(Notice) /\ <<e>> \in Seq(Notice)
      /\ Len(<<e>>) = 1 /\ <<e>>[1] = e
  BY <1>1
<1>3. NoticeOf(<<e>>, n)
  BY <1>1, <1>2 DEF NoticeOf
<1> DEFINE r == NodeCreated(n)
<1>4. r \in Seq(Notice) /\ (inputWatch => NoticeOf(r, n))
  BY <1>2, <1>3 DEF NodeCreated, e
<1> HIDE DEF r
<1>5. (NoticeOf(q, m) => NoticeOf(q \o r, m)) /\ (inputWatch => NoticeOf(q \o r, n))
  BY <1>4, LongerQueue
<1> QED
  BY <1>5 DEF r

(* A notice that is taken off the queue was about its node.                 *)
LEMMA FirstNotice ==
  ASSUME NEW q \in Seq(Notice), q # <<>>, NEW n, NoticeOf(q, n)
  PROVE  n = Head(q).name \/ NoticeOf(Tail(q), n)
<1>1. PICK i \in 1 .. Len(q) : q[i].name = n
  BY DEF NoticeOf
<1>2. CASE i = 1
  BY <1>1, <1>2
<1>3. CASE i # 1
  <2> DEFINE t == Tail(q)
  <2>1. i - 1 \in 1 .. Len(t) /\ t[i - 1] = q[i]
    BY <1>3
  <2> HIDE DEF t
  <2>2. NoticeOf(t, n)
    BY <1>1, <2>1 DEF NoticeOf
  <2> QED
    BY <2>2 DEF t
<1> QED
  BY <1>2, <1>3

(* No device is on a node that was free or of the daemon's own.             *)
LEMMA PluggedStays ==
  ASSUME TableInv,
         \A n \in Nodes : nodes'[n] # nodes[n] => nodes'[n] \in {Free, Virtual}
  PROVE  \A n \in Plugged' : n \in Plugged /\ nodes'[n] = nodes[n]
BY DeviceTableAssumption DEF Plugged

(* Covered holds on where every node that stays plugged in stays held or on *)
(* its way.                                                                 *)
LEMMA CoverStays ==
  ASSUME Covered, m_profiles' = m_profiles, phase \notin {"scan", "exit"},
         \A n \in Plugged' : n \in Plugged /\ nodes'[n] = nodes[n],
         \A n \in Plugged' :
           /\ m_profiles[nodes[n]] # "unmatched"
           /\ \/ LiveOn(m_currentDevices, n)
              \/ LiveOn(deviceList, n)
              \/ NoticeOf(inq, n)
           => \/ LiveOn(m_currentDevices', n)
              \/ LiveOn(deviceList', n)
              \/ NoticeOf(inq', n)
  PROVE  Covered'
BY DEF Covered

(* A handle that is configured: if it is alive and matched it is in the     *)
(* table, or another handle already has its node.                           *)
LEMMA AddCovers ==
  ASSUME TableInv, Reliable, NotDropped(m_currentDevices),
         NEW f, f \notin DOMAIN m_currentDevices,
         NEW h \in Handle, h.input # "dropped", h.dev \in Devices,
         NEW queue \in Seq(Notice),
         configureAddIfMatch(f, h, queue)
  PROVE  /\ NotDropped(m_currentDevices')
         /\ \A n \in Plugged' : n \in Plugged /\ nodes'[n] = nodes[n]
         /\ \A n : LiveOn(m_currentDevices, n) => LiveOn(m_currentDevices', n)
         /\ \A n : NoticeOf(queue, n) => NoticeOf(inq', n)
         /\ h.live /\ m_profiles[h.dev] # "unmatched" =>
              LiveOn(m_currentDevices', h.node)
<1> USE DeviceTableAssumption
<1> DEFINE T == DOMAIN m_currentDevices
<1>1. h.node \in Nodes /\ h.live \in BOOLEAN
  BY DEF Handle
<1>2. ASSUME NEW g, g.node = h.node, g.live = h.live, g.input = h.input, h.live,
             m_currentDevices' = Put(m_currentDevices, f, g)
      PROVE  /\ NotDropped(m_currentDevices')
             /\ \A n : LiveOn(m_currentDevices, n) => LiveOn(m_currentDevices', n)
             /\ LiveOn(m_currentDevices', h.node)
  <2>1. /\ DOMAIN m_currentDevices' = T \cup {f}
        /\ m_currentDevices'[f] = g
        /\ \A e \in T : m_currentDevices'[e] = m_currentDevices[e]
    BY <1>2 DEF Put
  <2> QED
    BY <1>2, <2>1 DEF NotDropped, LiveOn
<1>3. CASE /\ grabAndPrepare(f, h, queue)
           /\ m_currentDevices' = Put(m_currentDevices, f, h)
           /\ inq' = queue
           /\ UNCHANGED <<nodes, uinput>>
  <2>1. h.live
    BY <1>3 DEF grabAndPrepare, CanGrab
  <2>2. \A n \in Plugged' : n \in Plugged /\ nodes'[n] = nodes[n]
    BY <1>3 DEF Plugged
  <2> QED
    BY <2>1, <2>2, <1>2, <1>3
<1>4. ASSUME NEW u \in Fds, NEW n \in Nodes,
             grabAndPrepare(f, h, queue),
             NextNode(n),
             nodes' = [nodes EXCEPT ![n] = Virtual],
             m_currentDevices' = Put(m_currentDevices, f, [h EXCEPT !.shadow = u]),
             inq' = queue \o NodeCreated(n)
      PROVE  /\ NotDropped(m_currentDevices')
             /\ \A m \in Plugged' : m \in Plugged /\ nodes'[m] = nodes[m]
             /\ \A m : LiveOn(m_currentDevices, m) => LiveOn(m_currentDevices', m)
             /\ \A m : NoticeOf(queue, m) => NoticeOf(inq', m)
             /\ LiveOn(m_currentDevices', h.node)
  <2> DEFINE g == [h EXCEPT !.shadow = u]
  <2>1. h.live
    BY <1>4 DEF grabAndPrepare, CanGrab
  <2>2. g.node = h.node /\ g.live = h.live /\ g.input = h.input
    BY DEF Handle
  <2>3. \A m \in Nodes : nodes'[m] # nodes[m] => nodes'[m] \in {Free, Virtual}
    BY <1>4 DEF TableInv, TypeOK
  <2>4. \A m \in Plugged' : m \in Plugged /\ nodes'[m] = nodes[m]
    BY <2>3, PluggedStays
  <2>5. \A m : NoticeOf(queue, m) => NoticeOf(inq', m)
    BY <1>4, NodeNotice
  <2> HIDE DEF g
  <2>6. m_currentDevices' = Put(m_currentDevices, f, g)
    BY <1>4 DEF g
  <2> QED
    BY <2>1, <2>2, <2>4, <2>5, <2>6, <1>2
<1>5. CASE /\ \/ m_profiles[h.dev] = "unmatched"
              \/ ~CanGrab(h)
           /\ inq' = queue
           /\ UNCHANGED <<nodes, grab, uinput, m_currentDevices>>
  <2>1. ASSUME h.live, m_profiles[h.dev] # "unmatched"
        PROVE  LiveOn(m_currentDevices', h.node)
    <3>1. grab[h.node] # None
      BY <1>5, <2>1 DEF CanGrab
    <3>2. /\ grab[h.node] \in T
          /\ m_currentDevices[grab[h.node]].node = h.node
          /\ m_currentDevices[grab[h.node]].live
      BY <1>1, <3>1 DEF TableInv, GrabMatchesTable
    <3>3. LiveOn(m_currentDevices, h.node)
      BY <3>2 DEF LiveOn
    <3> QED
      BY <3>3, <1>5
  <2>2. \A n \in Plugged' : n \in Plugged /\ nodes'[n] = nodes[n]
    BY <1>5 DEF Plugged
  <2> QED
    BY <2>1, <2>2, <1>5
<1>6. CASE m_profiles[h.dev] # "unmatched" /\ grabAndPrepare(f, h, queue)
  BY <1>3, <1>4, <1>6 DEF grabAndPrepare
<1>7. "uinput" \notin Faults
  BY DEF Reliable
<1>8. CASE ~(m_profiles[h.dev] # "unmatched" /\ grabAndPrepare(f, h, queue))
  BY <1>5, <1>7, <1>8 DEF configureAddIfMatch
<1> QED
  BY <1>6, <1>8, <1>3, <1>4, <1>5

-----------------------------------------------------------------------------
LEMMA InitCover == Init => CoverInv
BY DEF Init, CoverInv, NoDrops, NotDropped, Covered

(* Every plugged node is opened: its handle is in the list.                 *)
LEMMA ScanCovers ==
  ASSUME Reliable, TableInv, CoverInv, scanDevices
  PROVE  CoverInv'
<1> USE DeviceTableAssumption
<1> DEFINE S == {n \in Nodes : valid(n)}
<1>1. PICK fdOf \in Allocations(S, Fds \ open) :
        deviceList' = [f \in {fdOf[n] : n \in S} |->
                         NewHandle(CHOOSE n \in S : fdOf[n] = f)]
  <2>1. Outcomes(S, "open") = {S}
    BY DEF Outcomes, Reliable
  <2>2. PICK X \in Outcomes(S, "open") :
          \E fdOf \in Allocations(X, Fds \ open) :
            deviceList' = [f \in {fdOf[n] : n \in X} |->
                             NewHandle(CHOOSE n \in X : fdOf[n] = f)]
    BY DEF scanDevices
  <2>3. X = S
    BY <2>1, <2>2
  <2> HIDE DEF S
  <2> QED
    BY <2>2, <2>3
<1>2. UNCHANGED <<nodes, inq, m_currentDevices, m_profiles>>
  BY DEF scanDevices
<1>3. ASSUME NEW m \in S, NEW n \in S, fdOf[m] = fdOf[n] PROVE m = n
  <2>1. m \in Int /\ n \in Int
    BY DEF Nodes
  <2>2. /\ fdOf[m] \in Int /\ fdOf[n] \in Int
        /\ m < n => fdOf[m] < fdOf[n]
        /\ n < m => fdOf[n] < fdOf[m]
    BY <1>1, <2>1 DEF Allocations, Fds
  <2> QED
    BY <2>1, <2>2, <1>3
<1>4. ASSUME NEW n \in S
      PROVE  LET h == deviceList'[fdOf[n]]
             IN /\ fdOf[n] \in DOMAIN deviceList'
                /\ h.live /\ h.node = n /\ h.input = "none"
  <2> DEFINE m == CHOOSE k \in S : fdOf[k] = fdOf[n]
  <2>1. m \in S /\ fdOf[m] = fdOf[n]
    OBVIOUS
  <2>2. m = n
    BY <2>1, <1>3
  <2>3. fdOf[n] \in DOMAIN deviceList' /\ deviceList'[fdOf[n]] = NewHandle(m)
    BY <1>1
  <2> HIDE DEF m, S
  <2> QED
    BY <2>2, <2>3 DEF NewHandle
<1>5. ASSUME NEW f \in DOMAIN deviceList' PROVE deviceList'[f].input # "dropped"
  <2>1. PICK n \in S : fdOf[n] = f
    BY <1>1
  <2> HIDE DEF S
  <2> QED
    BY <2>1, <1>4
<1>6. NoDrops'
  BY <1>2, <1>5 DEF CoverInv, NoDrops, NotDropped
<1>7. ASSUME NEW n \in Plugged' PROVE LiveOn(deviceList', n)
  <2>1. n \in S
    BY <1>2, <1>7 DEF Plugged, valid
  <2> HIDE DEF S
  <2> QED
    BY <2>1, <1>4 DEF LiveOn
<1> QED
  BY <1>6, <1>7 DEF CoverInv, Covered

LEMMA ConfigureNextCovers ==
  ASSUME Reliable, TableInv, CoverInv, ConfigureNext
  PROVE  CoverInv'
<1>1. /\ phase = "configure" /\ m_profiles' = m_profiles
  BY DEF ConfigureNext
<1>2. NotDropped(m_currentDevices) /\ NotDropped(deviceList) /\ Covered
  BY DEF CoverInv, NoDrops
<1>3. CASE DOMAIN deviceList = {}
  <2>1. UNCHANGED <<nodes, inq, m_currentDevices, deviceList>>
    BY <1>3 DEF ConfigureNext, kernelVars
  <2> QED
    BY <1>1, <1>2, <2>1 DEF CoverInv, NoDrops, Covered, Plugged
<1>4. CASE DOMAIN deviceList # {}
  <2>1. PICK f \in DOMAIN deviceList :
          /\ configureAddIfMatch(f, deviceList[f], inq)
          /\ deviceList' = Restrict(deviceList, DOMAIN deviceList \ {f})
    BY <1>4 DEF ConfigureNext, NotYet
  <2> DEFINE h == deviceList[f]
  <2>2. /\ f \notin DOMAIN m_currentDevices
        /\ h \in Handle /\ h.dev \in Devices /\ h.input # "dropped"
        /\ h.live => nodes[h.node] = h.dev
        /\ inq \in Seq(Notice)
    BY <1>2 DEF TableInv, TypeOK, DescriptorsDistinct, NoFeedback, ListIsFresh,
                NotDropped, Notice
  <2>3. configureAddIfMatch(f, h, inq)
    BY <2>1
  <2>4. /\ DOMAIN deviceList' = DOMAIN deviceList \ {f}
        /\ \A g \in DOMAIN deviceList' : deviceList'[g] = deviceList[g]
    BY <2>1, RestrictAt
  <2>5. ASSUME NEW n, LiveOn(deviceList, n)
        PROVE  LiveOn(deviceList', n) \/ (h.live /\ h.node = n)
    BY <2>4, <2>5 DEF LiveOn
  <2> HIDE DEF h
  <2>6. /\ NotDropped(m_currentDevices')
        /\ \A n \in Plugged' : n \in Plugged /\ nodes'[n] = nodes[n]
        /\ \A n : LiveOn(m_currentDevices, n) => LiveOn(m_currentDevices', n)
        /\ \A n : NoticeOf(inq, n) => NoticeOf(inq', n)
        /\ h.live /\ m_profiles[h.dev] # "unmatched" =>
             LiveOn(m_currentDevices', h.node)
    BY <1>2, <2>2, <2>3, AddCovers
  <2>7. Covered'
    BY <1>1, <1>2, <2>2, <2>5, <2>6, CoverStays
  <2>8. NotDropped(deviceList')
    BY <1>2, <2>4 DEF NotDropped
  <2> QED
    BY <2>6, <2>7, <2>8 DEF CoverInv, NoDrops
<1> QED
  BY <1>3, <1>4

(* The node of the notice that is taken off the queue is configured.        *)
LEMMA HandleEventCovers ==
  ASSUME Reliable, TableInv, CoverInv, HandleEvent
  PROVE  CoverInv'
<1> USE DeviceTableAssumption
<1> DEFINE n == Head(inq).name
           queue == Tail(inq)
<1>1. inq \in Seq(Notice) /\ inq # <<>>
  BY DEF HandleEvent, TableInv, TypeOK, Notice
<1>2. n \in Nodes /\ queue \in Seq(Notice)
  <2>1. Head(inq) \in Notice
    BY <1>1
  <2> QED
    BY <1>1, <2>1 DEF Notice
<1>3. \A m : NoticeOf(inq, m) => m = n \/ NoticeOf(queue, m)
  BY <1>1, FirstNotice
<1>4. /\ phase = "loop"
      /\ \/ valid(n) /\ AddDevice(n, queue)
         \/ /\ ~valid(n)
            /\ inq' = queue
            /\ UNCHANGED <<kernelVars, m_currentDevices>>
      /\ UNCHANGED <<deviceList, m_profiles>>
  BY DEF HandleEvent, DeviceCreated, Reliable
<1> HIDE DEF n, queue
<1>5. NotDropped(m_currentDevices) /\ NotDropped(deviceList) /\ Covered
  BY DEF CoverInv, NoDrops
<1>6. CASE ~valid(n) /\ inq' = queue /\ UNCHANGED <<kernelVars, m_currentDevices>>
  <2>1. n \notin Plugged
    BY <1>6 DEF Plugged, valid
  <2>2. \A m \in Plugged' : m \in Plugged /\ nodes'[m] = nodes[m]
    BY <1>6 DEF Plugged, kernelVars
  <2>3. Covered'
    BY <1>3, <1>4, <1>5, <1>6, <2>1, <2>2, CoverStays
  <2> QED
    BY <1>4, <1>5, <1>6, <2>3 DEF CoverInv, NoDrops
<1>7. CASE valid(n) /\ AddDevice(n, queue)
  <2> DEFINE h == [NewHandle(n) EXCEPT !.polled = TRUE]
  <2>1. PICK f \in Fds : NextFd(f, {}) /\ configureAddIfMatch(f, h, queue)
    BY <1>7 DEF AddDevice, Reliable
  <2>2. f \notin DOMAIN m_currentDevices
    BY <2>1, NextFdType DEF TableInv, OpenIsFiled, Filed
  <2>3. /\ h \in Handle /\ h.dev \in Devices /\ h.dev = nodes[n] /\ h.node = n
        /\ h.live /\ h.input = "none"
    <3>1. nodes[n] \in Devices
      BY <1>2, <1>7 DEF valid, TableInv, TypeOK
    <3> DEFINE new == NewHandle(n)
    <3>2. /\ new \in Handle /\ new.live /\ new.input = "none"
          /\ new.dev = nodes[n] /\ new.node = n
      BY <1>2, <3>1 DEF NewHandle, Handle, Inputs
    <3> HIDE DEF new
    <3> QED
      BY <3>1, <3>2 DEF Handle, new
  <2> HIDE DEF h
  <2>4. /\ NotDropped(m_currentDevices')
        /\ \A m \in Plugged' : m \in Plugged /\ nodes'[m] = nodes[m]
        /\ \A m : LiveOn(m_currentDevices, m) => LiveOn(m_currentDevices', m)
        /\ \A m : NoticeOf(queue, m) => NoticeOf(inq', m)
        /\ h.live /\ m_profiles[h.dev] # "unmatched" =>
             LiveOn(m_currentDevices', h.node)
    BY <1>2, <1>5, <2>1, <2>2, <2>3, AddCovers
  <2>5. Covered'
    BY <1>3, <1>4, <1>5, <2>3, <2>4, CoverStays
  <2> QED
    BY <1>4, <1>5, <2>4, <2>5 DEF CoverInv, NoDrops
<1> QED
  BY <1>4, <1>6, <1>7

LEMMA LiveStays ==
  ASSUME NEW handles, NEW handles2, DOMAIN handles2 = DOMAIN handles,
         \A f \in DOMAIN handles : /\ handles2[f].node = handles[f].node
                                   /\ handles2[f].live = handles[f].live
  PROVE  \A n : LiveOn(handles, n) => LiveOn(handles2, n)
BY DEF LiveOn

(* Every device is polled: none is refused.                                 *)
LEMMA RegisterCovers ==
  ASSUME Reliable, TableInv, CoverInv, phase = "poll",
         NEW kept, RegisterPolls(kept),
         UNCHANGED <<inq, deviceList, m_profiles>>
  PROVE  CoverInv'
<1> DEFINE T == DOMAIN m_currentDevices
<1>1. kept = T
  BY DEF RegisterPolls, Outcomes, Reliable
<1>2. /\ DOMAIN m_currentDevices' = T
      /\ \A f \in T : /\ m_currentDevices'[f].node = m_currentDevices[f].node
                      /\ m_currentDevices'[f].live = m_currentDevices[f].live
                      /\ m_currentDevices'[f].input = m_currentDevices[f].input
  BY <1>1 DEF RegisterPolls, Polled, TableInv, TypeOK, Handle
<1>3. Shadows({}) = {}
  BY DEF Shadows
<1>4. nodes' = [n \in Nodes |-> IF n \in {uinput[u] : u \in {}} THEN Free ELSE nodes[n]]
  BY <1>1, <1>3 DEF RegisterPolls, Close, Refused
<1>5. nodes' = nodes
  BY <1>4 DEF TableInv, TypeOK
<1>6. \A n : LiveOn(m_currentDevices, n) => LiveOn(m_currentDevices', n)
  BY <1>2, LiveStays
<1>7. \A n \in Plugged' : n \in Plugged /\ nodes'[n] = nodes[n]
  BY <1>5 DEF Plugged
<1>8. Covered'
  BY <1>6, <1>7, CoverStays DEF CoverInv
<1> QED
  BY <1>2, <1>8 DEF CoverInv, NoDrops, NotDropped

LEMMA PollAllCovers ==
  ASSUME Reliable, TableInv, CoverInv, pollAll
  PROVE  CoverInv'
BY RegisterCovers DEF pollAll

LEMMA EnterLoopCovers ==
  ASSUME Reliable, TableInv, CoverInv, enterLoop
  PROVE  CoverInv'
<1>1. PICK kept : RegisterPolls(kept)
  BY DEF enterLoop
<1>2. phase = "poll" /\ UNCHANGED <<inq, deviceList, m_profiles>>
  BY DEF enterLoop
<1> QED
  BY <1>1, <1>2, RegisterCovers

(* A process that has ended owes nothing; before the scan, neither does it. *)
LEMMA EndCovers ==
  ASSUME CoverInv, End
  PROVE  CoverInv'
BY DEF End, CoverInv, NoDrops, NotDropped, Covered

LEMMA ReloadCovers ==
  ASSUME CoverInv, Reload
  PROVE  CoverInv'
<1>1. /\ m_currentDevices' = Restrict(m_currentDevices, {})
      /\ deviceList' = deviceList
      /\ phase' = "scan"
  BY DEF Reload, ClearDevices, Destroy, Cleared
<1>2. DOMAIN m_currentDevices' = {}
  BY <1>1, RestrictAt
<1> QED
  BY <1>1, <1>2 DEF CoverInv, NoDrops, NotDropped, Covered

(* A device that is plugged in announces itself.                            *)
LEMMA PlugCovers ==
  ASSUME Reliable, TableInv, CoverInv, NEW d \in Devices, Plug(d)
  PROVE  CoverInv'
<1> USE DeviceTableAssumption
<1>1. PICK k \in Nodes : /\ nodes' = [nodes EXCEPT ![k] = d]
                         /\ inq' = inq \o NodeCreated(k)
  BY DEF Plug
<1>2. /\ inputWatch
      /\ UNCHANGED <<m_currentDevices, deviceList, m_profiles, phase>>
  BY DEF Plug, Reliable
<1>3. inq \in Seq(Notice)
  BY DEF TableInv, TypeOK, Notice
<1>4. /\ NoticeOf(inq', k)
      /\ \A n : NoticeOf(inq, n) => NoticeOf(inq', n)
  BY <1>1, <1>2, <1>3, NodeNotice
<1>5. ASSUME NEW n \in Plugged', n # k
      PROVE  n \in Plugged /\ nodes'[n] = nodes[n]
  BY <1>1, <1>5 DEF TableInv, TypeOK, Plugged
<1>6. Covered'
  BY <1>2, <1>4, <1>5 DEF CoverInv, Covered
<1> QED
  BY <1>2, <1>6 DEF CoverInv, NoDrops

LEMMA UnplugCovers ==
  ASSUME Reliable, TableInv, CoverInv, NEW d \in Devices, Unplug(d)
  PROVE  CoverInv'
<1> USE DeviceTableAssumption
<1>1. PICK k \in Nodes : /\ nodes' = [nodes EXCEPT ![k] = Free]
                         /\ m_currentDevices' = Killed(m_currentDevices, k)
                         /\ deviceList' = Killed(deviceList, k)
  BY DEF Unplug
<1>2. UNCHANGED <<inq, m_profiles, phase>>
  BY DEF Unplug
<1>3. ASSUME NEW handles, \A f \in DOMAIN handles : handles[f] \in Handle
      PROVE  /\ NotDropped(handles) => NotDropped(Killed(handles, k))
             /\ \A n : n # k /\ LiveOn(handles, n) => LiveOn(Killed(handles, k), n)
  <2>1. /\ DOMAIN Killed(handles, k) = DOMAIN handles
        /\ \A f \in DOMAIN handles :
             /\ Killed(handles, k)[f].node = handles[f].node
             /\ Killed(handles, k)[f].input = handles[f].input
             /\ Killed(handles, k)[f].live
                  = (handles[f].live /\ handles[f].node # k)
    BY <1>3 DEF Killed, Handle
  <2> QED
    BY <2>1 DEF NotDropped, LiveOn
<1>4. /\ \A f \in DOMAIN m_currentDevices : m_currentDevices[f] \in Handle
      /\ \A f \in DOMAIN deviceList : deviceList[f] \in Handle
  BY DEF TableInv, TypeOK
<1>5. NoDrops'
  BY <1>1, <1>3, <1>4 DEF CoverInv, NoDrops
<1>6. ASSUME NEW n \in Plugged'
      PROVE  n # k /\ n \in Plugged /\ nodes'[n] = nodes[n]
  BY <1>1, <1>6 DEF TableInv, TypeOK, Plugged
<1>7. Covered'
  <2>1. ASSUME NEW n \in Plugged'
        PROVE  /\ LiveOn(m_currentDevices, n) => LiveOn(m_currentDevices', n)
               /\ LiveOn(deviceList, n) => LiveOn(deviceList', n)
    BY <1>1, <1>3, <1>4, <1>6
  <2> QED
    BY <1>2, <1>6, <2>1 DEF CoverInv, Covered
<1> QED
  BY <1>5, <1>7 DEF CoverInv

LEMMA KeyPressCovers ==
  ASSUME Reliable, TableInv, CoverInv, NEW d \in Devices, KeyPress(d)
  PROVE  CoverInv'
<1>1. PICK n \in Nodes, input \in {"keys", "dropped"} :
        /\ input = "dropped" => Overflow
        /\ m_currentDevices' = Typed(m_currentDevices, n, input)
        /\ deviceList' = Typed(deviceList, n, input)
  BY DEF KeyPress
<1>2. UNCHANGED <<nodes, inq, m_profiles, phase>>
  BY DEF KeyPress, kernelVars
<1>3. ASSUME NEW handles, \A f \in DOMAIN handles : handles[f] \in Handle
      PROVE  /\ NotDropped(handles) => NotDropped(Typed(handles, n, "keys"))
             /\ \A m : LiveOn(handles, m) => LiveOn(Typed(handles, n, "keys"), m)
  <2> DEFINE typed == Typed(handles, n, "keys")
  <2>1. DOMAIN typed = DOMAIN handles
    BY DEF Typed
  <2>2. ASSUME NEW f \in DOMAIN handles
        PROVE  /\ typed[f].node = handles[f].node
               /\ typed[f].live = handles[f].live
               /\ typed[f].input = handles[f].input \/ typed[f].input = "keys"
    <3>1. \/ typed[f] = [handles[f] EXCEPT !.input = "keys"]
          \/ typed[f] = handles[f]
      BY DEF Typed
    <3> QED
      BY <3>1, <1>3 DEF Handle
  <2> HIDE DEF typed
  <2>3. \A m : LiveOn(handles, m) => LiveOn(typed, m)
    BY <2>1, <2>2, LiveStays
  <2>4. NotDropped(handles) => NotDropped(typed)
    BY <2>1, <2>2 DEF NotDropped
  <2> QED
    BY <2>3, <2>4 DEF typed
<1>4. /\ \A f \in DOMAIN m_currentDevices : m_currentDevices[f] \in Handle
      /\ \A f \in DOMAIN deviceList : deviceList[f] \in Handle
  BY DEF TableInv, TypeOK
<1>5. input = "keys"
  BY <1>1 DEF Reliable
<1>6. /\ NoDrops'
      /\ \A m : LiveOn(m_currentDevices, m) => LiveOn(m_currentDevices', m)
      /\ \A m : LiveOn(deviceList, m) => LiveOn(deviceList', m)
  BY <1>1, <1>3, <1>4, <1>5 DEF CoverInv, NoDrops
<1> QED
  BY <1>2, <1>6 DEF CoverInv, Covered, Plugged

(* Only a dead handle's read fails, and the virtual keyboard takes a node   *)
(* that was free.                                                           *)
LEMMA ReadDeviceCovers ==
  ASSUME Reliable, TableInv, CoverInv, ReadDevice
  PROVE  CoverInv'
<1> USE DeviceTableAssumption
<1> DEFINE T == DOMAIN m_currentDevices
<1>a. PICK r \in T : processEvent(r) \/ KeyboardFails(r)
  BY DEF ReadDevice
<1>b. CASE KeyboardFails(r)
  BY <1>b, EndCovers DEF KeyboardFails
<1>c. SUFFICES ASSUME NEW f \in T, processEvent(f) PROVE CoverInv'
  BY <1>a, <1>b
<1>1. processEvent(f)
  BY <1>c
<1>2. phase = "loop" /\ UNCHANGED <<deviceList, m_profiles>>
  BY <1>1 DEF ReadDevice, processEvent
<1>3. NotDropped(m_currentDevices) /\ NotDropped(deviceList) /\ Covered
  BY DEF CoverInv, NoDrops
<1>4. CASE ReadFails(m_currentDevices[f]) /\ Destroy({f}) /\ UNCHANGED inq
  <2>1. ~m_currentDevices[f].live
    BY <1>1, <1>3, <1>4 DEF ReadFails, NotDropped
  <2>2. /\ DOMAIN m_currentDevices' = T \ {f}
        /\ \A g \in T \ {f} : m_currentDevices'[g] = m_currentDevices[g]
    BY <1>4, RestrictAt DEF Destroy
  <2>3. \A n : LiveOn(m_currentDevices, n) => LiveOn(m_currentDevices', n)
    BY <2>1, <2>2 DEF LiveOn
  <2>4. NotDropped(m_currentDevices')
    BY <1>3, <2>2 DEF NotDropped
  <2>5. \A n \in Nodes : nodes'[n] # nodes[n] => nodes'[n] \in {Free, Virtual}
    BY <1>4 DEF Destroy, Close
  <2>6. \A n \in Plugged' : n \in Plugged /\ nodes'[n] = nodes[n]
    BY <2>5, PluggedStays
  <2>7. Covered'
    BY <1>2, <1>3, <1>4, <2>3, <2>6, CoverStays
  <2> QED
    BY <1>2, <1>3, <2>4, <2>7 DEF CoverInv, NoDrops
<1>5. CASE /\ m_currentDevices' = [m_currentDevices EXCEPT ![f].input = "none"]
           /\ CreateKeyboard \/ UNCHANGED <<nodes, inq>>
  <2>1. /\ DOMAIN m_currentDevices' = T
        /\ \A g \in T :
             /\ m_currentDevices'[g].node = m_currentDevices[g].node
             /\ m_currentDevices'[g].live = m_currentDevices[g].live
             /\ \/ m_currentDevices'[g].input = m_currentDevices[g].input
                \/ m_currentDevices'[g].input = "none"
    BY <1>5 DEF TableInv, TypeOK, Handle
  <2>2. \A n : LiveOn(m_currentDevices, n) => LiveOn(m_currentDevices', n)
    BY <2>1, LiveStays
  <2>3. NotDropped(m_currentDevices')
    BY <1>3, <2>1 DEF NotDropped
  <2>4. inq \in Seq(Notice)
    BY DEF TableInv, TypeOK, Notice
  <2>5. /\ \A n \in Nodes : nodes'[n] # nodes[n] => nodes'[n] \in {Free, Virtual}
        /\ \A n : NoticeOf(inq, n) => NoticeOf(inq', n)
    <3>1. CASE CreateKeyboard
      <4>1. PICK k \in Nodes : /\ nodes' = [nodes EXCEPT ![k] = Virtual]
                               /\ inq' = inq \o NodeCreated(k)
        BY <3>1 DEF CreateKeyboard
      <4>2. \A n : NoticeOf(inq, n) => NoticeOf(inq', n)
        BY <2>4, <4>1, NodeNotice
      <4> QED
        BY <4>1, <4>2 DEF TableInv, TypeOK
    <3> QED
      BY <3>1, <1>5
  <2>6. \A n \in Plugged' : n \in Plugged /\ nodes'[n] = nodes[n]
    BY <2>5, PluggedStays
  <2>7. Covered'
    BY <1>2, <1>3, <2>2, <2>5, <2>6, CoverStays
  <2> QED
    BY <1>2, <1>3, <2>3, <2>7 DEF CoverInv, NoDrops
<1> QED
  BY <1>1, <1>4, <1>5 DEF processEvent, Failed

LEMMA NextCovers ==
  ASSUME Reliable, TableInv, CoverInv, [Next]_vars
  PROVE  CoverInv'
<1>1. ASSUME NEW d \in Devices, Plug(d) \/ Unplug(d) \/ KeyPress(d)
      PROVE  CoverInv'
  BY <1>1, PlugCovers, UnplugCovers, KeyPressCovers
<1>2. CASE enterLoopFails \/ Shutdown
  BY <1>2, EndCovers DEF enterLoopFails, Shutdown
<1>3. CASE UNCHANGED vars
  BY <1>3 DEF vars, kernelVars, CoverInv, NoDrops, Covered, Plugged
<1> QED
  BY <1>1, <1>2, <1>3, ScanCovers, ConfigureNextCovers, PollAllCovers,
     EnterLoopCovers, ReadDeviceCovers, HandleEventCovers, ReloadCovers
     DEF Next, Hands

(* With no notice left, what is covered is held.                            *)
LEMMA CoveredIsHeld ==
  ASSUME TableInv, CoverInv
  PROVE  EveryDeviceIsHeld
<1> SUFFICES ASSUME phase = "loop", inq = <<>>,
                    NEW n \in Plugged, m_profiles[nodes[n]] # "unmatched"
             PROVE  LiveOn(m_currentDevices, n)
  BY DEF EveryDeviceIsHeld, LiveOn
<1>1. ~LiveOn(deviceList, n)
  BY DEF TableInv, ListIsFresh, LiveOn
<1>2. ~NoticeOf(inq, n)
  BY DEF NoticeOf
<1> QED
  BY <1>1, <1>2 DEF CoverInv, Covered

(* With no notice left every matched device that is plugged in is in the    *)
(* table and alive, where none is plugged in before the watch and nothing   *)
(* overflows or is refused: processInotify and scanDevices between them     *)
(* miss no device, whatever reload comes in between.                        *)
THEOREM EveryDeviceIsHeldHolds ==
  ASSUME Reliable
  PROVE  Spec => []EveryDeviceIsHeld
<1>1. Init => CoverInv
  BY InitCover
<1>2. TableInv /\ CoverInv /\ [Next]_vars => CoverInv'
  BY NextCovers
<1>3. TableInv /\ CoverInv => EveryDeviceIsHeld
  BY CoveredIsHeld
<1> QED
  BY <1>1, <1>2, <1>3, TableInvHolds, PTL DEF Spec
=============================================================================

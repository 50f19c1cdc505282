--------------------------- MODULE MainLoopProofs ---------------------------
(***************************************************************************)
(* The daemon's thread implements DeviceTable and ConfigWatch, for every   *)
(* set of devices, profile lists and changes of the file and every fault;  *)
(* and what follows for the daemon as a whole.  The theorems about the two *)
(* components are used, not proved again.                                  *)
(***************************************************************************)
EXTENDS MainLoop, Inductions, SequenceTheorems

(* The components with what is known of them, as MainLoop sees them. *)
TB == INSTANCE DeviceTableProofs WITH
        inq <- EventsOf(inq, {DT!InputWd}), m_profiles <- inForce
CB == INSTANCE ConfigReloadProofs WITH
        inq <- EventsOf(inq, Nat \ {DT!InputWd}),
        hasty <- FALSE, written <- FALSE, refused <- FALSE,
        orphaned <- FALSE

(* What the inotify queue holds. *)
Notice ==
  [wd : {DT!InputWd}, mask : {"CREATE"}, name : DT!Nodes] \cup CW!Event

(* A reload is under way: the profiles have been read, the devices are      *)
(* still those of the last ones.                                            *)
Reloading == pc = "reload" \/ (pc = "watch" /\ resume = "reload")

(* Where the thread is, the table's phase follows. *)
PhaseFollows ==
  /\ pc = "start" => phase = "scan"
  /\ pc = "configure" => phase \in {"scan", "configure", "poll"}
  /\ pc \in {"watch", "wait", "dispatch", "read", "inotify", "reload"} =>
       phase = "loop"
  /\ phase = "loop" => m_epollFd # DT!None

(* The table was built for the profiles that were read, reloads apart.      *)
BuiltForProfiles ==
  /\ m_profiles \in ProfileLists
  /\ pc \notin {"start"} \cup Ended /\ ~Reloading => inForce = m_profiles

(* Nothing of a read is left where the loop does not come from inotify.     *)
NothingLeft ==
  (\/ pc \in {"start", "wait", "dispatch", "read"}
   \/ pc = "watch" /\ resume = "wait"
   \/ m_epollFd = DT!None /\ pc # "exit")
  => left = 0

(* Without an inotify descriptor, and there is none before the loop, nothing *)
(* is watched and nothing queued.                                           *)
NoQueueNoWatch ==
  /\ m_epollFd = DT!None => m_inotifyFd = DT!None
  /\ m_inotifyFd = DT!None /\ pc # "exit" =>
       ~inputWatch /\ watches = {} /\ inq = <<>>

(* As long as nobody touches the file there is no reload. *)
NobodyReloads ==
  /\ EventsOf(inq, Nat \ {DT!InputWd}) = <<>>
  /\ resume = "wait" /\ pc # "reload"
  /\ pc \in {"start", "configure"} => m_epollFd = DT!None

(* Then a number in a batch stands for something until its turn comes: only *)
(* the device that is being read may vanish, and its number is out.         *)
Known == DOMAIN m_currentDevices \cup {m_signalFd, m_inotifyFd}
Handling == {"dispatch", "read", "inotify"}

BatchStands ==
  /\ pc \in Handling => batch \subseteq Known
  /\ pc = "read" => reading \notin batch
  /\ pc \notin Handling \cup Ended => batch = {}
  /\ pc # "aborted"

(* What is true of the thread's own variables. *)
OwnInv ==
  /\ TypeOK /\ inq \in Seq(Notice)
  /\ PhaseFollows /\ BuiltForProfiles /\ NothingLeft /\ NoQueueNoWatch

(* The inductive invariant. *)
ThreadInv ==
  /\ OwnInv
  /\ pc # "exit" => CB!WatchInv
  /\ TB!TableInv

-----------------------------------------------------------------------------
(* What EventsOf computes. *)

(* The loop of EventsOf: k has the events kept of the first n.              *)
KeptBy(k, q, W) ==
  /\ k[0] = <<>>
  /\ \A n \in 1 .. Len(q) :
       k[n] = IF q[n].wd \in W THEN Append(k[n - 1], q[n]) ELSE k[n - 1]

LEMMA EventsLoop ==
  ASSUME NEW S, NEW q \in Seq(S), NEW W
  PROVE  \E k \in [0 .. Len(q) -> Seq(S)] :
           KeptBy(k, q, W) /\ EventsOf(q, W) = k[Len(q)]
<1> DEFINE Kept(s, n) == IF q[n].wd \in W THEN Append(s, q[n]) ELSE s
           Loop(g) == g = [n \in 0 .. Len(q) |->
                             IF n = 0 THEN <<>>
                             ELSE IF q[n].wd \in W THEN Append(g[n - 1], q[n])
                                                   ELSE g[n - 1]]
           k == CHOOSE g : Loop(g)
<1>1. ASSUME NEW X, X = Seq(S), NEW N, N = Len(q), NEW none, none = <<>>
      PROVE  /\ k \in [0 .. N -> X]
             /\ k[0] = none
             /\ \A n \in 1 .. N : k[n] = Kept(k[n - 1], n)
  <2>1. N \in Nat /\ none \in X
    BY <1>1
  <2>2. ASSUME NEW s \in X, NEW n \in 1 .. N PROVE Kept(s, n) \in X
    BY <1>1, <2>2
  <2> DEFINE step == [n \in 1 .. N |-> [s \in X |-> Kept(s, n)]]
  <2> HIDE DEF Kept
  <2>3. step \in [1 .. N -> [X -> X]]
    BY <2>2
  <2>4. \A n \in 1 .. N, s \in X : step[n][s] = Kept(s, n)
    OBVIOUS
  <2> HIDE DEF step
  <2>5. PICK g \in [0 .. N -> X] : Recursion(g, N, none, step)
    BY <2>1, <2>3, RecursionHasSolution
  <2>6. ASSUME NEW n \in 1 .. N PROVE g[n] = Kept(g[n - 1], n)
    <3>1. n - 1 \in 0 .. N
      BY <2>1
    <3> QED
      BY <2>4, <2>5, <3>1 DEF Recursion
  <2>7. g = [n \in 0 .. N |-> IF n = 0 THEN none ELSE Kept(g[n - 1], n)]
    BY <2>1, <2>5, <2>6 DEF Recursion
  <2>8. Loop(g)
    BY <1>1, <2>7 DEF Kept
  <2>9. Loop(k)
    BY <2>8
  <2> HIDE DEF k
  <2>10. k = [n \in 0 .. N |-> IF n = 0 THEN none ELSE Kept(k[n - 1], n)]
    BY <1>1, <2>9 DEF Kept
  <2>11. /\ k[0] = none
         /\ \A n \in 1 .. N : k[n] = Kept(k[n - 1], n)
    BY <2>1, <2>10
  <2>12. \A n \in 0 .. N : k[n] \in X
    <3> DEFINE T == {n \in Nat : n <= N => k[n] \in X}
    <3>1. 0 \in T
      BY <2>1, <2>11
    <3>2. ASSUME NEW n \in Nat, n \in T PROVE n + 1 \in T
      <4>1. CASE n + 1 \in 1 .. N
        <5>1. n \in 0 .. N /\ (n + 1) - 1 = n
          BY <4>1, <2>1
        <5> QED
          BY <5>1, <4>1, <3>2, <2>2, <2>11
      <4>2. CASE n + 1 \notin 1 .. N
        BY <4>2, <2>1
      <4> QED
        BY <4>1, <4>2
    <3> HIDE DEF T
    <3>3. Nat \subseteq T
      BY <3>1, <3>2, Induction
    <3> QED
      BY <3>3, <2>1 DEF T
  <2> QED
    BY <2>10, <2>11, <2>12
<1>2. EventsOf(q, W) = k[Len(q)]
  BY DEF EventsOf
<1> HIDE DEF k
<1>3. /\ k \in [0 .. Len(q) -> Seq(S)]
      /\ k[0] = <<>>
      /\ \A n \in 1 .. Len(q) : k[n] = Kept(k[n - 1], n)
  BY <1>1
<1> QED
  BY <1>2, <1>3 DEF KeptBy

LEMMA EventsOfNone == ASSUME NEW W PROVE EventsOf(<<>>, W) = <<>>
<1>1. ASSUME NEW q \in Seq({}), Len(q) = 0 PROVE EventsOf(q, W) = <<>>
  <2>1. PICK k \in [0 .. Len(q) -> Seq({})] :
          KeptBy(k, q, W) /\ EventsOf(q, W) = k[Len(q)]
    BY EventsLoop
  <2> QED
    BY <1>1, <2>1 DEF KeptBy
<1>2. <<>> \in Seq({}) /\ Len(<<>>) = 0
  OBVIOUS
<1> QED
  BY <1>1, <1>2

LEMMA EventsType ==
  ASSUME NEW S, NEW q \in Seq(S), NEW W
  PROVE  EventsOf(q, W) \in Seq(S) /\ Len(EventsOf(q, W)) \in 0 .. Len(q)
<1> DEFINE N == Len(q)
<1>1. N \in Nat
  OBVIOUS
<1>2. PICK k \in [0 .. N -> Seq(S)] : KeptBy(k, q, W) /\ EventsOf(q, W) = k[N]
  BY EventsLoop
<1> DEFINE T == {n \in Nat : n <= N => Len(k[n]) \in 0 .. n}
<1>3. 0 \in T
  BY <1>2 DEF KeptBy
<1>4. ASSUME NEW n \in Nat, n \in T PROVE n + 1 \in T
  <2>1. CASE n + 1 \in 1 .. N
    <3>1. k[n] \in Seq(S) /\ q[n + 1] \in S /\ Len(k[n]) \in 0 .. n
      BY <2>1, <1>2, <1>4
    <3>2. k[n + 1] = k[n] \/ k[n + 1] = Append(k[n], q[n + 1])
      <4>1. (n + 1) - 1 = n
        OBVIOUS
      <4>2. k[n + 1] = IF q[n + 1].wd \in W THEN Append(k[(n + 1) - 1], q[n + 1])
                                            ELSE k[(n + 1) - 1]
        BY <2>1, <1>2 DEF KeptBy
      <4> QED
        BY <4>1, <4>2
    <3> QED
      BY <3>1, <3>2
  <2>2. CASE n + 1 \notin 1 .. N
    BY <2>2, <1>1
  <2> QED
    BY <2>1, <2>2
<1> HIDE DEF T, N
<1>5. Nat \subseteq T
  BY <1>3, <1>4, Induction
<1> QED
  BY <1>1, <1>2, <1>5 DEF T, N

LEMMA EventsAppend ==
  ASSUME NEW S, NEW q \in Seq(S), NEW e \in S, NEW W
  PROVE  EventsOf(Append(q, e), W) =
           IF e.wd \in W THEN Append(EventsOf(q, W), e) ELSE EventsOf(q, W)
<1> DEFINE N == Len(q)
           r == Append(q, e)
<1>1. /\ N \in Nat /\ r \in Seq(S) /\ Len(r) = N + 1
      /\ \A n \in 1 .. N : r[n] = q[n]
      /\ r[N + 1] = e
  OBVIOUS
<1>2. PICK k \in [0 .. N -> Seq(S)] : KeptBy(k, q, W) /\ EventsOf(q, W) = k[N]
  BY EventsLoop
<1> HIDE DEF r
<1>3. PICK l \in [0 .. Len(r) -> Seq(S)] :
        KeptBy(l, r, W) /\ EventsOf(r, W) = l[Len(r)]
  BY <1>1, EventsLoop
<1> USE DEF KeptBy
<1> HIDE DEF N
<1> DEFINE T == {n \in Nat : n <= N => l[n] = k[n]}
<1>4. 0 \in T
  BY <1>2, <1>3
<1>5. ASSUME NEW n \in Nat, n \in T PROVE n + 1 \in T
  <2>1. CASE n + 1 \in 1 .. N
    <3>1. l[n] = k[n]
      BY <2>1, <1>1, <1>5
    <3>2. n + 1 \in 1 .. N + 1 /\ r[n + 1] = q[n + 1] /\ (n + 1) - 1 = n
      BY <2>1, <1>1
    <3>3. k[n + 1] = IF q[n + 1].wd \in W THEN Append(k[(n + 1) - 1], q[n + 1])
                                          ELSE k[(n + 1) - 1]
      BY <2>1, <1>2 DEF N
    <3>4. l[n + 1] = IF r[n + 1].wd \in W THEN Append(l[(n + 1) - 1], r[n + 1])
                                          ELSE l[(n + 1) - 1]
      BY <3>2, <1>1, <1>3
    <3> QED
      BY <3>1, <3>2, <3>3, <3>4
  <2>2. CASE n + 1 \notin 1 .. N
    BY <2>2, <1>1
  <2> QED
    BY <2>1, <2>2
<1> HIDE DEF T
<1>6. Nat \subseteq T
  BY <1>4, <1>5, Induction
<1>7. l[N] = k[N]
  BY <1>1, <1>6 DEF T
<1>8. N + 1 \in 1 .. N + 1 /\ (N + 1) - 1 = N
  BY <1>1
<1>9. EventsOf(r, W) =
        IF e.wd \in W THEN Append(EventsOf(q, W), e) ELSE EventsOf(q, W)
  BY <1>1, <1>2, <1>3, <1>7, <1>8 DEF N
<1> QED
  BY <1>9 DEF r


LEMMA EventsConcat ==
  ASSUME NEW S, NEW q \in Seq(S), NEW r \in Seq(S), NEW W
  PROVE  EventsOf(q \o r, W) = EventsOf(q, W) \o EventsOf(r, W)
<1> DEFINE R == {s \in Seq(S) :
                   EventsOf(q \o s, W) = EventsOf(q, W) \o EventsOf(s, W)}
<1>1. ASSUME NEW s \in Seq(S), Len(s) = 0 PROVE s \in R
  <2>1. s = <<>> /\ q \o s = q
    BY <1>1
  <2>2. EventsOf(q, W) \in Seq(S) /\ EventsOf(s, W) = <<>>
    BY <2>1, EventsType, EventsOfNone
  <2>3. EventsOf(q, W) \o EventsOf(s, W) = EventsOf(q, W)
    BY <2>2
  <2> QED
    BY <2>1, <2>3
<1>2. ASSUME NEW s \in Seq(S), NEW e \in S, s \in R PROVE Append(s, e) \in R
  <2>1. /\ Append(s, e) \in Seq(S) /\ q \o s \in Seq(S)
        /\ q \o Append(s, e) = Append(q \o s, e)
    OBVIOUS
  <2>2. /\ EventsOf(q, W) \in Seq(S) /\ EventsOf(s, W) \in Seq(S)
    BY EventsType
  <2>3. EventsOf(q \o s, W) = EventsOf(q, W) \o EventsOf(s, W)
    BY <1>2
  <2>4. CASE e.wd \in W
    <3>1. EventsOf(q \o Append(s, e), W) = Append(EventsOf(q \o s, W), e)
      BY <2>1, <2>4, EventsAppend
    <3>2. EventsOf(Append(s, e), W) = Append(EventsOf(s, W), e)
      BY <2>4, EventsAppend
    <3>3. EventsOf(q, W) \o Append(EventsOf(s, W), e)
            = Append(EventsOf(q, W) \o EventsOf(s, W), e)
      BY <2>2
    <3> QED
      BY <2>1, <2>3, <3>1, <3>2, <3>3
  <2>5. CASE e.wd \notin W
    <3>1. EventsOf(q \o Append(s, e), W) = EventsOf(q \o s, W)
      <4> DEFINE t == q \o s
      <4>0. t \in Seq(S)
        BY <2>1
      <4> HIDE DEF t
      <4>2. EventsOf(Append(t, e), W) = EventsOf(t, W)
        BY <4>0, <2>5, EventsAppend
      <4>1. EventsOf(Append(q \o s, e), W) = EventsOf(q \o s, W)
        BY <4>2, Zenon DEF t
      <4> QED
        BY <2>1, <4>1
    <3>2. EventsOf(Append(s, e), W) = EventsOf(s, W)
      BY <2>5, EventsAppend
    <3> QED
      BY <2>1, <2>3, <3>1, <3>2
  <2> QED
    BY <2>4, <2>5
<1> HIDE DEF R
<1>3. Seq(S) \subseteq R
  BY <1>1, <1>2, AppendInduction
<1> QED
  BY <1>3 DEF R

(* All of a queue, when every event is from W, and none when none is. *)
LEMMA EventsAll ==
  ASSUME NEW S, NEW W, \A e \in S : e.wd \in W, NEW q \in Seq(S)
  PROVE  EventsOf(q, W) = q
<1> DEFINE R == {s \in Seq(S) : EventsOf(s, W) = s}
<1>1. ASSUME NEW s \in Seq(S), Len(s) = 0 PROVE s \in R
  <2>1. s = <<>>
    BY <1>1
  <2> QED
    BY <2>1, EventsOfNone
<1>2. ASSUME NEW s \in Seq(S), NEW e \in S, s \in R PROVE Append(s, e) \in R
  BY <1>2, EventsAppend
<1> HIDE DEF R
<1>3. Seq(S) \subseteq R
  BY <1>1, <1>2, AppendInduction
<1> QED
  BY <1>3 DEF R

LEMMA EventsNone ==
  ASSUME NEW S, NEW W, \A e \in S : e.wd \notin W, NEW q \in Seq(S)
  PROVE  EventsOf(q, W) = <<>>
<1> DEFINE R == {s \in Seq(S) : EventsOf(s, W) = <<>>}
<1>1. ASSUME NEW s \in Seq(S), Len(s) = 0 PROVE s \in R
  <2>1. s = <<>>
    BY <1>1
  <2> QED
    BY <2>1, EventsOfNone
<1>2. ASSUME NEW s \in Seq(S), NEW e \in S, s \in R PROVE Append(s, e) \in R
  BY <1>2, EventsAppend
<1> HIDE DEF R
<1>3. Seq(S) \subseteq R
  BY <1>1, <1>2, AppendInduction
<1> QED
  BY <1>3 DEF R

LEMMA SameEvents ==
  ASSUME NEW S, NEW q \in Seq(S), NEW r \in Seq(S), Len(q) = Len(r),
         \A n \in 1 .. Len(q) : q[n] = r[n]
  PROVE  q = r
OBVIOUS

LEMMA OneInFront ==
  ASSUME NEW S, NEW one \in Seq(S), Len(one) = 1, NEW s \in Seq(S)
  PROVE  one \o s # <<>> /\ Head(one \o s) = one[1] /\ Tail(one \o s) = s
<1> DEFINE r == one \o s
<1>1. /\ Len(s) \in Nat /\ r \in Seq(S) /\ Len(r) = Len(s) + 1
      /\ \A i \in 1 .. Len(s) + 1 : r[i] = IF i <= 1 THEN one[i] ELSE s[i - 1]
  <2>1. Len(s) \in Nat
    OBVIOUS
  <2>2. /\ r \in Seq(S)
        /\ Len(r) = Len(one) + Len(s)
        /\ \A i \in 1 .. Len(one) + Len(s) :
             r[i] = IF i <= Len(one) THEN one[i] ELSE s[i - Len(one)]
    BY ConcatProperties, Zenon
  <2> HIDE DEF r
  <2> QED
    BY <2>1, <2>2
<1> HIDE DEF r
<1>2. ASSUME NEW i \in 1 .. Len(s) PROVE r[i + 1] = s[i]
  <2>1. (i + 1) - 1 = i /\ i + 1 \in 1 .. Len(s) + 1 /\ ~(i + 1 <= 1)
    BY <1>1
  <2> QED
    BY <1>1, <2>1
<1>3. r # <<>> /\ Head(r) = one[1]
  BY <1>1
<1>4. /\ Tail(r) \in Seq(S) /\ Len(Tail(r)) = Len(s)
      /\ \A i \in 1 .. Len(s) : Tail(r)[i] = s[i]
  BY <1>1, <1>2, <1>3
<1>5. Tail(r) = s
  <2> DEFINE t == Tail(r)
  <2>1. t \in Seq(S) /\ Len(t) = Len(s) /\ \A i \in 1 .. Len(s) : t[i] = s[i]
    BY <1>4
  <2> HIDE DEF t, r
  <2>2. t = s
    BY <2>1, SameEvents
  <2> QED
    BY <2>2 DEF t
<1> QED
  BY <1>3, <1>5 DEF r

(* The oldest event goes first: what is left when it is taken off.          *)
LEMMA EventsHead ==
  ASSUME NEW S, NEW q \in Seq(S), q # <<>>, NEW W
  PROVE  /\ Head(q) \in S /\ Tail(q) \in Seq(S)
         /\ Head(q).wd \in W => /\ EventsOf(q, W) # <<>>
                                /\ Head(EventsOf(q, W)) = Head(q)
                                /\ Tail(EventsOf(q, W)) = EventsOf(Tail(q), W)
         /\ Head(q).wd \notin W => EventsOf(q, W) = EventsOf(Tail(q), W)
<1> DEFINE h == Head(q)
           t == Tail(q)
           one == Append(<<>>, h)
<1>1. /\ h \in S /\ t \in Seq(S) /\ <<>> \in Seq(S)
      /\ one \in Seq(S) /\ Len(one) = 1 /\ one[1] = h
      /\ q = one \o t
  OBVIOUS
<1>2. EventsOf(t, W) \in Seq(S)
  BY <1>1, EventsType
<1>3. EventsOf(one, W) = IF h.wd \in W THEN one ELSE <<>>
  <2>1. EventsOf(one, W) =
          IF h.wd \in W THEN Append(EventsOf(<<>>, W), h) ELSE EventsOf(<<>>, W)
    <3>1. \A p \in Seq(S) :
            EventsOf(Append(p, h), W) =
              IF h.wd \in W THEN Append(EventsOf(p, W), h) ELSE EventsOf(p, W)
      <4> HIDE DEF h
      <4> QED
        BY <1>1, EventsAppend
    <3> QED
      BY <1>1, <3>1
  <2> QED
    BY <2>1, EventsOfNone
<1> HIDE DEF h, t, one
<1>4. EventsOf(q, W) = EventsOf(one, W) \o EventsOf(t, W)
  <2>1. EventsOf(one \o t, W) = EventsOf(one, W) \o EventsOf(t, W)
    BY <1>1, EventsConcat
  <2> QED
    BY <2>1, <1>1
<1>5. CASE h.wd \in W
  <2>1. EventsOf(q, W) = one \o EventsOf(t, W)
    BY <1>3, <1>4, <1>5
  <2>2. ASSUME NEW s \in Seq(S)
        PROVE  one \o s # <<>> /\ Head(one \o s) = h /\ Tail(one \o s) = s
    BY <1>1, OneInFront
  <2> QED
    BY <1>1, <1>2, <1>5, <2>1, <2>2 DEF h, t
<1>6. CASE h.wd \notin W
  <2>1. EventsOf(q, W) = <<>> \o EventsOf(t, W)
    BY <1>3, <1>4, <1>6
  <2>2. EventsOf(q, W) = EventsOf(t, W)
    BY <1>2, <2>1
  <2> QED
    BY <1>1, <1>6, <2>2 DEF h, t
<1> QED
  BY <1>5, <1>6


-----------------------------------------------------------------------------
(* The two halves of the queue, as the two components see it. *)
DeviceWds == {DT!InputWd}
FileWds == Nat \ {DT!InputWd}
DeviceQueue == EventsOf(inq, DeviceWds)
FileQueue == EventsOf(inq, FileWds)

(* The device table's step, with the queue that was q: what it queued is of *)
(* devices.                                                                 *)
Queued(q) ==
  /\ inq' \in Seq(Notice)
  /\ Len(inq') >= Len(q)
  /\ FileQueue' = EventsOf(q, FileWds)
  /\ ~inputWatch => inq' = q

LEMMA QueueSplits ==
  /\ \A e \in Notice : e.wd \in Nat /\ (e.wd = DT!InputWd <=> e \notin CW!Event)
  /\ \A W : EventsOf(<<>>, W) = <<>>
<1>1. \A e \in Notice : e.wd \in Nat /\ (e.wd = DT!InputWd <=> e \notin CW!Event)
  BY DEF Notice, DT!InputWd, CW!Event
<1> QED
  BY <1>1, EventsOfNone

(* A notice of a device that appears goes to the table's half. *)
LEMMA DeviceNotice ==
  ASSUME NEW q \in Seq(Notice), NEW n \in DT!Nodes
  PROVE  /\ q \o DT!NodeCreated(n) \in Seq(Notice)
         /\ Len(q \o DT!NodeCreated(n)) >= Len(q)
         /\ ~inputWatch => q \o DT!NodeCreated(n) = q
         /\ EventsOf(q \o DT!NodeCreated(n), DeviceWds)
              = EventsOf(q, DeviceWds) \o DT!NodeCreated(n)
         /\ EventsOf(q \o DT!NodeCreated(n), FileWds)
              = EventsOf(q, FileWds)
<1> DEFINE One == [wd : {DT!InputWd}, mask : {"CREATE"}, name : DT!Nodes]
           r == DT!NodeCreated(n)
<1>1. r \in Seq(One)
  <2> DEFINE e == [wd |-> DT!InputWd, mask |-> "CREATE", name |-> n]
  <2>1. e \in One
    OBVIOUS
  <2> HIDE DEF e, One
  <2>2. <<e>> \in Seq(One) /\ <<>> \in Seq(One)
    BY <2>1
  <2>3. r = IF inputWatch THEN <<e>> ELSE <<>>
    BY DEF DT!NodeCreated, e
  <2> QED
    BY <2>2, <2>3
<1>2. One \subseteq Notice
  BY DEF Notice
<1>3. \A e \in One : e.wd = DT!InputWd
  OBVIOUS
<1> HIDE DEF One, r
<1>4. r \in Seq(Notice)
  BY <1>1, <1>2, SeqMonotonic
<1>5. EventsOf(r, DeviceWds) = r
  <2>1. \A e \in One : e.wd \in DeviceWds
    BY <1>3 DEF DeviceWds, FileWds
  <2> QED
    BY <2>1, <1>1, EventsAll
<1>6. EventsOf(r, FileWds) = <<>>
  <2>1. \A e \in One : e.wd \notin FileWds
    BY <1>3 DEF DeviceWds, FileWds
  <2> QED
    BY <2>1, <1>1, EventsNone
<1>7. /\ EventsOf(q \o r, DeviceWds) = EventsOf(q, DeviceWds) \o r
      /\ EventsOf(q \o r, FileWds)
           = EventsOf(q, FileWds) \o <<>>
  <2>1. /\ EventsOf(q \o r, DeviceWds)
             = EventsOf(q, DeviceWds) \o EventsOf(r, DeviceWds)
        /\ EventsOf(q \o r, FileWds)
             = EventsOf(q, FileWds) \o EventsOf(r, FileWds)
    BY <1>4, EventsConcat
  <2> QED
    BY <2>1, <1>4, <1>5, <1>6
<1>8. /\ EventsOf(q, FileWds) \in Seq(Notice)
      /\ q \o r \in Seq(Notice) /\ Len(q \o r) = Len(q) + Len(r)
      /\ Len(q) \in Nat /\ Len(r) \in Nat
  BY <1>4, EventsType, ConcatProperties, LenProperties
<1>9. EventsOf(q, FileWds) \o <<>> = EventsOf(q, FileWds)
  BY <1>8
<1>10. ~inputWatch => q \o r = q
  <2>1. q \o <<>> = q
    OBVIOUS
  <2> QED
    BY <2>1 DEF r, DT!NodeCreated
<1> QED
  BY <1>7, <1>8, <1>9, <1>10 DEF r

(* Notices of the file go to the configuration's half. *)
LEMMA FileNotices ==
  ASSUME NEW q \in Seq(Notice), NEW r \in Seq(CW!Event)
  PROVE  /\ q \o r \in Seq(Notice)
         /\ Len(q \o r) >= Len(q)
         /\ EventsOf(q \o r, DeviceWds) = EventsOf(q, DeviceWds)
         /\ EventsOf(q \o r, FileWds)
              = EventsOf(q, FileWds) \o r
<1>1. CW!Event \subseteq Notice
  BY DEF Notice
<1>2. r \in Seq(Notice)
  BY <1>1, SeqMonotonic
<1>3. \A e \in CW!Event : e.wd \in FileWds /\ e.wd \notin DeviceWds
  BY DEF CW!Event, DT!InputWd, DeviceWds, FileWds
<1>4. /\ EventsOf(r, FileWds) = r
      /\ EventsOf(r, DeviceWds) = <<>>
  BY <1>3, EventsAll, EventsNone
<1>5. /\ EventsOf(q \o r, DeviceWds) = EventsOf(q, DeviceWds) \o <<>>
      /\ EventsOf(q \o r, FileWds)
           = EventsOf(q, FileWds) \o r
  <2>1. /\ EventsOf(q \o r, DeviceWds)
             = EventsOf(q, DeviceWds) \o EventsOf(r, DeviceWds)
        /\ EventsOf(q \o r, FileWds)
             = EventsOf(q, FileWds) \o EventsOf(r, FileWds)
    BY <1>2, EventsConcat
  <2> QED
    BY <2>1, <1>4
<1>6. /\ EventsOf(q, DeviceWds) \in Seq(Notice)
      /\ q \o r \in Seq(Notice) /\ Len(q \o r) = Len(q) + Len(r)
      /\ Len(q) \in Nat /\ Len(r) \in Nat
  BY <1>2, EventsType, ConcatProperties, LenProperties
<1>7. EventsOf(q, DeviceWds) \o <<>> = EventsOf(q, DeviceWds)
  BY <1>6
<1> QED
  BY <1>5, <1>6, <1>7

-----------------------------------------------------------------------------
(* The device table's actions as the thread takes them, on one queue and    *)
(* with the profiles that were read, are those of DeviceTable, on its half  *)
(* and with the profiles in force.                                          *)

LEMMA QuietSteps ==
  ASSUME DeviceQueue' = DeviceQueue, inForce' = inForce
  PROVE  /\ DT!scanDevices => TB!scanDevices
         /\ DT!pollAll => TB!pollAll
         /\ DT!enterLoop => TB!enterLoop
         /\ \A d : DT!Unplug(d) => TB!Unplug(d)
         /\ \A d : DT!KeyPress(d) => TB!KeyPress(d)
<1>1. DT!scanDevices => TB!scanDevices
  BY Zenon DEF
      DeviceQueue, DeviceWds,
      DT!scanDevices, TB!scanDevices, DT!Outcomes, TB!Outcomes, DT!Nodes,
      TB!Nodes, DT!valid, TB!valid, DT!Allocations, TB!Allocations, DT!Fds,
      TB!Fds, DT!NewHandle, TB!NewHandle, DT!loopVars, TB!loopVars, DT!None,
      TB!None
<1>2. DT!pollAll => TB!pollAll
  BY Zenon DEF
      DeviceQueue, DeviceWds,
      DT!pollAll, TB!pollAll, DT!None, TB!None, DT!RegisterPolls,
      TB!RegisterPolls, DT!loopVars, TB!loopVars, DT!Outcomes, TB!Outcomes,
      DT!Close, TB!Close, DT!Refused, TB!Refused, DT!Polled, TB!Polled,
      DT!Shadows, TB!Shadows, DT!Nodes, TB!Nodes, DT!Restrict, TB!Restrict,
      DT!Released, TB!Released
<1>3. DT!enterLoop => TB!enterLoop
  BY Zenon DEF
      DeviceQueue, DeviceWds,
      DT!enterLoop, TB!enterLoop, DT!None, TB!None, DT!Fds, TB!Fds,
      DT!Outcomes, TB!Outcomes, DT!Refused, TB!Refused, DT!Shadows,
      TB!Shadows, DT!Released, TB!Released, DT!NextFd, TB!NextFd,
      DT!RegisterPolls, TB!RegisterPolls, DT!Allocations, TB!Allocations,
      DT!createSignalFd, TB!createSignalFd, DT!createInotifyFd,
      TB!createInotifyFd, DT!Lowest, TB!Lowest, DT!Close, TB!Close,
      DT!Polled, TB!Polled, DT!Nodes, TB!Nodes, DT!Restrict, TB!Restrict,
      DT!Range, TB!Range
<1>4. ASSUME NEW d PROVE DT!Unplug(d) => TB!Unplug(d)
  BY Zenon DEF
      DeviceQueue, DeviceWds,
      DT!Unplug, TB!Unplug, DT!Nodes, TB!Nodes, DT!None, TB!None, DT!Killed,
      TB!Killed, DT!loopVars, TB!loopVars
<1>5. ASSUME NEW d PROVE DT!KeyPress(d) => TB!KeyPress(d)
  BY Zenon DEF
      DeviceQueue, DeviceWds,
      DT!KeyPress, TB!KeyPress, DT!Nodes, TB!Nodes, DT!Typed, TB!Typed,
      DT!kernelVars, TB!kernelVars, DT!loopVars, TB!loopVars, DT!None,
      TB!None
<1> QED
  BY <1>1, <1>2, <1>3, <1>4, <1>5

LEMMA EndSteps ==
  ASSUME DeviceQueue' = <<>>, inForce' = inForce
  PROVE  /\ DT!enterLoopFails => TB!enterLoopFails
         /\ DT!Shutdown => TB!Shutdown
         /\ \A f : DT!KeyboardFails(f) => TB!KeyboardFails(f)
<1>1. DT!End => TB!End
  BY Zenon DEF
      DeviceQueue, DeviceWds,
      DT!End, TB!End, DT!Nodes, TB!Nodes, DT!None, TB!None, DT!Range,
      TB!Range
<1> QED
  BY <1>1 DEF DT!enterLoopFails, TB!enterLoopFails, DT!Shutdown, TB!Shutdown,
              DT!KeyboardFails, TB!KeyboardFails, DT!ReadFails, TB!ReadFails,
              DT!None, TB!None


(* What does not read the queue or the profiles is the same for both. *)
LEMMA SameKernel ==
  /\ DT!Nodes = TB!Nodes /\ DT!Fds = TB!Fds /\ DT!None = TB!None
  /\ \A n : /\ DT!NextNode(n) <=> TB!NextNode(n)
            /\ DT!NodeCreated(n) = TB!NodeCreated(n)
            /\ DT!NewHandle(n) = TB!NewHandle(n)
            /\ DT!valid(n) <=> TB!valid(n)
  /\ \A f, S : DT!NextFd(f, S) <=> TB!NextFd(f, S)
  /\ \A f, S : DT!Lowest(f, S) <=> TB!Lowest(f, S)
  /\ \A f, x, v : DT!Put(f, x, v) = TB!Put(f, x, v)
  /\ \A h : DT!CanGrab(h) <=> TB!CanGrab(h)
  /\ \A h : DT!ReadFails(h) <=> TB!ReadFails(h)
  /\ \A f : DT!Failed(f) = TB!Failed(f) /\ DT!NotYet(f) = TB!NotYet(f)
  /\ \A D : DT!Destroy(D) <=> TB!Destroy(D)
<1>1. DT!Nodes = TB!Nodes /\ DT!Fds = TB!Fds /\ DT!None = TB!None
  BY Zenon DEF DT!Nodes, TB!Nodes, DT!Fds, TB!Fds, DT!None, TB!None
<1>2. ASSUME NEW n
      PROVE  /\ DT!NextNode(n) <=> TB!NextNode(n)
             /\ DT!NodeCreated(n) = TB!NodeCreated(n)
             /\ DT!NewHandle(n) = TB!NewHandle(n)
             /\ DT!valid(n) <=> TB!valid(n)
  BY Zenon DEF
      DT!NextNode, TB!NextNode, DT!NodeCreated, TB!NodeCreated, DT!NewHandle,
      TB!NewHandle, DT!valid, TB!valid, DT!Lowest, TB!Lowest, DT!Nodes,
      TB!Nodes, DT!InputWd, TB!InputWd, DT!None, TB!None
<1>3. ASSUME NEW f, NEW S
      PROVE  /\ DT!NextFd(f, S) <=> TB!NextFd(f, S)
             /\ DT!Lowest(f, S) <=> TB!Lowest(f, S)
  BY Zenon DEF
      DT!NextFd, TB!NextFd, DT!Lowest, TB!Lowest, DT!Fds, TB!Fds
<1>4. ASSUME NEW f, NEW x, NEW v PROVE DT!Put(f, x, v) = TB!Put(f, x, v)
  BY Zenon DEF DT!Put, TB!Put
<1>5. ASSUME NEW h PROVE /\ DT!CanGrab(h) <=> TB!CanGrab(h)
                         /\ DT!ReadFails(h) <=> TB!ReadFails(h)
  BY Zenon DEF
      DT!CanGrab, TB!CanGrab, DT!ReadFails, TB!ReadFails, DT!None, TB!None
<1>6. ASSUME NEW f PROVE DT!Failed(f) = TB!Failed(f) /\ DT!NotYet(f) = TB!NotYet(f)
  BY Zenon DEF
      DT!Failed, TB!Failed, DT!NotYet, TB!NotYet, DT!Restrict, TB!Restrict
<1>7. ASSUME NEW D PROVE DT!Destroy(D) <=> TB!Destroy(D)
  BY Zenon DEF
      DT!Destroy, TB!Destroy, DT!Close, TB!Close, DT!Shadows, TB!Shadows,
      DT!Nodes, TB!Nodes, DT!None, TB!None, DT!Restrict, TB!Restrict,
      DT!Released, TB!Released
<1> QED
  BY Zenon, <1>1, <1>2, <1>3, <1>4, <1>5, <1>6, <1>7

LEMMA GrabStep ==
  ASSUME inForce = m_profiles,
         NEW f, NEW h, NEW q \in Seq(Notice), DT!grabAndPrepare(f, h, q)
  PROVE  TB!grabAndPrepare(f, h, EventsOf(q, DeviceWds)) /\ Queued(q)
<1> USE SameKernel
<1>1. DT!NeedsShadow(h.dev) <=> TB!NeedsShadow(h.dev)
  BY DEF DT!NeedsShadow, TB!NeedsShadow
<1>2. TB!CanGrab(h) /\ grab' = [grab EXCEPT ![h.node] = f]
  BY DEF DT!grabAndPrepare
<1>3. CASE DT!NeedsShadow(h.dev)
  <2>1. PICK u \in DT!Fds, n \in DT!Nodes :
          /\ DT!NextFd(u, {f})
          /\ DT!NextNode(n)
          /\ nodes' = [nodes EXCEPT ![n] = Virtual]
          /\ uinput' = DT!Put(uinput, u, n)
          /\ open' = open \cup {f, u}
          /\ m_currentDevices' = DT!Put(m_currentDevices, f, [h EXCEPT !.shadow = u])
          /\ inq' = q \o DT!NodeCreated(n)
    BY <1>3 DEF DT!grabAndPrepare
  <2>2. /\ Queued(q)
        /\ DeviceQueue' = EventsOf(q, DeviceWds) \o TB!NodeCreated(n)
    BY <2>1, DeviceNotice DEF Queued, DeviceQueue, FileQueue
  <2> QED
    BY <2>1, <2>2, <1>1, <1>2, <1>3
       DEF TB!grabAndPrepare, DeviceQueue, DeviceWds
<1>4. CASE ~DT!NeedsShadow(h.dev)
  <2>1. /\ m_currentDevices' = TB!Put(m_currentDevices, f, h)
        /\ inq' = q
        /\ open' = open \cup {f}
        /\ UNCHANGED <<nodes, uinput>>
    BY <1>4 DEF DT!grabAndPrepare
  <2>2. Queued(q) /\ DeviceQueue' = EventsOf(q, DeviceWds)
    BY <2>1 DEF Queued, DeviceQueue, FileQueue
  <2> QED
    BY <2>1, <2>2, <1>1, <1>2, <1>4
       DEF TB!grabAndPrepare, DeviceQueue, DeviceWds
<1> QED
  BY <1>3, <1>4

LEMMA MatchStep ==
  ASSUME inForce = m_profiles,
         NEW f, NEW h, NEW q \in Seq(Notice), DT!configureAddIfMatch(f, h, q)
  PROVE  TB!configureAddIfMatch(f, h, EventsOf(q, DeviceWds)) /\ Queued(q)
<1> USE SameKernel
<1>1. CASE m_profiles[h.dev] # "unmatched" /\ DT!grabAndPrepare(f, h, q)
  BY <1>1, GrabStep DEF TB!configureAddIfMatch
<1>2. CASE /\ \/ m_profiles[h.dev] = "unmatched"
              \/ ~DT!CanGrab(h)
              \/ DT!NeedsShadow(h.dev) /\ "uinput" \in Faults
           /\ inq' = q
           /\ open' = open \ {f}
           /\ UNCHANGED <<nodes, grab, uinput, m_currentDevices>>
  <2>1. Queued(q) /\ DeviceQueue' = EventsOf(q, DeviceWds)
    BY <1>2 DEF Queued, DeviceQueue, FileQueue
  <2> QED
    BY <1>2, <2>1 DEF TB!configureAddIfMatch, DeviceQueue, DeviceWds,
       DT!NeedsShadow, TB!NeedsShadow
<1> QED
  BY <1>1, <1>2 DEF DT!configureAddIfMatch

LEMMA ConfigureStep ==
  ASSUME inForce = m_profiles, inForce' = inForce, inq \in Seq(Notice),
         DT!ConfigureNext
  PROVE  TB!ConfigureNext /\ Queued(inq)
<1> USE SameKernel
<1>1. phase = "configure" /\ UNCHANGED <<keyboard, DT!loopVars, m_profiles>>
  BY DEF DT!ConfigureNext
<1>2. CASE DOMAIN deviceList = {}
  <2>1. phase' = "poll" /\ UNCHANGED <<DT!kernelVars, inq, m_currentDevices, deviceList>>
    BY <1>2 DEF DT!ConfigureNext
  <2>2. Queued(inq) /\ DeviceQueue' = DeviceQueue
    BY <2>1 DEF Queued, DeviceQueue, FileQueue
  <2> QED
    BY <1>1, <1>2, <2>1, <2>2 DEF TB!ConfigureNext, DeviceQueue, DeviceWds,
       DT!kernelVars, TB!kernelVars, DT!loopVars, TB!loopVars
<1>3. CASE DOMAIN deviceList # {}
  <2>1. PICK f \in DOMAIN deviceList :
          /\ DT!Lowest(f, DOMAIN deviceList)
          /\ DT!configureAddIfMatch(f, deviceList[f], inq)
          /\ deviceList' = DT!NotYet(f)
          /\ UNCHANGED phase
    BY <1>3 DEF DT!ConfigureNext
  <2>2. TB!configureAddIfMatch(f, deviceList[f], EventsOf(inq, DeviceWds)) /\ Queued(inq)
    BY <2>1, MatchStep
  <2> QED
    BY <1>1, <1>3, <2>1, <2>2 DEF TB!ConfigureNext, DeviceWds,
       DT!loopVars, TB!loopVars
<1> QED
  BY <1>2, <1>3

LEMMA KeyboardStep ==
  ASSUME inq \in Seq(Notice), DT!CreateKeyboard
  PROVE  TB!CreateKeyboard /\ Queued(inq)
<1> USE SameKernel
<1>1. PICK u \in DT!Fds, n \in DT!Nodes :
        /\ DT!NextFd(u, {})
        /\ DT!NextNode(n)
        /\ keyboard' = u
        /\ nodes' = [nodes EXCEPT ![n] = Virtual]
        /\ uinput' = DT!Put(uinput, u, n)
        /\ open' = open \cup {u}
        /\ inq' = inq \o DT!NodeCreated(n)
  BY DEF DT!CreateKeyboard
<1>2. Queued(inq) /\ DeviceQueue' = DeviceQueue \o TB!NodeCreated(n)
  BY <1>1, DeviceNotice DEF Queued, DeviceQueue, FileQueue
<1> QED
  BY <1>1, <1>2 DEF TB!CreateKeyboard, DeviceQueue, DeviceWds

LEMMA ReadStep ==
  ASSUME inForce' = inForce, inq \in Seq(Notice), NEW f, DT!processEvent(f)
  PROVE  TB!processEvent(f) /\ Queued(inq)
<1> USE SameKernel
<1> DEFINE h == m_currentDevices[f]
<1>1. UNCHANGED <<deviceList, DT!loopVars, m_profiles, phase>>
  BY DEF DT!processEvent
<1>2. CASE DT!ReadFails(h)
  <2>1. DT!Destroy(DT!Failed(f)) /\ UNCHANGED <<keyboard, inq>>
    BY <1>2 DEF DT!processEvent
  <2>2. Queued(inq) /\ DeviceQueue' = DeviceQueue
    BY <2>1 DEF Queued, DeviceQueue, FileQueue
  <2> QED
    BY <1>1, <1>2, <2>1, <2>2 DEF TB!processEvent, DeviceQueue, DeviceWds,
       DT!loopVars, TB!loopVars
<1>3. CASE ~DT!ReadFails(h)
  <2>1. /\ m_currentDevices' = [m_currentDevices EXCEPT ![f].input = "none"]
        /\ UNCHANGED grab
        /\ IF h.input = "keys" /\ keyboard = DT!None
             THEN DT!CreateKeyboard
             ELSE UNCHANGED <<nodes, uinput, open, keyboard, inq>>
    BY <1>3 DEF DT!processEvent
  <2>2. CASE h.input = "keys" /\ keyboard = DT!None
    <3>1. TB!CreateKeyboard /\ Queued(inq)
      BY <2>1, <2>2, KeyboardStep
    <3> QED
      BY <1>1, <1>3, <2>1, <2>2, <3>1 DEF TB!processEvent, DT!loopVars, TB!loopVars
  <2>3. CASE ~(h.input = "keys" /\ keyboard = DT!None)
    <3>1. UNCHANGED <<nodes, uinput, open, keyboard, inq>>
      BY <2>1, <2>3
    <3>2. Queued(inq) /\ DeviceQueue' = DeviceQueue
      BY <3>1 DEF Queued, DeviceQueue, FileQueue
    <3> QED
      BY <1>1, <1>3, <2>1, <2>3, <3>1, <3>2 DEF TB!processEvent, DeviceQueue,
         DeviceWds, DT!loopVars, TB!loopVars
  <2> QED
    BY <2>2, <2>3
<1> QED
  BY <1>2, <1>3


LEMMA AddStep ==
  ASSUME inForce = m_profiles, NEW n, NEW q \in Seq(Notice), DT!AddDevice(n, q)
  PROVE  TB!AddDevice(n, EventsOf(q, DeviceWds)) /\ Queued(q)
<1> USE SameKernel
<1> DEFINE h == [DT!NewHandle(n) EXCEPT !.polled = TRUE]
           Refused == /\ "poll" \in Faults
                      /\ m_profiles[h.dev] # "unmatched" /\ DT!CanGrab(h)
                      /\ UNCHANGED <<DT!kernelVars, m_currentDevices>>
<1>1. PICK f \in DT!Fds :
        /\ DT!NextFd(f, {})
        /\ \/ DT!configureAddIfMatch(f, h, q)
           \/ /\ Refused
              /\ IF DT!NeedsShadow(h.dev)
                   THEN \E u \in DT!Fds, m \in DT!Nodes :
                          /\ DT!NextFd(u, {f})
                          /\ DT!NextNode(m)
                          /\ inq' = q \o DT!NodeCreated(m)
                   ELSE inq' = q
  BY DEF DT!AddDevice
<1>2. h = [TB!NewHandle(n) EXCEPT !.polled = TRUE]
  OBVIOUS
<1>3. DT!NeedsShadow(h.dev) <=> TB!NeedsShadow(h.dev)
  BY DEF DT!NeedsShadow, TB!NeedsShadow
<1> HIDE DEF h
<1>4. CASE DT!configureAddIfMatch(f, h, q)
  <2>1. TB!configureAddIfMatch(f, h, EventsOf(q, DeviceWds)) /\ Queued(q)
    BY <1>4, MatchStep
  <2> QED
    BY <1>1, <1>2, <2>1 DEF TB!AddDevice
<1>5. CASE Refused /\ DT!NeedsShadow(h.dev) /\ ~DT!configureAddIfMatch(f, h, q)
  <2>1. PICK u \in DT!Fds, m \in DT!Nodes :
          /\ DT!NextFd(u, {f})
          /\ DT!NextNode(m)
          /\ inq' = q \o DT!NodeCreated(m)
    BY <1>1, <1>5
  <2>2. /\ Queued(q)
        /\ DeviceQueue' = EventsOf(q, DeviceWds) \o TB!NodeCreated(m)
    BY <2>1, DeviceNotice DEF Queued, DeviceQueue, FileQueue
  <2> QED
    BY <1>1, <1>2, <1>3, <1>5, <2>1, <2>2 DEF TB!AddDevice, DeviceQueue, DeviceWds,
       DT!kernelVars, TB!kernelVars
<1>6. CASE Refused /\ ~DT!NeedsShadow(h.dev) /\ ~DT!configureAddIfMatch(f, h, q)
  <2>1. inq' = q
    BY <1>1, <1>6
  <2>2. Queued(q) /\ DeviceQueue' = EventsOf(q, DeviceWds)
    BY <2>1 DEF Queued, DeviceQueue, FileQueue
  <2> QED
    BY <1>1, <1>2, <1>3, <1>6, <2>2 DEF TB!AddDevice, DeviceQueue, DeviceWds,
       DT!kernelVars, TB!kernelVars
<1> QED
  BY <1>1, <1>4, <1>5, <1>6

(* A notice of a device taken off the queue, and what is left of it.        *)
LEMMA CreatedStep ==
  ASSUME inForce = m_profiles, inForce' = inForce,
         inq \in Seq(Notice), inq # <<>>, Head(inq).wd = DT!InputWd,
         DT!DeviceCreated(Head(inq).name, Tail(inq))
  PROVE  TB!HandleEvent /\ Queued(Tail(inq)) /\ FileQueue' = FileQueue
<1> USE SameKernel
<1>1. /\ Tail(inq) \in Seq(Notice)
      /\ DeviceQueue # <<>> /\ Head(DeviceQueue) = Head(inq)
      /\ Tail(DeviceQueue) = EventsOf(Tail(inq), DeviceWds)
      /\ FileQueue = EventsOf(Tail(inq), FileWds)
  <2>1. Head(inq).wd \in DeviceWds /\ Head(inq).wd \notin FileWds
    BY DEF DeviceWds, FileWds
  <2> QED
    BY <2>1, EventsHead DEF DeviceQueue, FileQueue
<1> DEFINE n == Head(inq).name
           q == Tail(inq)
<1>2. /\ phase = "loop"
      /\ UNCHANGED <<deviceList, keyboard, DT!loopVars, m_profiles, phase>>
  BY DEF DT!DeviceCreated
<1>3. CASE DT!valid(n) /\ DT!AddDevice(n, q)
  <2>1. TB!AddDevice(n, EventsOf(q, DeviceWds)) /\ Queued(q)
    BY <1>1, <1>3, AddStep
  <2>2. TB!DeviceCreated(n, EventsOf(q, DeviceWds))
    BY <1>2, <1>3, <2>1 DEF TB!DeviceCreated, DT!loopVars, TB!loopVars
  <2> QED
    BY <1>1, <2>1, <2>2 DEF TB!HandleEvent, DeviceQueue, DeviceWds, Queued
<1>4. CASE /\ ~DT!valid(n) \/ "open" \in Faults
           /\ inq' = q
           /\ UNCHANGED <<DT!kernelVars, m_currentDevices>>
  <2>1. Queued(q) /\ DeviceQueue' = EventsOf(q, DeviceWds)
    BY <1>1, <1>4 DEF Queued, DeviceQueue, FileQueue
  <2>2. TB!DeviceCreated(n, EventsOf(q, DeviceWds))
    BY <1>2, <1>4, <2>1 DEF TB!DeviceCreated, DeviceQueue, DeviceWds,
       DT!loopVars, TB!loopVars, DT!kernelVars, TB!kernelVars
  <2> QED
    BY <1>1, <2>1, <2>2 DEF TB!HandleEvent, DeviceQueue, DeviceWds, Queued
<1> QED
  BY <1>3, <1>4 DEF DT!DeviceCreated

LEMMA PlugStep ==
  ASSUME inForce' = inForce, inq \in Seq(Notice), NEW d, DT!Plug(d)
  PROVE  TB!Plug(d) /\ Queued(inq)
<1> USE SameKernel
<1>1. /\ d \notin {nodes[n] : n \in DT!Nodes}
      /\ EarlyPlug \/ inputWatch
      /\ Len(inq) < MaxQueue
      /\ UNCHANGED <<grab, uinput, open, m_currentDevices, deviceList, keyboard,
                     DT!loopVars, m_profiles, phase>>
  BY DEF DT!Plug
<1>2. PICK n \in DT!Nodes :
        /\ DT!NextNode(n)
        /\ nodes' = [nodes EXCEPT ![n] = d]
        /\ inq' = inq \o DT!NodeCreated(n)
  BY DEF DT!Plug
<1>3. Queued(inq) /\ DeviceQueue' = DeviceQueue \o TB!NodeCreated(n)
  BY <1>2, DeviceNotice DEF Queued, DeviceQueue, FileQueue
<1>4. Len(DeviceQueue) < MaxQueue
  <2>1. Len(DeviceQueue) \in 0 .. Len(inq) /\ Len(inq) \in Nat
    BY EventsType DEF DeviceQueue
  <2> QED
    BY <1>1, <2>1, TableAssumption
<1> QED
  BY <1>1, <1>2, <1>3, <1>4 DEF TB!Plug, DeviceQueue, DeviceWds,
     DT!loopVars, TB!loopVars

LEMMA ReloadStep ==
  ASSUME phase = "loop", inForce' \in ProfileLists, DT!ClearDevices
  PROVE  TB!Reload /\ DeviceQueue' = DeviceQueue
<1> USE SameKernel
<1>1. inq' = inq
  BY DEF DT!ClearDevices
<1>2. DeviceQueue' = DeviceQueue
  BY <1>1 DEF DeviceQueue
<1> QED
  BY <1>2 DEF DT!ClearDevices, TB!ClearDevices, TB!Reload, DT!Cleared, TB!Cleared,
     DeviceQueue, DeviceWds, DT!loopVars, TB!loopVars


-----------------------------------------------------------------------------
(* The same for the configuration's half. *)

LEMMA QuietConfigSteps ==
  ASSUME FileQueue' = FileQueue
  PROVE  /\ CW!FirstRead => CB!FirstRead
         /\ CW!EnterLoop => CB!EnterLoop
         /\ CW!createWatchConfig => CB!createWatchConfig
         /\ CW!createWatchCwd => CB!createWatchCwd
<1>1. CW!FirstRead => CB!FirstRead
  BY Zenon DEF
      FileQueue, FileWds,
      CW!FirstRead, CB!FirstRead, CW!reloadConfig, CB!reloadConfig,
      CW!fsVars, CB!fsVars, CW!watchVars, CB!watchVars, CW!Loaded, CB!Loaded
<1>2. CW!EnterLoop => CB!EnterLoop
  BY Zenon DEF
      FileQueue, FileWds,
      CW!EnterLoop, CB!EnterLoop, CW!fsVars, CB!fsVars, CW!watchVars,
      CB!watchVars
<1>3. CW!createWatchConfig => CB!createWatchConfig
  BY Zenon DEF
      FileQueue, FileWds,
      CW!createWatchConfig, CB!createWatchConfig, CW!Absent, CB!Absent,
      CW!AddWatch, CB!AddWatch, CW!Unset, CB!Unset, CW!fsVars, CB!fsVars,
      CW!WatchOn, CB!WatchOn
<1>4. CW!createWatchCwd => CB!createWatchCwd
  BY Zenon DEF
      FileQueue, FileWds,
      CW!createWatchCwd, CB!createWatchCwd, CW!AddWatch, CB!AddWatch, CW!Cwd,
      CB!Cwd, CW!Unset, CB!Unset, CW!fsVars, CB!fsVars, CW!WatchOn,
      CB!WatchOn
<1> QED
  BY <1>1, <1>2, <1>3, <1>4

(* What does not read the queue. *)
LEMMA SameConfig ==
  /\ CW!Event = CB!Event
  /\ \A e : CW!processConfigChange(e) <=> CB!processConfigChange(e)
  /\ \A o, name, masks : CW!Notices(o, name, masks) = CB!Notices(o, name, masks)
  /\ \A o : /\ CW!WatchOn(o) = CB!WatchOn(o)
            /\ CW!EndNotices(o) = CB!EndNotices(o)
            /\ CW!WatchesAfter(o) = CB!WatchesAfter(o)
  /\ CW!Contents = CB!Contents
<1>1. CW!Event = CB!Event /\ CW!Contents = CB!Contents
  BY Zenon DEF
      CW!Event, CB!Event, CW!Contents, CB!Contents, CW!Masks, CB!Masks,
      CW!Names, CB!Names
<1>2. ASSUME NEW e
      PROVE  CW!processConfigChange(e) <=> CB!processConfigChange(e)
  BY Zenon DEF
      CW!processConfigChange, CB!processConfigChange, CW!fsVars, CB!fsVars,
      CW!AttributesChanged, CB!AttributesChanged, CW!SelfGone, CB!SelfGone,
      CW!Appeared, CB!Appeared, CW!Ignored, CB!Ignored, CW!reloadConfig,
      CB!reloadConfig, CW!watchVars, CB!watchVars, CW!RemoveWatch,
      CB!RemoveWatch, CW!Loaded, CB!Loaded, CW!Unset, CB!Unset
<1>3. ASSUME NEW o, NEW name, NEW masks
      PROVE  CW!Notices(o, name, masks) = CB!Notices(o, name, masks)
  BY Zenon DEF CW!Notices, CB!Notices, CW!WatchOn, CB!WatchOn
<1>4. ASSUME NEW o
      PROVE  /\ CW!WatchOn(o) = CB!WatchOn(o)
             /\ CW!EndNotices(o) = CB!EndNotices(o)
             /\ CW!WatchesAfter(o) = CB!WatchesAfter(o)
  BY Zenon DEF
      CW!WatchOn, CB!WatchOn, CW!EndNotices, CB!EndNotices, CW!WatchesAfter,
      CB!WatchesAfter, CW!Notices, CB!Notices
<1> QED
  BY Zenon, <1>1, <1>2, <1>3, <1>4

(* An event of the file taken off the queue. *)
LEMMA ConfigEventStep ==
  ASSUME inq \in Seq(Notice), inq # <<>>, Head(inq).wd # DT!InputWd,
         CW!processConfigChange(Head(inq)), inq' = Tail(inq)
  PROVE  /\ CB!HandleEvent
         /\ inq' \in Seq(Notice)
         /\ DeviceQueue' = DeviceQueue
<1>1. Head(inq) \in Notice
  BY EventsHead
<1>2. Head(inq).wd \in FileWds /\ Head(inq).wd \notin DeviceWds
  BY <1>1, QueueSplits DEF FileWds, DeviceWds
<1>3. /\ Tail(inq) \in Seq(Notice)
      /\ FileQueue # <<>> /\ Head(FileQueue) = Head(inq)
      /\ Tail(FileQueue) = EventsOf(Tail(inq), FileWds)
      /\ DeviceQueue = EventsOf(Tail(inq), DeviceWds)
  BY <1>2, EventsHead DEF FileQueue, DeviceQueue
<1>4. FileQueue' = Tail(FileQueue) /\ DeviceQueue' = DeviceQueue
  BY <1>3 DEF FileQueue, DeviceQueue
<1> QED
  BY <1>3, <1>4, SameConfig DEF CB!HandleEvent, FileQueue, FileWds

(* A change the user makes. *)
LEMMA ChangeStep ==
  ASSUME inq \in Seq(Notice), NEW r \in Seq(CW!Event), CW!Change(r)
  PROVE  /\ CB!Change(r)
         /\ DeviceQueue' = DeviceQueue
         /\ inq' \in Seq(Notice) /\ Len(inq') >= Len(inq)
<1>1. inq' = inq \o r
  BY DEF CW!Change
<1>2. /\ inq' \in Seq(Notice) /\ Len(inq') >= Len(inq)
      /\ DeviceQueue' = DeviceQueue
      /\ FileQueue' = FileQueue \o r
  BY <1>1, FileNotices DEF DeviceQueue, FileQueue
<1> QED
  BY <1>2 DEF CW!Change, CB!Change, FileQueue, FileWds

LEMMA UserStep ==
  ASSUME CB!TypeOK, inq \in Seq(Notice), CW!User
  PROVE  /\ CB!User
         /\ DeviceQueue' = DeviceQueue
         /\ inq' \in Seq(Notice) /\ Len(inq') >= Len(inq)
<1> USE SameConfig
<1> DEFINE Kept == /\ DeviceQueue' = DeviceQueue
                   /\ inq' \in Seq(Notice) /\ Len(inq') >= Len(inq)
<1>1. ASSUME NEW o, NEW name \in {"", "ukc.json", "other"},
             NEW masks \in Seq(CB!Masks)
      PROVE  CW!Notices(o, name, masks) \in Seq(CW!Event)
  <2>1. name \in CB!Names
    BY DEF CB!Names
  <2> QED
    BY <2>1, CB!NoticesType, WatchAssumption DEF CB!FileOpKinds, CW!FileOpKinds
<1>2. /\ <<>> \in Seq(CB!Masks)
      /\ <<"MODIFY">> \in Seq(CB!Masks) /\ <<"ATTRIB">> \in Seq(CB!Masks)
      /\ <<"CREATE">> \in Seq(CB!Masks) /\ <<"MOVED_TO">> \in Seq(CB!Masks)
      /\ <<"MOVE_SELF">> \in Seq(CB!Masks) /\ <<"DELETE_SELF">> \in Seq(CB!Masks)
      /\ <<"ATTRIB", "DELETE_SELF">> \in Seq(CB!Masks)
  BY DEF CB!Masks
<1>11. ASSUME NEW o PROVE CW!EndNotices(o) \in Seq(CW!Event)
  <2>1. CASE o \in shared
    <3>1. CW!Notices(o, "", <<"ATTRIB">>) \in Seq(CW!Event)
      BY <1>1, <1>2
    <3> QED
      BY <2>1, <3>1 DEF CW!EndNotices
  <2>2. CASE o \notin shared
    <3>1. CW!Notices(o, "", <<"ATTRIB", "DELETE_SELF">>) \in Seq(CW!Event)
      BY <1>1, <1>2
    <3> QED
      BY <2>2, <3>1 DEF CW!EndNotices
  <2> QED
    BY <2>1, <2>2
<1>3. ASSUME NEW op, CW!MayDo(op) PROVE CB!MayDo(op)
  <2>1. inq = <<>> => FileQueue = <<>>
    BY EventsOfNone DEF FileQueue
  <2> QED
    BY <1>3, <2>1 DEF CW!MayDo, CB!MayDo, CW!Settled, CB!Settled, FileQueue, FileWds
<1> USE DEF CW!Absent, CB!Absent, CW!Cwd, CB!Cwd
<1>4. ASSUME CW!Write PROVE CB!User /\ Kept
  <2>1. CW!Notices(file, "", <<"MODIFY">>) \in Seq(CW!Event)
    BY <1>1, <1>2
  <2> QED
    BY <1>3, <1>4, <2>1, ChangeStep DEF CW!Write, CB!Write, CB!User
<1>5. ASSUME CW!Touch PROVE CB!User /\ Kept
  <2>1. CW!Notices(file, "", <<"ATTRIB">>) \in Seq(CW!Event)
    BY <1>1, <1>2
  <2> QED
    BY <1>3, <1>5, <2>1, ChangeStep DEF CW!Touch, CB!Touch, CB!User
<1>6. ASSUME CW!Create PROVE CB!User /\ Kept
  <2>1. CW!Notices(CW!Cwd, "ukc.json", <<"CREATE">>) \in Seq(CW!Event)
    BY <1>1, <1>2
  <2> QED
    BY <1>3, <1>6, <2>1, ChangeStep DEF CW!Create, CB!Create, CB!User
<1>7. ASSUME CW!Replace PROVE CB!User /\ Kept
  <2>1. /\ CW!Notices(CW!Cwd, "ukc.json", <<"MOVED_TO">>) \in Seq(CW!Event)
        /\ CW!EndNotices(file) \in Seq(CW!Event)
    BY <1>1, <1>2, <1>11
  <2>2. CW!Notices(CW!Cwd, "ukc.json", <<"MOVED_TO">>) \o CW!EndNotices(file)
          \in Seq(CW!Event)
    BY <2>1, ConcatProperties
  <2> QED
    BY <1>3, <1>7, <2>2, ChangeStep DEF CW!Replace, CB!Replace, CB!User
<1>8. ASSUME CW!MoveAway PROVE CB!User /\ Kept
  <2>1. CW!Notices(file, "", <<"MOVE_SELF">>) \in Seq(CW!Event)
    BY <1>1, <1>2
  <2> QED
    BY <1>3, <1>8, <2>1, ChangeStep DEF CW!MoveAway, CB!MoveAway, CB!User
<1>9. ASSUME CW!Remove PROVE CB!User /\ Kept
  <2>1. CW!EndNotices(file) \in Seq(CW!Event)
    BY <1>11
  <2> QED
    BY <1>3, <1>9, <2>1, ChangeStep DEF CW!Remove, CB!Remove, CB!User
<1>10. ASSUME CW!Neighbour PROVE CB!User /\ Kept
  <2>1. CW!Notices(CW!Cwd, "other", <<"CREATE">>) \in Seq(CW!Event)
    BY <1>1, <1>2
  <2> QED
    BY <1>3, <1>10, <2>1, ChangeStep DEF CW!Neighbour, CB!Neighbour, CB!User
<1>12. ASSUME CW!Share PROVE CB!User /\ Kept
  <2>1. PICK masks \in {<<>>, <<"ATTRIB">>} :
          CW!Change(CW!Notices(file, "", masks))
    BY <1>12 DEF CW!Share
  <2>2. CW!Notices(file, "", masks) \in Seq(CW!Event)
    BY <1>1, <1>2
  <2>3. CB!Change(CB!Notices(file, "", masks)) /\ Kept
    BY <2>1, <2>2, ChangeStep
  <2> QED
    BY <1>3, <1>12, <2>3 DEF CW!Share, CB!Share, CB!User
<1>13. ASSUME CW!Elsewhere PROVE CB!User /\ Kept
  <2>1. PICK w \in watches :
          /\ w.on \notin {CW!Cwd, file}
          /\ \/ /\ \E mask \in {"MODIFY", "ATTRIB", "MOVE_SELF"} :
                     CW!Change(CW!Notices(w.on, "", <<mask>>))
                /\ UNCHANGED <<shared, watches>>
             \/ /\ \E masks \in {<<"DELETE_SELF">>, <<"ATTRIB", "DELETE_SELF">>} :
                     CW!Change(CW!Notices(w.on, "", masks))
                /\ shared' = shared \ {w.on}
                /\ watches' = watches \ CW!WatchOn(w.on)
    BY <1>13 DEF CW!Elsewhere
  <2>2. CASE /\ \E mask \in {"MODIFY", "ATTRIB", "MOVE_SELF"} :
                  CW!Change(CW!Notices(w.on, "", <<mask>>))
             /\ UNCHANGED <<shared, watches>>
    <3>1. PICK mask \in {"MODIFY", "ATTRIB", "MOVE_SELF"} :
            CW!Change(CW!Notices(w.on, "", <<mask>>))
      BY <2>2
    <3>2. CW!Notices(w.on, "", <<mask>>) \in Seq(CW!Event)
      BY <1>1, <1>2
    <3>3. CB!Change(CB!Notices(w.on, "", <<mask>>)) /\ Kept
      BY <3>1, <3>2, ChangeStep
    <3> QED
      BY <1>3, <1>13, <2>1, <2>2, <3>3 DEF CW!Elsewhere, CB!Elsewhere, CB!User
  <2>3. CASE /\ \E masks \in {<<"DELETE_SELF">>, <<"ATTRIB", "DELETE_SELF">>} :
                  CW!Change(CW!Notices(w.on, "", masks))
             /\ shared' = shared \ {w.on}
             /\ watches' = watches \ CW!WatchOn(w.on)
    <3>1. PICK masks \in {<<"DELETE_SELF">>, <<"ATTRIB", "DELETE_SELF">>} :
            CW!Change(CW!Notices(w.on, "", masks))
      BY <2>3
    <3>2. CW!Notices(w.on, "", masks) \in Seq(CW!Event)
      BY <1>1, <1>2
    <3>3. CB!Change(CB!Notices(w.on, "", masks)) /\ Kept
      BY <3>1, <3>2, ChangeStep
    <3> QED
      BY <1>3, <1>13, <2>1, <2>3, <3>3 DEF CW!Elsewhere, CB!Elsewhere, CB!User
  <2> QED
    BY <2>1, <2>2, <2>3
<1> QED
  BY <1>4, <1>5, <1>6, <1>7, <1>8, <1>9, <1>10, <1>12, <1>13 DEF CW!User


-----------------------------------------------------------------------------
(* One step of the daemon: each action keeps the invariant and is a step of *)
(* both components, or none of theirs.                                      *)

TableStep == [TB!Next \/ TB!Reload]_TB!vars
ConfigStep == [CB!Next]_CB!vars
History == inForce' = IF pc' = "configure" THEN m_profiles' ELSE inForce

LEMMA TableKept == ASSUME TB!TableInv, TableStep PROVE TB!TableInv'
<1> USE TableAssumption DEF DT!Modes, TB!Modes, DT!FaultKinds, TB!FaultKinds
<1>1. CASE TB!Reload
  BY <1>1, TB!ReloadKeeps
<1>2. CASE [TB!Next]_TB!vars
  BY <1>2, TB!NextKeeps
<1> QED
  BY <1>1, <1>2 DEF TableStep

LEMMA ConfigKept == ASSUME CB!WatchInv, ConfigStep PROVE CB!WatchInv'
  BY CB!NextInv, WatchAssumption DEF ConfigStep, CB!FileOpKinds, CW!FileOpKinds

(* A step that is none of the table's: it leaves the devices and their half *)
(* of the queue alone.                                                      *)
LEMMA TableStutters ==
  ASSUME UNCHANGED <<deviceVars, inForce>>, DeviceQueue' = DeviceQueue
  PROVE  TableStep
  BY DEF TableStep, TB!vars, deviceVars, DeviceQueue, DeviceWds, TB!kernelVars,
         TB!loopVars

LEMMA ConfigStutters ==
  ASSUME UNCHANGED <<configVars, m_profiles>>, FileQueue' = FileQueue
  PROVE  ConfigStep
  BY DEF ConfigStep, CB!vars, configVars, FileQueue, FileWds

LEMMA QueueKept ==
  ASSUME UNCHANGED inq
  PROVE  DeviceQueue' = DeviceQueue /\ FileQueue' = FileQueue
  BY DEF DeviceQueue, FileQueue

(* What the invariants of the components say of the variables the thread    *)
(* reads.                                                                   *)
LEMMA ReadsComponents ==
  ASSUME TB!TableInv
  PROVE  /\ DOMAIN m_currentDevices \subseteq DT!Fds
         /\ {m_epollFd, m_signalFd, m_inotifyFd} \subseteq DT!Fds \cup {DT!None}
         /\ inForce \in ProfileLists
         /\ phase \in {"scan", "configure", "poll", "loop", "exit"}
         /\ inputWatch \in BOOLEAN
         /\ DT!None \notin DT!Fds
  BY TableAssumption DEF TB!TableInv, TB!TypeOK, TB!Phases, TB!Fds, TB!None,
     DT!Fds, DT!None

(* start: the first read. *)
LEMMA StartStep ==
  ASSUME ThreadInv, Start, History
  PROVE  OwnInv' /\ TB!TableInv' /\ ConfigStep
<1>1. /\ pc = "start" /\ phase = "scan" /\ left = 0
      /\ pc' \in {"dead", "configure"}
      /\ UNCHANGED <<deviceVars, resume, reading, batch, left, m_quit, signal, moves>>
      /\ UNCHANGED <<inq, watches>>
  BY DEF ThreadInv, OwnInv, PhaseFollows, NothingLeft, Start, CW!FirstRead,
         CW!watchVars, configVars
<1>2. ConfigStep
  <2>1. CB!FirstRead
    BY <1>1, QueueKept, QuietConfigSteps DEF Start
  <2> QED
    BY <2>1 DEF ConfigStep, CB!Next, CB!Daemon
<1>3. CB!WatchInv'
  BY <1>1, <1>2, ConfigKept DEF ThreadInv
<1>4. m_profiles' \in ProfileLists
  BY <1>3 DEF CB!WatchInv, CB!TypeOK
<1>5. inForce' \in ProfileLists
  BY <1>4 DEF ThreadInv, OwnInv, TypeOK, History
<1>6. TB!TableInv'
  <2>1. UNCHANGED <<nodes, grab, uinput, open, inputWatch, m_currentDevices,
                    deviceList, keyboard, m_epollFd, m_signalFd, m_inotifyFd,
                    phase>>
    BY <1>1 DEF deviceVars
  <2>2. EventsOf(inq, {DT!InputWd})' = EventsOf(inq, {DT!InputWd})
    BY <1>1
  <2>3. TB!TableInv
    BY DEF ThreadInv
  <2>4. TB!TypeOK'
    BY <1>5, <2>1, <2>2, <2>3 DEF TB!TableInv, TB!TypeOK
  <2>5. TB!TableFollowsProfiles'
    BY <1>1, <2>1 DEF TB!TableFollowsProfiles
  <2>6. TB!GrabMatchesTable' /\ TB!DescriptorsDistinct' /\ TB!UinputsOwned'
        /\ TB!OpenIsFiled'
    BY <2>1, <2>3 DEF TB!TableInv, TB!GrabMatchesTable, TB!DescriptorsDistinct,
       TB!UinputsOwned, TB!OpenIsFiled, TB!Filed, TB!None
  <2>7. TB!NoFeedback' /\ TB!AllPolled' /\ TB!ListIsFresh' /\ TB!ScanStartsEmpty'
        /\ TB!UinputsDistinct'
    BY <2>1, <2>3 DEF TB!TableInv, TB!NoFeedback, TB!AllPolled, TB!ListIsFresh,
       TB!ScanStartsEmpty, TB!UinputsDistinct
  <2> QED
    BY <2>4, <2>5, <2>6, <2>7 DEF TB!TableInv
<1>7. OwnInv'
  <2>1. TypeOK' /\ inq' \in Seq(Notice)
    BY <1>1, <1>5 DEF ThreadInv, OwnInv, TypeOK, Steps, Ended, deviceVars
  <2>2. PhaseFollows' /\ NothingLeft' /\ NoQueueNoWatch'
    BY <1>1 DEF ThreadInv, OwnInv, PhaseFollows, NothingLeft, NoQueueNoWatch,
       deviceVars
  <2>3. BuiltForProfiles'
    BY <1>1, <1>4 DEF BuiltForProfiles, History, Ended, Reloading
  <2> QED
    BY <2>1, <2>2, <2>3 DEF OwnInv
<1> QED
  BY <1>2, <1>6, <1>7


(* configureAll, and the polling after a reload. *)
LEMMA ConfigureThread ==
  ASSUME ThreadInv, Configure, History
  PROVE  OwnInv' /\ TableStep /\ ConfigStep
<1>1. /\ pc = "configure" /\ inForce = m_profiles
      /\ inq \in Seq(Notice) /\ TypeOK /\ TB!TableInv
      /\ m_profiles \in ProfileLists
      /\ UNCHANGED <<configVars, resume, reading, batch, left, m_quit, signal, moves>>
      /\ pc' = IF phase' = "loop" THEN "inotify" ELSE "configure"
  BY DEF ThreadInv, OwnInv, BuiltForProfiles, Reloading, Ended, Configure
<1>2. UNCHANGED <<m_profiles, inForce, inputWatch, m_epollFd, m_signalFd, m_inotifyFd>>
  BY <1>1 DEF Configure, History, DT!scanDevices, DT!ConfigureNext, DT!pollAll,
     DT!loopVars
<1>3. TB!Next /\ Queued(inq)
  <2>1. CASE DT!scanDevices \/ DT!pollAll
    <3>1. inq' = inq
      BY <2>1 DEF DT!scanDevices, DT!pollAll
    <3>2. Queued(inq)
      BY <1>1, <3>1 DEF Queued, FileQueue
    <3> QED
      BY <2>1, <3>1, <3>2, <1>2, QueueKept, QuietSteps DEF TB!Next
  <2>2. CASE DT!ConfigureNext
    BY <2>2, <1>1, <1>2, ConfigureStep DEF TB!Next
  <2> QED
    BY <2>1, <2>2 DEF Configure
<1>4. ConfigStep
  BY <1>1, <1>2, <1>3, ConfigStutters DEF Queued, FileQueue
<1>5. TableStep
  BY <1>3 DEF TableStep
<1>6. /\ phase' \in {"configure", "poll", "loop"}
      /\ phase' = "loop" => m_epollFd # DT!None
  BY DEF Configure, DT!scanDevices, DT!ConfigureNext, DT!pollAll
<1>7. TypeOK' /\ inq' \in Seq(Notice)
  <2>1. left \in 0 .. Len(inq) /\ Len(inq) \in Nat /\ Len(inq') \in Nat
    BY <1>1, <1>3 DEF TypeOK, Queued
  <2>2. left' \in 0 .. Len(inq')
    BY <1>1, <1>3, <2>1 DEF Queued
  <2> QED
    BY <1>1, <1>2, <1>3, <2>2 DEF TypeOK, Queued, Steps
<1>8. PhaseFollows' /\ BuiltForProfiles' /\ NothingLeft'
  BY <1>1, <1>2, <1>6 DEF ThreadInv, OwnInv, PhaseFollows, BuiltForProfiles,
     NothingLeft, Reloading, Ended
<1>9. NoQueueNoWatch'
  BY <1>1, <1>2, <1>3 DEF ThreadInv, OwnInv, NoQueueNoWatch, Queued, configVars
<1> QED
  BY <1>4, <1>5, <1>7, <1>8, <1>9 DEF OwnInv

(* enterLoop up to the watch. *)
LEMMA EnterThread ==
  ASSUME ThreadInv, EnterLoop, History
  PROVE  OwnInv' /\ TableStep /\ ConfigStep
<1>1. /\ pc = "configure" /\ inForce = m_profiles
      /\ inq \in Seq(Notice) /\ TypeOK /\ TB!TableInv
      /\ m_profiles \in ProfileLists
      /\ UNCHANGED <<reading, batch, left, m_quit, signal, moves>>
      /\ pc' = "watch" /\ resume' = "wait"
      /\ m_epollFd = DT!None /\ left = 0 /\ watches = {} /\ inq = <<>>
  BY DEF ThreadInv, OwnInv, BuiltForProfiles, Reloading, Ended, EnterLoop,
     NothingLeft, NoQueueNoWatch, DT!enterLoop
<1>2. UNCHANGED <<inq, m_profiles, inForce, watches>> /\ phase' = "loop"
  BY <1>1 DEF EnterLoop, History, DT!enterLoop, CW!EnterLoop, CW!watchVars
<1>3. TB!Next
  BY <1>2, QueueKept, QuietSteps DEF TB!Next, EnterLoop
<1>4. CB!Next
  BY <1>2, QueueKept, QuietConfigSteps DEF CB!Next, CB!Daemon, EnterLoop
<1>5. m_epollFd' # DT!None /\ (m_inotifyFd' = DT!None => ~inputWatch')
  <2>1. PICK kept \in SUBSET DOMAIN m_currentDevices, epoll \in DT!Fds,
             signals \in DT!Outcomes({1}, "signal"),
             inotify \in DT!Outcomes({2}, "inotify") :
               /\ m_epollFd' = epoll
               /\ \E fd \in DT!Allocations(signals \cup inotify,
                              DT!Fds \ ((open \cup {epoll})
                                          \ DT!Released(DT!Refused(kept)))) :
                    DT!createInotifyFd(inotify, fd)
    BY DEF EnterLoop, DT!enterLoop
  <2>2. PICK fd \in DT!Allocations(signals \cup inotify,
                      DT!Fds \ ((open \cup {epoll})
                                  \ DT!Released(DT!Refused(kept)))) :
          DT!createInotifyFd(inotify, fd)
    BY <2>1
  <2>3. DT!None \notin DT!Fds
    BY <1>1, ReadsComponents
  <2>4. CASE inotify = {}
    BY <2>1, <2>2, <2>3, <2>4 DEF DT!createInotifyFd, DT!Outcomes
  <2>5. CASE inotify # {}
    <3>1. inotify = {2}
      BY <2>5 DEF DT!Outcomes
    <3>2. fd[2] \in DT!Fds
      BY <3>1, <2>2 DEF DT!Allocations
    <3> QED
      BY <2>1, <2>2, <2>3, <2>5, <3>2 DEF DT!createInotifyFd
  <2> QED
    BY <2>4, <2>5
<1>6. TypeOK' /\ inq' \in Seq(Notice)
  BY <1>1, <1>2 DEF TypeOK, Steps
<1>7. PhaseFollows' /\ BuiltForProfiles' /\ NothingLeft' /\ NoQueueNoWatch'
  BY <1>1, <1>2, <1>5 DEF PhaseFollows, BuiltForProfiles, NothingLeft,
     NoQueueNoWatch, Reloading, Ended
<1> QED
  BY <1>3, <1>4, <1>6, <1>7 DEF OwnInv, TableStep, ConfigStep

(* The three ways out. *)
LEMMA ExitThread ==
  ASSUME ThreadInv, GiveUp \/ LeaveLoop \/ ReadAborts, History
  PROVE  OwnInv' /\ TableStep /\ pc' = "exit"
<1>1. /\ left = 0 /\ pc' = "exit" /\ DT!End
      /\ inq \in Seq(Notice) /\ TypeOK /\ m_profiles \in ProfileLists
      /\ reading' = DT!None
      /\ UNCHANGED <<resume, batch, left, m_quit, signal, moves>>
  BY DEF ThreadInv, OwnInv, TypeOK, BuiltForProfiles, NothingLeft, GiveUp,
     LeaveLoop, ReadAborts, DT!enterLoopFails, DT!Shutdown, DT!KeyboardFails
<1>2. inq' = <<>> /\ m_profiles' = m_profiles /\ inForce' = inForce
      /\ phase' = "exit" /\ m_epollFd' = DT!None /\ m_inotifyFd' = DT!None
  BY <1>1 DEF DT!End, History
<1>3. DeviceQueue' = <<>>
  BY <1>2, EventsOfNone DEF DeviceQueue
<1>4. TableStep
  <2>1. CASE GiveUp \/ LeaveLoop
    BY <2>1, <1>2, <1>3, EndSteps DEF TableStep, TB!Next, GiveUp, LeaveLoop
  <2>2. CASE ReadAborts
    <3>1. /\ phase = "loop" /\ reading \in DOMAIN m_currentDevices
          /\ TB!KeyboardFails(reading)
      BY <2>2, <1>2, <1>3, EndSteps
         DEF ReadAborts, ThreadInv, OwnInv, TypeOK, PhaseFollows
    <3>2. TB!Readable(reading)
      BY <3>1 DEF ThreadInv, TB!TableInv, TB!AllPolled, TB!KeyboardFails,
         TB!Readable
    <3> QED
      BY <3>1, <3>2 DEF TableStep, TB!Next, TB!ReadDevice
  <2> QED
    BY <2>1, <2>2
<1>5. inq' \in Seq(Notice) /\ Len(inq') = 0
  BY <1>2
<1>6. TypeOK'
  BY <1>1, <1>2, <1>5 DEF TypeOK, Steps, Ended
<1>7. PhaseFollows' /\ BuiltForProfiles' /\ NothingLeft' /\ NoQueueNoWatch'
  BY <1>1, <1>2 DEF PhaseFollows, BuiltForProfiles, NothingLeft, NoQueueNoWatch,
     Ended
<1> QED
  BY <1>1, <1>4, <1>5, <1>6, <1>7 DEF OwnInv

(* A watch is created, or refused. *)
LEMMA WatchThread ==
  ASSUME ThreadInv, CreateWatch, History
  PROVE  OwnInv' /\ TableStep /\ ConfigStep
<1>1. /\ pc = "watch" /\ OwnInv /\ CB!WatchInv
      /\ UNCHANGED <<deviceVars, resume, reading, batch, left, m_quit, signal, moves>>
      /\ pc' \in {resume, "watch"} /\ inq' = inq /\ m_profiles' = m_profiles
  BY DEF ThreadInv, CreateWatch, CW!createWatchConfig, CW!createWatchCwd
<1>2. resume \in {"wait", "inotify", "reload"}
  BY <1>1 DEF OwnInv, TypeOK
<1>3. inForce' = inForce
  BY <1>1, <1>2 DEF History
<1>4. TableStep
  BY <1>1, <1>3, QueueKept, TableStutters
<1>5. ConfigStep
  BY <1>1, QueueKept, QuietConfigSteps
     DEF ConfigStep, CB!Next, CB!Daemon, CreateWatch
<1>6. m_inotifyFd = DT!None => watches' = watches
  <2> SUFFICES ASSUME m_inotifyFd = DT!None PROVE watches' = watches
    OBVIOUS
  <2>1. UNCHANGED m_watch /\ stage \in {"watchConfig", "watchCwd"}
    BY DEF CreateWatch, CW!createWatchConfig, CW!createWatchCwd
  <2>2. m_watch = [s \in CB!Slots |-> CB!Unset] /\ lastWd \in Nat
    BY <1>1, <2>1 DEF CB!WatchInv, CB!OneWatch, CB!TypeOK
  <2>3. ASSUME NEW slot \in CB!Slots, NEW o, CW!AddWatch(slot, o) PROVE FALSE
    <3>1. PICK wd \in 1 .. lastWd + 1 : m_watch' = [m_watch EXCEPT ![slot] = wd]
      BY <2>3 DEF CW!AddWatch
    <3> QED
      BY <3>1, <2>1, <2>2 DEF CB!Unset
  <2>4. {"config", "cwd"} \subseteq CB!Slots
    BY DEF CB!Slots
  <2> QED
    BY <2>3, <2>4 DEF CreateWatch, CW!createWatchConfig, CW!createWatchCwd
<1>7. TypeOK' /\ inq' \in Seq(Notice)
  BY <1>1, <1>2, <1>3 DEF OwnInv, TypeOK, Steps, deviceVars
<1>8. PhaseFollows' /\ BuiltForProfiles' /\ NothingLeft'
  BY <1>1, <1>2, <1>3 DEF OwnInv, PhaseFollows, BuiltForProfiles, NothingLeft,
     Reloading, Ended, deviceVars
<1>9. NoQueueNoWatch'
  BY <1>1, <1>6 DEF OwnInv, NoQueueNoWatch, deviceVars
<1> QED
  BY <1>4, <1>5, <1>7, <1>8, <1>9 DEF OwnInv


-----------------------------------------------------------------------------
(* The loop. *)

LEMMA WaitThread ==
  ASSUME ThreadInv, Wait \/ EndOfBatch \/ EndOfEvents, History
  PROVE  OwnInv' /\ TableStep /\ ConfigStep
<1>1. /\ UNCHANGED <<deviceVars, configVars, inq, m_profiles, resume, reading,
                     left, m_quit, signal, moves>>
      /\ pc \in {"wait", "dispatch", "inotify"} /\ pc' \in {"dispatch", "wait"}
      /\ pc = "inotify" => left = 0
      /\ OwnInv /\ TB!TableInv
      /\ batch' \in {batch, Ready}
  BY DEF ThreadInv, Wait, EndOfBatch, EndOfEvents
<1>2. inForce' = inForce
  BY <1>1 DEF History
<1>3. TableStep /\ ConfigStep
  BY <1>1, <1>2, QueueKept, TableStutters, ConfigStutters
<1>4. Ready \subseteq DT!Fds
  <2>1. inq # <<>> => m_inotifyFd # DT!None
    BY <1>1 DEF OwnInv, NoQueueNoWatch
  <2> QED
    BY <1>1, <2>1, ReadsComponents DEF Ready
<1>5. TypeOK' /\ inq' \in Seq(Notice)
  BY <1>1, <1>2, <1>4 DEF OwnInv, TypeOK, Steps, deviceVars
<1>6. PhaseFollows' /\ BuiltForProfiles' /\ NothingLeft' /\ NoQueueNoWatch'
  BY <1>1, <1>2 DEF OwnInv, PhaseFollows, BuiltForProfiles, NothingLeft,
     NoQueueNoWatch, Reloading, Ended, deviceVars, configVars
<1> QED
  BY <1>3, <1>5, <1>6 DEF OwnInv

LEMMA DispatchThread ==
  ASSUME ThreadInv, Dispatch, History
  PROVE  OwnInv' /\ TableStep /\ ConfigStep
<1>1. /\ pc = "dispatch" /\ OwnInv /\ TB!TableInv /\ left = 0
      /\ UNCHANGED <<deviceVars, configVars, inq, m_profiles, resume, moves>>
      /\ batch' \subseteq batch
      /\ pc' \in {"dispatch", "read", "inotify", "aborted"}
      /\ left' \in {left, Len(inq)} /\ (left' # left => pc' = "inotify")
      /\ IF pc' = "read" THEN reading' \in DOMAIN m_currentDevices
                         ELSE reading' = reading
      /\ {m_quit', signal'} \subseteq BOOLEAN
  <2>1. PICK f \in batch :
          /\ batch' = batch \ {f}
          /\ \/ DispatchDevice(f) \/ DispatchSignal(f)
             \/ DispatchInotify(f) \/ DispatchUnknown(f)
    BY DEF Dispatch
  <2>2. /\ pc = "dispatch" /\ OwnInv /\ TB!TableInv /\ left = 0
        /\ UNCHANGED <<resume, moves>>
        /\ {m_quit, signal} \subseteq BOOLEAN
    BY DEF ThreadInv, OwnInv, NothingLeft, TypeOK, Dispatch
  <2>3. CASE DispatchDevice(f)
    BY <2>1, <2>2, <2>3 DEF DispatchDevice
  <2>4. CASE DispatchSignal(f)
    BY <2>1, <2>2, <2>4 DEF DispatchSignal
  <2>5. CASE DispatchInotify(f)
    BY <2>1, <2>2, <2>5 DEF DispatchInotify
  <2>6. CASE DispatchUnknown(f)
    BY <2>1, <2>2, <2>6 DEF DispatchUnknown
  <2> QED
    BY <2>1, <2>3, <2>4, <2>5, <2>6
<1>2. inForce' = inForce
  BY <1>1 DEF History
<1>3. TableStep /\ ConfigStep
  BY <1>1, <1>2, QueueKept, TableStutters, ConfigStutters
<1>4. Len(inq) \in Nat
  BY <1>1 DEF OwnInv
<1>5. TypeOK' /\ inq' \in Seq(Notice)
  BY <1>1, <1>2, <1>4 DEF OwnInv, TypeOK, Steps, Ended, deviceVars
<1>6. PhaseFollows' /\ BuiltForProfiles' /\ NothingLeft' /\ NoQueueNoWatch'
  BY <1>1, <1>2 DEF OwnInv, PhaseFollows, BuiltForProfiles, NothingLeft,
     NoQueueNoWatch, Reloading, Ended, deviceVars, configVars
<1> QED
  BY <1>3, <1>5, <1>6 DEF OwnInv

(* processEvent: a device that has nothing to read is left as it is, any    *)
(* other step is one of the table's reads.                                  *)
LEMMA ReadThread ==
  ASSUME ThreadInv, Read, History
  PROVE  OwnInv' /\ TableStep /\ ConfigStep
<1> DEFINE h == m_currentDevices[reading]
<1>1. /\ pc = "read" /\ OwnInv /\ TB!TableInv
      /\ inq \in Seq(Notice) /\ TypeOK /\ left = 0
      /\ reading \in DOMAIN m_currentDevices /\ phase = "loop"
      /\ DT!processEvent(reading)
      /\ pc' \in {"read", "dispatch"}
      /\ UNCHANGED <<configVars, resume, batch, left, m_quit, signal, moves>>
  BY DEF ThreadInv, OwnInv, TypeOK, PhaseFollows, NothingLeft, Read
<1>2. /\ UNCHANGED <<deviceList, inputWatch, m_epollFd, m_signalFd, m_inotifyFd,
                     m_profiles, phase>>
      /\ inForce' = inForce
  BY <1>1 DEF DT!processEvent, DT!loopVars, History
<1>3. TB!processEvent(reading) /\ Queued(inq)
  BY <1>1, <1>2, ReadStep
<1>4. ConfigStep
  BY <1>1, <1>2, <1>3, ConfigStutters DEF Queued, FileQueue
<1>5. TableStep
  <2>1. CASE TB!Readable(reading)
    <3>1. TB!ReadDevice
      BY <1>1, <1>3, <2>1 DEF TB!ReadDevice
    <3> QED
      BY <3>1 DEF TableStep, TB!Next
  <2>2. CASE ~TB!Readable(reading)
    <3>1. h.live /\ h.input = "none" /\ h \in TB!Handle
      <4>1. h.polled /\ h \in TB!Handle
        BY <1>1 DEF TB!TableInv, TB!AllPolled, TB!TypeOK
      <4> QED
        BY <4>1, <2>2 DEF TB!Readable, TB!Handle
    <3>2. /\ m_currentDevices' = [m_currentDevices EXCEPT ![reading].input = "none"]
          /\ UNCHANGED <<grab, nodes, uinput, open, keyboard, inq>>
      BY <3>1, <1>1 DEF DT!processEvent, DT!ReadFails
    <3>3. m_currentDevices' = m_currentDevices
      <4>1. m_currentDevices \in [DOMAIN m_currentDevices -> TB!Handle]
        BY <1>1 DEF TB!TableInv, TB!TypeOK
      <4>2. [h EXCEPT !.input = "none"] = h
        BY <3>1 DEF TB!Handle
      <4>3. m_currentDevices' = [m_currentDevices EXCEPT ![reading] = h]
        BY <3>2, <4>2
      <4> QED
        BY <4>1, <4>3, <1>1
    <3> QED
      BY <3>2, <3>3, <1>2, QueueKept, TableStutters DEF deviceVars
  <2> QED
    BY <2>1, <2>2
<1>6. IF pc' = "read" THEN reading' \in DOMAIN m_currentDevices'
                      ELSE reading' = DT!None
  <2>1. CASE ReadOver(h)
    BY <2>1 DEF Read
  <2>2. CASE ~ReadOver(h)
    <3>1. pc' = pc /\ reading' = reading /\ ~DT!ReadFails(h)
      BY <2>2 DEF Read, ReadOver
    <3>2. m_currentDevices' = [m_currentDevices EXCEPT ![reading].input = "none"]
      BY <3>1, <1>1 DEF DT!processEvent
    <3> QED
      BY <1>1, <3>1, <3>2
  <2> QED
    BY <2>1, <2>2
<1>7. TypeOK' /\ inq' \in Seq(Notice)
  <2>1. left' \in 0 .. Len(inq')
    BY <1>1, <1>3 DEF Queued
  <2> QED
    BY <1>1, <1>2, <1>3, <1>6, <2>1 DEF TypeOK, Queued, Steps
<1>8. PhaseFollows' /\ BuiltForProfiles' /\ NothingLeft'
  BY <1>1, <1>2 DEF OwnInv, PhaseFollows, BuiltForProfiles, NothingLeft,
     Reloading, Ended
<1>9. NoQueueNoWatch'
  BY <1>1, <1>2, <1>3 DEF OwnInv, NoQueueNoWatch, Queued, configVars
<1> QED
  BY <1>4, <1>5, <1>7, <1>8, <1>9 DEF OwnInv

-----------------------------------------------------------------------------
(* The loop of processInotify. *)

(* What an event taken off the queue leaves. *)
LEMMA OneHandled ==
  ASSUME OwnInv, left > 0
  PROVE  /\ inq # <<>> /\ Tail(inq) \in Seq(Notice)
         /\ SubSeq(inq, Handled + 1, Len(inq)) = Tail(inq)
         /\ LeftNext = left - 1 /\ left - 1 \in 0 .. Len(Tail(inq))
         /\ pc # "exit" => m_inotifyFd # DT!None
<1>1. left \in 0 .. Len(inq) /\ inq \in Seq(Notice) /\ Len(inq) \in Nat
  BY DEF OwnInv, TypeOK
<1>2. inq # <<>>
  BY <1>1
<1>3. Tail(inq) \in Seq(Notice) /\ Len(Tail(inq)) = Len(inq) - 1
  BY <1>1, <1>2
<1>4. SubSeq(inq, 2, Len(inq)) = Tail(inq)
  BY <1>1, <1>2
<1> QED
  BY <1>1, <1>2, <1>3, <1>4 DEF Handled, LeftNext, OwnInv, NoQueueNoWatch

LEMMA DeviceThread ==
  ASSUME ThreadInv, InotifyDevice, History
  PROVE  OwnInv' /\ TableStep /\ ConfigStep
<1>1. /\ pc = "inotify" /\ OwnInv /\ left > 0 /\ TypeOK
      /\ Head(inq).wd = DT!InputWd
      /\ DT!DeviceCreated(Head(inq).name, SubSeq(inq, Handled + 1, Len(inq)))
      /\ left' = LeftNext
      /\ UNCHANGED <<configVars, pc, resume, reading, batch, m_quit, signal, moves>>
  BY DEF ThreadInv, OwnInv, InotifyDevice
<1>2. UNCHANGED <<inputWatch, m_epollFd, m_signalFd, m_inotifyFd, m_profiles, phase>>
  BY <1>1 DEF DT!DeviceCreated, DT!loopVars
<1>3. inForce = m_profiles /\ inForce' = inForce
  BY <1>1 DEF OwnInv, BuiltForProfiles, Reloading, Ended, History
<1>4. /\ inq # <<>> /\ DT!DeviceCreated(Head(inq).name, Tail(inq))
      /\ left' \in 0 .. Len(Tail(inq)) /\ Tail(inq) \in Seq(Notice)
      /\ m_inotifyFd # DT!None
  BY <1>1, OneHandled
<1>5. TB!HandleEvent /\ Queued(Tail(inq)) /\ FileQueue' = FileQueue
  BY <1>1, <1>3, <1>4, CreatedStep DEF OwnInv
<1>6. TableStep /\ ConfigStep
  BY <1>1, <1>2, <1>5, ConfigStutters DEF TableStep, TB!Next
<1>7. TypeOK' /\ inq' \in Seq(Notice)
  <2>1. left' \in 0 .. Len(inq')
    BY <1>4, <1>5 DEF Queued
  <2> QED
    BY <1>1, <1>2, <1>3, <1>5, <2>1 DEF TypeOK, Queued
<1>8. PhaseFollows' /\ BuiltForProfiles' /\ NothingLeft' /\ NoQueueNoWatch'
  BY <1>1, <1>2, <1>3, <1>4 DEF OwnInv, PhaseFollows, BuiltForProfiles,
     NothingLeft, NoQueueNoWatch, Reloading, Ended
<1> QED
  BY <1>6, <1>7, <1>8 DEF OwnInv

LEMMA ConfigThread ==
  ASSUME ThreadInv, InotifyConfig, History
  PROVE  OwnInv' /\ TableStep /\ ConfigStep
<1>1. /\ pc = "inotify" /\ OwnInv /\ left > 0 /\ TypeOK /\ CB!WatchInv
      /\ Head(inq).wd # DT!InputWd
      /\ CW!processConfigChange(Head(inq))
      /\ left' = LeftNext /\ inq' = SubSeq(inq, Handled + 1, Len(inq))
      /\ UNCHANGED <<deviceVars, reading, batch, m_quit, signal, moves>>
  BY DEF ThreadInv, OwnInv, InotifyConfig
<1>2. /\ inq # <<>> /\ inq' = Tail(inq)
      /\ left' \in 0 .. Len(inq')
      /\ m_inotifyFd # DT!None
  BY <1>1, OneHandled
<1>3. CB!HandleEvent /\ inq' \in Seq(Notice) /\ DeviceQueue' = DeviceQueue
  BY <1>1, <1>2, ConfigEventStep DEF OwnInv
<1>4. ConfigStep
  BY <1>3 DEF ConfigStep, CB!Next, CB!Daemon
<1>5. m_profiles' \in ProfileLists
  BY <1>1, <1>4, ConfigKept DEF CB!WatchInv, CB!TypeOK
<1>6. \/ pc' = "dead" /\ resume' \in {resume, "inotify", "reload"}
      \/ pc' = "reload" /\ resume' = resume
      \/ pc' = "watch" /\ resume' = "inotify" /\ m_profiles' = m_profiles
      \/ pc' = "watch" /\ resume' = "reload"
      \/ pc' = "inotify" /\ resume' = resume /\ m_profiles' = m_profiles
  BY DEF InotifyConfig, GoTo, CW!SelfGone, CW!Ignored, AfterAppeared
<1>7. inForce' = inForce
  BY <1>6 DEF History
<1>8. TableStep
  BY <1>1, <1>3, <1>7, TableStutters
<1>9. TypeOK'
  BY <1>1, <1>2, <1>6, <1>7 DEF TypeOK, Steps, Ended, deviceVars
<1>10. PhaseFollows' /\ BuiltForProfiles' /\ NothingLeft' /\ NoQueueNoWatch'
  BY <1>1, <1>2, <1>5, <1>6, <1>7 DEF OwnInv, PhaseFollows, BuiltForProfiles,
     NothingLeft, NoQueueNoWatch, Reloading, Ended, deviceVars
<1> QED
  BY <1>3, <1>4, <1>8, <1>9, <1>10 DEF OwnInv

LEMMA ReloadThread ==
  ASSUME ThreadInv, Reload, History
  PROVE  OwnInv' /\ TableStep /\ ConfigStep
<1>1. /\ pc = "reload" /\ pc' = "configure" /\ OwnInv /\ TypeOK /\ TB!TableInv
      /\ phase = "loop" /\ m_epollFd # DT!None /\ m_profiles \in ProfileLists
      /\ UNCHANGED <<configVars, m_profiles, resume, reading, batch, left, m_quit,
                     signal, moves>>
  BY DEF ThreadInv, OwnInv, PhaseFollows, BuiltForProfiles, Reload
<1>2. /\ phase' = "scan"
      /\ UNCHANGED <<inq, inputWatch, m_epollFd, m_signalFd, m_inotifyFd>>
  BY DEF Reload, DT!ClearDevices, DT!loopVars
<1>3. inForce' = m_profiles'
  BY <1>1 DEF History
<1>4. TB!Reload
  BY <1>1, <1>3, ReloadStep DEF Reload
<1>5. TableStep /\ ConfigStep
  BY <1>1, <1>2, <1>4, QueueKept, ConfigStutters DEF TableStep
<1>6. TypeOK' /\ inq' \in Seq(Notice)
  BY <1>1, <1>2, <1>3 DEF OwnInv, TypeOK, Steps
<1>7. PhaseFollows' /\ BuiltForProfiles' /\ NothingLeft' /\ NoQueueNoWatch'
  BY <1>1, <1>2, <1>3 DEF OwnInv, PhaseFollows, BuiltForProfiles, NothingLeft,
     NoQueueNoWatch, Reloading, Ended, configVars
<1> QED
  BY <1>5, <1>6, <1>7 DEF OwnInv

-----------------------------------------------------------------------------
(* Outside the thread. *)

LEMMA HandsThread ==
  ASSUME ThreadInv, pc \notin Ended, PlugOrUnplug \/ Type, History
  PROVE  OwnInv' /\ TableStep /\ ConfigStep
<1>1. /\ OwnInv /\ TypeOK /\ TB!TableInv /\ inq \in Seq(Notice)
      /\ UNCHANGED <<configVars, pc, resume, reading, batch, left, m_quit, signal>>
      /\ moves' \in 0 .. MaxMoves
  BY MainLoopAssumption
     DEF ThreadInv, OwnInv, TypeOK, PlugOrUnplug, Type, threadVars
<1>2. PICK d \in Devices : DT!Plug(d) \/ DT!Unplug(d) \/ DT!KeyPress(d)
  BY DEF PlugOrUnplug, Type
<1>3. /\ UNCHANGED <<inputWatch, m_epollFd, m_signalFd, m_inotifyFd, m_profiles, phase>>
      /\ DOMAIN m_currentDevices' = DOMAIN m_currentDevices
  BY <1>2 DEF DT!Plug, DT!Unplug, DT!KeyPress, DT!loopVars, DT!Killed, DT!Typed
<1>4. inForce' = inForce
  BY <1>1, <1>3 DEF OwnInv, BuiltForProfiles, Reloading, Ended, History
<1>5. TB!Next /\ Queued(inq)
  <2>1. CASE DT!Plug(d)
    BY <1>1, <1>4, <2>1, PlugStep DEF TB!Next, TB!Hands
  <2>2. CASE DT!Unplug(d) \/ DT!KeyPress(d)
    <3>1. inq' = inq
      BY <2>2 DEF DT!Unplug, DT!KeyPress
    <3>2. Queued(inq)
      BY <1>1, <3>1 DEF Queued, FileQueue
    <3> QED
      BY <1>4, <2>2, <3>1, <3>2, QueueKept, QuietSteps DEF TB!Next, TB!Hands
  <2> QED
    BY <1>2, <2>1, <2>2
<1>6. TableStep /\ ConfigStep
  BY <1>1, <1>3, <1>5, ConfigStutters DEF TableStep, Queued, FileQueue
<1>7. TypeOK' /\ inq' \in Seq(Notice)
  <2>1. left \in 0 .. Len(inq) /\ Len(inq) \in Nat /\ Len(inq') \in Nat
    BY <1>1, <1>5 DEF TypeOK, Queued
  <2>2. left' \in 0 .. Len(inq')
    BY <1>1, <1>5, <2>1 DEF Queued
  <2> QED
    BY <1>1, <1>3, <1>4, <1>5, <2>2 DEF TypeOK, Queued
<1>8. PhaseFollows' /\ BuiltForProfiles' /\ NothingLeft'
  BY <1>1, <1>3, <1>4 DEF OwnInv, PhaseFollows, BuiltForProfiles, NothingLeft,
     Reloading, Ended
<1>9. NoQueueNoWatch'
  BY <1>1, <1>3, <1>5 DEF OwnInv, NoQueueNoWatch, Queued, configVars
<1> QED
  BY <1>6, <1>7, <1>8, <1>9 DEF OwnInv

(* What nobody watches queues nothing. *)
LEMMA UnwatchedUser ==
  ASSUME watches = {}, inq \in Seq(Notice), Len(inq) = 0, CW!User
  PROVE  watches' = {} /\ inq' = <<>>
<1>1. \A o, name, masks : CW!Notices(o, name, masks) = <<>>
  BY DEF CW!Notices, CW!WatchOn
<1>2. inq = <<>> /\ <<>> \o <<>> = <<>> /\ <<>> \o (<<>> \o <<>>) = <<>>
  OBVIOUS
<1> QED
  BY <1>1, <1>2 DEF CW!User, CW!Write, CW!Touch, CW!Share, CW!Create, CW!Replace,
     CW!MoveAway, CW!Remove, CW!Elsewhere, CW!Neighbour, CW!Change,
     CW!EndNotices, CW!WatchesAfter, CW!WatchOn

LEMMA EditThread ==
  ASSUME ThreadInv, pc \notin Ended, Edit, History
  PROVE  OwnInv' /\ TableStep /\ ConfigStep
<1>1. /\ OwnInv /\ TypeOK /\ CB!TypeOK /\ inq \in Seq(Notice)
      /\ CW!User
      /\ UNCHANGED <<deviceVars, threadVars>>
  BY DEF ThreadInv, OwnInv, CB!WatchInv, Ended, Edit
<1>2. m_profiles' = m_profiles
  BY <1>1 DEF CW!User, CW!Write, CW!Touch, CW!Share, CW!Create, CW!Replace,
     CW!MoveAway, CW!Remove, CW!Elsewhere, CW!Neighbour, CW!Change
<1>3. inForce' = inForce
  BY <1>1, <1>2 DEF OwnInv, BuiltForProfiles, Reloading, Ended, History, threadVars
<1>4. /\ CB!User
      /\ DeviceQueue' = DeviceQueue
      /\ inq' \in Seq(Notice) /\ Len(inq') >= Len(inq)
  BY <1>1, UserStep
<1>5. TableStep /\ ConfigStep
  BY <1>1, <1>3, <1>4, TableStutters DEF ConfigStep, CB!Next
<1>6. TypeOK'
  <2>1. left \in 0 .. Len(inq) /\ Len(inq) \in Nat /\ Len(inq') \in Nat
    BY <1>1, <1>4 DEF TypeOK
  <2>2. left' \in 0 .. Len(inq')
    BY <1>1, <1>4, <2>1 DEF threadVars
  <2> QED
    BY <1>1, <1>3, <2>2 DEF TypeOK, threadVars, deviceVars
<1>7. PhaseFollows' /\ BuiltForProfiles' /\ NothingLeft'
  BY <1>1, <1>2, <1>3 DEF OwnInv, PhaseFollows, BuiltForProfiles, NothingLeft,
     Reloading, Ended, threadVars, deviceVars
<1>8. NoQueueNoWatch'
  <2>1. inq = <<>> => Len(inq) = 0
    OBVIOUS
  <2> QED
    BY <1>1, <2>1, UnwatchedUser DEF OwnInv, NoQueueNoWatch, threadVars, deviceVars
<1> QED
  BY <1>4, <1>5, <1>6, <1>7, <1>8 DEF OwnInv

LEMMA SignalThread ==
  ASSUME ThreadInv, pc \notin Ended, Signal, History
  PROVE  OwnInv' /\ TableStep /\ ConfigStep
<1>1. /\ OwnInv
      /\ UNCHANGED <<deviceVars, configVars, inq, m_profiles, resume, reading,
                     batch, left, m_quit, moves>>
      /\ \/ pc' = "dead" /\ m_epollFd = DT!None /\ signal' = signal
         \/ pc' = pc /\ signal' = TRUE
  BY DEF ThreadInv, Signal
<1>2. inForce' = inForce
  BY <1>1 DEF OwnInv, BuiltForProfiles, Reloading, Ended, History
<1>3. TableStep /\ ConfigStep
  BY <1>1, <1>2, QueueKept, TableStutters, ConfigStutters
<1>4. pc = "read" => phase = "loop" /\ m_epollFd # DT!None
  BY <1>1 DEF OwnInv, PhaseFollows
<1>5. TypeOK' /\ inq' \in Seq(Notice)
  BY <1>1, <1>2, <1>4 DEF OwnInv, TypeOK, Steps, Ended, deviceVars
<1>6. PhaseFollows' /\ BuiltForProfiles' /\ NothingLeft' /\ NoQueueNoWatch'
  BY <1>1, <1>2 DEF OwnInv, PhaseFollows, BuiltForProfiles, NothingLeft,
     NoQueueNoWatch, Reloading, Ended, deviceVars, configVars
<1> QED
  BY <1>3, <1>5, <1>6 DEF OwnInv


-----------------------------------------------------------------------------
(* Every step. *)

LEMMA InitThreadInv == Init => ThreadInv /\ TB!Init /\ CB!Init
<1> SUFFICES ASSUME Init PROVE ThreadInv /\ TB!Init /\ CB!Init
  OBVIOUS
<1>1. /\ inq = <<>> /\ inForce = m_profiles /\ DT!Init /\ CW!Init
      /\ m_profiles = NoProfiles
  BY DEF Init, CW!Init
<1>2. EventsOf(inq, {DT!InputWd}) = <<>> /\ EventsOf(inq, Nat \ {DT!InputWd}) = <<>>
  BY <1>1, EventsOfNone
<1>3. TB!Init
  BY <1>1, <1>2, SameKernel DEF DT!Init, TB!Init
<1>4. CB!Init
  BY <1>1, <1>2 DEF CW!Init, CB!Init, CW!Absent, CB!Absent, CW!Unset, CB!Unset,
     CW!Slots, CB!Slots, CW!Contents, CB!Contents
<1>5. TB!TableInv
  BY <1>3, TB!InitTableInv, TableAssumption DEF DT!Modes, TB!Modes,
     DT!FaultKinds, TB!FaultKinds
<1>6. CB!WatchInv
  BY <1>4, CB!InitWatchInv, WatchAssumption DEF CB!FileOpKinds, CW!FileOpKinds
<1>7. inq \in Seq(Notice) /\ Len(inq) = 0
  BY <1>1
<1>8. TypeOK
  <2>1. /\ pc = "start" /\ resume = "wait" /\ reading = DT!None /\ batch = {}
        /\ left = 0 /\ m_quit = FALSE /\ signal = FALSE /\ moves = 0
    BY DEF Init
  <2>2. 0 \in 0 .. Len(inq) /\ 0 \in 0 .. MaxMoves
    BY <1>7, MainLoopAssumption
  <2>3. inForce \in ProfileLists
    BY <1>1, WatchAssumption
  <2>4. pc \in Steps /\ pc # "read"
    BY <2>1 DEF Steps
  <2>5. {m_quit, signal} \subseteq BOOLEAN
    BY <2>1
  <2>6. batch \subseteq DT!Fds
    BY <2>1
  <2> QED
    BY <2>1, <2>2, <2>3, <2>4, <2>5, <2>6 DEF TypeOK
<1>9. PhaseFollows /\ BuiltForProfiles /\ NothingLeft /\ NoQueueNoWatch
  BY <1>1, <1>7, WatchAssumption DEF Init, DT!Init, CW!Init, PhaseFollows,
     BuiltForProfiles, NothingLeft, NoQueueNoWatch
<1> QED
  BY <1>3, <1>4, <1>5, <1>6, <1>7, <1>8, <1>9 DEF ThreadInv, OwnInv

LEMMA ThreadStep ==
  ASSUME ThreadInv, Next
  PROVE  /\ ThreadInv'
         /\ Start \/ TableStep
         /\ \/ pc' = "exit" /\ (GiveUp \/ LeaveLoop \/ ReadAborts)
            \/ ConfigStep
<1>1. History
  BY DEF Next, History
<1>2. pc \notin Ended
  BY DEF Next, Thread, Outside, Ended, Start, Configure, EnterLoop, GiveUp,
     CreateWatch, Wait, Dispatch, Read, ReadAborts, EndOfBatch, LeaveLoop, InotifyDevice,
     InotifyConfig, Reload, EndOfEvents
<1>3. CASE Start
  <2>1. OwnInv' /\ TB!TableInv' /\ ConfigStep
    BY <1>1, <1>3, StartStep
  <2> QED
    BY <2>1, <1>2, <1>3, ConfigKept DEF ThreadInv, Ended, Start
<1>4. CASE GiveUp \/ LeaveLoop \/ ReadAborts
  <2>1. OwnInv' /\ TableStep /\ pc' = "exit"
    BY <1>1, <1>4, ExitThread
  <2> QED
    BY <1>4, <2>1, TableKept DEF ThreadInv
<1>5. CASE ~(Start \/ GiveUp \/ LeaveLoop \/ ReadAborts)
  <2>1. OwnInv' /\ TableStep /\ ConfigStep
    BY <1>1, <1>2, <1>5, ConfigureThread, EnterThread, WatchThread, WaitThread,
       DispatchThread, ReadThread, DeviceThread, ConfigThread, ReloadThread,
       HandsThread, EditThread, SignalThread DEF Next, Thread, Outside
  <2> QED
    BY <2>1, <1>2, TableKept, ConfigKept DEF ThreadInv, Ended
<1> QED
  BY <1>3, <1>4, <1>5

LEMMA ThreadStutter ==
  ASSUME ThreadInv, UNCHANGED <<vars, inForce>>
  PROVE  ThreadInv' /\ TableStep /\ ConfigStep
<1>1. /\ UNCHANGED <<deviceVars, configVars, threadVars, inq, m_profiles, inForce>>
  BY DEF vars
<1>2. TableStep /\ ConfigStep
  BY <1>1, QueueKept, TableStutters, ConfigStutters
<1>3. OwnInv'
  BY <1>1 DEF ThreadInv, OwnInv, TypeOK, PhaseFollows, BuiltForProfiles,
     NothingLeft, NoQueueNoWatch, Reloading, deviceVars, configVars, threadVars
<1>4. pc' = pc
  BY <1>1 DEF threadVars
<1> QED
  BY <1>2, <1>3, <1>4, TableKept, ConfigKept DEF ThreadInv

(* The composition keeps the thread's invariant and, through it, everything *)
(* that is shown of the device table and of the configuration's watch.      *)
THEOREM ThreadInvHolds == Spec => []ThreadInv
<1>1. Init => ThreadInv
  BY InitThreadInv
<1>2. ThreadInv /\ [Next]_<<vars, inForce>> => ThreadInv'
  BY ThreadStep, ThreadStutter
<1> QED
  BY <1>1, <1>2, PTL DEF Spec

(* The thread's variables have their values; in particular processInotify   *)
(* never runs past what it read.                                            *)
THEOREM TypeOKHolds == Spec => []TypeOK
<1>1. ThreadInv => TypeOK
  BY DEF ThreadInv, OwnInv
<1> QED
  BY <1>1, ThreadInvHolds, PTL

(* While the thread waits for events or handles those of devices, the table *)
(* is the one the profiles that were read last ask for.                     *)
THEOREM TableInForceHolds == Spec => []TableInForce
<1>1. ThreadInv => TableInForce
  <2> SUFFICES ASSUME ThreadInv, pc \in {"wait", "dispatch", "read"},
                      NEW f \in DOMAIN m_currentDevices
               PROVE  LET h == m_currentDevices[f]
                      IN /\ m_profiles[h.dev] # "unmatched"
                         /\ h.shadow # DT!None <=> DT!NeedsShadow(h.dev)
    BY DEF TableInForce
  <2>1. phase = "loop" /\ inForce = m_profiles
    BY DEF ThreadInv, OwnInv, PhaseFollows, BuiltForProfiles, Reloading, Ended
  <2>2. TB!TableFollowsProfiles
    BY DEF ThreadInv, TB!TableInv
  <2> QED
    BY <2>1, <2>2 DEF TB!TableFollowsProfiles, TB!NeedsShadow, DT!NeedsShadow,
       TB!None, DT!None
<1> QED
  BY <1>1, ThreadInvHolds, PTL

-----------------------------------------------------------------------------
(* The daemon implements both components. *)

(* The instances of the theorems and of the properties are the same.        *)
LEMMA SameTable ==
  /\ TB!Init = Table!Init /\ TB!vars = Table!vars
  /\ TB!Next = Table!Next /\ TB!Reload = Table!Reload
<1>1. TB!Init = Table!Init /\ TB!vars = Table!vars
  BY Zenon DEF
      TB!Init, Table!Init, TB!vars, Table!vars, TB!Nodes, Table!Nodes,
      TB!None, Table!None, TB!kernelVars, Table!kernelVars, TB!loopVars,
      Table!loopVars
<1>2. TB!Next = Table!Next
  BY Zenon DEF
      TB!Next, Table!Next, TB!scanDevices, Table!scanDevices,
      TB!ConfigureNext, Table!ConfigureNext, TB!pollAll, Table!pollAll,
      TB!enterLoop, Table!enterLoop, TB!enterLoopFails, Table!enterLoopFails,
      TB!ReadDevice, Table!ReadDevice, TB!HandleEvent, Table!HandleEvent,
      TB!Reload, Table!Reload, TB!Shutdown, Table!Shutdown, TB!Hands,
      Table!Hands, TB!Outcomes, Table!Outcomes, TB!Nodes, Table!Nodes,
      TB!valid, Table!valid, TB!Allocations, Table!Allocations, TB!Fds,
      Table!Fds, TB!Released, Table!Released, TB!NewHandle, Table!NewHandle,
      TB!KeyboardFails, Table!KeyboardFails,
      TB!kernelVars, Table!kernelVars, TB!loopVars, Table!loopVars,
      TB!Lowest, Table!Lowest, TB!configureAddIfMatch,
      Table!configureAddIfMatch, TB!NotYet, Table!NotYet, TB!None,
      Table!None, TB!RegisterPolls, Table!RegisterPolls, TB!Refused,
      Table!Refused, TB!Shadows, Table!Shadows, TB!NextFd, Table!NextFd,
      TB!createSignalFd, Table!createSignalFd, TB!createInotifyFd,
      Table!createInotifyFd, TB!End, Table!End, TB!Readable, Table!Readable,
      TB!processEvent, Table!processEvent, TB!DeviceCreated,
      Table!DeviceCreated, TB!ClearDevices, Table!ClearDevices, TB!Plug,
      Table!Plug, TB!Unplug, Table!Unplug, TB!KeyPress, Table!KeyPress,
      TB!grabAndPrepare, Table!grabAndPrepare, TB!CanGrab, Table!CanGrab,
      TB!NeedsShadow, Table!NeedsShadow, TB!Close, Table!Close, TB!Polled,
      Table!Polled, TB!ReadFails, Table!ReadFails, TB!Destroy, Table!Destroy,
      TB!Failed, Table!Failed, TB!CreateKeyboard, Table!CreateKeyboard,
      TB!AddDevice, Table!AddDevice, TB!Cleared, Table!Cleared, TB!NextNode,
      Table!NextNode, TB!NodeCreated, Table!NodeCreated, TB!Killed,
      Table!Killed, TB!Typed, Table!Typed, TB!Put, Table!Put, TB!InputWd,
      Table!InputWd, TB!Restrict, Table!Restrict, TB!Range, Table!Range
<1>3. TB!Reload = Table!Reload
  BY Zenon DEF
      TB!Reload, Table!Reload, TB!ClearDevices, Table!ClearDevices,
      TB!Destroy, Table!Destroy, TB!Cleared, Table!Cleared, TB!loopVars,
      Table!loopVars, TB!Close, Table!Close, TB!Shadows, Table!Shadows,
      TB!Nodes, Table!Nodes, TB!None, Table!None, TB!Restrict, Table!Restrict,
      TB!Released, Table!Released
<1> QED
  BY <1>1, <1>2, <1>3

LEMMA SameWatch ==
  CB!Init = Config!Init /\ CB!vars = Config!vars /\ CB!Next = Config!Next
<1>1. CB!Init = Config!Init /\ CB!vars = Config!vars
  BY Zenon DEF
      CB!Init, Config!Init, CB!vars, Config!vars, CB!Absent, Config!Absent,
      CB!Contents, Config!Contents, CB!Slots, Config!Slots, CB!Unset,
      Config!Unset
<1>2. CB!Next = Config!Next
  BY Zenon DEF
      CB!Next, Config!Next, CB!Daemon, Config!Daemon, CB!User, Config!User,
      CB!FirstRead, Config!FirstRead, CB!EnterLoop, Config!EnterLoop,
      CB!createWatchConfig, Config!createWatchConfig, CB!createWatchCwd,
      Config!createWatchCwd, CB!HandleEvent, Config!HandleEvent, CB!Write,
      Config!Write, CB!Touch, Config!Touch, CB!Share, Config!Share,
      CB!Elsewhere, Config!Elsewhere, CB!EndNotices, Config!EndNotices,
      CB!WatchesAfter, Config!WatchesAfter, CB!Create, Config!Create,
      CB!Replace, Config!Replace, CB!MoveAway, Config!MoveAway, CB!Remove,
      Config!Remove, CB!Neighbour, Config!Neighbour, CB!reloadConfig,
      Config!reloadConfig, CB!fsVars, Config!fsVars, CB!watchVars,
      Config!watchVars, CB!Absent, Config!Absent, CB!AddWatch,
      Config!AddWatch, CB!Unset, Config!Unset, CB!Cwd, Config!Cwd,
      CB!processConfigChange, Config!processConfigChange, CB!MayDo,
      Config!MayDo, CB!Contents, Config!Contents, CB!Change, Config!Change,
      CB!Notices, Config!Notices, CB!Loaded,
      Config!Loaded, CB!WatchOn, Config!WatchOn, CB!AttributesChanged,
      Config!AttributesChanged, CB!SelfGone, Config!SelfGone, CB!Appeared,
      Config!Appeared, CB!Ignored, Config!Ignored, CB!Settled,
      Config!Settled, CB!RemoveWatch, Config!RemoveWatch
<1> QED
  BY <1>1, <1>2

(* Seen from the device table every step of the daemon is one of its own:   *)
(* the devices that appear and vanish, the reads, the faults, and a reload, *)
(* which is one step however many the thread takes for it.                  *)
THEOREM ImplementsDeviceTableHolds == Spec => ImplementsDeviceTable
<1>1. Init => Table!Init
  BY InitThreadInv, SameTable
<1>2. ThreadInv /\ [Next]_<<vars, inForce>> =>
        [pc = "start" \/ Table!Next \/ Table!Reload]_(Table!vars)
  <2>1. ASSUME ThreadInv, Next PROVE pc = "start" \/ TableStep
    BY <2>1, ThreadStep DEF Start
  <2>2. ASSUME ThreadInv, UNCHANGED <<vars, inForce>> PROVE TableStep
    BY <2>2, ThreadStutter
  <2>3. TableStep => [Table!Next \/ Table!Reload]_(Table!vars)
    <3>1. TB!vars' = Table!vars'
      BY Zenon DEF
          TB!vars, Table!vars, TB!kernelVars, Table!kernelVars, TB!loopVars,
          Table!loopVars
    <3> QED
      BY <3>1, SameTable DEF TableStep
  <2> QED
    BY <2>1, <2>2, <2>3
<1> QED
  BY <1>1, <1>2, ThreadInvHolds, PTL DEF Spec, ImplementsDeviceTable

(* Seen from the file and its watches every step of the daemon is one of    *)
(* ConfigWatch, until it exits.                                             *)
THEOREM ImplementsConfigWatchHolds == Spec => ImplementsConfigWatch
<1>1. Init => Config!Init
  BY InitThreadInv, SameWatch
<1>2. ThreadInv /\ [Next]_<<vars, inForce>> =>
        [Config!Next \/ pc' = "exit"]_(Config!vars)
  <2>1. ASSUME ThreadInv, Next PROVE pc' = "exit" \/ ConfigStep
    BY <2>1, ThreadStep
  <2>2. ASSUME ThreadInv, UNCHANGED <<vars, inForce>> PROVE ConfigStep
    BY <2>2, ThreadStutter
  <2>3. ConfigStep => [Config!Next]_(Config!vars)
    <3>1. CB!vars' = Config!vars'
      BY Zenon DEF CB!vars, Config!vars
    <3> QED
      BY <3>1, SameWatch DEF ConfigStep
  <2> QED
    BY <2>1, <2>2, <2>3
<1> QED
  BY <1>1, <1>2, ThreadInvHolds, PTL DEF Spec, ImplementsConfigWatch

-----------------------------------------------------------------------------
(* The assertion, while nobody touches the configuration file. *)

LEMMA FileIsQuiet ==
  ASSUME FileOps = {}, ThreadInv, Next, FileQueue = <<>>
  PROVE  ~Edit /\ ~InotifyConfig /\ FileQueue' = <<>>
<1>1. ~Edit
  BY DEF Edit, CW!User, CW!Write, CW!Touch, CW!Share, CW!Create, CW!Replace,
     CW!MoveAway, CW!Remove, CW!Elsewhere, CW!Neighbour, CW!MayDo
<1>2. ~InotifyConfig
  <2> SUFFICES ASSUME InotifyConfig PROVE FALSE
    OBVIOUS
  <2>1. inq \in Seq(Notice) /\ inq # <<>> /\ Head(inq).wd # DT!InputWd
    BY OneHandled DEF ThreadInv, OwnInv, InotifyConfig
  <2>2. Head(inq) \in Notice /\ (Head(inq).wd \in FileWds => FileQueue # <<>>)
    BY <2>1, EventsHead DEF FileQueue
  <2> QED
    BY <2>1, <2>2, QueueSplits DEF FileWds
<1>3. FileQueue' = <<>>
  <2>1. CASE GiveUp \/ LeaveLoop \/ ReadAborts
    <3>1. inq' = <<>>
      BY <2>1 DEF GiveUp, LeaveLoop, ReadAborts, DT!enterLoopFails, DT!Shutdown,
         DT!KeyboardFails, DT!End
    <3> QED
      BY <3>1, EventsOfNone DEF FileQueue
  <2>2. CASE ConfigStep
    <3>1. ~CB!User
      BY DEF CB!User, CB!Write, CB!Touch, CB!Share, CB!Create, CB!Replace,
         CB!MoveAway, CB!Remove, CB!Elsewhere, CB!Neighbour, CB!MayDo
    <3>2. ~CB!HandleEvent
      BY DEF CB!HandleEvent, FileQueue, FileWds
    <3>3. FileQueue' = FileQueue
      BY <2>2, <3>1, <3>2 DEF ConfigStep, CB!vars, CB!Next, CB!Daemon,
         CB!FirstRead, CB!EnterLoop, CB!createWatchConfig, CB!createWatchCwd,
         FileQueue, FileWds
    <3> QED
      BY <3>3
  <2> QED
    BY <2>1, <2>2, ThreadStep
<1> QED
  BY <1>1, <1>2, <1>3

LEMMA NobodyReloadsKept ==
  ASSUME FileOps = {}, ThreadInv, NobodyReloads, Next
  PROVE  NobodyReloads'
<1>1. FileQueue = <<>> /\ resume = "wait" /\ pc # "reload"
  BY DEF NobodyReloads, FileQueue, FileWds
<1>2. ~InotifyConfig /\ ~Edit /\ FileQueue' = <<>>
  BY <1>1, FileIsQuiet
<1>3. ASSUME pc \in {"start", "configure"}, pc' \in {"start", "configure"}
      PROVE  m_epollFd' = DT!None
  <2>1. m_epollFd = DT!None
    BY <1>3 DEF NobodyReloads
  <2>2. CASE Start \/ Configure
    <3>1. m_epollFd' = m_epollFd
      BY <2>1, <2>2 DEF Start, Configure, DT!scanDevices, DT!ConfigureNext,
         DT!pollAll, DT!loopVars, deviceVars
    <3> QED
      BY <2>1, <3>1
  <2>3. CASE EnterLoop \/ GiveUp
    BY <1>3, <2>3 DEF EnterLoop, GiveUp
  <2>4. CASE Outside
    BY <2>1, <2>4 DEF Outside, PlugOrUnplug, Type, Edit, Signal, DT!Plug,
       DT!Unplug, DT!KeyPress, DT!loopVars, deviceVars
  <2>5. Start \/ Configure \/ EnterLoop \/ GiveUp \/ Outside
    BY <1>3 DEF Next, Thread, CreateWatch, Wait, Dispatch, Read, ReadAborts,
       EndOfBatch, LeaveLoop, InotifyDevice, InotifyConfig, Reload, EndOfEvents
  <2> QED
    BY <2>2, <2>3, <2>4, <2>5
<1>4. /\ resume' = "wait" /\ pc' # "reload"
      /\ pc' \in {"start", "configure"} => pc \in {"start", "configure"}
  BY <1>1, <1>2 DEF Next, Thread, Outside, Start, Configure, EnterLoop, GiveUp,
     CreateWatch, Wait, LeaveLoop, Dispatch, DispatchDevice, DispatchSignal,
     DispatchInotify, DispatchUnknown, Read, ReadAborts, EndOfBatch,
     InotifyDevice, Reload, EndOfEvents, PlugOrUnplug, Type, Signal, threadVars
<1>5. pc' \in {"start", "configure"} => m_epollFd' = DT!None
  BY <1>3, <1>4
<1> QED
  BY <1>2, <1>4, <1>5 DEF NobodyReloads, FileQueue, FileWds

(* A device that is added takes none away.                                  *)
LEMMA CreatedKeeps ==
  ASSUME NEW n, NEW q, DT!DeviceCreated(n, q)
  PROVE  /\ DOMAIN m_currentDevices \subseteq DOMAIN m_currentDevices'
         /\ UNCHANGED <<m_signalFd, m_inotifyFd>>
<1>1. \/ UNCHANGED m_currentDevices
      \/ \E f, h : m_currentDevices' = DT!Put(m_currentDevices, f, h)
  <2>1. CASE DT!AddDevice(n, q)
    BY <2>1 DEF DT!AddDevice, DT!configureAddIfMatch, DT!grabAndPrepare
  <2>2. CASE UNCHANGED m_currentDevices
    BY <2>2
  <2> QED
    BY <2>1, <2>2 DEF DT!DeviceCreated
<1>2. DOMAIN m_currentDevices \subseteq DOMAIN m_currentDevices'
  BY <1>1 DEF DT!Put
<1> QED
  BY <1>2 DEF DT!DeviceCreated, DT!loopVars

(* A read takes away the device it reads, if any. *)
LEMMA ReadKeepsKnown ==
  ASSUME ThreadInv, Read
  PROVE  /\ Known \ {reading} \subseteq Known'
         /\ UNCHANGED batch
         /\ pc' = "dispatch" \/ (pc' = "read" /\ reading' = reading)
<1>1. DT!processEvent(reading) /\ reading \in DOMAIN m_currentDevices
  BY DEF Read, ThreadInv, OwnInv, TypeOK
<1>2. DOMAIN m_currentDevices \ {reading} \subseteq DOMAIN m_currentDevices'
  <2>1. CASE DT!ReadFails(m_currentDevices[reading])
    BY <1>1, <2>1 DEF DT!processEvent, DT!Destroy, DT!Failed, DT!Restrict
  <2>2. CASE ~DT!ReadFails(m_currentDevices[reading])
    BY <1>1, <2>2 DEF DT!processEvent
  <2> QED
    BY <2>1, <2>2
<1>3. UNCHANGED <<m_signalFd, m_inotifyFd>>
  BY <1>1 DEF DT!processEvent, DT!loopVars
<1>4. UNCHANGED batch
  BY DEF Read
<1>5. pc' = "dispatch" \/ (pc' = "read" /\ reading' = reading)
  BY DEF Read
<1> QED
  BY <1>2, <1>3, <1>4, <1>5 DEF Known

LEMMA DispatchKeepsBatch ==
  ASSUME BatchStands, Dispatch
  PROVE  BatchStands'
<1>1. batch \subseteq Known /\ pc = "dispatch"
  BY DEF BatchStands, Handling, Dispatch
<1>2. PICK f \in batch :
        /\ batch' = batch \ {f}
        /\ \/ DispatchDevice(f) \/ DispatchSignal(f)
           \/ DispatchInotify(f) \/ DispatchUnknown(f)
  BY DEF Dispatch
<1>3. ~DispatchUnknown(f)
  BY <1>1 DEF DispatchUnknown, Known
<1>4. /\ UNCHANGED <<m_currentDevices, m_signalFd, m_inotifyFd>>
      /\ \/ pc' = "read" /\ reading' = f
         \/ pc' \in {"dispatch", "inotify"}
  BY <1>1, <1>2, <1>3 DEF DispatchDevice, DispatchSignal, DispatchInotify,
     deviceVars
<1> QED
  BY <1>1, <1>2, <1>4 DEF BatchStands, Known, Handling, Ended

LEMMA BatchStandsKept ==
  ASSUME FileOps = {}, ThreadInv, NobodyReloads, BatchStands, Next
  PROVE  BatchStands'
<1>1. ~InotifyConfig /\ ~Edit
  BY FileIsQuiet DEF NobodyReloads, FileQueue, FileWds
<1>2. NobodyReloads' /\ pc \notin Ended /\ pc # "reload" /\ resume = "wait"
  BY NobodyReloadsKept DEF NobodyReloads, Next, Thread, Outside, Ended, Start,
     Configure, EnterLoop, GiveUp, CreateWatch, Wait, Dispatch, Read, ReadAborts,
     EndOfBatch, LeaveLoop, InotifyDevice, InotifyConfig, Reload, EndOfEvents
<1>3. CASE Start \/ Configure \/ EnterLoop \/ CreateWatch
  <2>1. batch' = {} /\ pc' \in {"dead", "configure", "watch", "wait"}
    <3>1. pc \in {"start", "configure", "watch"} /\ batch' = batch
      BY <1>3 DEF Start, Configure, EnterLoop, CreateWatch
    <3>2. ~(Configure /\ phase' = "loop")
      <4> SUFFICES ASSUME Configure, phase' = "loop" PROVE FALSE
        OBVIOUS
      <4>1. DT!pollAll /\ pc = "configure"
        BY DEF Configure, DT!scanDevices, DT!ConfigureNext
      <4> QED
        BY <4>1 DEF DT!pollAll, NobodyReloads
    <3> QED
      BY <1>2, <1>3, <3>1, <3>2 DEF BatchStands, Handling, Ended, Start,
         Configure, EnterLoop, CreateWatch
  <2> QED
    BY <2>1 DEF BatchStands, Handling, Ended
<1>4. CASE Wait
  <2>1. inq = <<>> \/ m_inotifyFd # DT!None
    BY <1>2 DEF ThreadInv, OwnInv, NoQueueNoWatch, Ended
  <2>2. batch' = Ready /\ pc' = "dispatch" /\ Known' = Known
    BY <1>4 DEF Wait, Known, deviceVars
  <2>3. Ready \subseteq Known
    BY DEF Ready, Known
  <2> QED
    BY <2>2, <2>3 DEF BatchStands, Handling, Ended
<1>5. CASE Dispatch
  BY <1>5, DispatchKeepsBatch
<1>6. CASE Read
  <2>1. pc = "read"
    BY <1>6 DEF Read
  <2>2. batch \subseteq Known \ {reading}
    BY <2>1 DEF BatchStands, Handling
  <2> QED
    BY <1>6, <2>1, <2>2, ReadKeepsKnown DEF BatchStands, Handling, Ended
<1>7. CASE EndOfBatch
  BY <1>7 DEF EndOfBatch, BatchStands, Handling, Ended
<1>8. CASE InotifyDevice
  <2>1. /\ pc = "inotify" /\ pc' = pc /\ batch' = batch
        /\ DOMAIN m_currentDevices \subseteq DOMAIN m_currentDevices'
        /\ UNCHANGED <<m_signalFd, m_inotifyFd>>
    BY <1>8, CreatedKeeps DEF InotifyDevice
  <2> QED
    BY <2>1 DEF BatchStands, Known, Handling, Ended
<1>9. CASE EndOfEvents
  BY <1>9 DEF EndOfEvents, BatchStands, Known, Handling, Ended, deviceVars
<1>10. CASE GiveUp \/ LeaveLoop \/ ReadAborts
  BY <1>10 DEF GiveUp, LeaveLoop, ReadAborts, BatchStands, Handling, Ended
<1>11. CASE PlugOrUnplug \/ Type
  <2>1. /\ UNCHANGED <<pc, batch, reading, m_signalFd, m_inotifyFd>>
        /\ DOMAIN m_currentDevices' = DOMAIN m_currentDevices
    BY <1>11 DEF PlugOrUnplug, Type, threadVars, DT!Plug, DT!Unplug, DT!KeyPress,
       DT!loopVars, DT!Killed, DT!Typed
  <2> QED
    BY <2>1 DEF BatchStands, Known
<1>12. CASE Signal
  <2>1. UNCHANGED <<batch, reading, Known>> /\ pc' \in {pc, "dead"}
    BY <1>12 DEF Signal, Known, deviceVars
  <2> QED
    BY <2>1 DEF BatchStands, Handling, Ended
<1>13. ~Reload
  BY <1>2 DEF Reload
<1> QED
  BY <1>1, <1>3, <1>4, <1>5, <1>6, <1>7, <1>8, <1>9, <1>10, <1>11, <1>12, <1>13
     DEF Next, Thread, Outside

(* Only a change of the configuration file can make the assertion fail: a   *)
(* daemon whose file is left alone finds behind every number epoll_wait     *)
(* returned what was there when it returned, whatever is plugged in and out *)
(* and whatever fails.                                                      *)
THEOREM NoAssertFailureHolds ==
  ASSUME FileOps = {}
  PROVE  Spec => []NoAssertFailure
<1> DEFINE Inv == ThreadInv /\ NobodyReloads /\ BatchStands
<1>1. Init => Inv
  <2> SUFFICES ASSUME Init PROVE Inv
    OBVIOUS
  <2>1. inq = <<>> /\ resume = "wait" /\ pc = "start" /\ batch = {}
        /\ m_epollFd = DT!None
    BY DEF Init, DT!Init
  <2> QED
    BY <2>1, InitThreadInv, EventsOfNone DEF NobodyReloads, BatchStands,
       Handling, Ended
<1>2. Inv /\ [Next]_<<vars, inForce>> => Inv'
  <2>1. ASSUME Inv, Next PROVE Inv'
    BY <2>1, ThreadStep, NobodyReloadsKept, BatchStandsKept
  <2>2. ASSUME Inv, UNCHANGED <<vars, inForce>> PROVE Inv'
    BY <2>2, ThreadStutter DEF vars, deviceVars, configVars, threadVars,
       NobodyReloads, BatchStands, Known
  <2> QED
    BY <2>1, <2>2
<1>3. Inv => NoAssertFailure
  BY DEF BatchStands, NoAssertFailure
<1> QED
  BY <1>1, <1>2, <1>3, PTL DEF Spec

-----------------------------------------------------------------------------
(* What is shown of the components holds of the daemon. *)

(* In the running daemon, at every step of the thread and through every     *)
(* reload: the grabs are those of the table's live handles, the descriptors *)
(* that are open are the ones it has filed, each for one purpose, every     *)
(* uinput device has one owner, no device of the daemon's own is read back, *)
(* and every device of the table is polled once the loop runs.              *)
THEOREM TableOfTheDaemon ==
  Spec => [](/\ Table!GrabMatchesTable /\ Table!DescriptorsOwned
             /\ Table!UinputsOwned /\ Table!NoFeedback /\ Table!AllPolled)
<1>1. ThreadInv => /\ Table!GrabMatchesTable /\ Table!DescriptorsOwned
                   /\ Table!UinputsOwned /\ Table!NoFeedback /\ Table!AllPolled
  <2> SUFFICES ASSUME TB!TableInv
               PROVE  /\ Table!GrabMatchesTable /\ Table!DescriptorsOwned
                      /\ Table!UinputsOwned /\ Table!NoFeedback /\ Table!AllPolled
    BY DEF ThreadInv
  <2>1. TB!GrabMatchesTable = Table!GrabMatchesTable
    BY Zenon DEF TB!GrabMatchesTable, Table!GrabMatchesTable, TB!Nodes,
       Table!Nodes, TB!None, Table!None
  <2>2. TB!DescriptorsOwned = Table!DescriptorsOwned
    BY Zenon DEF TB!DescriptorsOwned, Table!DescriptorsOwned, TB!Filed,
       Table!Filed, TB!None, Table!None
  <2>6. TB!DescriptorsOwned
    BY DEF TB!TableInv, TB!DescriptorsDistinct, TB!OpenIsFiled,
       TB!DescriptorsOwned
  <2>3. TB!UinputsOwned = Table!UinputsOwned
    BY Zenon DEF TB!UinputsOwned, Table!UinputsOwned, TB!None, Table!None,
       TB!Nodes, Table!Nodes, TB!Range, Table!Range
  <2>4. TB!NoFeedback = Table!NoFeedback
    BY Zenon DEF TB!NoFeedback, Table!NoFeedback, TB!None, Table!None
  <2>5. TB!AllPolled = Table!AllPolled
    BY Zenon DEF TB!AllPolled, Table!AllPolled
  <2> QED
    BY <2>1, <2>2, <2>3, <2>4, <2>5, <2>6 DEF TB!TableInv
<1> QED
  BY <1>1, ThreadInvHolds, PTL

(* Until the daemon exits it never has two watches at once, every watch is  *)
(* in a slot that knows it, and a watch on a file, with no notice of it     *)
(* queued, is on the file that has the name or on one that something else   *)
(* keeps.                                                                   *)
THEOREM WatchOfTheDaemon ==
  Spec => [](pc # "exit" => /\ Config!OneWatch /\ Config!NoLeakedWatch
                            /\ Config!WatchIsCurrent)
<1>1. ThreadInv => (pc # "exit" => /\ Config!OneWatch /\ Config!NoLeakedWatch
                                   /\ Config!WatchIsCurrent)
  <2> SUFFICES ASSUME CB!WatchInv
               PROVE  Config!OneWatch /\ Config!NoLeakedWatch /\ Config!WatchIsCurrent
    BY DEF ThreadInv
  <2>1. CB!OneWatch = Config!OneWatch
    BY Zenon DEF CB!OneWatch, Config!OneWatch, CB!Unset, Config!Unset,
       CB!Slots, Config!Slots
  <2>2. CB!NoLeakedWatch = Config!NoLeakedWatch
    BY Zenon DEF CB!NoLeakedWatch, Config!NoLeakedWatch, CB!Cwd, Config!Cwd
  <2>3. CB!WatchIsCurrent = Config!WatchIsCurrent
    BY Zenon DEF CB!WatchIsCurrent, Config!WatchIsCurrent, CB!Unset,
       Config!Unset, CB!Cwd, Config!Cwd
  <2>4. CB!WatchIsCurrent
    BY CB!InvIsCurrent, WatchAssumption DEF CB!FileOpKinds, CW!FileOpKinds
  <2> QED
    BY <2>1, <2>2, <2>3, <2>4 DEF CB!WatchInv
<1> QED
  BY <1>1, ThreadInvHolds, PTL

-----------------------------------------------------------------------------
(* No device is overlooked, whatever happens to the file and its watches.   *)

(* Nobody plugs in before the watch, nothing overflows, and no device is    *)
(* refused.                                                                 *)
NoDeviceRefused ==
  ~EarlyPlug /\ ~Overflow /\ Faults \cap {"open", "uinput", "poll"} = {}

(* What is held or on its way stays so through every step of the table; the *)
(* first read changes what is in force, but before anything is scanned.     *)
LEMMA CoverKept ==
  ASSUME NoDeviceRefused, TB!TableInv, TB!CoverInv, TableStep
  PROVE  TB!CoverInv'
<1> USE TableAssumption DEF DT!Modes, TB!Modes, DT!FaultKinds, TB!FaultKinds
<1>1. TB!Reliable
  BY DEF NoDeviceRefused, TB!Reliable
<1>2. CASE TB!Reload
  BY <1>2, TB!ReloadCovers
<1>3. CASE [TB!Next]_TB!vars
  BY <1>1, <1>3, TB!NextCovers
<1> QED
  BY <1>2, <1>3 DEF TableStep

LEMMA CoverAtStart ==
  ASSUME ThreadInv, TB!CoverInv, Start
  PROVE  TB!CoverInv'
<1>1. /\ phase' = "scan"
      /\ m_currentDevices' = m_currentDevices /\ deviceList' = deviceList
  BY DEF ThreadInv, OwnInv, PhaseFollows, Start, deviceVars
<1> QED
  BY <1>1 DEF TB!CoverInv, TB!NoDrops, TB!NotDropped, TB!Covered

LEMMA CoverStep ==
  ASSUME NoDeviceRefused, ThreadInv, TB!CoverInv, [Next]_<<vars, inForce>>
  PROVE  TB!CoverInv'
<1>1. CASE Next
  BY <1>1, ThreadStep, CoverKept, CoverAtStart DEF ThreadInv
<1>2. CASE UNCHANGED <<vars, inForce>>
  BY <1>2, ThreadStutter, CoverKept DEF ThreadInv
<1> QED
  BY <1>1, <1>2

LEMMA CoverAtFirst == Init => TB!CoverInv
  BY InitThreadInv, TB!InitCover, TableAssumption DEF DT!Modes, TB!Modes,
     DT!FaultKinds, TB!FaultKinds

(* README:31 and README:102 for the whole daemon: in its loop, with no      *)
(* notice of a device left, it holds every plugged device that the profiles *)
(* in force match; also while the file changes faster than it is read, and  *)
(* whichever watch or descriptor of the loop is refused.                    *)
THEOREM DevicesOfTheDaemon ==
  ASSUME NoDeviceRefused
  PROVE  Spec => []NoneOverlooked
<1>1. Init => TB!CoverInv
  BY CoverAtFirst
<1>2. ThreadInv /\ TB!CoverInv /\ [Next]_<<vars, inForce>> => TB!CoverInv'
  BY CoverStep
<1>3. ThreadInv /\ TB!CoverInv => NoneOverlooked
  <2>1. ASSUME ThreadInv, TB!CoverInv PROVE TB!EveryDeviceIsHeld
    BY <2>1, TB!CoveredIsHeld, TableAssumption DEF ThreadInv, DT!Modes, TB!Modes,
       DT!FaultKinds, TB!FaultKinds
  <2>2. TB!EveryDeviceIsHeld = Table!EveryDeviceIsHeld
    BY Zenon DEF TB!EveryDeviceIsHeld, Table!EveryDeviceIsHeld, TB!Plugged,
       Table!Plugged, TB!Nodes, Table!Nodes
  <2> QED
    BY <2>1, <2>2 DEF NoneOverlooked
<1> QED
  BY <1>1, <1>2, <1>3, ThreadInvHolds, PTL DEF Spec

-----------------------------------------------------------------------------
(* A daemon at rest.  Both components promise something of it: the profiles *)
(* in force are those of the file, and no matched device is overlooked.     *)

(* In addition the kernel grants every watch, and the user waits for each   *)
(* change of the file to be handled, never writes it in place and gives it  *)
(* no second name; nor does another program have it open.                   *)
AllGoesWell ==
  /\ NoDeviceRefused
  /\ Paced /\ ~WatchFaults /\ {"write", "share"} \cap FileOps = {}

(* The thread goes on only with a configuration that was read.              *)
HasRead == pc \notin {"start"} \cup Ended => stage \notin {"boot", "dead"}

(* The inductive invariant. *)
RestInv ==
  /\ ThreadInv /\ HasRead
  /\ pc # "exit" => CB!CalmInv /\ CB!Numbered /\ CB!Unshared
  /\ TB!CoverInv

LEMMA HasReadKept ==
  ASSUME ThreadInv, HasRead, Next
  PROVE  HasRead'
<1>1. CASE Start
  BY <1>1 DEF HasRead, Start, CW!FirstRead, CW!reloadConfig, Ended
<1>2. CASE EnterLoop
  BY <1>2 DEF HasRead, EnterLoop, CW!EnterLoop, Ended
<1>3. CASE CreateWatch
  BY <1>3 DEF HasRead, CreateWatch, CW!createWatchConfig, CW!createWatchCwd, Ended
<1>4. CASE InotifyConfig
  <2>1. stage = "watching"
    BY <1>4 DEF InotifyConfig, CW!processConfigChange
  <2>2. stage' \in {"watching", "watchCwd", "watchConfig", "dead"}
    BY <1>4, <2>1 DEF InotifyConfig, CW!AttributesChanged, CW!SelfGone,
       CW!Appeared, CW!Ignored, CW!reloadConfig
  <2>3. stage' = "dead" => pc' = "dead"
    BY <1>4 DEF InotifyConfig, GoTo
  <2> QED
    BY <2>2, <2>3 DEF HasRead, Ended
<1>5. CASE Edit
  <2>1. stage' = stage /\ pc' = pc
    BY <1>5 DEF Edit, CW!User, CW!Write, CW!Touch, CW!Share, CW!Create,
       CW!Replace, CW!MoveAway, CW!Remove, CW!Elsewhere, CW!Neighbour,
       CW!Change, threadVars
  <2> QED
    BY <2>1 DEF HasRead
<1>6. CASE GiveUp \/ LeaveLoop \/ ReadAborts
  BY <1>6 DEF GiveUp, LeaveLoop, ReadAborts, HasRead, Ended
<1>7. CASE Configure \/ Wait \/ Dispatch \/ Read \/ EndOfBatch \/ InotifyDevice
             \/ Reload \/ EndOfEvents \/ (pc \notin Ended /\ (PlugOrUnplug \/ Type \/ Signal))
  <2>1. stage' = stage
    BY <1>7 DEF Configure, Wait, Dispatch, DispatchDevice, DispatchSignal,
       DispatchInotify, DispatchUnknown, Read, EndOfBatch, InotifyDevice, Reload,
       EndOfEvents, PlugOrUnplug, Type, Signal, configVars
  <2>2. pc \notin {"start"} \cup Ended \/ pc' \in {"start"} \cup Ended
    BY <1>7 DEF Configure, Wait, Dispatch, Read, EndOfBatch, InotifyDevice, Reload,
       EndOfEvents, PlugOrUnplug, Type, Signal, threadVars, Ended
  <2> QED
    BY <2>1, <2>2 DEF HasRead
<1> QED
  BY <1>1, <1>2, <1>3, <1>4, <1>5, <1>6, <1>7 DEF Next, Thread, Outside

LEMMA CalmKept ==
  ASSUME AllGoesWell, CB!CalmInv, CB!Numbered, CB!Unshared, ConfigStep
  PROVE  CB!CalmInv' /\ CB!Numbered' /\ CB!Unshared'
<1> USE WatchAssumption DEF CB!FileOpKinds, CW!FileOpKinds
<1>1. CB!Patient /\ CB!NothingWrong
  BY DEF AllGoesWell, CB!Patient, CB!NothingWrong
<1>2. CB!TypeOK
  BY DEF CB!CalmInv, CB!SlotsInv, CB!WatchInv
<1>3. [CB!Next]_CB!vars
  BY DEF ConfigStep
<1>4. UNCHANGED CB!history
  BY DEF CB!history
<1>5. [CB!HNext]_<<CB!vars, CB!history>>
  BY <1>1, <1>2, <1>3, <1>4, CB!StaysCalm
<1>6. CB!Numbered' /\ CB!Unshared'
  BY <1>1, <1>2, <1>3, CB!NextNumbered, CB!NextUnshared
<1> QED
  BY <1>5, <1>6, CB!NextCalm

LEMMA RestKept ==
  ASSUME AllGoesWell, RestInv, [Next]_<<vars, inForce>>
  PROVE  RestInv'
<1>1. CASE Next
  <2>1. ThreadInv' /\ HasRead'
    BY <1>1, ThreadStep, HasReadKept DEF RestInv
  <2>2. TB!CoverInv'
    BY <1>1, CoverStep DEF RestInv, AllGoesWell
  <2>3. pc # "exit"
    BY <1>1 DEF Next, Thread, Outside, Ended, Start, Configure, EnterLoop, GiveUp,
       CreateWatch, Wait, Dispatch, Read, ReadAborts, EndOfBatch, LeaveLoop,
       InotifyDevice, InotifyConfig, Reload, EndOfEvents
  <2>4. pc' # "exit" => CB!CalmInv' /\ CB!Numbered' /\ CB!Unshared'
    BY <1>1, <2>3, ThreadStep, CalmKept DEF RestInv
  <2> QED
    BY <2>1, <2>2, <2>4 DEF RestInv
<1>2. CASE UNCHANGED <<vars, inForce>>
  <2>1. ThreadInv' /\ TableStep /\ ConfigStep
    BY <1>2, ThreadStutter DEF RestInv
  <2>2. pc' = pc /\ stage' = stage
    BY <1>2 DEF vars, threadVars, configVars
  <2>3. TB!CoverInv'
    BY <1>2, CoverStep DEF RestInv, AllGoesWell
  <2>4. pc' # "exit" => CB!CalmInv' /\ CB!Numbered' /\ CB!Unshared'
    BY <2>1, <2>2, CalmKept DEF RestInv
  <2> QED
    BY <2>1, <2>2, <2>3, <2>4 DEF RestInv, HasRead
<1> QED
  BY <1>1, <1>2

LEMMA RestAtFirst ==
  ASSUME AllGoesWell, Init
  PROVE  RestInv
<1>1. ThreadInv /\ TB!Init /\ CB!Init
  BY InitThreadInv
<1>2. HasRead
  BY DEF Init, HasRead
<1>3. TB!CoverInv
  BY CoverAtFirst
<1>4. CB!HInit
  BY <1>1 DEF CB!HInit
<1>5. CB!CalmInv
  BY <1>4, CB!InitCalm, WatchAssumption DEF CB!FileOpKinds, CW!FileOpKinds
<1>6. CB!Numbered /\ CB!Unshared
  BY <1>1 DEF CB!Init, CB!Numbered, CB!Unshared, AllGoesWell
<1> QED
  BY <1>1, <1>2, <1>3, <1>5, <1>6 DEF RestInv

(* What the invariant says of a daemon that waits with nothing ready.       *)
LEMMA RestIs ==
  ASSUME RestInv, pc = "wait", Ready = {}, file # CW!Absent
  PROVE  /\ m_profiles = CW!Loaded(content)
         /\ \A n \in DT!Nodes :
              nodes[n] \in Devices /\ m_profiles[nodes[n]] # "unmatched" =>
                \E f \in DOMAIN m_currentDevices :
                  m_currentDevices[f].live /\ m_currentDevices[f].node = n
         /\ \A f \in DOMAIN m_currentDevices :
              LET h == m_currentDevices[f]
              IN /\ h.live /\ h.dev \in Devices
                 /\ h.node \in DT!Nodes /\ nodes[h.node] = h.dev
                 /\ m_profiles[h.dev] # "unmatched"
<1>1. /\ phase = "loop" /\ inForce = m_profiles
      /\ TB!TableInv
      /\ stage \notin {"boot", "dead"}
      /\ CB!LoadedOrDue
  <2>1. CB!Calm
    BY DEF CB!Calm
  <2> QED
    BY <2>1 DEF RestInv, ThreadInv, OwnInv, PhaseFollows, BuiltForProfiles,
       Reloading, HasRead, Ended, CB!CalmInv
<1>2. inq = <<>>
  BY DEF Ready
<1>3. DeviceQueue = <<>> /\ FileQueue = <<>>
  BY <1>2, EventsOfNone DEF DeviceQueue, FileQueue
<1>4. m_profiles = CW!Loaded(content)
  <2>1. ~CB!Due(FileQueue)
    BY <1>3 DEF CB!Due
  <2>2. m_profiles = CB!Loaded(content)
    BY <1>1, <2>1 DEF CB!LoadedOrDue, FileQueue, FileWds, CB!Absent, CW!Absent
  <2>3. CB!Loaded(content) = CW!Loaded(content)
    BY DEF CB!Loaded, CW!Loaded
  <2> QED
    BY <2>2, <2>3
<1>5. ASSUME NEW n \in DT!Nodes, nodes[n] \in Devices,
             m_profiles[nodes[n]] # "unmatched"
      PROVE  \E f \in DOMAIN m_currentDevices :
               m_currentDevices[f].live /\ m_currentDevices[f].node = n
  <2>1. n \in TB!Plugged
    BY <1>5 DEF TB!Plugged, TB!Nodes, DT!Nodes
  <2>2. ~TB!LiveOn(deviceList, n)
    BY <1>1 DEF TB!TableInv, TB!ListIsFresh, TB!LiveOn
  <2>3. ~TB!NoticeOf(DeviceQueue, n)
    BY <1>3 DEF TB!NoticeOf
  <2>4. TB!LiveOn(m_currentDevices, n)
    BY <1>1, <1>5, <2>1, <2>2, <2>3 DEF RestInv, TB!CoverInv, TB!Covered,
       DeviceQueue, DeviceWds
  <2> QED
    BY <2>4 DEF TB!LiveOn
<1>6. ASSUME NEW f \in DOMAIN m_currentDevices
      PROVE  LET h == m_currentDevices[f]
             IN /\ h.live /\ h.dev \in Devices
                /\ h.node \in DT!Nodes /\ nodes[h.node] = h.dev
                /\ m_profiles[h.dev] # "unmatched"
  <2> DEFINE h == m_currentDevices[f]
  <2>1. h.polled /\ ~DT!Readable(f)
    BY <1>1 DEF TB!TableInv, TB!AllPolled, Ready
  <2>2. h.live
    BY <2>1 DEF DT!Readable
  <2>3. h.dev \in Devices /\ h.node \in DT!Nodes
    BY <1>1 DEF TB!TableInv, TB!NoFeedback, TB!TypeOK, TB!Handle, TB!Nodes, DT!Nodes
  <2>4. nodes[h.node] = h.dev
    BY <1>1, <2>2 DEF TB!TableInv, TB!GrabMatchesTable
  <2>5. m_profiles[h.dev] # "unmatched"
    BY <1>1 DEF TB!TableInv, TB!TableFollowsProfiles
  <2> QED
    BY <2>2, <2>3, <2>4, <2>5
<1> QED
  BY <1>4, <1>5, <1>6

(* README:29-31 for the whole daemon: if all goes well, whenever it has     *)
(* nothing left to do it holds exactly the devices that are plugged in and  *)
(* that the configuration file, as it is now, matches, and no dead handle:  *)
(* however the plugging, the changes of the file and the steps of the       *)
(* thread fell between each other before.                                   *)
THEOREM RestIsConfiguredHolds ==
  ASSUME AllGoesWell
  PROVE  Spec => []RestIsConfigured
<1>1. Init => RestInv
  BY RestAtFirst
<1>2. RestInv /\ [Next]_<<vars, inForce>> => RestInv'
  BY RestKept
<1>3. RestInv => RestIsConfigured
  <2> SUFFICES ASSUME RestInv, pc = "wait", Ready = {}, file # CW!Absent
               PROVE  /\ \A d \in Wanted : Holds(d)
                      /\ \A f \in DOMAIN m_currentDevices :
                           /\ m_currentDevices[f].live
                           /\ m_currentDevices[f].dev \in Wanted
    BY DEF RestIsConfigured
  <2>1. ASSUME NEW d \in Wanted PROVE Holds(d)
    <3>1. PICK n \in DT!Nodes : nodes[n] = d
      BY DEF Wanted
    <3>2. d \in Devices /\ m_profiles[d] # "unmatched"
      BY RestIs DEF Wanted
    <3>3. PICK f \in DOMAIN m_currentDevices :
            m_currentDevices[f].live /\ m_currentDevices[f].node = n
      BY <3>1, <3>2, RestIs
    <3>4. nodes[n] = m_currentDevices[f].dev
      BY <3>3, RestIs
    <3> QED
      BY <3>1, <3>3, <3>4 DEF Holds
  <2>2. ASSUME NEW f \in DOMAIN m_currentDevices
        PROVE  m_currentDevices[f].live /\ m_currentDevices[f].dev \in Wanted
    BY RestIs DEF Wanted
  <2> QED
    BY <2>1, <2>2
<1> QED
  BY <1>1, <1>2, <1>3, PTL DEF Spec
=============================================================================

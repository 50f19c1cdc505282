------------------------- MODULE ConfigWatchProofs -------------------------
(***************************************************************************)
(* Theorems about ConfigWatch, for every bound on the user's changes, every *)
(* set of profile lists and every set of kinds of change.                  *)
(***************************************************************************)
EXTENDS ConfigWatch, TLAPS

(* A notice that the watched file has left its name is on its way. *)
GoneNotice ==
  \E i \in 1 .. Len(inq) :
    inq[i].wd = m_watch["config"] /\ inq[i].mask \in {"MOVE_SELF", "DELETE_SELF"}

(* WatchIsCurrent strengthened: of the notices of the watched file, only    *)
(* one of its departure excuses a watch on anything else.                   *)
WatchTracksFile ==
  stage = "watching" /\ m_watch["config"] # Unset
    => \/ \E o \in shared \cup {file} : [wd |-> m_watch["config"], on |-> o] \in watches
       \/ GoneNotice

(* The inductive invariant. *)
WatchInv == TypeOK /\ OneWatch /\ NoLeakedWatch /\ WatchTracksFile

-----------------------------------------------------------------------------
LEMMA ConcatType ==
  ASSUME NEW S, NEW p \in Seq(S), NEW q \in Seq(S)
  PROVE  p \o q \in Seq(S)
OBVIOUS

(* What is queued is well formed. *)
LEMMA NoticesType ==
  ASSUME TypeOK, NEW o, NEW name \in Names, NEW masks \in Seq(Masks)
  PROVE  Notices(o, name, masks) \in Seq(Event)
<1>1. CASE WatchOn(o) = {}
  BY <1>1 DEF Notices
<1>2. CASE WatchOn(o) # {}
  <2> DEFINE w == CHOOSE w \in WatchOn(o) : TRUE
  <2>1. w \in WatchOn(o)
    BY <1>2
  <2>2. w.wd \in Nat \ {0, 1}
    BY <2>1 DEF WatchOn, TypeOK
  <2>3. \A i \in 1 .. Len(masks) :
          [wd |-> w.wd, mask |-> masks[i], name |-> name] \in Event
    BY <2>2 DEF Event
  <2>4. Len(masks) \in Nat
    OBVIOUS
  <2> QED
    BY <1>2, <2>3, <2>4 DEF Notices
<1> QED
  BY <1>1, <1>2

(* Nothing is watched while the daemon is about to create a watch. *)
LEMMA NothingWatched ==
  ASSUME TypeOK, NoLeakedWatch, m_watch = [s \in Slots |-> Unset]
  PROVE  watches = {}
  BY DEF TypeOK, NoLeakedWatch, Slots, Unset

(* Removing the only watch leaves the kernel with none and the slots empty. *)
LEMMA RemoveOnlyWatch ==
  ASSUME TypeOK, OneWatch, NoLeakedWatch,
         NEW slot \in Slots, m_watch[slot] # Unset, RemoveWatch(slot)
  PROVE  watches' = {} /\ m_watch' = [s \in Slots |-> Unset]
<1>1. \A s \in Slots : s # slot => m_watch[s] = Unset
  BY DEF OneWatch, Slots
<1>2. m_watch' = [s \in Slots |-> Unset]
  BY <1>1 DEF RemoveWatch, TypeOK
<1>3. ASSUME NEW w \in watches PROVE w.wd = m_watch[slot]
  <2>1. w.wd # Unset
    BY DEF TypeOK, Unset
  <2> QED
    BY <1>1, <2>1 DEF NoLeakedWatch, Slots
<1> QED
  BY <1>2, <1>3 DEF RemoveWatch

-----------------------------------------------------------------------------
LEMMA InitWatchInv == Init => WatchInv
<1> SUFFICES ASSUME Init PROVE WatchInv
  OBVIOUS
<1> USE ConfigWatchAssumption
<1>1. TypeOK
  BY DEF Init, TypeOK, Slots, Unset, Inodes, Contents, Stages
<1> QED
  BY <1>1 DEF Init, WatchInv, OneWatch, NoLeakedWatch, WatchTracksFile, Slots

(* The masks of the user's changes. *)
LEMMA MasksOfChanges ==
  /\ <<"MODIFY">> \in Seq(Masks) /\ <<"ATTRIB">> \in Seq(Masks)
  /\ <<"CREATE">> \in Seq(Masks) /\ <<"MOVED_TO">> \in Seq(Masks)
  /\ <<"MOVE_SELF">> \in Seq(Masks) /\ <<"DELETE_SELF">> \in Seq(Masks)
  /\ <<"ATTRIB", "DELETE_SELF">> \in Seq(Masks)
  /\ <<>> \in Seq(Masks)
  /\ {"", "ukc.json", "other"} \subseteq Names
BY DEF Masks, Names

(* Whatever the user does adds well formed events to the end of the queue.  *)
LEMMA UserAppends ==
  ASSUME TypeOK, User
  PROVE  \E q \in Seq(Event) : inq' = inq \o q
<1>1. ASSUME NEW q \in Seq(Event), Change(q)
      PROVE  \E p \in Seq(Event) : inq' = inq \o p
  BY <1>1 DEF Change
<1>2. ASSUME NEW o PROVE EndNotices(o) \in Seq(Event)
  <2>1. (IF o \in shared THEN <<"ATTRIB">> ELSE <<"ATTRIB", "DELETE_SELF">>)
          \in Seq(Masks)
    BY MasksOfChanges
  <2> QED
    BY <2>1, MasksOfChanges, NoticesType DEF EndNotices
<1>3. ASSUME NEW o, NEW mask \in Masks PROVE Notices(o, "", <<mask>>) \in Seq(Event)
  <2>1. <<mask>> \in Seq(Masks)
    OBVIOUS
  <2> QED
    BY <2>1, MasksOfChanges, NoticesType
<1>4. ASSUME NEW name \in Names, NEW mask \in Masks
      PROVE  Notices(Cwd, name, <<mask>>) \in Seq(Event)
  <2>1. <<mask>> \in Seq(Masks)
    OBVIOUS
  <2> QED
    BY <2>1, NoticesType
<1>5. {"MODIFY", "ATTRIB", "MOVE_SELF", "CREATE", "MOVED_TO", "DELETE_SELF"} \subseteq Masks
        /\ {"ukc.json", "other"} \subseteq Names
  BY DEF Masks, Names
<1>6. CASE Write
  BY <1>1, <1>3, <1>5, <1>6 DEF Write
<1>7. CASE Touch
  BY <1>1, <1>3, <1>5, <1>7 DEF Touch
<1>8. CASE Share
  <2>1. PICK masks \in {<<>>, <<"ATTRIB">>} : Change(Notices(file, "", masks))
    BY <1>8 DEF Share
  <2>2. Notices(file, "", masks) \in Seq(Event)
    BY MasksOfChanges, NoticesType
  <2> QED
    BY <1>1, <2>1, <2>2
<1>9. CASE Create
  BY <1>1, <1>4, <1>5, <1>9 DEF Create
<1>10. CASE Replace
  <2> DEFINE p == Notices(Cwd, "ukc.json", <<"MOVED_TO">>)
  <2>1. p \in Seq(Event) /\ EndNotices(file) \in Seq(Event)
    BY <1>2, <1>4, <1>5
  <2>2. p \o EndNotices(file) \in Seq(Event)
    BY <2>1, ConcatType
  <2>3. Change(p \o EndNotices(file))
    BY <1>10 DEF Replace
  <2> QED
    BY <1>1, <2>2, <2>3
<1>11. CASE MoveAway
  BY <1>1, <1>3, <1>5, <1>11 DEF MoveAway
<1>12. CASE Remove
  BY <1>1, <1>2, <1>12 DEF Remove
<1>13. CASE Elsewhere
  <2>1. PICK w \in watches :
          \E masks \in {<<"MODIFY">>, <<"ATTRIB">>, <<"MOVE_SELF">>,
                        <<"DELETE_SELF">>, <<"ATTRIB", "DELETE_SELF">>} :
            Change(Notices(w.on, "", masks))
    BY <1>13 DEF Elsewhere
  <2>2. PICK masks \in Seq(Masks) : Change(Notices(w.on, "", masks))
    BY <2>1, MasksOfChanges
  <2>3. Notices(w.on, "", masks) \in Seq(Event)
    BY MasksOfChanges, NoticesType
  <2> QED
    BY <1>1, <2>2, <2>3
<1>14. CASE Neighbour
  BY <1>1, <1>4, <1>5, <1>14 DEF Neighbour
<1> QED
  BY <1>6, <1>7, <1>8, <1>9, <1>10, <1>11, <1>12, <1>13, <1>14 DEF User

(* What no change of the user's touches. *)
LEMMA UserLeaves ==
  ASSUME User
  PROVE  /\ UNCHANGED <<m_watch, lastWd, m_profiles, stage>>
         /\ watches' \subseteq watches
         /\ ops' = ops + 1 /\ ops < MaxOps
  BY DEF User, Write, Touch, Share, Create, Replace, MoveAway, Remove, Elsewhere,
         Neighbour, Change, WatchesAfter, MayDo

(* TypeOK is inductive with the invariant's other parts for the daemon and  *)
(* on its own for the user.                                                 *)
LEMMA UserType == ASSUME TypeOK, User PROVE TypeOK'
<1> USE ConfigWatchAssumption
<1>1. ops' \in 0 .. MaxOps /\ ops + 2 \in Inodes
  BY UserLeaves DEF TypeOK, Inodes
<1>2. inq' \in Seq(Event)
  <2>1. PICK q \in Seq(Event) : inq' = inq \o q
    BY UserAppends
  <2>2. inq \in Seq(Event)
    BY DEF TypeOK
  <2> QED
    BY <2>1, <2>2, ConcatType
<1>3. /\ file' \in {file, Absent, ops + 2}
      /\ content' \in Contents \cup {content}
  BY DEF User, Write, Touch, Share, Create, Replace, MoveAway, Remove, Elsewhere,
         Neighbour, Change, Contents
<1>4. shared' \subseteq shared \cup ({file} \ {Absent})
  BY DEF User, Write, Touch, Share, Create, Replace, MoveAway, Remove, Elsewhere,
         Neighbour, Change
<1> QED
  BY <1>1, <1>2, <1>3, <1>4, UserLeaves DEF TypeOK

(* Kept apart because only the daemon's steps need it: the descriptor a new *)
(* watch gets, when nothing is watched.                                     *)
LEMMA AddFirstWatch ==
  ASSUME TypeOK, watches = {}, NEW slot \in Slots, NEW o \in Objects,
         AddWatch(slot, o)
  PROVE  /\ m_watch' = [m_watch EXCEPT ![slot] = lastWd + 1]
         /\ watches' = {[wd |-> lastWd + 1, on |-> o]}
         /\ lastWd' = lastWd + 1
         /\ lastWd + 1 \in Nat \ {0, 1}
<1>1. WatchOn(o) = {}
  BY DEF WatchOn
<1>2. lastWd \in Nat \ {0}
  BY DEF TypeOK
<1> QED
  BY <1>1, <1>2 DEF AddWatch

(* What every step of the event handlers starts from. *)
LEMMA HeadType ==
  ASSUME TypeOK, HandleEvent
  PROVE  /\ Head(inq) \in Event
         /\ Head(inq).wd # Unset
         /\ inq' \in Seq(Event)
         /\ inq' = Tail(inq)
<1>1. inq \in Seq(Event) /\ inq # <<>> /\ inq' = Tail(inq)
  BY DEF TypeOK, HandleEvent
<1>2. Head(inq) \in Event /\ Tail(inq) \in Seq(Event)
  BY <1>1
<1>3. Head(inq).wd # Unset
  BY <1>2 DEF Event, Unset
<1> QED
  BY <1>1, <1>2, <1>3

(* Handling another event leaves a notice of the file's departure queued.   *)
LEMMA TailKeepsGoneNotice ==
  ASSUME TypeOK, GoneNotice, UNCHANGED m_watch, inq # <<>>, inq' = Tail(inq),
         ~ (/\ Head(inq).wd = m_watch["config"]
            /\ Head(inq).mask \in {"MOVE_SELF", "DELETE_SELF"})
  PROVE  GoneNotice'
<1>1. PICK i \in 1 .. Len(inq) :
             /\ inq[i].wd = m_watch["config"]
             /\ inq[i].mask \in {"MOVE_SELF", "DELETE_SELF"}
  BY DEF GoneNotice
<1>2. i # 1
  BY <1>1 DEF TypeOK
<1>3. i - 1 \in 1 .. Len(inq') /\ inq'[i - 1] = inq[i]
  BY <1>1, <1>2 DEF TypeOK
<1> QED
  BY <1>1, <1>3 DEF GoneNotice

LEMMA DaemonInv == ASSUME WatchInv, Daemon PROVE WatchInv'
<1> USE ConfigWatchAssumption DEF WatchInv
<1>1. CASE FirstRead
  <2>1. TypeOK'
    BY <1>1 DEF FirstRead, reloadConfig, Loaded, TypeOK, Stages, fsVars, watchVars
  <2> QED
    BY <1>1, <2>1 DEF FirstRead, reloadConfig, OneWatch, NoLeakedWatch,
                      WatchTracksFile, fsVars, watchVars
<1>2. CASE EnterLoop
  <2>1. TypeOK'
    BY <1>2 DEF EnterLoop, TypeOK, Stages, fsVars, watchVars
  <2> QED
    BY <1>2, <2>1 DEF EnterLoop, OneWatch, NoLeakedWatch, WatchTracksFile,
                      fsVars, watchVars
<1>3. CASE createWatchConfig
  <2>1. m_watch = [s \in Slots |-> Unset] /\ watches = {}
    BY <1>3, NothingWatched DEF createWatchConfig, OneWatch
  <2>2. CASE file # Absent /\ AddWatch("config", file) /\ stage' = "watching"
    <3>1. file \in Objects /\ file # Cwd /\ "config" \in Slots
      BY <2>2 DEF TypeOK, Objects, Inodes, Cwd, Slots
    <3>2. /\ m_watch' = [m_watch EXCEPT !["config"] = lastWd + 1]
          /\ watches' = {[wd |-> lastWd + 1, on |-> file]}
          /\ lastWd' = lastWd + 1
          /\ lastWd + 1 \in Nat \ {0, 1}
      BY <2>1, <2>2, <3>1, AddFirstWatch
    <3>3. TypeOK'
      BY <1>3, <2>2, <3>1, <3>2
      DEF createWatchConfig, TypeOK, Stages, Slots, fsVars
    <3>4. file' = file /\ [wd |-> m_watch'["config"], on |-> file] \in watches'
      BY <1>3, <2>1, <3>2 DEF createWatchConfig, fsVars, Slots
    <3>5. WatchTracksFile'
      BY <3>4 DEF WatchTracksFile
    <3> QED
      BY <1>3, <2>1, <2>2, <3>1, <3>2, <3>3, <3>5
      DEF createWatchConfig, OneWatch, NoLeakedWatch, WatchTracksFile, Slots,
          fsVars
  <2>3. CASE /\ m_watch' = [m_watch EXCEPT !["config"] = Unset]
             /\ stage' = "watchCwd"
             /\ UNCHANGED <<watches, lastWd>>
    <3>1. m_watch' = m_watch
      BY <2>1, <2>3 DEF Slots
    <3>2. TypeOK'
      BY <1>3, <2>3, <3>1 DEF createWatchConfig, TypeOK, Stages, fsVars
    <3> QED
      BY <1>3, <2>1, <2>3, <3>1, <3>2
      DEF createWatchConfig, OneWatch, NoLeakedWatch, WatchTracksFile, fsVars
  <2> QED
    BY <1>3, <2>2, <2>3 DEF createWatchConfig
<1>4. CASE createWatchCwd
  <2>1. m_watch = [s \in Slots |-> Unset] /\ watches = {}
    BY <1>4, NothingWatched DEF createWatchCwd, OneWatch
  <2>2. CASE AddWatch("cwd", Cwd)
    <3>1. Cwd \in Objects /\ "cwd" \in Slots
      BY DEF Objects, Slots
    <3>2. /\ m_watch' = [m_watch EXCEPT !["cwd"] = lastWd + 1]
          /\ watches' = {[wd |-> lastWd + 1, on |-> Cwd]}
          /\ lastWd' = lastWd + 1
          /\ lastWd + 1 \in Nat \ {0, 1}
      BY <2>1, <2>2, <3>1, AddFirstWatch
    <3>3. TypeOK'
      BY <1>4, <3>1, <3>2 DEF createWatchCwd, TypeOK, Stages, Slots, fsVars
    <3> QED
      BY <1>4, <2>1, <3>1, <3>2, <3>3
      DEF createWatchCwd, OneWatch, NoLeakedWatch, WatchTracksFile, Slots,
          fsVars
  <2>3. CASE /\ m_watch' = [m_watch EXCEPT !["cwd"] = Unset]
             /\ UNCHANGED <<watches, lastWd>>
    <3>1. m_watch' = m_watch
      BY <2>1, <2>3 DEF Slots
    <3>2. TypeOK'
      BY <1>4, <2>3, <3>1 DEF createWatchCwd, TypeOK, Stages, fsVars
    <3> QED
      BY <1>4, <2>1, <2>3, <3>1, <3>2
      DEF createWatchCwd, OneWatch, NoLeakedWatch, WatchTracksFile, Slots,
          fsVars
  <2> QED
    BY <1>4, <2>2, <2>3 DEF createWatchCwd
<1>5. CASE HandleEvent
  <2> DEFINE e == Head(inq)
  <2>0. /\ e \in Event /\ e.wd # Unset
        /\ inq' \in Seq(Event) /\ inq' = Tail(inq)
        /\ stage = "watching" /\ inq # <<>>
        /\ UNCHANGED fsVars
    BY <1>5, HeadType DEF HandleEvent, processConfigChange
  <2>1. ASSUME ~ (e.wd = m_watch["config"]
                    /\ e.mask \in {"MOVE_SELF", "DELETE_SELF"}),
               GoneNotice, UNCHANGED m_watch
        PROVE  GoneNotice'
    BY <2>0, <2>1, TailKeepsGoneNotice
  <2>2. CASE AttributesChanged(e)
    <3>1. TypeOK'
      BY <2>0, <2>2 DEF AttributesChanged, reloadConfig, Loaded, TypeOK, Stages,
                        fsVars, watchVars
    <3> QED
      BY <2>0, <2>1, <2>2, <3>1
      DEF AttributesChanged, reloadConfig, OneWatch, NoLeakedWatch,
          WatchTracksFile, fsVars, watchVars
  <2>3. CASE SelfGone(e)
    <3>1. watches' = {} /\ m_watch' = [s \in Slots |-> Unset]
      BY <2>0, <2>3, RemoveOnlyWatch DEF SelfGone, Slots
    <3>2. TypeOK'
      BY <2>0, <2>3, <3>1
      DEF SelfGone, RemoveWatch, TypeOK, Stages, fsVars
    <3> QED
      BY <2>3, <3>1, <3>2
      DEF SelfGone, OneWatch, NoLeakedWatch, WatchTracksFile, Slots
  <2>4. CASE Appeared(e)
    <3>1. watches' = {} /\ m_watch' = [s \in Slots |-> Unset]
      BY <2>0, <2>4, RemoveOnlyWatch DEF Appeared, Slots
    <3>2. TypeOK'
      BY <2>0, <2>4, <3>1
      DEF Appeared, reloadConfig, Loaded, RemoveWatch, TypeOK, Stages, fsVars
    <3> QED
      BY <2>4, <3>1, <3>2
      DEF Appeared, OneWatch, NoLeakedWatch, WatchTracksFile, Slots
  <2>5. CASE Ignored(e)
    <3>1. TypeOK'
      BY <2>0, <2>5 DEF Ignored, TypeOK, fsVars, watchVars
    <3> QED
      BY <2>0, <2>1, <2>5, <3>1
      DEF Ignored, OneWatch, NoLeakedWatch, WatchTracksFile, fsVars, watchVars
  <2> QED
    BY <1>5, <2>2, <2>3, <2>4, <2>5 DEF HandleEvent, processConfigChange
<1> QED
  BY <1>1, <1>2, <1>3, <1>4, <1>5 DEF Daemon

-----------------------------------------------------------------------------
(* A change of a watched object is noticed under the descriptor the daemon  *)
(* has for it; one of any other object queues nothing.                      *)
LEMMA NoticeOfFile ==
  ASSUME TypeOK, NoLeakedWatch, NEW o \in Inodes, NEW name, NEW masks
  PROVE  LET wd == m_watch["config"]
         IN IF [wd |-> wd, on |-> o] \in watches
              THEN Notices(o, name, masks) =
                     [i \in 1 .. Len(masks) |->
                        [wd |-> wd, mask |-> masks[i], name |-> name]]
              ELSE Notices(o, name, masks) = <<>>
<1>1. \A w \in WatchOn(o) : w = [wd |-> m_watch["config"], on |-> o]
  BY DEF WatchOn, NoLeakedWatch, TypeOK, Inodes, Cwd
<1>2. CASE [wd |-> m_watch["config"], on |-> o] \in watches
  <2>1. WatchOn(o) = {[wd |-> m_watch["config"], on |-> o]}
    BY <1>1, <1>2 DEF WatchOn
  <2> QED
    BY <1>2, <2>1 DEF Notices
<1>3. CASE [wd |-> m_watch["config"], on |-> o] \notin watches
  <2>1. WatchOn(o) = {}
    BY <1>1, <1>3 DEF WatchOn
  <2> QED
    BY <1>3, <2>1 DEF Notices
<1> QED
  BY <1>2, <1>3

LEMMA NoticeOfCwd ==
  ASSUME TypeOK, NoLeakedWatch, NEW name, NEW masks
  PROVE  LET wd == m_watch["cwd"]
         IN IF [wd |-> wd, on |-> Cwd] \in watches
              THEN Notices(Cwd, name, masks) =
                     [i \in 1 .. Len(masks) |->
                        [wd |-> wd, mask |-> masks[i], name |-> name]]
              ELSE Notices(Cwd, name, masks) = <<>>
<1>1. \A w \in WatchOn(Cwd) : w = [wd |-> m_watch["cwd"], on |-> Cwd]
  BY DEF WatchOn, NoLeakedWatch, TypeOK
<1>2. CASE [wd |-> m_watch["cwd"], on |-> Cwd] \in watches
  <2>1. WatchOn(Cwd) = {[wd |-> m_watch["cwd"], on |-> Cwd]}
    BY <1>1, <1>2 DEF WatchOn
  <2> QED
    BY <1>2, <2>1 DEF Notices
<1>3. CASE [wd |-> m_watch["cwd"], on |-> Cwd] \notin watches
  <2>1. WatchOn(Cwd) = {}
    BY <1>1, <1>3 DEF WatchOn
  <2> QED
    BY <1>3, <2>1 DEF Notices
<1> QED
  BY <1>2, <1>3

(* The end of a queue is where new notices go, and nothing is lost.         *)
LEMMA GoneNoticeStays ==
  ASSUME TypeOK, NEW q \in Seq(Event), inq' = inq \o q, m_watch' = m_watch,
         \/ GoneNotice
         \/ \E i \in 1 .. Len(q) :
              q[i].wd = m_watch["config"]
                /\ q[i].mask \in {"MOVE_SELF", "DELETE_SELF"}
  PROVE  GoneNotice'
<1>1. inq \in Seq(Event)
  BY DEF TypeOK
<1>2. CASE GoneNotice
  <2>1. PICK i \in 1 .. Len(inq) :
               /\ inq[i].wd = m_watch["config"]
               /\ inq[i].mask \in {"MOVE_SELF", "DELETE_SELF"}
    BY <1>2 DEF GoneNotice
  <2>2. i \in 1 .. Len(inq') /\ inq'[i] = inq[i]
    BY <1>1, <2>1
  <2> QED
    BY <2>1, <2>2 DEF GoneNotice
<1>3. CASE \E i \in 1 .. Len(q) :
             q[i].wd = m_watch["config"]
               /\ q[i].mask \in {"MOVE_SELF", "DELETE_SELF"}
  <2>1. PICK i \in 1 .. Len(q) :
               /\ q[i].wd = m_watch["config"]
               /\ q[i].mask \in {"MOVE_SELF", "DELETE_SELF"}
    BY <1>3
  <2>2. Len(inq) + i \in 1 .. Len(inq') /\ inq'[Len(inq) + i] = q[i]
    BY <1>1, <2>1
  <2> QED
    BY <2>1, <2>2 DEF GoneNotice
<1> QED
  BY <1>2, <1>3

(* The last of the notices a watched file queues is in the queue they are   *)
(* appended to.                                                             *)
LEMMA ConcatIndex ==
  ASSUME NEW S, NEW p \in Seq(S), NEW q \in Seq(S), NEW i \in 1 .. Len(q)
  PROVE  Len(p) + i \in 1 .. Len(p \o q) /\ (p \o q)[Len(p) + i] = q[i]
OBVIOUS

LEMMA DomainLen ==
  ASSUME NEW S, NEW n \in Seq(S), NEW k \in Nat, DOMAIN n = 1 .. k
  PROVE  Len(n) = k
OBVIOUS

(* A change of the watched file queues each of its masks, in order.         *)
LEMMA NoticesOfWatched ==
  ASSUME TypeOK, NoLeakedWatch, NEW o \in Inodes,
         [wd |-> m_watch["config"], on |-> o] \in watches,
         NEW name \in Names, NEW masks \in Seq(Masks)
  PROVE  /\ Len(Notices(o, name, masks)) = Len(masks)
         /\ \A i \in 1 .. Len(masks) :
              /\ Notices(o, name, masks)[i].wd = m_watch["config"]
              /\ Notices(o, name, masks)[i].mask = masks[i]
<1> DEFINE n == Notices(o, name, masks)
<1>1. n = [i \in 1 .. Len(masks) |->
             [wd |-> m_watch["config"], mask |-> masks[i], name |-> name]]
  BY NoticeOfFile
<1>2. n \in Seq(Event)
  BY NoticesType
<1> HIDE DEF n
<1>3. DOMAIN n = 1 .. Len(masks)
  BY <1>1
<1>4. Len(masks) \in Nat
  OBVIOUS
<1>5. Len(n) = Len(masks)
  BY <1>2, <1>3, <1>4, DomainLen
<1>6. \A i \in 1 .. Len(masks) :
        n[i] = [wd |-> m_watch["config"], mask |-> masks[i], name |-> name]
  BY <1>1
<1>7. ASSUME NEW i \in 1 .. Len(masks)
      PROVE  n[i].wd = m_watch["config"] /\ n[i].mask = masks[i]
  <2>1. n[i] = [wd |-> m_watch["config"], mask |-> masks[i], name |-> name]
    BY <1>6
  <2> QED
    BY <2>1
<1> QED
  BY <1>5, <1>7 DEF n

LEMMA ConcatAssociative ==
  ASSUME NEW S, NEW p \in Seq(S), NEW q \in Seq(S), NEW r \in Seq(S)
  PROVE  p \o (q \o r) = (p \o q) \o r
OBVIOUS

(* A change of the watched file that ends in its departure leaves a notice  *)
(* of it at the end of the queue.                                           *)
LEMMA DepartureIsQueued ==
  ASSUME TypeOK, NoLeakedWatch, m_watch' = m_watch, NEW o \in Inodes,
         [wd |-> m_watch["config"], on |-> o] \in watches,
         NEW r \in Seq(Event), NEW masks \in Seq(Masks), NEW k \in 1 .. Len(masks),
         masks[k] \in {"MOVE_SELF", "DELETE_SELF"},
         inq' = r \o Notices(o, "", masks)
  PROVE  GoneNotice'
<1> DEFINE n == Notices(o, "", masks)
<1>1. "" \in Names
  BY DEF Names
<1>2. n \in Seq(Event)
  BY <1>1, NoticesType
<1>3. /\ Len(n) = Len(masks)
      /\ \A i \in 1 .. Len(masks) :
           n[i].wd = m_watch["config"] /\ n[i].mask = masks[i]
  BY <1>1, NoticesOfWatched
<1>4. inq' = r \o n
  OBVIOUS
<1> HIDE DEF n
<1>5. k \in 1 .. Len(n) /\ n[k].wd = m_watch["config"]
        /\ n[k].mask \in {"MOVE_SELF", "DELETE_SELF"}
  BY <1>3
<1>6. Len(r) + k \in 1 .. Len(r \o n) /\ (r \o n)[Len(r) + k] = n[k]
  <2>1. k \in 1 .. Len(n)
    BY <1>5
  <2> HIDE <1>5
  <2> QED
    BY <1>2, <2>1, ConcatIndex
<1> QED
  BY <1>4, <1>5, <1>6 DEF GoneNotice

(* The notices of an object the daemon watches: its departure is heard.     *)
LEMMA WatchedIsInode ==
  ASSUME TypeOK, NEW wd, NEW o, [wd |-> wd, on |-> o] \in watches,
         o \in shared \cup {file}
  PROVE  o \in Inodes /\ o # Absent /\ o # Cwd
  BY DEF TypeOK, Objects, Inodes, Absent, Cwd

LEMMA UserInv == ASSUME WatchInv, User PROVE WatchInv'
<1> USE ConfigWatchAssumption DEF WatchInv
<1>0. TypeOK'
  BY UserType
<1>1. /\ watches' \subseteq watches
      /\ UNCHANGED <<m_watch, stage>>
  BY UserLeaves
<1>2. OneWatch' /\ NoLeakedWatch'
  BY <1>1 DEF OneWatch, NoLeakedWatch
<1>3. WatchTracksFile'
  <2> DEFINE on(o) == [wd |-> m_watch["config"], on |-> o]
  <2> SUFFICES ASSUME stage = "watching", m_watch["config"] # Unset, ~ GoneNotice'
               PROVE  \E o \in shared' \cup {file'} : on(o) \in watches'
    BY <1>1 DEF WatchTracksFile
  <2>1. ~ GoneNotice
    BY <1>1, UserAppends, GoneNoticeStays
  <2>2. PICK o \in shared \cup {file} : on(o) \in watches
    BY <2>1 DEF WatchTracksFile
  <2>3. o \in Inodes /\ o # Absent /\ o # Cwd
    BY <2>2, WatchedIsInode
  <2>4. inq \in Seq(Event)
    BY DEF TypeOK
  <2>5. ASSUME NEW r \in Seq(Event), NEW masks \in Seq(Masks), NEW k \in 1 .. Len(masks),
               masks[k] \in {"MOVE_SELF", "DELETE_SELF"},
               inq' = r \o Notices(o, "", masks)
        PROVE  FALSE
    BY <1>1, <2>2, <2>3, <2>5, DepartureIsQueued
  <2>6. ASSUME NEW r \in Seq(Event), NEW mask \in {"MOVE_SELF", "DELETE_SELF"}
        PROVE  /\ inq' # r \o Notices(o, "", <<mask>>)
               /\ inq' # r \o Notices(o, "", <<"ATTRIB", "DELETE_SELF">>)
    <3>1. <<mask>> \in Seq(Masks) /\ 1 \in 1 .. Len(<<mask>>) /\ <<mask>>[1] = mask
      BY <2>6 DEF Masks
    <3>2. /\ 2 \in 1 .. Len(<<"ATTRIB", "DELETE_SELF">>)
          /\ <<"ATTRIB", "DELETE_SELF">>[2] = "DELETE_SELF"
      OBVIOUS
    <3>3. inq' # r \o Notices(o, "", <<mask>>)
      BY <2>5, <2>6, <3>1
    <3>4. inq' # r \o Notices(o, "", <<"ATTRIB", "DELETE_SELF">>)
      BY <2>5, <3>2, MasksOfChanges
    <3> QED
      BY <3>3, <3>4
  <2>7. CASE Write \/ Touch \/ Neighbour
    BY <2>2, <2>7 DEF Write, Touch, Neighbour, Change
  <2>8. CASE Share
    BY <2>2, <2>8 DEF Share, Change
  <2>9. CASE Create
    BY <2>2, <2>3, <2>9 DEF Create, Change
  <2>10. CASE MoveAway
    <3>1. o # file
      BY <2>4, <2>6, <2>10 DEF MoveAway, Change
    <3> QED
      BY <2>2, <2>10, <3>1 DEF MoveAway
  <2>11. ASSUME file \notin shared, NEW r \in Seq(Event), inq' = r \o EndNotices(file)
         PROVE  o # file
    BY <2>6, <2>11 DEF EndNotices
  <2>12. ASSUME watches' = WatchesAfter(file), o # file \/ file \in shared
         PROVE  on(o) \in watches' /\ o \in shared
    BY <2>2, <2>12 DEF WatchesAfter, WatchOn
  <2>13. CASE Remove
    <3>1. o # file \/ file \in shared
      BY <2>4, <2>11, <2>13 DEF Remove, Change
    <3> QED
      BY <2>12, <2>13, <3>1 DEF Remove
  <2>14. CASE Replace
    <3> DEFINE p == Notices(Cwd, "ukc.json", <<"MOVED_TO">>)
    <3>1. p \in Seq(Event)
      BY MasksOfChanges, NoticesType
    <3>2. inq \o p \in Seq(Event)
      BY <2>4, <3>1, ConcatType
    <3>3. file \notin shared => inq' = (inq \o p) \o EndNotices(file)
      <4>1. EndNotices(file) \in Seq(Event)
        <5>1. (IF file \in shared THEN <<"ATTRIB">> ELSE <<"ATTRIB", "DELETE_SELF">>)
                \in Seq(Masks)
          BY MasksOfChanges
        <5> QED
          BY <5>1, MasksOfChanges, NoticesType DEF EndNotices
      <4>2. inq' = inq \o (p \o EndNotices(file))
        BY <2>14 DEF Replace, Change
      <4> HIDE DEF p
      <4> QED
        BY <2>4, <3>1, <4>1, <4>2, ConcatAssociative
    <3>4. o # file \/ file \in shared
      BY <2>11, <3>2, <3>3
    <3> QED
      BY <2>12, <2>14, <3>4 DEF Replace
  <2>15. CASE Elsewhere
    <3>1. PICK w \in watches :
            \/ UNCHANGED <<shared, watches>>
            \/ /\ \E masks \in {<<"DELETE_SELF">>, <<"ATTRIB", "DELETE_SELF">>} :
                     Change(Notices(w.on, "", masks))
               /\ shared' = shared \ {w.on}
               /\ watches' = watches \ WatchOn(w.on)
               /\ w.on # file
      BY <2>15 DEF Elsewhere
    <3>2. CASE UNCHANGED <<shared, watches>>
      BY <2>2, <2>15, <3>2 DEF Elsewhere
    <3>3. CASE /\ \E masks \in {<<"DELETE_SELF">>, <<"ATTRIB", "DELETE_SELF">>} :
                    Change(Notices(w.on, "", masks))
               /\ shared' = shared \ {w.on}
               /\ watches' = watches \ WatchOn(w.on)
               /\ w.on # file
      <4>1. o # w.on
        BY <2>4, <2>6, <3>3 DEF Change
      <4> QED
        BY <2>2, <2>15, <3>3, <4>1 DEF Elsewhere, WatchOn
    <3> QED
      BY <3>1, <3>2, <3>3
  <2> QED
    BY <2>7, <2>8, <2>9, <2>10, <2>13, <2>14, <2>15 DEF User
<1> QED
  BY <1>0, <1>2, <1>3

LEMMA NextInv == ASSUME WatchInv, [Next]_vars PROVE WatchInv'
<1>1. CASE Daemon
  BY <1>1, DaemonInv
<1>2. CASE User
  BY <1>2, UserInv
<1>3. CASE UNCHANGED vars
  BY <1>3 DEF vars, WatchInv, TypeOK, OneWatch, NoLeakedWatch, WatchTracksFile,
              GoneNotice
<1> QED
  BY <1>1, <1>2, <1>3 DEF Next

THEOREM WatchInvariant == Spec => []WatchInv
<1>1. Init => WatchInv
  BY InitWatchInv
<1>2. WatchInv /\ [Next]_vars => WatchInv'
  BY NextInv
<1> QED
  BY <1>1, <1>2, PTL DEF Spec

(* Every variable keeps its type. *)
THEOREM TypeCorrect == Spec => []TypeOK
<1>1. WatchInv => TypeOK
  BY DEF WatchInv
<1> QED
  BY <1>1, WatchInvariant, PTL

(* The daemon never holds both watches and never overwrites one: the        *)
(* comment in MainLoop.hpp and the assertions of createWatchConfig and      *)
(* createWatchCwd hold whatever happens to the file.                        *)
THEOREM NeverTwoWatches == Spec => []OneWatch
<1>1. WatchInv => OneWatch
  BY DEF WatchInv
<1> QED
  BY <1>1, WatchInvariant, PTL

(* The kernel keeps no watch the daemon has forgotten. *)
THEOREM NoWatchLeaks == Spec => []NoLeakedWatch
<1>1. WatchInv => NoLeakedWatch
  BY DEF WatchInv
<1> QED
  BY <1>1, WatchInvariant, PTL

LEMMA InvIsCurrent == WatchInv => WatchIsCurrent
<1> SUFFICES ASSUME WatchInv, stage = "watching", m_watch["config"] # Unset,
                    ~ \E i \in 1 .. Len(inq) : inq[i].wd = m_watch["config"]
             PROVE  \E w \in watches : /\ w.wd = m_watch["config"]
                                       /\ w.on # Cwd
                                       /\ w.on \in shared \cup {file}
  BY DEF WatchIsCurrent
<1>1. PICK o \in shared \cup {file} : [wd |-> m_watch["config"], on |-> o] \in watches
  BY DEF WatchInv, WatchTracksFile, GoneNotice
<1>2. o # Cwd
  BY <1>1, WatchedIsInode DEF WatchInv
<1> QED
  BY <1>1, <1>2

(* A watch on a file, with no notice of it pending, is on the file that has *)
(* the name, or on one that something else keeps: another name or an open   *)
(* descriptor.  Nothing announces the latter, and the daemon stays there.   *)
THEOREM WatchStaysCurrent == Spec => []WatchIsCurrent
  BY InvIsCurrent, WatchInvariant, PTL
=============================================================================

------------------------- MODULE ConfigReloadProofs -------------------------
(***************************************************************************)
(* When the profiles in force are the ones in the file.  A file that gets   *)
(* the name while the daemon is at rest is heard of; and for a user who     *)
(* waits for each change to be handled, never writes the file in place and  *)
(* takes the name from no file that outlives it, and a kernel that grants   *)
(* every watch, what is in force is what the file says: for any number of   *)
(* changes of any other kind.                                               *)
(***************************************************************************)
EXTENDS ConfigReload, ConfigWatchProofs

(* Nothing has gone wrong outside the daemon. *)
Calm == ~hasty /\ ~written /\ ~refused /\ ~orphaned

(* The directory's slot names a watch the kernel still has. *)
CwdWatched ==
  m_watch["cwd"] # Unset => [wd |-> m_watch["cwd"], on |-> Cwd] \in watches

(* A daemon in its loop is never without a watch, as long as the kernel has *)
(* granted every one.                                                       *)
NeverBlind ==
  stage = "watching" /\ ~refused => \E s \in Slots : m_watch[s] # Unset

(* As long as nothing keeps a file that has lost its name, only a notice of *)
(* its departure lets the watch be on any other.                            *)
WatchOnFile ==
  ~orphaned => GoneNotice \/ \A w \in watches : w.on \in {Cwd, file}

(* A queue whose first event makes the daemon read the file. *)
Due(q) == q # <<>> /\ MakesItRead(q[1])

(* Two events are queued only when the watched file's inode has gone.       *)
Short(q) ==
  \/ Len(q) <= 1
  \/ Len(q) = 2 /\ q[1].wd = m_watch["config"] /\ q[1].mask = "ATTRIB"

(* The daemon is between two watches only with an empty queue. *)
ShortQueue ==
  stage # "dead" => Short(inq) /\ (stage # "watching" => inq = <<>>)

(* FileIsLoaded strengthened: what is in force is what the file says, or    *)
(* the next event makes it so.                                              *)
LoadedOrDue ==
  stage \notin {"boot", "dead"} /\ file # Absent =>
    m_profiles = Loaded(content) \/ Due(inq)

SlotsInv == WatchInv /\ CwdWatched /\ NeverBlind /\ WatchOnFile
CalmInv == SlotsInv /\ (Calm => ShortQueue /\ LoadedOrDue)

-----------------------------------------------------------------------------
(* What a step of the daemon does to the slots. *)
LEMMA SlotsStep ==
  ASSUME WatchInv, Daemon, Remember
  PROVE  \/ refused' /\ m_watch' = [s \in Slots |-> Unset]
         \/ UNCHANGED <<m_watch, watches>> /\ (stage = "watching" \/ stage' # "watching")
         \/ m_watch' = [s \in Slots |-> Unset] /\ stage' # "watching"
         \/ m_watch'["config"] # Unset /\ m_watch'["cwd"] = Unset
         \/ /\ m_watch'["cwd"] # Unset
            /\ [wd |-> m_watch'["cwd"], on |-> Cwd] \in watches'
<1> USE DEF WatchInv
<1>1. CASE FirstRead
  BY <1>1 DEF FirstRead, reloadConfig, watchVars
<1>2. CASE EnterLoop
  BY <1>2 DEF EnterLoop, watchVars
<1>3. CASE createWatchConfig
  <2>1. m_watch = [s \in Slots |-> Unset] /\ watches = {}
    BY <1>3, NothingWatched DEF createWatchConfig, OneWatch
  <2>2. CASE file # Absent /\ AddWatch("config", file)
    <3>1. file \in Objects /\ "config" \in Slots
      BY <2>2 DEF TypeOK, Objects, Inodes, Slots
    <3>2. /\ m_watch' = [m_watch EXCEPT !["config"] = lastWd + 1]
          /\ lastWd + 1 \in Nat \ {0, 1}
      BY <2>1, <2>2, <3>1, AddFirstWatch
    <3> QED
      BY <2>1, <3>2 DEF Slots, Unset
  <2>3. CASE /\ m_watch' = [m_watch EXCEPT !["config"] = Unset]
             /\ stage' = "watchCwd"
    BY <2>1, <2>3 DEF Slots
  <2> QED
    BY <1>3, <2>2, <2>3 DEF createWatchConfig
<1>4. CASE createWatchCwd
  <2>1. m_watch = [s \in Slots |-> Unset] /\ watches = {}
    BY <1>4, NothingWatched DEF createWatchCwd, OneWatch
  <2>2. Cwd \in Objects /\ "cwd" \in Slots
    BY DEF Objects, Slots
  <2>3. CASE AddWatch("cwd", Cwd)
    <3>1. /\ m_watch' = [m_watch EXCEPT !["cwd"] = lastWd + 1]
          /\ watches' = {[wd |-> lastWd + 1, on |-> Cwd]}
          /\ lastWd + 1 \in Nat \ {0, 1}
      BY <2>1, <2>2, <2>3, AddFirstWatch
    <3> QED
      BY <2>1, <3>1 DEF Slots, Unset
  <2>4. CASE m_watch' = [m_watch EXCEPT !["cwd"] = Unset]
    <3>1. m_watch' = [s \in Slots |-> Unset] /\ m_watch'["cwd"] = Unset
      BY <2>1, <2>4 DEF Slots
    <3>2. refused'
      BY <1>4, <3>1 DEF createWatchCwd, Remember
    <3> QED
      BY <3>1, <3>2
  <2> QED
    BY <1>4, <2>3, <2>4 DEF createWatchCwd
<1>5. CASE HandleEvent
  <2> DEFINE e == Head(inq)
  <2>0. e.wd # Unset /\ stage = "watching"
    BY <1>5, HeadType DEF HandleEvent, processConfigChange
  <2>1. CASE AttributesChanged(e) \/ Ignored(e)
    BY <2>0, <2>1 DEF AttributesChanged, Ignored, watchVars
  <2>2. CASE SelfGone(e)
    BY <2>0, <2>2, RemoveOnlyWatch DEF SelfGone, Slots
  <2>3. CASE Appeared(e)
    <3>1. m_watch' = [s \in Slots |-> Unset]
      BY <2>0, <2>3, RemoveOnlyWatch DEF Appeared, Slots
    <3> QED
      BY <2>3, <3>1 DEF Appeared, reloadConfig
  <2> QED
    BY <1>5, <2>1, <2>2, <2>3 DEF HandleEvent, processConfigChange
<1> QED
  BY <1>1, <1>2, <1>3, <1>4, <1>5 DEF Daemon

(* The user's changes never touch the directory's watch. *)
LEMMA CwdWatchStays ==
  ASSUME TypeOK, User
  PROVE  /\ UNCHANGED <<m_watch, stage>>
         /\ \A w \in watches : w.on = Cwd => w \in watches'
<1>1. file # Cwd
  BY DEF TypeOK, Inodes, Absent, Cwd
<1> QED
  BY <1>1 DEF User, Write, Touch, Share, Create, Replace, MoveAway, Remove,
              Elsewhere, Neighbour, Change, WatchesAfter, WatchOn

(* Once something has gone wrong it stays so.                               *)
LEMMA HistoryGrows ==
  ASSUME Remember
  PROVE  (refused => refused') /\ (orphaned => orphaned') /\ (Calm' => Calm)
BY DEF Remember, Calm

LEMMA DaemonOnFile ==
  ASSUME WatchInv, WatchOnFile, Daemon, Remember
  PROVE  WatchOnFile'
<1> USE DEF WatchInv
<1>0. file' = file /\ (orphaned => orphaned')
  BY HistoryGrows DEF Daemon, FirstRead, EnterLoop, createWatchConfig,
     createWatchCwd, HandleEvent, processConfigChange, fsVars
<1>1. CASE FirstRead \/ EnterLoop
  BY <1>0, <1>1 DEF FirstRead, EnterLoop, WatchOnFile, GoneNotice, watchVars
<1>2. CASE createWatchConfig \/ createWatchCwd
  <2>1. m_watch = [s \in Slots |-> Unset] /\ watches = {}
    BY <1>2, NothingWatched DEF createWatchConfig, createWatchCwd, OneWatch
  <2>2. \A w \in watches' : w.on \in {Cwd, file}
    BY <1>2, <2>1 DEF createWatchConfig, createWatchCwd, AddWatch
  <2> QED
    BY <1>0, <2>2 DEF WatchOnFile
<1>3. CASE HandleEvent
  <2> DEFINE e == Head(inq)
  <2>1. stage = "watching" /\ inq # <<>> /\ inq' = Tail(inq) /\ e.wd # Unset
    BY <1>3, HeadType DEF HandleEvent, processConfigChange
  <2>2. CASE AttributesChanged(e) \/ Ignored(e)
    <3>1. UNCHANGED <<m_watch, watches>>
      BY <2>2 DEF AttributesChanged, Ignored, watchVars
    <3>2. ~ (e.wd = m_watch["config"] /\ e.mask \in {"MOVE_SELF", "DELETE_SELF"})
      BY <2>2 DEF AttributesChanged, Ignored
    <3>3. GoneNotice => GoneNotice'
      BY <2>1, <3>1, <3>2, TailKeepsGoneNotice
    <3> QED
      BY <1>0, <3>1, <3>3 DEF WatchOnFile
  <2>3. CASE SelfGone(e) \/ Appeared(e)
    <3>1. watches' = {}
      BY <2>1, <2>3, RemoveOnlyWatch DEF SelfGone, Appeared, Slots
    <3> QED
      BY <3>1 DEF WatchOnFile
  <2> QED
    BY <1>3, <2>2, <2>3 DEF HandleEvent, processConfigChange
<1> QED
  BY <1>1, <1>2, <1>3 DEF Daemon

(* What takes the name from a watched file either is announced as its       *)
(* departure or leaves it to something that keeps it.                       *)
LEMMA UserOnFile ==
  ASSUME WatchInv, WatchOnFile, User, Remember
  PROVE  WatchOnFile'
<1> USE DEF WatchInv
<1> SUFFICES ASSUME ~orphaned', ~ GoneNotice'
             PROVE  \A w \in watches' : w.on \in {Cwd, file'}
  BY DEF WatchOnFile
<1>1. UNCHANGED m_watch /\ watches' \subseteq watches /\ ~orphaned
  BY UserLeaves, HistoryGrows
<1>2. ~ GoneNotice
  BY <1>1, UserAppends, GoneNoticeStays
<1>3. \A w \in watches : w.on \in {Cwd, file}
  BY <1>1, <1>2 DEF WatchOnFile
<1>4. CASE file' = file
  BY <1>1, <1>3, <1>4
<1>5. CASE WatchOn(file) = {}
  BY <1>1, <1>3, <1>5 DEF WatchOn
<1>6. CASE file' # file /\ WatchOn(file) # {}
  <2>1. PICK w \in watches : w.on = file
    BY <1>6 DEF WatchOn
  <2>2. file \in Inodes /\ file # Absent /\ file # Cwd
    BY <2>1 DEF TypeOK, Objects, Inodes, Absent, Cwd
  <2>3. CASE Replace \/ Remove
    <3>1. file \notin shared
      BY <1>6, <2>3 DEF Remember
    <3>2. watches' = watches \ WatchOn(file)
      BY <2>3, <3>1 DEF Replace, Remove, WatchesAfter
    <3> QED
      BY <1>3, <3>2 DEF WatchOn
  <2>4. CASE MoveAway
    <3>1. [wd |-> m_watch["config"], on |-> file] \in watches
      <4>1. w.wd = m_watch["config"]
        BY <2>1, <2>2 DEF NoLeakedWatch
      <4>2. w = [wd |-> w.wd, on |-> w.on]
        BY <2>1 DEF TypeOK
      <4> QED
        BY <2>1, <4>1, <4>2
    <3>2. /\ <<"MOVE_SELF">> \in Seq(Masks) /\ 1 \in 1 .. Len(<<"MOVE_SELF">>)
          /\ <<"MOVE_SELF">>[1] = "MOVE_SELF"
      BY DEF Masks
    <3>3. inq' = inq \o Notices(file, "", <<"MOVE_SELF">>) /\ inq \in Seq(Event)
      BY <2>4 DEF MoveAway, Change, TypeOK
    <3>4. GoneNotice'
      BY <1>1, <2>2, <3>1, <3>2, <3>3, DepartureIsQueued
    <3> QED
      BY <3>4
  <2>5. CASE Write \/ Touch \/ Share \/ Create \/ Elsewhere \/ Neighbour
    BY <1>6, <2>2, <2>5 DEF Write, Touch, Share, Create, Elsewhere, Neighbour
  <2> QED
    BY <2>3, <2>4, <2>5 DEF User
<1> QED
  BY <1>4, <1>5, <1>6

LEMMA NextSlots ==
  ASSUME SlotsInv, [HNext]_<<vars, history>>
  PROVE  SlotsInv'
<1> USE DEF SlotsInv
<1>1. WatchInv'
  BY NextInv DEF HNext, Next, vars
<1>2. CASE Daemon /\ Remember
  <2>1. CwdWatched' /\ NeverBlind'
    BY <1>2, SlotsStep, HistoryGrows DEF CwdWatched, NeverBlind, Slots
  <2> QED
    BY <1>1, <1>2, <2>1, DaemonOnFile
<1>3. CASE User /\ Remember
  <2>1. CwdWatched' /\ NeverBlind'
    BY <1>3, CwdWatchStays, HistoryGrows DEF CwdWatched, NeverBlind, WatchInv
  <2> QED
    BY <1>1, <1>3, <2>1, UserOnFile
<1>4. CASE UNCHANGED <<vars, history>>
  BY <1>1, <1>4
  DEF vars, history, CwdWatched, NeverBlind, WatchOnFile, GoneNotice
<1> QED
  BY <1>2, <1>3, <1>4 DEF HNext

LEMMA InitSlots == HInit => SlotsInv
  BY InitWatchInv
  DEF HInit, Init, SlotsInv, CwdWatched, NeverBlind, WatchOnFile, Slots

-----------------------------------------------------------------------------
(* What the user's changes queue, in each of the daemon's two modes. *)

(* Nothing hears of a file that is not watched, nor of a missing one. *)
LEMMA UnwatchedFile ==
  ASSUME TypeOK, NoLeakedWatch, m_watch["config"] = Unset, NEW name, NEW masks
  PROVE  Notices(file, name, masks) = <<>>
<1>1. WatchOn(file) = {}
  BY DEF WatchOn, TypeOK, NoLeakedWatch, Inodes, Absent, Cwd, Unset
<1> QED
  BY <1>1 DEF Notices

LEMMA UnwatchedCwd ==
  ASSUME TypeOK, NoLeakedWatch, m_watch["cwd"] = Unset, NEW name, NEW masks
  PROVE  Notices(Cwd, name, masks) = <<>>
<1>1. WatchOn(Cwd) = {}
  BY DEF WatchOn, TypeOK, NoLeakedWatch, Unset
<1> QED
  BY <1>1 DEF Notices

(* A watched directory queues one event for each file that appears in it. *)
LEMMA WatchedCwd ==
  ASSUME TypeOK, NoLeakedWatch, CwdWatched, m_watch["cwd"] # Unset,
         NEW name \in Names, NEW mask \in Masks
  PROVE  LET n == Notices(Cwd, name, <<mask>>)
         IN Len(n) = 1 /\ n[1].wd = m_watch["cwd"] /\ n[1].name = name
<1> DEFINE n == Notices(Cwd, name, <<mask>>)
<1>1. Len(<<mask>>) = 1 /\ <<mask>> \in Seq(Masks)
  OBVIOUS
<1>2. n = [i \in 1 .. 1 |->
             [wd |-> m_watch["cwd"], mask |-> <<mask>>[i], name |-> name]]
  BY <1>1, NoticeOfCwd DEF CwdWatched
<1>3. n \in Seq(Event)
  BY <1>1, NoticesType
<1> HIDE DEF n
<1>4. DOMAIN n = 1 .. 1
  BY <1>2
<1>5. n[1] = [wd |-> m_watch["cwd"], mask |-> <<mask>>[1], name |-> name]
  BY <1>2
<1>6. Len(n) = 1
  BY <1>3, <1>4, DomainLen
<1>7. n[1].wd = m_watch["cwd"] /\ n[1].name = name
  BY <1>5
<1> QED
  BY <1>6, <1>7 DEF n

(* Whatever the user does to a settled daemon, the queue is short and its   *)
(* head reloads the file if its text may have changed.                      *)
LEMMA UserQueues ==
  ASSUME SlotsInv, ~refused, User, Settled,
         \A w \in watches : w.on \in {Cwd, file},
         ~ (file' = file /\ content' # content)
  PROVE  /\ Short(inq')
         /\ file' = Absent \/ Due(inq') \/ UNCHANGED <<file, content>>
<1> USE DEF SlotsInv, WatchInv
<1>1. inq = <<>> /\ ~ GoneNotice /\ stage = "watching"
  BY DEF Settled, GoneNotice
<1>2. /\ <<"MODIFY">> \in Seq(Masks)
      /\ <<"MOVE_SELF">> \in Seq(Masks) /\ <<"ATTRIB">> \in Seq(Masks)
      /\ <<"ATTRIB", "DELETE_SELF">> \in Seq(Masks)
      /\ <<>> \in Seq(Masks)
      /\ <<"CREATE">> \in Seq(Masks) /\ <<"MOVED_TO">> \in Seq(Masks)
      /\ {"CREATE", "MOVED_TO"} \subseteq Masks
      /\ {"", "ukc.json", "other"} \subseteq Names
  BY DEF Masks, Names
<1>3. \A n \in Seq(Event) : inq \o n = n /\ <<>> \o n = n /\ n \o <<>> = n
  BY <1>1
<1>6. /\ Len(<<"MODIFY">>) = 1
      /\ Len(<<"ATTRIB">>) = 1 /\ Len(<<"MOVE_SELF">>) = 1
      /\ <<>> \in Seq(Event) /\ Len(<<>>) = 0
  OBVIOUS
<1>7. ASSUME NEW q, Len(q) <= 1 PROVE Short(q)
  BY <1>7 DEF Short
<1>8. ASSUME NEW q, Len(q) \in {1, 2}, q[1].wd = m_watch["config"],
             q[1].mask = "ATTRIB"
      PROVE  Short(q) /\ Due(q)
  <2>1. q # <<>>
    BY <1>6, <1>8
  <2>2. Short(q)
    <3>1. CASE Len(q) = 1
      BY <1>7, <3>1
    <3>2. CASE Len(q) = 2
      BY <1>8, <3>2 DEF Short
    <3> QED
      BY <1>8, <3>1, <3>2
  <2> QED
    BY <1>8, <2>1, <2>2 DEF Due, MakesItRead
<1>9. ASSUME NEW q, Len(q) = 1, q[1].wd = m_watch["cwd"],
             q[1].name = "ukc.json"
      PROVE  Short(q) /\ Due(q)
  <2>1. q # <<>>
    BY <1>6, <1>9
  <2> QED
    BY <1>9, <2>1 DEF Short, Due, MakesItRead
<1>4. CASE m_watch["config"] # Unset
  <2>1. m_watch["cwd"] = Unset
    BY <1>4 DEF OneWatch
  <2>2. /\ Notices(Cwd, "ukc.json", <<"MOVED_TO">>) = <<>>
        /\ Notices(Cwd, "other", <<"CREATE">>) = <<>>
    BY <2>1, UnwatchedCwd
  <2>3. [wd |-> m_watch["config"], on |-> file] \in watches
    <3>1. PICK o \in shared \cup {file} : [wd |-> m_watch["config"], on |-> o] \in watches
      BY <1>1, <1>4 DEF WatchTracksFile
    <3>2. o # Cwd
      BY <3>1, WatchedIsInode
    <3> QED
      BY <3>1, <3>2
  <2>4. file \in Inodes /\ file # Absent
    BY <2>3 DEF TypeOK, Objects, Inodes, Absent, Cwd
  <2>5. \A masks \in Seq(Masks) :
          /\ Notices(file, "", masks) \in Seq(Event)
          /\ Len(Notices(file, "", masks)) = Len(masks)
          /\ \A i \in 1 .. Len(masks) :
               /\ Notices(file, "", masks)[i].wd = m_watch["config"]
               /\ Notices(file, "", masks)[i].mask = masks[i]
    BY <1>2, <2>3, <2>4, NoticesType, NoticesOfWatched
  <2>6. CASE Touch
    <3>1. inq' = Notices(file, "", <<"ATTRIB">>)
      BY <1>2, <1>3, <2>5, <2>6 DEF Touch, Change
    <3>2. Len(inq') = 1
      BY <1>2, <1>6, <2>5, <3>1
    <3>3. Short(inq')
      BY <3>2 DEF Short
    <3> QED
      BY <2>6, <3>3 DEF Touch
  <2>7. CASE Create
    BY <2>4, <2>7 DEF Create
  <2>11. CASE Write
    <3>1. inq' = Notices(file, "", <<"MODIFY">>)
      BY <1>2, <1>3, <2>5, <2>11 DEF Write, Change
    <3>2. Len(inq') = 1
      BY <1>2, <1>6, <2>5, <3>1
    <3>3. Short(inq')
      BY <3>2 DEF Short
    <3> QED
      BY <2>11, <3>3 DEF Write
  <2>8. CASE Replace \/ Remove
    <3> DEFINE masks == IF file \in shared THEN <<"ATTRIB">> ELSE <<"ATTRIB", "DELETE_SELF">>
               n == Notices(file, "", masks)
    <3>1. masks \in Seq(Masks) /\ Len(masks) \in {1, 2} /\ masks[1] = "ATTRIB"
      BY <1>2
    <3>2. n \in Seq(Event)
      BY <2>5, <3>1
    <3>3. inq' = n
      <4>0. n = EndNotices(file)
        BY DEF EndNotices
      <4> HIDE DEF n
      <4>1. CASE Replace
        <5>1. inq' = inq \o (<<>> \o n)
          BY <2>2, <4>0, <4>1 DEF Replace, Change
        <5> QED
          BY <1>3, <3>2, <5>1
      <4>2. CASE Remove
        BY <1>3, <3>2, <4>0, <4>2 DEF Remove, Change
      <4> QED
        BY <2>8, <4>1, <4>2
    <3>4. Len(n) \in {1, 2} /\ n[1].wd = m_watch["config"] /\ n[1].mask = "ATTRIB"
      <4> HIDE DEF masks
      <4>1. 1 \in 1 .. Len(masks)
        BY <3>1
      <4> QED
        BY <2>5, <3>1, <4>1
    <3> HIDE DEF n
    <3>5. Short(n) /\ Due(n)
      BY <1>8, <3>4
    <3> QED
      BY <3>3, <3>5
  <2>9. CASE MoveAway
    <3>1. inq' = Notices(file, "", <<"MOVE_SELF">>)
      BY <1>2, <1>3, <2>5, <2>9 DEF MoveAway, Change
    <3>2. Len(inq') = 1
      BY <1>2, <1>6, <2>5, <3>1
    <3>3. Short(inq')
      BY <3>2 DEF Short
    <3> QED
      BY <2>9, <3>3 DEF MoveAway
  <2>10. CASE Neighbour
    <3>1. inq' = <<>>
      BY <1>3, <1>6, <2>2, <2>10 DEF Neighbour, Change
    <3>2. Short(inq')
      BY <1>6, <1>7, <3>1
    <3> QED
      BY <2>10, <3>2 DEF Neighbour
  <2>12. CASE Share
    <3>1. <<>> \in Seq(Masks) /\ <<"ATTRIB">> \in Seq(Masks)
      BY <1>2
    <3>2. ASSUME Change(Notices(file, "", <<>>)) PROVE Short(inq')
      <4>1. inq' = Notices(file, "", <<>>)
        BY <1>3, <2>5, <3>1, <3>2 DEF Change
      <4>2. Len(inq') = 0
        BY <1>6, <2>5, <3>1, <4>1
      <4> QED
        BY <4>2 DEF Short
    <3>3. ASSUME Change(Notices(file, "", <<"ATTRIB">>)) PROVE Short(inq')
      <4>1. inq' = Notices(file, "", <<"ATTRIB">>)
        BY <1>3, <2>5, <3>1, <3>3 DEF Change
      <4>2. Len(inq') = 1
        BY <1>6, <2>5, <3>1, <4>1
      <4> QED
        BY <4>2 DEF Short
    <3>4. Short(inq')
      BY <2>12, <3>2, <3>3 DEF Share
    <3> QED
      BY <2>12, <3>4 DEF Share
  <2>13. CASE Elsewhere
    BY <2>13 DEF Elsewhere
  <2> QED
    BY <2>6, <2>7, <2>8, <2>9, <2>10, <2>11, <2>12, <2>13 DEF User
<1>5. CASE m_watch["config"] = Unset
  <2>1. m_watch["cwd"] # Unset
    BY <1>1, <1>5 DEF NeverBlind, Slots
  <2>2. /\ Notices(file, "", <<"MODIFY">>) = <<>>
        /\ Notices(file, "", <<"ATTRIB">>) = <<>>
        /\ Notices(file, "", <<"MOVE_SELF">>) = <<>>
        /\ EndNotices(file) = <<>>
        /\ Notices(file, "", <<>>) = <<>>
    BY <1>5, UnwatchedFile DEF EndNotices
  <2>3. ASSUME NEW name \in Names, NEW mask \in Masks
        PROVE  LET n == Notices(Cwd, name, <<mask>>)
               IN /\ n \in Seq(Event)
                  /\ Len(n) = 1 /\ n[1].wd = m_watch["cwd"] /\ n[1].name = name
    <3>1. <<mask>> \in Seq(Masks)
      OBVIOUS
    <3> QED
      BY <2>1, <3>1, NoticesType, WatchedCwd
  <2>4. ASSUME NEW mask \in Masks, inq' = Notices(Cwd, "ukc.json", <<mask>>)
        PROVE  Short(inq') /\ Due(inq')
    <3> DEFINE n == Notices(Cwd, "ukc.json", <<mask>>)
    <3>1. Len(n) = 1 /\ n[1].wd = m_watch["cwd"] /\ n[1].name = "ukc.json"
      BY <1>2, <2>3
    <3> HIDE DEF n
    <3>2. Short(n) /\ Due(n)
      BY <1>9, <3>1
    <3> QED
      BY <2>4, <3>2 DEF n
  <2>5. CASE Create
    <3>1. inq' = Notices(Cwd, "ukc.json", <<"CREATE">>)
      BY <1>2, <1>3, <2>3, <2>5 DEF Create, Change
    <3> QED
      BY <1>2, <2>4, <3>1
  <2>6. CASE Replace
    <3>1. Notices(Cwd, "ukc.json", <<"MOVED_TO">>) \in Seq(Event)
      BY <1>2, <2>3
    <3>2. inq' = Notices(Cwd, "ukc.json", <<"MOVED_TO">>)
      <4>1. inq' = inq \o (Notices(Cwd, "ukc.json", <<"MOVED_TO">>) \o <<>>)
        BY <2>2, <2>6 DEF Replace, Change
      <4> QED
        BY <1>3, <3>1, <4>1
    <3>3. Short(inq') /\ Due(inq')
      <4>1. "MOVED_TO" \in Masks
        BY <1>2
      <4> QED
        BY <2>4, <3>2, <4>1
    <3> QED
      BY <3>3
  <2>7. CASE Write \/ Touch \/ Share \/ MoveAway \/ Remove
    <3>1. inq' = <<>>
      <4>1. CASE Touch
        BY <1>3, <1>6, <2>2, <4>1 DEF Touch, Change
      <4>2. CASE MoveAway
        BY <1>3, <1>6, <2>2, <4>2 DEF MoveAway, Change
      <4>3. CASE Remove
        BY <1>3, <1>6, <2>2, <4>3 DEF Remove, Change
      <4>4. CASE Write
        BY <1>3, <1>6, <2>2, <4>4 DEF Write, Change
      <4>5. CASE Share
        BY <1>3, <1>6, <2>2, <4>5 DEF Share, Change
      <4> QED
        BY <2>7, <4>1, <4>2, <4>3, <4>4, <4>5
    <3>2. Short(inq')
      BY <1>6, <1>7, <3>1
    <3> QED
      BY <2>7, <3>2 DEF Write, Touch, Share, MoveAway, Remove
  <2>8. CASE Neighbour
    <3>1. inq' = Notices(Cwd, "other", <<"CREATE">>)
      BY <1>2, <1>3, <2>3, <2>8 DEF Neighbour, Change
    <3>2. Len(inq') = 1
      BY <1>2, <2>3, <3>1
    <3>3. Short(inq')
      BY <3>2 DEF Short
    <3> QED
      BY <2>8, <3>3 DEF Neighbour
  <2>9. CASE Elsewhere
    BY <2>9 DEF Elsewhere
  <2> QED
    BY <2>5, <2>6, <2>7, <2>8, <2>9 DEF User
<1> QED
  BY <1>4, <1>5

(* A file that appears under the name while the daemon is at rest puts into *)
(* its queue the notice that makes it read the file; unless a watch was     *)
(* refused or is still on an inode that has lost the name.                  *)
THEOREM HearsNewFileHolds == HSpec => HearsNewFile
<1>1. HInit => SlotsInv
  BY InitSlots
<1>2. SlotsInv /\ [HNext]_<<vars, history>> => SlotsInv'
  BY NextSlots
<1>3. SlotsInv /\ [HNext]_<<vars, history>> =>
        [/\ Settled /\ ~refused
         /\ \A w \in watches : w.on \in {Cwd, file}
         /\ file' \notin {file, Absent}
         => \E i \in 1 .. Len(inq') : MakesItRead(inq'[i])]_<<vars, history>>
  <2> SUFFICES ASSUME SlotsInv, [HNext]_<<vars, history>>, Settled, ~refused,
                      \A w \in watches : w.on \in {Cwd, file},
                      file' \notin {file, Absent}
               PROVE  \E i \in 1 .. Len(inq') : MakesItRead(inq'[i])
    OBVIOUS
  <2>1. User
    BY DEF HNext, vars, Daemon, FirstRead, EnterLoop, createWatchConfig,
       createWatchCwd, HandleEvent, processConfigChange, fsVars
  <2>2. Due(inq')
    BY <2>1, UserQueues
  <2>3. inq' \in Seq(Event)
    BY <2>1, UserType DEF SlotsInv, WatchInv, TypeOK
  <2>4. 1 \in 1 .. Len(inq')
    BY <2>2, <2>3 DEF Due
  <2> QED
    BY <2>2, <2>4 DEF Due
<1> QED
  BY <1>1, <1>2, <1>3, PTL DEF HSpec, HearsNewFile
-----------------------------------------------------------------------------
LEMMA CalmDaemon ==
  ASSUME WatchInv, ShortQueue, LoadedOrDue, Daemon
  PROVE  ShortQueue' /\ LoadedOrDue'
<1> USE DEF WatchInv
<1>1. UNCHANGED <<file, content>>
  BY DEF Daemon, FirstRead, EnterLoop, createWatchConfig, createWatchCwd,
         HandleEvent, processConfigChange, fsVars
<1>2. inq' = <<>> => Short(inq)'
  <2>1. Len(<<>>) = 0
    OBVIOUS
  <2> QED
    BY <2>1 DEF Short
<1>3. CASE FirstRead
  <2>1. inq' = <<>> /\ stage' \in {"read", "dead"} /\ m_profiles' = Loaded(content)
    BY <1>3 DEF FirstRead, reloadConfig, ShortQueue
  <2> QED
    BY <1>1, <1>2, <2>1 DEF ShortQueue, LoadedOrDue, Loaded
<1>4. CASE EnterLoop \/ createWatchConfig \/ createWatchCwd
  <2>1. inq = <<>> /\ UNCHANGED <<inq, m_profiles>> /\ stage \notin {"boot", "dead"}
    BY <1>4 DEF EnterLoop, createWatchConfig, createWatchCwd, ShortQueue
  <2>2. m_profiles = Loaded(content) \/ file = Absent
    BY <2>1 DEF LoadedOrDue, Due
  <2> QED
    BY <1>1, <1>2, <2>1, <2>2 DEF ShortQueue, LoadedOrDue, Loaded
<1>5. CASE HandleEvent
  <2> DEFINE e == Head(inq)
  <2>1. /\ inq \in Seq(Event) /\ inq # <<>> /\ inq' = Tail(inq)
        /\ stage = "watching" /\ e.wd # Unset
    BY <1>5, HeadType DEF HandleEvent, processConfigChange, TypeOK
  <2>2. e = inq[1] /\ Len(inq) \in Nat \ {0} /\ Len(inq') = Len(inq) - 1
    BY <2>1
  <2>3. Short(inq)
    BY <2>1 DEF ShortQueue
  <2>4. Short(inq)'
    <3>1. Len(inq') <= 1
      BY <2>2, <2>3 DEF Short
    <3> QED
      BY <3>1 DEF Short
  <2>5. ~ (e.wd = m_watch["config"] /\ e.mask = "ATTRIB") => inq' = <<>>
    <3>1. SUFFICES ASSUME ~ (e.wd = m_watch["config"] /\ e.mask = "ATTRIB")
                   PROVE  inq' = <<>>
      OBVIOUS
    <3>2. Len(inq) = 1
      BY <2>2, <2>3, <3>1 DEF Short
    <3> QED
      BY <2>1, <3>2
  <2>6. CASE AttributesChanged(e)
    <3>1. m_profiles' = Loaded(content) /\ stage' \in {"watching", "dead"}
      BY <2>6 DEF AttributesChanged, reloadConfig
    <3> QED
      BY <1>1, <2>4, <3>1 DEF ShortQueue, LoadedOrDue, Loaded
  <2>7. CASE SelfGone(e)
    <3>1. inq' = <<>>
      BY <2>5, <2>7 DEF SelfGone
    <3>2. ~ MakesItRead(e)
      BY <2>1, <2>7 DEF SelfGone, MakesItRead, OneWatch
    <3>3. m_profiles = Loaded(content) \/ file = Absent
      BY <2>1, <2>2, <3>2 DEF LoadedOrDue, Due
    <3> QED
      BY <1>1, <1>2, <2>7, <3>1, <3>3
      DEF SelfGone, ShortQueue, LoadedOrDue, Loaded
  <2>8. CASE Appeared(e)
    <3>1. inq' = <<>>
      BY <2>1, <2>5, <2>8 DEF Appeared, OneWatch
    <3>2. m_profiles' = Loaded(content)
      BY <2>8 DEF Appeared, reloadConfig
    <3> QED
      BY <1>1, <1>2, <3>1, <3>2 DEF ShortQueue, LoadedOrDue, Loaded
  <2>9. CASE Ignored(e)
    <3>1. ~ MakesItRead(e)
      BY <2>9 DEF Ignored, MakesItRead
    <3>2. m_profiles = Loaded(content) \/ file = Absent
      BY <2>1, <2>2, <3>1 DEF LoadedOrDue, Due
    <3>3. inq' = <<>>
      BY <2>5, <2>9 DEF Ignored
    <3> QED
      BY <1>1, <1>2, <2>9, <3>2, <3>3
      DEF Ignored, ShortQueue, LoadedOrDue, Loaded
  <2> QED
    BY <1>5, <2>6, <2>7, <2>8, <2>9 DEF HandleEvent, processConfigChange
<1> QED
  BY <1>3, <1>4, <1>5 DEF Daemon

LEMMA CalmUser ==
  ASSUME SlotsInv, ShortQueue, LoadedOrDue, User, Remember, Calm'
  PROVE  ShortQueue' /\ LoadedOrDue'
<1>1. Changed
  <2>1. ops' = ops + 1
    BY UserLeaves
  <2>2. ops \in 0 .. MaxOps
    BY DEF SlotsInv, WatchInv, TypeOK
  <2> QED
    BY <2>1, <2>2 DEF Changed
<1>2. Settled /\ ~ (file' = file /\ content' # content) /\ ~refused
  BY <1>1, Zenon DEF Remember, Calm
<1>3. stage = "watching" /\ inq = <<>>
  BY <1>2 DEF Settled
<1>4. UNCHANGED <<m_watch, stage, m_profiles>>
  BY UserLeaves
<1>8. \A w \in watches : w.on \in {Cwd, file}
  BY <1>2, <1>3, HistoryGrows DEF SlotsInv, WatchOnFile, GoneNotice, Calm
<1>5. Short(inq') /\ (file' = Absent \/ Due(inq') \/ UNCHANGED <<file, content>>)
  BY <1>2, <1>8, UserQueues
<1>6. m_profiles = Loaded(content) \/ file = Absent
  BY <1>3 DEF LoadedOrDue, Due
<1>7. Short(inq)' /\ (Due(inq') => Due(inq)')
  BY <1>4, <1>5 DEF Short, Due, MakesItRead
<1> QED
  BY <1>3, <1>4, <1>5, <1>6, <1>7 DEF ShortQueue, LoadedOrDue

LEMMA NextCalm ==
  ASSUME CalmInv, [HNext]_<<vars, history>>
  PROVE  CalmInv'
<1>1. SlotsInv'
  BY NextSlots DEF CalmInv
<1>2. SUFFICES ASSUME Calm' PROVE ShortQueue' /\ LoadedOrDue'
  BY <1>1 DEF CalmInv
<1>3. CASE Daemon /\ Remember
  BY <1>2, <1>3, CalmDaemon, HistoryGrows DEF CalmInv, SlotsInv
<1>4. CASE User /\ Remember
  BY <1>2, <1>4, CalmUser, HistoryGrows DEF CalmInv
<1>5. CASE UNCHANGED <<vars, history>>
  <2>1. Calm
    BY <1>2, <1>5 DEF Calm, history
  <2> QED
    BY <1>5, <2>1
    DEF vars, CalmInv, ShortQueue, LoadedOrDue, Short, Due, MakesItRead
<1> QED
  BY <1>3, <1>4, <1>5 DEF HNext

LEMMA InitCalm == HInit => CalmInv
  BY InitSlots DEF HInit, Init, CalmInv, ShortQueue, Short, LoadedOrDue

(* README:29-30, "watches the config file, reload it automatically", for    *)
(* the user and the kernel of this module's heading: whenever the daemon    *)
(* has handled every event and ukc.json exists, the profiles in force are   *)
(* the ones in it.                                                          *)
THEOREM FileIsLoadedWhenCalm == HSpec => []FileIsLoaded
<1>1. HInit => CalmInv
  BY InitCalm
<1>2. CalmInv /\ [HNext]_<<vars, history>> => CalmInv'
  BY NextCalm
<1>3. CalmInv => FileIsLoaded
  BY DEF CalmInv, Calm, LoadedOrDue, Due, FileIsLoaded, Settled
<1> QED
  BY <1>1, <1>2, <1>3, PTL DEF HSpec

-----------------------------------------------------------------------------
(* Where nothing can go wrong: the user waits and never writes the file in  *)
(* place, nothing else has the file, and the kernel grants every watch.     *)
Patient == Paced /\ ~WatchFaults /\ {"write", "share"} \cap FileOps = {}

NothingWrong ==
  hasty = FALSE /\ written = FALSE /\ refused = FALSE /\ orphaned = FALSE

(* Nothing outlives its name. *)
Unshared == shared = {}

(* A file that appears is a new inode.                                      *)
Numbered == file # Absent => file <= ops + 1

LEMMA NextNumbered ==
  ASSUME TypeOK, Numbered, [Next]_vars
  PROVE  Numbered'
<1>1. ops \in Nat /\ (file # Absent => file \in Nat)
  BY ConfigWatchAssumption DEF TypeOK, Inodes
<1>2. CASE Daemon
  <2>1. UNCHANGED <<file, ops>>
    BY <1>2 DEF Daemon, FirstRead, EnterLoop, createWatchConfig, createWatchCwd,
       HandleEvent, processConfigChange, fsVars
  <2> QED
    BY <2>1 DEF Numbered
<1>3. CASE User
  <2>1. ops' = ops + 1 /\ file' \in {file, Absent, ops + 2}
    BY <1>3 DEF User, Write, Touch, Share, Create, Replace, MoveAway, Remove,
       Elsewhere, Neighbour, Change
  <2> QED
    BY <1>1, <2>1 DEF Numbered
<1>4. CASE UNCHANGED vars
  BY <1>4 DEF vars, Numbered
<1> QED
  BY <1>2, <1>3, <1>4 DEF Next

LEMMA NextUnshared ==
  ASSUME Patient, Unshared, [Next]_vars
  PROVE  Unshared'
BY DEF Patient, Unshared, Next, vars, Daemon, FirstRead, EnterLoop,
   createWatchConfig, createWatchCwd, HandleEvent, processConfigChange, fsVars,
   User, Write, Touch, Share, Create, Replace, MoveAway, Remove, Elsewhere,
   Neighbour, MayDo

(* The daemon refuses itself no watch.                                      *)
LEMMA DaemonRemembers ==
  ASSUME Patient, TypeOK, Unshared, NothingWrong, Daemon, UNCHANGED history
  PROVE  Remember
<1>1. ~Changed
  BY DEF Daemon, FirstRead, EnterLoop, createWatchConfig, createWatchCwd,
     HandleEvent, processConfigChange, fsVars, Changed
<1>2. ~ (stage = "watchConfig" /\ stage' = "watchCwd" /\ file # Absent)
  BY DEF Patient, Daemon, FirstRead, EnterLoop, createWatchConfig,
     createWatchCwd, HandleEvent, processConfigChange
<1>3. ~ (stage = "watchCwd" /\ stage' = "watching" /\ m_watch'["cwd"] = Unset)
  <2> SUFFICES ASSUME stage = "watchCwd" PROVE m_watch'["cwd"] # Unset
    OBVIOUS
  <2>1. AddWatch("cwd", Cwd)
    BY DEF Patient, Daemon, FirstRead, EnterLoop, createWatchConfig,
       createWatchCwd, HandleEvent, processConfigChange
  <2>2. PICK wd \in 1 .. lastWd + 1 : m_watch' = [m_watch EXCEPT !["cwd"] = wd]
    BY <2>1 DEF AddWatch
  <2>3. wd # Unset /\ m_watch'["cwd"] = wd
    BY <2>2 DEF TypeOK, Slots, Unset
  <2> QED
    BY <2>3
<1>4. /\ hasty' = FALSE /\ written' = FALSE /\ refused' = FALSE
      /\ orphaned' = FALSE
  BY DEF NothingWrong, history
<1> QED
  BY <1>1, <1>2, <1>3, <1>4 DEF Remember, NothingWrong, Unshared

(* Nor does the user surprise it.                                           *)
LEMMA UserRemembers ==
  ASSUME Patient, TypeOK, Numbered, Unshared, NothingWrong, User, UNCHANGED history
  PROVE  Remember
<1>1. Settled
  BY DEF Patient, User, Write, Touch, Share, Create, Replace, MoveAway, Remove,
     Elsewhere, Neighbour, MayDo
<1>2. ~ (file' = file /\ content' # content)
  <2>1. ~Write
    BY DEF Patient, Write, MayDo
  <2>2. ops \in Nat /\ (file # Absent => file \in Nat) /\ Absent = -1
    BY ConfigWatchAssumption DEF TypeOK, Inodes, Absent
  <2>3. file # ops + 2
    BY <2>2 DEF Numbered
  <2> QED
    BY <2>1, <2>3 DEF User, Touch, Share, Create, Replace, MoveAway, Remove,
       Elsewhere, Neighbour
<1>3. stage' = stage
  BY UserLeaves
<1>4. /\ hasty' = FALSE /\ written' = FALSE /\ refused' = FALSE
      /\ orphaned' = FALSE
  BY DEF NothingWrong, history
<1> QED
  BY <1>1, <1>2, <1>3, <1>4 DEF Remember, NothingWrong, Unshared

LEMMA StaysCalm ==
  ASSUME Patient, TypeOK, Numbered, Unshared, NothingWrong, [Next]_vars, UNCHANGED history
  PROVE  [HNext]_<<vars, history>>
BY DaemonRemembers, UserRemembers DEF Next, HNext
=============================================================================

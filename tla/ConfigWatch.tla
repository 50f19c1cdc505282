---------------------------- MODULE ConfigWatch ----------------------------
(***************************************************************************)
(* How the daemon follows its configuration file ukc.json: the part of     *)
(* MainLoop (src/core/MainLoop.cpp) that reads the file into m_profiles    *)
(* and keeps one inotify watch alive, on the file while it exists and on   *)
(* the working directory while it does not.                                *)
(*                                                                         *)
(* The file system, the kernel's inotify instance and the user who edits   *)
(* the file are the environment.  A file is an inode; every file that      *)
(* appears under the name ukc.json is a new inode, so a watch on the old   *)
(* one says nothing of the new one.  An inode that has another name or is  *)
(* open somewhere outlives the loss of its name, and so does its watch.    *)
(* An old inode that gets the name back counts as a new one; the notice    *)
(* its watch gives then is one of Elsewhere's.  IN_CLOSE_WRITE always      *)
(* comes with an IN_MODIFY here and is folded into it; IN_IGNORED (no      *)
(* handler reads it) and the kernel's merging of equal neighbouring events *)
(* are left out.                                                           *)
(***************************************************************************)
EXTENDS Integers, Sequences, FiniteSets

CONSTANTS
  ProfileLists,  \* the profile lists a good ukc.json can hold
  NoProfiles,    \* the empty list, what m_profiles holds after a failed read
  Unreadable,    \* no file, or one the JSON parser refuses
  Incomplete,    \* JSON that lacks a key Profile::read requires
  FileOps,       \* the kinds of change the user may make
  MaxOps,        \* bound on the number of changes
  Paced,         \* TRUE: the user waits until a change has been digested
  WatchFaults    \* TRUE: inotify_add_watch may fail (ENOSPC)

Absent == -1     \* in place of an inode number: no such file
Unset == -1      \* a slot of m_watch that holds no watch descriptor
Cwd == 0         \* the inode of the working directory
Inodes == 1 .. MaxOps + 1
Contents == ProfileLists \cup {Unreadable, Incomplete}

FileOpKinds ==
  {"write", "touch", "share", "create", "replace", "moveaway", "remove",
   "elsewhere", "neighbour"}

ASSUME ConfigWatchAssumption ==
  /\ NoProfiles \in ProfileLists
  /\ Unreadable \notin ProfileLists
  /\ Incomplete \notin ProfileLists
  /\ Unreadable # Incomplete
  /\ FileOps \subseteq FileOpKinds
  /\ MaxOps \in Nat
  /\ Paced \in BOOLEAN
  /\ WatchFaults \in BOOLEAN

VARIABLES
  file,        \* inode of ukc.json in the working directory, or Absent
  content,     \* what reading ukc.json gives
  shared,      \* the inodes with another name, or open in some program
  ops,         \* changes made so far
  m_watch,     \* the daemon's descriptors for the file and for the directory
  watches,     \* the kernel's watches: descriptor and watched object
  lastWd,      \* last descriptor the kernel handed out; 1 is /dev/input's
  inq,         \* events queued on the inotify descriptor, oldest first
  m_profiles,  \* the profiles in force
  stage        \* where the daemon is, see Stages

fsVars == <<file, content, shared, ops>>
watchVars == <<m_watch, watches, lastWd>>
vars == <<file, content, shared, ops, m_watch, watches, lastWd, inq, m_profiles,
          stage>>

Slots == {"config", "cwd"}
Objects == {Cwd} \cup Inodes   \* what a watch can sit on
Stages == {"boot", "read", "watchConfig", "watchCwd", "watching", "dead"}
Masks == {"MODIFY", "ATTRIB", "MOVE_SELF", "DELETE_SELF", "CREATE", "MOVED_TO"}
Names == {"", "ukc.json", "other"}
Event == [wd : Nat \ {0, 1}, mask : Masks, name : Names]

-----------------------------------------------------------------------------
(* What the kernel does. *)

WatchOn(o) == {w \in watches : w.on = o}

(* The events a change of object o queues: one per mask, none if unwatched. *)
Notices(o, name, masks) ==
  IF WatchOn(o) = {} THEN <<>>
  ELSE LET w == CHOOSE w \in WatchOn(o) : TRUE
       IN [i \in 1 .. Len(masks) |->
             [wd |-> w.wd, mask |-> masks[i], name |-> name]]

(* inotify_add_watch: the descriptor the object has, or the next one. *)
AddWatch(slot, o) ==
  \E wd \in 1 .. lastWd + 1 :
    /\ IF WatchOn(o) = {} THEN wd = lastWd + 1
                          ELSE [wd |-> wd, on |-> o] \in watches
    /\ m_watch' = [m_watch EXCEPT ![slot] = wd]
    /\ watches' = watches \cup {[wd |-> wd, on |-> o]}
    /\ lastWd' = IF wd > lastWd THEN wd ELSE lastWd

(* Mutant: the slot keeps the descriptor.                                   *)
RemoveWatchKeepsSlot(slot) ==
  /\ watches' = {w \in watches : w.wd # m_watch[slot]}
  /\ UNCHANGED <<m_watch, lastWd>>

(* Mutant: no inotify_rm_watch.                                             *)
RemoveWatchLeaks(slot) ==
  /\ m_watch' = [m_watch EXCEPT ![slot] = Unset]
  /\ UNCHANGED <<watches, lastWd>>

(* inotify_rm_watch and the reset of the slot; a watch the kernel has       *)
(* already dropped makes the call fail, which the code only logs.           *)
RemoveWatch(slot) ==
  /\ watches' = {w \in watches : w.wd # m_watch[slot]}
  /\ m_watch' = [m_watch EXCEPT ![slot] = Unset]
  /\ UNCHANGED lastWd

-----------------------------------------------------------------------------
(* What the daemon does. *)

LoadedUnchecked(c) == c      \* mutant: no catch, whatever was read is kept

Loaded(c) == IF c \in ProfileLists THEN c ELSE NoProfiles

(* reloadConfig: clear, read, and keep the result; a json_parser_error is   *)
(* caught and leaves the list empty, the error of a missing key is not      *)
(* caught and ends the process.  next is where a good read goes on, failed  *)
(* where the catch block does.                                              *)
reloadConfig(next, failed) ==
  /\ m_profiles' = Loaded(content)
  /\ stage' = CASE content = Incomplete -> "dead"
                [] content = Unreadable -> failed
                [] OTHER -> next

(* start: the first read, before anything is watched. *)
FirstRead ==
  /\ stage = "boot"
  /\ reloadConfig("read", "read")
  /\ UNCHANGED <<fsVars, watchVars, inq>>

(* enterLoop: the watches come after the device scan. *)
EnterLoop ==
  /\ stage = "read"
  /\ stage' = "watchConfig"
  /\ UNCHANGED <<fsVars, watchVars, inq, m_profiles>>

(* Mutant: no fall back to the directory.                                   *)
createWatchConfigOnly ==
  /\ stage = "watchConfig"
  /\ \/ file # Absent /\ AddWatch("config", file)
     \/ file = Absent /\ UNCHANGED watchVars
  /\ stage' = "watching"
  /\ UNCHANGED <<fsVars, inq, m_profiles>>

(* createWatchConfig; when the file is gone it falls back to the directory. *)
createWatchConfig ==
  /\ stage = "watchConfig"
  /\ \/ /\ file # Absent
        /\ AddWatch("config", file)
        /\ stage' = "watching"
     \/ /\ file = Absent \/ WatchFaults
        /\ m_watch' = [m_watch EXCEPT !["config"] = Unset]
        /\ stage' = "watchCwd"
        /\ UNCHANGED <<watches, lastWd>>
  /\ UNCHANGED <<fsVars, inq, m_profiles>>

createWatchCwd ==
  /\ stage = "watchCwd"
  /\ \/ AddWatch("cwd", Cwd)
     \/ /\ WatchFaults
        /\ m_watch' = [m_watch EXCEPT !["cwd"] = Unset]
        /\ UNCHANGED <<watches, lastWd>>
  /\ stage' = "watching"
  /\ UNCHANGED <<fsVars, inq, m_profiles>>

(* processConfigChange, one operator per way through it.  What they do to   *)
(* the queue is left to the caller.                                         *)

(* Mutant: the handler forgets to reload.                                   *)
AttributesChangedIdle(e) ==
  /\ e.wd = m_watch["config"]
  /\ e.mask = "ATTRIB"
  /\ UNCHANGED <<watchVars, m_profiles, stage>>

(* The watched file's attributes changed: the only reload in config mode.   *)
AttributesChanged(e) ==
  /\ e.wd = m_watch["config"]
  /\ e.mask = "ATTRIB"
  /\ reloadConfig("watching", "watching")
  /\ UNCHANGED watchVars

(* The watched file left its name: watch the directory instead. *)
SelfGone(e) ==
  /\ e.wd = m_watch["config"]
  /\ e.mask \in {"MOVE_SELF", "DELETE_SELF"}
  /\ RemoveWatch("config")
  /\ stage' = "watchCwd"
  /\ UNCHANGED m_profiles

(* Mutant: a file that cannot be read yet is not waited for.                *)
AppearedGivesUp(e) ==
  /\ e.wd = m_watch["cwd"]
  /\ e.name = "ukc.json"
  /\ RemoveWatch("cwd")
  /\ reloadConfig("watchConfig", "watching")

(* ukc.json appeared in the directory: read it, then watch it. *)
Appeared(e) ==
  /\ e.wd = m_watch["cwd"]
  /\ e.name = "ukc.json"
  /\ RemoveWatch("cwd")
  /\ reloadConfig("watchConfig", "watchCwd")

(* Every other event falls through processConfigChange without effect. *)
Ignored(e) ==
  /\ ~ (e.wd = m_watch["config"]
          /\ e.mask \in {"ATTRIB", "MOVE_SELF", "DELETE_SELF"})
  /\ ~ (e.wd = m_watch["cwd"] /\ e.name = "ukc.json")
  /\ UNCHANGED <<watchVars, m_profiles, stage>>

(* Mutant: IN_MOVE_SELF is not handled.                                     *)
processConfigChangeStays(e) ==
  /\ stage = "watching"
  /\ UNCHANGED fsVars
  /\ \/ AttributesChanged(e)
     \/ e.mask # "MOVE_SELF" /\ SelfGone(e)
     \/ e.mask = "MOVE_SELF" /\ UNCHANGED <<watchVars, m_profiles, stage>>
     \/ Appeared(e)
     \/ Ignored(e)

processConfigChange(e) ==
  /\ stage = "watching"
  /\ UNCHANGED fsVars
  /\ \/ AttributesChanged(e)
     \/ SelfGone(e)
     \/ Appeared(e)
     \/ Ignored(e)

(* processInotify, for an event of the file or of the directory. *)
HandleEvent ==
  /\ inq # <<>>
  /\ processConfigChange(Head(inq))
  /\ inq' = Tail(inq)

Daemon ==
  FirstRead \/ EnterLoop \/ createWatchConfig \/ createWatchCwd \/ HandleEvent

-----------------------------------------------------------------------------
(* What the user does to the file. *)

Settled == stage = "watching" /\ inq = <<>>

MayDo(op) ==
  /\ op \in FileOps
  /\ ops < MaxOps
  /\ Paced => Settled

(* What every change leaves alone; queued is what it adds to the queue. *)
Change(queued) ==
  /\ ops' = ops + 1
  /\ inq' = inq \o queued
  /\ UNCHANGED <<m_watch, lastWd, m_profiles, stage>>

(* An inode that loses its last name and descriptor is gone for good, and   *)
(* its watch with it; otherwise only its count of links has changed.        *)
EndNotices(o) ==
  Notices(o, "", IF o \in shared THEN <<"ATTRIB">> ELSE <<"ATTRIB", "DELETE_SELF">>)

WatchesAfter(o) == IF o \in shared THEN watches ELSE watches \ WatchOn(o)

(* An editor that writes the file in place. *)
Write ==
  /\ MayDo("write")
  /\ file # Absent
  /\ content' \in Contents
  /\ Change(Notices(file, "", <<"MODIFY">>))
  /\ UNCHANGED <<file, shared, watches>>

(* chmod, touch: the content stays. *)
Touch ==
  /\ MayDo("touch")
  /\ file # Absent
  /\ Change(Notices(file, "", <<"ATTRIB">>))
  /\ UNCHANGED <<file, content, shared, watches>>

(* The file gets a second name or loses it (IN_ATTRIB: the count of links), *)
(* or a program opens or closes it, which nobody subscribed to.             *)
Share ==
  /\ MayDo("share")
  /\ file # Absent
  /\ shared' = IF file \in shared THEN shared \ {file} ELSE shared \cup {file}
  /\ \E masks \in {<<>>, <<"ATTRIB">>} : Change(Notices(file, "", masks))
  /\ UNCHANGED <<file, content, watches>>

(* open(O_CREAT): the file appears empty, its text comes with a Write. *)
Create ==
  /\ MayDo("create")
  /\ file = Absent
  /\ file' = ops + 2
  /\ content' = Unreadable
  /\ Change(Notices(Cwd, "ukc.json", <<"CREATE">>))
  /\ UNCHANGED <<shared, watches>>

(* rename() of a finished file onto the name. *)
Replace ==
  /\ MayDo("replace")
  /\ file' = ops + 2
  /\ content' \in Contents
  /\ Change(Notices(Cwd, "ukc.json", <<"MOVED_TO">>) \o EndNotices(file))
  /\ watches' = WatchesAfter(file)
  /\ UNCHANGED shared

MoveAway ==
  /\ MayDo("moveaway")
  /\ file # Absent
  /\ file' = Absent
  /\ content' = Unreadable
  /\ Change(Notices(file, "", <<"MOVE_SELF">>))
  /\ UNCHANGED <<shared, watches>>

Remove ==
  /\ MayDo("remove")
  /\ file # Absent
  /\ file' = Absent
  /\ content' = Unreadable
  /\ Change(EndNotices(file))
  /\ watches' = WatchesAfter(file)
  /\ UNCHANGED shared

(* An inode the daemon still watches, although it has lost the name, is     *)
(* changed, or comes to its end.                                            *)
Elsewhere ==
  /\ MayDo("elsewhere")
  /\ \E w \in watches :
       /\ w.on \notin {Cwd, file}
       /\ \/ /\ \E mask \in {"MODIFY", "ATTRIB", "MOVE_SELF"} :
                  Change(Notices(w.on, "", <<mask>>))
             /\ UNCHANGED <<shared, watches>>
          \/ /\ \E masks \in {<<"DELETE_SELF">>, <<"ATTRIB", "DELETE_SELF">>} :
                  Change(Notices(w.on, "", masks))
             /\ shared' = shared \ {w.on}
             /\ watches' = watches \ WatchOn(w.on)
  /\ UNCHANGED <<file, content>>

(* Some other file appears in the directory. *)
Neighbour ==
  /\ MayDo("neighbour")
  /\ Change(Notices(Cwd, "other", <<"CREATE">>))
  /\ UNCHANGED <<file, content, shared, watches>>

User ==
  \/ Write \/ Touch \/ Share
  \/ Create \/ Replace \/ MoveAway \/ Remove
  \/ Elsewhere \/ Neighbour

-----------------------------------------------------------------------------
Init ==
  /\ \/ file = Absent /\ content = Unreadable
     \/ file = 1 /\ content \in Contents
  /\ shared \in SUBSET (IF "share" \in FileOps THEN {file} \ {Absent} ELSE {})
  /\ ops = 0
  /\ m_watch = [s \in Slots |-> Unset]
  /\ watches = {}
  /\ lastWd = 1
  /\ inq = <<>>
  /\ m_profiles = NoProfiles
  /\ stage = "boot"

Next == Daemon \/ User

Spec == Init /\ [][Next]_vars

-----------------------------------------------------------------------------
(* Properties. *)

(* The values of every variable. *)
TypeOK ==
  /\ file \in Inodes \cup {Absent}
  /\ content \in Contents
  /\ shared \subseteq Inodes
  /\ ops \in 0 .. MaxOps
  /\ m_watch \in [Slots -> (Nat \ {0, 1}) \cup {Unset}]
  /\ watches \subseteq [wd : Nat \ {0, 1}, on : Objects]
  /\ lastWd \in Nat \ {0}
  /\ inq \in Seq(Event)
  /\ m_profiles \in ProfileLists
  /\ stage \in Stages

(* "config/cwd only one will be active" (MainLoop.hpp:88): the daemon never *)
(* holds both watches, and it holds the slot it is about to fill empty, so  *)
(* the assertions of createWatchConfig and createWatchCwd never fail.       *)
OneWatch ==
  /\ m_watch["config"] = Unset \/ m_watch["cwd"] = Unset
  /\ stage # "watching" => m_watch = [s \in Slots |-> Unset]
                             \/ stage = "dead"

(* No watch leaks: every watch the kernel still has is the one the daemon's *)
(* slot names, on the kind of object that slot is for.                      *)
NoLeakedWatch ==
  \A w \in watches :
    w.wd = m_watch[IF w.on = Cwd THEN "cwd" ELSE "config"]

(* A daemon that watches a file and has no notice from it in the queue      *)
(* watches the file that has the name now; one that was moved, replaced or  *)
(* removed only as long as another name or an open descriptor keeps it.     *)
WatchIsCurrent ==
  (/\ stage = "watching"
   /\ m_watch["config"] # Unset
   /\ ~ \E i \in 1 .. Len(inq) : inq[i].wd = m_watch["config"])
  => \E w \in watches : /\ w.wd = m_watch["config"]
                        /\ w.on # Cwd
                        /\ w.on \in shared \cup {file}
=============================================================================

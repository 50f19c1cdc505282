---------------------------- MODULE ConfigReload ----------------------------
(***************************************************************************)
(* ConfigWatch seen over time: when are the profiles in force the ones in  *)
(* the file?  Four history variables remember what has gone wrong outside  *)
(* the daemon so far; no action of the program or of its user reads them.  *)
(***************************************************************************)
EXTENDS ConfigWatch

VARIABLES
  hasty,    \* the user made a change before the last one was handled
  written,  \* the user changed the text of the file in place
  refused,  \* the kernel refused a watch on something that exists
  orphaned  \* the watched file lost the name but something else keeps it

history == <<hasty, written, refused, orphaned>>

Changed == ops' # ops

Remember ==
  /\ hasty' = (hasty \/ (Changed /\ ~Settled))
  /\ written' = (written \/ (Changed /\ file' = file /\ content' # content))
  /\ refused' =
       \/ refused
       \/ stage = "watchConfig" /\ stage' = "watchCwd" /\ file # Absent
       \/ stage = "watchCwd" /\ stage' = "watching" /\ m_watch'["cwd"] = Unset
  /\ orphaned' =
       (orphaned \/ (WatchOn(file) # {} /\ file \in shared /\ (Replace \/ Remove)))

HInit ==
  /\ Init
  /\ hasty = FALSE /\ written = FALSE /\ refused = FALSE /\ orphaned = FALSE

HNext == (Daemon \/ User) /\ Remember

HSpec == HInit /\ [][HNext]_<<vars, history>>

-----------------------------------------------------------------------------
(* Properties. *)

(* The event that makes the daemon read the file.                           *)
MakesItRead(e) ==
  \/ e.wd = m_watch["config"] /\ e.mask = "ATTRIB"
  \/ e.wd = m_watch["cwd"] /\ e.name = "ukc.json"

(* README:100, "config file is monitored by inotify": a file that appears   *)
(* under the name while the daemon is at rest, in place of another or of    *)
(* none, puts a notice into its queue that makes it read the file, however  *)
(* the daemon has come to the watch it holds; unless a watch was refused or *)
(* is still on an inode that has lost the name.                             *)
HearsNewFile ==
  [][/\ Settled /\ ~refused
     /\ \A w \in watches : w.on \in {Cwd, file}
     /\ file' \notin {file, Absent}
     => \E i \in 1 .. Len(inq') : MakesItRead(inq'[i])]_<<vars, history>>

(* The thread comes back to its inotify descriptor again and again.  A      *)
(* device that never stops typing can keep it from that: processEvent reads *)
(* on until nothing is left.                                                *)
Attended == WF_vars(Daemon)

(* README:100-101, "if it's not exist, moved or deleted ... will auto turn  *)
(* to monitor PWD": a file that stays away leaves the daemon watching the   *)
(* directory, unless it has died of a bad file, or something else keeps the *)
(* watched file, whose end is then never announced.                         *)
TurnsToCwd ==
  /\ Attended
  /\ <>[](file = Absent)
  /\ []~refused /\ []~orphaned
  => <>[](stage = "dead" \/ (Settled /\ m_watch["cwd"] # Unset))

(* README:29-30, "watches the config file, reload it automatically": with   *)
(* no notice left to handle, what is in force is what the file says, for a  *)
(* user who lets each change be handled before the next, never writes the   *)
(* file in place and never replaces or removes it while the daemon's watch  *)
(* would outlive that, and as long as no watch is refused.                  *)
FileIsLoaded ==
  ~hasty /\ ~written /\ ~refused /\ ~orphaned =>
    (Settled /\ file # Absent => m_profiles = Loaded(content))
=============================================================================

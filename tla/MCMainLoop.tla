----------------------------- MODULE MCMainLoop -----------------------------
(* Constants of the model-checking runs of MainLoop. *)
EXTENDS MainLoop

CONSTANTS mouse, kbd, free, virtual, unreadable, incomplete

MCDevices == {mouse, kbd}
MCShadowed == {mouse}

Matched(m, k, v) ==
  [d \in MCDevices \cup {virtual} |->
     CASE d = mouse -> m [] d = kbd -> k [] d = virtual -> v]

MCNoProfiles == Matched("unmatched", "unmatched", "unmatched")
MCProfileLists == {MCNoProfiles, Matched("all", "all", "all")}
Renames == {"replace", "moveaway", "remove"}
OnlyReplace == {"replace"}
NoOps == {}
=============================================================================

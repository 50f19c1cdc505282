--------------------------- MODULE MCConfigReload ---------------------------
(* Constants of the model-checking runs of ConfigReload. *)
EXTENDS ConfigReload

CONSTANTS noProfiles, profilesA, unreadable, incomplete

MCProfileLists == {noProfiles, profilesA}
AllOps == FileOpKinds
=============================================================================

--------------------------- MODULE MCDeviceTable ---------------------------
(* Constants of the model-checking runs of DeviceTable: a mouse, which has  *)
(* more than keys, and a keyboard.                                          *)
EXTENDS DeviceTable

CONSTANTS mouse, kbd, free, virtual

MCDevices == {mouse, kbd}
MCShadowed == {mouse}

Matched(m, k, v) ==
  [d \in MCDevices \cup {virtual} |->
     CASE d = mouse -> m [] d = kbd -> k [] d = virtual -> v]

(* An ALL matcher, and a profile for the mouse's buttons. *)
MCProfileLists ==
  {Matched("all", "all", "all"),
   Matched("keys", "unmatched", "unmatched")}
=============================================================================

---------------------------- MODULE MCKeyRouting ----------------------------
(* Constants of the model-checking runs of KeyRouting. *)
EXTENDS KeyRouting

CONSTANTS left, right, a, b, reserved, badName, mouseTypo, unmatched, noDevice

To(k, t) == [fromKey |-> k, toKey |-> t]
Use(maps, dropOther, dropUnmapped) ==
  [keyMaps |-> maps, disableNonKeyEvent |-> dropOther,
   disableUnmappedKey |-> dropUnmapped]

(* Nothing mapped; two maps for one key, a bad one, one to KEY_RESERVED.    *)
Plain == Use(<<>>, FALSE, FALSE)
Swapped ==
  Use(<<To(a, "MOUSE_X_NEG"), To(a, b), To(b, a), To(badName, a)>>, TRUE, FALSE)
Passed == Use(<<To(a, reserved), To(b, mouseTypo)>>, FALSE, FALSE)
Wheel ==
  Use(<<To(a, "MOUSE_WHEEL_POS"), To(a, reserved), To(b, badName)>>, FALSE, FALSE)
Dropping == Use(<<To(a, b)>>, FALSE, TRUE)

(* A bare keyboard with a repeat rate, and one with a switch.               *)
EventTypesOf == [d \in Devices |-> IF d = left THEN {"KEY", "REP"} ELSE {"KEY", "SW"}]

Both(p, q) == [d \in Devices |-> IF d = left THEN p ELSE q]

(* Two keyboards share the virtual one: the left plays b with its a, the    *)
(* right plays a with its b, the other key of each moves the pointer.  No   *)
(* virtual key has two sources.                                             *)
LeftHalf == Use(<<To(a, "MOUSE_DPI_NEG"), To(a, b), To(b, "MOUSE_X_NEG"),
                  To(badName, a)>>, TRUE, FALSE)
RightHalf == Use(<<To(b, a), To(a, "MOUSE_DPI_POS"), To(a, badName)>>, FALSE, FALSE)
OneSource == {Both(LeftHalf, RightHalf), Both(unmatched, Passed)}
AnyLists == {Both(Plain, Plain), Both(Swapped, Wheel), Both(Dropping, Plain)}
SharedTarget == {Both(Plain, Plain)}
=============================================================================

--------------------------- MODULE UnifiedKeyboard ---------------------------
(***************************************************************************)
(* What the program promises (README:3-21): several keyboards act as one.  *)
(* Every key of a physical device has a target, a key of the one virtual   *)
(* keyboard or something that is not a key; and a key of the virtual       *)
(* keyboard is down exactly while a finger is on some physical key that    *)
(* has it as its target, whichever device that key is on.                  *)
(*                                                                         *)
(* KeyRouting is shown to implement this, with the fingers where the       *)
(* events the daemon has read put them.                                    *)
(***************************************************************************)
CONSTANTS
  Devices,  \* the physical devices
  Keys,     \* the keys of a device, and of the virtual keyboard
  Targets   \* what a key can stand for, Keys among them

VARIABLES
  fingers,  \* per device: the keys held down
  target,   \* per device: the target of each key
  down      \* the keys that are down on the virtual keyboard

vars == <<fingers, target, down>>

(* The keys the held keys stand for. *)
Image == Keys \cap UNION {{target[d][k] : k \in fingers[d]} : d \in Devices}

Init ==
  /\ fingers = [d \in Devices |-> {}]
  /\ target \in [Devices -> [Keys -> Targets]]
  /\ down = {}

(* A finger goes down or up, and the virtual keyboard follows. *)
Move(d) ==
  /\ fingers'[d] # fingers[d]
  /\ \E k \in Keys :
       fingers' \in {[fingers EXCEPT ![d] = @ \cup {k}],
                    [fingers EXCEPT ![d] = @ \ {k}]}
  /\ UNCHANGED target
  /\ down' = Image'

(* Devices come and go and profiles change while no key is held. *)
Configure ==
  /\ \A d \in Devices : fingers[d] = {}
  /\ target' \in [Devices -> [Keys -> Targets]]
  /\ UNCHANGED <<fingers, down>>

Next ==
  \/ \E d \in Devices : Move(d)
  \/ Configure

Spec == Init /\ [][Next]_vars
=============================================================================

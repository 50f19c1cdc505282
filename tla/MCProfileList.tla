---------------------------- MODULE MCProfileList ----------------------------
(* Constants of the model-checking runs of ProfileList. *)
EXTENDS ProfileList

CONSTANTS left, right, mouse, kbd, rodent, port1, port2, any, a, b

(* Two keyboards of one model at two ports, and a mouse. *)
MCTexts == {kbd, rodent, port1, port2, any}

Device(vid, physical) ==
  [k \in WILD_KEYS |-> CASE k = "VID" -> vid [] k = "PHYSICAL" -> physical
                         [] OTHER -> any]

MCProperty ==
  [d \in {left, right, mouse} |->
     CASE d = left -> Device(kbd, port1)
       [] d = right -> Device(kbd, port2)
       [] d = mouse -> Device(rodent, port2)]

Map(x, y) == [fromKey |-> x, toKey |-> y]
MCKeyMaps == {Map(a, b), Map(b, a)}

(* Matchers of a program. *)
Wild(vids, physicals) ==
  EvdevMatcher([k \in WILD_KEYS |-> CASE k = "VID" -> vids
                                      [] k = "PHYSICAL" -> physicals
                                      [] OTHER -> MATCH_ALL_WILD])
MCMatchers ==
  LET keyboards == Wild({kbd}, MATCH_ALL_WILD)
      atPort1 == Wild(MATCH_ALL_WILD, {port1})
      mice == Wild({rodent}, MATCH_ALL_WILD)
  IN {keyboards, AllMatcher,
      MultiMatcher("AND", {keyboards, NotMatcher({atPort1})}),
      MultiMatcher("OR", {atPort1, mice}),
      MultiMatcher("OR", {mice, MultiMatcher("AND", {keyboards, atPort1})})}

(* Trees of a user. *)
Keyboards == [CLASS_NAME |-> "EvdevMatcher", VID |-> {kbd}]
AtPort1 == [CLASS_NAME |-> "EvdevMatcher", PHYSICAL |-> {port1}]
Mice == [CLASS_NAME |-> "EvdevMatcher", VID |-> {rodent}, PHYSICAL |-> Texts]
Not(tree) == [CLASS_NAME |-> "NotMatcher", value |-> tree]
Multi(mode, trees) ==
  [CLASS_NAME |-> "MultiMatcher", operateMode |-> mode, values |-> trees]

FromTo(x, y) == [FROM |-> x, TO |-> y]
Silent(matcher, maps) == [NAME |-> "n", MATCHER |-> matcher, KEY_MAPS |-> maps]
Written(matcher, maps, other, unmapped) ==
  [NAME |-> "n", MATCHER |-> matcher, KEY_MAPS |-> maps,
   DISABLE_NON_KEY_EVENT |-> other, DISABLE_UNMAPPED_KEY |-> unmapped]

MCWrittenTrees ==
  {Written(Multi("AND", <<Keyboards, AtPort1>>), <<FromTo(a, b), FromTo(b, a)>>,
           "false", "1"),
   Written(Multi("OR", <<Mice, AtPort1>>), <<FromTo(a, b)>>, "0", "false"),
   Written(Keyboards, <<FromTo(b, a)>>, "true", "true"),
   Written(AtPort1, <<>>, "no", "no"),
   Written(Multi("AND", <<Keyboards, Not(AtPort1)>>), <<FromTo(a, b)>>,
           "false", "false"),
   Silent(Multi("OR", <<Mice, Not(Not(AtPort1))>>), <<FromTo(a, b)>>),
   Silent(Mice, <<>>),
   Silent([CLASS_NAME |-> "RawInputMatcher"], <<>>),
   Silent(Multi("XOR", <<>>), <<>>),
   [NAME |-> "n", MATCHER |-> Keyboards]}
=============================================================================

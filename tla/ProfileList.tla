----------------------------- MODULE ProfileList -----------------------------
(***************************************************************************)
(* Profiles and their matchers (src/core/Profile.cpp and the matchers):    *)
(* how a profile list is composed by a program and saved, how it is read   *)
(* from the tree of the configuration file into a growing vector, and      *)
(* which profile a device gets.                                            *)
(*                                                                         *)
(* A matcher is a record of its class and members.  A tree of the file is  *)
(* a record of the keys it has; repeated children are a sequence.  A       *)
(* wildcard is the set of texts it stands for: what a pattern accepts is   *)
(* WildMatch's business.  A name stands for the name and the description.  *)
(***************************************************************************)
EXTENDS Integers, Sequences, FiniteSets, SequencesExt

CONSTANTS
  Devices,       \* the input devices
  Property,      \* Property[d][k]: the text of property k of device d
  Texts,         \* the texts properties have: what "*" stands for
  WrittenTrees,  \* the profiles a user writes into the file
  Matchers,      \* the matchers a program gives to its profiles
  KeyMaps,       \* the key maps it adds
  MaxList,       \* bound on the profiles of a file
  MaxCalls       \* bound on the calls a program makes before it saves

WILD_KEYS == {"NAME", "VID", "PID", "PHYSICAL"}

ASSUME ProfileListAssumption ==
  /\ Property \in [Devices -> [WILD_KEYS -> Texts]]
  /\ MaxList \in Nat /\ MaxCalls \in Nat

VARIABLES
  file,      \* the trees in the configuration file
  origin,    \* history: the list that was saved as this file; <<>> if none
  readTree,  \* what the daemon read last
  stage,     \* of the daemon: "idle", "reading", "dead"
  ret,       \* readList's vector: its elements and its capacity
  profiles,  \* m_profiles
  draft,     \* the profile a program is composing
  list,      \* its list, a vector like ret
  calls      \* the calls it has made

daemon == <<readTree, stage, ret, profiles>>
program == <<draft, list, calls>>
vars == <<file, origin, daemon, program>>

-----------------------------------------------------------------------------
(* Matchers. *)

MATCH_ALL_WILD == Texts

AllMatcher == [className |-> "AllMatcher"]

(* m_value is a set with at most one member: unset, or a matcher. *)
NotMatcher(value) == [className |-> "NotMatcher", m_value |-> value]

(* m_values is unordered; equal children count as one, which changes no answer. *)
MultiMatcher(mode, values) ==
  [className |-> "MultiMatcher", m_operateMode |-> mode, m_values |-> values]

EvdevMatcher(wild) == [className |-> "EvdevMatcher", m_wild |-> wild]

RECURSIVE matchDevice(_, _)

(* Mutant: a NOT without a value matches everything.                        *)
matchNotByDefault(m, d) == \A value \in m.m_value : ~ matchDevice(value, d)

matchNot(m, d) == \E value \in m.m_value : ~ matchDevice(value, d)

matchMulti(m, d) ==
  \/ m.m_values = {}
  \/ m.m_operateMode = "AND" /\ \A one \in m.m_values : matchDevice(one, d)
  \/ m.m_operateMode = "OR" /\ \E one \in m.m_values : matchDevice(one, d)

matchEvdev(m, d) == \A k \in WILD_KEYS : Property[d][k] \in m.m_wild[k]

(* The virtual function: each class has its own. *)
matchDevice(m, d) ==
  CASE m.className = "AllMatcher" -> TRUE
    [] m.className = "NotMatcher" -> matchNot(m, d)
    [] m.className = "MultiMatcher" -> matchMulti(m, d)
    [] m.className = "EvdevMatcher" -> matchEvdev(m, d)

RECURSIVE deepClone(_)

cloneNot(m) == NotMatcher({deepClone(value) : value \in m.m_value})

(* Mutant: the copy of a MultiMatcher keeps the default mode.               *)
cloneForgetsMode(m) == MultiMatcher("AND", {deepClone(one) : one \in m.m_values})

cloneMulti(m) ==
  MultiMatcher(m.m_operateMode, {deepClone(one) : one \in m.m_values})

cloneEvdev(m) == EvdevMatcher(m.m_wild)

deepClone(m) ==
  CASE m.className = "AllMatcher" -> AllMatcher
    [] m.className = "NotMatcher" -> cloneNot(m)
    [] m.className = "MultiMatcher" -> cloneMulti(m)
    [] m.className = "EvdevMatcher" -> cloneEvdev(m)

RECURSIVE writeMatcher(_)

writeNot(m) ==
  IF m.m_value = {} THEN [CLASS_NAME |-> "NotMatcher"]
  ELSE [CLASS_NAME |-> "NotMatcher",
        value |-> writeMatcher(CHOOSE value \in m.m_value : TRUE)]

(* Mutant: a child of a MultiMatcher replaces the one before.               *)
writeKeepsLastChild(m) ==
  [CLASS_NAME |-> "MultiMatcher", operateMode |-> m.m_operateMode,
   values |-> LET ones == SetToSeq(m.m_values)
              IN IF ones = <<>> THEN <<>> ELSE <<writeMatcher(Last(ones))>>]

(* The order of the children is that of a hash table: any order will do.    *)
writeMulti(m) ==
  [CLASS_NAME |-> "MultiMatcher", operateMode |-> m.m_operateMode,
   values |-> LET ones == SetToSeq(m.m_values)
              IN [i \in DOMAIN ones |-> writeMatcher(ones[i])]]

writeEvdev(m) ==
  [k \in WILD_KEYS \cup {"CLASS_NAME"} |->
     IF k = "CLASS_NAME" THEN "EvdevMatcher" ELSE m.m_wild[k]]

(* DeviceMatcher::write: the name of the class, then writeSelf. *)
writeMatcher(m) ==
  CASE m.className = "AllMatcher" -> [CLASS_NAME |-> "AllMatcher"]
    [] m.className = "NotMatcher" -> writeNot(m)
    [] m.className = "MultiMatcher" -> writeMulti(m)
    [] m.className = "EvdevMatcher" -> writeEvdev(m)

(* Reading a matcher's tree finds every key it asks for.  NotMatcher asks   *)
(* for none and does not look into its value.                               *)
RECURSIVE MatcherReadable(_)
MatcherReadable(tree) ==
  /\ "CLASS_NAME" \in DOMAIN tree
  /\ tree.CLASS_NAME = "MultiMatcher" =>
       /\ {"operateMode", "values"} \subseteq DOMAIN tree
       /\ \A i \in DOMAIN tree.values : MatcherReadable(tree.values[i])

RECURSIVE readMatcher(_)

readNot(tree) == NotMatcher({})

(* Mutant: the relation of the children is not read.                        *)
readMultiAsOr(tree) ==
  MultiMatcher("OR", {readMatcher(tree.values[i]) : i \in DOMAIN tree.values})

readMulti(tree) ==
  MultiMatcher(IF tree.operateMode = "AND" THEN "AND" ELSE "OR",
               {readMatcher(tree.values[i]) : i \in DOMAIN tree.values})

readEvdev(tree) ==
  EvdevMatcher([k \in WILD_KEYS |->
                  IF k \in DOMAIN tree THEN tree[k] ELSE MATCH_ALL_WILD])

(* The classes with a reader: each is registered before main is entered.    *)
globalInit == {"AllMatcher", "NotMatcher", "MultiMatcher", "EvdevMatcher"}

(* DeviceMatcher::read: by the reader of the class, AllMatcher without one. *)
readMatcher(tree) ==
  CASE tree.CLASS_NAME \notin globalInit \ {"AllMatcher"} -> AllMatcher
    [] tree.CLASS_NAME = "NotMatcher" -> readNot(tree)
    [] tree.CLASS_NAME = "MultiMatcher" -> readMulti(tree)
    [] tree.CLASS_NAME = "EvdevMatcher" -> readEvdev(tree)

-----------------------------------------------------------------------------
(* Profiles. *)

Profile ==
  [m_name |-> "", m_matcher |-> NotMatcher({}), m_keyMaps |-> <<>>,
   m_disableNonKeyEvent |-> TRUE, m_disableUnmappedKey |-> FALSE]

(* Mutant: the assignment forgets a member.                                 *)
CopyForgetsFlag(p) ==
  [Profile EXCEPT !.m_matcher = deepClone(p.m_matcher),
                  !.m_keyMaps = p.m_keyMaps,
                  !.m_disableNonKeyEvent = p.m_disableNonKeyEvent]

(* The copy constructor: an assignment to a new profile.  Neither name nor  *)
(* description is copied.                                                   *)
Copy(p) ==
  [Profile EXCEPT !.m_matcher = deepClone(p.m_matcher),
                  !.m_keyMaps = p.m_keyMaps,
                  !.m_disableNonKeyEvent = p.m_disableNonKeyEvent,
                  !.m_disableUnmappedKey = p.m_disableUnmappedKey]

CopyAll(ps) == [i \in DOMAIN ps |-> Copy(ps[i])]

EmptyVector == [elements |-> <<>>, capacity |-> 0]

(* vector::push_back: a full vector doubles, which copies its elements.     *)
push_back(v, p) ==
  IF Len(v.elements) < v.capacity
    THEN [v EXCEPT !.elements = Append(@, Copy(p))]
    ELSE [elements |-> Append(CopyAll(v.elements), Copy(p)),
          capacity |-> IF v.capacity = 0 THEN 1 ELSE 2 * v.capacity]

(* Profile::read finds every key it asks for. *)
Readable(tree) ==
  /\ {"NAME", "MATCHER", "KEY_MAPS"} \subseteq DOMAIN tree
  /\ MatcherReadable(tree.MATCHER)
  /\ \A i \in DOMAIN tree.KEY_MAPS :
       {"FROM", "TO"} \subseteq DOMAIN tree.KEY_MAPS[i]

(* get_optional<bool>: neither a missing text nor one that stands for no    *)
(* Boolean changes the value there was.                                     *)
FlagTexts == {"true", "false", "1", "0"}

ReadFlag(tree, key, default) ==
  IF key \in DOMAIN tree /\ tree[key] \in FlagTexts
    THEN tree[key] \in {"true", "1"} ELSE default

(* Profile::read, of a tree that is Readable. *)
read(p, tree) ==
  [m_name |-> tree.NAME,
   m_matcher |-> readMatcher(tree.MATCHER),
   m_keyMaps |-> [i \in DOMAIN tree.KEY_MAPS |->
                    [fromKey |-> tree.KEY_MAPS[i].FROM,
                     toKey |-> tree.KEY_MAPS[i].TO]],
   m_disableNonKeyEvent |->
     ReadFlag(tree, "DISABLE_NON_KEY_EVENT", p.m_disableNonKeyEvent),
   m_disableUnmappedKey |->
     ReadFlag(tree, "DISABLE_UNMAPPED_KEY", p.m_disableUnmappedKey)]

FlagText(flag) == IF flag THEN "true" ELSE "false"

(* Profile::write.  Every key map is put under the same key, where it       *)
(* replaces the one before: only the last stays.                            *)
write(p) ==
  [NAME |-> p.m_name, MATCHER |-> writeMatcher(p.m_matcher),
   DISABLE_NON_KEY_EVENT |-> FlagText(p.m_disableNonKeyEvent),
   DISABLE_UNMAPPED_KEY |-> FlagText(p.m_disableUnmappedKey),
   KEY_MAPS |-> IF p.m_keyMaps = <<>> THEN <<>>
                ELSE <<[FROM |-> Last(p.m_keyMaps).fromKey,
                        TO |-> Last(p.m_keyMaps).toKey]>>]

writeList(ps) == [i \in DOMAIN ps |-> write(ps[i])]

(* configureAddIfMatch: what the first profile that matches makes of a      *)
(* device; none if no profile does.                                         *)
Settings(ps, d) ==
  LET hits == {i \in DOMAIN ps : matchDevice(ps[i].m_matcher, d)}
      p == ps[CHOOSE i \in hits : \A j \in hits : i <= j]
  IN IF hits = {} THEN <<>>
     ELSE <<p.m_keyMaps, p.m_disableNonKeyEvent, p.m_disableUnmappedKey>>

-----------------------------------------------------------------------------
(* The daemon. *)

(* reloadConfig clears its profiles and reads the whole file at once.  A    *)
(* daemon that has died is started again.                                   *)
ReadConfig ==
  /\ stage \in {"idle", "dead"}
  /\ readTree' = file
  /\ stage' = "reading"
  /\ ret' = EmptyVector
  /\ profiles' = <<>>
  /\ UNCHANGED <<file, origin, program>>

nextTree == readTree[Len(ret.elements) + 1]

(* One turn of readList's loop: a new profile at the end of the vector, and *)
(* the next tree is read into it.                                           *)
readOne ==
  /\ stage = "reading" /\ Len(ret.elements) < Len(readTree)
  /\ Readable(nextTree)
  /\ LET grown == push_back(ret, Profile)
         back == Len(grown.elements)
     IN ret' = [grown EXCEPT !.elements[back] = read(@, nextTree)]
  /\ UNCHANGED <<file, origin, readTree, stage, profiles, program>>

(* A missing key throws; reloadConfig catches only what the parser throws.  *)
readThrows ==
  /\ stage = "reading" /\ Len(ret.elements) < Len(readTree)
  /\ ~ Readable(nextTree)
  /\ stage' = "dead"
  /\ ret' = EmptyVector
  /\ UNCHANGED <<file, origin, readTree, profiles, program>>

(* The vector is moved to the caller: no copies. *)
readEnds ==
  /\ stage = "reading" /\ Len(ret.elements) = Len(readTree)
  /\ stage' = "idle"
  /\ profiles' = ret.elements
  /\ ret' = EmptyVector
  /\ UNCHANGED <<file, origin, readTree, program>>

-----------------------------------------------------------------------------
(* A program that composes a list and saves it, where there is no file yet. *)
(* It shares only the file with the daemon.                                 *)

Composing ==
  /\ stage = "idle" /\ file = <<>> /\ readTree = <<>>
  /\ calls < MaxCalls
  /\ calls' = calls + 1
  /\ UNCHANGED <<file, origin, daemon>>

setName ==
  /\ Composing
  /\ draft' = [draft EXCEPT !.m_name = "named"]
  /\ UNCHANGED list

setMatcher ==
  /\ Composing
  /\ \E m \in Matchers : draft' = [draft EXCEPT !.m_matcher = m]
  /\ UNCHANGED list

addKeyMap ==
  /\ Composing
  /\ \E keyMap \in KeyMaps :
       draft' = [draft EXCEPT !.m_keyMaps = Append(@, keyMap)]
  /\ UNCHANGED list

setDisable ==
  /\ Composing
  /\ \E value \in BOOLEAN :
       \/ draft' = [draft EXCEPT !.m_disableNonKeyEvent = value]
       \/ draft' = [draft EXCEPT !.m_disableUnmappedKey = value]
  /\ UNCHANGED list

addProfile ==
  /\ Composing
  /\ Len(list.elements) < MaxList
  /\ list' = push_back(list, draft)
  /\ UNCHANGED draft

Save ==
  /\ stage = "idle" /\ file = <<>> /\ readTree = <<>>
  /\ file' = writeList(list.elements)
  /\ origin' = list.elements
  /\ draft' = Profile /\ list' = EmptyVector /\ calls' = 0
  /\ UNCHANGED daemon

(* The user adds a profile to the file, or takes one away, after the daemon *)
(* has read it; a file a program saved is only removed.                     *)
Edit ==
  /\ stage # "reading" /\ readTree = file /\ calls = 0
  /\ \/ /\ origin = <<>> /\ Len(file) < MaxList
        /\ \E tree \in WrittenTrees : file' = Append(file, tree)
     \/ origin = <<>> /\ \E i \in DOMAIN file : file' = RemoveAt(file, i)
     \/ file' = <<>>
  /\ origin' = <<>>
  /\ UNCHANGED <<daemon, program>>

Init ==
  /\ file = <<>> /\ origin = <<>> /\ readTree = <<>>
  /\ stage = "idle" /\ ret = EmptyVector /\ profiles = <<>>
  /\ draft = Profile /\ list = EmptyVector /\ calls = 0

Next ==
  \/ ReadConfig \/ readOne \/ readThrows \/ readEnds
  \/ setName \/ setMatcher \/ addKeyMap \/ setDisable \/ addProfile \/ Save
  \/ Edit

Spec == Init /\ [][Next]_vars

-----------------------------------------------------------------------------
(* Properties. *)

(* A matcher's tree whose meaning is not in doubt: the classes and the       *)
(* relations that exist, and no combination of nothing.  What the readers   *)
(* make of the others is not what the file says: an unknown CLASS_NAME and  *)
(* an empty MultiMatcher match every device, a relation but AND is an OR.   *)
RECURSIVE Meaningful(_)
Meaningful(tree) ==
  \/ tree.CLASS_NAME \in {"AllMatcher", "EvdevMatcher"}
  \/ /\ tree.CLASS_NAME = "NotMatcher"
     /\ "value" \in DOMAIN tree /\ Meaningful(tree.value)
  \/ /\ tree.CLASS_NAME = "MultiMatcher"
     /\ tree.operateMode \in {"AND", "OR"} /\ tree.values # <<>>
     /\ \A i \in DOMAIN tree.values : Meaningful(tree.values[i])

(* What such a tree says, README:33-34 ("simple relationship combine        *)
(* (AND/NOT/OR)").                                                          *)
RECURSIVE Says(_, _)
Says(tree, d) ==
  CASE tree.CLASS_NAME = "AllMatcher" -> TRUE
    [] tree.CLASS_NAME = "EvdevMatcher" ->
         \A k \in WILD_KEYS \cap DOMAIN tree : Property[d][k] \in tree[k]
    [] tree.CLASS_NAME = "NotMatcher" -> ~ Says(tree.value, d)
    [] tree.CLASS_NAME = "MultiMatcher" /\ tree.operateMode = "AND" ->
         \A i \in DOMAIN tree.values : Says(tree.values[i], d)
    [] tree.CLASS_NAME = "MultiMatcher" /\ tree.operateMode = "OR" ->
         \E i \in DOMAIN tree.values : Says(tree.values[i], d)

RECURSIVE HasNot(_)
HasNot(tree) ==
  \/ tree.CLASS_NAME = "NotMatcher" /\ "value" \in DOMAIN tree
  \/ /\ tree.CLASS_NAME = "MultiMatcher"
     /\ \E i \in DOMAIN tree.values : HasNot(tree.values[i])

(* README:113-115 warns of grabbing a device nobody meant: a profile whose  *)
(* matcher has a meaning matches no device that its matcher in the file     *)
(* does not name, although the reader drops the value of every NOT in it.   *)
GrabsNoMore ==
  stage = "idle" =>
    \A i \in DOMAIN profiles, d \in Devices :
      Meaningful(readTree[i].MATCHER) /\ matchDevice(profiles[i].m_matcher, d)
        => Says(readTree[i].MATCHER, d)

(* A profile that leaves no doubt what it asks for: a matcher without a     *)
(* NOT, which the reader leaves empty, and DISABLE_NON_KEY_EVENT spelled    *)
(* out, which README:116-117 and Profile.hpp:92 complete differently.       *)
Plain(tree) ==
  /\ Meaningful(tree.MATCHER) /\ ~ HasNot(tree.MATCHER)
  /\ "DISABLE_NON_KEY_EVENT" \in DOMAIN tree
  /\ \A key \in {"DISABLE_NON_KEY_EVENT", "DISABLE_UNMAPPED_KEY"} :
       key \in DOMAIN tree => tree[key] \in FlagTexts

Yes(tree, key) == key \in DOMAIN tree /\ tree[key] \in {"true", "1"}

(* What the file says of a device: the first profile that names it.         *)
FileSettings(trees, d) ==
  LET hits == {i \in DOMAIN trees : Says(trees[i].MATCHER, d)}
      tree == trees[CHOOSE i \in hits : \A j \in hits : i <= j]
  IN IF hits = {} THEN <<>>
     ELSE << [i \in DOMAIN tree.KEY_MAPS |->
                [fromKey |-> tree.KEY_MAPS[i].FROM,
                 toKey |-> tree.KEY_MAPS[i].TO]],
             Yes(tree, "DISABLE_NON_KEY_EVENT"),
             Yes(tree, "DISABLE_UNMAPPED_KEY") >>

(* After a load of plain profiles every device gets what the file says,     *)
(* whatever was copied while the vector grew and whatever was loaded        *)
(* before; README:17-18 (per-keyboard remapping).                           *)
RoutesAsTheFileSays ==
  stage = "idle" /\ (\A i \in DOMAIN readTree : Plain(readTree[i])) =>
    \A d \in Devices : Settings(profiles, d) = FileSettings(readTree, d)

RECURSIVE Storable(_)
Storable(m) ==
  /\ m.className = "NotMatcher" => m.m_value = {}
  /\ m.className = "MultiMatcher" => \A one \in m.m_values : Storable(one)

(* A list that a program saved routes every device, when the daemon has     *)
(* read it back, as it did in the program: test_evdev_matcher.cpp:57-72 for *)
(* whole lists.  Not for values of NOTs nor for more than one key map.      *)
SavedComesBack ==
  /\ stage = "idle" /\ origin # <<>> /\ readTree = file
  /\ \A i \in DOMAIN origin :
       Storable(origin[i].m_matcher) /\ Len(origin[i].m_keyMaps) <= 1
  => \A d \in Devices : Settings(profiles, d) = Settings(origin, d)
=============================================================================

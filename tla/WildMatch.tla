------------------------------ MODULE WildMatch ------------------------------
(***************************************************************************)
(* Does a device property match a pattern in which * stands for any text:  *)
(* how EvdevMatcher takes the pattern for one of its properties, from      *)
(* setWild or from a profile, and simpleWildMatch (src/core/Utility.cpp),  *)
(* which cuts it into the texts between its stars and looks for one after  *)
(* the other, each at the first place it fits.  One turn of that loop is   *)
(* one step here.                                                          *)
(***************************************************************************)
EXTENDS Integers, Sequences, FiniteSets, SequencesExt

CONSTANTS
  Chars,    \* the characters of texts
  Star,     \* MATCH_ALL_WILD
  Nul,      \* what resize pads with
  IdLength, \* the digits of a vendor or product id
  MaxText,  \* bound on the length of the text
  MaxWild   \* bound on the length of the pattern

ASSUME WildMatchAssumption ==
  /\ {Star, Nul} \cap Chars = {} /\ Star # Nul
  /\ {IdLength, MaxText, MaxWild} \subseteq Nat

VARIABLES
  written,       \* the pattern as the user wrote it
  source,        \* "none", the property set, or "profile" for one that is read
  toTest, wild,  \* the arguments: the device's property, the m_wild entry
  i,             \* the token to look for; 0 before the loop
  searchPos,     \* how much of toTest is used up
  result         \* "unset", "running", "match" or "mismatch"

arguments == <<written, source, toTest, wild>>
vars == <<arguments, i, searchPos, result>>

Texts(n, S) == UNION {[1 .. k -> S] : k \in 0 .. n}

-----------------------------------------------------------------------------
(* std::unique over stars: every run of stars becomes one. *)
stripWildString(w) ==
  LET kept[n \in 0 .. Len(w)] ==
        IF n = 0 THEN <<>>
        ELSE IF n > 1 /\ w[n] = Star /\ w[n - 1] = Star THEN kept[n - 1]
        ELSE Append(kept[n - 1], w[n])
  IN kept[Len(w)]

(* std::string::resize. *)
Resize(s, n) == [k \in 1 .. n |-> IF k <= Len(s) THEN s[k] ELSE Nul]

WildIndex == {"NAME", "VID", "PID", "PHYSICAL"}
Ids == {"VID", "PID"}

IdSizeFixed(w) == IdLength  \* mutant: ids always get four characters
IdSize(w) == IF Len(w) < IdLength THEN Len(w) ELSE IdLength

(* The pattern of a vendor or product id is cut or padded to the length of  *)
(* the argument, at most four, after its stars were merged.                 *)
setWild(index) ==
  /\ result = "unset"
  /\ wild' = IF index \in Ids THEN Resize(stripWildString(written), IdSize(written))
                              ELSE stripWildString(written)
  /\ source' = index
  /\ result' = "running"
  /\ UNCHANGED <<written, toTest, i, searchPos>>

(* A profile's pattern is taken as it is; one that is missing is a star. *)
readSelf ==
  /\ result = "unset"
  /\ wild' \in {written, <<Star>>}
  /\ source' = IF wild' = written THEN "profile" ELSE "none"
  /\ result' = "running"
  /\ UNCHANGED <<written, toTest, i, searchPos>>

-----------------------------------------------------------------------------
usedWild == stripWildString(wild)

(* boost::split with token_compress_on, and the removal of empty tokens: *)
(* the texts between the stars of w.                                     *)
Split(w) ==
  LET cut[n \in 0 .. Len(w)] ==
        IF n = 0 THEN <<>>
        ELSE IF w[n] = Star THEN cut[n - 1]
        ELSE IF n = 1 \/ w[n - 1] = Star THEN Append(cut[n - 1], <<w[n]>>)
        ELSE [cut[n - 1] EXCEPT ![Len(cut[n - 1])] = Append(@, w[n])]
  IN cut[Len(w)]

tokens == Split(usedWild)

firstNotAny == usedWild[1] # Star
lastNotAny == Last(usedWild) # Star

(* The positions, counted from 0, where token fits text at or after pos: *)
(* string::find returns the first one.                                    *)
Fits(text, token, pos) ==
  {p \in pos .. Len(text) - Len(token) :
     SubSeq(text, p + 1, p + Len(token)) = token}

Answer(matches) ==
  /\ result' = IF matches THEN "match" ELSE "mismatch"
  /\ UNCHANGED <<arguments, i, searchPos>>

(* Everything before the loop. *)
Start ==
  /\ result = "running" /\ i = 0
  /\ \/ usedWild = <<>> /\ Answer(TRUE)
     \/ usedWild # <<>> /\ toTest = <<>> /\ Answer(usedWild = <<Star>>)
     \/ usedWild # <<>> /\ toTest # <<>> /\ tokens = <<>> /\ Answer(TRUE)
     \/ /\ toTest # <<>> /\ tokens # <<>>
        /\ i' = 1
        /\ UNCHANGED <<arguments, searchPos, result>>

HeadAnywhere(p) == TRUE  \* mutant: the head need not match
HeadFits(p) == i = 1 /\ firstNotAny => p = 0

AfterNext(p) == p + Len(tokens[i]) + 1  \* mutant: one past the end
After(p) == p + Len(tokens[i])

(* One turn of the loop: find the token at the first place it fits. *)
Search ==
  /\ result = "running" /\ i \in DOMAIN tokens
  /\ LET fits == Fits(toTest, tokens[i], searchPos)
         foundPos == CHOOSE p \in fits : \A q \in fits : p <= q
     IN IF \/ fits = {}
           \/ ~HeadFits(foundPos)
           \/ After(foundPos) = Len(toTest) /\ i # Len(tokens)
          THEN Answer(FALSE)
          ELSE /\ searchPos' = After(foundPos)
               /\ i' = i + 1
               /\ UNCHANGED <<arguments, result>>

(* All tokens are found: is the text used up? *)
Finish ==
  /\ result = "running" /\ i = Len(tokens) + 1
  /\ Answer(searchPos = Len(toTest) \/ ~lastNotAny)

Init ==
  /\ toTest \in Texts(MaxText, Chars)
  /\ written \in Texts(MaxWild, Chars \cup {Star})
  /\ source = "none"
  /\ wild = <<Star>>
  /\ i = 0
  /\ searchPos = 0
  /\ result = "unset"

Next ==
  \/ \E index \in WildIndex : setWild(index)
  \/ readSelf \/ Start \/ Search \/ Finish

Spec == Init /\ [][Next]_vars

-----------------------------------------------------------------------------
(* Properties. *)

(* The values of every variable; the search never leaves the text. *)
TypeOK ==
  /\ toTest \in Texts(MaxText, Chars)
  /\ written \in Texts(MaxWild, Chars \cup {Star})
  /\ source \in WildIndex \cup {"none", "profile"}
  /\ wild \in Seq(Chars \cup {Star, Nul})
  /\ i \in 0 .. MaxWild + 1
  /\ searchPos \in 0 .. Len(toTest)
  /\ result \in {"unset", "running", "match", "mismatch"}

(* What a pattern means: how many characters of the text can be an instance *)
(* of the pattern, in ends[n] of its first n characters.                    *)
Glob(text, w) ==
  LET ends[n \in 0 .. Len(w)] ==
        IF n = 0 THEN {0}
        ELSE IF w[n] = Star
          THEN {j \in 0 .. Len(text) : \E k \in ends[n - 1] : k <= j}
        ELSE {j \in 1 .. Len(text) : text[j] = w[n] /\ j - 1 \in ends[n - 1]}
  IN ends[Len(w)]

Matches == Len(toTest) \in Glob(toTest, written)

(* A pattern that is no longer than what it is for. *)
FitsProperty == source # "none" /\ (source \in Ids => Len(written) <= IdLength)

(* README:33-34, "support common conditions ... wild match": a property     *)
(* that is accepted is an instance of the pattern the user wrote, the empty *)
(* pattern, which accepts everything, and ids too long to be one apart.     *)
Sound == result = "match" /\ FitsProperty /\ written # <<>> => Matches

(* The other direction, for patterns with a star at the end: taking the     *)
(* first place a token fits never loses a match there.  An id's pattern     *)
(* with two stars in a row is padded with what no text has (setWild).       *)
CompleteIfOpen ==
  /\ result = "mismatch" /\ FitsProperty
  /\ written # <<>> /\ Last(written) = Star
  /\ source \in Ids => stripWildString(written) = written
  => ~Matches
==============================================================================

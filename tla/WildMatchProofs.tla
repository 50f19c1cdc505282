--------------------------- MODULE WildMatchProofs ---------------------------
(***************************************************************************)
(* simpleWildMatch accepts only what is an instance of the pattern, for    *)
(* texts and patterns of any length, and misses nothing when the pattern   *)
(* ends in a star.  The pattern is cut into tokens; the first half relates *)
(* them to Glob, the second half shows that the search finds the least end *)
(* the tokens can have.                                                    *)
(***************************************************************************)
EXTENDS WildMatch, Inductions

All == Chars \cup {Star, Nul}

(* What the recursive definitions compute is a sequence of stages.          *)
StripStages(w, g) ==
  /\ g \in [0 .. Len(w) -> Seq(All)]
  /\ g[0] = <<>>
  /\ \A n \in 1 .. Len(w) :
       g[n] = IF n > 1 /\ w[n] = Star /\ w[n - 1] = Star THEN g[n - 1]
              ELSE Append(g[n - 1], w[n])
  /\ stripWildString(w) = g[Len(w)]

Extended(cs, c) == [cs EXCEPT ![Len(cs)] = Append(@, c)]

SplitStages(w, g) ==
  /\ g \in [0 .. Len(w) -> Seq(Seq(All))]
  /\ g[0] = <<>>
  /\ \A n \in 1 .. Len(w) :
       g[n] = IF w[n] = Star THEN g[n - 1]
              ELSE IF n = 1 \/ w[n - 1] = Star THEN Append(g[n - 1], <<w[n]>>)
              ELSE Extended(g[n - 1], w[n])
  /\ Split(w) = g[Len(w)]

(* One more character of a pattern: the lengths s of the text become these. *)
Ends(text) == SUBSET (0 .. Len(text))

Further(text, s, c) ==
  IF c = Star THEN {j \in 0 .. Len(text) : \E k \in s : k <= j}
  ELSE {j \in 1 .. Len(text) : text[j] = c /\ j - 1 \in s}

GlobStages(text, w, g) ==
  /\ g \in [0 .. Len(w) -> Ends(text)]
  /\ g[0] = {0}
  /\ \A n \in 1 .. Len(w) : g[n] = Further(text, g[n - 1], w[n])
  /\ Glob(text, w) = g[Len(w)]

(* A solution is the one CHOOSE takes. *)
LEMMA StripHasStages ==
  ASSUME NEW w \in Seq(All)
  PROVE  \E g : StripStages(w, g)
<1> DEFINE N == Len(w)
           Turn(x, n) == IF n > 1 /\ w[n] = Star /\ w[n - 1] = Star THEN x
                          ELSE Append(x, w[n])
           Loop(h) == h = [n \in 0 .. N |->
                             IF n = 0 THEN <<>> ELSE Turn(h[n - 1], n)]
           f == CHOOSE h : Loop(h)
           step == [n \in 1 .. N |-> [x \in Seq(All) |-> Turn(x, n)]]
<1>1. N \in Nat /\ \A n \in 1 .. N : w[n] \in All
  OBVIOUS
<1>2. /\ <<>> \in Seq(All)
      /\ \A n \in 1 .. N, x \in Seq(All) : Turn(x, n) \in Seq(All)
  BY <1>1
<1>3. step \in [1 .. N -> [Seq(All) -> Seq(All)]]
  BY <1>2
<1>4. PICK g \in [0 .. N -> Seq(All)] : Recursion(g, N, <<>>, step)
  <2> HIDE DEF step, N, Turn
  <2> QED
    BY <1>1, <1>2, <1>3, RecursionHasSolution
<1>5. g[0] = <<>>
  BY <1>4 DEF Recursion
<1>6. ASSUME NEW n \in 1 .. N PROVE g[n] = Turn(g[n - 1], n)
  <2>1. n - 1 \in 0 .. N
    BY <1>1
  <2>2. g[n] = step[n][g[n - 1]]
    BY <1>4 DEF Recursion
  <2> HIDE DEF Turn, N
  <2> QED
    BY <1>4, <2>1, <2>2
<1> HIDE DEF step, N, Turn
<1>7. Loop(g)
  BY <1>4, <1>5, <1>6
<1>8. Loop(f)
  BY <1>7
<1> HIDE DEF f
<1>9. /\ f[0] = <<>>
      /\ \A n \in 1 .. N : f[n] = Turn(f[n - 1], n)
  <2>1. 0 \in 0 .. N /\ \A n \in 1 .. N : n \in 0 .. N /\ n # 0
    BY <1>1
  <2> QED
    BY <1>8, <2>1
<1>10. \A n \in 0 .. N : f[n] = g[n]
  <2> DEFINE S == {n \in Nat : n <= N => f[n] = g[n]}
  <2>1. 0 \in S
    BY <1>9, <1>5
  <2>2. ASSUME NEW n \in Nat, n \in S PROVE n + 1 \in S
    <3>1. CASE n + 1 \in 1 .. N
      <4>1. (n + 1) - 1 = n /\ f[n] = g[n]
        BY <3>1, <2>2, <1>1
      <4>2. f[n + 1] = Turn(f[n], n + 1) /\ g[n + 1] = Turn(g[n], n + 1)
        BY <3>1, <1>6, <1>9, <4>1
      <4> QED
        BY <4>1, <4>2
    <3>2. CASE n + 1 \notin 1 .. N
      BY <3>2, <1>1
    <3> QED
      BY <3>1, <3>2
  <2> HIDE DEF S
  <2>3. Nat \subseteq S
    BY <2>1, <2>2, Induction
  <2> QED
    BY <2>3, <1>1 DEF S
<1>11. stripWildString(w) = f[N]
  BY DEF stripWildString, f, N, Turn
<1>12. StripStages(w, g)
  BY <1>1, <1>4, <1>5, <1>6, <1>10, <1>11 DEF StripStages, N, Turn
<1> QED
  BY <1>12

LEMMA ExtendedType ==
  ASSUME NEW S, NEW cs \in Seq(Seq(S)), NEW c \in S
  PROVE  Extended(cs, c) \in Seq(Seq(S))
<1>1. CASE Len(cs) = 0
  <2>1. Len(cs) \notin DOMAIN cs
    BY <1>1
  <2>2. Extended(cs, c) = cs
    BY <2>1 DEF Extended
  <2> QED
    BY <2>2
<1>2. CASE Len(cs) # 0
  <2>1. Len(cs) \in 1 .. Len(cs) /\ cs[Len(cs)] \in Seq(S)
    BY <1>2
  <2>2. Append(cs[Len(cs)], c) \in Seq(S)
    BY <2>1
  <2> QED
    BY <2>1, <2>2 DEF Extended
<1> QED
  BY <1>1, <1>2

LEMMA SplitHasStages ==
  ASSUME NEW w \in Seq(All)
  PROVE  \E g : SplitStages(w, g)
<1> DEFINE N == Len(w)
           Turn(x, n) == IF w[n] = Star THEN x
                          ELSE IF n = 1 \/ w[n - 1] = Star
                            THEN Append(x, <<w[n]>>)
                          ELSE Extended(x, w[n])
           Loop(h) == h = [n \in 0 .. N |->
                             IF n = 0 THEN <<>> ELSE Turn(h[n - 1], n)]
           f == CHOOSE h : Loop(h)
           step == [n \in 1 .. N |-> [x \in Seq(Seq(All)) |-> Turn(x, n)]]
<1>1. N \in Nat /\ \A n \in 1 .. N : w[n] \in All
  OBVIOUS
<1>2. /\ <<>> \in Seq(Seq(All))
      /\ \A n \in 1 .. N, x \in Seq(Seq(All)) : Turn(x, n) \in Seq(Seq(All))
  <2>1. <<>> \in Seq(Seq(All))
    OBVIOUS
  <2>2. ASSUME NEW n \in 1 .. N, NEW x \in Seq(Seq(All))
        PROVE  Turn(x, n) \in Seq(Seq(All))
    <3>1. <<w[n]>> \in Seq(All)
      BY <1>1
    <3>2. Append(x, <<w[n]>>) \in Seq(Seq(All))
      BY <3>1
    <3> QED
      BY <3>2, <1>1, ExtendedType
  <2> QED
    BY <2>1, <2>2
<1>3. step \in [1 .. N -> [Seq(Seq(All)) -> Seq(Seq(All))]]
  BY <1>2
<1>4. PICK g \in [0 .. N -> Seq(Seq(All))] : Recursion(g, N, <<>>, step)
  <2> HIDE DEF step, N, Turn
  <2> QED
    BY <1>1, <1>2, <1>3, RecursionHasSolution
<1>5. g[0] = <<>>
  BY <1>4 DEF Recursion
<1>6. ASSUME NEW n \in 1 .. N PROVE g[n] = Turn(g[n - 1], n)
  <2>1. n - 1 \in 0 .. N
    BY <1>1
  <2>2. g[n] = step[n][g[n - 1]]
    BY <1>4 DEF Recursion
  <2> HIDE DEF Turn, N
  <2> QED
    BY <1>4, <2>1, <2>2
<1> HIDE DEF step, N, Turn
<1>7. Loop(g)
  BY <1>4, <1>5, <1>6
<1>8. Loop(f)
  BY <1>7
<1> HIDE DEF f
<1>9. /\ f[0] = <<>>
      /\ \A n \in 1 .. N : f[n] = Turn(f[n - 1], n)
  <2>1. 0 \in 0 .. N /\ \A n \in 1 .. N : n \in 0 .. N /\ n # 0
    BY <1>1
  <2> QED
    BY <1>8, <2>1
<1>10. \A n \in 0 .. N : f[n] = g[n]
  <2> DEFINE S == {n \in Nat : n <= N => f[n] = g[n]}
  <2>1. 0 \in S
    BY <1>9, <1>5
  <2>2. ASSUME NEW n \in Nat, n \in S PROVE n + 1 \in S
    <3>1. CASE n + 1 \in 1 .. N
      <4>1. (n + 1) - 1 = n /\ f[n] = g[n]
        BY <3>1, <2>2, <1>1
      <4>2. f[n + 1] = Turn(f[n], n + 1) /\ g[n + 1] = Turn(g[n], n + 1)
        BY <3>1, <1>6, <1>9, <4>1
      <4> QED
        BY <4>1, <4>2
    <3>2. CASE n + 1 \notin 1 .. N
      BY <3>2, <1>1
    <3> QED
      BY <3>1, <3>2
  <2> HIDE DEF S
  <2>3. Nat \subseteq S
    BY <2>1, <2>2, Induction
  <2> QED
    BY <2>3, <1>1 DEF S
<1>11. Split(w) = f[N]
  BY DEF Split, Extended, f, N, Turn
<1>12. SplitStages(w, g)
  BY <1>1, <1>4, <1>5, <1>6, <1>10, <1>11 DEF SplitStages, N, Turn
<1> QED
  BY <1>12

LEMMA GlobHasStages ==
  ASSUME NEW w \in Seq(All), NEW text, text \in Seq(Chars)
  PROVE  \E g : GlobStages(text, w, g)
<1> DEFINE N == Len(w)
           Turn(x, n) == Further(text, x, w[n])
           Loop(h) == h = [n \in 0 .. N |->
                             IF n = 0 THEN {0} ELSE Turn(h[n - 1], n)]
           f == CHOOSE h : Loop(h)
           step == [n \in 1 .. N |-> [x \in Ends(text) |-> Turn(x, n)]]
<1>1. N \in Nat /\ \A n \in 1 .. N : w[n] \in All
  OBVIOUS
<1>2. /\ {0} \in Ends(text)
      /\ \A n \in 1 .. N, x \in Ends(text) : Turn(x, n) \in Ends(text)
  BY <1>1 DEF Ends, Further
<1>3. step \in [1 .. N -> [Ends(text) -> Ends(text)]]
  BY <1>2
<1>4. PICK g \in [0 .. N -> Ends(text)] : Recursion(g, N, {0}, step)
  <2> HIDE DEF step, N, Turn
  <2> QED
    BY <1>1, <1>2, <1>3, RecursionHasSolution
<1>5. g[0] = {0}
  BY <1>4 DEF Recursion
<1>6. ASSUME NEW n \in 1 .. N PROVE g[n] = Turn(g[n - 1], n)
  <2>1. n - 1 \in 0 .. N
    BY <1>1
  <2>2. g[n] = step[n][g[n - 1]]
    BY <1>4 DEF Recursion
  <2> HIDE DEF Turn, N
  <2> QED
    BY <1>4, <2>1, <2>2
<1> HIDE DEF step, N, Turn
<1>7. Loop(g)
  BY <1>4, <1>5, <1>6
<1>8. Loop(f)
  BY <1>7
<1> HIDE DEF f
<1>9. /\ f[0] = {0}
      /\ \A n \in 1 .. N : f[n] = Turn(f[n - 1], n)
  <2>1. 0 \in 0 .. N /\ \A n \in 1 .. N : n \in 0 .. N /\ n # 0
    BY <1>1
  <2> QED
    BY <1>8, <2>1
<1>10. \A n \in 0 .. N : f[n] = g[n]
  <2> DEFINE S == {n \in Nat : n <= N => f[n] = g[n]}
  <2>1. 0 \in S
    BY <1>9, <1>5
  <2>2. ASSUME NEW n \in Nat, n \in S PROVE n + 1 \in S
    <3>1. CASE n + 1 \in 1 .. N
      <4>1. (n + 1) - 1 = n /\ f[n] = g[n]
        BY <3>1, <2>2, <1>1
      <4>2. f[n + 1] = Turn(f[n], n + 1) /\ g[n + 1] = Turn(g[n], n + 1)
        BY <3>1, <1>6, <1>9, <4>1
      <4> QED
        BY <4>1, <4>2
    <3>2. CASE n + 1 \notin 1 .. N
      BY <3>2, <1>1
    <3> QED
      BY <3>1, <3>2
  <2> HIDE DEF S
  <2>3. Nat \subseteq S
    BY <2>1, <2>2, Induction
  <2> QED
    BY <2>3, <1>1 DEF S
<1>11. Glob(text, w) = f[N]
  BY DEF Glob, Further, f, N, Turn
<1>12. GlobStages(text, w, g)
  BY <1>1, <1>4, <1>5, <1>6, <1>10, <1>11 DEF GlobStages, N, Turn
<1> QED
  BY <1>12

-----------------------------------------------------------------------------
(* Glob one character at a time, and stars that follow each other.          *)
LEMMA FurtherType ==
  ASSUME NEW text, text \in Seq(Chars), NEW s \in Ends(text), NEW c
  PROVE  Further(text, s, c) \in Ends(text)
BY DEF Ends, Further

LEMMA StarTwice ==
  ASSUME NEW text, text \in Seq(Chars), NEW s \in Ends(text)
  PROVE  Further(text, Further(text, s, Star), Star) = Further(text, s, Star)
<1>1. Further(text, s, Star) = {j \in 0 .. Len(text) : \E k \in s : k <= j}
  BY DEF Further
<1>2. Further(text, Further(text, s, Star), Star) =
        {j \in 0 .. Len(text) : \E k \in Further(text, s, Star) : k <= j}
  BY DEF Further
<1>3. s \subseteq 0 .. Len(text) /\ Len(text) \in Nat
  BY DEF Ends
<1>4. ASSUME NEW j \in 0 .. Len(text)
      PROVE  (\E k \in Further(text, s, Star) : k <= j) <=> (\E k \in s : k <= j)
  <2>1. ASSUME NEW k \in s, k <= j PROVE \E m \in Further(text, s, Star) : m <= j
    <3>1. k \in Further(text, s, Star)
      BY <2>1, <1>1, <1>3
    <3> QED
      BY <3>1, <2>1
  <2>2. ASSUME NEW m \in Further(text, s, Star), m <= j PROVE \E k \in s : k <= j
    BY <2>2, <1>1, <1>3
  <2> QED
    BY <2>1, <2>2
<1> QED
  BY <1>1, <1>2, <1>4

LEMMA GlobEmpty ==
  ASSUME NEW text, text \in Seq(Chars), NEW w \in Seq(All), Len(w) = 0
  PROVE  Glob(text, w) = {0}
BY GlobHasStages DEF GlobStages

LEMMA GlobAppend ==
  ASSUME NEW text, text \in Seq(Chars), NEW u \in Seq(All), NEW c \in All
  PROVE  /\ Glob(text, u) \in Ends(text)
         /\ Glob(text, Append(u, c)) = Further(text, Glob(text, u), c)
<1> DEFINE w == Append(u, c)
           N == Len(u)
<1>1. /\ w \in Seq(All) /\ N \in Nat /\ Len(w) = N + 1 /\ w[N + 1] = c
      /\ \A n \in 1 .. N : w[n] = u[n]
  OBVIOUS
<1> HIDE DEF w
<1>2. PICK g : GlobStages(text, u, g)
  BY GlobHasStages
<1>3. PICK h : GlobStages(text, w, h)
  BY <1>1, GlobHasStages
<1> DEFINE S == {n \in Nat : n <= N => h[n] = g[n]}
<1>4. 0 \in S
  BY <1>2, <1>3 DEF GlobStages
<1>5. ASSUME NEW n \in Nat, n \in S PROVE n + 1 \in S
  <2>1. CASE n + 1 <= N
    <3>1. n + 1 \in 1 .. N /\ n + 1 \in 1 .. Len(w) /\ (n + 1) - 1 = n
      BY <2>1, <1>1
    <3>2. h[n + 1] = Further(text, h[n], w[n + 1])
      BY <1>3, <3>1 DEF GlobStages
    <3>3. g[n + 1] = Further(text, g[n], u[n + 1])
      BY <1>2, <3>1 DEF GlobStages
    <3> QED
      BY <3>1, <3>2, <3>3, <1>1, <1>5
  <2> QED
    BY <2>1, <1>1
<1>6. h[N] = g[N]
  <2> HIDE DEF S
  <2>1. Nat \subseteq S
    BY <1>4, <1>5, Induction
  <2> QED
    BY <2>1, <1>1 DEF S
<1>7. Glob(text, u) = g[N] /\ g[N] \in Ends(text)
  BY <1>2, <1>1 DEF GlobStages
<1>8. Glob(text, w) = h[N + 1] /\ h[N + 1] = Further(text, h[N], c)
  <2>1. N + 1 \in 1 .. Len(w) /\ (N + 1) - 1 = N
    BY <1>1
  <2> QED
    BY <2>1, <1>1, <1>3 DEF GlobStages
<1> QED
  BY <1>6, <1>7, <1>8 DEF w

(* Merging stars changes nothing in what a pattern means. *)
LEMMA StripKeepsGlob ==
  ASSUME NEW text, text \in Seq(Chars), NEW w \in Seq(All)
  PROVE  /\ stripWildString(w) \in Seq(All)
         /\ Glob(text, stripWildString(w)) = Glob(text, w)
<1> DEFINE N == Len(w)
<1>1. PICK k : StripStages(w, k)
  BY StripHasStages
<1>2. PICK g : GlobStages(text, w, g)
  BY GlobHasStages
<1>3. N \in Nat /\ \A n \in 1 .. N : w[n] \in All
  OBVIOUS
<1> DEFINE S == {n \in Nat : n <= N => Glob(text, k[n]) = g[n]}
<1>4. 0 \in S
  <2>1. k[0] = <<>> /\ g[0] = {0}
    BY <1>1, <1>2 DEF StripStages, GlobStages
  <2>2. Glob(text, <<>>) = {0}
    <3>1. <<>> \in Seq(All) /\ Len(<<>>) = 0
      OBVIOUS
    <3> QED
      BY <3>1, GlobEmpty
  <2> QED
    BY <2>1, <2>2
<1>5. ASSUME NEW n \in Nat, n \in S PROVE n + 1 \in S
  <2> SUFFICES ASSUME n + 1 <= N PROVE Glob(text, k[n + 1]) = g[n + 1]
    OBVIOUS
  <2>1. n + 1 \in 1 .. N /\ (n + 1) - 1 = n /\ n \in 0 .. N
    BY <1>3
  <2>2. g[n + 1] = Further(text, g[n], w[n + 1]) /\ Glob(text, k[n]) = g[n]
    BY <1>2, <2>1, <1>5 DEF GlobStages
  <2>3. CASE n + 1 > 1 /\ w[n + 1] = Star /\ w[n] = Star
    <3>1. k[n + 1] = k[n]
      BY <1>1, <2>1, <2>3 DEF StripStages
    <3>2. n \in 1 .. N /\ n - 1 \in 0 .. N
      BY <2>1, <2>3
    <3>3. g[n] = Further(text, g[n - 1], Star) /\ g[n - 1] \in Ends(text)
      BY <1>2, <2>3, <3>2 DEF GlobStages
    <3> QED
      BY <3>1, <3>3, <2>2, <2>3, StarTwice
  <2>4. CASE ~(n + 1 > 1 /\ w[n + 1] = Star /\ w[n] = Star)
    <3>1. k[n + 1] = Append(k[n], w[n + 1])
      BY <1>1, <2>1, <2>4 DEF StripStages
    <3>2. k[n] \in Seq(All) /\ w[n + 1] \in All
      BY <1>1, <1>3, <2>1 DEF StripStages
    <3> QED
      BY <3>1, <3>2, <2>2, GlobAppend
  <2> QED
    BY <2>3, <2>4
<1>6. Glob(text, k[N]) = g[N]
  <2> HIDE DEF S
  <2>1. Nat \subseteq S
    BY <1>4, <1>5, Induction
  <2> QED
    BY <2>1, <1>3 DEF S
<1> QED
  BY <1>1, <1>2, <1>3, <1>6 DEF StripStages, GlobStages

-----------------------------------------------------------------------------
(* Where the tokens of a pattern can end: q[k] is how much of the text is   *)
(* used up after k of them.  The first one is held to the head of the text  *)
(* if the pattern has no star there.                                        *)
Beyond(text, s, t, atHead) ==
  {e \in 0 .. Len(text) :
     /\ \E d \in s : e - Len(t) \in Fits(text, t, d)
     /\ atHead => e = Len(t)}

Placed(text, q, ts, held) ==
  /\ q \in [0 .. Len(ts) -> 0 .. Len(text)]
  /\ q[0] = 0
  /\ \A k \in 1 .. Len(ts) : /\ q[k] - Len(ts[k]) \in Fits(text, ts[k], q[k - 1])
                             /\ held /\ k = 1 => q[k] = Len(ts[k])

EndsOf(text, ts, held) ==
  {e \in 0 .. Len(text) : \E q : Placed(text, q, ts, held) /\ q[Len(ts)] = e}

LEMMA EndsOfNone ==
  ASSUME NEW text, text \in Seq(Chars), NEW ts, Len(ts) = 0, NEW held \in BOOLEAN
  PROVE  EndsOf(text, ts, held) = {0}
<1> DEFINE q == [k \in 0 .. 0 |-> 0]
<1>1. 0 \in 0 .. Len(text)
  OBVIOUS
<1>2. Placed(text, q, ts, held) /\ q[0] = 0
  BY <1>1 DEF Placed
<1> HIDE DEF q
<1> QED
  BY <1>1, <1>2 DEF EndsOf, Placed

LEMMA EndsOfAppend ==
  ASSUME NEW text, text \in Seq(Chars), NEW ts \in Seq(Seq(All)), NEW t \in Seq(All),
         NEW held \in BOOLEAN
  PROVE  EndsOf(text, Append(ts, t), held)
           = Beyond(text, EndsOf(text, ts, held), t, held /\ Len(ts) = 0)
<1> DEFINE us == Append(ts, t)
           N == Len(ts)
<1>1. /\ N \in Nat /\ Len(us) = N + 1 /\ us[N + 1] = t
      /\ \A k \in 1 .. N : us[k] = ts[k]
  OBVIOUS
<1> HIDE DEF us
<1>2. ASSUME NEW e \in EndsOf(text, us, held)
      PROVE  e \in Beyond(text, EndsOf(text, ts, held), t, held /\ N = 0)
  <2>1. PICK q : Placed(text, q, us, held) /\ q[N + 1] = e
    BY <1>1 DEF EndsOf
  <2> DEFINE r == [k \in 0 .. N |-> q[k]]
  <2>2. \A k \in 0 .. N : k \in 0 .. N + 1
    BY <1>1
  <2>3. q \in [0 .. N + 1 -> 0 .. Len(text)] /\ q[0] = 0
    BY <2>1, <1>1 DEF Placed
  <2>4. r \in [0 .. N -> 0 .. Len(text)] /\ r[0] = 0
    BY <2>2, <2>3, <1>1
  <2>5. ASSUME NEW k \in 1 .. N
        PROVE  /\ r[k] - Len(ts[k]) \in Fits(text, ts[k], r[k - 1])
               /\ held /\ k = 1 => r[k] = Len(ts[k])
    <3>1. k \in 1 .. N + 1 /\ k \in 0 .. N /\ k - 1 \in 0 .. N /\ us[k] = ts[k]
      BY <1>1
    <3>2. r[k] = q[k] /\ r[k - 1] = q[k - 1]
      BY <3>1
    <3> QED
      BY <3>1, <3>2, <2>1, <1>1 DEF Placed
  <2>6. Placed(text, r, ts, held) /\ r[N] = q[N]
    <3>1. r[N] = q[N]
      BY <1>1
    <3> HIDE DEF r
    <3> QED
      BY <2>4, <2>5, <3>1 DEF Placed
  <2>7. q[N] \in EndsOf(text, ts, held)
    <3> HIDE DEF r
    <3>1. q[N] \in 0 .. Len(text)
      BY <2>3, <1>1
    <3> QED
      BY <2>6, <3>1 DEF EndsOf
  <2>8. /\ e - Len(t) \in Fits(text, t, q[N])
        /\ held /\ N = 0 => e = Len(t)
    <3>1. N + 1 \in 1 .. Len(us) /\ (N + 1) - 1 = N
      BY <1>1
    <3>2. /\ q[N + 1] - Len(us[N + 1]) \in Fits(text, us[N + 1], q[(N + 1) - 1])
          /\ held /\ N + 1 = 1 => q[N + 1] = Len(us[N + 1])
      BY <2>1, <3>1 DEF Placed
    <3>3. N = 0 => N + 1 = 1
      BY <1>1
    <3> QED
      BY <3>1, <3>2, <3>3, <2>1, <1>1
  <2>9. e \in 0 .. Len(text)
    BY DEF EndsOf
  <2> QED
    BY <2>7, <2>8, <2>9 DEF Beyond
<1>3. ASSUME NEW e \in Beyond(text, EndsOf(text, ts, held), t, held /\ N = 0)
      PROVE  e \in EndsOf(text, us, held)
  <2>1. PICK d \in EndsOf(text, ts, held) : e - Len(t) \in Fits(text, t, d)
    BY DEF Beyond
  <2>2. PICK q : Placed(text, q, ts, held) /\ q[N] = d
    BY <2>1 DEF EndsOf
  <2>3. e \in 0 .. Len(text) /\ (held /\ N = 0 => e = Len(t))
    BY DEF Beyond
  <2> DEFINE r == [k \in 0 .. N + 1 |-> IF k = N + 1 THEN e ELSE q[k]]
  <2>4. q \in [0 .. N -> 0 .. Len(text)] /\ q[0] = 0
    BY <2>2 DEF Placed
  <2>5. r \in [0 .. N + 1 -> 0 .. Len(text)]
    BY <2>3, <2>4, <1>1
  <2>6. /\ r[N + 1] = e
        /\ \A k \in 0 .. N : r[k] = q[k]
    BY <1>1
  <2> HIDE DEF r
  <2>7. ASSUME NEW k \in 1 .. N + 1
        PROVE  /\ r[k] - Len(us[k]) \in Fits(text, us[k], r[k - 1])
               /\ held /\ k = 1 => r[k] = Len(us[k])
    <3>1. CASE k = N + 1
      <4>1. r[k] = e /\ r[k - 1] = d /\ us[k] = t
        BY <3>1, <2>6, <2>2, <1>1
      <4> QED
        BY <4>1, <2>1, <2>3, <3>1, <1>1
    <3>2. CASE k \in 1 .. N
      <4>1. r[k] = q[k] /\ r[k - 1] = q[k - 1] /\ us[k] = ts[k]
        <5>1. k \in 0 .. N /\ k - 1 \in 0 .. N
          BY <3>2, <1>1
        <5> QED
          BY <5>1, <3>2, <2>6, <1>1
      <4> QED
        BY <4>1, <3>2, <2>2 DEF Placed
    <3> QED
      BY <3>1, <3>2, <1>1
  <2>8. r[0] = 0
    BY <2>4, <2>6, <1>1
  <2>9. Placed(text, r, us, held)
    BY <2>5, <2>7, <2>8, <1>1 DEF Placed
  <2> QED
    BY <2>9, <2>6, <2>3, <1>1 DEF EndsOf
<1> QED
  BY <1>2, <1>3 DEF us

(* A token that is one character longer. *)
LEMMA FitsAppend ==
  ASSUME NEW text, text \in Seq(Chars), NEW t \in Seq(All), NEW c \in All,
         NEW pos \in Nat, NEW p \in Nat
  PROVE  p \in Fits(text, Append(t, c), pos) <=>
           /\ p \in Fits(text, t, pos)
           /\ p + Len(t) + 1 <= Len(text)
           /\ text[p + Len(t) + 1] = c
<1> DEFINE N == Len(t)
           L == Len(text)
           u == Append(t, c)
           long == SubSeq(text, p + 1, p + N + 1)
           short == SubSeq(text, p + 1, p + N)
<1>1. /\ N \in Nat /\ L \in Nat /\ u \in Seq(All) /\ Len(u) = N + 1
      /\ u[N + 1] = c /\ \A k \in 1 .. N : u[k] = t[k]
  OBVIOUS
<1>2. CASE p + N + 1 > L
  BY <1>1, <1>2 DEF Fits
<1>3. CASE p + N + 1 <= L
  <2>1. /\ long \in Seq(Chars) /\ Len(long) = N + 1
        /\ \A k \in 1 .. N + 1 : long[k] = text[p + k]
    BY <1>1, <1>3
  <2>2. /\ short \in Seq(Chars) /\ Len(short) = N
        /\ \A k \in 1 .. N : short[k] = text[p + k]
    BY <1>1, <1>3
  <2>3. /\ p \in Fits(text, u, pos) <=> p >= pos /\ long = u
        /\ p \in Fits(text, t, pos) <=> p >= pos /\ short = t
    BY <1>1, <1>3 DEF Fits
  <2> HIDE DEF u, long, short
  <2>4. long = u <=> \A k \in 1 .. N + 1 : text[p + k] = u[k]
    <3>1. long = u <=> \A k \in 1 .. N + 1 : long[k] = u[k]
      <4>1. long \in Seq(Chars) /\ Len(long) = Len(u) /\ Len(u) = N + 1
        BY <2>1, <1>1
      <4> QED
        BY <4>1, <1>1
    <3> QED
      BY <3>1, <2>1
  <2>5. short = t <=> \A k \in 1 .. N : text[p + k] = t[k]
    <3>1. short = t <=> \A k \in 1 .. N : short[k] = t[k]
      <4>1. short \in Seq(Chars) /\ Len(short) = Len(t)
        BY <2>2
      <4> QED
        BY <4>1
    <3> QED
      BY <3>1, <2>2
  <2>6. long = u <=> short = t /\ text[p + N + 1] = c
    <3>1. N + 1 \in 1 .. N + 1 /\ p + (N + 1) = p + N + 1
      BY <1>1
    <3>2. 1 .. N + 1 = (1 .. N) \cup {N + 1}
      BY <1>1
    <3> DEFINE Same(k) == text[p + k] = u[k]
    <3>3. long = u <=> \A k \in 1 .. N + 1 : Same(k)
      BY <2>4
    <3>4. (\A k \in 1 .. N : Same(k)) <=> short = t
      BY <2>5, <1>1
    <3>5. Same(N + 1) <=> text[p + N + 1] = c
      BY <3>1, <1>1
    <3> HIDE DEF Same
    <3>6. (\A k \in 1 .. N + 1 : Same(k)) <=> (\A k \in 1 .. N : Same(k)) /\ Same(N + 1)
      BY <3>2
    <3> QED
      BY <3>3, <3>4, <3>5, <3>6
  <2> QED
    BY <2>3, <2>6, <1>3 DEF u
<1> QED
  BY <1>1, <1>2, <1>3

(* Glob one character further, in terms of the ends of the tokens: a new    *)
(* token after a star, one at the head, and a token that grows.             *)
LEMMA NewToken ==
  ASSUME NEW text, text \in Seq(Chars), NEW s \in Ends(text), NEW c \in All, c # Star
  PROVE  Further(text, Further(text, s, Star), c) = Beyond(text, s, <<c>>, FALSE)
<1> DEFINE L == Len(text)
           t == <<c>>
<1>1. L \in Nat /\ s \subseteq 0 .. L /\ t \in Seq(All) /\ Len(t) = 1
  BY DEF Ends
<1>2. ASSUME NEW j \in 0 .. L
      PROVE  j \in Further(text, Further(text, s, Star), c)
               <=> j >= 1 /\ text[j] = c /\ \E k \in s : k <= j - 1
  BY <1>1 DEF Further
<1>3. ASSUME NEW j \in 0 .. L, NEW d \in s
      PROVE  j - 1 \in Fits(text, t, d) <=> j >= 1 /\ text[j] = c /\ d <= j - 1
  <2>1. d \in Nat /\ <<>> \in Seq(All) /\ Append(<<>>, c) = t /\ Len(<<>>) = 0
    BY <1>1
  <2>2. j - 1 \in Fits(text, t, d) => j - 1 \in Nat
    BY <1>1, <2>1 DEF Fits
  <2>3. CASE j - 1 \in Nat
    <3> DEFINE p == j - 1
    <3>1. PICK z : z \in Seq(All) /\ Append(z, c) = t /\ Len(z) = 0
      BY <2>1
    <3>2. p \in Nat /\ p + Len(z) + 1 = j /\ p + Len(z) = p
      BY <2>3, <3>1, <1>1
    <3> HIDE DEF p
    <3>3. p \in Fits(text, t, d) <=>
            /\ p \in Fits(text, z, d)
            /\ p + Len(z) + 1 <= L
            /\ text[p + Len(z) + 1] = c
      <4>1. p \in Fits(text, Append(z, c), d) <=>
              /\ p \in Fits(text, z, d)
              /\ p + Len(z) + 1 <= L
              /\ text[p + Len(z) + 1] = c
        <5>1. d \in Nat /\ p \in Nat /\ z \in Seq(All) /\ c \in All
          BY <2>1, <3>1, <3>2
        <5> HIDE DEF t
        <5> QED
          BY <5>1, FitsAppend
      <4> QED
        BY <4>1, <3>1
    <3>4. p \in Fits(text, z, d) <=> d <= p
      <4>1. SubSeq(text, p + 1, p) = <<>> /\ z = <<>>
        BY <3>1, <3>2
      <4> QED
        BY <4>1, <2>1, <3>1, <3>2, <1>1 DEF Fits
    <3> QED
      BY <3>2, <3>3, <3>4, <1>1 DEF p
  <2> QED
    BY <2>2, <2>3, <1>1
<1>4. ASSUME NEW j \in 0 .. L
      PROVE  j \in Beyond(text, s, t, FALSE) <=> \E d \in s : j - 1 \in Fits(text, t, d)
  BY <1>1 DEF Beyond
<1>5. ASSUME NEW j \in 0 .. L
      PROVE  j \in Further(text, Further(text, s, Star), c) <=> j \in Beyond(text, s, t, FALSE)
  BY <1>2, <1>3, <1>4
<1>6. /\ Further(text, Further(text, s, Star), c) \subseteq 0 .. L
      /\ Beyond(text, s, t, FALSE) \subseteq 0 .. L
  BY <1>1, FurtherType DEF Ends, Beyond
<1> QED
  BY <1>5, <1>6

LEMMA FirstToken ==
  ASSUME NEW text, text \in Seq(Chars), NEW c \in All, c # Star
  PROVE  Further(text, {0}, c) = Beyond(text, {0}, <<c>>, TRUE)
<1> DEFINE L == Len(text)
<1>1. L \in Nat /\ {0} \in Ends(text)
  BY DEF Ends
<1>2. ASSUME NEW j \in 0 .. L
      PROVE  j \in Further(text, {0}, c) <=> j \in Further(text, Further(text, {0}, Star), c) /\ j = 1
  BY <1>1 DEF Further
<1>3. ASSUME NEW j \in 0 .. L
      PROVE  j \in Beyond(text, {0}, <<c>>, TRUE) <=> j \in Beyond(text, {0}, <<c>>, FALSE) /\ j = 1
  BY <1>1 DEF Beyond
<1>4. Further(text, Further(text, {0}, Star), c) = Beyond(text, {0}, <<c>>, FALSE)
  BY <1>1, NewToken
<1>5. /\ Further(text, {0}, c) \subseteq 0 .. L
      /\ Beyond(text, {0}, <<c>>, TRUE) \subseteq 0 .. L
  BY <1>1, FurtherType DEF Ends, Beyond
<1> QED
  BY <1>2, <1>3, <1>4, <1>5

LEMMA LongerToken ==
  ASSUME NEW text, text \in Seq(Chars), NEW s \in Ends(text), NEW t \in Seq(All),
         NEW c \in All, c # Star, NEW atHead \in BOOLEAN
  PROVE  Further(text, Beyond(text, s, t, atHead), c) = Beyond(text, s, Append(t, c), atHead)
<1> DEFINE L == Len(text)
           N == Len(t)
           u == Append(t, c)
<1>1. L \in Nat /\ s \subseteq 0 .. L /\ N \in Nat /\ u \in Seq(All) /\ Len(u) = N + 1
  BY DEF Ends
<1>2. ASSUME NEW j \in 0 .. L
      PROVE  j \in Further(text, Beyond(text, s, t, atHead), c)
               <=> /\ j >= 1 /\ text[j] = c
                   /\ \E d \in s : j - 1 - N \in Fits(text, t, d)
                   /\ atHead => j - 1 = N
  <2>1. j \in Further(text, Beyond(text, s, t, atHead), c)
          <=> j >= 1 /\ text[j] = c /\ j - 1 \in Beyond(text, s, t, atHead)
    BY <1>1 DEF Further
  <2>2. j >= 1 => /\ j - 1 \in 0 .. L
                  /\ j - 1 \in Beyond(text, s, t, atHead)
                       <=> /\ \E d \in s : j - 1 - N \in Fits(text, t, d)
                           /\ atHead => j - 1 = N
    BY <1>1 DEF Beyond
  <2> QED
    BY <2>1, <2>2
<1>3. ASSUME NEW j \in 0 .. L, NEW d \in s
      PROVE  j - (N + 1) \in Fits(text, u, d)
               <=> j >= 1 /\ text[j] = c /\ j - 1 - N \in Fits(text, t, d)
  <2>1. d \in Nat /\ j - (N + 1) = j - 1 - N
    BY <1>1
  <2>2. /\ j - (N + 1) \in Fits(text, u, d) => j - 1 - N \in Nat
        /\ j - 1 - N \in Fits(text, t, d) => j - 1 - N \in Nat
    BY <1>1, <2>1 DEF Fits
  <2>3. CASE j - 1 - N \in Nat
    <3> DEFINE p == j - 1 - N
    <3>1. p + N + 1 = j /\ j >= 1 /\ j <= L
      BY <2>3, <1>1
    <3> HIDE DEF p
    <3>2. p \in Fits(text, u, d) <=> p \in Fits(text, t, d) /\ p + N + 1 <= L /\ text[p + N + 1] = c
      BY <2>1, <2>3, FitsAppend DEF p
    <3>3. p = j - (N + 1) /\ p = j - 1 - N
      BY <2>1 DEF p
    <3> QED
      BY <3>1, <3>2, <3>3
  <2> QED
    BY <2>1, <2>2, <2>3
<1>4. ASSUME NEW j \in 0 .. L
      PROVE  j \in Beyond(text, s, u, atHead)
               <=> (\E d \in s : j - (N + 1) \in Fits(text, u, d)) /\ (atHead => j = N + 1)
  BY <1>1 DEF Beyond
<1>5. ASSUME NEW j \in 0 .. L
      PROVE  j \in Further(text, Beyond(text, s, t, atHead), c) <=> j \in Beyond(text, s, u, atHead)
  <2>1. (atHead => j - 1 = N) <=> (atHead => j = N + 1)
    BY <1>1
  <2> QED
    BY <1>2, <1>3, <1>4, <2>1
<1>6. /\ Further(text, Beyond(text, s, t, atHead), c) \subseteq 0 .. L
      /\ Beyond(text, s, u, atHead) \subseteq 0 .. L
  <2>1. Beyond(text, s, t, atHead) \in Ends(text)
    BY DEF Ends, Beyond
  <2> QED
    BY <2>1, FurtherType DEF Ends, Beyond
<1> QED
  BY <1>5, <1>6

LEMMA ExtendedLast ==
  ASSUME NEW cs \in Seq(Seq(All)), Len(cs) > 0, NEW c \in All
  PROVE  \E ts \in Seq(Seq(All)), t \in Seq(All) :
           /\ cs = Append(ts, t)
           /\ Extended(cs, c) = Append(ts, Append(t, c))
<1> DEFINE n == Len(cs) - 1
<1>1. n \in Nat /\ Len(cs) = n + 1
  OBVIOUS
<1>2. PICK ts \in Seq(Seq(All)), t \in Seq(All) : cs = Append(ts, t) /\ Len(ts) = n
  BY <1>1, LastElement
<1> HIDE DEF n
<1>3. /\ cs[n + 1] = t
      /\ \A k \in 1 .. n : cs[k] = ts[k]
  BY <1>1, <1>2
<1> DEFINE a == Extended(cs, c)
           b == Append(ts, Append(t, c))
<1>4. Append(t, c) \in Seq(All)
  OBVIOUS
<1>5. /\ b \in Seq(Seq(All)) /\ Len(b) = n + 1 /\ b[n + 1] = Append(t, c)
      /\ \A k \in 1 .. n : b[k] = ts[k]
  BY <1>1, <1>2, <1>4
<1>6. a \in Seq(Seq(All)) /\ Len(a) = n + 1
  <2>1. a \in Seq(Seq(All))
    BY ExtendedType
  <2>2. DOMAIN a = DOMAIN cs
    BY DEF Extended
  <2> HIDE DEF a
  <2> QED
    BY <2>1, <2>2, <1>1
<1>7. /\ a[n + 1] = Append(t, c)
      /\ \A k \in 1 .. n : a[k] = ts[k]
  BY <1>1, <1>3 DEF Extended
<1> HIDE DEF a, b
<1>8. \A k \in 1 .. n + 1 : a[k] = b[k]
  <2>1. 1 .. n + 1 = (1 .. n) \cup {n + 1}
    BY <1>1
  <2> QED
    BY <1>5, <1>7, <2>1
<1>9. a = b
  BY <1>5, <1>6, <1>8
<1> QED
  BY <1>2, <1>9 DEF a, b

(* The tokens of the first n characters of a pattern, and the lengths s of  *)
(* text that are an instance of these characters.                           *)
Held(w) == w[1] # Star

Meaning(text, w, n, ts, s) ==
  /\ ts \in Seq(Seq(All)) /\ Len(ts) <= n
  /\ \A k \in 1 .. Len(ts) : Len(ts[k]) > 0
  /\ Held(w) => Len(ts) > 0
  /\ w[n] # Star => Len(ts) > 0 /\ s = EndsOf(text, ts, Held(w))
  /\ w[n] = Star => s = Further(text, EndsOf(text, ts, Held(w)), Star)

LEMMA EndsOfType ==
  ASSUME NEW text, NEW ts, NEW held
  PROVE  EndsOf(text, ts, held) \in Ends(text)
BY DEF EndsOf, Ends

LEMMA MeaningOfOne ==
  ASSUME NEW text, text \in Seq(Chars), NEW w \in Seq(All), Len(w) > 0,
         NEW g, GlobStages(text, w, g), NEW c, SplitStages(w, c)
  PROVE  Meaning(text, w, 1, c[1], g[1])
<1>1. 1 \in 1 .. Len(w) /\ w[1] \in All /\ 1 - 1 = 0
  OBVIOUS
<1>2. c[0] = <<>> /\ c[1] \in Seq(Seq(All)) /\ g[0] = {0}
  BY <1>1 DEF GlobStages, SplitStages
<1>3. g[1] = Further(text, {0}, w[1])
  BY <1>1, <1>2 DEF GlobStages
<1> DEFINE none == <<>>
<1>4. none \in Seq(Seq(All)) /\ Len(none) = 0 /\ c[0] = none
  BY <1>2
<1> HIDE DEF none
<1>5. EndsOf(text, none, Held(w)) = {0}
  BY <1>4, EndsOfNone DEF Held
<1>6. CASE w[1] = Star
  <2>1. c[1] = none
    BY <1>1, <1>4, <1>6 DEF SplitStages
  <2> QED
    <3>1. ~Held(w) /\ 1 .. Len(none) = {}
      BY <1>4, <1>6 DEF Held
    <3>2. g[1] = Further(text, EndsOf(text, none, Held(w)), Star)
      BY <1>3, <1>5, <1>6
    <3> QED
      BY <2>1, <3>1, <3>2, <1>4, <1>6 DEF Meaning
<1>7. CASE w[1] # Star
  <2> DEFINE t == <<w[1]>>
  <2>1. t \in Seq(All) /\ Len(t) = 1
    BY <1>1
  <2>2. c[1] = Append(none, t)
    BY <1>1, <1>4, <1>7 DEF SplitStages
  <2>3. Held(w) = TRUE
    BY <1>7 DEF Held
  <2>4. Beyond(text, {0}, t, TRUE) = g[1]
    BY <1>1, <1>3, <1>7, FirstToken
  <2> HIDE DEF t
  <2>5. EndsOf(text, c[1], TRUE) = Beyond(text, {0}, t, TRUE)
    <3>1. EndsOf(text, Append(none, t), TRUE)
            = Beyond(text, EndsOf(text, none, TRUE), t, TRUE /\ Len(none) = 0)
      BY <2>1, <1>4, EndsOfAppend
    <3>2. (TRUE /\ Len(none) = 0) = TRUE
      BY <1>4
    <3> QED
      BY <3>1, <3>2, <2>2, <2>3, <1>5
  <2>6. Len(c[1]) = 1 /\ c[1][1] = t
    BY <2>1, <2>2, <1>4
  <2> QED
    <3>1. 1 .. Len(c[1]) = {1}
      BY <2>6
    <3>2. g[1] = EndsOf(text, c[1], Held(w))
      BY <2>3, <2>4, <2>5
    <3> QED
      BY <2>1, <2>6, <3>1, <3>2, <1>2, <1>7 DEF Meaning
<1> QED
  BY <1>6, <1>7

LEMMA MeaningOfNext ==
  ASSUME NEW text, text \in Seq(Chars), NEW w \in Seq(All),
         NEW g, GlobStages(text, w, g), NEW c, SplitStages(w, c),
         NEW n \in Nat, n >= 1, n + 1 <= Len(w), Meaning(text, w, n, c[n], g[n])
  PROVE  Meaning(text, w, n + 1, c[n + 1], g[n + 1])
<1> DEFINE h == Held(w)
           cs == c[n]
           ch == w[n + 1]
<1>1. /\ n + 1 \in 1 .. Len(w) /\ (n + 1) - 1 = n /\ n + 1 # 1
      /\ ch \in All /\ h \in BOOLEAN /\ Len(w) \in Nat
  BY DEF Held
<1>2. /\ c[n + 1] \in Seq(Seq(All)) /\ cs \in Seq(Seq(All))
      /\ g[n + 1] = Further(text, g[n], ch)
  <2>1. n \in 0 .. Len(w) /\ n + 1 \in 0 .. Len(w)
    BY <1>1
  <2>2. c[n + 1] \in Seq(Seq(All)) /\ cs \in Seq(Seq(All))
    BY <2>1 DEF SplitStages
  <2>3. g[n + 1] = Further(text, g[(n + 1) - 1], ch)
    BY <1>1 DEF GlobStages
  <2> QED
    BY <2>2, <2>3, <1>1
<1>3. c[n + 1] = IF ch = Star THEN cs
                 ELSE IF w[n] = Star THEN Append(cs, <<ch>>)
                 ELSE Extended(cs, ch)
  BY <1>1 DEF SplitStages
<1> DEFINE s == EndsOf(text, cs, h)
<1>4. s \in Ends(text)
  BY EndsOfType
<1>5. /\ Len(cs) \in Nat /\ Len(cs) <= n
      /\ \A k \in 1 .. Len(cs) : Len(cs[k]) > 0
      /\ h => Len(cs) > 0
      /\ w[n] # Star => Len(cs) > 0 /\ g[n] = s
      /\ w[n] = Star => g[n] = Further(text, s, Star)
  BY <1>2 DEF Meaning
<1>6. CASE ch = Star
  <2>1. c[n + 1] = cs
    BY <1>3, <1>6
  <2>2. g[n + 1] = Further(text, s, Star)
    BY <1>2, <1>4, <1>5, <1>6, StarTwice
  <2> HIDE DEF s
  <2> QED
    BY <2>1, <2>2, <1>1, <1>2, <1>5, <1>6 DEF Meaning, s
<1>7. CASE ch # Star /\ w[n] = Star
  <2> DEFINE t == <<ch>>
             ts == c[n + 1]
  <2>1. t \in Seq(All) /\ Len(t) = 1
    BY <1>1
  <2>2. ts = Append(cs, t)
    BY <1>3, <1>7
  <2>3. g[n + 1] = Beyond(text, s, t, FALSE)
    BY <1>1, <1>2, <1>4, <1>5, <1>7, NewToken
  <2> HIDE DEF t, ts
  <2>4. EndsOf(text, ts, h) = Beyond(text, s, t, h /\ Len(cs) = 0)
    BY <2>1, <2>2, <1>1, <1>2, EndsOfAppend
  <2>5. (h /\ Len(cs) = 0) = FALSE
    BY <1>5
  <2>6. g[n + 1] = EndsOf(text, ts, h)
    BY <2>3, <2>4, <2>5
  <2>7. /\ Len(ts) = Len(cs) + 1
        /\ \A k \in 1 .. Len(ts) : Len(ts[k]) > 0
    <3>1. Len(ts) = Len(cs) + 1 /\ ts[Len(cs) + 1] = t
      BY <2>1, <2>2, <1>2
    <3>2. \A k \in 1 .. Len(cs) : ts[k] = cs[k]
      BY <2>1, <2>2, <1>2
    <3>3. 1 .. Len(cs) + 1 = (1 .. Len(cs)) \cup {Len(cs) + 1}
      BY <1>5
    <3>4. \A k \in (1 .. Len(cs)) \cup {Len(cs) + 1} : Len(ts[k]) > 0
      <4>1. \A k \in 1 .. Len(cs) : Len(ts[k]) > 0
        BY <3>2, <1>5
      <4>2. Len(ts[Len(cs) + 1]) > 0
        BY <3>1, <2>1
      <4> HIDE DEF cs
      <4> QED
        BY <4>1, <4>2
    <3> QED
      BY <3>1, <3>3, <3>4
  <2> QED
    BY <2>6, <2>7, <1>1, <1>2, <1>5, <1>7 DEF Meaning, ts
<1>8. CASE ch # Star /\ w[n] # Star
  <2> DEFINE ts == c[n + 1]
  <2>1. ts = Extended(cs, ch) /\ Len(cs) > 0
    BY <1>3, <1>5, <1>8
  <2>2. PICK p \in Seq(Seq(All)), t \in Seq(All) :
          cs = Append(p, t) /\ Extended(cs, ch) = Append(p, Append(t, ch))
    BY <2>1, <1>1, <1>2, ExtendedLast
  <2> DEFINE u == Append(t, ch)
             first == h /\ Len(p) = 0
  <2>3. u \in Seq(All) /\ Len(u) > 0
    BY <1>1
  <2>4. s = Beyond(text, EndsOf(text, p, h), t, first)
    BY <2>2, <1>1, EndsOfAppend
  <2>5. Further(text, Beyond(text, EndsOf(text, p, h), t, first), ch) = Beyond(text, EndsOf(text, p, h), u, first)
    <3> DEFINE r == EndsOf(text, p, h)
    <3>1. r \in Ends(text)
      BY EndsOfType
    <3>2. t \in Seq(All) /\ ch \in All /\ ch # Star /\ first \in BOOLEAN
      BY <1>1, <1>8
    <3> HIDE DEF r, first
    <3>3. Further(text, Beyond(text, r, t, first), ch)
            = Beyond(text, r, Append(t, ch), first)
      BY <3>1, <3>2, LongerToken
    <3> QED
      BY <3>3 DEF r, first
  <2> HIDE DEF u
  <2>6. EndsOf(text, Append(p, u), h) = Beyond(text, EndsOf(text, p, h), u, first)
    BY <2>3, <1>1, EndsOfAppend
  <2>7. ts = Append(p, u)
    BY <2>1, <2>2 DEF u
  <2> HIDE DEF ts, first
  <2>8. g[n + 1] = EndsOf(text, ts, h)
    BY <2>4, <2>5, <2>6, <2>7, <1>2, <1>5, <1>8
  <2>9. /\ Len(ts) = Len(cs)
        /\ \A k \in 1 .. Len(ts) : Len(ts[k]) > 0
    <3>1. Len(ts) = Len(p) + 1 /\ ts[Len(p) + 1] = u
      BY <2>7, <2>3
    <3>2. Len(cs) = Len(p) + 1 /\ \A k \in 1 .. Len(p) : cs[k] = p[k]
      BY <2>2
    <3>3. \A k \in 1 .. Len(p) : ts[k] = p[k]
      BY <2>7, <2>3
    <3>4. 1 .. Len(p) + 1 = (1 .. Len(p)) \cup {Len(p) + 1}
      OBVIOUS
    <3> QED
      BY <3>1, <3>2, <3>3, <3>4, <2>3, <1>5
  <2> QED
    BY <2>1, <2>8, <2>9, <1>1, <1>2, <1>5, <1>8 DEF Meaning, ts
<1> QED
  BY <1>6, <1>7, <1>8

(* What simpleWildMatch looks for is what the pattern means. *)
LEMMA SplitMeansGlob ==
  ASSUME NEW text, text \in Seq(Chars), NEW w \in Seq(All), Len(w) > 0
  PROVE  Meaning(text, w, Len(w), Split(w), Glob(text, w))
<1> DEFINE N == Len(w)
<1>1. PICK g : GlobStages(text, w, g)
  BY GlobHasStages
<1>2. PICK c : SplitStages(w, c)
  BY SplitHasStages
<1> DEFINE S == {n \in Nat : 1 <= n /\ n <= N => Meaning(text, w, n, c[n], g[n])}
<1>3. 0 \in S
  OBVIOUS
<1>4. ASSUME NEW n \in Nat, n \in S PROVE n + 1 \in S
  <2>1. CASE n = 0
    BY <2>1, <1>1, <1>2, MeaningOfOne
  <2>2. CASE n >= 1 /\ n + 1 <= N
    <3>1. Meaning(text, w, n, c[n], g[n])
      BY <2>2, <1>4
    <3> QED
      BY <3>1, <2>2, <1>1, <1>2, MeaningOfNext
  <2> QED
    BY <2>1, <2>2
<1> HIDE DEF S
<1>5. Nat \subseteq S
  BY <1>3, <1>4, Induction
<1>6. Meaning(text, w, N, c[N], g[N])
  BY <1>5 DEF S
<1> QED
  BY <1>1, <1>2, <1>6 DEF GlobStages, SplitStages

-----------------------------------------------------------------------------
(* What merging the stars of the first n characters leaves: it ends as they *)
(* do, no two stars follow each other at its end, and a text that is not    *)
(* shorter is the same.                                                     *)
Merged(w, n, s) ==
  /\ s \in Seq(All) /\ Len(s) <= n
  /\ n > 0 => Len(s) > 0 /\ s[Len(s)] = w[n]
  /\ Len(s) > 1 /\ s[Len(s)] = Star => s[Len(s) - 1] # Star
  /\ Len(s) = n => \A k \in 1 .. n : s[k] = w[k]

LEMMA MergedNext ==
  ASSUME NEW w \in Seq(All), NEW k, StripStages(w, k),
         NEW n \in Nat, n + 1 <= Len(w), Merged(w, n, k[n])
  PROVE  Merged(w, n + 1, k[n + 1])
<1> DEFINE s == k[n]
           c == w[n + 1]
           r == k[n + 1]
<1>1. /\ n + 1 \in 1 .. Len(w) /\ (n + 1) - 1 = n /\ c \in All
      /\ n \in 0 .. Len(w) /\ n + 1 \in 0 .. Len(w)
  OBVIOUS
<1>2. s \in Seq(All) /\ r \in Seq(All)
  BY <1>1 DEF StripStages
<1>3. r = IF n + 1 > 1 /\ c = Star /\ w[n] = Star THEN s ELSE Append(s, c)
  BY <1>1 DEF StripStages
<1>4. /\ Len(s) \in Nat /\ Len(s) <= n
      /\ n > 0 => Len(s) > 0 /\ s[Len(s)] = w[n]
      /\ Len(s) > 1 /\ s[Len(s)] = Star => s[Len(s) - 1] # Star
      /\ Len(s) = n => \A m \in 1 .. n : s[m] = w[m]
  BY <1>2 DEF Merged
<1>5. CASE n + 1 > 1 /\ c = Star /\ w[n] = Star
  <2>1. r = s /\ n > 0
    BY <1>3, <1>5
  <2> HIDE DEF s, r
  <2> QED
    BY <2>1, <1>1, <1>2, <1>4, <1>5 DEF Merged, r
<1>6. CASE ~(n + 1 > 1 /\ c = Star /\ w[n] = Star)
  <2>1. r = Append(s, c)
    BY <1>3, <1>6
  <2> HIDE DEF s, r, c
  <2>2. /\ Len(r) = Len(s) + 1 /\ r[Len(s) + 1] = c
        /\ \A m \in 1 .. Len(s) : r[m] = s[m]
    BY <2>1, <1>1, <1>2
  <2>3. Len(r) > 1 /\ r[Len(r)] = Star => r[Len(r) - 1] # Star
    <3> SUFFICES ASSUME Len(r) > 1, r[Len(r)] = Star PROVE r[Len(r) - 1] # Star
      OBVIOUS
    <3>1. c = Star /\ Len(s) \in 1 .. Len(s) /\ n > 0
      BY <2>2, <1>4
    <3>2. w[n] # Star /\ s[Len(s)] = w[n]
      BY <3>1, <1>4, <1>6
    <3>3. r[Len(r) - 1] = s[Len(s)]
      BY <3>1, <2>2, <1>4
    <3> QED
      BY <3>2, <3>3
  <2>4. Len(r) = n + 1 => \A m \in 1 .. n + 1 : r[m] = w[m]
    <3> SUFFICES ASSUME Len(r) = n + 1 PROVE \A m \in 1 .. n + 1 : r[m] = w[m]
      OBVIOUS
    <3>1. Len(s) = n /\ \A m \in 1 .. n : s[m] = w[m] /\ r[m] = s[m]
      BY <2>2, <1>4
    <3>2. r[n + 1] = w[n + 1]
      BY <3>1, <2>2 DEF c
    <3>3. 1 .. n + 1 = (1 .. n) \cup {n + 1}
      OBVIOUS
    <3> QED
      BY <3>1, <3>2, <3>3
  <2>5. r[Len(r)] = w[n + 1]
    BY <2>2 DEF c
  <2> QED
    BY <2>2, <2>3, <2>4, <2>5, <1>2, <1>4 DEF Merged, r
<1> QED
  BY <1>5, <1>6

LEMMA StripMerges ==
  ASSUME NEW w \in Seq(All)
  PROVE  Merged(w, Len(w), stripWildString(w))
<1> DEFINE N == Len(w)
<1>1. PICK k : StripStages(w, k)
  BY StripHasStages
<1> DEFINE S == {n \in Nat : n <= N => Merged(w, n, k[n])}
<1>2. 0 \in S
  <2>1. k[0] \in Seq(All) /\ Len(k[0]) = 0
    BY <1>1 DEF StripStages
  <2> QED
    BY <2>1 DEF Merged
<1>3. ASSUME NEW n \in Nat, n \in S PROVE n + 1 \in S
  <2>1. ASSUME n + 1 <= N PROVE Merged(w, n + 1, k[n + 1])
    <3>1. Merged(w, n, k[n])
      BY <2>1, <1>3
    <3> QED
      BY <3>1, <2>1, <1>1, MergedNext
  <2> QED
    BY <2>1
<1> HIDE DEF S
<1>4. Nat \subseteq S
  BY <1>2, <1>3, Induction
<1>5. Merged(w, N, k[N])
  BY <1>4 DEF S
<1> QED
  BY <1>1, <1>5 DEF StripStages

(* A text has no pad in it, so a pattern that ends in one has no instance.  *)
LEMMA PaddedMeansNothing ==
  ASSUME NEW text, text \in Seq(Chars), NEW w \in Seq(All), Len(w) > 0, w[Len(w)] = Nul
  PROVE  Glob(text, w) = {}
<1>1. PICK g : GlobStages(text, w, g)
  BY GlobHasStages
<1>2. Glob(text, w) = Further(text, g[Len(w) - 1], Nul)
  <2>1. Len(w) \in 1 .. Len(w)
    OBVIOUS
  <2> QED
    BY <1>1, <2>1 DEF GlobStages
<1>3. \A j \in 1 .. Len(text) : text[j] # Nul
  BY WildMatchAssumption
<1> QED
  BY <1>2, <1>3, WildMatchAssumption DEF Further

(* Only stars accept the empty text. *)
LEMMA EmptyText ==
  ASSUME NEW text, text \in Seq(Chars), Len(text) = 0,
         NEW w \in Seq(All), Len(w) > 0, w # <<Star>>,
         Len(w) > 1 /\ w[Len(w)] = Star => w[Len(w) - 1] # Star
  PROVE  Glob(text, w) = {}
<1> DEFINE N == Len(w)
<1>1. PICK g : GlobStages(text, w, g)
  BY GlobHasStages
<1>2. ASSUME NEW n \in 1 .. N PROVE g[n] = Further(text, g[n - 1], w[n])
  BY <1>1 DEF GlobStages
<1>3. \A s, c : c # Star => Further(text, s, c) = {}
  BY DEF Further
<1>4. Further(text, {}, Star) = {}
  BY DEF Further
<1>5. N \in 1 .. N /\ Glob(text, w) = g[N]
  BY <1>1 DEF GlobStages
<1>6. CASE w[N] # Star
  BY <1>2, <1>3, <1>5, <1>6
<1>7. CASE w[N] = Star
  <2>1. N # 1
    <3>1. ASSUME N = 1 PROVE w = <<Star>>
      BY <3>1, <1>7
    <3> QED
      BY <3>1
  <2>2. N - 1 \in 1 .. N /\ w[N - 1] # Star
    <3>1. N \in Nat /\ N > 0
      OBVIOUS
    <3>2. N > 1
      BY <3>1, <2>1
    <3>3. w[Len(w) - 1] # Star
      BY <3>2, <1>7
    <3> QED
      BY <3>2, <3>3
  <2>3. g[N - 1] = {}
    BY <2>2, <1>2, <1>3
  <2> QED
    BY <2>3, <1>2, <1>4, <1>5, <1>7
<1> QED
  BY <1>6, <1>7

LEMMA StarsSplitIntoNothing ==
  ASSUME NEW w \in Seq(All), Len(w) = 1, w[1] = Star
  PROVE  Len(Split(w)) = 0
<1>1. PICK c : SplitStages(w, c)
  BY SplitHasStages
<1>2. Split(w) = c[1] /\ c[0] = <<>> /\ 1 \in 1 .. Len(w) /\ 1 - 1 = 0
  BY <1>1 DEF SplitStages
<1>3. c[1] = c[0]
  BY <1>1, <1>2 DEF SplitStages
<1> QED
  BY <1>2, <1>3

-----------------------------------------------------------------------------
(* Where the first k tokens of a pattern can end. *)
EndsUpto(text, w, k) == EndsOf(text, SubSeq(Split(w), 1, k), Held(w))

Least(x, s) == x \in s /\ \A y \in s : x <= y

LEMMA SplitType ==
  ASSUME NEW w \in Seq(All)
  PROVE  Split(w) \in Seq(Seq(All))
<1>1. PICK c : SplitStages(w, c)
  BY SplitHasStages
<1> QED
  BY <1>1 DEF SplitStages

LEMMA SameSequence ==
  ASSUME NEW S, NEW q \in Seq(S), NEW r \in Seq(S), Len(q) = Len(r),
         \A n \in 1 .. Len(q) : q[n] = r[n]
  PROVE  q = r
OBVIOUS

LEMMA UptoNone ==
  ASSUME NEW text, text \in Seq(Chars), NEW w \in Seq(All)
  PROVE  EndsUpto(text, w, 0) = {0}
<1>1. Len(SubSeq(Split(w), 1, 0)) = 0
  BY SplitType
<1>2. Held(w) \in BOOLEAN
  BY DEF Held
<1> QED
  BY <1>1, <1>2, EndsOfNone DEF EndsUpto

LEMMA UptoAll ==
  ASSUME NEW text, NEW w \in Seq(All)
  PROVE  EndsUpto(text, w, Len(Split(w))) = EndsOf(text, Split(w), Held(w))
<1> DEFINE ts == Split(w)
<1>1. ts \in Seq(Seq(All))
  BY SplitType
<1> HIDE DEF ts
<1>2. SubSeq(ts, 1, Len(ts)) = ts
  BY <1>1
<1> QED
  BY <1>2 DEF EndsUpto, ts

LEMMA UptoNext ==
  ASSUME NEW text, text \in Seq(Chars), NEW w \in Seq(All),
         NEW k \in 1 .. Len(Split(w))
  PROVE  EndsUpto(text, w, k)
           = Beyond(text, EndsUpto(text, w, k - 1), Split(w)[k], Held(w) /\ k = 1)
<1> DEFINE ts == Split(w)
           p == SubSeq(ts, 1, k - 1)
           q == SubSeq(ts, 1, k)
<1>1. ts \in Seq(Seq(All)) /\ Len(ts) \in Nat /\ k \in 1 .. Len(ts)
  BY SplitType
<1> HIDE DEF ts
<1>2. ts[k] \in Seq(All) /\ k - 1 \in Nat /\ k - 1 <= Len(ts)
  BY <1>1
<1>3. /\ p \in Seq(Seq(All)) /\ Len(p) = k - 1
      /\ \A m \in 1 .. k - 1 : p[m] = ts[m]
  BY <1>1, <1>2
<1>4. /\ q \in Seq(Seq(All)) /\ Len(q) = k
      /\ \A m \in 1 .. k : q[m] = ts[m]
  BY <1>1, <1>2
<1> HIDE DEF p, q
<1>5. q = Append(p, ts[k])
  <2> DEFINE r == Append(p, ts[k])
  <2>1. /\ r \in Seq(Seq(All)) /\ Len(r) = k /\ r[k] = ts[k]
        /\ \A m \in 1 .. k - 1 : r[m] = p[m]
    BY <1>2, <1>3
  <2> HIDE DEF r
  <2>2. 1 .. k = (1 .. k - 1) \cup {k}
    BY <1>1
  <2>3. \A m \in 1 .. k : r[m] = q[m]
    BY <2>1, <2>2, <1>3, <1>4
  <2>4. r = q
    BY <2>1, <2>3, <1>4, SameSequence
  <2> QED
    BY <2>4 DEF r
<1>6. Held(w) \in BOOLEAN
  BY DEF Held
<1>7. EndsOf(text, q, Held(w))
        = Beyond(text, EndsOf(text, p, Held(w)), ts[k], Held(w) /\ Len(p) = 0)
  BY <1>2, <1>3, <1>5, <1>6, EndsOfAppend
<1>8. (Held(w) /\ Len(p) = 0) = (Held(w) /\ k = 1)
  BY <1>2, <1>3, <1>6
<1> QED
  BY <1>7, <1>8 DEF EndsUpto, p, q, ts

(* Tokens that cannot be placed are not placed later either, and then the   *)
(* pattern has no instance.                                                 *)
LEMMA DeadEnd ==
  ASSUME NEW text, text \in Seq(Chars), NEW w \in Seq(All), Len(w) > 0,
         NEW k \in 0 .. Len(Split(w)), EndsUpto(text, w, k) = {}
  PROVE  Glob(text, w) = {}
<1> DEFINE ts == Split(w)
           S == {n \in Nat : k + n <= Len(ts) => EndsUpto(text, w, k + n) = {}}
<1>1. Len(ts) \in Nat /\ k \in Nat
  BY SplitType
<1>2. 0 \in S
  BY <1>1
<1>3. ASSUME NEW n \in Nat, n \in S PROVE n + 1 \in S
  <2> SUFFICES ASSUME k + (n + 1) <= Len(ts)
               PROVE  EndsUpto(text, w, k + (n + 1)) = {}
    OBVIOUS
  <2> DEFINE m == k + (n + 1)
  <2>1. m \in 1 .. Len(ts) /\ m - 1 = k + n /\ k + n <= Len(ts)
    BY <1>1
  <2>2. EndsUpto(text, w, m - 1) = {}
    BY <2>1, <1>3
  <2> HIDE DEF m
  <2>3. EndsUpto(text, w, m) = Beyond(text, {}, ts[m], Held(w) /\ m = 1)
    <3>1. EndsUpto(text, w, m)
            = Beyond(text, EndsUpto(text, w, m - 1), ts[m], Held(w) /\ m = 1)
      BY <2>1, UptoNext
    <3> QED
      BY <3>1, <2>2
  <2>4. EndsUpto(text, w, m) = {}
    BY <2>3 DEF Beyond
  <2> QED
    BY <2>4 DEF m
<1> HIDE DEF S
<1>4. Nat \subseteq S
  BY <1>2, <1>3, Induction
<1>5. Len(ts) - k \in Nat /\ k + (Len(ts) - k) = Len(ts)
  BY <1>1
<1>6. EndsUpto(text, w, Len(ts)) = {}
  <2>1. PICK n \in Nat : k + n = Len(ts)
    BY <1>5
  <2>2. n \in S
    BY <1>4
  <2> HIDE DEF ts
  <2>3. k + n <= Len(ts)
    BY <2>1, <1>1
  <2> QED
    BY <2>1, <2>2, <2>3 DEF S
<1>7. EndsOf(text, ts, Held(w)) = {}
  BY <1>6, UptoAll
<1>8. Glob(text, w) = {} \/ Glob(text, w) = Further(text, {}, Star)
  BY <1>7, SplitMeansGlob DEF Meaning
<1>9. Further(text, {}, Star) = {}
  BY DEF Further
<1> QED
  BY <1>8, <1>9

(* The turn for token k, when the one before it has the least end it can.   *)
LEMMA FirstFitIsLeast ==
  ASSUME NEW text, text \in Seq(Chars), NEW w \in Seq(All),
         NEW k \in 1 .. Len(Split(w)),
         NEW pos, Least(pos, EndsUpto(text, w, k - 1))
  PROVE  LET t == Split(w)[k]
             fits == Fits(text, t, pos)
         IN /\ fits = {} => EndsUpto(text, w, k) = {}
            /\ \A p : Least(p, fits) =>
                 IF Held(w) /\ k = 1 => p = 0
                   THEN Least(p + Len(t), EndsUpto(text, w, k))
                   ELSE EndsUpto(text, w, k) = {}
<1> DEFINE t == Split(w)[k]
           fits == Fits(text, t, pos)
           s == EndsUpto(text, w, k - 1)
           r == EndsUpto(text, w, k)
           L == Len(text)
           first == Held(w) /\ k = 1
<1>1. t \in Seq(All) /\ Len(t) \in Nat /\ L \in Nat
  BY SplitType
<1>2. s \in Ends(text) /\ Least(pos, s)
  BY EndsOfType DEF EndsUpto
<1>3. r = Beyond(text, s, t, first)
  BY UptoNext
<1>4. k = 1 => s = {0}
  BY UptoNone
<1> HIDE DEF t, s, r
<1>5. pos \in 0 .. L /\ s \subseteq 0 .. L
  BY <1>2 DEF Least, Ends
<1>6. ASSUME NEW e \in r
      PROVE  e \in 0 .. L /\ e - Len(t) \in fits /\ (first => e = Len(t))
  <2>1. PICK d \in s : e - Len(t) \in Fits(text, t, d)
    BY <1>3 DEF Beyond
  <2>2. pos <= d /\ d \in 0 .. L /\ e \in 0 .. L
    BY <2>1, <1>2, <1>3, <1>5 DEF Least, Beyond
  <2>3. e - Len(t) \in fits
    BY <2>1, <2>2, <1>1, <1>5 DEF Fits
  <2> QED
    BY <2>2, <2>3, <1>3 DEF Beyond
<1> HIDE DEF fits
<1>7. fits = {} => r = {}
  BY <1>6
<1>8. ASSUME NEW p, Least(p, fits), first => p = 0
      PROVE  Least(p + Len(t), r)
  <2>1. p \in fits /\ p \in Nat /\ p + Len(t) \in 0 .. L
    BY <1>1, <1>5, <1>8 DEF Least, fits, Fits
  <2>2. p + Len(t) - Len(t) = p
    BY <2>1, <1>1
  <2>3. p + Len(t) - Len(t) \in Fits(text, t, pos)
    BY <2>1, <2>2 DEF fits
  <2>4. first => p + Len(t) = Len(t)
    BY <2>1, <1>1, <1>8
  <2>5. p + Len(t) \in r
    BY <2>1, <2>3, <2>4, <1>2, <1>3 DEF Beyond, Least
  <2>6. ASSUME NEW e \in r PROVE p + Len(t) <= e
    <3>1. e \in 0 .. L /\ p <= e - Len(t)
      BY <1>6, <1>8 DEF Least
    <3> QED
      BY <3>1, <2>1, <1>1
  <2> QED
    BY <2>5, <2>6 DEF Least
<1>9. ASSUME NEW p, Least(p, fits), first, p # 0
      PROVE  r = {}
  <2> SUFFICES ASSUME NEW e \in r PROVE FALSE
    OBVIOUS
  <2>1. e = Len(t) /\ e - Len(t) \in fits
    BY <1>6, <1>9
  <2>2. p <= e - Len(t) /\ p \in fits
    BY <2>1, <1>9 DEF Least
  <2>3. p \in Nat
    BY <2>2, <1>5 DEF fits, Fits
  <2> QED
    BY <2>1, <2>2, <2>3, <1>1, <1>9
<1> QED
  BY <1>7, <1>8, <1>9 DEF t, r, fits

(* A search that has come to the end of the text finds no more tokens. *)
LEMMA TextTooShort ==
  ASSUME NEW text, text \in Seq(Chars), NEW w \in Seq(All), Len(w) > 0,
         NEW k \in 1 .. Len(Split(w)),
         Least(Len(text), EndsUpto(text, w, k - 1))
  PROVE  EndsUpto(text, w, k) = {}
<1> DEFINE t == Split(w)[k]
           s == EndsUpto(text, w, k - 1)
           L == Len(text)
<1>1. t \in Seq(All) /\ Len(t) \in Nat /\ Len(t) > 0 /\ L \in Nat
  <2>1. Split(w) \in Seq(Seq(All))
    BY SplitType
  <2>2. \A m \in 1 .. Len(Split(w)) : Len(Split(w)[m]) > 0
    BY SplitMeansGlob DEF Meaning
  <2>3. Split(w)[k] \in Seq(All)
    BY <2>1
  <2> QED
    BY <2>2, <2>3
<1>2. EndsUpto(text, w, k) = Beyond(text, s, t, Held(w) /\ k = 1)
  BY UptoNext
<1>3. s \in Ends(text)
  BY EndsOfType DEF EndsUpto
<1> HIDE DEF t, s
<1>4. s \subseteq {L}
  BY <1>1, <1>3 DEF Least, Ends, s
<1>5. Fits(text, t, L) = {}
  BY <1>1 DEF Fits
<1> QED
  BY <1>2, <1>4, <1>5 DEF Beyond

-----------------------------------------------------------------------------
(* Where the m_wild entry comes from. *)
PatternSource ==
  /\ source = "none" => wild = <<Star>>
  /\ source \in {"NAME", "PHYSICAL"} => wild = stripWildString(written)
  /\ source \in Ids => wild = Resize(stripWildString(written), IdSize(written))
  /\ source = "profile" => wild = written

(* The loop has placed all tokens before the i-th, as early as they can be. *)
Searching ==
  /\ result = "unset" => i = 0
  /\ i = 0 => searchPos = 0
  /\ i > 0 => /\ Len(tokens) > 0 /\ i <= Len(tokens) + 1
              /\ Least(searchPos, EndsUpto(toTest, usedWild, i - 1))

(* What an answer says about the pattern that was used. *)
Accepts == Len(usedWild) = 0 \/ Len(toTest) \in Glob(toTest, usedWild)

Rejects == /\ Len(usedWild) > 0
           /\ usedWild[Len(usedWild)] = Star
                => Len(toTest) \notin Glob(toTest, usedWild)

Answered ==
  /\ result = "match" => Accepts
  /\ result = "mismatch" => Rejects

WildInv == TypeOK /\ PatternSource /\ Searching /\ Answered

LEMMA TextsType ==
  ASSUME NEW n \in Nat, NEW S, NEW t \in Texts(n, S)
  PROVE  t \in Seq(S) /\ Len(t) <= n
<1>1. PICK k \in 0 .. n : t \in [1 .. k -> S]
  BY DEF Texts
<1> QED
  BY <1>1

LEMMA ResizeType ==
  ASSUME NEW s \in Seq(All), NEW n \in Nat
  PROVE  Resize(s, n) \in Seq(All) /\ Len(Resize(s, n)) = n
BY DEF Resize, All

(* The pattern in use, and that it has no more tokens than it may have      *)
(* characters.                                                              *)
LEMMA PatternType ==
  ASSUME TypeOK, PatternSource
  PROVE  /\ toTest \in Seq(Chars)
         /\ written \in Seq(All) /\ Len(written) <= MaxWild
         /\ wild \in Seq(All) /\ usedWild \in Seq(All)
         /\ tokens \in Seq(Seq(All)) /\ Len(tokens) <= MaxWild
<1>1. MaxText \in Nat /\ MaxWild \in Nat /\ IdLength \in Nat
  BY WildMatchAssumption
<1>2. toTest \in Seq(Chars)
  BY <1>1, TextsType DEF TypeOK
<1>3. written \in Seq(All) /\ Len(written) <= MaxWild
  <2>1. written \in Seq(Chars \cup {Star}) /\ Len(written) <= MaxWild
    BY <1>1, TextsType DEF TypeOK
  <2> QED
    BY <2>1 DEF All
<1>4. wild \in Seq(All)
  BY DEF TypeOK, All
<1>5. usedWild \in Seq(All) /\ Len(usedWild) <= Len(wild)
  BY <1>4, StripMerges DEF Merged, usedWild
<1>6. tokens \in Seq(Seq(All))
  BY <1>5, SplitType DEF tokens
<1>7. Len(tokens) <= Len(usedWild)
  <2>1. CASE Len(usedWild) > 0
    BY <2>1, <1>2, <1>5, SplitMeansGlob DEF Meaning, tokens
  <2>2. CASE Len(usedWild) = 0
    <3>1. PICK c : SplitStages(usedWild, c)
      BY <1>5, SplitHasStages
    <3>2. tokens = <<>>
      BY <3>1, <2>2 DEF SplitStages, tokens
    <3> QED
      BY <3>2, <2>2
  <2> QED
    BY <2>1, <2>2, <1>5
<1>8. CASE source = "none"
  <2>1. wild = <<Star>>
    BY <1>8 DEF PatternSource
  <2>2. Len(wild) = 1 /\ wild[1] = Star
    BY <2>1
  <2>3. Len(usedWild) = 1 /\ usedWild[1] = Star
    <3>1. Merged(wild, Len(wild), usedWild)
      BY <1>4, StripMerges DEF usedWild
    <3>2. Len(usedWild) > 0 /\ usedWild[Len(usedWild)] = wild[1]
      BY <3>1, <2>2 DEF Merged
    <3>3. Len(usedWild) = 1
      <4>1. Len(usedWild) \in Nat /\ Len(usedWild) <= 1
        BY <2>2, <1>5
      <4>2. \A k \in Nat : k <= 1 /\ k > 0 => k = 1
        OBVIOUS
      <4>3. Len(usedWild) > 0
        BY <3>2
      <4> QED
        BY <4>1, <4>2, <4>3
    <3> QED
      BY <3>2, <3>3, <2>2
  <2>4. Len(tokens) = 0
    BY <2>3, <1>5, StarsSplitIntoNothing DEF tokens
  <2> QED
    BY <2>4, <1>1, <1>2, <1>3, <1>4, <1>5, <1>6
<1>9. CASE source # "none"
  <2>1. Len(wild) <= Len(written)
    <3>1. stripWildString(written) \in Seq(All)
          /\ Len(stripWildString(written)) <= Len(written)
      BY <1>3, StripMerges DEF Merged
    <3>2. IdSize(written) \in Nat /\ IdSize(written) <= Len(written)
      BY <1>1, <1>3 DEF IdSize
    <3>3. Len(Resize(stripWildString(written), IdSize(written))) = IdSize(written)
      BY <3>1, <3>2, ResizeType
    <3>4. source \in WildIndex \cup {"profile"}
      BY <1>9 DEF TypeOK
    <3> QED
      BY <3>1, <3>2, <3>3, <3>4, <1>3 DEF PatternSource, WildIndex, Ids
  <2>2. Len(wild) \in Nat /\ Len(usedWild) \in Nat /\ Len(tokens) \in Nat /\ Len(written) \in Nat
    BY <1>3, <1>4, <1>5, <1>6
  <2> QED
    BY <2>1, <2>2, <1>1, <1>2, <1>3, <1>4, <1>5, <1>6, <1>7
<1> QED
  BY <1>8, <1>9

-----------------------------------------------------------------------------
(* The steps. *)
LEMMA InitWild ==
  ASSUME Init
  PROVE  WildInv
<1>1. MaxText \in Nat /\ MaxWild \in Nat
  BY WildMatchAssumption
<1>2. toTest \in Seq(Chars) /\ Len(toTest) \in Nat
  <2>1. toTest \in Seq(Chars)
    BY <1>1, TextsType DEF Init
  <2> QED
    BY <2>1
<1>3. wild \in Seq(Chars \cup {Star, Nul})
  BY DEF Init
<1>4. TypeOK
  BY <1>1, <1>2, <1>3 DEF Init, TypeOK
<1>5. PatternSource
  BY DEF Init, PatternSource, Ids
<1>6. Searching
  BY DEF Init, Searching
<1> QED
  BY <1>4, <1>5, <1>6 DEF WildInv, Answered, Init

(* A pattern is taken: the search has not begun. *)
LEMMA TakePattern ==
  ASSUME WildInv, result = "unset", result' = "running",
         UNCHANGED <<written, toTest, i, searchPos>>,
         wild' \in Seq(All), source' \in WildIndex \cup {"none", "profile"},
         PatternSource'
  PROVE  WildInv'
<1>1. i = 0 /\ searchPos = 0
  BY DEF WildInv, Searching
<1>2. TypeOK'
  BY DEF WildInv, TypeOK, All
<1>3. Searching'
  BY <1>1 DEF Searching
<1> QED
  BY <1>2, <1>3 DEF WildInv, Answered

LEMMA StripType ==
  ASSUME TypeOK
  PROVE  written \in Seq(All) /\ stripWildString(written) \in Seq(All)
<1>1. MaxWild \in Nat
  BY WildMatchAssumption
<1>2. written \in Seq(Chars \cup {Star})
  BY <1>1, TextsType DEF TypeOK
<1>3. written \in Seq(All)
  BY <1>2 DEF All
<1> QED
  BY <1>3, StripMerges DEF Merged

LEMMA SetWildKeeps ==
  ASSUME WildInv, NEW index \in WildIndex, setWild(index)
  PROVE  WildInv'
<1>1. written \in Seq(All) /\ stripWildString(written) \in Seq(All)
  BY StripType DEF WildInv
<1>2. IdSize(written) \in Nat
  BY <1>1, WildMatchAssumption DEF IdSize
<1>3. Resize(stripWildString(written), IdSize(written)) \in Seq(All)
  BY <1>1, <1>2, ResizeType
<1>4. /\ source' = index /\ written' = written
      /\ wild' = IF index \in Ids THEN Resize(stripWildString(written), IdSize(written))
                                  ELSE stripWildString(written)
  BY DEF setWild
<1>5. PatternSource'
  BY <1>4 DEF PatternSource, WildIndex, Ids
<1>6. wild' \in Seq(All)
  BY <1>1, <1>3, <1>4
<1> QED
  BY <1>4, <1>5, <1>6, TakePattern DEF setWild

LEMMA ReadSelfKeeps ==
  ASSUME WildInv, readSelf
  PROVE  WildInv'
<1>1. written \in Seq(All) /\ <<Star>> \in Seq(All)
  BY StripType DEF WildInv, All
<1>2. /\ wild' \in {written, <<Star>>} /\ written' = written
      /\ source' = IF wild' = written THEN "profile" ELSE "none"
  BY DEF readSelf
<1>3. PatternSource'
  BY <1>2 DEF PatternSource, Ids
<1>4. wild' \in Seq(All)
  BY <1>1, <1>2
<1> QED
  BY <1>2, <1>3, <1>4, TakePattern DEF readSelf

LEMMA PatternKept ==
  ASSUME WildInv, UNCHANGED arguments
  PROVE  /\ PatternSource'
         /\ toTest' = toTest /\ usedWild' = usedWild /\ tokens' = tokens
BY DEF arguments, WildInv, PatternSource, usedWild, tokens

LEMMA AnswerKeeps ==
  ASSUME WildInv, result = "running", NEW m \in BOOLEAN, Answer(m),
         m => Accepts, ~m => Rejects
  PROVE  WildInv'
<1>1. /\ UNCHANGED arguments /\ i' = i /\ searchPos' = searchPos
      /\ result' = IF m THEN "match" ELSE "mismatch"
  BY DEF Answer
<1>2. /\ PatternSource'
      /\ toTest' = toTest /\ usedWild' = usedWild /\ tokens' = tokens
  BY <1>1, PatternKept
<1>3. TypeOK'
  BY <1>1, <1>2 DEF WildInv, TypeOK, arguments
<1>4. Searching'
  BY <1>1, <1>2 DEF WildInv, Searching
<1>5. Accepts' = Accepts /\ Rejects' = Rejects
  BY <1>2 DEF Accepts, Rejects
<1>6. Answered'
  BY <1>1, <1>5 DEF Answered
<1> QED
  BY <1>2, <1>3, <1>4, <1>6 DEF WildInv

(* The facts about the pattern that every step of the search needs. *)
LEMMA InUse ==
  ASSUME WildInv
  PROVE  /\ toTest \in Seq(Chars) /\ Len(toTest) \in Nat
         /\ usedWild \in Seq(All) /\ Len(usedWild) \in Nat
         /\ Len(tokens) \in Nat /\ Len(tokens) <= MaxWild /\ MaxWild \in Nat
         /\ Len(tokens) > 0 => Len(usedWild) > 0
<1>1. /\ toTest \in Seq(Chars) /\ usedWild \in Seq(All)
      /\ tokens \in Seq(Seq(All)) /\ Len(tokens) <= MaxWild
  BY PatternType DEF WildInv
<1>2. MaxWild \in Nat
  BY WildMatchAssumption
<1>3. Len(usedWild) = 0 => Len(tokens) = 0
  <2> SUFFICES ASSUME Len(usedWild) = 0 PROVE Len(tokens) = 0
    OBVIOUS
  <2>1. PICK c : SplitStages(usedWild, c)
    BY <1>1, SplitHasStages
  <2>2. tokens = <<>>
    BY <2>1 DEF SplitStages, tokens
  <2> QED
    BY <2>2
<1> QED
  BY <1>1, <1>2, <1>3

LEMMA StartKeeps ==
  ASSUME WildInv, Start
  PROVE  WildInv'
<1>1. /\ toTest \in Seq(Chars) /\ Len(toTest) \in Nat
      /\ usedWild \in Seq(All) /\ Len(usedWild) \in Nat
      /\ Len(tokens) \in Nat /\ Len(tokens) <= MaxWild /\ MaxWild \in Nat
      /\ Len(tokens) > 0 => Len(usedWild) > 0
  BY InUse
<1>2. result = "running" /\ i = 0 /\ searchPos = 0
  BY DEF Start, WildInv, Searching
<1>3. CASE usedWild = <<>> /\ Answer(TRUE)
  BY <1>2, <1>3, AnswerKeeps DEF Accepts
<1>4. CASE usedWild # <<>> /\ toTest = <<>> /\ Answer(usedWild = <<Star>>)
  <2>1. Len(usedWild) > 0 /\ Len(toTest) = 0
    BY <1>1, <1>4
  <2>2. ASSUME usedWild = <<Star>> PROVE Accepts
    <3>1. Len(usedWild) = 1 /\ usedWild[1] = Star
      BY <2>2
    <3>2. Len(tokens) = 0
      BY <3>1, <1>1, StarsSplitIntoNothing DEF tokens
    <3>3. Glob(toTest, usedWild) = Further(toTest, EndsOf(toTest, tokens, Held(usedWild)), Star)
      <4>1. Len(usedWild) > 0 /\ usedWild[Len(usedWild)] = Star
        BY <3>1
      <4> QED
        BY <4>1, <1>1, SplitMeansGlob DEF Meaning, tokens
    <3>4. EndsOf(toTest, tokens, Held(usedWild)) = {0}
      <4>1. Held(usedWild) \in BOOLEAN
        BY DEF Held
      <4> QED
        BY <4>1, <3>2, <1>1, EndsOfNone
    <3>5. Len(toTest) \in Further(toTest, {0}, Star)
      BY <1>1 DEF Further
    <3> QED
      BY <3>3, <3>4, <3>5 DEF Accepts
  <2>3. ASSUME usedWild # <<Star>> PROVE Rejects
    <3>1. wild \in Seq(All)
      BY PatternType DEF WildInv
    <3>2. Merged(wild, Len(wild), usedWild)
      BY <3>1, StripMerges DEF usedWild
    <3>3. Glob(toTest, usedWild) = {}
      BY <3>2, <2>1, <2>3, <1>1, EmptyText DEF Merged
    <3> QED
      BY <3>3, <2>1 DEF Rejects
  <2>4. (usedWild = <<Star>>) \in BOOLEAN
    OBVIOUS
  <2> QED
    BY <2>2, <2>3, <2>4, <1>2, <1>4, AnswerKeeps
<1>5. CASE usedWild # <<>> /\ toTest # <<>> /\ tokens = <<>> /\ Answer(TRUE)
  <2>1. Len(usedWild) > 0 /\ Len(tokens) = 0
    BY <1>1, <1>5
  <2>2. Glob(toTest, usedWild) = Further(toTest, EndsOf(toTest, tokens, Held(usedWild)), Star)
    BY <2>1, <1>1, SplitMeansGlob DEF Meaning, tokens
  <2>3. EndsOf(toTest, tokens, Held(usedWild)) = {0}
    <3>1. Held(usedWild) \in BOOLEAN
      BY DEF Held
    <3> QED
      BY <3>1, <2>1, <1>1, EndsOfNone
  <2>4. Len(toTest) \in Further(toTest, {0}, Star)
    BY <1>1 DEF Further
  <2>5. Accepts
    BY <2>2, <2>3, <2>4 DEF Accepts
  <2> QED
    BY <2>5, <1>2, <1>5, AnswerKeeps
<1>6. CASE /\ toTest # <<>> /\ tokens # <<>>
           /\ i' = 1
           /\ UNCHANGED <<arguments, searchPos, result>>
  <2>1. /\ PatternSource'
        /\ toTest' = toTest /\ usedWild' = usedWild /\ tokens' = tokens
    BY <1>6, PatternKept
  <2>2. Len(tokens) > 0
    <3>1. tokens \in Seq(Seq(All))
      BY PatternType DEF WildInv
    <3> QED
      BY <3>1, <1>6
  <2>3. TypeOK'
    BY <1>1, <1>6 DEF WildInv, TypeOK, arguments
  <2>4. Least(0, EndsUpto(toTest, usedWild, 0))
    BY <1>1, UptoNone DEF Least
  <2>5. Searching'
    <3>1. result' = "running" /\ i' = 1 /\ searchPos' = 0 /\ 1 - 1 = 0
      BY <1>2, <1>6
    <3> QED
      BY <3>1, <2>1, <2>2, <2>4, <1>1 DEF Searching
  <2>6. Answered'
    BY <1>2, <1>6 DEF Answered
  <2> QED
    BY <2>1, <2>3, <2>5, <2>6 DEF WildInv
<1> QED
  BY <1>3, <1>4, <1>5, <1>6 DEF Start

(* A turn answers only when the tokens have no place in the text. *)
LEMMA SearchKeeps ==
  ASSUME WildInv, Search
  PROVE  WildInv'
<1>1. /\ toTest \in Seq(Chars) /\ Len(toTest) \in Nat
      /\ usedWild \in Seq(All) /\ Len(usedWild) \in Nat
      /\ Len(tokens) \in Nat /\ Len(tokens) <= MaxWild /\ MaxWild \in Nat
      /\ Len(tokens) > 0 => Len(usedWild) > 0
  BY InUse
<1>2. result = "running" /\ i \in 1 .. Len(tokens)
  <2>1. tokens \in Seq(Seq(All))
    BY PatternType DEF WildInv
  <2> QED
    BY <2>1 DEF Search
<1>3. Len(usedWild) > 0 /\ i > 0 /\ i - 1 \in Nat /\ i - 1 + 1 = i /\ i + 1 - 1 = i
  BY <1>1, <1>2
<1> DEFINE t == tokens[i]
           before == EndsUpto(toTest, usedWild, i - 1)
           after == EndsUpto(toTest, usedWild, i)
           fits == Fits(toTest, t, searchPos)
           foundPos == CHOOSE p \in fits : \A q \in fits : p <= q
           fails == \/ fits = {}
                    \/ ~HeadFits(foundPos)
                    \/ After(foundPos) = Len(toTest) /\ i # Len(tokens)
<1>4. IF fails THEN Answer(FALSE)
      ELSE /\ searchPos' = After(foundPos)
           /\ i' = i + 1
           /\ UNCHANGED <<arguments, result>>
  BY DEF Search
<1>5. Least(searchPos, before)
  BY <1>3 DEF WildInv, Searching
<1>6. t \in Seq(All) /\ Len(t) \in Nat
  BY <1>2, PatternType DEF WildInv
<1>7. fits \subseteq Nat
  BY <1>6 DEF Fits, WildInv, TypeOK
<1>8. fits # {} => Least(foundPos, fits)
  <2> SUFFICES ASSUME fits # {} PROVE Least(foundPos, fits)
    OBVIOUS
  <2> HIDE DEF fits
  <2>1. \E p \in fits : \A q \in fits : p <= q
    BY <1>7, LeastMember
  <2> QED
    BY <2>1 DEF Least
<1>9. HeadFits(foundPos) <=> (Held(usedWild) /\ i = 1 => foundPos = 0)
  BY DEF HeadFits, firstNotAny, Held
<1>10. /\ fits = {} => after = {}
       /\ \A p : Least(p, fits) =>
            IF Held(usedWild) /\ i = 1 => p = 0
              THEN Least(p + Len(t), after)
              ELSE after = {}
  BY <1>1, <1>2, <1>5, FirstFitIsLeast DEF tokens
<1>11. After(foundPos) = foundPos + Len(t)
  BY DEF After
<1> HIDE DEF foundPos, fits, after, before, t
<1>12. fits # {} /\ HeadFits(foundPos) => Least(After(foundPos), after)
  BY <1>8, <1>9, <1>10, <1>11
<1>13. CASE fails
  <2>1. Answer(FALSE)
    BY <1>4, <1>13
  <2>2. ASSUME after = {} PROVE Glob(toTest, usedWild) = {}
    BY <2>2, <1>1, <1>2, <1>3, DeadEnd DEF after, tokens
  <2>3. CASE fits = {} \/ ~HeadFits(foundPos)
    <3>1. after = {}
      BY <2>3, <1>8, <1>9, <1>10
    <3> QED
      BY <3>1, <2>2, <2>1, <1>2, <1>3, AnswerKeeps DEF Rejects
  <2>4. CASE /\ fits # {} /\ HeadFits(foundPos)
             /\ After(foundPos) = Len(toTest) /\ i # Len(tokens)
    <3>1. Least(Len(toTest), after)
      BY <2>4, <1>12
    <3>2. i + 1 \in 1 .. Len(tokens)
      BY <2>4, <1>1, <1>2
    <3>3. EndsUpto(toTest, usedWild, i + 1) = {}
      <4>1. Least(Len(toTest), EndsUpto(toTest, usedWild, i + 1 - 1))
        BY <3>1, <1>3 DEF after
      <4> QED
        BY <4>1, <3>2, <1>1, <1>3, TextTooShort DEF tokens
    <3>4. Glob(toTest, usedWild) = {}
      <4>1. i + 1 \in 0 .. Len(tokens)
        BY <3>2
      <4> QED
        BY <4>1, <3>3, <1>1, <1>3, DeadEnd DEF tokens
    <3> QED
      BY <3>4, <2>1, <1>2, <1>3, AnswerKeeps DEF Rejects
  <2> QED
    BY <2>3, <2>4, <1>13
<1>14. CASE ~fails
  <2>1. /\ searchPos' = After(foundPos) /\ i' = i + 1
        /\ UNCHANGED <<arguments, result>>
        /\ Least(After(foundPos), after)
    BY <1>4, <1>12, <1>14
  <2>2. /\ PatternSource'
        /\ toTest' = toTest /\ usedWild' = usedWild /\ tokens' = tokens
    BY <2>1, PatternKept
  <2>3. After(foundPos) \in 0 .. Len(toTest)
    BY <2>1 DEF Least, after, EndsUpto, EndsOf
  <2>4. TypeOK'
    <3>1. i + 1 \in 0 .. MaxWild + 1
      BY <1>1, <1>2
    <3> QED
      BY <3>1, <2>1, <2>3 DEF WildInv, TypeOK, arguments
  <2>5. Searching'
    <3>1. /\ result' = "running" /\ i' > 0 /\ i' # 0 /\ i' <= Len(tokens) + 1
          /\ Len(tokens) > 0 /\ i' - 1 = i
      BY <2>1, <1>1, <1>2
    <3> QED
      BY <3>1, <2>1, <2>2 DEF Searching, after
  <2>6. Answered'
    BY <2>1, <1>2 DEF Answered
  <2> QED
    BY <2>2, <2>4, <2>5, <2>6 DEF WildInv
<1> QED
  BY <1>13, <1>14

(* All tokens are placed, and the last one ends as early as it can. *)
LEMMA FinishKeeps ==
  ASSUME WildInv, Finish
  PROVE  WildInv'
<1>1. /\ toTest \in Seq(Chars) /\ Len(toTest) \in Nat
      /\ usedWild \in Seq(All) /\ Len(usedWild) \in Nat
      /\ Len(tokens) \in Nat /\ Len(tokens) <= MaxWild /\ MaxWild \in Nat
      /\ Len(tokens) > 0 => Len(usedWild) > 0
  BY InUse
<1>2. /\ result = "running" /\ i = Len(tokens) + 1
      /\ Answer(searchPos = Len(toTest) \/ ~lastNotAny)
  BY DEF Finish
<1>3. i > 0 /\ i - 1 = Len(tokens)
  BY <1>1, <1>2
<1> DEFINE ends == EndsOf(toTest, tokens, Held(usedWild))
<1>4. Len(tokens) > 0 /\ Least(searchPos, ends)
  <2>1. EndsUpto(toTest, usedWild, Len(tokens)) = ends
    BY <1>1, UptoAll DEF tokens
  <2> QED
    BY <2>1, <1>3 DEF WildInv, Searching
<1>5. Len(usedWild) > 0
  BY <1>1, <1>4
<1>6. lastNotAny <=> usedWild[Len(usedWild)] # Star
  BY DEF lastNotAny, Last
<1>7. /\ lastNotAny => Glob(toTest, usedWild) = ends
      /\ ~lastNotAny => Glob(toTest, usedWild) = Further(toTest, ends, Star)
  BY <1>1, <1>5, <1>6, SplitMeansGlob DEF Meaning, tokens
<1>8. searchPos \in ends /\ searchPos <= Len(toTest)
  BY <1>4 DEF Least, WildInv, TypeOK
<1> HIDE DEF ends
<1>9. ASSUME searchPos = Len(toTest) \/ ~lastNotAny PROVE Accepts
  <2>1. CASE lastNotAny
    BY <2>1, <1>7, <1>8, <1>9 DEF Accepts
  <2>2. CASE ~lastNotAny
    <3>1. Len(toTest) \in Further(toTest, ends, Star)
      BY <1>1, <1>8 DEF Further
    <3> QED
      BY <3>1, <2>2, <1>7 DEF Accepts
  <2> QED
    BY <2>1, <2>2
<1>10. ASSUME ~(searchPos = Len(toTest) \/ ~lastNotAny) PROVE Rejects
  BY <1>5, <1>6, <1>10 DEF Rejects
<1>11. (searchPos = Len(toTest) \/ ~lastNotAny) \in BOOLEAN
  OBVIOUS
<1> QED
  BY <1>2, <1>9, <1>10, <1>11, AnswerKeeps

-----------------------------------------------------------------------------
(* What an answer about the pattern in use says about the one the user      *)
(* wrote.                                                                   *)
LEMMA ResizeToOwnLength ==
  ASSUME NEW s \in Seq(All)
  PROVE  Resize(s, Len(s)) = s
<1>1. Resize(s, Len(s)) \in Seq(All) /\ Len(Resize(s, Len(s))) = Len(s)
  BY ResizeType
<1>2. \A k \in 1 .. Len(s) : Resize(s, Len(s))[k] = s[k]
  BY DEF Resize
<1> QED
  BY <1>1, <1>2, SameSequence

(* An id that fits is the written one, or it has a pad at its end.          *)
LEMMA IdPattern ==
  ASSUME TypeOK, PatternSource, FitsProperty, source \in Ids
  PROVE  IF stripWildString(written) = written THEN wild = written
         ELSE Len(wild) = Len(written) /\ Len(wild) > 0 /\ wild[Len(wild)] = Nul
<1> DEFINE s == stripWildString(written)
           n == Len(written)
<1>1. written \in Seq(All) /\ n \in Nat /\ Merged(written, n, s)
  BY StripType, StripMerges
<1>2. IdSize(written) = n
  BY <1>1, WildMatchAssumption DEF FitsProperty, IdSize
<1>3. wild = Resize(s, n)
  BY <1>2 DEF PatternSource
<1>4. s \in Seq(All) /\ Len(s) \in Nat /\ Len(s) <= n
  BY <1>1 DEF Merged
<1> HIDE DEF s
<1>5. CASE s = written
  BY <1>3, <1>5, <1>1, ResizeToOwnLength DEF s
<1>6. CASE s # written
  <2>1. Len(s) # n
    <3>1. Len(s) = n => \A k \in 1 .. n : s[k] = written[k]
      BY <1>1 DEF Merged
    <3> QED
      BY <3>1, <1>1, <1>4, <1>6, SameSequence
  <2>2. n > 0 /\ n \in 1 .. n /\ ~(n <= Len(s))
    BY <2>1, <1>1, <1>4
  <2>3. Len(wild) = n
    BY <1>1, <1>3, <1>4, ResizeType
  <2>4. wild[n] = Nul
    BY <2>2, <1>3 DEF Resize
  <2> QED
    BY <2>2, <2>3, <2>4, <1>6 DEF s
<1> QED
  BY <1>5, <1>6

LEMMA UsedMeansWild ==
  ASSUME TypeOK, PatternSource
  PROVE  /\ toTest \in Seq(Chars) /\ written \in Seq(All)
         /\ wild \in Seq(All) /\ usedWild \in Seq(All)
         /\ Glob(toTest, usedWild) = Glob(toTest, wild)
         /\ Len(wild) > 0 => Len(usedWild) > 0 /\ usedWild[Len(usedWild)] = wild[Len(wild)]
<1>1. toTest \in Seq(Chars) /\ written \in Seq(All) /\ wild \in Seq(All) /\ usedWild \in Seq(All)
  BY PatternType
<1>2. Glob(toTest, usedWild) = Glob(toTest, wild)
  BY <1>1, StripKeepsGlob DEF usedWild
<1>3. Merged(wild, Len(wild), usedWild)
  BY <1>1, StripMerges DEF usedWild
<1> QED
  BY <1>1, <1>2, <1>3 DEF Merged

(* The pattern that is not padded means what was written and ends as it     *)
(* does.                                                                    *)
LEMMA WildMeansWritten ==
  ASSUME TypeOK, PatternSource, FitsProperty, written # <<>>,
         source \in Ids => stripWildString(written) = written
  PROVE  /\ Glob(toTest, usedWild) = Glob(toTest, written)
         /\ Len(usedWild) > 0 /\ usedWild[Len(usedWild)] = written[Len(written)]
<1>1. /\ toTest \in Seq(Chars) /\ written \in Seq(All) /\ wild \in Seq(All)
      /\ Glob(toTest, usedWild) = Glob(toTest, wild)
      /\ Len(wild) > 0 => Len(usedWild) > 0 /\ usedWild[Len(usedWild)] = wild[Len(wild)]
  BY UsedMeansWild
<1>2. Len(written) > 0
  BY <1>1
<1>3. source \in {"NAME", "PHYSICAL", "profile"} \cup Ids
  BY DEF TypeOK, FitsProperty, WildIndex, Ids
<1>4. CASE wild = written
  BY <1>1, <1>2, <1>4
<1>5. CASE wild = stripWildString(written)
  <2>1. Glob(toTest, wild) = Glob(toTest, written)
    BY <1>1, <1>5, StripKeepsGlob
  <2>2. Merged(written, Len(written), wild)
    BY <1>1, <1>5, StripMerges
  <2>3. Len(wild) > 0 /\ wild[Len(wild)] = written[Len(written)]
    BY <2>2, <1>2 DEF Merged
  <2> QED
    BY <2>1, <2>3, <1>1
<1>6. wild = written \/ wild = stripWildString(written)
  BY <1>3, IdPattern DEF PatternSource
<1> QED
  BY <1>4, <1>5, <1>6

LEMMA WildInvIsSound ==
  ASSUME WildInv
  PROVE  Sound
<1> SUFFICES ASSUME result = "match", FitsProperty, written # <<>>
             PROVE  Len(toTest) \in Glob(toTest, written)
  BY DEF Sound, Matches
<1>1. TypeOK /\ PatternSource /\ Accepts
  BY DEF WildInv, Answered
<1>2. CASE source \in Ids => stripWildString(written) = written
  BY <1>1, <1>2, WildMeansWritten DEF Accepts
<1>3. CASE source \in Ids /\ stripWildString(written) # written
  <2>1. wild \in Seq(All) /\ Len(wild) > 0 /\ wild[Len(wild)] = Nul
    BY <1>1, <1>3, IdPattern, UsedMeansWild
  <2>2. Glob(toTest, usedWild) = {} /\ Len(usedWild) > 0
    BY <2>1, <1>1, UsedMeansWild, PaddedMeansNothing
  <2> QED
    BY <2>2, <1>1 DEF Accepts
<1> QED
  BY <1>2, <1>3

LEMMA WildInvIsComplete ==
  ASSUME WildInv
  PROVE  CompleteIfOpen
<1> SUFFICES ASSUME result = "mismatch", FitsProperty, written # <<>>,
                    Last(written) = Star,
                    source \in Ids => stripWildString(written) = written
             PROVE  Len(toTest) \notin Glob(toTest, written)
  BY DEF CompleteIfOpen, Matches
<1>1. TypeOK /\ PatternSource /\ Rejects
  BY DEF WildInv, Answered
<1>2. /\ Glob(toTest, usedWild) = Glob(toTest, written)
      /\ usedWild[Len(usedWild)] = Star
  BY <1>1, WildMeansWritten DEF Last
<1> QED
  BY <1>1, <1>2 DEF Rejects

LEMMA WildInvStep ==
  ASSUME WildInv, [Next]_vars
  PROVE  WildInv'
<1>1. ASSUME NEW index \in WildIndex, setWild(index) PROVE WildInv'
  BY <1>1, SetWildKeeps
<1>2. CASE readSelf
  BY <1>2, ReadSelfKeeps
<1>3. CASE Start
  BY <1>3, StartKeeps
<1>4. CASE Search
  BY <1>4, SearchKeeps
<1>5. CASE Finish
  BY <1>5, FinishKeeps
<1>6. CASE UNCHANGED vars
  <2>1. UNCHANGED arguments /\ i' = i /\ searchPos' = searchPos /\ result' = result
    BY <1>6 DEF vars
  <2>2. /\ PatternSource'
        /\ toTest' = toTest /\ usedWild' = usedWild /\ tokens' = tokens
    BY <2>1, PatternKept
  <2>3. TypeOK'
    BY <2>1 DEF WildInv, TypeOK, arguments
  <2>4. Searching'
    BY <2>1, <2>2 DEF WildInv, Searching
  <2>5. Answered'
    BY <2>1, <2>2 DEF WildInv, Answered, Accepts, Rejects
  <2> QED
    BY <2>2, <2>3, <2>4, <2>5 DEF WildInv
<1> QED
  BY <1>1, <1>2, <1>3, <1>4, <1>5, <1>6 DEF Next

-----------------------------------------------------------------------------
(* The invariant of setWild, readSelf and simpleWildMatch.                  *)
THEOREM WildInvHolds == Spec => []WildInv
<1>1. Init => WildInv
  BY InitWild
<1>2. WildInv /\ [Next]_vars => WildInv'
  BY WildInvStep
<1> QED
  BY <1>1, <1>2, PTL DEF Spec

(* The search never leaves the text, and the token it looks for exists:     *)
(* searchPos and i of simpleWildMatch for texts and patterns of any length. *)
THEOREM TypeOKHolds == Spec => []TypeOK
<1>1. WildInv => TypeOK
  BY DEF WildInv
<1> QED
  BY <1>1, WildInvHolds, PTL

(* What simpleWildMatch accepts is an instance of the pattern the user      *)
(* wrote: cutting it, and padding an id, never makes it accept more.        *)
THEOREM SoundHolds == Spec => []Sound
<1>1. WildInv => Sound
  BY WildInvIsSound
<1> QED
  BY <1>1, WildInvHolds, PTL

(* Taking the first place each token fits misses nothing if the pattern has *)
(* a star at its end.                                                       *)
THEOREM CompleteIfOpenHolds == Spec => []CompleteIfOpen
<1>1. WildInv => CompleteIfOpen
  BY WildInvIsComplete
<1> QED
  BY <1>1, WildInvHolds, PTL
=============================================================================

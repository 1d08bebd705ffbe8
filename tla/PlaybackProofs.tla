--------------------------- MODULE PlaybackProofs ---------------------------
(* Theorems about Playback, for any numbers of responses, chunks, frames,      *)
(* interruptions, drains and stops of the SIP trunk.                           *)
EXTENDS Playback, TLAPS, WellFoundedInduction

-----------------------------------------------------------------------------
(* Selections. Those is a recursive function; that it exists, and what it has, *)
(* is shown by induction over the length, with the least counterexample.       *)
Selects(g, s, S, n) ==
  /\ g[0] = <<>>
  /\ \A k \in 1..n : g[k] = IF s[k] \in S THEN Append(g[k - 1], s[k]) ELSE g[k - 1]

LEMMA Least ==
  ASSUME NEW S \in SUBSET Nat, S # {} PROVE \E m \in S : \A k \in S : m <= k
<1>. DEFINE R == {ss \in Nat \X Nat : ss[1] < ss[2]}
<1>1. IsWellFoundedOn(R, Nat)
  BY NatLessThanWellFounded, Zenon DEF OpToRel
<1>2. PICK m \in S : \A k \in S : ~ (<<k, m>> \in R)
  BY <1>1, WFMin, S \subseteq Nat, Zenon
<1>3. ASSUME NEW k \in S PROVE m <= k
  <2>1. k \in Nat /\ m \in Nat /\ <<k, m>> \notin R
    BY <1>2
  <2>. QED
    BY <2>1
<1>. QED
  BY <1>3

LEMMA Induction ==
  ASSUME NEW S \in SUBSET Nat, 0 \in S, \A n \in S : n + 1 \in S
  PROVE  S = Nat
<1>. SUFFICES ASSUME Nat \ S # {} PROVE FALSE
  OBVIOUS
<1>1. PICK m \in Nat \ S : \A k \in Nat \ S : m <= k
  BY Least, Nat \ S \in SUBSET Nat
<1>2. m # 0 /\ m - 1 \in Nat /\ m - 1 \notin Nat \ S
  BY <1>1
<1>. QED
  BY <1>1, <1>2

LEMMA Selection ==
  ASSUME NEW T, NEW s \in Seq(T), NEW S
  PROVE  \E g \in [0..Len(s) -> Seq(T)] : Selects(g, s, S, Len(s)) /\ Those(s, S) = g[Len(s)]
<1>. DEFINE Good == {n \in Nat : n <= Len(s) => \E g \in [0..n -> Seq(T)] : Selects(g, s, S, n)}
            step(g, k) == IF s[k] \in S THEN Append(g[k - 1], s[k]) ELSE g[k - 1]
<1>1. 0 \in Good
  <2>. DEFINE g == [i \in 0..0 |-> <<>>]
  <2>1. g \in [0..0 -> Seq(T)] /\ g[0] = <<>>
    OBVIOUS
  <2>2. Selects(g, s, S, 0)
    BY <2>1 DEF Selects
  <2>. QED
    BY <2>1, <2>2
<1>2. ASSUME NEW n \in Good PROVE n + 1 \in Good
  <2>. SUFFICES ASSUME n + 1 <= Len(s) PROVE \E g \in [0..(n + 1) -> Seq(T)] : Selects(g, s, S, n + 1)
    OBVIOUS
  <2>1. PICK g \in [0..n -> Seq(T)] : Selects(g, s, S, n)
    OBVIOUS
  <2>. DEFINE h == [i \in 0..(n + 1) |-> IF i = n + 1 THEN step(g, n + 1) ELSE g[i]]
  <2>2. s[n + 1] \in T /\ g[n] \in Seq(T) /\ n \in Nat
    OBVIOUS
  <2>3. step(g, n + 1) \in Seq(T)
    BY <2>2
  <2>4. h \in [0..(n + 1) -> Seq(T)]
    BY <2>2, <2>3
  <2>5. h[n + 1] = step(g, n + 1) /\ \A i \in 0..n : h[i] = g[i]
    BY <2>2
  <2>6. step(h, n + 1) = step(g, n + 1)
    BY <2>2, <2>5
  <2>. HIDE DEF h
  <2>7. Selects(h, s, S, n + 1)
    <3>1. h[0] = <<>>
      <4>1. 0 \in 0..n /\ g[0] = <<>>
        BY <2>1, <2>2 DEF Selects
      <4>2. h[0] = g[0]
        BY <2>5, <4>1
      <4>. QED
        BY <4>1, <4>2
    <3>2. ASSUME NEW k \in 1..(n + 1)
          PROVE  h[k] = IF s[k] \in S THEN Append(h[k - 1], s[k]) ELSE h[k - 1]
      <4>1. CASE k = n + 1
        BY <4>1, <2>5, <2>6
      <4>2. CASE k # n + 1
        <5>1. k \in 1..n /\ k - 1 \in 0..n /\ k \in 0..n
          BY <4>2, <2>2
        <5>. QED
          BY <5>1, <2>1, <2>5 DEF Selects
      <4>. QED
        BY <4>1, <4>2
    <3>. QED
      BY <3>1, <3>2 DEF Selects
  <2>. QED
    BY <2>4, <2>7
<1>3. Good = Nat
  <2>. HIDE DEF Good
  <2>1. Good \subseteq Nat
    BY DEF Good
  <2>. QED
    BY <1>1, <1>2, <2>1, Induction
<1>4. PICK g \in [0..Len(s) -> Seq(T)] : Selects(g, s, S, Len(s))
  BY <1>3, Len(s) \in Nat
<1>. DEFINE F(f) == [n \in 0..Len(s) |->
                       IF n = 0 THEN <<>> ELSE IF s[n] \in S THEN Append(f[n - 1], s[n]) ELSE f[n - 1]]
<1>5. g = F(g)
  <2>1. ASSUME NEW n \in 0..Len(s) PROVE g[n] = F(g)[n]
    <3>1. CASE n = 0
      BY <3>1, <1>4 DEF Selects
    <3>2. CASE n # 0
      <4>1. n \in 1..Len(s)
        BY <3>2
      <4>. QED
        BY <4>1, <1>4 DEF Selects
    <3>. QED
      BY <3>1, <3>2
  <2>. QED
    BY <2>1
<1>6. PICK f : f = F(f) /\ Those(s, S) = f[Len(s)]
  <2>. HIDE DEF F
  <2>. DEFINE f == CHOOSE f : f = F(f)
  <2>1. f = F(f)
    BY <1>5
  <2>2. Those(s, S) = f[Len(s)]
    BY DEF Those, F
  <2>. QED
    BY <2>1, <2>2
<1>7. f \in [0..Len(s) -> Seq(T)] /\ Selects(f, s, S, Len(s))
  <2>1. \A n \in 0..Len(s) : f[n] = IF n = 0 THEN <<>>
                                   ELSE IF s[n] \in S THEN Append(f[n - 1], s[n]) ELSE f[n - 1]
    BY <1>6
  <2>2. Selects(f, s, S, Len(s))
    BY <2>1 DEF Selects
  <2>. DEFINE Same == {n \in Nat : n <= Len(s) => f[n] = g[n]}
  <2>3. 0 \in Same
    BY <1>4, <2>2 DEF Selects
  <2>4. ASSUME NEW n \in Same PROVE n + 1 \in Same
    <3>. SUFFICES ASSUME n + 1 <= Len(s) PROVE f[n + 1] = g[n + 1]
      OBVIOUS
    <3>1. f[n] = g[n] /\ n + 1 \in 1..Len(s) /\ (n + 1) - 1 = n
      OBVIOUS
    <3>. QED
      BY <3>1, <1>4, <2>2 DEF Selects
  <2>5. Same = Nat
    <3>1. Same \subseteq Nat
      OBVIOUS
    <3>. HIDE DEF Same
    <3>. QED
      BY <2>3, <2>4, <3>1, Induction
  <2>6. f = g
    <3>1. \A n \in 0..Len(s) : f[n] = g[n]
      BY <2>5
    <3>. QED
      BY <1>6, <3>1
  <2>. QED
    BY <2>2, <2>6
<1>. QED
  BY <1>6, <1>7

(* What was selected stands in s in the same order. *)
Embeds(f, t, s, S, n) ==
  /\ f \in [DOMAIN t -> 1..n]
  /\ \A i \in DOMAIN t : t[i] = s[f[i]] /\ s[f[i]] \in S
  /\ \A i, j \in DOMAIN t : i < j => f[i] < f[j]
  /\ \A k \in 1..n : s[k] \in S => \E i \in DOMAIN t : f[i] = k

LEMMA EmbedsNext ==
  ASSUME NEW T, NEW s \in Seq(T), NEW S, NEW n \in 0..(Len(s) - 1), NEW t \in Seq(T), NEW f,
         Embeds(f, t, s, S, n), s[n + 1] \in S
  PROVE  \E h : Embeds(h, Append(t, s[n + 1]), s, S, n + 1)
<1>. DEFINE u == Append(t, s[n + 1])
            m == Len(t)
            h == [i \in 1..(m + 1) |-> IF i = m + 1 THEN n + 1 ELSE f[i]]
<1>1. /\ m \in Nat /\ DOMAIN t = 1..m /\ s[n + 1] \in T /\ n \in Nat
      /\ DOMAIN u = 1..(m + 1) /\ u[m + 1] = s[n + 1] /\ \A i \in 1..m : u[i] = t[i]
  OBVIOUS
<1>2. /\ f \in [1..m -> 1..n] /\ \A i \in 1..m : t[i] = s[f[i]] /\ s[f[i]] \in S
      /\ \A i, j \in 1..m : i < j => f[i] < f[j]
      /\ \A k \in 1..n : s[k] \in S => \E i \in 1..m : f[i] = k
  BY <1>1 DEF Embeds
<1>3. h[m + 1] = n + 1 /\ \A i \in 1..m : h[i] = f[i]
  BY <1>1
<1>4. h \in [DOMAIN u -> 1..(n + 1)]
  <2>1. ASSUME NEW i \in 1..(m + 1) PROVE h[i] \in 1..(n + 1)
    <3>1. CASE i = m + 1
      BY <1>1, <1>3, <3>1
    <3>2. CASE i # m + 1
      <4>1. i \in 1..m
        BY <1>1, <3>2
      <4>2. f[i] \in 1..n /\ h[i] = f[i]
        BY <1>2, <1>3, <4>1
      <4>. QED
        BY <1>1, <4>2
    <3>. QED
      BY <3>1, <3>2
  <2>. QED
    BY <1>1, <2>1
<1>. HIDE DEF h, u, m
<1>5. \A i \in DOMAIN u : i = m + 1 \/ i \in 1..m
  BY <1>1
<1>6. \A i \in DOMAIN u : u[i] = s[h[i]] /\ s[h[i]] \in S
  BY <1>1, <1>2, <1>3, <1>5
<1>7. ASSUME NEW i \in DOMAIN u, NEW j \in DOMAIN u, i < j PROVE h[i] < h[j]
  <2>1. i \in 1..m
    BY <1>1, <1>5, <1>7
  <2>2. CASE j = m + 1
    BY <1>1, <1>2, <1>3, <2>1, <2>2
  <2>3. CASE j \in 1..m
    BY <1>2, <1>3, <1>7, <2>1, <2>3
  <2>. QED
    BY <1>5, <2>2, <2>3
<1>8. ASSUME NEW k \in 1..(n + 1), s[k] \in S PROVE \E i \in DOMAIN u : h[i] = k
  <2>1. CASE k = n + 1
    BY <1>1, <1>3, <2>1
  <2>2. CASE k # n + 1
    <3>1. k \in 1..n
      BY <1>1, <2>2
    <3>2. PICK i \in 1..m : f[i] = k
      BY <1>2, <1>8, <3>1
    <3>. QED
      BY <1>1, <1>3, <3>2
  <2>. QED
    BY <2>1, <2>2
<1>. QED
  BY <1>4, <1>6, <1>7, <1>8 DEF Embeds, u

LEMMA EmbedsPast ==
  ASSUME NEW T, NEW s \in Seq(T), NEW S, NEW n \in 0..(Len(s) - 1), NEW t \in Seq(T), NEW f,
         Embeds(f, t, s, S, n), s[n + 1] \notin S
  PROVE  Embeds(f, t, s, S, n + 1)
<1>1. \A k \in 1..(n + 1) : s[k] \in S => k \in 1..n
  <2>1. \A k \in 1..(n + 1) : k = n + 1 \/ k \in 1..n
    OBVIOUS
  <2>. QED
    BY <2>1
<1>2. f \in [DOMAIN t -> 1..(n + 1)]
  BY DEF Embeds
<1>. QED
  BY <1>1, <1>2 DEF Embeds

LEMMA ThoseEmbed ==
  ASSUME NEW T, NEW s \in Seq(T), NEW S
  PROVE  Those(s, S) \in Seq(T) /\ \E f : Embeds(f, Those(s, S), s, S, Len(s))
<1>1. PICK g \in [0..Len(s) -> Seq(T)] : Selects(g, s, S, Len(s)) /\ Those(s, S) = g[Len(s)]
  BY Selection
<1>. DEFINE Good == {n \in Nat : n <= Len(s) => \E f : Embeds(f, g[n], s, S, n)}
<1>2. 0 \in Good
  <2>1. g[0] = <<>>
    BY <1>1 DEF Selects
  <2>2. Embeds(<<>>, g[0], s, S, 0)
    BY <2>1 DEF Embeds
  <2>. QED
    BY <2>2
<1>3. ASSUME NEW n \in Good PROVE n + 1 \in Good
  <2>. SUFFICES ASSUME n + 1 <= Len(s) PROVE \E f : Embeds(f, g[n + 1], s, S, n + 1)
    OBVIOUS
  <2>1. n \in 0..(Len(s) - 1) /\ n + 1 \in 1..Len(s) /\ g[n] \in Seq(T) /\ (n + 1) - 1 = n
    OBVIOUS
  <2>2. PICK f : Embeds(f, g[n], s, S, n)
    BY <2>1
  <2>3. g[n + 1] = IF s[n + 1] \in S THEN Append(g[n], s[n + 1]) ELSE g[n]
    BY <1>1, <2>1 DEF Selects
  <2>. QED
    BY <2>1, <2>2, <2>3, EmbedsNext, EmbedsPast
<1>4. Good = Nat
  <2>1. Good \subseteq Nat
    OBVIOUS
  <2>. HIDE DEF Good
  <2>. QED
    BY <1>2, <1>3, <2>1, Induction
<1>5. \E f : Embeds(f, g[Len(s)], s, S, Len(s))
  BY <1>4, Len(s) \in Nat
<1>. QED
  BY <1>1, <1>5

LEMMA ThoseTyped ==
  ASSUME NEW T, NEW s \in Seq(T), NEW S
  PROVE  Those(s, S) \in Seq(T \intersect S) /\ Range(Those(s, S)) = Range(s) \intersect S
<1>. DEFINE t == Those(s, S)
<1>1. t \in Seq(T)
  BY ThoseEmbed
<1>2. PICK f : Embeds(f, t, s, S, Len(s))
  BY ThoseEmbed
<1>. HIDE DEF t
<1>3. DOMAIN s = 1..Len(s) /\ DOMAIN t = 1..Len(t) /\ Len(t) \in Nat
  BY <1>1
<1>4. \A i \in DOMAIN t : t[i] \in S /\ t[i] \in T /\ t[i] \in Range(s)
  BY <1>1, <1>2, <1>3 DEF Embeds, Range
<1>5. \A k \in DOMAIN s : s[k] \in S => s[k] \in Range(t)
  BY <1>2, <1>3 DEF Embeds, Range
<1>6. t \in Seq(T \intersect S)
  BY <1>1, <1>3, <1>4
<1>7. Range(t) = Range(s) \intersect S
  BY <1>4, <1>5 DEF Range
<1>. QED
  BY <1>6, <1>7 DEF t

LEMMA ThoseOne ==
  ASSUME NEW T, NEW x \in T, NEW S
  PROVE  Those(<<x>>, S) = IF x \in S THEN <<x>> ELSE <<>>
<1>. DEFINE s == <<x>>
<1>1. s \in Seq(T) /\ Len(s) = 1 /\ s[1] = x
  OBVIOUS
<1>2. PICK g \in [0..Len(s) -> Seq(T)] : Selects(g, s, S, Len(s)) /\ Those(s, S) = g[Len(s)]
  BY <1>1, Selection
<1>3. g[0] = <<>> /\ g[1] = IF s[1] \in S THEN Append(g[1 - 1], s[1]) ELSE g[1 - 1]
  BY <1>1, <1>2 DEF Selects
<1>4. 1 - 1 = 0 /\ Append(<<>>, x) = <<x>>
  OBVIOUS
<1>. QED
  BY <1>1, <1>2, <1>3, <1>4

(* A text of one response's chunks that rises and lacks none before another is *)
(* that response's from its beginning.                                         *)
LEMMA Counted ==
  ASSUME NEW N, NEW t \in Seq(N \X Nat), NEW r,
         \A i \in DOMAIN t : t[i][1] = r /\ t[i][2] # 0,
         \A i, j \in DOMAIN t : i < j => t[i][2] < t[j][2],
         \A i \in DOMAIN t : \A k \in 1..(t[i][2] - 1) : <<r, k>> \in Range(t)
  PROVE  \A i \in DOMAIN t : t[i] = <<r, i>>
<1>1. /\ Len(t) \in Nat /\ DOMAIN t = 1..Len(t)
      /\ \A i \in 1..Len(t) : t[i] \in N \X Nat /\ t[i][2] \in Nat \ {0} /\ t[i] = <<r, t[i][2]>>
  OBVIOUS
<1>. DEFINE Off == {i \in 1..Len(t) : t[i][2] # i}
<1>2. SUFFICES ASSUME Off # {} PROVE FALSE
  BY <1>1
<1>3. PICK m \in Off : \A i \in Off : m <= i
  <2>1. Off \in SUBSET Nat
    OBVIOUS
  <2>. HIDE DEF Off
  <2>. QED
    BY <1>2, <2>1, Least
<1>4. m \in 1..Len(t) /\ t[m][2] # m /\ \A i \in 1..Len(t) : i < m => t[i][2] = i
  BY <1>3
<1>5. t[m][2] > m
  <2>1. CASE m = 1
    BY <1>1, <1>4, <2>1
  <2>2. CASE m # 1
    <3>1. m - 1 \in 1..Len(t) /\ m - 1 < m
      BY <1>1, <1>4, <2>2
    <3>2. t[m - 1][2] = m - 1 /\ t[m - 1][2] < t[m][2]
      BY <1>1, <1>4, <3>1
    <3>. QED
      BY <1>1, <1>4, <3>1, <3>2
  <2>. QED
    BY <2>1, <2>2
<1>6. PICK k \in 1..Len(t) : t[k] = <<r, m>>
  <2>1. m \in 1..(t[m][2] - 1)
    BY <1>1, <1>4, <1>5
  <2>2. <<r, m>> \in Range(t)
    BY <1>1, <1>4, <2>1
  <2>. QED
    BY <1>1, <2>2 DEF Range
<1>7. t[k][2] = m
  BY <1>6
<1>8. CASE k < m
  BY <1>4, <1>7, <1>8
<1>9. CASE k = m
  BY <1>5, <1>7, <1>9, <1>4
<1>10. CASE k > m
  <2>1. t[m][2] < t[k][2]
    BY <1>1, <1>4, <1>10
  <2>. QED
    BY <1>1, <1>4, <1>5, <1>7, <2>1
<1>. QED
  BY <1>4, <1>8, <1>9, <1>10

-----------------------------------------------------------------------------
(* The part of the types that the trunk needs, and that its steps keep. *)
ChunkType == [of : Chunks, kind : {"audio", "last", "end"}]
LocalType == [of : Chunks, frame : 1..Frames, gen : Nat]
LoopType == [pc : {"buffering", "sending"}, of : Chunks, kind : {"audio", "last", "end"},
             frame : 0..Frames, gen : Nat]
LineType == [of : Chunks, kind : {"media"}, frame : 1..Frames, gen : Nat]
DrainType == [rest : LocalType, gen : Nat]
TrunkType == [full : BOOLEAN, local : Seq(LocalType), buffering : BOOLEAN, finish : BOOLEAN,
              settle : BOOLEAN, stale : BOOLEAN, seq : 0..MaxResponses, gen : Nat,
              drains : SUBSET DrainType, offs : Nat]

(* A trunk whose audio is all of the generation now, but for that of drains    *)
(* that will find out; and a line to it on which all is.                       *)
GoodTrunk(t) ==
  /\ t \in TrunkType
  /\ \A i \in DOMAIN t.local : t.local[i].gen = t.gen
  /\ \A d \in t.drains : d.rest.gen = d.gen
GoodLine(items, gen) == items \in Seq(LineType) /\ \A i \in DOMAIN items : items[i].gen = gen

(* The loop that feeds the trunk. *)
TrunkLoop ==
  /\ loop.pc \in {"idle", "buffering", "sending"}
  /\ loop.pc # "idle" => loop \in LoopType
  /\ loop.pc = "sending" => loop.frame # 0

SipWire == GoodTrunk(trunk) /\ GoodLine(line, trunk.gen) /\ TrunkLoop
OtherWire == trunk = NoTrunk /\ loop.pc \in {"idle", "pre", "media"}

GoodAnswers == turns \in Seq(Responses) /\ Len(turns) <= MaxResponses /\ count \in 0..MaxChunks
FlushInv ==
  /\ GoodAnswers /\ queue \in Seq(ChunkType)
  /\ IF Sip THEN SipWire ELSE OtherWire

(* Flags of the trunk matter to nothing that is on its way. *)
Alike(t, u) == u \in TrunkType /\ u.local = t.local /\ u.gen = t.gen /\ u.drains = t.drains

LEMMA AlikeIsGood ==
  ASSUME NEW t, NEW u, GoodTrunk(t), Alike(t, u)
  PROVE  GoodTrunk(u)
  BY DEF GoodTrunk, Alike

LEMMA FinishesAlike ==
  ASSUME NEW t \in TrunkType, NEW local, NEW gen
  PROVE  Alike(t, Finishes(t, local, gen))
  BY DEF Alike, Finishes, TrunkType

LEMMA AfterAlike ==
  ASSUME NEW t \in TrunkType, NEW c, NEW gen
  PROVE  Alike(t, After(c, t, gen))
<1>1. Alike(t, t)
  BY DEF Alike
<1>. QED
  BY <1>1, FinishesAlike DEF After

LEMMA NewSequenceAlike ==
  ASSUME NEW t \in TrunkType, NEW c, c.of \in Chunks
  PROVE  Alike(t, NewSequence(t, c))
<1>1. c.of[1] \in 0..MaxResponses
  BY BoundsAssumption DEF Chunks, Responses
<1>. QED
  BY <1>1 DEF Alike, NewSequence, TrunkType

LEMMA FrameIsGood ==
  ASSUME NEW items, NEW gen \in Nat, GoodLine(items, gen), NEW of \in Chunks, NEW f \in 1..Frames
  PROVE  GoodLine(Append(items, Frame(of, f, gen)), gen)
<1>1. Frame(of, f, gen) \in LineType /\ Frame(of, f, gen).gen = gen
  BY DEF Frame, LineType
<1>. QED
  BY <1>1 DEF GoodLine

(* Chunks that are kept for Asterisk, behind the others or before them. *)
LEMMA KeepLast ==
  ASSUME NEW t, GoodTrunk(t), NEW of \in Chunks, NEW f \in 1..Frames
  PROVE  GoodTrunk([t EXCEPT !.local = Append(@, Rest(of, f, t.gen))])
<1>. DEFINE r == Rest(of, f, t.gen)
            u == [t EXCEPT !.local = Append(@, r)]
<1>1. r \in LocalType /\ r.gen = t.gen
  BY DEF Rest, LocalType, GoodTrunk, TrunkType
<1>2. t.local \in Seq(LocalType) /\ Append(t.local, r) \in Seq(LocalType)
  BY <1>1 DEF GoodTrunk, TrunkType
<1>3. \A i \in DOMAIN Append(t.local, r) : Append(t.local, r)[i].gen = t.gen
  BY <1>1, <1>2 DEF GoodTrunk
<1>4. u \in TrunkType /\ u.local = Append(t.local, r) /\ u.gen = t.gen /\ u.drains = t.drains
  BY <1>2 DEF GoodTrunk, TrunkType
<1>. QED
  BY <1>3, <1>4 DEF GoodTrunk

LEMMA KeepFirst ==
  ASSUME NEW t, GoodTrunk(t), NEW r \in LocalType, r.gen = t.gen
  PROVE  GoodTrunk([t EXCEPT !.local = <<r>> \o @])
<1>. DEFINE u == [t EXCEPT !.local = <<r>> \o @]
<1>1. t.local \in Seq(LocalType) /\ <<r>> \o t.local \in Seq(LocalType)
  BY DEF GoodTrunk, TrunkType
<1>2. \A i \in DOMAIN (<<r>> \o t.local) : (<<r>> \o t.local)[i].gen = t.gen
  BY <1>1 DEF GoodTrunk
<1>3. u \in TrunkType /\ u.local = <<r>> \o t.local /\ u.gen = t.gen /\ u.drains = t.drains
  BY <1>1 DEF GoodTrunk, TrunkType
<1>. QED
  BY <1>2, <1>3 DEF GoodTrunk

-----------------------------------------------------------------------------
(* Sending audio, from the check of the generation on. *)
LEMMA SendAudioIsGood ==
  ASSUME NEW c \in ChunkType, NEW gen \in Nat, NEW t,
         GoodTrunk(t), t.gen = trunk.gen, GoodLine(line, trunk.gen), SendAudio(c, gen, t)
  PROVE  SipWire'
<1>. t \in TrunkType /\ t.gen \in Nat /\ c.of \in Chunks /\ 1 \in 1..Frames
  BY BoundsAssumption DEF GoodTrunk, TrunkType, ChunkType
<1>1. CASE gen # t.gen
  <2>1. trunk' = t /\ line' = line /\ loop' = Idle
    BY <1>1 DEF SendAudio
  <2>. QED
    BY <2>1 DEF SipWire, TrunkLoop, Idle
<1>2. CASE gen = t.gen /\ MustQueue(t)
  <2>. DEFINE u == [t EXCEPT !.local = Append(@, Rest(c.of, 1, gen))]
  <2>1. GoodTrunk(u)
    BY <1>2, KeepLast
  <2>2. u \in TrunkType /\ u.gen = t.gen
    BY <2>1 DEF GoodTrunk, TrunkType
  <2>3. trunk' = After(c, u, gen) /\ line' = line /\ loop' = Idle
    BY <1>2 DEF SendAudio
  <2>4. Alike(u, trunk')
    BY <2>2, <2>3, AfterAlike
  <2>5. GoodTrunk(trunk') /\ trunk'.gen = trunk.gen
    BY <2>1, <2>2, <2>4, AlikeIsGood DEF Alike
  <2>. QED
    BY <2>3, <2>5 DEF SipWire, TrunkLoop, Idle
<1>3. CASE gen = t.gen /\ ~MustQueue(t)
  <2>1. line' = Append(line, Frame(c.of, 1, gen)) /\ trunk' = t
    BY <1>3 DEF SendAudio, SendFrame
  <2>2. GoodLine(line', gen)
    BY <1>3, <2>1, FrameIsGood
  <2>3. loop' = [pc |-> "sending", of |-> c.of, kind |-> c.kind, frame |-> 1, gen |-> gen]
    BY <1>3 DEF SendAudio
  <2>4. loop'.pc = "sending" /\ loop'.frame = 1 /\ loop' \in LoopType
    BY <2>3, BoundsAssumption DEF LoopType, ChunkType
  <2>. QED
    BY <1>3, <2>1, <2>2, <2>4 DEF SipWire, TrunkLoop
<1>. QED
  BY <1>1, <1>2, <1>3

LEMMA TrunkHandleIsGood ==
  ASSUME SipWire, NEW c \in ChunkType, TrunkHandle(c)
  PROVE  SipWire'
<1>1. GoodTrunk(trunk) /\ trunk \in TrunkType /\ GoodLine(line, trunk.gen) /\ trunk.gen \in Nat
  BY DEF SipWire, GoodTrunk, TrunkType
<1>2. CASE c.kind = "end"
  <2>1. trunk' = After(c, trunk, trunk.gen) /\ line' = line /\ loop' = Idle
    BY <1>2 DEF TrunkHandle
  <2>2. Alike(trunk, trunk')
    BY <1>1, <2>1, AfterAlike
  <2>. QED
    BY <1>1, <2>1, <2>2, AlikeIsGood DEF Alike, SipWire, TrunkLoop, Idle
<1>3. CASE c.kind # "end"
  <2>. DEFINE t == NewSequence(trunk, c)
  <2>1. Alike(trunk, t) /\ GoodTrunk(t) /\ t.gen = trunk.gen
    BY <1>1, NewSequenceAlike, AlikeIsGood DEF ChunkType, Alike
  <2>2. CASE ~t.buffering
    <3>1. /\ loop' = [pc |-> "buffering", of |-> c.of, kind |-> c.kind, frame |-> 0, gen |-> t.gen]
          /\ trunk' = t /\ line' = line
      BY <1>3, <2>2 DEF TrunkHandle
    <3>2. loop'.pc = "buffering" /\ loop' \in LoopType
      BY <1>1, <2>1, <3>1, BoundsAssumption DEF LoopType, ChunkType
    <3>. QED
      BY <1>1, <2>1, <3>1, <3>2 DEF SipWire, TrunkLoop
  <2>3. CASE t.buffering
    <3>1. SendAudio(c, t.gen, t)
      BY <1>3, <2>3 DEF TrunkHandle
    <3>. QED
      BY <1>1, <2>1, <3>1, SendAudioIsGood
  <2>. QED
    BY <2>2, <2>3
<1>. QED
  BY <1>2, <1>3

(* The frames after the first. *)
LEMMA SendOnIsGood ==
  ASSUME SipWire, SendOn
  PROVE  SipWire'
<1>. DEFINE c == [of |-> loop.of, kind |-> loop.kind]
            r == Rest(loop.of, loop.frame + 1, loop.gen)
            kept == [trunk EXCEPT !.local = <<r>> \o @]
<1>1. /\ GoodTrunk(trunk) /\ trunk \in TrunkType /\ GoodLine(line, trunk.gen) /\ trunk.gen \in Nat
      /\ loop.pc = "sending" /\ loop \in LoopType /\ loop.frame # 0
  BY DEF SipWire, GoodTrunk, TrunkType, TrunkLoop, SendOn
<1>2. loop.of \in Chunks /\ loop.frame \in 1..Frames /\ loop.gen \in Nat
  BY <1>1, BoundsAssumption DEF LoopType
<1>3. CASE Ends(loop.frame) /\ loop' = Idle /\ trunk' = After(c, trunk, loop.gen) /\ line' = line
  <2>1. Alike(trunk, trunk')
    BY <1>1, <1>3, AfterAlike
  <2>. QED
    BY <1>1, <1>3, <2>1, AlikeIsGood DEF Alike, SipWire, TrunkLoop, Idle
<1>4. CASE loop' = Idle /\ trunk' = trunk /\ line' = line
  BY <1>1, <1>4 DEF SipWire, TrunkLoop, Idle
<1>5. CASE /\ ~Ends(loop.frame) /\ loop.gen = trunk.gen
           /\ loop' = Idle /\ trunk' = After(c, kept, loop.gen) /\ line' = line
  <2>1. r \in LocalType /\ r.gen = trunk.gen
    BY <1>1, <1>2, <1>5, BoundsAssumption DEF Rest, LocalType, Ends
  <2>2. GoodTrunk(kept)
    BY <1>1, <2>1, KeepFirst
  <2>3. kept \in TrunkType /\ kept.gen = trunk.gen
    BY <1>1, <2>2 DEF GoodTrunk, TrunkType
  <2>4. Alike(kept, trunk')
    BY <1>5, <2>3, AfterAlike
  <2>. QED
    BY <1>1, <1>5, <2>2, <2>3, <2>4, AlikeIsGood DEF Alike, SipWire, TrunkLoop, Idle
<1>6. CASE /\ ~Ends(loop.frame) /\ loop.gen = trunk.gen /\ trunk' = trunk
           /\ SendFrame(loop.of, loop.frame + 1, loop.gen)
           /\ loop' = [loop EXCEPT !.frame = @ + 1]
  <2>1. loop.frame + 1 \in 1..Frames
    BY <1>2, <1>6, BoundsAssumption DEF Ends
  <2>2. GoodLine(line', trunk'.gen)
    BY <1>1, <1>2, <1>6, <2>1, FrameIsGood DEF SendFrame
  <2>3. loop' \in LoopType /\ loop'.pc = "sending" /\ loop'.frame = loop.frame + 1
    BY <1>1, <1>6, <2>1, BoundsAssumption DEF LoopType
  <2>. QED
    BY <1>1, <1>2, <1>6, <2>2, <2>3 DEF SipWire, TrunkLoop
<1>. QED
  BY <1>3, <1>4, <1>5, <1>6 DEF SendOn

LEMMA BufferedIsGood ==
  ASSUME SipWire, Buffered
  PROVE  SipWire'
<1>. DEFINE c == [of |-> loop.of, kind |-> loop.kind]
            t == [trunk EXCEPT !.buffering = TRUE]
<1>1. loop \in LoopType
  BY DEF Buffered, SipWire, TrunkLoop
<1>2. c \in ChunkType /\ loop.gen \in Nat
  BY <1>1 DEF LoopType, ChunkType
<1>3. Alike(trunk, t) /\ GoodTrunk(trunk) /\ GoodLine(line, trunk.gen)
  BY DEF Alike, SipWire, TrunkType, GoodTrunk
<1>4. GoodTrunk(t) /\ t.gen = trunk.gen
  BY <1>3, AlikeIsGood DEF Alike
<1>. QED
  BY <1>2, <1>3, <1>4, SendAudioIsGood DEF Buffered

-----------------------------------------------------------------------------
(* Draining what was kept. *)

LEMMA GiveUpIsGood ==
  ASSUME NEW t, GoodTrunk(t), NEW others \in SUBSET t.drains, t.gen = trunk.gen,
         GoodLine(line, trunk.gen), GiveUp(t, others)
  PROVE  GoodTrunk(trunk') /\ GoodLine(line', trunk'.gen)
<1>1. trunk' = [t EXCEPT !.drains = others, !.local = <<>>, !.finish = FALSE] /\ line' = line
  BY DEF GiveUp
<1>2. t \in TrunkType /\ <<>> \in Seq(LocalType) /\ others \subseteq DrainType
  BY DEF GoodTrunk, TrunkType
<1>3. trunk' \in TrunkType /\ trunk'.local = <<>> /\ trunk'.drains = others /\ trunk'.gen = t.gen
  BY <1>1, <1>2 DEF TrunkType
<1>. QED
  BY <1>1, <1>3 DEF GoodTrunk

LEMMA SendRestIsGood ==
  ASSUME NEW t, GoodTrunk(t), NEW others \in SUBSET t.drains, t.gen = trunk.gen,
         GoodLine(line, trunk.gen), NEW rest \in LocalType, NEW gen \in Nat,
         rest.gen = gen, gen = t.gen, SendRest(t, others, rest, gen)
  PROVE  GoodTrunk(trunk') /\ GoodLine(line', trunk'.gen)
<1>. DEFINE d == [rest |-> rest, gen |-> gen]
<1>1. trunk' = [t EXCEPT !.drains = others \union {d}] /\ line' = Append(line, Frame(rest.of, rest.frame, gen))
  BY DEF SendRest, SendFrame
<1>2. d \in DrainType /\ rest.of \in Chunks /\ rest.frame \in 1..Frames
  BY DEF DrainType, LocalType
<1>3. /\ trunk' \in TrunkType /\ trunk'.local = t.local /\ trunk'.drains = others \union {d}
      /\ trunk'.gen = t.gen
  BY <1>1, <1>2 DEF GoodTrunk, TrunkType
<1>4. GoodLine(line', gen)
  BY <1>1, <1>2, FrameIsGood
<1>. QED
  BY <1>3, <1>4 DEF GoodTrunk

LEMMA FewerDrains ==
  ASSUME NEW t, GoodTrunk(t), NEW others \in SUBSET t.drains
  PROVE  LET u == [t EXCEPT !.drains = others] IN
         GoodTrunk(u) /\ u \in TrunkType /\ u.gen = t.gen /\ u.local = t.local
<1>. DEFINE u == [t EXCEPT !.drains = others]
<1>1. u \in TrunkType /\ u.local = t.local /\ u.drains = others /\ u.gen = t.gen
  BY DEF GoodTrunk, TrunkType
<1>. QED
  BY <1>1 DEF GoodTrunk

LEMMA NextChunkIsGood ==
  ASSUME NEW t, GoodTrunk(t), NEW others \in SUBSET t.drains, t.gen = trunk.gen,
         GoodLine(line, trunk.gen), NEW gen \in Nat, NextChunk(t, others, gen)
  PROVE  GoodTrunk(trunk') /\ GoodLine(line', trunk'.gen)
<1>. DEFINE u == [t EXCEPT !.drains = others]
            v == [t EXCEPT !.local = Tail(@)]
<1>0. t \in TrunkType /\ t.local \in Seq(LocalType)
  BY DEF GoodTrunk, TrunkType
<1>1. CASE trunk' = Drained(u) /\ line' = line
  <2>1. GoodTrunk(u) /\ u \in TrunkType /\ u.gen = t.gen
    BY FewerDrains
  <2>2. Alike(u, u)
    BY <2>1 DEF Alike
  <2>2a. Alike(u, Finishes(u, <<>>, u.gen))
    BY <2>1, FinishesAlike
  <2>3. Alike(u, trunk')
    BY <1>1, <2>2, <2>2a DEF Drained
  <2>. QED
    BY <1>1, <2>1, <2>3, AlikeIsGood DEF Alike
<1>2. CASE GiveUp(t, others)
  BY <1>2, GiveUpIsGood
<1>3. CASE t.local # <<>> /\ ~Flushed(gen) /\ SendRest(v, others, Head(t.local), gen)
  <2>1. /\ v \in TrunkType /\ v.local = Tail(t.local) /\ v.gen = t.gen /\ v.drains = t.drains
        /\ Tail(t.local) \in Seq(LocalType)
    BY <1>0, <1>3 DEF TrunkType
  <2>2. Head(t.local) = t.local[1] /\ 1 \in DOMAIN t.local /\ Head(t.local) \in LocalType
    BY <1>0, <1>3
  <2>3. \A i \in DOMAIN Tail(t.local) : i + 1 \in DOMAIN t.local /\ Tail(t.local)[i] = t.local[i + 1]
    BY <1>0, <1>3
  <2>4. GoodTrunk(v) /\ Head(t.local).gen = t.gen
    BY <2>1, <2>2, <2>3 DEF GoodTrunk
  <2>. QED
    BY <1>3, <2>1, <2>2, <2>4, SendRestIsGood DEF Flushed
<1>. QED
  BY <1>1, <1>2, <1>3 DEF NextChunk

LEMMA XonIsGood ==
  ASSUME SipWire, Xon
  PROVE  GoodTrunk(trunk') /\ GoodLine(line', trunk'.gen)
<1>. DEFINE t == [trunk EXCEPT !.full = FALSE]
<1>1. GoodTrunk(trunk) /\ trunk \in TrunkType /\ GoodLine(line, trunk.gen) /\ trunk.gen \in Nat
  BY DEF SipWire, GoodTrunk, TrunkType
<1>2. Alike(trunk, t)
  BY <1>1 DEF Alike, TrunkType
<1>3. GoodTrunk(t) /\ t.gen = trunk.gen /\ t.drains = trunk.drains
  BY <1>1, <1>2, AlikeIsGood DEF Alike
<1>. QED
  BY <1>1, <1>3, NextChunkIsGood DEF Xon

LEMMA DrainIsGood ==
  ASSUME SipWire, Drain
  PROVE  GoodTrunk(trunk') /\ GoodLine(line', trunk'.gen)
<1>1. GoodTrunk(trunk) /\ trunk \in TrunkType /\ GoodLine(line, trunk.gen) /\ trunk.gen \in Nat
  BY DEF SipWire, GoodTrunk, TrunkType
<1>2. PICK d \in trunk.drains :
        LET others == trunk.drains \ {d} IN
        \/ NextChunk(trunk, others, d.gen)
        \/ GiveUp(trunk, others)
        \/ /\ ~Ends(d.rest.frame) /\ ~Flushed(d.gen) /\ line' = line
           /\ trunk' = [trunk EXCEPT !.drains = others, !.local = <<Following(d.rest)>> \o @]
        \/ ~Ends(d.rest.frame) /\ ~Flushed(d.gen) /\ SendRest(trunk, others, Following(d.rest), d.gen)
  BY DEF Drain
<1>. DEFINE others == trunk.drains \ {d}
            rest == Following(d.rest)
            u == [trunk EXCEPT !.drains = others]
<1>3. /\ d \in DrainType /\ d.rest \in LocalType /\ d.gen \in Nat /\ d.rest.gen = d.gen
      /\ others \in SUBSET trunk.drains
  BY <1>1 DEF GoodTrunk, TrunkType, DrainType
<1>4. ~Ends(d.rest.frame) => rest \in LocalType /\ rest.gen = d.gen
  <2>1. d.rest.frame \in 1..Frames /\ d.rest.of \in Chunks /\ d.rest.gen \in Nat
    BY <1>3 DEF LocalType
  <2>2. ~Ends(d.rest.frame) => d.rest.frame + 1 \in 1..Frames
    BY <2>1, BoundsAssumption DEF Ends
  <2>. QED
    BY <1>3, <2>1, <2>2 DEF Following, LocalType
<1>5. CASE NextChunk(trunk, others, d.gen)
  BY <1>1, <1>3, <1>5, NextChunkIsGood
<1>6. CASE GiveUp(trunk, others)
  BY <1>1, <1>3, <1>6, GiveUpIsGood
<1>7. CASE /\ ~Ends(d.rest.frame) /\ ~Flushed(d.gen) /\ line' = line
           /\ trunk' = [trunk EXCEPT !.drains = others, !.local = <<rest>> \o @]
  <2>1. GoodTrunk(u) /\ u \in TrunkType /\ u.gen = trunk.gen /\ u.local = trunk.local
    BY <1>1, <1>3, FewerDrains
  <2>2. GoodTrunk([u EXCEPT !.local = <<rest>> \o @])
    BY <1>3, <1>4, <1>7, <2>1, KeepFirst DEF Flushed
  <2>3. trunk' = [u EXCEPT !.local = <<rest>> \o @] /\ trunk'.gen = trunk.gen
    BY <1>1, <1>7 DEF TrunkType
  <2>. QED
    BY <1>1, <1>7, <2>2, <2>3
<1>8. CASE ~Ends(d.rest.frame) /\ ~Flushed(d.gen) /\ SendRest(trunk, others, rest, d.gen)
  BY <1>1, <1>3, <1>4, <1>8, SendRestIsGood DEF Flushed
<1>. QED
  BY <1>2, <1>5, <1>6, <1>7, <1>8

-----------------------------------------------------------------------------
LEMMA InitFlush == Init => FlushInv
<1>. SUFFICES ASSUME Init
              PROVE  FlushInv
  OBVIOUS
<1>1. GoodAnswers /\ queue \in Seq(ChunkType)
  BY BoundsAssumption DEF Init, GoodAnswers
<1>2. trunk = NoTrunk /\ loop.pc = "idle" /\ line = <<>>
  BY DEF Init, Idle
<1>3. /\ trunk \in TrunkType /\ trunk.local = <<>> /\ DOMAIN trunk.local = {} /\ trunk.drains = {}
      /\ trunk.gen \in Nat
  BY <1>2, BoundsAssumption DEF NoTrunk, TrunkType
<1>4. GoodTrunk(trunk) /\ GoodLine(line, trunk.gen)
  BY <1>2, <1>3 DEF GoodTrunk, GoodLine
<1>. QED
  BY <1>1, <1>2, <1>4 DEF FlushInv, SipWire, OtherWire, TrunkLoop

(* What is said of the answers and of the wire depends on nothing else. *)
LEMMA AnswersStay ==
  ASSUME FlushInv, UNCHANGED answerVars
  PROVE  GoodAnswers'
  BY DEF FlushInv, GoodAnswers, answerVars

LEMMA SipStays ==
  ASSUME SipWire, UNCHANGED <<trunk, line, loop>>
  PROVE  SipWire'
  BY DEF SipWire, TrunkLoop

LEMMA OtherStays ==
  ASSUME OtherWire, UNCHANGED <<trunk, loop>>
  PROVE  OtherWire'
  BY DEF OtherWire

(* Flags of the trunk, and a line that is no longer than before. *)
LEMMA FlagsStaySip ==
  ASSUME SipWire, Alike(trunk, trunk'), UNCHANGED <<line, loop>>
  PROVE  SipWire'
<1>1. GoodTrunk(trunk') /\ trunk'.gen = trunk.gen
  BY AlikeIsGood DEF SipWire, Alike
<1>. QED
  BY <1>1 DEF SipWire, TrunkLoop

(* An interruption begins a generation, of which nothing is on its way. *)
LEMMA ClearIsGood ==
  ASSUME SipWire, Sip, Clear, UNCHANGED loop
  PROVE  SipWire'
<1>1. /\ trunk' = [trunk EXCEPT !.gen = @ + 1, !.finish = FALSE, !.settle = FALSE,
                                !.stale = FALSE, !.seq = 0, !.local = <<>>]
      /\ line' = <<>>
  BY DEF Clear
<1>2. trunk \in TrunkType /\ trunk.gen \in Nat /\ <<>> \in Seq(LocalType) /\ 0 \in 0..MaxResponses
  BY BoundsAssumption DEF SipWire, GoodTrunk, TrunkType
<1>3. trunk' \in TrunkType /\ trunk'.local = <<>> /\ trunk'.drains = trunk.drains
  <2>1. trunk.gen + 1 \in Nat
    BY <1>2
  <2>. QED
    BY <1>1, <1>2, <2>1 DEF TrunkType
<1>4. GoodTrunk(trunk') /\ GoodLine(line', trunk'.gen)
  BY <1>1, <1>3 DEF SipWire, GoodTrunk, GoodLine
<1>. QED
  BY <1>4 DEF SipWire, TrunkLoop

LEMMA PlayIsGood ==
  ASSUME SipWire, Play
  PROVE  SipWire'
<1>1. line \in Seq(LineType) /\ line # <<>> /\ line' = Tail(line)
  BY DEF SipWire, GoodLine, Play
<1>2. line' \in Seq(LineType) /\ \A i \in DOMAIN line' : i + 1 \in DOMAIN line /\ line'[i] = line[i + 1]
  BY <1>1
<1>3. GoodLine(line', trunk.gen)
  BY <1>2 DEF SipWire, GoodLine
<1>. QED
  BY <1>3 DEF SipWire, TrunkLoop, Play

LEMMA RespondKeepsAnswers ==
  ASSUME GoodAnswers, Respond
  PROVE  GoodAnswers'
<1>1. Newest + 1 \in Responses /\ Newest \in 0..MaxResponses /\ turns \in Seq(Responses)
  BY BoundsAssumption DEF Respond, GoodAnswers, Newest, Responses
<1>2. PICK t \in Responses : turns' = Append(turns, t)
  <2>1. CASE turns' = Append(turns, Newest + 1)
    BY <1>1, <2>1
  <2>2. CASE Newest > 0 /\ turns' = Append(turns, Last(turns))
    <3>1. Last(turns) = turns[Len(turns)] /\ Last(turns) \in Responses
      BY <1>1, <2>2 DEF Last, Newest
    <3>. QED
      BY <2>2, <3>1
  <2>. QED
    BY <2>1, <2>2 DEF Respond
<1>3. turns' \in Seq(Responses) /\ Len(turns') = Len(turns) + 1
  BY <1>1, <1>2
<1>. QED
  BY <1>1, <1>3, BoundsAssumption DEF GoodAnswers, Respond, Newest, Responses

-----------------------------------------------------------------------------
LEMMA FlushStep == FlushInv /\ [Next]_vars => FlushInv'
<1>. SUFFICES ASSUME FlushInv, [Next]_vars
              PROVE  FlushInv'
  OBVIOUS
<1>0. handler' = handler /\ Sip' = Sip
  <2>1. handler' = handler
    BY DEF Next, vars, Respond, Synthesize, Take, SendMedia, SendPost, Buffered, SendOn, Xoff, Xon,
           Drain, TrunkOnly, Play, Echo, Settle, Interrupt, AskIfThere, ClearData, Sync, Restart
  <2>. QED
    BY <2>1 DEF Sip
<1>w. ASSUME GoodAnswers', queue' \in Seq(ChunkType),
             Sip /\ SipWire => SipWire', ~Sip /\ OtherWire => OtherWire'
      PROVE  FlushInv'
  BY <1>0, <1>w DEF FlushInv
<1>1. CASE Respond
  <2>1. GoodAnswers'
    BY <1>1, RespondKeepsAnswers DEF FlushInv
  <2>. QED
    BY <1>1, <1>w, <2>1, SipStays, OtherStays DEF FlushInv, Respond, wireVars
<1>2. CASE Synthesize
  <2>1. PICK kind \in {"audio", "last", "end"} :
          queue' = Append(queue, [of |-> <<Newest, count + 1>>, kind |-> kind]) /\ count' = count + 1
    BY <1>2 DEF Synthesize
  <2>2. Newest \in Responses /\ count + 1 \in 1..MaxChunks
    <3>1. Length \in 1..MaxChunks
      BY BoundsAssumption DEF Length
    <3>. QED
      BY <1>2, <3>1, BoundsAssumption DEF FlushInv, Synthesize, GoodAnswers, Newest, Responses
  <2>3. queue' \in Seq(ChunkType)
    BY <2>1, <2>2 DEF FlushInv, ChunkType, Chunks
  <2>4. GoodAnswers'
    BY <1>2, <2>1, <2>2, BoundsAssumption DEF FlushInv, GoodAnswers, Synthesize
  <2>. QED
    BY <1>2, <1>w, <2>3, <2>4, SipStays, OtherStays DEF Synthesize, wireVars
<1>3. CASE Take
  <2>. DEFINE c == Head(queue)
  <2>1. c \in ChunkType /\ queue' \in Seq(ChunkType)
    BY <1>3 DEF FlushInv, Take
  <2>2. Sends(c) \/ UNCHANGED <<loop, marks, line, trunk>>
    BY <1>3 DEF Take
  <2>3. Sip /\ SipWire => SipWire'
    BY <2>1, <2>2, TrunkHandleIsGood, SipStays DEF Sends
  <2>4. ~Sip /\ OtherWire => OtherWire'
    <3>1. CASE UNCHANGED <<loop, marks, line, trunk>>
      BY <3>1, OtherStays
    <3>2. CASE Handle(c) /\ trunk' = trunk
      <4>1. SendPre(c) => loop'.pc = "pre"
        BY DEF SendPre, Idle
      <4>2. Post(c.of, c.kind) => loop'.pc = "idle"
        BY DEF Post, Idle
      <4>. QED
        BY <3>2, <4>1, <4>2 DEF Handle, OtherWire
    <3>. QED
      BY <2>2, <3>1, <3>2 DEF Sends
  <2>. QED
    BY <1>3, <1>w, <2>1, <2>3, <2>4, AnswersStay DEF Take
<1>4. CASE SendMedia
  <2>1. loop.pc = "pre" /\ loop'.pc = "media" /\ trunk' = trunk
    <3>1. loop.pc = "pre" /\ loop' = [loop EXCEPT !.pc = "media"] /\ trunk' = trunk
      BY <1>4 DEF SendMedia
    <3>. QED
      BY <3>1
  <2>. QED
    BY <1>4, <1>w, <2>1, AnswersStay DEF FlushInv, SendMedia, SipWire, TrunkLoop, OtherWire
<1>5. CASE SendPost
  <2>1. loop.pc = "media" /\ loop'.pc = "idle" /\ trunk' = trunk
    BY <1>5 DEF SendPost, Post, Idle
  <2>. QED
    BY <1>5, <1>w, <2>1, AnswersStay DEF FlushInv, SendPost, SipWire, TrunkLoop, OtherWire
<1>6. CASE Buffered
  <2>1. Sip /\ SipWire => SipWire'
    BY <1>6, BufferedIsGood
  <2>. QED
    BY <1>6, <1>w, <2>1, AnswersStay DEF FlushInv, Buffered, OtherWire
<1>7. CASE SendOn
  BY <1>7, <1>w, SendOnIsGood, AnswersStay DEF FlushInv, SendOn, OtherWire
<1>8. CASE Xoff
  <2>1. Sip /\ SipWire => Alike(trunk, trunk')
    <3>1. trunk' = [trunk EXCEPT !.full = TRUE, !.offs = @ + 1]
      BY <1>8 DEF Xoff
    <3>2. ASSUME trunk \in TrunkType
          PROVE  trunk.offs + 1 \in Nat
      BY <3>2 DEF TrunkType
    <3>. QED
      BY <3>1, <3>2 DEF SipWire, GoodTrunk, TrunkType, Alike
  <2>. QED
    BY <1>8, <1>w, <2>1, FlagsStaySip, AnswersStay DEF FlushInv, Xoff, TrunkOnly
<1>9. CASE Xon
  <2>1. Sip /\ SipWire => SipWire'
    BY <1>9, XonIsGood DEF SipWire, TrunkLoop, Xon, TrunkOnly
  <2>. QED
    BY <1>9, <1>w, <2>1, AnswersStay DEF FlushInv, Xon, TrunkOnly, OtherWire, NoTrunk
<1>10. CASE Drain
  <2>1. Sip /\ SipWire => SipWire'
    BY <1>10, DrainIsGood DEF SipWire, TrunkLoop, Drain, TrunkOnly
  <2>. QED
    BY <1>10, <1>w, <2>1, AnswersStay DEF FlushInv, Drain, TrunkOnly, OtherWire, NoTrunk
<1>11. CASE Play
  BY <1>11, <1>w, PlayIsGood, OtherStays, AnswersStay DEF FlushInv, Play
<1>12. CASE Echo
  BY <1>12, <1>w, SipStays, OtherStays, AnswersStay DEF FlushInv, Echo
<1>13. CASE Settle
  <2>1. Sip /\ SipWire => Alike(trunk, trunk')
    BY <1>13 DEF Settle, SipWire, GoodTrunk, TrunkType, Alike
  <2>. QED
    BY <1>13, <1>w, <2>1, FlagsStaySip, AnswersStay DEF FlushInv, Settle, wireVars, OtherWire, NoTrunk
<1>14. CASE Interrupt
  BY <1>14, <1>w, ClearIsGood, AnswersStay DEF FlushInv, Interrupt, Clear, OtherWire
<1>15. CASE AskIfThere
  BY <1>15, <1>w, ClearIsGood, AnswersStay DEF FlushInv, AskIfThere, Clear, OtherWire
<1>16. CASE ClearData
  <2>1. Sip /\ SipWire => Alike(trunk, trunk')
    BY <1>16 DEF ClearData, SipWire, GoodTrunk, TrunkType, Alike
  <2>. QED
    BY <1>16, <1>w, <2>1, FlagsStaySip, OtherStays, AnswersStay DEF FlushInv, ClearData, wireVars
<1>17. CASE Sync
  BY <1>17, <1>w, SipStays, OtherStays, AnswersStay DEF FlushInv, Sync, wireVars
<1>18. CASE Restart
  <2>1. queue' \in Seq(ChunkType) /\ loop'.pc = "idle" /\ UNCHANGED <<trunk, line>>
    BY <1>18 DEF Restart, Idle, wireVars
  <2>. QED
    BY <1>18, <1>w, <2>1, AnswersStay DEF FlushInv, Restart, SipWire, TrunkLoop, OtherWire
<1>19. CASE UNCHANGED vars
  BY <1>19, <1>w, SipStays, OtherStays, AnswersStay DEF FlushInv, vars, wireVars
<1>. QED
  BY <1>1, <1>2, <1>3, <1>4, <1>5, <1>6, <1>7, <1>8, <1>9, <1>10, <1>11, <1>12, <1>13, <1>14, <1>15,
     <1>16, <1>17, <1>18, <1>19 DEF Next

(* Every frame that is on its way to Asterisk is of the generation now: none   *)
(* that was taken, kept or being sent before an interruption follows it, with  *)
(* any number of chunks, frames, stops of Asterisk and drains.                 *)
THEOREM NothingFlushedIsSent == Spec => []FlushedSilent
<1>1. FlushInv => FlushedSilent
  BY DEF FlushInv, SipWire, GoodLine, FlushedSilent
<1>. QED
  BY <1>1, InitFlush, FlushStep, PTL DEF Spec

-----------------------------------------------------------------------------
(* Types. *)
Answering == handler \in AllHandlers /\ done \in BOOLEAN /\ valid \subseteq 1..Newest
Histories == [Responses -> [state : {"none", "full", "cut"}, text : Seq(Chunks)]]
Memory == /\ marks \in Seq(AllMarks) /\ cleared \in Seq(AllMarks)
          /\ heard \in Seq(Chunks) /\ everHeard \in Seq(Chunks)
Cutting == cut \in {"no", "clearing", "asking", "syncing", "flushing"} /\ cuts \in 0..MaxCuts
AnyLoop == [pc : {"idle", "pre", "media", "buffering", "sending"}, of : Chunks \union {<<0, 0>>},
            kind : {"audio", "last", "end"}, frame : 0..Frames, gen : Nat]
Busy == loop.pc # "idle"
Looping == loop \in AnyLoop /\ (Busy => loop.of \in Chunks)
Items == AllMarks \union [of : Chunks, kind : {"media"}, frame : {1}]
Wired ==
  IF Sip THEN echoes = <<>> /\ trunk.gen <= cuts /\ \A d \in trunk.drains : d.gen <= trunk.gen
  ELSE echoes \in Seq(AllMarks) /\ line \in Seq(Items)

TypeInv == /\ FlushInv /\ Answering /\ history \in Histories /\ Memory /\ Cutting /\ Looping
           /\ Wired

LEMMA TypesHold == TypeInv => TypeOK
<1>. SUFFICES ASSUME TypeInv
              PROVE  TypeOK
  OBVIOUS
<1>1. /\ turns \in Seq(Responses) /\ count \in 0..MaxChunks
      /\ queue \in Seq([of : Chunks, kind : {"audio", "last", "end"}])
  BY DEF TypeInv, FlushInv, GoodAnswers, ChunkType
<1>2. \A r \in Responses : history[r].state \in {"none", "full", "cut"}
                           /\ history[r].text \in Seq(Chunks)
  BY DEF TypeInv, Histories
<1>3. /\ loop.pc \in {"idle", "pre", "media", "buffering", "sending"} /\ loop.frame \in 0..Frames
  BY DEF TypeInv, Looping, AnyLoop
<1>4. /\ Sip => line \in Seq(FrameType)
      /\ trunk.gen \in 0..MaxCuts /\ trunk.local \in Seq(RestType)
      /\ \A d \in trunk.drains : d.rest \in RestType
  <2>1. CASE ~Sip
    <3>1. trunk = NoTrunk
      BY <2>1 DEF TypeInv, FlushInv, OtherWire
    <3>. QED
      BY <2>1, <3>1, BoundsAssumption DEF NoTrunk
  <2>2. CASE Sip
    <3>1. /\ trunk \in TrunkType /\ GoodTrunk(trunk) /\ GoodLine(line, trunk.gen)
      BY <2>2 DEF TypeInv, FlushInv, SipWire, GoodTrunk
    <3>2. trunk.gen \in 0..MaxCuts /\ \A d \in trunk.drains : d.gen <= trunk.gen
      BY <2>2, <3>1, BoundsAssumption DEF TypeInv, Wired, Cutting, TrunkType
    <3>3. line \in Seq(LineType) /\ \A i \in DOMAIN line : line[i] \in LineType /\ line[i].gen = trunk.gen
      BY <3>1 DEF GoodLine
    <3>4. \A i \in DOMAIN line : line[i] \in FrameType
      BY <3>2, <3>3 DEF LineType, FrameType
    <3>5. trunk.local \in Seq(LocalType) /\ \A i \in DOMAIN trunk.local :
             trunk.local[i] \in LocalType /\ trunk.local[i].gen = trunk.gen
      BY <3>1 DEF GoodTrunk, TrunkType
    <3>6. \A i \in DOMAIN trunk.local : trunk.local[i] \in RestType
      BY <3>2, <3>5 DEF LocalType, RestType
    <3>7. ASSUME NEW d \in trunk.drains PROVE d.rest \in RestType
      <4>1. d.rest \in LocalType /\ d.rest.gen = d.gen /\ d.gen \in Nat
        BY <3>1 DEF GoodTrunk, TrunkType, DrainType
      <4>2. d.gen <= trunk.gen /\ trunk.gen <= MaxCuts /\ MaxCuts \in Nat /\ trunk.gen \in Nat
        BY <3>2, BoundsAssumption
      <4>3. d.rest.gen \in 0..MaxCuts
        BY <4>1, <4>2
      <4>. QED
        BY <4>1, <4>3 DEF LocalType, RestType
    <3>8. line \in Seq(FrameType)
      BY <3>3, <3>4
    <3>9. trunk.local \in Seq(RestType)
      BY <3>5, <3>6
    <3>. QED
      BY <3>2, <3>7, <3>8, <3>9
  <2>. QED
    BY <2>1, <2>2
<1>. QED
  BY <1>1, <1>2, <1>3, <1>4 DEF TypeOK, TypeInv, Answering, Memory, Cutting

LEMMA InitTypes == Init => TypeInv
<1>. SUFFICES ASSUME Init
              PROVE  TypeInv
  OBVIOUS
<1>1. FlushInv
  BY InitFlush
<1>2. Answering /\ Cutting /\ Looping
  BY HandlersAssumption, BoundsAssumption DEF Init, Answering, Cutting, Looping, Busy, AnyLoop, Idle
<1>3. history \in Histories
  BY DEF Init, Histories, Nothing
<1>4. Memory
  BY DEF Init, Memory
<1>5. Wired
  BY DEF Init, Wired, NoTrunk
<1>. QED
  BY <1>1, <1>2, <1>3, <1>4, <1>5 DEF TypeInv

LEMMA AnsweringStep == TypeInv /\ Next => Answering'
<1>. SUFFICES ASSUME TypeInv, Next
              PROVE  Answering'
  OBVIOUS
<1>0. Newest \in Nat
  BY DEF TypeInv, FlushInv, GoodAnswers, Newest
<1>1. CASE Respond
  <2>1. Newest' = Newest + 1
    BY <1>1 DEF Respond, TypeInv, FlushInv, GoodAnswers, Newest
  <2>2. valid \subseteq 1..Newest /\ valid' = valid \union {Newest + 1} /\ done' = FALSE
    BY <1>1 DEF Respond, TypeInv, Answering
  <2>3. valid' \subseteq 1..(Newest + 1)
    BY <1>0, <2>2
  <2>. QED
    BY <1>1, <2>1, <2>2, <2>3 DEF Respond, TypeInv, Answering
<1>2. CASE Synthesize
  BY <1>2 DEF Synthesize, TypeInv, Answering, Newest
<1>3. CASE Sync
  BY <1>3 DEF Sync, TypeInv, Answering, Newest, answerVars
<1>4. CASE ~Respond /\ ~Synthesize /\ ~Sync
  <2>1. UNCHANGED <<handler, answerVars, valid>>
    BY <1>4 DEF Next, Take, SendMedia, SendPost, Buffered, SendOn, Xoff, Xon,
       Drain, TrunkOnly, Play, Echo, Settle, Interrupt, AskIfThere, ClearData, Restart
  <2>. QED
    BY <2>1 DEF TypeInv, Answering, Newest, answerVars
<1>. QED
  BY <1>1, <1>2, <1>3, <1>4

(* Texts of marks. *)
LEMMA TextsTyped ==
  ASSUME NEW ms \in Seq(AllMarks)
  PROVE  Texts(ms) \in Seq(Chunks) /\ Range(Texts(ms)) = {m.of : m \in Range(ms) \intersect Texted}
<1>. DEFINE t == Those(ms, Texted)
<1>1. t \in Seq(AllMarks \intersect Texted) /\ Range(t) = Range(ms) \intersect Texted
  BY ThoseTyped
<1>. HIDE DEF t
<1>2. Texts(ms) = [i \in DOMAIN t |-> t[i].of]
  BY DEF Texts, t
<1>3. Len(t) \in Nat /\ DOMAIN t = 1..Len(t) /\ \A i \in DOMAIN t : t[i].of \in Chunks
  BY <1>1 DEF AllMarks
<1>4. Range(Texts(ms)) = {m.of : m \in Range(t)}
  BY <1>2 DEF Range
<1>. QED
  BY <1>1, <1>2, <1>3, <1>4

LEMMA TextsOne ==
  ASSUME NEW m \in AllMarks
  PROVE  Texts(<<m>>) = IF HasText(m) THEN <<m.of>> ELSE <<>>
<1>1. Those(<<m>>, Texted) = IF m \in Texted THEN <<m>> ELSE <<>>
  BY ThoseOne
<1>2. m \in Texted <=> HasText(m)
  BY DEF Texted, AllMarks, HasText
<1>3. CASE HasText(m)
  <2>1. Those(<<m>>, Texted) = <<m>>
    BY <1>1, <1>2, <1>3
  <2>2. Texts(<<m>>) = [i \in {1} |-> <<m>>[i].of]
    BY <2>1 DEF Texts
  <2>. QED
    BY <1>3, <2>2
<1>4. CASE ~HasText(m)
  <2>1. Those(<<m>>, Texted) = <<>>
    BY <1>1, <1>2, <1>4
  <2>. QED
    BY <1>4, <2>1 DEF Texts
<1>. QED
  BY <1>3, <1>4

LEMMA WithoutTyped ==
  ASSUME NEW ms \in Seq(AllMarks), NEW m
  PROVE  Without(ms, m) \in Seq(AllMarks) /\ Range(Without(ms, m)) = Range(ms) \ {m}
<1>1. /\ Those(ms, AllMarks \ {m}) \in Seq(AllMarks \intersect (AllMarks \ {m}))
      /\ Range(Those(ms, AllMarks \ {m})) = Range(ms) \intersect (AllMarks \ {m})
  BY ThoseTyped
<1>2. Range(ms) \subseteq AllMarks
  BY DEF Range
<1>3. Range(ms) \intersect (AllMarks \ {m}) = Range(ms) \ {m}
  BY <1>2
<1>4. Those(ms, AllMarks \ {m}) \in Seq(AllMarks)
  BY ThoseEmbed
<1>. QED
  BY <1>1, <1>3, <1>4 DEF Without

(* The history. *)
LEMMA CutTyped ==
  ASSUME history \in Histories, NEW r, NEW text \in Seq(Chunks)
  PROVE  CutTo(r, text) \in Histories
<1>. DEFINE New(q) == IF text # <<>> /\ q = r THEN [state |-> "cut", text |-> text]
                      ELSE IF text = <<>> /\ InHistory(r) /\ q \in r..Newest /\ turns[q] = turns[r] /\ InHistory(q)
                      THEN Nothing
                      ELSE history[q]
<1>1. ASSUME NEW q \in Responses PROVE New(q) \in [state : {"none", "full", "cut"}, text : Seq(Chunks)]
  BY DEF Histories, Nothing
<1>2. CutTo(r, text) = [q \in Responses |-> New(q)]
  BY DEF CutTo
<1>. HIDE DEF New
<1>. QED
  BY <1>1, <1>2 DEF Histories

LEMMA OfTyped ==
  ASSUME NEW h \in Seq(Chunks), NEW r
  PROVE  OfResponse(h, r) \in Seq(Chunks) /\ OfTurn(h, r) \in Seq(Chunks)
  BY ThoseEmbed DEF OfResponse, OfTurn

LEMMA HeardTextsTyped ==
  ASSUME Memory, NEW r, NEW text \in HeardTexts(r)
  PROVE  text \in Seq(Chunks)
<1>1. HeardOf(r) \in Seq(Chunks)
  BY OfTyped DEF HeardOf, Or, Memory
<1>2. Pending(r) \in Seq(Chunks)
  BY OfTyped, TextsTyped DEF Pending, Memory
<1>3. \A p \in Prefixes(Pending(r)) : p \in Seq(Chunks)
  BY <1>2 DEF Prefixes
<1>. QED
  BY <1>1, <1>3 DEF HeardTexts

LEMMA HistoryStep == TypeInv /\ Next => (history \in Histories)'
<1>. SUFFICES ASSUME TypeInv, Next
              PROVE  history' \in Histories
  BY DEF Histories, Responses
<1>0. history \in Histories /\ Memory
  BY DEF TypeInv
<1>1. CASE Take
  <2>. DEFINE r == Head(queue).of[1]
  <2>0. Head(queue) \in ChunkType
    BY <1>1 DEF Take, TypeInv, FlushInv
  <2>1. r \in Responses
    BY <2>0 DEF ChunkType, Chunks
  <2>2. history' = history \/ history' = [history EXCEPT ![r].state = "full"]
    BY <1>1 DEF Take
  <2>. QED
    BY <1>0, <2>1, <2>2 DEF Histories
<1>2. CASE Sync
  <2>1. \/ history' = history
        \/ \E text \in HeardTexts(Target) : history' = CutTo(Target, text)
    BY <1>2 DEF Sync
  <2>. QED
    BY <1>0, <2>1, HeardTextsTyped, CutTyped
<1>3. CASE ~Take /\ ~Sync
  <2>1. UNCHANGED history
    BY <1>3 DEF Next, Respond, Synthesize, SendMedia, SendPost, Buffered, SendOn, Xoff, Xon,
       Drain, TrunkOnly, Play, Echo, Settle, Interrupt, AskIfThere, ClearData, Restart
  <2>. QED
    BY <1>0, <2>1
<1>. QED
  BY <1>1, <1>2, <1>3

(* What the sending of audio to the SIP trunk does to its state. *)
LEMMA SendAudioDoes ==
  ASSUME NEW c \in ChunkType, NEW gen \in Nat, NEW t \in TrunkType, SendAudio(c, gen, t)
  PROVE  /\ trunk'.gen = t.gen /\ trunk'.drains = t.drains
         /\ loop' = Idle \/ loop' = [pc |-> "sending", of |-> c.of, kind |-> c.kind, frame |-> 1, gen |-> gen]
         /\ UNCHANGED marks \/ Register(c)
<1>1. CASE gen # t.gen
  BY <1>1 DEF SendAudio
<1>2. CASE gen = t.gen /\ MustQueue(t)
  <2>. DEFINE u == [t EXCEPT !.local = Append(@, Rest(c.of, 1, gen))]
  <2>1. Rest(c.of, 1, gen) \in LocalType
    BY BoundsAssumption DEF ChunkType, Rest, LocalType
  <2>2. Append(t.local, Rest(c.of, 1, gen)) \in Seq(LocalType)
    BY <2>1 DEF TrunkType
  <2>3. u \in TrunkType /\ u.gen = t.gen /\ u.drains = t.drains
    BY <2>2 DEF TrunkType
  <2>4. Alike(u, After(c, u, gen))
    BY <2>3, AfterAlike
  <2>5. trunk' = After(c, u, gen) /\ Register(c) /\ loop' = Idle
    BY <1>2 DEF SendAudio
  <2>. QED
    BY <2>3, <2>4, <2>5 DEF Alike
<1>3. CASE gen = t.gen /\ ~MustQueue(t)
  BY <1>3 DEF SendAudio
<1>. QED
  BY <1>1, <1>2, <1>3

LEMMA TrunkHandleDoes ==
  ASSUME TypeInv, Sip, NEW c \in ChunkType, TrunkHandle(c)
  PROVE  /\ trunk'.gen = trunk.gen /\ trunk'.drains = trunk.drains
         /\ loop' = Idle \/ \E pc \in {"buffering", "sending"}, f \in {0, 1} :
               loop' = [pc |-> pc, of |-> c.of, kind |-> c.kind, frame |-> f, gen |-> trunk.gen]
         /\ UNCHANGED marks \/ Register(c)
<1>0. trunk \in TrunkType
  BY DEF TypeInv, FlushInv, SipWire, GoodTrunk
<1>1. CASE c.kind = "end"
  <2>1. trunk' = After(c, trunk, trunk.gen) /\ loop' = Idle /\ Register(c)
    BY <1>1 DEF TrunkHandle
  <2>2. Alike(trunk, trunk')
    BY <1>0, <2>1, AfterAlike
  <2>. QED
    BY <2>1, <2>2 DEF Alike
<1>2. CASE c.kind # "end"
  <2>. DEFINE t == NewSequence(trunk, c)
  <2>1. Alike(trunk, t)
    BY <1>0, NewSequenceAlike DEF ChunkType
  <2>2. t \in TrunkType /\ t.gen = trunk.gen /\ t.drains = trunk.drains /\ t.gen \in Nat
    BY <2>1 DEF Alike, TrunkType
  <2>. HIDE DEF t
  <2>3. CASE ~t.buffering
    BY <1>2, <2>2, <2>3 DEF TrunkHandle, t
  <2>4. CASE t.buffering
    <3>1. SendAudio(c, t.gen, t)
      BY <1>2, <2>4 DEF TrunkHandle, t
    <3>2. /\ trunk'.gen = t.gen /\ trunk'.drains = t.drains
          /\ loop' = Idle \/ loop' = [pc |-> "sending", of |-> c.of, kind |-> c.kind, frame |-> 1, gen |-> t.gen]
          /\ UNCHANGED marks \/ Register(c)
      BY <2>2, <3>1, SendAudioDoes
    <3>. QED
      BY <2>2, <3>2
  <2>. QED
    BY <2>3, <2>4
<1>. QED
  BY <1>1, <1>2

LEMMA BufferedDoes ==
  ASSUME TypeInv, Sip, Buffered
  PROVE  /\ trunk'.gen = trunk.gen /\ trunk'.drains = trunk.drains
         /\ loop' = Idle \/ loop' = [pc |-> "sending", of |-> loop.of, kind |-> loop.kind, frame |-> 1,
                                     gen |-> loop.gen]
         /\ UNCHANGED marks \/ Register(loop)
<1>. DEFINE c == [of |-> loop.of, kind |-> loop.kind]
            t == [trunk EXCEPT !.buffering = TRUE]
<1>1. loop \in AnyLoop /\ loop.of \in Chunks /\ trunk \in TrunkType
  BY DEF Buffered, TypeInv, Looping, Busy, FlushInv, SipWire, GoodTrunk
<1>2. c \in ChunkType /\ loop.gen \in Nat
  BY <1>1 DEF AnyLoop, ChunkType
<1>3. t \in TrunkType /\ t.gen = trunk.gen /\ t.drains = trunk.drains
  BY <1>1 DEF TrunkType
<1>. HIDE DEF t
<1>4. SendAudio(c, loop.gen, t)
  BY DEF Buffered, t
<1>5. /\ trunk'.gen = t.gen /\ trunk'.drains = t.drains
      /\ loop' = Idle \/ loop' = [pc |-> "sending", of |-> c.of, kind |-> c.kind, frame |-> 1,
                                  gen |-> loop.gen]
      /\ UNCHANGED marks \/ Register(c)
  BY <1>2, <1>3, <1>4, SendAudioDoes
<1>. QED
  BY <1>3, <1>5 DEF Register

LEMMA SendOnDoes ==
  ASSUME TypeInv, Sip, SendOn
  PROVE  /\ trunk'.gen = trunk.gen /\ trunk'.drains = trunk.drains
         /\ \/ loop' = Idle
            \/ loop.frame + 1 \in 1..Frames /\ loop' = [loop EXCEPT !.frame = @ + 1]
         /\ UNCHANGED marks \/ Register(loop)
<1>. DEFINE c == [of |-> loop.of, kind |-> loop.kind]
            r == Rest(loop.of, loop.frame + 1, loop.gen)
            kept == [trunk EXCEPT !.local = <<r>> \o @]
<1>1. /\ loop \in AnyLoop /\ loop.of \in Chunks /\ trunk \in TrunkType /\ loop.frame \in 0..Frames
      /\ loop.frame # Frames => loop.frame + 1 \in 1..Frames
  BY BoundsAssumption DEF SendOn, TypeInv, Looping, Busy, AnyLoop, FlushInv, SipWire, GoodTrunk
<1>2. CASE Ends(loop.frame) /\ Register(c) /\ loop' = Idle /\ trunk' = After(c, trunk, loop.gen)
  <2>1. Alike(trunk, trunk')
    BY <1>1, <1>2, AfterAlike
  <2>. QED
    BY <1>2, <2>1 DEF Alike, Register
<1>3. CASE loop' = Idle /\ UNCHANGED <<marks, trunk>>
  BY <1>3
<1>4. CASE ~Ends(loop.frame) /\ Register(c) /\ loop' = Idle /\ trunk' = After(c, kept, loop.gen)
  <2>1. r \in LocalType
    BY <1>1, <1>4 DEF AnyLoop, Rest, LocalType, Ends
  <2>2. <<r>> \o trunk.local \in Seq(LocalType)
    BY <1>1, <2>1 DEF TrunkType
  <2>3. kept \in TrunkType /\ kept.gen = trunk.gen /\ kept.drains = trunk.drains
    BY <1>1, <2>2 DEF TrunkType
  <2>4. Alike(kept, trunk')
    BY <1>4, <2>3, AfterAlike
  <2>. QED
    BY <1>4, <2>3, <2>4 DEF Alike, Register
<1>5. CASE ~Ends(loop.frame) /\ loop' = [loop EXCEPT !.frame = @ + 1] /\ UNCHANGED <<marks, trunk>>
  BY <1>1, <1>5 DEF Ends
<1>. QED
  BY <1>2, <1>3, <1>4, <1>5 DEF SendOn

(* What the output loop does with a chunk it takes. *)
LEMMA TakeTakes ==
  ASSUME TypeInv, Take
  PROVE  /\ Head(queue) \in ChunkType /\ queue # <<>> /\ loop.pc = "idle"
         /\ Sends(Head(queue)) \/ UNCHANGED <<loop, marks, line, trunk>>
  BY DEF Take, TypeInv, FlushInv

Adds(of, kind) == marks' = Append(marks, Mark(of, kind))

LEMMA MarksGrow ==
  ASSUME TypeInv, Take \/ SendPost \/ Buffered \/ SendOn
  PROVE  UNCHANGED marks \/ \E of \in Chunks, kind \in Kinds : Adds(of, kind)
<1>0. loop \in AnyLoop /\ (Busy => loop.of \in Chunks)
  BY DEF TypeInv, Looping
<1>a. ASSUME Busy, Register(loop)
      PROVE  \E of \in Chunks, kind \in Kinds : Adds(of, kind)
  BY <1>0, <1>a DEF Register, Adds, AnyLoop, Kinds
<1>1. CASE Take
  <2>. DEFINE c == Head(queue)
  <2>1. c \in ChunkType /\ (Sends(c) \/ UNCHANGED marks)
    BY <1>1, TakeTakes
  <2>. HIDE DEF c
  <2>2. c.of \in Chunks /\ c.kind \in Kinds /\ "pre" \in Kinds
    BY <2>1 DEF ChunkType, Kinds
  <2>3. CASE Sip /\ TrunkHandle(c)
    <3>1. UNCHANGED marks \/ Register(c)
      BY <2>1, <2>3, TrunkHandleDoes
    <3>. QED
      BY <2>2, <3>1 DEF Register, Adds
  <2>4. CASE Handle(c)
    BY <2>2, <2>4 DEF Handle, Post, SendPre, Adds
  <2>. QED
    BY <2>1, <2>3, <2>4 DEF Sends
<1>2. CASE SendPost
  BY <1>0, <1>2 DEF SendPost, Post, Adds, AnyLoop, Kinds, Busy
<1>3. CASE Buffered
  <2>1. Sip
    BY <1>3 DEF Buffered, TypeInv, FlushInv, OtherWire
  <2>. QED
    BY <1>3, <1>a, <2>1, BufferedDoes DEF Buffered, Busy
<1>4. CASE SendOn
  <2>1. Sip
    BY <1>4 DEF SendOn, TypeInv, FlushInv, OtherWire
  <2>. QED
    BY <1>4, <1>a, <2>1, SendOnDoes DEF SendOn, Busy
<1>. QED
  BY <1>1, <1>2, <1>3, <1>4

LEMMA MemoryStep == TypeInv /\ Next => Memory'
<1>. SUFFICES ASSUME TypeInv, Next
              PROVE  Memory'
  OBVIOUS
<1>0. /\ marks \in Seq(AllMarks) /\ cleared \in Seq(AllMarks)
      /\ heard \in Seq(Chunks) /\ everHeard \in Seq(Chunks)
  BY DEF TypeInv, Memory
<1>1. CASE Take \/ SendPost \/ Buffered \/ SendOn
  <2>1. UNCHANGED marks \/ \E of \in Chunks, kind \in Kinds : Adds(of, kind)
    BY <1>1, MarksGrow
  <2>2. marks' \in Seq(AllMarks)
    <3>1. ASSUME NEW of \in Chunks, NEW kind \in Kinds, Adds(of, kind)
          PROVE  marks' \in Seq(AllMarks)
      <4>1. Mark(of, kind) \in AllMarks
        BY DEF Mark, AllMarks
      <4>. QED
        BY <1>0, <3>1, <4>1 DEF Adds
    <3>. QED
      BY <1>0, <2>1, <3>1
  <2>3. UNCHANGED <<cleared, heard, everHeard>>
    BY <1>1 DEF Take, SendPost, Buffered, SendOn, heardVars
  <2>. QED
    BY <1>0, <2>2, <2>3 DEF Memory
<1>2. CASE Echo
  <2>. DEFINE m == Head(echoes)
  <2>1. CASE Contains(marks, m) /\ marks' = Without(marks, m) /\ Hears(<<m>>)
    <3>1. m \in AllMarks
      BY <1>0, <2>1 DEF Contains
    <3>. HIDE DEF m
    <3>2. <<m>> \in Seq(AllMarks)
      BY <3>1
    <3>3. Texts(<<m>>) \in Seq(Chunks)
      BY <3>2, TextsTyped
    <3>4. heard' \in Seq(Chunks) /\ everHeard' \in Seq(Chunks)
      BY <1>0, <2>1, <3>3 DEF Hears
    <3>5. marks' \in Seq(AllMarks)
      BY <1>0, <2>1, WithoutTyped
    <3>6. cleared' = cleared
      BY <1>2 DEF Echo
    <3>. QED
      BY <1>0, <3>4, <3>5, <3>6 DEF Memory
  <2>2. CASE UNCHANGED <<marks, heardVars>>
    BY <1>0, <1>2, <2>2 DEF Echo, Memory, heardVars
  <2>. QED
    BY <1>2, <2>1, <2>2 DEF Echo
<1>3. CASE Settle
  <2>1. CASE UNCHANGED <<marks, heardVars>>
    BY <1>0, <1>3, <2>1 DEF Settle, Memory, heardVars
  <2>2. CASE marks' = <<>> /\ Hears(marks)
    <3>1. Texts(marks) \in Seq(Chunks)
      BY <1>0, TextsTyped
    <3>2. heard' \in Seq(Chunks) /\ everHeard' \in Seq(Chunks)
      BY <1>0, <2>2, <3>1 DEF Hears
    <3>. QED
      BY <1>0, <1>3, <2>2, <3>2 DEF Settle, Memory
  <2>. QED
    BY <1>3, <2>1, <2>2 DEF Settle
<1>4. CASE AskIfThere
  BY <1>0, <1>4 DEF AskIfThere, Memory
<1>5. CASE ClearData
  BY <1>0, <1>5 DEF ClearData, Memory
<1>6. CASE Sync
  BY <1>0, <1>6 DEF Sync, Memory
<1>7. CASE Respond \/ Synthesize \/ SendMedia \/ Xoff \/ Xon \/ Drain \/ Play \/ Interrupt \/ Restart
  <2>1. UNCHANGED <<marks, cleared, heard, everHeard>>
    BY <1>7 DEF Respond, Synthesize, SendMedia, Xoff, Xon, Drain, TrunkOnly, Play, Interrupt, Restart,
       heardVars
  <2>. QED
    BY <1>0, <2>1 DEF Memory
<1>. QED
  BY <1>1, <1>2, <1>3, <1>4, <1>5, <1>6, <1>7 DEF Next

LEMMA CuttingStep == TypeInv /\ Next => Cutting'
<1>. SUFFICES ASSUME TypeInv, Next
              PROVE  Cutting'
  OBVIOUS
<1>1. CASE Interrupt
  BY <1>1, BoundsAssumption DEF Interrupt, TypeInv, Cutting
<1>2. CASE AskIfThere
  BY <1>2, BoundsAssumption DEF AskIfThere, TypeInv, Cutting
<1>3. CASE ClearData
  BY <1>3 DEF ClearData, TypeInv, Cutting
<1>4. CASE Sync
  BY <1>4 DEF Sync, TypeInv, Cutting
<1>5. CASE Restart
  BY <1>5 DEF Restart, TypeInv, Cutting
<1>6. CASE ~Interrupt /\ ~AskIfThere /\ ~ClearData /\ ~Sync /\ ~Restart
  <2>1. UNCHANGED <<cut, cuts>>
    BY <1>6 DEF Next, Respond, Synthesize, Take, SendMedia, SendPost, Buffered, SendOn, Xoff, Xon,
       Drain, TrunkOnly, Play, Echo, Settle
  <2>. QED
    BY <2>1 DEF TypeInv, Cutting
<1>. QED
  BY <1>1, <1>2, <1>3, <1>4, <1>5, <1>6

LEMMA IdleTyped == Idle \in AnyLoop /\ Idle.pc = "idle"
  BY BoundsAssumption DEF Idle, AnyLoop

LEMMA TakenTyped ==
  ASSUME NEW c \in ChunkType, NEW pc \in {"pre", "media", "buffering", "sending"}, NEW f \in {0, 1},
         NEW gen \in Nat
  PROVE  LET l == [pc |-> pc, of |-> c.of, kind |-> c.kind, frame |-> f, gen |-> gen] IN
         l \in AnyLoop /\ l.of \in Chunks /\ l.pc = pc
<1>1. f \in 0..Frames /\ c.of \in Chunks /\ c.kind \in {"audio", "last", "end"}
  BY BoundsAssumption DEF ChunkType
<1>. QED
  BY <1>1 DEF AnyLoop

LEMMA LoopingStep == TypeInv /\ Next => Looping'
<1>. SUFFICES ASSUME TypeInv, Next
              PROVE  Looping'
  OBVIOUS
<1>0. loop \in AnyLoop /\ (Busy => loop.of \in Chunks)
  BY DEF TypeInv, Looping
<1>a. ASSUME loop' = Idle PROVE Looping'
  BY <1>a, IdleTyped DEF Looping, Busy
<1>b. ASSUME loop' \in AnyLoop, loop'.of \in Chunks PROVE Looping'
  BY <1>b DEF Looping, Busy
<1>c. ASSUME loop' = loop PROVE Looping'
  BY <1>0, <1>c DEF Looping, Busy
<1>1. CASE Take
  <2>. DEFINE c == Head(queue)
  <2>1. c \in ChunkType /\ (Sends(c) \/ UNCHANGED loop)
    BY <1>1, TakeTakes
  <2>. HIDE DEF c
  <2>2. CASE Sip /\ TrunkHandle(c)
    <3>1. loop' = Idle \/ \E pc \in {"buffering", "sending"}, f \in {0, 1} :
             loop' = [pc |-> pc, of |-> c.of, kind |-> c.kind, frame |-> f, gen |-> trunk.gen]
      BY <2>1, <2>2, TrunkHandleDoes
    <3>2. trunk.gen \in Nat
      BY <2>2 DEF TypeInv, FlushInv, SipWire, GoodTrunk, TrunkType
    <3>. QED
      BY <1>a, <1>b, <2>1, <3>1, <3>2, TakenTyped
  <2>3. CASE Handle(c)
    <3>1. CASE Post(c.of, c.kind)
      BY <1>a, <3>1 DEF Post
    <3>2. CASE SendPre(c)
      <4>1. loop' = [pc |-> "pre", of |-> c.of, kind |-> c.kind, frame |-> 0, gen |-> 0]
        BY <3>2 DEF SendPre, Idle
      <4>. QED
        BY <1>b, <2>1, <4>1, TakenTyped
    <3>. QED
      BY <2>3, <3>1, <3>2 DEF Handle
  <2>. QED
    BY <1>c, <2>1, <2>2, <2>3 DEF Sends
<1>2. CASE SendMedia
  <2>1. loop.pc = "pre" /\ loop' = [loop EXCEPT !.pc = "media"]
    BY <1>2 DEF SendMedia
  <2>. QED
    BY <1>0, <1>b, <2>1 DEF AnyLoop, Busy
<1>3. CASE SendPost
  BY <1>3, <1>a DEF SendPost, Post
<1>4. CASE Buffered
  <2>1. Sip /\ Busy
    BY <1>4 DEF Buffered, TypeInv, FlushInv, OtherWire, Busy
  <2>2. loop' = Idle \/ loop' = [pc |-> "sending", of |-> loop.of, kind |-> loop.kind, frame |-> 1,
                                 gen |-> loop.gen]
    BY <1>4, <2>1, BufferedDoes
  <2>. QED
    BY <1>0, <1>a, <1>b, <2>1, <2>2, BoundsAssumption DEF AnyLoop
<1>5. CASE SendOn
  <2>1. Sip /\ Busy
    BY <1>5 DEF SendOn, TypeInv, FlushInv, OtherWire, Busy
  <2>2. \/ loop' = Idle
        \/ loop.frame + 1 \in 1..Frames /\ loop' = [loop EXCEPT !.frame = @ + 1]
    BY <1>5, <2>1, SendOnDoes
  <2>. QED
    BY <1>0, <1>a, <1>b, <2>1, <2>2, BoundsAssumption DEF AnyLoop
<1>6. CASE Restart
  BY <1>6, <1>a DEF Restart
<1>7. CASE ~Take /\ ~SendMedia /\ ~SendPost /\ ~Buffered /\ ~SendOn /\ ~Restart
  <2>1. UNCHANGED loop
    BY <1>7 DEF Next, Respond, Synthesize, Xoff, Xon, Drain, TrunkOnly, Play, Echo, Settle, Interrupt,
       AskIfThere, ClearData, Sync
  <2>. QED
    BY <1>c, <2>1
<1>. QED
  BY <1>1, <1>2, <1>3, <1>4, <1>5, <1>6, <1>7

(* The wires of the web and the telephone. *)
LEMMA ClearEchoes ==
  ASSUME ~Sip, line \in Seq(Items), echoes \in Seq(AllMarks), Clear
  PROVE  line' = <<>> /\ echoes' \in Seq(AllMarks)
<1>. DEFINE dropped == Those(line, AllMarks)
<1>1. line' = <<>> /\ (echoes' = echoes \o dropped \/ echoes' = echoes)
  BY DEF Clear
<1>2. dropped \in Seq(Items \intersect AllMarks) /\ Items \intersect AllMarks = AllMarks
  BY ThoseTyped DEF Items
<1>3. dropped \in Seq(AllMarks)
  BY <1>2
<1>. HIDE DEF dropped
<1>4. echoes \o dropped \in Seq(AllMarks)
  BY <1>3
<1>. QED
  BY <1>1, <1>4

LEMMA PlayWires ==
  ASSUME ~Sip, line \in Seq(Items), echoes \in Seq(AllMarks), Play
  PROVE  line' \in Seq(Items) /\ echoes' \in Seq(AllMarks)
<1>1. line # <<>> /\ line' = Tail(line) /\ Head(line) \in Items
  BY DEF Play
<1>2. IsMark(Head(line)) => Head(line) \in AllMarks
  BY <1>1 DEF IsMark, Items
<1>3. line' \in Seq(Items)
  BY <1>1
<1>4. echoes' \in Seq(AllMarks)
  BY <1>2 DEF Play
<1>. QED
  BY <1>3, <1>4

LEMMA MarkItem ==
  ASSUME NEW of \in Chunks, NEW kind \in Kinds
  PROVE  Mark(of, kind) \in AllMarks /\ Mark(of, kind) \in Items
  BY DEF Mark, AllMarks, Items

LEMMA LoopWires ==
  ASSUME TypeInv, ~Sip, line \in Seq(Items), Take \/ SendMedia \/ SendPost
  PROVE  line' \in Seq(Items)
<1>0. loop \in AnyLoop /\ (Busy => loop.of \in Chunks /\ loop.kind \in Kinds)
  BY DEF TypeInv, Looping, AnyLoop, Kinds
<1>1. CASE Take
  <2>. DEFINE c == Head(queue)
  <2>1. c \in ChunkType /\ (Handle(c) \/ UNCHANGED line)
    BY <1>1, TakeTakes DEF Sends
  <2>. HIDE DEF c
  <2>2. c.of \in Chunks /\ c.kind \in Kinds /\ "pre" \in Kinds
    BY <2>1 DEF ChunkType, Kinds
  <2>3. Handle(c) => line' = Append(line, Mark(c.of, c.kind)) \/ line' = Append(line, Mark(c.of, "pre"))
    BY DEF Handle, Post, SendPre
  <2>4. Mark(c.of, c.kind) \in Items /\ Mark(c.of, "pre") \in Items
    BY <2>2, MarkItem
  <2>. QED
    BY <2>1, <2>3, <2>4
<1>2. CASE SendMedia
  <2>1. Media(loop.of, 1) \in Items
    BY <1>0, <1>2 DEF SendMedia, Busy, Media, Items
  <2>. QED
    BY <1>2, <2>1 DEF SendMedia
<1>3. CASE SendPost
  <2>1. Mark(loop.of, loop.kind) \in Items
    BY <1>0, <1>3, MarkItem DEF SendPost, Busy
  <2>. QED
    BY <1>3, <2>1 DEF SendPost, Post
<1>. QED
  BY <1>1, <1>2, <1>3

LEMMA OtherWired == TypeInv /\ Next /\ ~Sip => echoes' \in Seq(AllMarks) /\ line' \in Seq(Items)
<1>. SUFFICES ASSUME TypeInv, Next, ~Sip
              PROVE  echoes' \in Seq(AllMarks) /\ line' \in Seq(Items)
  OBVIOUS
<1>0. echoes \in Seq(AllMarks) /\ line \in Seq(Items) /\ loop.pc \in {"idle", "pre", "media"}
      /\ trunk = NoTrunk
  BY DEF TypeInv, Wired, FlushInv, OtherWire
<1>1. CASE Take \/ SendMedia \/ SendPost
  <2>1. UNCHANGED echoes
    BY <1>1 DEF Take, SendMedia, SendPost
  <2>. QED
    BY <1>0, <1>1, <2>1, LoopWires
<1>2. CASE Play
  BY <1>0, <1>2, PlayWires
<1>3. CASE Echo
  BY <1>0, <1>3 DEF Echo
<1>4. CASE Interrupt \/ AskIfThere
  <2>1. Clear
    BY <1>4 DEF Interrupt, AskIfThere
  <2>2. <<>> \in Seq(Items)
    OBVIOUS
  <2>. QED
    BY <1>0, <2>1, <2>2, ClearEchoes
<1>5. CASE Buffered \/ SendOn \/ Xoff \/ Xon \/ Drain \/ Settle
  BY <1>0, <1>5 DEF Buffered, SendOn, Xoff, Xon, Drain, Settle, NoTrunk
<1>6. CASE Respond \/ Synthesize \/ ClearData \/ Sync \/ Restart
  <2>1. UNCHANGED <<line, echoes>>
    BY <1>6 DEF Respond, Synthesize, ClearData, Sync, Restart, wireVars
  <2>. QED
    BY <1>0, <2>1
<1>. QED
  BY <1>1, <1>2, <1>3, <1>4, <1>5, <1>6 DEF Next

(* The generations of the SIP trunk. *)
Dated == trunk.gen <= cuts /\ \A d \in trunk.drains : d.gen <= trunk.gen

LEMMA NextChunkDates ==
  ASSUME NEW t \in TrunkType, NEW others, NEW gen \in Nat, NextChunk(t, others, gen)
  PROVE  trunk'.gen = t.gen /\ \A d \in trunk'.drains : d \in others \/ d.gen = gen
<1>. DEFINE u == [t EXCEPT !.drains = others]
<1>1. CASE trunk' = Drained(u)
  <2>1. u.gen = t.gen /\ u.drains = others
    BY DEF TrunkType
  <2>2. Finishes(u, <<>>, u.gen).gen = t.gen /\ Finishes(u, <<>>, u.gen).drains = others
    BY DEF TrunkType, Finishes
  <2>. HIDE DEF u
  <2>3. trunk' = u \/ trunk' = Finishes(u, <<>>, u.gen)
    BY <1>1 DEF Drained
  <2>. QED
    BY <2>1, <2>2, <2>3
<1>2. CASE GiveUp(t, others)
  BY <1>2 DEF GiveUp, TrunkType
<1>3. CASE SendRest([t EXCEPT !.local = Tail(@)], others, Head(t.local), gen)
  <2>. DEFINE d == [rest |-> Head(t.local), gen |-> gen]
  <2>1. trunk' = [[t EXCEPT !.local = Tail(@)] EXCEPT !.drains = others \union {d}]
    BY <1>3 DEF SendRest
  <2>2. trunk'.gen = t.gen /\ trunk'.drains = others \union {d}
    BY <2>1 DEF TrunkType
  <2>. QED
    BY <2>2
<1>. QED
  BY <1>1, <1>2, <1>3 DEF NextChunk

LEMMA SipWired == TypeInv /\ Next /\ Sip => echoes' = <<>> /\ Dated'
<1>. SUFFICES ASSUME TypeInv, Next, Sip
              PROVE  echoes' = <<>> /\ Dated'
  OBVIOUS
<1>0. /\ echoes = <<>> /\ Dated /\ cuts \in Nat /\ trunk \in TrunkType /\ trunk.gen \in Nat
      /\ loop.pc \in {"idle", "buffering", "sending"} /\ line \in Seq(LineType)
      /\ \A d \in trunk.drains : d.gen \in Nat
  BY BoundsAssumption DEF TypeInv, Wired, Dated, Cutting, FlushInv, SipWire, GoodTrunk, TrunkType, TrunkLoop,
     GoodLine, DrainType
<1>a. ASSUME echoes' = echoes, cuts' = cuts, trunk'.gen = trunk.gen, trunk'.drains = trunk.drains
      PROVE  echoes' = <<>> /\ Dated'
  BY <1>0, <1>a DEF Dated
<1>1. CASE Take
  <2>1. Head(queue) \in ChunkType /\ (TrunkHandle(Head(queue)) \/ UNCHANGED trunk)
    BY <1>1, TakeTakes DEF Sends
  <2>2. trunk'.gen = trunk.gen /\ trunk'.drains = trunk.drains
    BY <2>1, TrunkHandleDoes
  <2>. QED
    BY <1>1, <1>a, <2>2 DEF Take
<1>2. CASE Buffered
  BY <1>2, <1>a, BufferedDoes DEF Buffered
<1>3. CASE SendOn
  BY <1>3, <1>a, SendOnDoes DEF SendOn
<1>4. CASE Xoff
  BY <1>0, <1>4, <1>a DEF Xoff, TrunkOnly, TrunkType
<1>b. ASSUME UNCHANGED <<echoes, cuts>>, NEW S \in SUBSET trunk.drains, NEW gen \in Nat, gen <= trunk.gen,
             trunk'.gen = trunk.gen, \A d \in trunk'.drains : d \in S \/ d.gen = gen
      PROVE  echoes' = <<>> /\ Dated'
  BY <1>0, <1>b DEF Dated
<1>5. CASE Xon
  <2>. DEFINE t == [trunk EXCEPT !.full = FALSE]
  <2>1. t \in TrunkType /\ t.gen = trunk.gen /\ NextChunk(t, trunk.drains, trunk.gen)
    BY <1>0, <1>5 DEF Xon, TrunkType
  <2>2. trunk'.gen = trunk.gen /\ \A d \in trunk'.drains : d \in trunk.drains \/ d.gen = trunk.gen
    BY <1>0, <2>1, NextChunkDates
  <2>3. UNCHANGED <<echoes, cuts>> /\ trunk.gen <= trunk.gen /\ trunk.drains \in SUBSET trunk.drains
    BY <1>0, <1>5 DEF Xon, TrunkOnly
  <2>. QED
    BY <1>0, <1>b, <2>2, <2>3
<1>6. CASE Drain
  <2>1. PICK d \in trunk.drains :
          LET others == trunk.drains \ {d} IN
          \/ NextChunk(trunk, others, d.gen)
          \/ GiveUp(trunk, others)
          \/ trunk' = [trunk EXCEPT !.drains = others, !.local = <<Following(d.rest)>> \o @]
          \/ SendRest(trunk, others, Following(d.rest), d.gen)
    BY <1>6 DEF Drain
  <2>. DEFINE others == trunk.drains \ {d}
  <2>2. d.gen \in Nat /\ d.gen <= trunk.gen /\ others \in SUBSET trunk.drains
    BY <1>0 DEF Dated
  <2>3. trunk'.gen = trunk.gen /\ \A e \in trunk'.drains : e \in others \/ e.gen = d.gen
    <3>1. CASE NextChunk(trunk, others, d.gen)
      BY <1>0, <2>2, <3>1, NextChunkDates
    <3>2. CASE GiveUp(trunk, others)
      BY <1>0, <3>2 DEF GiveUp, TrunkType
    <3>3. CASE trunk' = [trunk EXCEPT !.drains = others, !.local = <<Following(d.rest)>> \o @]
      BY <1>0, <3>3 DEF TrunkType
    <3>4. CASE SendRest(trunk, others, Following(d.rest), d.gen)
      <4>. DEFINE e == [rest |-> Following(d.rest), gen |-> d.gen]
      <4>1. trunk' = [trunk EXCEPT !.drains = others \union {e}]
        BY <3>4 DEF SendRest
      <4>2. trunk'.gen = trunk.gen /\ trunk'.drains = others \union {e}
        BY <1>0, <4>1 DEF TrunkType
      <4>. QED
        BY <4>2
    <3>. QED
      BY <2>1, <3>1, <3>2, <3>3, <3>4
  <2>4. UNCHANGED <<echoes, cuts>>
    BY <1>6 DEF Drain, TrunkOnly
  <2>. HIDE DEF others
  <2>. QED
    BY <1>b, <2>2, <2>3, <2>4
<1>7. CASE Play
  <2>1. Head(line) \in LineType
    BY <1>0, <1>7 DEF Play
  <2>2. ~IsMark(Head(line))
    BY <2>1 DEF LineType, IsMark
  <2>. QED
    BY <1>7, <1>a, <2>2 DEF Play
<1>8. CASE Settle
  <2>1. trunk'.gen = trunk.gen /\ trunk'.drains = trunk.drains
    BY <1>0, <1>8 DEF Settle, TrunkType
  <2>. QED
    BY <1>8, <1>a, <2>1 DEF Settle, wireVars
<1>9. CASE Interrupt \/ AskIfThere
  <2>1. Clear /\ cuts' = cuts + 1
    BY <1>9 DEF Interrupt, AskIfThere
  <2>2. trunk'.gen = trunk.gen + 1 /\ trunk'.drains = trunk.drains /\ echoes' = echoes
    BY <1>0, <2>1 DEF Clear, TrunkType
  <2>. QED
    BY <1>0, <2>1, <2>2 DEF Dated
<1>10. CASE ClearData
  <2>1. trunk'.gen = trunk.gen /\ trunk'.drains = trunk.drains
    BY <1>0, <1>10 DEF ClearData, TrunkType
  <2>. QED
    BY <1>10, <1>a, <2>1 DEF ClearData
<1>11. CASE SendMedia \/ SendPost \/ Echo
  BY <1>0, <1>11 DEF SendMedia, SendPost, Echo
<1>12. CASE Respond \/ Synthesize \/ Sync \/ Restart
  <2>1. UNCHANGED <<echoes, cuts, trunk>>
    BY <1>12 DEF Respond, Synthesize, Sync, Restart, wireVars
  <2>. QED
    BY <1>a, <2>1
<1>. QED
  BY <1>1, <1>2, <1>3, <1>4, <1>5, <1>6, <1>7, <1>8, <1>9, <1>10, <1>11, <1>12 DEF Next

LEMMA TypeStep == TypeInv /\ [Next]_vars => TypeInv'
<1>. SUFFICES ASSUME TypeInv, [Next]_vars
              PROVE  TypeInv'
  OBVIOUS
<1>0. FlushInv'
  BY FlushStep DEF TypeInv
<1>1. CASE Next
  <2>1. Sip' = Sip
    BY <1>1 DEF Next, Sip, Respond, Synthesize, Take, SendMedia, SendPost, Buffered, SendOn, Xoff, Xon,
       Drain, TrunkOnly, Play, Echo, Settle, Interrupt, AskIfThere, ClearData, Sync, Restart
  <2>2. Wired'
    BY <1>1, <2>1, OtherWired, SipWired DEF Wired, Dated
  <2>. QED
    BY <1>0, <1>1, <2>2, AnsweringStep, HistoryStep, MemoryStep, CuttingStep, LoopingStep DEF TypeInv
<1>2. CASE UNCHANGED vars
  <2>1. UNCHANGED <<handler, done, valid, turns, history, marks, cleared, heard, everHeard, cut, cuts, loop,
                    echoes, trunk, line>>
    BY <1>2 DEF vars, answerVars, heardVars, wireVars
  <2>2. Wired'
    BY <2>1 DEF TypeInv, Wired, Sip
  <2>3. Looping' /\ Cutting' /\ Memory' /\ Answering' /\ (history \in Histories)'
    BY <2>1 DEF TypeInv, Looping, Busy, Cutting, Memory, Answering, Newest, Histories
  <2>. QED
    BY <1>0, <2>2, <2>3 DEF TypeInv
<1>. QED
  BY <1>1, <1>2

(* Every variable has its type, with any of the handlers. *)
THEOREM TypeCorrect == Spec => []TypeOK
  BY InitTypes, TypeStep, TypesHold, PTL DEF Spec

-----------------------------------------------------------------------------
(* Sequences as sets. *)
LEMMA RangeAppend ==
  ASSUME NEW T, NEW s \in Seq(T), NEW x
  PROVE  Range(Append(s, x)) = Range(s) \union {x}
<1>1. /\ DOMAIN s = 1..Len(s) /\ Len(s) \in Nat /\ DOMAIN Append(s, x) = 1..(Len(s) + 1)
      /\ Append(s, x)[Len(s) + 1] = x /\ \A i \in 1..Len(s) : Append(s, x)[i] = s[i]
  OBVIOUS
<1>2. \A i \in 1..(Len(s) + 1) : i = Len(s) + 1 \/ i \in 1..Len(s)
  BY <1>1
<1>3. Len(s) + 1 \in 1..(Len(s) + 1) /\ \A i \in 1..Len(s) : i \in 1..(Len(s) + 1)
  BY <1>1
<1>4. Range(Append(s, x)) \subseteq Range(s) \union {x}
  BY <1>1, <1>2 DEF Range
<1>5. Range(s) \subseteq Range(Append(s, x)) /\ x \in Range(Append(s, x))
  BY <1>1, <1>3 DEF Range
<1>. QED
  BY <1>4, <1>5

LEMMA RangeTail ==
  ASSUME NEW T, NEW s \in Seq(T), s # <<>>
  PROVE  /\ Range(Tail(s)) \subseteq Range(s) /\ Head(s) \in Range(s) /\ Head(s) = s[1]
         /\ Range(s) = Range(Tail(s)) \union {Head(s)} /\ Tail(s) \in Seq(T)
<1>1. /\ Len(s) \in Nat /\ Len(s) >= 1 /\ DOMAIN s = 1..Len(s) /\ Head(s) = s[1]
      /\ Len(Tail(s)) = Len(s) - 1 /\ DOMAIN Tail(s) = 1..(Len(s) - 1)
      /\ \A i \in 1..(Len(s) - 1) : Tail(s)[i] = s[i + 1]
  OBVIOUS
<1>2. ASSUME NEW i \in 1..Len(s) PROVE s[i] \in Range(Tail(s)) \union {Head(s)}
  <2>1. CASE i = 1
    BY <1>1, <2>1
  <2>2. CASE i # 1
    <3>1. i - 1 \in 1..(Len(s) - 1) /\ (i - 1) + 1 = i
      BY <1>1, <2>2
    <3>2. Tail(s)[i - 1] = s[i]
      BY <1>1, <3>1
    <3>. QED
      BY <1>1, <3>1, <3>2 DEF Range
  <2>. QED
    BY <2>1, <2>2
<1>3. \A i \in 1..(Len(s) - 1) : i + 1 \in 1..Len(s)
  BY <1>1
<1>4. Range(Tail(s)) \subseteq Range(s)
  BY <1>1, <1>3 DEF Range
<1>5. Head(s) \in Range(s)
  BY <1>1 DEF Range
<1>6. Range(s) \subseteq Range(Tail(s)) \union {Head(s)}
  BY <1>1, <1>2 DEF Range
<1>. QED
  BY <1>1, <1>4, <1>5, <1>6

LEMMA RangeConcat ==
  ASSUME NEW T, NEW s \in Seq(T), NEW u \in Seq(T)
  PROVE  Range(s \o u) = Range(s) \union Range(u)
<1>1. /\ Len(s) \in Nat /\ Len(u) \in Nat /\ DOMAIN s = 1..Len(s) /\ DOMAIN u = 1..Len(u)
      /\ DOMAIN (s \o u) = 1..(Len(s) + Len(u))
      /\ \A i \in 1..Len(s) : (s \o u)[i] = s[i]
      /\ \A i \in 1..Len(u) : (s \o u)[Len(s) + i] = u[i]
  OBVIOUS
<1>2. ASSUME NEW i \in 1..(Len(s) + Len(u)) PROVE (s \o u)[i] \in Range(s) \union Range(u)
  <2>1. CASE i <= Len(s)
    BY <1>1, <2>1 DEF Range
  <2>2. CASE i > Len(s)
    <3>1. i - Len(s) \in 1..Len(u) /\ Len(s) + (i - Len(s)) = i
      BY <1>1, <2>2
    <3>2. (s \o u)[i] = u[i - Len(s)]
      BY <1>1, <3>1
    <3>. QED
      BY <1>1, <3>1, <3>2 DEF Range
  <2>. QED
    BY <1>1, <2>1, <2>2
<1>3. /\ \A i \in 1..Len(s) : i \in 1..(Len(s) + Len(u))
      /\ \A i \in 1..Len(u) : Len(s) + i \in 1..(Len(s) + Len(u))
  BY <1>1
<1>4. Range(s \o u) \subseteq Range(s) \union Range(u)
  BY <1>1, <1>2 DEF Range
<1>5. Range(s) \subseteq Range(s \o u)
  BY <1>1, <1>3 DEF Range
<1>6. Range(u) \subseteq Range(s \o u)
  BY <1>1, <1>3 DEF Range
<1>. QED
  BY <1>4, <1>5, <1>6

LEMMA RangeEmpty == Range(<<>>) = {}
  BY DEF Range

LEMMA RangeContains ==
  ASSUME NEW T, NEW s \in Seq(T), NEW x
  PROVE  Contains(s, x) <=> x \in Range(s)
  BY DEF Contains, Range

-----------------------------------------------------------------------------
(* What was heard was played. A text is fed when its audio was played, or is   *)
(* on the line before its mark, or was cleared.                                *)
E == Range(everHeard)
EM == Range(echoes)
PlayedOf == {p[1] : p \in Range(played)} \union skipped
Fed(P, items, i, of) == of \in P \/ \E k \in 1..(i - 1) : items[k].kind = "media" /\ items[k].of = of
LineFed(P, items) == \A i \in DOMAIN items : HasText(items[i]) => Fed(P, items, i, items[i].of)

PlayedInv == ~Sip =>
  /\ played \in Seq(Chunks \X {1})
  /\ E \subseteq PlayedOf
  /\ \A m \in EM : HasText(m) => m.of \in PlayedOf
  /\ LineFed(PlayedOf, line)
  /\ loop.pc = "media" => Fed(PlayedOf, line, Len(line) + 1, loop.of)

LEMMA FedGrows ==
  ASSUME NEW P, NEW Q, P \subseteq Q, NEW items, LineFed(P, items)
  PROVE  LineFed(Q, items)
  BY DEF LineFed, Fed

LEMMA FedAppend ==
  ASSUME NEW P, NEW items \in Seq(Items), NEW x, LineFed(P, items),
         HasText(x) => Fed(P, items, Len(items) + 1, x.of)
  PROVE  LineFed(P, Append(items, x))
<1>. DEFINE n == Len(items)
            more == Append(items, x)
<1>1. /\ n \in Nat /\ DOMAIN items = 1..n /\ DOMAIN more = 1..(n + 1)
      /\ more[n + 1] = x /\ \A i \in 1..n : more[i] = items[i]
  OBVIOUS
<1>2. ASSUME NEW i \in 1..(n + 1), NEW of, Fed(P, items, i, of) PROVE Fed(P, more, i, of)
  <2>1. \A k \in 1..(i - 1) : k \in 1..n
    BY <1>1
  <2>. QED
    BY <1>1, <1>2, <2>1 DEF Fed
<1>3. ASSUME NEW i \in 1..(n + 1), HasText(more[i]) PROVE Fed(P, items, i, more[i].of)
  <2>1. CASE i = n + 1
    BY <1>1, <1>3, <2>1
  <2>2. CASE i # n + 1
    <3>1. i \in 1..n
      BY <1>1, <2>2
    <3>. QED
      BY <1>1, <1>3, <3>1 DEF LineFed
  <2>. QED
    BY <2>1, <2>2
<1>. HIDE DEF more, n
<1>. QED
  BY <1>1, <1>2, <1>3 DEF LineFed, more

LEMMA FedTail ==
  ASSUME NEW P, NEW Q, P \subseteq Q, NEW items \in Seq(Items), items # <<>>,
         Head(items).kind = "media" => Head(items).of \in Q,
         NEW i \in 2..(Len(items) + 1), NEW of, Fed(P, items, i, of)
  PROVE  Fed(Q, Tail(items), i - 1, of)
<1>1. /\ Len(items) \in Nat /\ Head(items) = items[1]
      /\ \A k \in 1..(Len(items) - 1) : Tail(items)[k] = items[k + 1]
  OBVIOUS
<1>2. CASE of \in P
  BY <1>2 DEF Fed
<1>3. CASE items[1].kind = "media" /\ items[1].of = of
  BY <1>1, <1>3 DEF Fed
<1>4. ASSUME NEW k \in 1..(i - 1), k # 1, items[k].kind = "media", items[k].of = of
      PROVE  Fed(Q, Tail(items), i - 1, of)
  <2>1. k - 1 \in 1..((i - 1) - 1) /\ k - 1 \in 1..(Len(items) - 1) /\ (k - 1) + 1 = k
    BY <1>1, <1>4
  <2>2. Tail(items)[k - 1] = items[k]
    BY <1>1, <2>1
  <2>. QED
    BY <1>4, <2>1, <2>2 DEF Fed
<1>. QED
  BY <1>2, <1>3, <1>4 DEF Fed

LEMMA LineFedTail ==
  ASSUME NEW P, NEW Q, P \subseteq Q, NEW items \in Seq(Items), items # <<>>, LineFed(P, items),
         Head(items).kind = "media" => Head(items).of \in Q
  PROVE  LineFed(Q, Tail(items))
<1>1. /\ Len(items) \in Nat /\ DOMAIN items = 1..Len(items)
      /\ DOMAIN Tail(items) = 1..(Len(items) - 1)
      /\ \A k \in 1..(Len(items) - 1) : Tail(items)[k] = items[k + 1]
  OBVIOUS
<1>2. ASSUME NEW i \in 1..(Len(items) - 1), HasText(Tail(items)[i]) PROVE Fed(Q, Tail(items), i, Tail(items)[i].of)
  <2>1. i + 1 \in 2..(Len(items) + 1) /\ i + 1 \in 1..Len(items) /\ (i + 1) - 1 = i
    BY <1>1
  <2>2. Fed(P, items, i + 1, items[i + 1].of)
    BY <1>1, <1>2, <2>1 DEF LineFed
  <2>3. Fed(Q, Tail(items), (i + 1) - 1, items[i + 1].of)
    BY <2>1, <2>2, FedTail
  <2>. QED
    BY <1>1, <2>1, <2>3
<1>. QED
  BY <1>1, <1>2 DEF LineFed

LEMMA InitPlayed == Init => PlayedInv
  BY RangeEmpty DEF Init, PlayedInv, LineFed, E, EM, Idle

LEMMA HandlerStays == Next => Sip' = Sip
  BY DEF Next, Sip, Respond, Synthesize, Take, SendMedia, SendPost, Buffered, SendOn, Xoff, Xon,
     Drain, TrunkOnly, Play, Echo, Settle, Interrupt, AskIfThere, ClearData, Sync, Restart

LEMMA PlayedStep == TypeInv /\ PlayedInv /\ Next => PlayedInv'
<1>. SUFFICES ASSUME TypeInv, PlayedInv, Next, ~Sip
              PROVE  /\ played' \in Seq(Chunks \X {1})
                     /\ E' \subseteq PlayedOf'
                     /\ \A m \in EM' : HasText(m) => m.of \in PlayedOf'
                     /\ LineFed(PlayedOf', line')
                     /\ loop'.pc = "media" => Fed(PlayedOf', line', Len(line') + 1, loop'.of)
  BY HandlerStays DEF PlayedInv
<1>0. /\ played \in Seq(Chunks \X {1})
      /\ E \subseteq PlayedOf
      /\ \A m \in EM : HasText(m) => m.of \in PlayedOf
      /\ LineFed(PlayedOf, line)
      /\ loop.pc = "media" => Fed(PlayedOf, line, Len(line) + 1, loop.of)
      /\ line \in Seq(Items) /\ echoes \in Seq(AllMarks) /\ marks \in Seq(AllMarks)
      /\ everHeard \in Seq(Chunks)
      /\ loop \in AnyLoop /\ loop.pc \in {"idle", "pre", "media"} /\ trunk = NoTrunk
  BY DEF PlayedInv, TypeInv, Wired, Memory, Looping, FlushInv, OtherWire
<1>1. CASE Take
  <2>. DEFINE c == Head(queue)
  <2>1. UNCHANGED <<everHeard, echoes, played, skipped>>
    BY <1>1 DEF Take
  <2>2. PlayedOf' = PlayedOf /\ E' = E /\ EM' = EM
    BY <2>1 DEF PlayedOf, E, EM
  <2>3. CASE UNCHANGED <<loop, line>>
    BY <1>0, <2>1, <2>2, <2>3
  <2>4. CASE handler = "telephony" /\ c.kind = "end" /\ Post(c.of, c.kind)
    <3>1. line' = Append(line, Mark(c.of, c.kind)) /\ loop'.pc = "idle"
      BY <2>4 DEF Post, Idle
    <3>2. ~HasText(Mark(c.of, c.kind))
      BY <2>4 DEF HasText, Mark
    <3>3. LineFed(PlayedOf, line')
      BY <1>0, <3>1, <3>2, FedAppend
    <3>. QED
      BY <1>0, <2>1, <2>2, <3>1, <3>3
  <2>5. CASE SendPre(c)
    <3>1. line' = Append(line, Mark(c.of, "pre")) /\ loop'.pc = "pre"
      BY <2>5 DEF SendPre, Idle
    <3>2. ~HasText(Mark(c.of, "pre"))
      BY DEF HasText, Mark
    <3>3. LineFed(PlayedOf, line')
      BY <1>0, <3>1, <3>2, FedAppend
    <3>. QED
      BY <1>0, <2>1, <2>2, <3>1, <3>3
  <2>. QED
    BY <1>1, <2>3, <2>4, <2>5, TakeTakes DEF Sends, Handle
<1>2. CASE SendMedia
  <2>. DEFINE x == Media(loop.of, 1)
  <2>1. line' = Append(line, x) /\ loop' = [loop EXCEPT !.pc = "media"] /\ UNCHANGED <<everHeard, echoes, played, skipped>>
    BY <1>2 DEF SendMedia, heardVars
  <2>2. PlayedOf' = PlayedOf /\ E' = E /\ EM' = EM /\ loop'.of = loop.of
    BY <1>0, <2>1 DEF PlayedOf, E, EM, AnyLoop
  <2>3. ~HasText(x) /\ x.kind = "media" /\ x.of = loop.of
    BY DEF HasText, Media
  <2>. HIDE DEF x
  <2>4. LineFed(PlayedOf, line')
    BY <1>0, <2>1, <2>3, FedAppend
  <2>5. Len(line') = Len(line) + 1 /\ Len(line) \in Nat /\ line'[Len(line) + 1] = x
    BY <1>0, <2>1
  <2>6. Fed(PlayedOf, line', Len(line') + 1, loop.of)
    BY <2>3, <2>5 DEF Fed
  <2>. QED
    BY <1>0, <2>1, <2>2, <2>4, <2>6
<1>3. CASE SendPost
  <2>. DEFINE x == Mark(loop.of, loop.kind)
  <2>1. loop.pc = "media" /\ line' = Append(line, x) /\ loop'.pc = "idle" /\ UNCHANGED <<everHeard, echoes, played, skipped>>
    BY <1>3 DEF SendPost, Post, Idle, heardVars
  <2>2. PlayedOf' = PlayedOf /\ E' = E /\ EM' = EM
    BY <2>1 DEF PlayedOf, E, EM
  <2>3. x.of = loop.of
    BY DEF Mark
  <2>. HIDE DEF x
  <2>4. LineFed(PlayedOf, line')
    BY <1>0, <2>1, <2>3, FedAppend
  <2>. QED
    BY <1>0, <2>1, <2>2, <2>4
<1>4. CASE Play
  <2>. DEFINE x == Head(line)
              p == <<Head(line).of, Head(line).frame>>
  <2>0. /\ line # <<>> /\ line' = Tail(line) /\ UNCHANGED <<everHeard, skipped, loop>>
        /\ IF IsMark(x) THEN echoes' = Append(echoes, x) /\ UNCHANGED played
           ELSE played' = Append(played, p) /\ UNCHANGED echoes
    BY <1>4 DEF Play, heardVars
  <2>1. /\ x = line[1] /\ Len(line) \in Nat /\ 1 \in DOMAIN line /\ Len(line') + 1 = Len(line)
        /\ Len(line) + 1 \in 2..(Len(line) + 1) /\ x \in Items
    BY <1>0, <2>0
  <2>2. HasText(x) => x.of \in PlayedOf
    <3>1. HasText(x) => Fed(PlayedOf, line, 1, x.of)
      BY <1>0, <2>1 DEF LineFed
    <3>2. \A k \in 1..(1 - 1) : FALSE
      OBVIOUS
    <3>. QED
      BY <3>1, <3>2 DEF Fed
  <2>3. /\ PlayedOf \subseteq PlayedOf' /\ (~IsMark(x) => x.of \in PlayedOf')
        /\ played' \in Seq(Chunks \X {1})
    <3>1. CASE IsMark(x)
      BY <1>0, <2>0, <3>1 DEF PlayedOf
    <3>2. CASE ~IsMark(x)
      <4>1. x.of \in Chunks /\ x.frame = 1
        BY <2>1, <3>2 DEF Items, IsMark, AllMarks, Kinds
      <4>2. p \in Chunks \X {1} /\ p[1] = x.of
        BY <4>1
      <4>3. Range(played') = Range(played) \union {p}
        BY <1>0, <2>0, <3>2, RangeAppend
      <4>. HIDE DEF p
      <4>4. PlayedOf \subseteq PlayedOf' /\ p[1] \in PlayedOf'
        BY <2>0, <4>3 DEF PlayedOf
      <4>5. played \in Seq(Chunks \X {1}) /\ played' = Append(played, p)
        BY <1>0, <2>0, <3>2
      <4>6. played' \in Seq(Chunks \X {1})
        BY <4>2, <4>5
      <4>. QED
        BY <4>2, <4>4, <4>6
    <3>. QED
      BY <3>1, <3>2
  <2>. HIDE DEF x
  <2>4. LineFed(PlayedOf', line')
    <3>1. x.kind = "media" => x.of \in PlayedOf'
      BY <2>3 DEF IsMark
    <3>. QED
      BY <1>0, <2>0, <2>3, <3>1, LineFedTail DEF x
  <2>5. loop'.pc = "media" => Fed(PlayedOf', line', Len(line') + 1, loop'.of)
    <3>1. x.kind = "media" => x.of \in PlayedOf'
      BY <2>3 DEF IsMark
    <3>2. ASSUME loop.pc = "media" PROVE Fed(PlayedOf', line', (Len(line) + 1) - 1, loop.of)
      BY <1>0, <2>0, <2>1, <2>3, <3>1, <3>2, FedTail DEF x
    <3>3. (Len(line) + 1) - 1 = Len(line') + 1
      BY <2>1
    <3>. QED
      BY <2>0, <3>2, <3>3
  <2>6. ASSUME NEW m \in EM', HasText(m) PROVE m.of \in PlayedOf'
    <3>1. m \in EM \/ m = x
      <4>1. CASE IsMark(x)
        <5>1. Range(Append(echoes, x)) = Range(echoes) \union {x}
          BY <1>0, RangeAppend
        <5>. QED
          BY <2>0, <4>1, <5>1 DEF EM
      <4>2. CASE ~IsMark(x)
        BY <2>0, <4>2 DEF EM
      <4>. QED
        BY <4>1, <4>2
    <3>. QED
      BY <1>0, <2>2, <2>3, <2>6, <3>1
  <2>7. E' = E
    BY <2>0 DEF E
  <2>. QED
    BY <1>0, <2>3, <2>4, <2>5, <2>6, <2>7
<1>5. CASE Echo
  <2>. DEFINE m == Head(echoes)
  <2>0. echoes # <<>> /\ echoes' = Tail(echoes) /\ UNCHANGED <<line, played, skipped, loop>>
    BY <1>5 DEF Echo
  <2>1. m \in EM /\ EM' \subseteq EM /\ m \in AllMarks
    BY <1>0, <2>0, RangeTail DEF EM
  <2>2. PlayedOf' = PlayedOf
    BY <2>0 DEF PlayedOf
  <2>3. E' \subseteq E \union (IF HasText(m) THEN {m.of} ELSE {})
    <3>1. everHeard' = everHeard \/ everHeard' = everHeard \o Texts(<<m>>)
      BY <1>5 DEF Echo, Hears, heardVars
    <3>. HIDE DEF m
    <3>2. CASE everHeard' = everHeard
      BY <3>2 DEF E
    <3>3. CASE everHeard' = everHeard \o Texts(<<m>>) /\ HasText(m)
      <4>0. m \in AllMarks /\ m.of \in Chunks
        BY <2>1 DEF AllMarks
      <4>0a. <<m.of>> \in Seq(Chunks) /\ everHeard \in Seq(Chunks)
        BY <1>0, <4>0
      <4>0b. Texts(<<m>>) = <<m.of>>
        BY <3>3, <4>0, TextsOne
      <4>1. Texts(<<m>>) = <<m.of>> /\ <<m.of>> \in Seq(Chunks) /\ everHeard \in Seq(Chunks)
        BY <4>0a, <4>0b
      <4>2. Range(everHeard') = Range(everHeard) \union Range(<<m.of>>)
        BY <3>3, <4>1, RangeConcat
      <4>3. Range(<<m.of>>) = {m.of}
        BY DEF Range
      <4>. QED
        BY <3>3, <4>2, <4>3 DEF E
    <3>4. CASE everHeard' = everHeard \o Texts(<<m>>) /\ ~HasText(m)
      <4>1. Texts(<<m>>) = <<>>
        BY <2>1, <3>4, TextsOne
      <4>2. everHeard \in Seq(Chunks) /\ everHeard' = everHeard \o <<>>
        BY <1>0, <3>4, <4>1
      <4>3. everHeard' = everHeard
        BY <4>2
      <4>. QED
        BY <4>3 DEF E
    <3>. QED
      BY <3>1, <3>2, <3>3, <3>4
  <2>. QED
    BY <1>0, <2>0, <2>1, <2>2, <2>3
<1>6. CASE Interrupt \/ AskIfThere
  <2>. DEFINE dropped == Those(line, AllMarks)
              sent == IF loop.pc = "media" THEN {loop.of} ELSE {}
  <2>0. /\ line' = <<>> /\ UNCHANGED <<loop, everHeard, played>>
        /\ \/ /\ echoes' = echoes \o dropped
              /\ skipped' = skipped \union sent \union {dropped[i].of : i \in DOMAIN dropped}
           \/ echoes' = echoes /\ skipped' = skipped \union sent
    BY <1>6 DEF Interrupt, AskIfThere, Clear
  <2>1. dropped \in Seq(Items \intersect AllMarks)
    BY <1>0, ThoseTyped
  <2>1a. Items \intersect AllMarks = AllMarks
    BY DEF Items
  <2>2. dropped \in Seq(AllMarks)
    BY <2>1, <2>1a
  <2>. HIDE DEF dropped
  <2>3. PlayedOf \subseteq PlayedOf' /\ sent \subseteq PlayedOf'
    BY <2>0 DEF PlayedOf
  <2>4. ASSUME NEW m \in EM', HasText(m) PROVE m.of \in PlayedOf'
    <3>1. CASE echoes' = echoes
      BY <1>0, <2>3, <2>4, <3>1 DEF EM
    <3>2. CASE /\ echoes' = echoes \o dropped
               /\ skipped' = skipped \union sent \union {dropped[i].of : i \in DOMAIN dropped}
      <4>1. Range(echoes') = Range(echoes) \union Range(dropped)
        BY <1>0, <2>2, <3>2, RangeConcat
      <4>2. m \in EM \/ m \in Range(dropped)
        BY <4>1 DEF EM
      <4>3. m \in Range(dropped) => m.of \in PlayedOf'
        BY <3>2 DEF Range, PlayedOf
      <4>. QED
        BY <1>0, <2>3, <2>4, <4>2, <4>3
    <3>. QED
      BY <2>0, <3>1, <3>2
  <2>5. E' = E /\ LineFed(PlayedOf', line')
    BY <2>0 DEF E, LineFed
  <2>6. loop'.pc = "media" => Fed(PlayedOf', line', Len(line') + 1, loop'.of)
    BY <2>0, <2>3 DEF Fed
  <2>7. E \subseteq PlayedOf'
    BY <1>0, <2>3
  <2>. QED
    BY <1>0, <2>0, <2>4, <2>5, <2>6, <2>7
<1>7. CASE ClearData
  <2>0. UNCHANGED <<line, echoes, loop, everHeard, played>> /\ skipped \subseteq skipped'
    BY <1>7 DEF ClearData
  <2>1. PlayedOf \subseteq PlayedOf' /\ E' = E /\ EM' = EM
    BY <2>0 DEF PlayedOf, E, EM
  <2>2. LineFed(PlayedOf', line)
    BY <1>0, <2>1, FedGrows
  <2>3. loop.pc = "media" => Fed(PlayedOf', line, Len(line) + 1, loop.of)
    BY <1>0, <2>1 DEF Fed
  <2>4. E \subseteq PlayedOf' /\ \A m \in EM : HasText(m) => m.of \in PlayedOf'
    BY <1>0, <2>1
  <2>. QED
    BY <1>0, <2>0, <2>1, <2>2, <2>3, <2>4
<1>8. CASE Buffered \/ SendOn \/ Xoff \/ Xon \/ Drain \/ Settle
  BY <1>0, <1>8 DEF Buffered, SendOn, Xoff, Xon, Drain, Settle, NoTrunk
<1>9. CASE Respond \/ Synthesize \/ Sync \/ Restart
  <2>1. UNCHANGED <<line, echoes, everHeard, played, skipped>> /\ (loop' = loop \/ loop'.pc = "idle")
    BY <1>9 DEF Respond, Synthesize, Sync, Restart, wireVars, heardVars, Idle
  <2>2. PlayedOf' = PlayedOf /\ E' = E /\ EM' = EM
    BY <2>1 DEF PlayedOf, E, EM
  <2>. QED
    BY <1>0, <2>1, <2>2
<1>. QED
  BY <1>1, <1>2, <1>3, <1>4, <1>5, <1>6, <1>7, <1>8, <1>9 DEF Next

(* On the web and the telephone every text counted as heard was played to its  *)
(* end, or came back for being cleared: the audio goes before its mark on the  *)
(* line, and the marks come back as the line is played.                        *)
THEOREM NothingUnplayedIsHeard == Spec => []HeardWasPlayed
<1>1. PlayedInv => HeardWasPlayed
  BY DEF PlayedInv, HeardWasPlayed, E, PlayedOf
<1>2. PlayedInv /\ UNCHANGED vars => PlayedInv'
  BY DEF PlayedInv, vars, wireVars, heardVars, Sip, E, EM, PlayedOf, LineFed, Fed
<1>3. TypeInv /\ PlayedInv /\ [Next]_vars => (TypeInv /\ PlayedInv)'
  BY <1>2, TypeStep, PlayedStep
<1>4. Init => TypeInv /\ PlayedInv
  BY InitTypes, InitPlayed
<1>. QED
  BY <1>1, <1>3, <1>4, PTL DEF Spec

-----------------------------------------------------------------------------
(* Sequences that rise in an order, given as a set of pairs. *)
Rising(s, R) == \A i, j \in DOMAIN s : i < j => <<s[i], s[j]>> \in R

LEMMA RisingEmpty == ASSUME NEW R PROVE Rising(<<>>, R)
  BY DEF Rising

LEMMA RisingAppend ==
  ASSUME NEW T, NEW s \in Seq(T), NEW R, NEW x, Rising(s, R), \A y \in Range(s) : <<y, x>> \in R
  PROVE  Rising(Append(s, x), R)
<1>. DEFINE u == Append(s, x)
<1>1. /\ Len(s) \in Nat /\ DOMAIN s = 1..Len(s) /\ DOMAIN u = 1..(Len(s) + 1)
      /\ u[Len(s) + 1] = x /\ \A i \in 1..Len(s) : u[i] = s[i]
  OBVIOUS
<1>. HIDE DEF u
<1>2. ASSUME NEW i \in DOMAIN u, NEW j \in DOMAIN u, i < j PROVE <<u[i], u[j]>> \in R
  <2>1. i \in 1..Len(s) /\ (j = Len(s) + 1 \/ j \in 1..Len(s))
    BY <1>1, <1>2
  <2>2. s[i] \in Range(s) /\ u[i] = s[i]
    BY <1>1, <2>1 DEF Range
  <2>3. CASE j = Len(s) + 1
    BY <1>1, <2>2, <2>3
  <2>4. CASE j \in 1..Len(s)
    BY <1>1, <1>2, <2>1, <2>4 DEF Rising
  <2>. QED
    BY <2>1, <2>3, <2>4
<1>. QED
  BY <1>2 DEF Rising, u

LEMMA RisingTail ==
  ASSUME NEW T, NEW s \in Seq(T), s # <<>>, NEW R, Rising(s, R)
  PROVE  Rising(Tail(s), R) /\ \A y \in Range(Tail(s)) : <<Head(s), y>> \in R
<1>1. /\ Len(s) \in Nat /\ Len(s) >= 1 /\ DOMAIN s = 1..Len(s) /\ Head(s) = s[1]
      /\ DOMAIN Tail(s) = 1..(Len(s) - 1)
      /\ \A i \in 1..(Len(s) - 1) : Tail(s)[i] = s[i + 1]
  OBVIOUS
<1>2. ASSUME NEW i \in 1..(Len(s) - 1), NEW j \in 1..(Len(s) - 1), i < j
      PROVE  <<Tail(s)[i], Tail(s)[j]>> \in R
  <2>1. i + 1 \in 1..Len(s) /\ j + 1 \in 1..Len(s) /\ i + 1 < j + 1
    BY <1>1, <1>2
  <2>. QED
    BY <1>1, <2>1 DEF Rising
<1>3. ASSUME NEW i \in 1..(Len(s) - 1) PROVE <<Head(s), Tail(s)[i]>> \in R
  <2>1. 1 \in 1..Len(s) /\ i + 1 \in 1..Len(s) /\ 1 < i + 1
    BY <1>1
  <2>. QED
    BY <1>1, <2>1 DEF Rising
<1>. QED
  BY <1>1, <1>2, <1>3 DEF Rising, Range

LEMMA RisingConcat ==
  ASSUME NEW T, NEW s \in Seq(T), NEW u \in Seq(T), NEW R, Rising(s, R), Rising(u, R),
         \A x \in Range(s), y \in Range(u) : <<x, y>> \in R
  PROVE  Rising(s \o u, R)
<1>. DEFINE w == s \o u
<1>1. /\ Len(s) \in Nat /\ Len(u) \in Nat /\ DOMAIN s = 1..Len(s) /\ DOMAIN u = 1..Len(u)
      /\ DOMAIN w = 1..(Len(s) + Len(u))
      /\ \A i \in 1..Len(s) : w[i] = s[i]
      /\ \A i \in 1..Len(u) : w[Len(s) + i] = u[i]
  OBVIOUS
<1>. HIDE DEF w
<1>2. ASSUME NEW i \in DOMAIN w, i > Len(s) PROVE i - Len(s) \in 1..Len(u) /\ w[i] = u[i - Len(s)]
  <2>1. i - Len(s) \in 1..Len(u) /\ Len(s) + (i - Len(s)) = i
    BY <1>1, <1>2
  <2>. QED
    BY <1>1, <2>1
<1>3. ASSUME NEW i \in DOMAIN w, NEW j \in DOMAIN w, i < j PROVE <<w[i], w[j]>> \in R
  <2>1. CASE i > Len(s)
    <3>1. j > Len(s) /\ i - Len(s) < j - Len(s)
      BY <1>1, <1>3, <2>1
    <3>. QED
      BY <1>1, <1>2, <2>1, <3>1 DEF Rising
  <2>2. CASE i <= Len(s) /\ j > Len(s)
    <3>1. i \in 1..Len(s) /\ w[i] \in Range(s)
      BY <1>1, <2>2 DEF Range
    <3>2. w[j] \in Range(u)
      BY <1>1, <1>2, <2>2 DEF Range
    <3>. QED
      BY <3>1, <3>2
  <2>3. CASE i <= Len(s) /\ j <= Len(s)
    <3>1. i \in 1..Len(s) /\ j \in 1..Len(s)
      BY <1>1, <2>3
    <3>. QED
      BY <1>1, <1>3, <3>1 DEF Rising
  <2>. QED
    BY <1>1, <2>1, <2>2, <2>3
<1>. QED
  BY <1>3 DEF Rising, w

LEMMA RisingThose ==
  ASSUME NEW T, NEW s \in Seq(T), NEW S, NEW R, Rising(s, R)
  PROVE  Rising(Those(s, S), R)
<1>. DEFINE t == Those(s, S)
<1>1. PICK f : Embeds(f, t, s, S, Len(s))
  BY ThoseEmbed
<1>. HIDE DEF t
<1>2. DOMAIN s = 1..Len(s)
  OBVIOUS
<1>3. ASSUME NEW i \in DOMAIN t, NEW j \in DOMAIN t, i < j PROVE <<t[i], t[j]>> \in R
  <2>1. f[i] \in DOMAIN s /\ f[j] \in DOMAIN s /\ f[i] < f[j] /\ t[i] = s[f[i]] /\ t[j] = s[f[j]]
    BY <1>1, <1>2, <1>3 DEF Embeds
  <2>. QED
    BY <2>1 DEF Rising
<1>. QED
  BY <1>3 DEF Rising, t

-----------------------------------------------------------------------------
(* The order of chunks and of marks: a mark before another is of an earlier    *)
(* chunk, or the one before the audio of the same; after the last of a         *)
(* response there is no more of it.                                            *)
Earlier(a, b) == a[1] < b[1] \/ (a[1] = b[1] /\ a[2] < b[2])
Ahead(m, n) == Earlier(m.of, n.of) /\ (EndsAnswer(m) => m.of[1] < n.of[1])
Foregoes(m, n) == Ahead(m, n) \/ (m.of = n.of /\ m.kind = "pre" /\ n.kind # "pre")
Ordering == {p \in Items \X Items : IsMark(p[1]) /\ IsMark(p[2]) => Foregoes(p[1], p[2])}

LEMMA ChunkNumbers == ASSUME NEW a \in Chunks PROVE a[1] \in Nat /\ a[2] \in Nat /\ a[1] # 0 /\ a[2] # 0 /\ a = <<a[1], a[2]>>
  BY BoundsAssumption DEF Chunks, Responses

LEMMA EarlierOrders ==
  ASSUME NEW a \in Chunks, NEW b \in Chunks
  PROVE  /\ ~(Earlier(a, b) /\ Earlier(b, a)) /\ ~Earlier(a, a)
         /\ \A c \in Chunks : Earlier(a, b) /\ Earlier(b, c) => Earlier(a, c)
  BY ChunkNumbers DEF Earlier

LEMMA ForegoesOrders ==
  ASSUME NEW m, NEW n, m.of \in Chunks, n.of \in Chunks
  PROVE  ~(Foregoes(m, n) /\ Foregoes(n, m)) /\ ~Foregoes(m, m)
  BY EarlierOrders DEF Foregoes, Ahead

LEMMA AllMarksAre ==
  ASSUME NEW m \in AllMarks
  PROVE  IsMark(m) /\ m.of \in Chunks /\ m.kind \in Kinds /\ m \in Items /\ m = Mark(m.of, m.kind)
  BY DEF AllMarks, Kinds, IsMark, Items, Mark

LEMMA MarkIs ==
  ASSUME NEW of \in Chunks, NEW kind \in Kinds
  PROVE  /\ Mark(of, kind) \in AllMarks /\ Mark(of, kind).of = of /\ Mark(of, kind).kind = kind
  BY DEF Mark, AllMarks

(* What is where, as sets. *)
QM == Range(queue)
MM == Range(marks)
CM == Range(cleared)
LM == Range(line) \intersect AllMarks
WM == EM \union LM
InHand == Mark(loop.of, loop.kind)

LEMMA SetsTyped ==
  ASSUME TypeInv
  PROVE  /\ QM \subseteq AllMarks /\ MM \subseteq AllMarks /\ CM \subseteq AllMarks /\ LM \subseteq AllMarks
         /\ EM \subseteq AllMarks /\ WM \subseteq AllMarks /\ E \subseteq Chunks
         /\ Range(heard) \subseteq Chunks
         /\ \A q \in QM : q \in ChunkType /\ q.kind # "pre"
         /\ Busy => InHand \in AllMarks /\ InHand.of = loop.of /\ InHand.kind = loop.kind /\ InHand.kind # "pre"
<1>1. queue \in Seq(ChunkType) /\ Memory /\ Looping /\ EM \subseteq AllMarks
  BY RangeEmpty DEF TypeInv, FlushInv, Wired, EM, Range
<1>2. QM \subseteq ChunkType /\ MM \subseteq AllMarks /\ CM \subseteq AllMarks /\ E \subseteq Chunks
      /\ Range(heard) \subseteq Chunks
  BY <1>1 DEF QM, MM, CM, E, Range, Memory
<1>3. \A q \in ChunkType : q \in AllMarks /\ q.kind # "pre"
  BY DEF ChunkType, AllMarks, Kinds
<1>4. Busy => InHand \in AllMarks /\ InHand.of = loop.of /\ InHand.kind = loop.kind /\ InHand.kind # "pre"
  <2>1. Busy => loop.of \in Chunks /\ loop.kind \in Kinds /\ loop.kind # "pre"
    BY <1>1 DEF Looping, AnyLoop, Kinds
  <2>. QED
    BY <2>1, MarkIs DEF InHand
<1>. QED
  BY <1>1, <1>2, <1>3, <1>4 DEF LM, WM

(* A chunk of the responses so far; after the last of one, none of it. *)
Upto(of) == of[1] <= Newest /\ (of[1] = Newest => of[2] <= count)
Made(m) == Upto(m.of) /\ (m.of[1] = Newest /\ EndsAnswer(m) => done)

Queued == Rising(queue, Ordering) /\ \A q \in QM : Made(q)
Wires == /\ Rising(echoes, Ordering) /\ Rising(line, Ordering)
         /\ \A m \in EM, n \in LM : Foregoes(m, n)
Registers == Rising(marks, Ordering) /\ Rising(cleared, Ordering) /\ \A m \in CM : Made(m)
Out == \A m \in WM \union MM : /\ Made(m)
                               /\ Busy => Foregoes(m, InHand)
                               /\ \A q \in QM : Ahead(m, q)
Handed == Busy => Made(InHand) /\ \A q \in QM : Ahead(InHand, q)

OrderInv == Queued /\ (~Sip => Wires /\ Registers /\ Out /\ Handed)

LEMMA InOrdering ==
  ASSUME NEW m \in AllMarks, NEW n \in AllMarks
  PROVE  <<m, n>> \in Ordering <=> Foregoes(m, n)
  BY AllMarksAre DEF Ordering

LEMMA LineOrdering ==
  ASSUME NEW S \in SUBSET Items, NEW n \in AllMarks, \A m \in S \intersect AllMarks : Foregoes(m, n)
  PROVE  \A y \in S : <<y, n>> \in Ordering
<1>1. \A y \in Items : IsMark(y) => y \in AllMarks
  BY DEF Items, IsMark
<1>. QED
  BY <1>1, AllMarksAre DEF Ordering

LEMMA AheadForegoes ==
  ASSUME NEW m, NEW n, NEW o, Ahead(m, n), o.of = n.of
  PROVE  Foregoes(m, o)
  BY DEF Ahead, Foregoes

(* The types of what is on its way, off the trunk. *)
LEMMA WireTypes ==
  ASSUME TypeInv, ~Sip
  PROVE  /\ echoes \in Seq(AllMarks) /\ line \in Seq(Items) /\ marks \in Seq(AllMarks)
         /\ cleared \in Seq(AllMarks) /\ queue \in Seq(AllMarks) /\ trunk = NoTrunk
         /\ loop.pc \in {"idle", "pre", "media"} /\ everHeard \in Seq(Chunks) /\ heard \in Seq(Chunks)
<1>1. ChunkType \subseteq AllMarks
  BY DEF ChunkType, AllMarks, Kinds
<1>2. queue \in Seq(ChunkType)
  BY DEF TypeInv, FlushInv
<1>. QED
  BY <1>1, <1>2 DEF TypeInv, FlushInv, Wired, Memory, OtherWire

(* A mark is registered and sent. *)
Marked(x) == marks' = Append(marks, x) /\ line' = Append(line, x) /\ UNCHANGED echoes

LEMMA MarkedDoes ==
  ASSUME TypeInv, ~Sip, Wires, Registers, NEW x \in AllMarks, Marked(x), UNCHANGED cleared,
         \A n \in WM \union MM : Foregoes(n, x)
  PROVE  /\ WM' = WM \union {x} /\ MM' = MM \union {x} /\ EM' = EM /\ Wires'
         /\ Rising(marks', Ordering) /\ Rising(cleared', Ordering) /\ CM' = CM
<1>1. /\ line \in Seq(Items) /\ marks \in Seq(AllMarks) /\ Range(line) \subseteq Items
      /\ MM \subseteq AllMarks
  BY WireTypes, SetsTyped DEF Range
<1>2. /\ Range(line') = Range(line) \union {x} /\ Range(marks') = Range(marks) \union {x}
      /\ EM' = EM /\ CM' = CM
  BY <1>1, RangeAppend DEF Marked, EM, CM
<1>3. LM' = LM \union {x} /\ MM' = MM \union {x} /\ WM' = WM \union {x}
  <2>1. LM' = Range(line') \intersect AllMarks
    BY DEF LM, AllMarks, Chunks, Responses
  <2>. QED
    BY <1>2, <2>1 DEF LM, MM, WM
<1>4. Rising(line', Ordering)
  <2>1. \A y \in Range(line) : <<y, x>> \in Ordering
    BY <1>1, LineOrdering DEF WM, LM
  <2>. QED
    BY <1>1, <2>1, RisingAppend DEF Wires, Marked
<1>5. Rising(marks', Ordering)
  <2>1. \A y \in Range(marks) : <<y, x>> \in Ordering
    BY <1>1, InOrdering DEF MM
  <2>. QED
    BY <1>1, <2>1, RisingAppend DEF Registers, Marked
<1>6. Rising(echoes', Ordering) /\ Rising(cleared', Ordering)
  BY DEF Wires, Registers, Marked
<1>7. \A m \in EM', n \in LM' : Foregoes(m, n)
  BY <1>2, <1>3 DEF Wires, WM
<1>. QED
  BY <1>2, <1>3, <1>4, <1>5, <1>6, <1>7 DEF Wires

(* The output loop takes a chunk, on the web or the telephone. *)
LEMMA TakeDoes ==
  ASSUME TypeInv, Queued, ~Sip, Take
  PROVE  LET c == Head(queue) IN
         /\ c \in ChunkType /\ c \in AllMarks /\ c \in QM /\ QM = QM' \union {c} /\ ~Busy
         /\ Rising(queue', Ordering) /\ \A q \in QM' : Ahead(c, q)
         /\ UNCHANGED <<answerVars, valid, cleared, heard, everHeard, cut, cuts, echoes, skipped, played>>
         /\ late' = (late \/ cut # "no")
         /\ \/ /\ c.of[1] \notin valid /\ c.kind # "end" /\ UNCHANGED <<loop, marks, line, playing>>
            \/ /\ \/ c.of[1] \in valid /\ playing' = TRUE
                  \/ c.of[1] \notin valid /\ c.kind = "end" /\ UNCHANGED playing
               /\ \/ Tracked /\ c.kind = "end" /\ Marked(Mark(c.of, c.kind)) /\ loop' = Idle
                  \/ /\ Tracked => c.kind # "end"
                     /\ Marked(Mark(c.of, "pre"))
                     /\ loop' = [pc |-> "pre", of |-> c.of, kind |-> c.kind, frame |-> 0, gen |-> 0]
<1>. DEFINE c == Head(queue)
<1>1. c \in ChunkType /\ queue # <<>> /\ loop.pc = "idle" /\ queue \in Seq(AllMarks)
  BY TakeTakes, WireTypes
<1>2. c \in AllMarks /\ c \in QM /\ QM = QM' \union {c} /\ c.kind # "pre" /\ queue' = Tail(queue)
  <2>1. queue' = Tail(queue)
    BY DEF Take
  <2>2. c \in QM /\ QM = QM' \union {c}
    BY <1>1, <2>1, RangeTail DEF QM
  <2>. QED
    BY <2>1, <2>2, SetsTyped
<1>3. Rising(queue', Ordering) /\ \A q \in QM' : <<c, q>> \in Ordering
  BY <1>1, <1>2, RisingTail DEF Queued, QM
<1>4. \A q \in QM' : Ahead(c, q)
  <2>1. \A q \in QM' : q \in AllMarks /\ Foregoes(c, q)
    BY <1>2, <1>3, SetsTyped, InOrdering
  <2>. QED
    BY <1>2, <2>1 DEF Foregoes
<1>5. /\ UNCHANGED <<answerVars, valid, cleared, heard, everHeard, cut, cuts, echoes, skipped, played>>
      /\ late' = (late \/ cut # "no")
      /\ \/ c.of[1] \in valid /\ playing' = TRUE /\ Sends(c)
         \/ c.of[1] \notin valid /\ UNCHANGED playing
            /\ ((c.kind = "end" /\ Sends(c)) \/ (c.kind # "end" /\ UNCHANGED <<loop, marks, line>>))
  <2>1. /\ UNCHANGED <<answerVars, valid, cleared, heard, everHeard, cut, cuts, echoes, skipped, played>>
        /\ late' = (late \/ cut # "no")
    BY DEF Take
  <2>2. CASE c.of[1] \in valid
    <3>1. playing' = TRUE /\ Sends(c)
      BY <2>2, Zenon DEF Take
    <3>. QED
      BY <2>1, <2>2, <3>1
  <2>3. CASE c.of[1] \notin valid
    <3>1. UNCHANGED playing
      BY <2>3, Zenon DEF Take
    <3>2. (c.kind = "end" /\ Sends(c)) \/ (c.kind # "end" /\ UNCHANGED <<loop, marks, line, trunk>>)
      <4>1. CASE c.kind = "end"
        BY <2>3, <4>1, SMT DEF Take
      <4>2. CASE c.kind # "end"
        BY <2>3, <4>2, SMT DEF Take
      <4>. QED
        BY <4>1, <4>2
    <3>. QED
      BY <2>1, <2>3, <3>1, <3>2
  <2>. QED
    BY <2>2, <2>3
<1>. HIDE DEF c
<1>6. Sends(c) => \/ Tracked /\ c.kind = "end" /\ Marked(Mark(c.of, c.kind)) /\ loop' = Idle
                  \/ /\ Tracked => c.kind # "end"
                     /\ Marked(Mark(c.of, "pre"))
                     /\ loop' = [pc |-> "pre", of |-> c.of, kind |-> c.kind, frame |-> 0, gen |-> 0]
  BY <1>5 DEF Sends, Handle, Post, SendPre, Marked, Idle, Tracked
<1>. QED
  BY <1>1, <1>2, <1>3, <1>4, <1>5, <1>6 DEF c, Busy

(* The provider plays on, off the trunk: the marks stay on the wire. *)
LEMMA PlayDoes ==
  ASSUME TypeInv, ~Sip, Wires, Play
  PROVE  WM' = WM /\ Wires'
<1>. DEFINE x == Head(line)
<1>1. /\ line \in Seq(Items) /\ line # <<>> /\ line' = Tail(line) /\ echoes \in Seq(AllMarks)
      /\ Range(line) = Range(line') \union {x} /\ x \in Items
  BY WireTypes, RangeTail DEF Play
<1>2. LM' = Range(line') \intersect AllMarks
  BY DEF LM, AllMarks, Chunks, Responses
<1>3. Rising(line', Ordering) /\ \A y \in Range(line') : <<x, y>> \in Ordering
  BY <1>1, RisingTail DEF Wires
<1>. HIDE DEF x
<1>4. CASE IsMark(x)
  <2>1. echoes' = Append(echoes, x) /\ x \in AllMarks
    BY <1>1, <1>4 DEF Play, x, Items, IsMark
  <2>2. EM' = EM \union {x}
    BY <1>1, <2>1, RangeAppend DEF EM
  <2>3. WM' = WM /\ x \in LM
    BY <1>1, <1>2, <2>1, <2>2 DEF WM, LM
  <2>4. EM \subseteq AllMarks /\ LM' \subseteq AllMarks /\ LM' \subseteq LM
    BY <1>1, <1>2, SetsTyped DEF LM
  <2>5. \A m \in EM', n \in LM' : Foregoes(m, n)
    <3>1. \A n \in LM' : Foregoes(x, n)
      BY <1>2, <1>3, <2>1, <2>4, InOrdering
    <3>. QED
      BY <2>2, <2>4, <3>1 DEF Wires
  <2>6. Rising(echoes', Ordering)
    <3>1. \A y \in Range(echoes) : <<y, x>> \in Ordering
      BY <2>1, <2>3, <2>4, InOrdering DEF Wires, EM
    <3>. QED
      BY <1>1, <2>1, <3>1, RisingAppend DEF Wires
  <2>. QED
    BY <1>3, <2>3, <2>5, <2>6 DEF Wires
<1>5. CASE ~IsMark(x)
  <2>1. echoes' = echoes /\ x \notin AllMarks
    BY <1>5, AllMarksAre DEF Play, x
  <2>2. EM' = EM /\ LM' = LM
    BY <1>1, <1>2, <2>1 DEF EM, LM
  <2>3. WM' = WM
    BY <2>2 DEF WM
  <2>. QED
    BY <1>3, <2>1, <2>2, <2>3 DEF Wires
<1>. QED
  BY <1>4, <1>5

(* A mark comes back, before all that are on the wire. *)
LEMMA EchoDoes ==
  ASSUME TypeInv, ~Sip, Wires, Echo
  PROVE  LET m == Head(echoes) IN
         /\ m \in EM /\ m \in AllMarks /\ Wires' /\ WM' = WM \ {m} /\ \A n \in WM' : Foregoes(m, n)
         /\ UNCHANGED <<handler, answerVars, valid, history, queue, loop, cleared, cut, cuts, line,
                 played, skipped, trunk>>
         /\ \/ /\ m \in MM /\ MM' = MM \ {m} /\ marks' = Without(marks, m) /\ Hears(<<m>>)
               /\ playing' = (IF EndsAnswer(m) THEN FALSE ELSE (playing \/ Begins(m)))
               /\ late' = (late \/ (m.kind = "pre" /\ cut # "no"))
            \/ m \notin MM /\ UNCHANGED <<marks, heardVars, late>>
<1>. DEFINE m == Head(echoes)
<1>1. /\ line \in Seq(Items) /\ echoes \in Seq(AllMarks) /\ echoes # <<>> /\ echoes' = Tail(echoes)
      /\ marks \in Seq(AllMarks) /\ UNCHANGED line
  BY WireTypes DEF Echo
<1>2. m \in EM /\ EM = EM' \union {m} /\ m \in AllMarks
  BY <1>1, RangeTail, SetsTyped DEF EM
<1>3. Rising(echoes', Ordering) /\ \A y \in EM' : <<m, y>> \in Ordering
  BY <1>1, RisingTail DEF Wires, EM
<1>4. LM' = LM /\ EM \subseteq AllMarks /\ LM \subseteq AllMarks
  <2>1. LM' = Range(line') \intersect AllMarks
    BY DEF LM, AllMarks, Chunks, Responses
  <2>. QED
    BY <1>1, <2>1, SetsTyped DEF LM
<1>. HIDE DEF m
<1>5. \A n \in EM' \union LM : Foregoes(m, n)
  BY <1>2, <1>3, <1>4, InOrdering DEF Wires
<1>6. m \notin EM' /\ m \notin LM
  BY <1>2, <1>5, ForegoesOrders, AllMarksAre
<1>7. WM' = WM \ {m}
  BY <1>2, <1>4, <1>6 DEF WM
<1>8. Wires'
  BY <1>1, <1>2, <1>3, <1>4 DEF Wires
<1>9. \/ /\ m \in MM /\ MM' = MM \ {m} /\ marks' = Without(marks, m) /\ Hears(<<m>>)
         /\ playing' = (IF EndsAnswer(m) THEN FALSE ELSE (playing \/ Begins(m)))
         /\ late' = (late \/ (m.kind = "pre" /\ cut # "no"))
      \/ m \notin MM /\ UNCHANGED <<marks, heardVars, late>>
  <2>1. Contains(marks, m) <=> m \in MM
    BY <1>1, RangeContains DEF MM
  <2>2. \/ /\ m \in MM /\ marks' = Without(marks, m) /\ Hears(<<m>>)
           /\ playing' = (IF EndsAnswer(m) THEN FALSE ELSE (playing \/ Begins(m)))
           /\ late' = (late \/ (m.kind = "pre" /\ cut # "no"))
        \/ m \notin MM /\ UNCHANGED <<marks, heardVars, late>>
    BY <2>1 DEF Echo, m
  <2>3. marks' = Without(marks, m) => MM' = MM \ {m}
    BY <1>1, WithoutTyped DEF MM
  <2>. QED
    BY <2>2, <2>3
<1>10. UNCHANGED <<handler, answerVars, valid, history, queue, loop, cleared, cut, cuts, line,
                 played, skipped, trunk>>
  BY DEF Echo
<1>11. \A n \in WM' : Foregoes(m, n)
  BY <1>2, <1>5, <1>6, <1>7 DEF WM
<1>. QED
  BY <1>2, <1>7, <1>8, <1>9, <1>10, <1>11 DEF m

(* The wire is cleared: all that was on it comes back, or only what was on its *)
(* way back already.                                                           *)
LEMMA ClearDoes ==
  ASSUME TypeInv, ~Sip, Wires, Clear
  PROVE  LET sent == IF loop.pc = "media" THEN {loop.of} ELSE {} IN
         /\ Wires' /\ LM' = {} /\ EM \subseteq WM' /\ trunk' = trunk
         /\ \/ WM' = WM /\ skipped' = skipped \union sent \union {m.of : m \in LM}
            \/ WM' = EM /\ skipped' = skipped \union sent
<1>. DEFINE dropped == Those(line, AllMarks)
            sent == IF loop.pc = "media" THEN {loop.of} ELSE {}
<1>1. /\ line' = <<>> /\ trunk' = trunk
      /\ \/ /\ echoes' = echoes \o dropped
            /\ skipped' = skipped \union sent \union {dropped[i].of : i \in DOMAIN dropped}
         \/ echoes' = echoes /\ skipped' = skipped \union sent
  BY DEF Clear
<1>2. line \in Seq(Items) /\ echoes \in Seq(AllMarks)
  BY WireTypes
<1>3. dropped \in Seq(Items \intersect AllMarks) /\ Range(dropped) = LM
  BY <1>2, ThoseTyped DEF LM
<1>4. Items \intersect AllMarks = AllMarks
  BY DEF Items
<1>5. dropped \in Seq(AllMarks) /\ Rising(dropped, Ordering)
  <2>1. Rising(dropped, Ordering)
    BY <1>2, RisingThose DEF Wires
  <2>. HIDE DEF dropped
  <2>. QED
    BY <1>3, <1>4, <2>1
<1>. HIDE DEF dropped, sent
<1>6. LM' = {} /\ Rising(line', Ordering)
  BY <1>1, RangeEmpty, RisingEmpty DEF LM
<1>7. CASE /\ echoes' = echoes \o dropped
           /\ skipped' = skipped \union sent \union {dropped[i].of : i \in DOMAIN dropped}
  <2>1. EM' = EM \union LM
    BY <1>2, <1>3, <1>5, <1>7, RangeConcat DEF EM
  <2>2. {dropped[i].of : i \in DOMAIN dropped} = {m.of : m \in LM}
    BY <1>3 DEF Range
  <2>3. Rising(echoes', Ordering)
    <3>1. \A x \in Range(echoes), y \in Range(dropped) : <<x, y>> \in Ordering
      <4>1. EM \subseteq AllMarks /\ LM \subseteq AllMarks
        BY SetsTyped
      <4>. QED
        BY <1>3, <4>1, InOrdering DEF Wires, EM
    <3>. QED
      BY <1>2, <1>5, <1>7, <3>1, RisingConcat DEF Wires
  <2>4. Wires'
    BY <1>6, <2>3 DEF Wires
  <2>. QED
    BY <1>1, <1>6, <1>7, <2>1, <2>2, <2>4 DEF WM, sent
<1>8. CASE echoes' = echoes /\ skipped' = skipped \union sent
  <2>1. EM' = EM /\ Rising(echoes', Ordering)
    BY <1>8 DEF EM, Wires
  <2>2. Wires'
    BY <1>6, <2>1 DEF Wires
  <2>. QED
    BY <1>1, <1>6, <1>8, <2>1, <2>2 DEF WM, sent
<1>. QED
  BY <1>1, <1>7, <1>8

(* What was made stays made. *)
LEMMA MadeStays ==
  ASSUME TypeInv, Next, NEW m, m.of \in Chunks, Made(m)
  PROVE  Made(m)'
<1>0. m.of[1] \in Nat /\ m.of[2] \in Nat /\ Newest \in Nat /\ count \in Nat /\ turns \in Seq(Responses)
  BY ChunkNumbers, BoundsAssumption DEF TypeInv, FlushInv, GoodAnswers, Newest
<1>1. CASE Respond
  <2>1. Newest' = Newest + 1
    BY <1>0, <1>1 DEF Respond, Newest
  <2>2. m.of[1] <= Newest' /\ m.of[1] # Newest'
    BY <1>0, <2>1 DEF Made, Upto
  <2>. QED
    BY <2>2 DEF Made, Upto
<1>2. CASE Synthesize
  <2>1. Newest' = Newest /\ count' = count + 1 /\ ~done
    BY <1>2 DEF Synthesize, Newest
  <2>2. m.of[1] = Newest => ~EndsAnswer(m)
    BY <2>1 DEF Made
  <2>3. Upto(m.of)'
    BY <1>0, <2>1 DEF Made, Upto
  <2>. QED
    BY <2>1, <2>2, <2>3 DEF Made, EndsAnswer
<1>3. CASE ~Respond /\ ~Synthesize
  <2>1. UNCHANGED answerVars
    BY <1>3 DEF Next, Take, SendMedia, SendPost, Buffered, SendOn, Xoff, Xon,
       Drain, TrunkOnly, Play, Echo, Settle, Interrupt, AskIfThere, ClearData, Sync, Restart
  <2>. QED
    BY <2>1 DEF answerVars, Made, Upto, Newest, EndsAnswer
<1>. QED
  BY <1>1, <1>2, <1>3

LEMMA SynthesizeDoes ==
  ASSUME TypeInv, Synthesize
  PROVE  \E x \in ChunkType :
           /\ queue' = Append(queue, x) /\ QM' = QM \union {x} /\ Made(x)' /\ x.of = <<Newest, count + 1>>
           /\ done' = EndsAnswer(x)
           /\ \A m \in AllMarks : Made(m) => Ahead(m, x)
<1>1. PICK kind \in {"audio", "last", "end"} :
        /\ queue' = Append(queue, [of |-> <<Newest, count + 1>>, kind |-> kind])
        /\ count' = count + 1 /\ done' = (kind # "audio")
  BY DEF Synthesize
<1>x. PICK x : x = [of |-> <<Newest, count + 1>>, kind |-> kind]
  OBVIOUS
<1>2. ~done /\ Newest \in Responses /\ count + 1 \in 1..MaxChunks /\ UNCHANGED turns /\ count \in Nat
  <2>1. Length \in 1..MaxChunks
    BY BoundsAssumption DEF Length
  <2>. QED
    BY <2>1, BoundsAssumption DEF TypeInv, FlushInv, Synthesize, GoodAnswers, Newest, Responses
<1>3. x \in ChunkType /\ x.of = <<Newest, count + 1>> /\ x.kind = kind
  BY <1>2, <1>x DEF ChunkType, Chunks
<1>4. QM' = QM \union {x}
  BY <1>1, <1>x, RangeAppend DEF QM, TypeInv, FlushInv
<1>5. Made(x)'
  <2>1. Newest' = Newest /\ x.of[1] = Newest /\ x.of[2] = count' /\ Newest \in Nat /\ count' \in Nat
    BY <1>1, <1>2, <1>3, BoundsAssumption DEF Newest, Responses
  <2>2. EndsAnswer(x) => done'
    BY <1>1, <1>3 DEF EndsAnswer
  <2>. QED
    BY <2>1, <2>2 DEF Made, Upto, EndsAnswer
<1>6. ASSUME NEW m \in AllMarks, Made(m) PROVE Ahead(m, x)
  <2>1. /\ m.of[1] \in Nat /\ m.of[2] \in Nat /\ Newest \in Nat /\ count \in Nat
        /\ x.of[1] = Newest /\ x.of[2] = count + 1
    BY <1>2, <1>3, ChunkNumbers, AllMarksAre, BoundsAssumption DEF Responses
  <2>2. m.of[1] <= Newest /\ (m.of[1] = Newest => m.of[2] <= count /\ ~EndsAnswer(m))
    BY <1>2, <1>6 DEF Made, Upto
  <2>3. Earlier(m.of, x.of)
    BY <2>1, <2>2 DEF Earlier
  <2>. QED
    BY <2>1, <2>2, <2>3 DEF Ahead
<1>7. done' = EndsAnswer(x)
  <2>1. EndsAnswer(x) <=> kind # "audio"
    BY <1>3 DEF EndsAnswer
  <2>2. EndsAnswer(x) \in BOOLEAN
    BY DEF EndsAnswer
  <2>. QED
    BY <1>1, <2>1, <2>2, Zenon
<1>. QED
  BY <1>1, <1>x, <1>3, <1>4, <1>5, <1>6, <1>7

LEMMA InitOrder == Init => OrderInv
  BY RangeEmpty, RisingEmpty DEF Init, OrderInv, Queued, Wires, Registers, Out, Handed, QM, MM, CM, LM, EM,
     WM, Busy, Idle

LEMMA QueuedStep ==
  ASSUME TypeInv, Queued, Next
  PROVE  Queued'
<1>0. queue \in Seq(ChunkType) /\ QM \subseteq AllMarks /\ \A q \in QM : q.of \in Chunks
  BY SetsTyped, AllMarksAre DEF TypeInv, FlushInv
<1>1. \A q \in QM : Made(q)'
  BY <1>0, MadeStays DEF Queued
<1>2. CASE Synthesize
  <2>1. PICK x \in ChunkType : /\ queue' = Append(queue, x) /\ QM' = QM \union {x} /\ Made(x)'
                              /\ \A m \in AllMarks : Made(m) => Ahead(m, x)
    BY <1>2, SynthesizeDoes
  <2>2. x \in AllMarks
    BY DEF ChunkType, AllMarks, Kinds
  <2>3. \A q \in QM : <<q, x>> \in Ordering
    BY <1>0, <2>1, <2>2, InOrdering DEF Queued, Foregoes
  <2>4. Rising(queue', Ordering)
    BY <1>0, <2>1, <2>3, RisingAppend DEF Queued, QM
  <2>. QED
    BY <1>1, <2>1, <2>4 DEF Queued
<1>3. CASE Take
  <2>1. queue # <<>> /\ queue' = Tail(queue)
    BY <1>3 DEF Take
  <2>2. Rising(queue', Ordering) /\ QM' \subseteq QM
    BY <1>0, <2>1, RisingTail, RangeTail DEF Queued, QM
  <2>. QED
    BY <1>1, <2>2 DEF Queued
<1>4. CASE Restart
  <2>1. Rising(queue', Ordering) /\ QM' = {}
    BY <1>4, RisingEmpty, RangeEmpty DEF Restart, QM
  <2>. QED
    BY <2>1 DEF Queued
<1>5. CASE ~Synthesize /\ ~Take /\ ~Restart
  <2>1. UNCHANGED queue
    BY <1>5 DEF Next, Respond, SendMedia, SendPost, Buffered, SendOn, Xoff, Xon,
       Drain, TrunkOnly, Play, Echo, Settle, Interrupt, AskIfThere, ClearData, Sync
  <2>2. QM' = QM
    BY <2>1 DEF QM
  <2>. QED
    BY <1>1, <2>1, <2>2 DEF Queued
<1>. QED
  BY <1>2, <1>3, <1>4, <1>5

LEMMA OutsideStep ==
  ASSUME TypeInv, Queued, Wires, Registers, Out, Handed, Next, ~Sip
  PROVE  Wires' /\ Registers' /\ Out' /\ Handed'
<1>0. /\ QM \subseteq AllMarks /\ MM \subseteq AllMarks /\ CM \subseteq AllMarks /\ WM \subseteq AllMarks
      /\ Busy => InHand \in AllMarks /\ InHand.of = loop.of /\ InHand.kind = loop.kind
      /\ marks \in Seq(AllMarks) /\ trunk = NoTrunk /\ loop.pc \in {"idle", "pre", "media"}
  BY SetsTyped, WireTypes
<1>m. \A m \in AllMarks : Made(m) => Made(m)'
  BY MadeStays, AllMarksAre
<1>u. UNCHANGED <<line, echoes, marks, cleared>> =>
        Wires' /\ Registers' /\ WM' = WM /\ MM' = MM
  <2>. SUFFICES ASSUME UNCHANGED <<line, echoes, marks, cleared>>
                PROVE  Wires' /\ Registers' /\ WM' = WM /\ MM' = MM
    OBVIOUS
  <2>1. EM' = EM /\ LM' = LM /\ MM' = MM /\ CM' = CM
    BY DEF EM, LM, MM, CM, AllMarks, Chunks, Responses
  <2>. QED
    BY <1>0, <1>m, <2>1 DEF Wires, Registers, WM
<1>i. UNCHANGED loop => InHand' = InHand /\ Busy' = Busy
  BY DEF InHand, Busy
<1>1. CASE Respond
  <2>1. UNCHANGED <<line, echoes, marks, cleared, queue, loop>>
    BY <1>1 DEF Respond, wireVars
  <2>2. QM' = QM
    BY <2>1 DEF QM
  <2>. QED
    BY <1>0, <1>m, <1>u, <1>i, <2>1, <2>2 DEF Out, Handed
<1>2. CASE Synthesize
  <2>1. UNCHANGED <<line, echoes, marks, cleared, loop>>
    BY <1>2 DEF Synthesize, wireVars
  <2>2. PICK x \in ChunkType : QM' = QM \union {x} /\ \A m \in AllMarks : Made(m) => Ahead(m, x)
    BY <1>2, SynthesizeDoes
  <2>3. Out'
    BY <1>0, <1>m, <1>u, <1>i, <2>1, <2>2 DEF Out
  <2>4. Handed'
    BY <1>0, <1>m, <1>i, <2>1, <2>2 DEF Handed
  <2>. QED
    BY <1>u, <2>1, <2>3, <2>4
<1>3. CASE Take
  <2>0. PICK c : c = Head(queue)
    OBVIOUS
  <2>1. /\ c \in AllMarks /\ c \in QM /\ QM = QM' \union {c} /\ ~Busy /\ c.kind # "pre"
        /\ \A q \in QM' : Ahead(c, q)
        /\ UNCHANGED cleared
    BY <1>3, <2>0, TakeDoes, SetsTyped
  <2>2. \/ UNCHANGED <<loop, marks, line, echoes>>
        \/ Marked(Mark(c.of, c.kind)) /\ loop' = Idle
        \/ /\ Marked(Mark(c.of, "pre"))
           /\ loop' = [pc |-> "pre", of |-> c.of, kind |-> c.kind, frame |-> 0, gen |-> 0]
    BY <1>3, <2>0, TakeDoes
  <2>3. /\ Made(c) /\ \A m \in WM \union MM : Made(m) /\ Ahead(m, c) /\ \A q \in QM' : Ahead(m, q)
    BY <2>1 DEF Queued, Out
  <2>4. CASE UNCHANGED <<loop, marks, line, echoes>>
    BY <1>0, <1>m, <1>u, <1>i, <2>1, <2>3, <2>4 DEF Out, Handed
  <2>5. ASSUME NEW k \in {c.kind, "pre"}, Marked(Mark(c.of, k))
        PROVE  /\ Wires' /\ Registers'
               /\ WM' = WM \union {Mark(c.of, k)} /\ MM' = MM \union {Mark(c.of, k)}
               /\ \A m \in WM' \union MM' : Made(m)' /\ \A q \in QM' : Ahead(m, q)
    <3>0. PICK x : x = Mark(c.of, k)
      OBVIOUS
    <3>1. x \in AllMarks /\ x.of = c.of /\ x.kind = k
      <4>1. c.of \in Chunks /\ k \in Kinds
        BY <2>1, AllMarksAre DEF Kinds
      <4>. QED
        BY <3>0, <4>1, MarkIs
    <3>2. \A n \in WM \union MM : Foregoes(n, x)
      BY <2>3, <3>1, AheadForegoes
    <3>3. /\ WM' = WM \union {x} /\ MM' = MM \union {x} /\ EM' = EM /\ Wires'
          /\ Rising(marks', Ordering) /\ Rising(cleared', Ordering) /\ CM' = CM
      BY <2>1, <2>5, <3>0, <3>1, <3>2, MarkedDoes
    <3>4. Made(x)
      BY <2>3, <3>1 DEF Made, EndsAnswer
    <3>5. \A q \in QM' : Ahead(x, q)
      BY <2>1, <3>1 DEF Ahead, EndsAnswer
    <3>6. Registers'
      BY <1>0, <1>m, <3>3 DEF Registers
    <3>7. \A m \in WM' \union MM' : Made(m)' /\ \A q \in QM' : Ahead(m, q)
      BY <1>0, <1>m, <2>3, <3>1, <3>3, <3>4, <3>5
    <3>. QED
      BY <3>0, <3>3, <3>6, <3>7
  <2>6. CASE Marked(Mark(c.of, c.kind)) /\ loop' = Idle
    <3>1. ~Busy'
      BY <2>6 DEF Busy, Idle
    <3>2. c.kind \in {c.kind, "pre"}
      OBVIOUS
    <3>. QED
      BY <2>5, <2>6, <3>1, <3>2 DEF Out, Handed
  <2>7. CASE /\ Marked(Mark(c.of, "pre"))
             /\ loop' = [pc |-> "pre", of |-> c.of, kind |-> c.kind, frame |-> 0, gen |-> 0]
    <3>0. "pre" \in {c.kind, "pre"}
      OBVIOUS
    <3>1. /\ Wires' /\ Registers'
          /\ WM' = WM \union {Mark(c.of, "pre")} /\ MM' = MM \union {Mark(c.of, "pre")}
          /\ \A m \in WM' \union MM' : Made(m)' /\ \A q \in QM' : Ahead(m, q)
      BY <2>5, <2>7, <3>0
    <3>2. InHand' = c
      <4>1. loop'.of = c.of /\ loop'.kind = c.kind
        BY <2>7
      <4>. QED
        BY <2>1, <4>1, AllMarksAre DEF InHand
    <3>3. \A m \in WM' \union MM' : Foregoes(m, c)
      <4>1. Foregoes(Mark(c.of, "pre"), c)
        BY <2>1 DEF Foregoes, Mark
      <4>. QED
        BY <2>3, <3>1, <4>1, AheadForegoes
    <3>4. Made(c)' /\ \A q \in QM' : Ahead(c, q)
      BY <1>m, <2>1, <2>3
    <3>. QED
      BY <3>1, <3>2, <3>3, <3>4 DEF Out, Handed
  <2>. QED
    BY <2>2, <2>4, <2>6, <2>7
<1>4. CASE SendMedia
  <2>. DEFINE x == Media(loop.of, 1)
  <2>1. /\ Busy /\ line' = Append(line, x) /\ loop' = [loop EXCEPT !.pc = "media"]
        /\ UNCHANGED <<echoes, marks, cleared, queue>>
    BY <1>4 DEF SendMedia, Busy
  <2>2. x \in Items /\ ~IsMark(x) /\ x \notin AllMarks
    BY <1>0, <2>1, AllMarksAre DEF Media, Items, IsMark, AllMarks, Kinds
  <2>3. line \in Seq(Items) /\ loop \in AnyLoop
    BY WireTypes DEF TypeInv, Looping
  <2>. HIDE DEF x
  <2>4. InHand' = InHand /\ Busy'
    BY <2>1, <2>3 DEF InHand, Busy, AnyLoop
  <2>5. Range(line') = Range(line) \union {x}
    BY <2>1, <2>3, RangeAppend
  <2>6. LM' = LM
    <3>1. LM' = Range(line') \intersect AllMarks
      BY DEF LM, AllMarks, Chunks, Responses
    <3>. QED
      BY <2>2, <2>5, <3>1 DEF LM
  <2>7. EM' = EM /\ MM' = MM /\ CM' = CM /\ QM' = QM
    BY <2>1 DEF EM, MM, CM, QM
  <2>8. Rising(line', Ordering)
    <3>1. \A y \in Range(line) : <<y, x>> \in Ordering
      BY <2>2, <2>3 DEF Ordering, Range
    <3>. QED
      BY <2>1, <2>3, <3>1, RisingAppend DEF Wires
  <2>9. Wires' /\ WM' = WM
    BY <2>1, <2>6, <2>7, <2>8 DEF Wires, WM
  <2>10. Registers'
    BY <1>0, <1>m, <2>1, <2>7 DEF Registers
  <2>. QED
    BY <1>0, <1>m, <2>1, <2>4, <2>7, <2>9, <2>10 DEF Out, Handed
<1>5. CASE SendPost
  <2>1. Busy /\ Marked(InHand) /\ loop' = Idle /\ UNCHANGED <<cleared, queue>>
    BY <1>5 DEF SendPost, Post, Marked, InHand, Busy
  <2>2. QM' = QM /\ ~Busy'
    BY <2>1 DEF QM, Busy, Idle
  <2>3. /\ WM' = WM \union {InHand} /\ MM' = MM \union {InHand} /\ Wires'
        /\ Rising(marks', Ordering) /\ Rising(cleared', Ordering) /\ CM' = CM
    BY <1>0, <2>1, MarkedDoes DEF Out
  <2>4. Registers'
    BY <1>0, <1>m, <2>3 DEF Registers
  <2>5. \A m \in WM' \union MM' : Made(m)' /\ \A q \in QM' : Ahead(m, q)
    BY <1>0, <1>m, <2>1, <2>2, <2>3 DEF Out, Handed
  <2>. QED
    BY <2>2, <2>3, <2>4, <2>5 DEF Out, Handed
<1>6. CASE Play
  <2>1. UNCHANGED <<marks, cleared, queue, loop>>
    BY <1>6 DEF Play
  <2>2. QM' = QM /\ MM' = MM /\ CM' = CM
    BY <2>1 DEF QM, MM, CM
  <2>3. Registers'
    BY <1>0, <1>m, <2>1, <2>2 DEF Registers
  <2>. QED
    BY <1>0, <1>m, <1>i, <1>6, <2>1, <2>2, <2>3, PlayDoes DEF Out, Handed
<1>7. CASE Echo
  <2>. DEFINE m == Head(echoes)
  <2>1. /\ Wires' /\ WM' = WM \ {m} /\ UNCHANGED <<queue, loop, cleared>>
        /\ (MM' = MM \ {m} /\ marks' = Without(marks, m)) \/ UNCHANGED marks
    BY <1>7, EchoDoes
  <2>. HIDE DEF m
  <2>2. MM' \subseteq MM /\ Rising(marks', Ordering)
    <3>1. CASE UNCHANGED marks
      BY <3>1 DEF MM, Registers
    <3>2. CASE MM' = MM \ {m} /\ marks' = Without(marks, m)
      BY <1>0, <3>2, RisingThose DEF Registers, Without
    <3>. QED
      BY <2>1, <3>1, <3>2
  <2>3. QM' = QM /\ CM' = CM
    BY <2>1 DEF QM, CM
  <2>4. Registers'
    BY <1>0, <1>m, <2>1, <2>2, <2>3 DEF Registers
  <2>. QED
    BY <1>0, <1>m, <1>i, <2>1, <2>2, <2>3, <2>4 DEF Out, Handed
<1>8. CASE Interrupt \/ AskIfThere
  <2>1. Clear /\ UNCHANGED <<marks, cleared, queue, loop>>
    BY <1>8 DEF Interrupt, AskIfThere
  <2>2. Wires' /\ WM' \subseteq WM
    BY <2>1, ClearDoes DEF WM
  <2>3. QM' = QM /\ MM' = MM /\ CM' = CM
    BY <2>1 DEF QM, MM, CM
  <2>4. Registers'
    BY <1>0, <1>m, <2>1, <2>3 DEF Registers
  <2>. QED
    BY <1>0, <1>m, <1>i, <2>1, <2>2, <2>3, <2>4 DEF Out, Handed
<1>9. CASE ClearData
  <2>1. /\ marks' = <<>> /\ (cleared' = marks \/ cleared' = <<>>) /\ UNCHANGED <<queue, loop, line, echoes>>
    BY <1>9 DEF ClearData
  <2>2. QM' = QM /\ MM' = {} /\ EM' = EM /\ (CM' = MM \/ CM' = {})
    BY <2>1, RangeEmpty DEF QM, MM, CM, EM
  <2>3. LM' = LM
    BY <2>1 DEF LM, AllMarks, Chunks, Responses
  <2>4. Wires' /\ WM' = WM
    BY <2>1, <2>2, <2>3 DEF Wires, WM
  <2>5. Registers'
    BY <1>0, <1>m, <2>1, <2>2, RisingEmpty DEF Registers, Out
  <2>. QED
    BY <1>0, <1>m, <1>i, <2>1, <2>2, <2>4, <2>5 DEF Out, Handed
<1>10. CASE Sync
  <2>1. cleared' = <<>> /\ UNCHANGED <<queue, loop, line, echoes, marks>>
    BY <1>10 DEF Sync, wireVars
  <2>2. QM' = QM /\ MM' = MM /\ EM' = EM /\ CM' = {}
    BY <2>1, RangeEmpty DEF QM, MM, CM, EM
  <2>3. LM' = LM
    BY <2>1 DEF LM, AllMarks, Chunks, Responses
  <2>4. Wires' /\ WM' = WM
    BY <2>1, <2>2, <2>3 DEF Wires, WM
  <2>5. Registers'
    BY <2>1, <2>2, RisingEmpty DEF Registers
  <2>. QED
    BY <1>0, <1>m, <1>i, <2>1, <2>2, <2>4, <2>5 DEF Out, Handed
<1>11. CASE Restart
  <2>1. ~Busy' /\ QM' = {} /\ UNCHANGED <<line, echoes, marks, cleared>>
    BY <1>11, RangeEmpty DEF Restart, wireVars, Busy, Idle, QM
  <2>. QED
    BY <1>0, <1>m, <1>u, <2>1 DEF Out, Handed
<1>12. CASE Buffered \/ SendOn \/ Xoff \/ Xon \/ Drain \/ Settle
  BY <1>0, <1>12 DEF Buffered, SendOn, Xoff, Xon, Drain, Settle, NoTrunk
<1>. QED
  BY <1>1, <1>2, <1>3, <1>4, <1>5, <1>6, <1>7, <1>8, <1>9, <1>10, <1>11, <1>12 DEF Next

LEMMA OrderStep == TypeInv /\ OrderInv /\ Next => OrderInv'
<1>. SUFFICES ASSUME TypeInv, OrderInv, Next
              PROVE  OrderInv'
  OBVIOUS
<1>1. Queued' /\ Sip' = Sip
  BY QueuedStep, HandlerStays DEF OrderInv
<1>2. ~Sip => Wires' /\ Registers' /\ Out' /\ Handed'
  BY OutsideStep DEF OrderInv
<1>. QED
  BY <1>1, <1>2 DEF OrderInv

-----------------------------------------------------------------------------
(* While nothing is late, the agent is silent from an interruption on until it *)
(* is over; and before the first, nothing is.                                  *)
Calm == /\ ~late /\ cut # "no" => ~playing
        /\ ~Sip /\ cuts = 0 => ~late /\ cut = "no" /\ skipped = {}
        /\ cut # "syncing" => cleared = <<>>

LEMMA Lately ==
  ASSUME Next, ~late'
  PROVE  /\ ~late /\ (Take \/ SendMedia => cut = "no")
         /\ Echo /\ Contains(marks, Head(echoes)) /\ Head(echoes).kind = "pre" => cut = "no"
<1>1. CASE Take
  <2>1. ~late /\ cut = "no"
    BY <1>1, Zenon DEF Take
  <2>. QED
    BY <2>1
<1>2. CASE SendMedia
  <2>1. ~late /\ cut = "no"
    BY <1>2, Zenon DEF SendMedia
  <2>. QED
    BY <2>1
<1>3. CASE Echo /\ ~Take /\ ~SendMedia
  <2>. DEFINE m == Head(echoes)
  <2>1. CASE Contains(marks, m)
    <3>1. late' = (late \/ (m.kind = "pre" /\ cut # "no"))
      BY <1>3, <2>1, Zenon DEF Echo
    <3>2. ~late /\ ~(m.kind = "pre" /\ cut # "no")
      BY <3>1, Zenon
    <3>. QED
      BY <1>3, <3>2
  <2>2. CASE ~Contains(marks, m)
    <3>1. late' = late
      BY <1>3, <2>2, Zenon DEF Echo
    <3>. QED
      BY <1>3, <2>2, <3>1
  <2>. QED
    BY <2>1, <2>2
<1>4. CASE ~Take /\ ~SendMedia /\ ~Echo
  <2>. SUFFICES ~late
    BY <1>4
  <2>s. ASSUME late' = late PROVE ~late
    BY <2>s, Zenon
  <2>g. ASSUME NEW t, NEW others, GiveUp(t, others) PROVE ~late
    <3>1. late' = (late \/ t.local # <<>> \/ t.finish)
      BY <2>g, Zenon DEF GiveUp
    <3>. QED
      BY <3>1, Zenon
  <2>n. ASSUME NEW t, NEW others, NEW gen, NextChunk(t, others, gen) PROVE ~late
    <3>1. (late' = late) \/ GiveUp(t, others)
      BY <2>n DEF NextChunk, SendRest
    <3>. QED
      BY <2>g, <2>s, <3>1
  <2>1. CASE Xon
    <3>1. PICK t : t = [trunk EXCEPT !.full = FALSE]
      OBVIOUS
    <3>2. NextChunk(t, trunk.drains, trunk.gen)
      BY <2>1, <3>1, Zenon DEF Xon
    <3>. QED
      BY <2>n, <3>2
  <2>2. CASE Drain
    <3>1. PICK d \in trunk.drains :
          LET others == trunk.drains \ {d} IN
          \/ NextChunk(trunk, others, d.gen)
          \/ GiveUp(trunk, others)
          \/ (late' = late)
      BY <2>2 DEF Drain, SendRest
    <3>2. CASE NextChunk(trunk, trunk.drains \ {d}, d.gen)
      BY <2>n, <3>2
    <3>3. CASE GiveUp(trunk, trunk.drains \ {d})
      BY <2>g, <3>3
    <3>. QED
      BY <2>s, <3>1, <3>2, <3>3
  <2>3. CASE ~Xon /\ ~Drain
    <3>1. late' = late
      BY <1>4, <2>3 DEF Next, Respond, Synthesize, SendPost, Buffered, SendOn, Xoff, TrunkOnly, Play, Settle,
         Interrupt, AskIfThere, ClearData, Sync, Restart, wireVars
    <3>. QED
      BY <2>s, <3>1
  <2>. QED
    BY <2>1, <2>2, <2>3
<1>. QED
  BY <1>1, <1>2, <1>3, <1>4

LEMMA CalmStep == TypeInv /\ Calm /\ Next => Calm'
<1>. SUFFICES ASSUME TypeInv, Calm, Next
              PROVE  Calm'
  OBVIOUS
<1>1. ~late' /\ cut' # "no" => ~playing'
  <2>. SUFFICES ASSUME ~late', cut' # "no"
                PROVE  ~playing'
    OBVIOUS
  <2>0. ~late /\ (Take => cut = "no") /\ (cut # "no" => ~playing)
    BY Lately DEF Calm
  <2>1. CASE Take
    BY <2>0, <2>1 DEF Take
  <2>2. CASE Echo
    <3>1. cut # "no" /\ ~playing
      BY <2>0, <2>2 DEF Echo
    <3>. DEFINE m == Head(echoes)
    <3>2. CASE Contains(marks, m)
      <4>1. ~Begins(m)
        BY <2>2, <3>1, <3>2, Lately DEF Begins
      <4>2. playing' = IF EndsAnswer(m) THEN FALSE ELSE (playing \/ Begins(m))
        BY <2>2, <3>2, Zenon DEF Echo
      <4>. QED
        BY <3>1, <4>1, <4>2, Zenon
    <3>3. CASE ~Contains(marks, m)
      BY <2>2, <3>1, <3>3, Zenon DEF Echo, heardVars
    <3>. QED
      BY <3>2, <3>3
  <2>3. CASE Settle
    <3>1. cut # "no" /\ ~playing
      BY <2>0, <2>3 DEF Settle
    <3>2. playing' = FALSE \/ playing' = playing
      BY <2>3, Zenon DEF Settle, heardVars
    <3>. QED
      BY <3>1, <3>2, Zenon
  <2>4. CASE Interrupt
    BY <2>4, Zenon DEF Interrupt
  <2>5. CASE AskIfThere
    BY <2>5, Zenon DEF AskIfThere
  <2>6. CASE ClearData
    <3>1. cut # "no" /\ ~playing
      BY <2>0, <2>6 DEF ClearData
    <3>2. playing' = FALSE \/ playing' = playing
      BY <2>6, Zenon DEF ClearData
    <3>. QED
      BY <3>1, <3>2, Zenon
  <2>7. CASE Sync
    <3>1. cut # "no" /\ ~playing
      BY <2>0, <2>7 DEF Sync
    <3>. QED
      BY <2>7, <3>1 DEF Sync
  <2>8. CASE Restart
    BY <2>8 DEF Restart
  <2>9. CASE ~Take /\ ~Echo /\ ~Settle /\ ~Interrupt /\ ~AskIfThere /\ ~ClearData /\ ~Sync /\ ~Restart
    <3>1. UNCHANGED <<cut, playing>>
      BY <2>9 DEF Next, Respond, Synthesize, SendMedia, SendPost, Buffered, SendOn, Xoff, Xon,
         Drain, TrunkOnly, Play, heardVars
    <3>. QED
      BY <2>0, <3>1
  <2>. QED
    BY <2>1, <2>2, <2>3, <2>4, <2>5, <2>6, <2>7, <2>8, <2>9
<1>2. ~Sip' /\ cuts' = 0 => ~late' /\ cut' = "no" /\ skipped' = {}
  <2>. SUFFICES ASSUME ~Sip, cuts' = 0
                PROVE  ~late' /\ cut' = "no" /\ skipped' = {}
    BY HandlerStays
  <2>1. cuts = 0 /\ ~Interrupt /\ ~AskIfThere
    <3>1. cuts \in Nat
      BY BoundsAssumption DEF TypeInv, Cutting
    <3>2. cuts' = cuts \/ (cuts' = cuts + 1 /\ (Interrupt \/ AskIfThere))
      BY DEF Next, Respond, Synthesize, Take, SendMedia, SendPost, Buffered, SendOn, Xoff, Xon,
         Drain, TrunkOnly, Play, Echo, Settle, Interrupt, AskIfThere, ClearData, Sync, Restart
    <3>3. Interrupt \/ AskIfThere => cuts' = cuts + 1
      BY DEF Interrupt, AskIfThere
    <3>. QED
      BY <3>1, <3>2, <3>3
  <2>2. ~late /\ cut = "no" /\ skipped = {}
    BY <2>1 DEF Calm
  <2>3. trunk = NoTrunk /\ loop.pc \in {"idle", "pre", "media"}
    BY WireTypes
  <2>4. ~ClearData /\ ~Sync /\ ~Restart /\ ~Buffered /\ ~SendOn /\ ~Xoff /\ ~Xon /\ ~Drain /\ ~Settle
    BY <2>2, <2>3 DEF ClearData, Sync, Restart, Buffered, SendOn, Xoff, Xon, Drain, Settle, NoTrunk
  <2>5. cut' = cut /\ skipped' = skipped
    BY <2>1, <2>4 DEF Next, Respond, Synthesize, Take, SendMedia, SendPost, Play, Echo, wireVars
  <2>6. ~late'
    <3>1. CASE Take
      BY <2>2, <3>1, Zenon DEF Take
    <3>2. CASE SendMedia
      BY <2>2, <3>2, Zenon DEF SendMedia
    <3>3. CASE Echo
      BY <2>2, <3>3, Zenon DEF Echo
    <3>4. CASE Respond \/ Synthesize \/ SendPost \/ Play
      BY <2>2, <3>4 DEF Respond, Synthesize, SendPost, Play
    <3>. QED
      BY <2>1, <2>4, <3>1, <3>2, <3>3, <3>4 DEF Next
  <2>. QED
    BY <2>2, <2>5, <2>6
<1>3. cut' # "syncing" => cleared' = <<>>
  <2>1. CASE ClearData
    BY <2>1 DEF ClearData
  <2>2. CASE Sync
    BY <2>2 DEF Sync
  <2>3. CASE Interrupt \/ AskIfThere \/ Restart
    BY <2>3 DEF Interrupt, AskIfThere, Restart, Calm
  <2>4. CASE ~ClearData /\ ~Sync /\ ~Interrupt /\ ~AskIfThere /\ ~Restart
    <3>1. UNCHANGED <<cut, cleared>>
      BY <2>4 DEF Next, Respond, Synthesize, Take, SendMedia, SendPost, Buffered, SendOn, Xoff, Xon,
         Drain, TrunkOnly, Play, Echo, Settle
    <3>. QED
      BY <3>1 DEF Calm
  <2>. QED
    BY <2>1, <2>2, <2>3, <2>4
<1>. QED
  BY <1>1, <1>2, <1>3 DEF Calm

-----------------------------------------------------------------------------
(* More of an answer is to come: the loop may send the last of it yet. *)
More == \A q \in QM : q.kind = "audio" /\ q.of[1] \in valid =>
          (q.of[1] = Newest /\ ~done) \/ \E e \in QM : EndsAnswer(e) /\ e.of[1] = q.of[1]
Coming == \/ \E q \in QM : EndsAnswer(q) /\ (q.of[1] \in valid \/ q.kind = "end")
          \/ Newest > 0 /\ ~done /\ Newest \in valid

LEMMA QueueNumbers ==
  ASSUME TypeInv, Queued, NEW q \in QM
  PROVE  /\ q \in AllMarks /\ q.kind \in {"audio", "last", "end"} /\ q.of[1] \in Nat /\ q.of[1] # 0
         /\ q.of[1] <= Newest /\ Newest \in Nat
  BY SetsTyped, AllMarksAre, ChunkNumbers DEF ChunkType, Queued, Made, Upto, TypeInv, FlushInv, GoodAnswers, Newest

(* A chunk leaves the queue. *)
LEMMA TakeQueue ==
  ASSUME TypeInv, Queued, Take
  PROVE  LET c == Head(queue) IN
         /\ c \in QM /\ QM = QM' \union {c} /\ \A q \in QM' : Ahead(c, q)
         /\ UNCHANGED <<turns, count, done, valid>> /\ Newest' = Newest
<1>. DEFINE c == Head(queue)
<1>1. queue \in Seq(ChunkType) /\ queue # <<>> /\ queue' = Tail(queue)
      /\ UNCHANGED <<turns, count, done, valid>>
  BY DEF Take, TypeInv, FlushInv, answerVars
<1>2. c \in QM /\ QM = QM' \union {c} /\ \A q \in QM' : <<c, q>> \in Ordering
  BY <1>1, RangeTail, RisingTail DEF QM, Queued
<1>3. \A q \in QM' : q \in AllMarks /\ c \in AllMarks /\ c.kind # "pre"
  BY <1>2, SetsTyped
<1>4. \A q \in QM' : Ahead(c, q)
  BY <1>2, <1>3, InOrdering DEF Foregoes
<1>. QED
  BY <1>1, <1>2, <1>4 DEF Newest

LEMMA MoreStep == TypeInv /\ Queued /\ More /\ Next => More'
<1>. SUFFICES ASSUME TypeInv, Queued, More, Next
              PROVE  More'
  OBVIOUS
<1>0. \A q \in QM : q \in AllMarks /\ q.of[1] \in Nat /\ q.of[1] <= Newest /\ Newest \in Nat
  BY QueueNumbers
<1>1. CASE Respond
  <2>1. /\ Newest' = Newest + 1 /\ QM' = QM /\ valid' = valid \union {Newest + 1}
        /\ done \/ Newest \notin valid
    BY <1>1 DEF Respond, Newest, QM, TypeInv, FlushInv, GoodAnswers
  <2>2. ASSUME NEW q \in QM', q.kind = "audio", q.of[1] \in valid'
        PROVE  \E e \in QM' : EndsAnswer(e) /\ e.of[1] = q.of[1]
    <3>1. q.of[1] \in valid
      BY <1>0, <2>1, <2>2
    <3>. QED
      BY <2>1, <2>2, <3>1 DEF More
  <2>. QED
    BY <2>2 DEF More, EndsAnswer
<1>2. CASE Synthesize
  <2>1. PICK x \in ChunkType : /\ QM' = QM \union {x} /\ x.of = <<Newest, count + 1>>
                              /\ done' = EndsAnswer(x)
    BY <1>2, SynthesizeDoes
  <2>2. Newest' = Newest /\ valid' = valid /\ x.of[1] = Newest
    BY <1>2, <2>1 DEF Synthesize, Newest
  <2>3. ASSUME NEW q \in QM', q.kind = "audio", q.of[1] \in valid'
        PROVE  (q.of[1] = Newest /\ ~done') \/ \E e \in QM' : EndsAnswer(e) /\ e.of[1] = q.of[1]
    <3>1. CASE q.of[1] = Newest
      <4>1. CASE EndsAnswer(x)
        BY <2>1, <2>2, <3>1, <4>1
      <4>2. CASE ~EndsAnswer(x)
        BY <2>1, <3>1, <4>2
      <4>. QED
        BY <4>1, <4>2
    <3>2. CASE q.of[1] # Newest
      <4>1. q \in QM
        BY <2>1, <2>2, <3>2
      <4>. QED
        BY <2>1, <2>2, <2>3, <3>2, <4>1 DEF More
    <3>. QED
      BY <3>1, <3>2
  <2>. QED
    BY <2>2, <2>3 DEF More, EndsAnswer
<1>3. CASE Take
  <2>0. PICK c : c = Head(queue)
    OBVIOUS
  <2>1. /\ c \in QM /\ QM = QM' \union {c} /\ \A q \in QM' : Ahead(c, q)
        /\ UNCHANGED <<turns, count, done, valid>> /\ Newest' = Newest
    BY <1>3, <2>0, TakeQueue
  <2>2. ASSUME NEW q \in QM', q.kind = "audio", q.of[1] \in valid
        PROVE  (q.of[1] = Newest /\ ~done) \/ \E e \in QM' : EndsAnswer(e) /\ e.of[1] = q.of[1]
    <3>1. \A e \in QM : EndsAnswer(e) /\ e.of[1] = q.of[1] => e # c
      BY <1>0, <2>1 DEF Ahead
    <3>. QED
      BY <2>1, <2>2, <3>1 DEF More
  <2>. QED
    BY <2>1, <2>2 DEF More, EndsAnswer
<1>4. CASE Sync
  BY <1>4 DEF Sync, More
<1>5. CASE Restart
  BY <1>5, RangeEmpty DEF Restart, More, QM
<1>6. CASE ~Respond /\ ~Synthesize /\ ~Take /\ ~Sync /\ ~Restart
  <2>1. UNCHANGED <<queue, turns, done, valid>>
    BY <1>6 DEF Next, SendMedia, SendPost, Buffered, SendOn, Xoff, Xon,
       Drain, TrunkOnly, Play, Echo, Settle, Interrupt, AskIfThere, ClearData, answerVars
  <2>. QED
    BY <2>1 DEF More, QM, Newest, EndsAnswer
<1>. QED
  BY <1>1, <1>2, <1>3, <1>4, <1>5, <1>6

(* What is to come stays so, but for what the loop takes or is cancelled. *)
LEMMA ComingStays ==
  ASSUME TypeInv, Coming, Respond \/ Synthesize \/ UNCHANGED <<queue, turns, done, valid>>
  PROVE  Coming'
<1>1. CASE Respond
  BY <1>1 DEF Respond, Coming, Newest, TypeInv, FlushInv, GoodAnswers
<1>2. CASE Synthesize
  <2>1. PICK x \in ChunkType : /\ QM' = QM \union {x} /\ x.of = <<Newest, count + 1>>
                              /\ done' = EndsAnswer(x)
    BY <1>2, SynthesizeDoes
  <2>2. Newest' = Newest /\ valid' = valid /\ x.of[1] = Newest
    BY <1>2, <2>1 DEF Synthesize, Newest
  <2>3. CASE \E q \in QM : EndsAnswer(q) /\ (q.of[1] \in valid \/ q.kind = "end")
    BY <2>1, <2>2, <2>3 DEF Coming, EndsAnswer
  <2>4. CASE Newest > 0 /\ ~done /\ Newest \in valid
    <3>1. CASE EndsAnswer(x)
      BY <2>1, <2>2, <2>4, <3>1 DEF Coming, EndsAnswer
    <3>2. CASE ~EndsAnswer(x)
      BY <2>1, <2>2, <2>4, <3>2 DEF Coming
    <3>. QED
      BY <3>1, <3>2
  <2>. QED
    BY <2>3, <2>4 DEF Coming
<1>3. CASE UNCHANGED <<queue, turns, done, valid>>
  BY <1>3 DEF Coming, QM, Newest, EndsAnswer
<1>. QED
  BY <1>1, <1>2, <1>3

LEMMA ComingAfterTake ==
  ASSUME TypeInv, Queued, More, Take
  PROVE  LET c == Head(queue) IN
         /\ c.kind = "audio" /\ c.of[1] \in valid => Coming'
         /\ Coming => Coming' \/ (EndsAnswer(c) /\ (c.of[1] \in valid \/ c.kind = "end"))
<1>0. PICK c : c = Head(queue)
  OBVIOUS
<1>1. /\ c \in QM /\ QM = QM' \union {c} /\ UNCHANGED <<turns, count, done, valid>> /\ Newest' = Newest
  BY <1>0, TakeQueue
<1>2. ASSUME c.kind = "audio", c.of[1] \in valid PROVE Coming'
  <2>1. \A e \in QM : EndsAnswer(e) => e # c
    BY <1>2 DEF EndsAnswer
  <2>2. CASE c.of[1] = Newest /\ ~done
    BY <1>0, <1>1, <1>2, <2>2, QueueNumbers DEF Coming
  <2>3. CASE \E e \in QM : EndsAnswer(e) /\ e.of[1] = c.of[1]
    BY <1>1, <1>2, <2>1, <2>3 DEF Coming, EndsAnswer
  <2>. QED
    BY <1>1, <1>2, <2>2, <2>3 DEF More
<1>3. Coming => Coming' \/ (EndsAnswer(c) /\ (c.of[1] \in valid \/ c.kind = "end"))
  BY <1>1 DEF Coming, EndsAnswer
<1>. QED
  BY <1>0, <1>2, <1>3

-----------------------------------------------------------------------------
(* The steps of the loop between the marks of a chunk. *)
LEMMA SendMediaDoes ==
  ASSUME TypeInv, ~Sip, SendMedia
  PROVE  /\ Busy /\ Busy' /\ loop.pc = "pre" /\ loop'.pc = "media" /\ loop'.of = loop.of
         /\ InHand' = InHand /\ WM' = WM /\ MM' = MM /\ QM' = QM /\ EM' = EM
         /\ late' = (late \/ cut # "no")
         /\ UNCHANGED <<handler, answerVars, valid, history, queue, marks, cleared, playing, heard, everHeard,
                        cut, cuts, echoes, skipped, played>>
<1>. DEFINE x == Media(loop.of, 1)
<1>1. /\ loop.pc = "pre" /\ line' = Append(line, x) /\ loop' = [loop EXCEPT !.pc = "media"]
      /\ UNCHANGED <<handler, answerVars, valid, history, queue, marks, cleared, playing, heard, everHeard,
                     cut, cuts, echoes, skipped, played>>
  BY DEF SendMedia, heardVars
<1>2. late' = (late \/ cut # "no")
  BY DEF SendMedia
<1>3. line \in Seq(Items) /\ loop \in AnyLoop /\ loop.of \in Chunks
  BY <1>1, WireTypes DEF TypeInv, Looping, Busy
<1>4. x \notin AllMarks
  BY DEF Media, AllMarks, Kinds
<1>. HIDE DEF x
<1>5. InHand' = InHand /\ Busy /\ Busy' /\ loop'.of = loop.of /\ loop'.pc = "media"
  BY <1>1, <1>3 DEF InHand, Busy, AnyLoop
<1>6. Range(line') = Range(line) \union {x}
  BY <1>1, <1>3, RangeAppend
<1>7. LM' = LM
  <2>1. LM' = Range(line') \intersect AllMarks
    BY DEF LM, AllMarks, Chunks, Responses
  <2>. QED
    BY <1>4, <1>6, <2>1 DEF LM
<1>8. WM' = WM /\ MM' = MM /\ QM' = QM /\ EM' = EM
  BY <1>1, <1>7 DEF WM, EM, MM, QM
<1>. QED
  BY <1>1, <1>2, <1>5, <1>8

LEMMA SendPostDoes ==
  ASSUME TypeInv, OrderInv, ~Sip, SendPost
  PROVE  /\ Busy /\ ~Busy' /\ loop.pc = "media" /\ loop' = Idle /\ InHand \in AllMarks
         /\ Marked(InHand) /\ WM' = WM \union {InHand} /\ MM' = MM \union {InHand} /\ QM' = QM
         /\ EM' = EM
         /\ UNCHANGED <<handler, answerVars, valid, history, queue, cleared, playing, heard, everHeard,
                        cut, cuts, echoes, skipped, played, late>>
<1>1. /\ Busy /\ Marked(InHand) /\ loop' = Idle /\ loop.pc = "media"
      /\ UNCHANGED <<handler, answerVars, valid, history, queue, cleared, playing, heard, everHeard,
                     cut, cuts, echoes, skipped, played, late>>
  BY DEF SendPost, Post, Marked, InHand, Busy, heardVars
<1>2. QM' = QM /\ ~Busy'
  BY <1>1 DEF QM, Busy, Idle
<1>3. InHand \in AllMarks
  BY <1>1, SetsTyped
<1>4. WM' = WM \union {InHand} /\ MM' = MM \union {InHand} /\ EM' = EM
  <2>1. \A n \in WM \union MM : Foregoes(n, InHand)
    BY <1>1 DEF OrderInv, Out
  <2>. QED
    BY <1>1, <1>3, <2>1, MarkedDoes DEF OrderInv
<1>. QED
  BY <1>1, <1>2, <1>3, <1>4

(* Of two marks that are registered, one foregoes the other. *)
LEMMA MarksCompare ==
  ASSUME TypeInv, Registers, NEW m \in MM, NEW n \in MM, m # n
  PROVE  Foregoes(m, n) \/ Foregoes(n, m)
<1>1. marks \in Seq(AllMarks) /\ DOMAIN marks = 1..Len(marks) /\ m \in AllMarks /\ n \in AllMarks
  BY SetsTyped DEF TypeInv, Memory
<1>2. PICK i \in DOMAIN marks, j \in DOMAIN marks : m = marks[i] /\ n = marks[j]
  BY DEF MM, Range
<1>3. i < j \/ j < i
  BY <1>1, <1>2
<1>4. <<m, n>> \in Ordering \/ <<n, m>> \in Ordering
  BY <1>2, <1>3 DEF Registers, Rising
<1>. QED
  BY <1>1, <1>4, InOrdering

(* Nothing comes between the two marks of a chunk. *)
LEMMA NothingBetween ==
  ASSUME NEW p, NEW m, NEW n, p.of \in Chunks, n.of \in Chunks, p.of = m.of, p.kind = "pre",
         m.kind # "pre", Foregoes(p, n), Foregoes(n, m)
  PROVE  FALSE
<1>1. CASE n.of = p.of
  BY <1>1, EarlierOrders DEF Foregoes, Ahead
<1>2. CASE n.of # p.of
  BY <1>2, EarlierOrders DEF Foregoes, Ahead
<1>. QED
  BY <1>1, <1>2

(* Before the first interruption: what is registered is on the wire, and a     *)
(* chunk has its first mark there, or it is being played.                      *)
First(m) == \A n \in WM : n = m \/ Foregoes(m, n)
PreOf(m) == Mark(m.of, "pre")
Speaking == ~Sip /\ cuts = 0 =>
  /\ MM = WM
  /\ \A m \in MM : HasText(m) => PreOf(m) \in MM \/ (playing /\ First(m))
  /\ Busy /\ HasText(InHand) => PreOf(InHand) \in MM \/ (playing /\ MM = {})

LEMMA InitSpeaking == Init => Speaking
  BY RangeEmpty DEF Init, Speaking, MM, WM, EM, LM, Busy, Idle

LEMMA SpeakingStep == TypeInv /\ OrderInv /\ Calm /\ Speaking /\ Next => Speaking'
<1>. SUFFICES ASSUME TypeInv, OrderInv, Calm, Speaking, Next, ~Sip, cuts' = 0
              PROVE  /\ MM' = WM'
                     /\ \A m \in MM' : HasText(m) => PreOf(m) \in MM' \/ (playing' /\ First(m)')
                     /\ Busy' /\ HasText(InHand') => PreOf(InHand') \in MM' \/ (playing' /\ MM' = {})
  BY HandlerStays DEF Speaking, PreOf, HasText, Mark
<1>1. cuts = 0 /\ ~Interrupt /\ ~AskIfThere
  <2>1. cuts \in Nat
    BY BoundsAssumption DEF TypeInv, Cutting
  <2>2. cuts' = cuts \/ (cuts' = cuts + 1 /\ (Interrupt \/ AskIfThere))
    BY DEF Next, Respond, Synthesize, Take, SendMedia, SendPost, Buffered, SendOn, Xoff, Xon,
       Drain, TrunkOnly, Play, Echo, Settle, Interrupt, AskIfThere, ClearData, Sync, Restart
  <2>3. Interrupt \/ AskIfThere => cuts' = cuts + 1
    BY DEF Interrupt, AskIfThere
  <2>. QED
    BY <2>1, <2>2, <2>3
<1>2. /\ MM = WM /\ cut = "no" /\ MM \subseteq AllMarks
      /\ \A m \in MM : HasText(m) => PreOf(m) \in MM \/ (playing /\ First(m))
      /\ Busy /\ HasText(InHand) => PreOf(InHand) \in MM \/ (playing /\ MM = {})
      /\ Queued /\ Wires /\ Registers /\ Out /\ Handed
  BY <1>1, SetsTyped DEF Speaking, Calm, OrderInv
<1>3. trunk = NoTrunk /\ loop.pc \in {"idle", "pre", "media"}
  BY WireTypes
<1>4. CASE Take
  <2>0. PICK c : c = Head(queue)
    OBVIOUS
  <2>1. /\ c \in AllMarks /\ c \in QM /\ ~Busy /\ c.kind # "pre" /\ UNCHANGED cleared
        /\ \/ UNCHANGED <<loop, marks, line, echoes, playing>>
           \/ /\ playing' = TRUE \/ UNCHANGED playing
              /\ \/ c.kind = "end" /\ Marked(Mark(c.of, c.kind)) /\ loop' = Idle
                 \/ /\ Marked(Mark(c.of, "pre"))
                    /\ loop' = [pc |-> "pre", of |-> c.of, kind |-> c.kind, frame |-> 0, gen |-> 0]
    BY <1>2, <1>4, <2>0, TakeDoes, SetsTyped
  <2>2. CASE UNCHANGED <<loop, marks, line, echoes, playing>>
    <3>1. LM' = LM
      BY <2>2 DEF LM, AllMarks, Chunks, Responses
    <3>2. MM' = MM /\ WM' = WM /\ ~Busy' /\ (playing' <=> playing)
      BY <2>1, <2>2, <3>1 DEF MM, WM, EM, Busy
    <3>. QED
      BY <1>2, <3>2 DEF First
  <2>3. ASSUME NEW k \in {c.kind, "pre"}, Marked(Mark(c.of, k)), k \in {"end", "pre"}, playing => playing'
        PROVE  /\ MM' = WM' /\ MM' = MM \union {Mark(c.of, k)}
               /\ \A m \in MM' : HasText(m) => PreOf(m) \in MM' \/ (playing' /\ First(m)')
    <3>0. PICK x : x = Mark(c.of, k)
      OBVIOUS
    <3>1. x \in AllMarks /\ x.of = c.of /\ x.kind = k /\ ~HasText(x)
      <4>1. c.of \in Chunks /\ k \in Kinds
        BY <2>1, AllMarksAre DEF Kinds
      <4>. QED
        BY <2>3, <3>0, <4>1, MarkIs DEF HasText
    <3>2. \A n \in WM \union MM : Foregoes(n, x)
      BY <1>2, <2>1, <3>1, AheadForegoes DEF Out
    <3>3. WM' = WM \union {x} /\ MM' = MM \union {x}
      BY <1>2, <2>1, <2>3, <3>0, <3>1, <3>2, MarkedDoes
    <3>4. ASSUME NEW m \in MM', HasText(m) PROVE PreOf(m) \in MM' \/ (playing' /\ First(m)')
      <4>1. m \in MM /\ (PreOf(m) \in MM \/ (playing /\ First(m)))
        BY <1>2, <3>1, <3>3, <3>4
      <4>2. First(m) => First(m)'
        BY <3>2, <3>3, <4>1 DEF First
      <4>. QED
        BY <2>3, <3>3, <4>1, <4>2
    <3>. QED
      BY <1>2, <3>0, <3>3, <3>4
  <2>4. playing => playing' \/ UNCHANGED <<loop, marks, line, echoes, playing>>
    BY <2>1, Zenon
  <2>5. CASE c.kind = "end" /\ Marked(Mark(c.of, c.kind)) /\ loop' = Idle /\ (playing => playing')
    <3>1. ~Busy'
      BY <2>5 DEF Busy, Idle
    <3>2. c.kind \in {c.kind, "pre"} /\ c.kind \in {"end", "pre"}
      BY <2>5
    <3>. QED
      BY <2>3, <2>5, <3>1, <3>2
  <2>6. CASE /\ Marked(Mark(c.of, "pre")) /\ (playing => playing')
             /\ loop' = [pc |-> "pre", of |-> c.of, kind |-> c.kind, frame |-> 0, gen |-> 0]
    <3>0. "pre" \in {c.kind, "pre"} /\ "pre" \in {"end", "pre"}
      OBVIOUS
    <3>1. PreOf(InHand') = Mark(c.of, "pre")
      BY <2>6 DEF PreOf, InHand, Mark
    <3>. QED
      BY <2>3, <2>6, <3>0, <3>1
  <2>. QED
    BY <2>1, <2>2, <2>4, <2>5, <2>6
<1>5. CASE SendMedia
  <2>1. Busy /\ InHand' = InHand /\ WM' = WM /\ MM' = MM /\ playing' = playing
    BY <1>5, SendMediaDoes
  <2>2. playing => playing'
    BY <2>1, Zenon
  <2>. QED
    BY <1>2, <2>1, <2>2 DEF First
<1>6. CASE SendPost
  <2>1. /\ Busy /\ ~Busy' /\ InHand \in AllMarks
        /\ WM' = WM \union {InHand} /\ MM' = MM \union {InHand} /\ playing' = playing
    BY <1>6, SendPostDoes
  <2>2. playing => playing'
    BY <2>1, Zenon
  <2>3. \A n \in WM : Foregoes(n, InHand)
    BY <1>2, <2>1 DEF Out
  <2>4. \A m \in MM : First(m) => First(m)'
    BY <1>2, <2>1, <2>3 DEF First
  <2>0. PICK x : x = InHand
    OBVIOUS
  <2>5. MM = {} => First(x)'
    BY <1>2, <2>0, <2>1 DEF First
  <2>. HIDE DEF InHand
  <2>6. ASSUME NEW m \in MM', HasText(m) PROVE PreOf(m) \in MM' \/ (playing' /\ First(m)')
    <3>1. CASE m \in MM
      BY <1>2, <2>1, <2>2, <2>4, <2>6, <3>1
    <3>2. CASE m = InHand
      <4>1. PreOf(InHand) \in MM \/ (playing /\ MM = {})
        BY <1>2, <2>1, <2>6, <3>2
      <4>. QED
        BY <2>0, <2>1, <2>2, <2>5, <3>2, <4>1
    <3>. QED
      BY <2>1, <3>1, <3>2
  <2>. QED
    BY <1>2, <2>1, <2>6
<1>7. CASE Play
  <2>1. WM' = WM
    BY <1>2, <1>7, PlayDoes
  <2>2. MM' = MM /\ InHand' = InHand /\ Busy' = Busy /\ playing' = playing
    BY <1>7 DEF Play, MM, InHand, Busy, heardVars
  <2>3. playing => playing'
    BY <2>2, Zenon
  <2>. QED
    BY <1>2, <2>1, <2>2, <2>3 DEF First
<1>8. CASE Echo
  <2>0. PICK h : h = Head(echoes)
    OBVIOUS
  <2>1. /\ h \in EM /\ h \in AllMarks /\ WM' = WM \ {h} /\ \A n \in WM' : Foregoes(h, n)
        /\ UNCHANGED loop
        /\ \/ /\ h \in MM /\ MM' = MM \ {h}
              /\ playing' = (IF EndsAnswer(h) THEN FALSE ELSE (playing \/ Begins(h)))
           \/ h \notin MM /\ UNCHANGED <<marks, heardVars, late>>
    BY <1>2, <1>8, <2>0, EchoDoes
  <2>2. h \in MM
    BY <1>2, <2>1 DEF WM
  <2>3. /\ MM' = MM \ {h} /\ MM' = WM'
        /\ playing' = (IF EndsAnswer(h) THEN FALSE ELSE (playing \/ Begins(h)))
    BY <1>2, <2>1, <2>2
  <2>4. InHand' = InHand /\ Busy' = Busy
    BY <2>1 DEF InHand, Busy
  <2>5. h.kind = "pre" => playing'
    <3>1. h.kind = "pre" => ~EndsAnswer(h) /\ Begins(h)
      BY DEF EndsAnswer, Begins
    <3>. QED
      BY <2>3, <3>1, Zenon
  <2>6. ASSUME NEW m \in MM', HasText(m) PROVE PreOf(m) \in MM' \/ (playing' /\ First(m)')
    <3>1. m \in MM /\ m # h /\ m.of \in Chunks /\ m.kind # "pre" /\ Foregoes(h, m) /\ m \in AllMarks
      BY <1>2, <2>1, <2>3, <2>6, AllMarksAre DEF HasText
    <3>2. ~First(m)
      <4>1. h.of \in Chunks
        BY <2>1, AllMarksAre
      <4>2. ~Foregoes(m, h)
        BY <3>1, <4>1, ForegoesOrders
      <4>. QED
        BY <1>2, <2>2, <3>1, <4>2 DEF First
    <3>3. PreOf(m) \in MM
      BY <1>2, <2>6, <3>1, <3>2
    <3>4. CASE PreOf(m) # h
      BY <2>3, <3>3, <3>4
    <3>5. CASE PreOf(m) = h
      <4>1. h.kind = "pre" /\ h.of = m.of
        BY <3>5 DEF PreOf, Mark
      <4>2. ASSUME NEW n \in WM', n # m PROVE Foregoes(m, n)
        <5>1. n \in MM /\ n.of \in Chunks /\ Foregoes(h, n)
          BY <1>2, <2>1, <2>3, <4>2, AllMarksAre
        <5>2. ~Foregoes(n, m)
          BY <3>1, <4>1, <5>1, NothingBetween
        <5>. QED
          BY <1>2, <3>1, <4>2, <5>1, <5>2, MarksCompare
      <4>3. First(m)'
        BY <4>2 DEF First
      <4>. QED
        BY <2>5, <4>1, <4>3
    <3>. QED
      BY <3>4, <3>5
  <2>7. ASSUME Busy, HasText(InHand) PROVE PreOf(InHand) \in MM' \/ (playing' /\ MM' = {})
    <3>1. PreOf(InHand) \in MM
      BY <1>2, <2>2, <2>7
    <3>2. CASE PreOf(InHand) # h
      BY <2>3, <3>1, <3>2
    <3>3. CASE PreOf(InHand) = h
      <4>1. h.kind = "pre" /\ h.of = InHand.of /\ InHand.kind # "pre" /\ InHand \in AllMarks
        BY <2>7, <3>3, SetsTyped DEF PreOf, Mark
      <4>2. ASSUME NEW n \in MM' PROVE FALSE
        <5>1. n.of \in Chunks /\ Foregoes(h, n) /\ Foregoes(n, InHand) /\ h.of \in Chunks
          BY <1>2, <2>1, <2>3, <2>7, <4>2, AllMarksAre DEF Out
        <5>. QED
          BY <4>1, <5>1, NothingBetween
      <4>. QED
        BY <2>5, <4>1, <4>2
    <3>. QED
      BY <3>2, <3>3
  <2>. QED
    BY <2>3, <2>4, <2>6, <2>7
<1>9. CASE Respond \/ Synthesize
  <2>1. UNCHANGED <<loop, marks, line, echoes, playing>>
    BY <1>9 DEF Respond, Synthesize, heardVars, wireVars
  <2>2. LM' = LM
    BY <2>1 DEF LM, AllMarks, Chunks, Responses
  <2>3. MM' = MM /\ WM' = WM /\ Busy' = Busy /\ InHand' = InHand /\ (playing => playing')
    BY <2>1, <2>2 DEF MM, WM, EM, Busy, InHand
  <2>. QED
    BY <1>2, <2>3 DEF First
<1>10. CASE Buffered \/ SendOn \/ Xoff \/ Xon \/ Drain \/ Settle
  BY <1>3, <1>10 DEF Buffered, SendOn, Xoff, Xon, Drain, Settle, NoTrunk
<1>11. CASE ClearData \/ Sync \/ Restart
  BY <1>2, <1>11 DEF ClearData, Sync, Restart
<1>. QED
  BY <1>1, <1>4, <1>5, <1>6, <1>7, <1>8, <1>9, <1>10, <1>11 DEF Next

LEMMA SpeakingHeard == TypeInv /\ Speaking => SpeaksWhileHeard
<1>. SUFFICES ASSUME TypeInv, Speaking, cuts = 0, ~Sip, NEW i \in DOMAIN marks, HasText(marks[i]),
                     ~Contains(marks, Mark(marks[i].of, "pre"))
              PROVE  playing
  BY DEF SpeaksWhileHeard
<1>1. marks[i] \in MM /\ PreOf(marks[i]) \notin MM
  <2>1. marks \in Seq(AllMarks)
    BY DEF TypeInv, Memory
  <2>. QED
    BY <2>1, RangeContains DEF MM, Range, PreOf
<1>. QED
  BY <1>1 DEF Speaking

-----------------------------------------------------------------------------
(* Off the trunk: when the agent counts as speaking, or is about to, the mark  *)
(* that ends this is still to come, or on the wire and registered.             *)
Ending == {m \in WM \intersect MM : EndsAnswer(m)}
ToEnd == Coming \/ (Busy /\ EndsAnswer(InHand))
Silence == ~Sip /\ ~late =>
  /\ playing => ToEnd \/ Ending # {}
  /\ cut = "no" => \A p \in WM \intersect MM : p.kind = "pre" => ToEnd \/ \E m \in Ending : Foregoes(p, m)
  /\ cut \in {"syncing", "flushing"} => \A m \in MM : m.kind # "pre"

LEMMA InitSilence == Init => Silence
  BY RangeEmpty DEF Init, Silence, MM, WM, EM, LM, Busy, Idle

LEMMA SilenceStep == TypeInv /\ OrderInv /\ Calm /\ More /\ Silence /\ Next => Silence'
<1>. SUFFICES ASSUME TypeInv, OrderInv, Calm, More, Silence, Next, ~Sip, ~late'
              PROVE  /\ playing' => ToEnd' \/ Ending' # {}
                     /\ cut' = "no" => \A p \in WM' \intersect MM' :
                          p.kind = "pre" => ToEnd' \/ \E m \in Ending' : Foregoes(p, m)
                     /\ cut' \in {"syncing", "flushing"} => \A m \in MM' : m.kind # "pre"
  BY HandlerStays DEF Silence, Foregoes, Ahead, Earlier, EndsAnswer
<1>0. /\ ~late /\ (Take \/ SendMedia => cut = "no")
      /\ Echo /\ Contains(marks, Head(echoes)) /\ Head(echoes).kind = "pre" => cut = "no"
  BY Lately
<1>2. /\ playing => ToEnd \/ Ending # {}
      /\ cut = "no" => \A p \in WM \intersect MM : p.kind = "pre" => ToEnd \/ \E m \in Ending : Foregoes(p, m)
      /\ cut \in {"syncing", "flushing"} => \A m \in MM : m.kind # "pre"
      /\ Queued /\ Wires /\ Registers /\ Out /\ Handed /\ (cut # "no" => ~playing)
      /\ MM \subseteq AllMarks /\ WM \subseteq AllMarks
  BY <1>0, SetsTyped DEF Silence, Calm, OrderInv
<1>3. trunk = NoTrunk /\ loop.pc \in {"idle", "pre", "media"}
  BY WireTypes
<1>4. CASE Take
  <2>0. PICK c : c = Head(queue)
    OBVIOUS
  <2>1. /\ c \in ChunkType /\ c \in AllMarks /\ c \in QM /\ ~Busy /\ c.kind # "pre" /\ UNCHANGED cleared /\ UNCHANGED cut
        /\ \/ c.of[1] \notin valid /\ c.kind # "end" /\ UNCHANGED <<loop, marks, line, playing, echoes>>
           \/ /\ c.of[1] \in valid \/ (c.of[1] \notin valid /\ c.kind = "end")
              /\ \/ c.kind = "end" /\ Marked(Mark(c.of, c.kind)) /\ loop' = Idle
                 \/ /\ Marked(Mark(c.of, "pre"))
                    /\ loop' = [pc |-> "pre", of |-> c.of, kind |-> c.kind, frame |-> 0, gen |-> 0]
    BY <1>2, <1>4, <2>0, TakeDoes, SetsTyped
  <2>2. /\ c.kind = "audio" /\ c.of[1] \in valid => Coming'
        /\ Coming => Coming' \/ (EndsAnswer(c) /\ (c.of[1] \in valid \/ c.kind = "end"))
    BY <1>2, <1>4, <2>0, ComingAfterTake
  <2>c. cut = "no" /\ cut' = "no"
    BY <1>0, <1>4, <2>1
  <2>3. CASE c.of[1] \notin valid /\ c.kind # "end" /\ UNCHANGED <<loop, marks, line, playing, echoes>>
    <3>1. LM' = LM
      BY <2>3 DEF LM, AllMarks, Chunks, Responses
    <3>2. MM' = MM /\ WM' = WM /\ (playing' => playing)
      BY <2>3, <3>1 DEF MM, WM, EM
    <3>3. Ending' = Ending
      BY <3>2 DEF Ending, EndsAnswer
    <3>4. ToEnd => ToEnd'
      BY <2>1, <2>2, <2>3 DEF ToEnd
    <3>. QED
      BY <1>2, <2>c, <3>2, <3>3, <3>4
  <2>4. CASE c.kind = "end" /\ Marked(Mark(c.of, c.kind)) /\ loop' = Idle
    <3>0. PICK x : x = Mark(c.of, c.kind)
      OBVIOUS
    <3>1. x = c
      BY <2>1, <3>0, AllMarksAre
    <3>2. \A n \in WM \union MM : Foregoes(n, c)
      BY <1>2, <2>1, AheadForegoes DEF Out
    <3>3. WM' = WM \union {c} /\ MM' = MM \union {c}
      BY <1>2, <2>1, <2>4, <3>0, <3>1, <3>2, MarkedDoes
    <3>4. c \in Ending'
      BY <2>4, <3>3 DEF Ending, EndsAnswer
    <3>. QED
      BY <2>c, <2>1, <3>2, <3>3, <3>4
  <2>5. CASE /\ Marked(Mark(c.of, "pre"))
             /\ loop' = [pc |-> "pre", of |-> c.of, kind |-> c.kind, frame |-> 0, gen |-> 0]
             /\ c.of[1] \in valid \/ (c.of[1] \notin valid /\ c.kind = "end")
    <3>1. Busy' /\ (EndsAnswer(c) => EndsAnswer(InHand'))
      BY <2>5 DEF Busy, EndsAnswer, InHand, Mark
    <3>2. c.kind = "audio" \/ EndsAnswer(c)
      BY <2>1 DEF ChunkType, EndsAnswer
    <3>3. ToEnd'
      BY <2>2, <2>5, <3>1, <3>2 DEF ToEnd, EndsAnswer
    <3>. QED
      BY <2>c, <3>3
  <2>. QED
    BY <2>1, <2>3, <2>4, <2>5
<1>5. CASE SendMedia
  <2>1. Busy' /\ Busy /\ InHand' = InHand /\ WM' = WM /\ MM' = MM /\ playing' = playing /\ cut' = cut
    BY <1>5, SendMediaDoes
  <2>2. playing' => playing
    BY <2>1, Zenon
  <2>3. Coming => Coming'
    BY <1>5, ComingStays DEF SendMedia, answerVars
  <2>4. (ToEnd => ToEnd') /\ Ending' = Ending
    BY <2>1, <2>3 DEF ToEnd, Ending, EndsAnswer
  <2>. QED
    BY <1>2, <2>1, <2>2, <2>4
<1>6. CASE SendPost
  <2>1. /\ Busy /\ ~Busy' /\ InHand \in AllMarks /\ InHand.kind # "pre"
        /\ WM' = WM \union {InHand} /\ MM' = MM \union {InHand} /\ playing' = playing /\ cut' = cut
    BY <1>6, SendPostDoes, SetsTyped
  <2>2. playing' => playing
    BY <2>1, Zenon
  <2>3. Coming => Coming'
    BY <1>6, ComingStays DEF SendPost, answerVars
  <2>4. \A n \in WM : Foregoes(n, InHand)
    BY <1>2, <2>1 DEF Out
  <2>0. PICK x : x = InHand
    OBVIOUS
  <2>5. Ending \subseteq Ending' /\ (EndsAnswer(x) => x \in Ending')
    BY <2>0, <2>1 DEF Ending, EndsAnswer
  <2>6. ToEnd => ToEnd' \/ (EndsAnswer(x) /\ x \in Ending')
    BY <2>0, <2>3, <2>5 DEF ToEnd
  <2>. QED
    BY <1>2, <2>0, <2>1, <2>2, <2>4, <2>5, <2>6
<1>7. CASE Play \/ Respond \/ Synthesize
  <2>1. WM' = WM
    <3>1. CASE Play
      BY <1>2, <3>1, PlayDoes
    <3>2. CASE Respond \/ Synthesize
      <4>1. UNCHANGED <<line, echoes>>
        BY <3>2 DEF Respond, Synthesize, wireVars
      <4>2. LM' = LM
        BY <4>1 DEF LM, AllMarks, Chunks, Responses
      <4>. QED
        BY <4>1, <4>2 DEF WM, EM
    <3>. QED
      BY <1>7, <3>1, <3>2
  <2>2. MM' = MM /\ InHand' = InHand /\ Busy' = Busy /\ playing' = playing /\ cut' = cut
    BY <1>7 DEF Play, Respond, Synthesize, MM, InHand, Busy, heardVars
  <2>3. playing' => playing
    BY <2>2, Zenon
  <2>4. Coming => Coming'
    BY <1>7, ComingStays DEF Play, answerVars
  <2>5. (ToEnd => ToEnd') /\ Ending' = Ending
    BY <2>1, <2>2, <2>4 DEF ToEnd, Ending, EndsAnswer
  <2>. QED
    BY <1>2, <2>1, <2>2, <2>3, <2>5
<1>8. CASE Echo
  <2>0. PICK h : h = Head(echoes)
    OBVIOUS
  <2>1. /\ h \in EM /\ h \in AllMarks /\ WM' = WM \ {h} /\ \A n \in WM' : Foregoes(h, n)
        /\ UNCHANGED <<loop, cut, queue, answerVars, valid>>
        /\ \/ /\ h \in MM /\ MM' = MM \ {h}
              /\ playing' = (IF EndsAnswer(h) THEN FALSE ELSE (playing \/ Begins(h)))
           \/ h \notin MM /\ UNCHANGED <<marks, heardVars, late>>
    BY <1>2, <1>8, <2>0, EchoDoes
  <2>2. ToEnd => ToEnd'
    BY <2>1 DEF ToEnd, Coming, QM, Busy, InHand, Newest, EndsAnswer, answerVars
  <2>3. CASE h \notin MM /\ UNCHANGED <<marks, heardVars, late>>
    <3>1. MM' = MM /\ (playing' => playing) /\ WM' \intersect MM' = WM \intersect MM
      BY <2>1, <2>3 DEF MM, heardVars
    <3>2. Ending' = Ending
      BY <3>1 DEF Ending, EndsAnswer
    <3>. QED
      BY <1>2, <2>1, <2>2, <3>1, <3>2
  <2>4. CASE /\ h \in MM /\ MM' = MM \ {h}
             /\ playing' = (IF EndsAnswer(h) THEN FALSE ELSE (playing \/ Begins(h)))
    <3>1. h \in WM \intersect MM /\ h.of \in Chunks
      BY <2>1, <2>4, AllMarksAre DEF WM
    <3>2. \A m \in Ending : m # h => m \in Ending'
      BY <2>1, <2>4 DEF Ending, EndsAnswer
    <3>3. playing' => ~EndsAnswer(h) /\ (playing \/ h.kind = "pre")
      BY <2>4, Zenon DEF Begins
    <3>4. ASSUME playing' PROVE ToEnd' \/ Ending' # {}
      <4>1. CASE playing
        <5>1. h \notin Ending
          BY <3>3, <3>4 DEF Ending
        <5>. QED
          BY <1>2, <2>2, <3>2, <4>1, <5>1
      <4>2. CASE h.kind = "pre"
        <5>1. cut = "no"
          <6>1. Contains(marks, h)
            BY <2>4, WireTypes, RangeContains DEF MM
          <6>. QED
            BY <1>0, <1>8, <2>0, <4>2, <6>1
        <5>2. ToEnd \/ \E m \in Ending : Foregoes(h, m)
          BY <1>2, <3>1, <4>2, <5>1
        <5>3. \A m \in Ending : m # h
          BY <3>3, <3>4 DEF Ending
        <5>. QED
          BY <2>2, <3>2, <5>2, <5>3
      <4>. QED
        BY <3>3, <3>4, <4>1, <4>2
    <3>5. ASSUME cut' = "no", NEW p \in WM' \intersect MM', p.kind = "pre"
          PROVE  ToEnd' \/ \E m \in Ending' : Foregoes(p, m)
      <4>1. p \in WM \intersect MM /\ Foregoes(h, p) /\ p.of \in Chunks
        BY <1>2, <2>1, <2>4, <3>5, AllMarksAre
      <4>2. ~Foregoes(p, h)
        BY <3>1, <4>1, ForegoesOrders
      <4>3. ToEnd \/ \E m \in Ending : Foregoes(p, m)
        BY <1>2, <2>1, <3>5, <4>1
      <4>. QED
        BY <2>2, <3>2, <4>2, <4>3
    <3>6. MM' \subseteq MM /\ cut' = cut
      BY <2>1, <2>4
    <3>. QED
      BY <1>2, <3>4, <3>5, <3>6
  <2>. QED
    BY <2>1, <2>3, <2>4
<1>9. CASE Interrupt \/ AskIfThere
  <2>1. ~playing'
    BY <1>9, Zenon DEF Interrupt, AskIfThere
  <2>2. cut' \in {"clearing", "asking"}
    BY <1>9 DEF Interrupt, AskIfThere
  <2>. QED
    BY <2>1, <2>2
<1>10. CASE ClearData
  <2>1. cut # "no" /\ marks' = <<>>
    BY <1>10 DEF ClearData
  <2>2. playing' = playing
    BY <1>10, Zenon DEF ClearData
  <2>3. ~playing'
    BY <1>2, <2>1, <2>2, Zenon
  <2>4. MM' = {}
    BY <2>1, RangeEmpty DEF MM
  <2>. QED
    BY <2>3, <2>4
<1>11. CASE Sync
  <2>1. cut = "syncing" /\ cut' = "flushing" /\ playing' = playing /\ marks' = marks
    BY <1>11 DEF Sync
  <2>2. ~playing' /\ MM' = MM
    BY <1>2, <2>1 DEF MM
  <2>. QED
    BY <1>2, <2>1, <2>2
<1>12. CASE Restart
  <2>1. cut = "flushing" /\ cut' = "no" /\ playing' = playing /\ marks' = marks
    BY <1>12 DEF Restart, heardVars
  <2>2. ~playing' /\ MM' = MM
    BY <1>2, <2>1 DEF MM
  <2>. QED
    BY <1>2, <2>1, <2>2
<1>13. CASE Buffered \/ SendOn \/ Xoff \/ Xon \/ Drain \/ Settle
  BY <1>3, <1>13 DEF Buffered, SendOn, Xoff, Xon, Drain, Settle, NoTrunk
<1>. QED
  BY <1>4, <1>5, <1>6, <1>7, <1>8, <1>9, <1>10, <1>11, <1>12, <1>13 DEF Next

-----------------------------------------------------------------------------
(* On the trunk: when the agent counts as speaking, an end is to come, or is   *)
(* scheduled, or will be when what waits for Asterisk has been sent. What the  *)
(* loop has then is of the present generation.                                 *)
Due(t) == (t.settle /\ ~t.stale) \/ (t.finish /\ (t.local # <<>> \/ t.drains # {}))
TrunkSilence == Sip /\ ~late =>
  /\ playing => ToEnd \/ Due(trunk)
  /\ playing /\ Busy => loop.gen = trunk.gen

LEMMA InitTrunkSilence == Init => TrunkSilence
  BY DEF Init, TrunkSilence

LEMMA FinishesDue ==
  ASSUME NEW t \in TrunkType, NEW gen, t.local # <<>> \/ gen = t.gen
  PROVE  Due(Finishes(t, t.local, gen))
<1>1. CASE t.local # <<>>
  <2>1. Finishes(t, t.local, gen) = [t EXCEPT !.finish = TRUE]
    BY <1>1 DEF Finishes
  <2>2. [t EXCEPT !.finish = TRUE].finish = TRUE /\ [t EXCEPT !.finish = TRUE].local = t.local
    BY DEF TrunkType
  <2>. QED
    BY <1>1, <2>1, <2>2, Zenon DEF Due
<1>2. CASE t.local = <<>>
  <2>1. Finishes(t, t.local, gen) = [t EXCEPT !.finish = FALSE, !.settle = TRUE, !.stale = (gen # t.gen)]
    BY <1>2 DEF Finishes
  <2>2. Finishes(t, t.local, gen).settle = TRUE /\ ~Finishes(t, t.local, gen).stale
    BY <1>2, <2>1 DEF TrunkType
  <2>. QED
    BY <2>2, Zenon DEF Due
<1>. QED
  BY <1>1, <1>2

(* What is due stays so when audio is added. *)
LEMMA AfterDue ==
  ASSUME NEW t \in TrunkType, NEW c \in ChunkType, NEW gen, t.local # <<>> \/ gen = t.gen
  PROVE  EndsAnswer(c) \/ Due(t) => Due(After(c, t, gen))
<1>1. CASE c.kind = "audio"
  BY <1>1 DEF After, EndsAnswer
<1>2. CASE c.kind # "audio"
  BY <1>2, FinishesDue DEF After
<1>. QED
  BY <1>1, <1>2

LEMMA DueAlike ==
  ASSUME NEW t \in TrunkType, NEW u \in TrunkType, Due(t), t.settle = u.settle, t.stale = u.stale,
         t.finish = u.finish,
         t.local # <<>> \/ t.drains # {} => u.local # <<>> \/ u.drains # {}
  PROVE  Due(u)
  BY Zenon DEF Due

(* The sending of audio: the chunk is kept with its end due, is in hand, or    *)
(* was flushed.                                                                *)
LEMMA SendAudioDue ==
  ASSUME NEW c \in ChunkType, NEW gen \in Nat, NEW t \in TrunkType, SendAudio(c, gen, t)
  PROVE  \/ gen # t.gen /\ loop' = Idle
         \/ /\ gen = t.gen /\ trunk'.gen = t.gen
            /\ EndsAnswer(c) /\ loop' = Idle => Due(trunk')
            /\ Due(t) => Due(trunk')
            /\ loop' = Idle \/ loop' = [pc |-> "sending", of |-> c.of, kind |-> c.kind, frame |-> 1, gen |-> gen]
<1>1. CASE gen # t.gen
  BY <1>1 DEF SendAudio
<1>2. CASE gen = t.gen /\ MustQueue(t)
  <2>. DEFINE u == [t EXCEPT !.local = Append(@, Rest(c.of, 1, gen))]
  <2>1. Rest(c.of, 1, gen) \in LocalType
    BY BoundsAssumption DEF ChunkType, Rest, LocalType
  <2>2. Append(t.local, Rest(c.of, 1, gen)) \in Seq(LocalType) /\ Append(t.local, Rest(c.of, 1, gen)) # <<>>
    BY <2>1 DEF TrunkType
  <2>3. /\ u \in TrunkType /\ u.gen = t.gen /\ u.local # <<>> /\ u.settle = t.settle /\ u.stale = t.stale
        /\ u.finish = t.finish
    BY <2>2 DEF TrunkType
  <2>4. trunk' = After(c, u, gen) /\ loop' = Idle
    BY <1>2 DEF SendAudio
  <2>. HIDE DEF u
  <2>5. Due(t) => Due(u)
    BY <2>3, DueAlike
  <2>6. trunk'.gen = t.gen
    BY <1>2, SendAudioDoes
  <2>. QED
    BY <1>2, <2>3, <2>4, <2>5, <2>6, AfterDue
<1>3. CASE gen = t.gen /\ ~MustQueue(t)
  <2>1. loop' # Idle /\ trunk' = t
        /\ loop' = [pc |-> "sending", of |-> c.of, kind |-> c.kind, frame |-> 1, gen |-> gen]
    BY <1>3 DEF SendAudio, Idle
  <2>. QED
    BY <1>3, <2>1
<1>. QED
  BY <1>1, <1>2, <1>3

LEMMA TrunkHandleDue ==
  ASSUME TypeInv, Sip, NEW c \in ChunkType, TrunkHandle(c)
  PROVE  /\ c.kind # "audio" => Due(trunk') \/ (Busy' /\ EndsAnswer(InHand'))
         /\ Busy' => loop'.gen = trunk'.gen
<1>0. trunk \in TrunkType
  BY DEF TypeInv, FlushInv, SipWire, GoodTrunk
<1>i. Idle.pc = "idle"
  BY DEF Idle
<1>1. CASE c.kind = "end"
  <2>1. trunk' = After(c, trunk, trunk.gen) /\ loop' = Idle
    BY <1>1 DEF TrunkHandle
  <2>2. EndsAnswer(c)
    BY <1>1 DEF EndsAnswer
  <2>3. Due(trunk')
    BY <1>0, <2>1, <2>2, AfterDue
  <2>. QED
    BY <1>i, <2>1, <2>3 DEF Busy
<1>2. CASE c.kind # "end"
  <2>. DEFINE t == NewSequence(trunk, c)
  <2>1. Alike(trunk, t)
    BY <1>0, NewSequenceAlike DEF ChunkType
  <2>2. t \in TrunkType /\ t.gen = trunk.gen /\ t.gen \in Nat
    BY <2>1 DEF Alike, TrunkType
  <2>e. ASSUME NEW pc, NEW f, NEW g, loop' = [pc |-> pc, of |-> c.of, kind |-> c.kind, frame |-> f, gen |-> g]
        PROVE  (c.kind # "audio" => EndsAnswer(InHand')) /\ loop'.gen = g /\ loop'.pc = pc
    BY <2>e DEF InHand, Mark, EndsAnswer, ChunkType
  <2>. HIDE DEF t
  <2>3. CASE ~t.buffering
    <3>1. /\ loop' = [pc |-> "buffering", of |-> c.of, kind |-> c.kind, frame |-> 0, gen |-> t.gen]
          /\ trunk' = t
      BY <1>2, <2>2, <2>3 DEF TrunkHandle, t
    <3>. QED
      BY <2>e, <3>1 DEF Busy
  <2>4. CASE t.buffering
    <3>1. SendAudio(c, t.gen, t)
      BY <1>2, <2>4 DEF TrunkHandle, t
    <3>2. /\ trunk'.gen = t.gen
          /\ EndsAnswer(c) /\ loop' = Idle => Due(trunk')
          /\ loop' = Idle \/ loop' = [pc |-> "sending", of |-> c.of, kind |-> c.kind, frame |-> 1, gen |-> t.gen]
      BY <2>2, <3>1, SendAudioDue
    <3>3. c.kind # "audio" => EndsAnswer(c)
      BY <1>2 DEF EndsAnswer, ChunkType
    <3>4. CASE loop' = Idle
      BY <1>i, <3>2, <3>3, <3>4 DEF Busy
    <3>5. CASE loop' = [pc |-> "sending", of |-> c.of, kind |-> c.kind, frame |-> 1, gen |-> t.gen]
      BY <2>e, <3>2, <3>5 DEF Busy
    <3>. QED
      BY <3>2, <3>4, <3>5
  <2>. QED
    BY <2>3, <2>4
<1>. QED
  BY <1>1, <1>2

(* The loop goes on with a chunk, or is done with it: its end is due then. *)
LEMMA BufferedDue ==
  ASSUME TypeInv, Sip, Buffered
  PROVE  \/ loop.gen # trunk.gen
         \/ /\ loop.gen = trunk.gen /\ (Due(trunk) => Due(trunk'))
            /\ \/ loop' = Idle /\ (EndsAnswer(InHand) => Due(trunk'))
               \/ Busy' /\ InHand' = InHand /\ loop'.gen = trunk'.gen
<1>. DEFINE c == [of |-> loop.of, kind |-> loop.kind]
            t == [trunk EXCEPT !.buffering = TRUE]
<1>1. loop \in AnyLoop /\ loop.of \in Chunks /\ trunk \in TrunkType
  BY DEF Buffered, TypeInv, Looping, Busy, FlushInv, SipWire, GoodTrunk
<1>2. c \in ChunkType /\ loop.gen \in Nat /\ (EndsAnswer(InHand) => EndsAnswer(c))
  BY <1>1 DEF AnyLoop, ChunkType, InHand, Mark, EndsAnswer
<1>3. /\ t \in TrunkType /\ t.gen = trunk.gen /\ t.drains = trunk.drains /\ t.local = trunk.local
      /\ t.settle = trunk.settle /\ t.stale = trunk.stale /\ t.finish = trunk.finish
  BY <1>1 DEF TrunkType
<1>. HIDE DEF t
<1>4. Due(trunk) => Due(t)
  BY <1>1, <1>3, DueAlike
<1>5. SendAudio(c, loop.gen, t)
  BY DEF Buffered, t
<1>6. \/ loop.gen # t.gen
      \/ /\ loop.gen = t.gen /\ trunk'.gen = t.gen
         /\ EndsAnswer(c) /\ loop' = Idle => Due(trunk')
         /\ Due(t) => Due(trunk')
         /\ loop' = Idle \/ loop' = [pc |-> "sending", of |-> c.of, kind |-> c.kind, frame |-> 1, gen |-> loop.gen]
  BY <1>2, <1>3, <1>5, SendAudioDue
<1>7. loop' = [pc |-> "sending", of |-> c.of, kind |-> c.kind, frame |-> 1, gen |-> loop.gen]
        => Busy' /\ InHand' = InHand /\ loop'.gen = loop.gen
  BY DEF Busy, InHand
<1>. QED
  BY <1>2, <1>3, <1>4, <1>6, <1>7

LEMMA SendOnDue ==
  ASSUME TypeInv, Sip, SendOn
  PROVE  \/ loop.gen # trunk.gen
         \/ /\ loop.gen = trunk.gen /\ (Due(trunk) => Due(trunk'))
            /\ \/ loop' = Idle /\ (EndsAnswer(InHand) => Due(trunk'))
               \/ Busy' /\ InHand' = InHand /\ loop'.gen = trunk'.gen
<1>. SUFFICES ASSUME loop.gen = trunk.gen
              PROVE  /\ Due(trunk) => Due(trunk')
                     /\ \/ loop' = Idle /\ (EndsAnswer(InHand) => Due(trunk'))
                        \/ Busy' /\ InHand' = InHand /\ loop'.gen = trunk'.gen
  OBVIOUS
<1>. DEFINE c == [of |-> loop.of, kind |-> loop.kind]
            r == Rest(loop.of, loop.frame + 1, loop.gen)
            kept == [trunk EXCEPT !.local = <<r>> \o @]
<1>1. /\ loop \in AnyLoop /\ loop.of \in Chunks /\ trunk \in TrunkType /\ loop.frame \in 0..Frames
      /\ loop.frame # Frames => loop.frame + 1 \in 1..Frames
  BY BoundsAssumption DEF SendOn, TypeInv, Looping, Busy, AnyLoop, FlushInv, SipWire, GoodTrunk
<1>2. c \in ChunkType /\ (EndsAnswer(InHand) => EndsAnswer(c))
  BY <1>1 DEF AnyLoop, ChunkType, InHand, Mark, EndsAnswer
<1>3. CASE loop' = Idle /\ trunk' = After(c, trunk, loop.gen)
  BY <1>1, <1>2, <1>3, AfterDue
<1>4. CASE ~Ends(loop.frame) /\ loop' = Idle /\ trunk' = After(c, kept, loop.gen)
  <2>1. r \in LocalType
    BY <1>1, <1>4 DEF AnyLoop, Rest, LocalType, Ends
  <2>2. <<r>> \o trunk.local \in Seq(LocalType) /\ <<r>> \o trunk.local # <<>>
    BY <1>1, <2>1 DEF TrunkType
  <2>3. /\ kept \in TrunkType /\ kept.local # <<>> /\ kept.settle = trunk.settle
        /\ kept.stale = trunk.stale /\ kept.finish = trunk.finish
    BY <1>1, <2>2 DEF TrunkType
  <2>. HIDE DEF kept
  <2>4. Due(trunk) => Due(kept)
    BY <1>1, <2>3, DueAlike
  <2>. QED
    BY <1>2, <1>4, <2>3, <2>4, AfterDue
<1>5. CASE loop.pc = "sending" /\ loop' = [loop EXCEPT !.frame = @ + 1] /\ UNCHANGED trunk
  BY <1>1, <1>5 DEF Busy, InHand, AnyLoop
<1>. QED
  BY <1>3, <1>4, <1>5 DEF SendOn

(* A drain goes on: what is due stays so, unless it was flushed. *)
LEMMA NextChunkDue ==
  ASSUME NEW t \in TrunkType, NEW others \in SUBSET DrainType, NEW gen \in Nat, NextChunk(t, others, gen), ~late',
         Due(t)
  PROVE  Due(trunk')
<1>. DEFINE u == [t EXCEPT !.drains = others]
<1>1. CASE (t.local = <<>> \/ t.full) /\ trunk' = Drained(u)
  <2>1. /\ u \in TrunkType /\ u.local = t.local /\ u.settle = t.settle /\ u.stale = t.stale
        /\ u.finish = t.finish /\ u.finish \in BOOLEAN
    BY DEF TrunkType
  <2>. HIDE DEF u
  <2>2. CASE u.local = <<>> /\ u.finish
    <3>1. trunk' = Finishes(u, u.local, u.gen)
      BY <1>1, <2>2 DEF Drained
    <3>. QED
      BY <2>1, <3>1, FinishesDue
  <2>3. CASE ~(u.local = <<>> /\ u.finish)
    <3>1. trunk' = u
      BY <1>1, <2>3 DEF Drained
    <3>2. Due(u)
      BY <2>1, <2>3, Zenon DEF Due
    <3>. QED
      BY <3>1, <3>2
  <2>. QED
    BY <2>2, <2>3
<1>2. CASE GiveUp(t, others)
  <2>1. late' = (late \/ t.local # <<>> \/ t.finish)
    BY <1>2, Zenon DEF GiveUp
  <2>2. t.local = <<>> /\ ~t.finish
    BY <2>1, Zenon
  <2>3. trunk' = [t EXCEPT !.drains = others, !.local = <<>>, !.finish = FALSE]
    BY <1>2 DEF GiveUp
  <2>4. trunk'.settle = t.settle /\ trunk'.stale = t.stale
    BY <2>3 DEF TrunkType
  <2>. QED
    BY <2>2, <2>4, Zenon DEF Due
<1>3. CASE SendRest([t EXCEPT !.local = Tail(@)], others, Head(t.local), gen)
  <2>. DEFINE d == [rest |-> Head(t.local), gen |-> gen]
  <2>1. trunk' = [[t EXCEPT !.local = Tail(@)] EXCEPT !.drains = others \union {d}]
    BY <1>3 DEF SendRest
  <2>2. /\ trunk'.settle = t.settle /\ trunk'.stale = t.stale /\ trunk'.finish = t.finish
        /\ trunk'.drains = others \union {d}
    BY <2>1 DEF TrunkType
  <2>3. trunk'.drains # {}
    BY <2>2
  <2>. QED
    BY <2>2, <2>3, Zenon DEF Due
<1>. QED
  BY <1>1, <1>2, <1>3 DEF NextChunk

LEMMA XonDue ==
  ASSUME TypeInv, Sip, Xon, ~late', Due(trunk)
  PROVE  Due(trunk')
<1>1. trunk \in TrunkType /\ trunk.gen \in Nat
  BY DEF TypeInv, FlushInv, SipWire, GoodTrunk, TrunkType
<1>2. PICK t : t = [trunk EXCEPT !.full = FALSE]
  OBVIOUS
<1>3. NextChunk(t, trunk.drains, trunk.gen)
  BY <1>2, Zenon DEF Xon
<1>4. /\ t \in TrunkType /\ t.local = trunk.local /\ t.drains = trunk.drains
      /\ t.settle = trunk.settle /\ t.stale = trunk.stale /\ t.finish = trunk.finish
      /\ trunk.drains \in SUBSET DrainType
  BY <1>1, <1>2 DEF TrunkType
<1>5. Due(t)
  BY <1>1, <1>4, DueAlike
<1>. QED
  BY <1>1, <1>3, <1>4, <1>5, NextChunkDue

LEMMA DrainDue ==
  ASSUME TypeInv, Sip, Drain, ~late', Due(trunk)
  PROVE  Due(trunk')
<1>1. trunk \in TrunkType
  BY DEF TypeInv, FlushInv, SipWire, GoodTrunk, TrunkType
<1>2. PICK d \in trunk.drains :
        LET others == trunk.drains \ {d} IN
        \/ NextChunk(trunk, others, d.gen)
        \/ GiveUp(trunk, others)
        \/ trunk' = [trunk EXCEPT !.drains = others, !.local = <<Following(d.rest)>> \o @]
        \/ SendRest(trunk, others, Following(d.rest), d.gen)
  BY DEF Drain
<1>3. PICK others : others = trunk.drains \ {d}
  OBVIOUS
<1>4. others \in SUBSET DrainType /\ d.gen \in Nat /\ d.rest \in LocalType
  BY <1>1, <1>3 DEF TrunkType, DrainType
<1>5. CASE NextChunk(trunk, others, d.gen)
  BY <1>1, <1>4, <1>5, NextChunkDue
<1>6. CASE GiveUp(trunk, others)
  <2>1. late' = (late \/ trunk.local # <<>> \/ trunk.finish)
    BY <1>6, Zenon DEF GiveUp
  <2>2. trunk.local = <<>> /\ ~trunk.finish
    BY <2>1, Zenon
  <2>3. trunk' = [trunk EXCEPT !.drains = others, !.local = <<>>, !.finish = FALSE]
    BY <1>6 DEF GiveUp
  <2>4. trunk'.settle = trunk.settle /\ trunk'.stale = trunk.stale
    BY <1>1, <2>3 DEF TrunkType
  <2>. QED
    BY <2>2, <2>4, Zenon DEF Due
<1>7. CASE trunk' = [trunk EXCEPT !.drains = others, !.local = <<Following(d.rest)>> \o @]
  <2>1. <<Following(d.rest)>> \o trunk.local # <<>>
    BY <1>1 DEF TrunkType
  <2>2. /\ trunk'.settle = trunk.settle /\ trunk'.stale = trunk.stale /\ trunk'.finish = trunk.finish
        /\ trunk'.local # <<>>
    BY <1>1, <1>7, <2>1 DEF TrunkType
  <2>. QED
    BY <2>2, Zenon DEF Due
<1>8. CASE SendRest(trunk, others, Following(d.rest), d.gen)
  <2>1. trunk' = [trunk EXCEPT !.drains = others \union {[rest |-> Following(d.rest), gen |-> d.gen]}]
    BY <1>8 DEF SendRest
  <2>2. /\ trunk'.settle = trunk.settle /\ trunk'.stale = trunk.stale /\ trunk'.finish = trunk.finish
        /\ trunk'.drains # {}
    BY <1>1, <2>1 DEF TrunkType
  <2>. QED
    BY <2>2, Zenon DEF Due
<1>. QED
  BY <1>2, <1>3, <1>5, <1>6, <1>7, <1>8

LEMMA DrainsDate ==
  ASSUME TypeInv, Sip, Xon \/ Drain
  PROVE  trunk'.gen = trunk.gen
<1>1. trunk \in TrunkType /\ trunk.gen \in Nat
  BY DEF TypeInv, FlushInv, SipWire, GoodTrunk, TrunkType
<1>2. CASE Xon
  <2>1. PICK t : t = [trunk EXCEPT !.full = FALSE]
    OBVIOUS
  <2>2. NextChunk(t, trunk.drains, trunk.gen)
    BY <1>2, <2>1, Zenon DEF Xon
  <2>3. t \in TrunkType /\ t.gen = trunk.gen
    BY <1>1, <2>1 DEF TrunkType
  <2>. QED
    BY <1>1, <2>2, <2>3, NextChunkDates
<1>3. CASE Drain
  <2>1. PICK d \in trunk.drains :
          LET others == trunk.drains \ {d} IN
          \/ NextChunk(trunk, others, d.gen)
          \/ GiveUp(trunk, others)
          \/ trunk' = [trunk EXCEPT !.drains = others, !.local = <<Following(d.rest)>> \o @]
          \/ SendRest(trunk, others, Following(d.rest), d.gen)
    BY <1>3 DEF Drain
  <2>2. PICK others : others = trunk.drains \ {d}
    OBVIOUS
  <2>3. d.gen \in Nat
    BY <1>1 DEF TrunkType, DrainType
  <2>4. CASE NextChunk(trunk, others, d.gen)
    BY <1>1, <2>3, <2>4, NextChunkDates
  <2>5. CASE GiveUp(trunk, others)
    BY <1>1, <2>5 DEF GiveUp, TrunkType
  <2>6. CASE trunk' = [trunk EXCEPT !.drains = others, !.local = <<Following(d.rest)>> \o @]
    BY <1>1, <2>6 DEF TrunkType
  <2>7. CASE SendRest(trunk, others, Following(d.rest), d.gen)
    BY <1>1, <2>7 DEF SendRest, TrunkType
  <2>. QED
    BY <2>1, <2>2, <2>4, <2>5, <2>6, <2>7
<1>. QED
  BY <1>2, <1>3

LEMMA TrunkSilenceStep == TypeInv /\ OrderInv /\ Calm /\ More /\ TrunkSilence /\ Next => TrunkSilence'
<1>. SUFFICES ASSUME TypeInv, OrderInv, Calm, More, TrunkSilence, Next, Sip, ~late', playing'
              PROVE  /\ ToEnd' \/ Due(trunk')
                     /\ Busy' => loop'.gen = trunk'.gen
  BY HandlerStays DEF TrunkSilence, Due
<1>0. ~late /\ Queued /\ (cut # "no" => ~playing)
  BY Lately DEF Calm, OrderInv
<1>2. playing => (ToEnd \/ Due(trunk)) /\ (Busy => loop.gen = trunk.gen)
  BY <1>0 DEF TrunkSilence
<1>3. /\ trunk \in TrunkType /\ loop.pc \in {"idle", "buffering", "sending"} /\ echoes = <<>>
      /\ loop \in AnyLoop
  BY DEF TypeInv, FlushInv, SipWire, GoodTrunk, TrunkLoop, Wired, Looping
<1>4. CASE Take
  <2>0. PICK c : c = Head(queue)
    OBVIOUS
  <2>1. c \in ChunkType /\ ~Busy /\ c.kind # "pre"
    BY <1>4, <2>0, TakeTakes DEF Busy, ChunkType
  <2>2. /\ c.kind = "audio" /\ c.of[1] \in valid => Coming'
        /\ Coming => Coming' \/ (EndsAnswer(c) /\ (c.of[1] \in valid \/ c.kind = "end"))
    BY <1>0, <1>4, <2>0, ComingAfterTake
  <2>3. CASE c.of[1] \in valid
    <3>1. TrunkHandle(c)
      BY <1>4, <2>0, <2>3 DEF Take, Sends
    <3>2. /\ c.kind # "audio" => Due(trunk') \/ (Busy' /\ EndsAnswer(InHand'))
          /\ Busy' => loop'.gen = trunk'.gen
      BY <2>1, <3>1, TrunkHandleDue
    <3>. QED
      BY <2>2, <2>3, <3>2 DEF ToEnd, EndsAnswer
  <2>4. CASE c.of[1] \notin valid /\ c.kind = "end"
    <3>1. TrunkHandle(c)
      BY <1>4, <2>0, <2>4 DEF Take, Sends
    <3>2. /\ c.kind # "audio" => Due(trunk') \/ (Busy' /\ EndsAnswer(InHand'))
          /\ Busy' => loop'.gen = trunk'.gen
      BY <2>1, <3>1, TrunkHandleDue
    <3>. QED
      BY <2>4, <3>2 DEF ToEnd, EndsAnswer
  <2>5. CASE c.of[1] \notin valid /\ c.kind # "end"
    <3>1. UNCHANGED <<loop, trunk>>
      BY <1>4, <2>0, <2>5 DEF Take
    <3>2. playing' = playing
      BY <1>4, <2>0, <2>5, Zenon DEF Take
    <3>3. (ToEnd \/ Due(trunk)) /\ ~Busy'
      BY <1>2, <2>1, <3>1, <3>2 DEF Busy
    <3>4. ToEnd => Coming'
      BY <2>1, <2>2, <2>5 DEF ToEnd
    <3>. QED
      BY <3>1, <3>3, <3>4 DEF ToEnd, Due
  <2>. QED
    BY <2>3, <2>4, <2>5
<1>5. CASE Buffered \/ SendOn
  <2>1. playing' = playing /\ Busy /\ UNCHANGED <<queue, turns, done, valid>>
    BY <1>5 DEF Buffered, SendOn, heardVars, answerVars, Busy
  <2>2. (ToEnd \/ Due(trunk)) /\ loop.gen = trunk.gen
    BY <1>2, <2>1
  <2>3. /\ Due(trunk) => Due(trunk')
        /\ \/ loop' = Idle /\ (EndsAnswer(InHand) => Due(trunk'))
           \/ Busy' /\ InHand' = InHand /\ loop'.gen = trunk'.gen
    BY <1>5, <2>2, BufferedDue, SendOnDue
  <2>4. Coming => Coming'
    BY <2>1, ComingStays
  <2>5. loop' = Idle => ~Busy'
    BY DEF Busy, Idle
  <2>6. InHand' = InHand => (EndsAnswer(InHand) => EndsAnswer(InHand'))
    OBVIOUS
  <2>. QED
    BY <2>1, <2>2, <2>3, <2>4, <2>5, <2>6 DEF ToEnd, EndsAnswer
<1>6. CASE Xoff \/ Xon \/ Drain
  <2>1. playing' = playing /\ UNCHANGED <<queue, turns, done, valid, loop>>
    BY <1>6 DEF Xoff, Xon, Drain, TrunkOnly, heardVars, answerVars
  <2>2. trunk'.gen = trunk.gen
    <3>1. CASE Xoff
      BY <1>3, <3>1 DEF Xoff, TrunkType
    <3>. QED
      BY <1>6, <3>1, DrainsDate
  <2>3. Due(trunk) => Due(trunk')
    <3>1. CASE Xoff
      <4>1. /\ trunk'.settle = trunk.settle /\ trunk'.stale = trunk.stale /\ trunk'.finish = trunk.finish
            /\ trunk'.local = trunk.local /\ trunk'.drains = trunk.drains
        BY <1>3, <3>1 DEF Xoff, TrunkType
      <4>. QED
        BY <4>1, Zenon DEF Due
    <3>. QED
      BY <1>6, <3>1, XonDue, DrainDue
  <2>4. Coming => Coming'
    BY <2>1, ComingStays
  <2>5. (ToEnd => ToEnd') /\ (Busy' => Busy /\ loop'.gen = loop.gen)
    BY <2>1, <2>4 DEF ToEnd, Busy, InHand, EndsAnswer
  <2>6. playing
    BY <2>1, Zenon
  <2>. QED
    BY <1>2, <2>2, <2>3, <2>5, <2>6
<1>7. CASE Play \/ Respond \/ Synthesize
  <2>1. playing' = playing /\ UNCHANGED <<loop, trunk>>
    BY <1>7 DEF Play, Respond, Synthesize, heardVars
  <2>2. Coming => Coming'
    BY <1>7, ComingStays DEF Play, answerVars
  <2>3. (ToEnd => ToEnd') /\ (Busy' => Busy /\ loop'.gen = loop.gen) /\ trunk' = trunk
    BY <2>1, <2>2 DEF ToEnd, Busy, InHand, EndsAnswer
  <2>4. playing
    BY <2>1, Zenon
  <2>5. Due(trunk) => Due(trunk')
    BY <2>3 DEF Due
  <2>. QED
    BY <1>2, <2>3, <2>4, <2>5
<1>8. CASE Settle
  <2>1. trunk' = [trunk EXCEPT !.settle = FALSE, !.stale = FALSE] /\ UNCHANGED <<queue, turns, done, valid, loop>>
    BY <1>8 DEF Settle, answerVars
  <2>2. trunk.stale /\ playing' = playing
    <3>1. \/ trunk.stale /\ playing' = playing
          \/ playing' = FALSE
      BY <1>8, Zenon DEF Settle, heardVars
    <3>. QED
      BY <3>1, Zenon
  <2>3. playing
    BY <2>2, Zenon
  <2>4. /\ trunk'.finish = trunk.finish /\ trunk'.local = trunk.local /\ trunk'.drains = trunk.drains
        /\ trunk'.gen = trunk.gen
    BY <1>3, <2>1 DEF TrunkType
  <2>5. Due(trunk) => Due(trunk')
    BY <2>2, <2>4, Zenon DEF Due
  <2>6. Coming => Coming'
    BY <2>1, ComingStays
  <2>7. (ToEnd => ToEnd') /\ (Busy' => Busy /\ loop'.gen = loop.gen)
    BY <2>1, <2>6 DEF ToEnd, Busy, InHand, EndsAnswer
  <2>. QED
    BY <1>2, <2>3, <2>4, <2>5, <2>7
<1>9. CASE Interrupt \/ AskIfThere
  <2>1. ~playing'
    BY <1>9, Zenon DEF Interrupt, AskIfThere
  <2>. QED
    BY <2>1
<1>10. CASE ClearData \/ Sync \/ Restart
  <2>1. cut # "no"
    BY <1>10 DEF ClearData, Sync, Restart
  <2>2. playing' = playing \/ playing' = FALSE
    BY <1>10, Zenon DEF ClearData, Sync, Restart, heardVars
  <2>3. ~playing'
    BY <1>0, <2>1, <2>2, Zenon
  <2>. QED
    BY <2>3
<1>11. CASE SendMedia \/ SendPost \/ Echo
  BY <1>3, <1>11 DEF SendMedia, SendPost, Echo
<1>. QED
  BY <1>4, <1>5, <1>6, <1>7, <1>8, <1>9, <1>10, <1>11 DEF Next

-----------------------------------------------------------------------------
LEMMA QuietIsSilent == TypeInv /\ Silence /\ TrunkSilence => SilenceKnown
<1>. SUFFICES ASSUME TypeInv, Silence, TrunkSilence, Quiet, ~late, playing
              PROVE  FALSE
  BY DEF SilenceKnown
<1>1. QM = {} /\ ~Busy /\ EM = {} /\ LM = {}
  BY RangeEmpty DEF Quiet, QM, Busy, EM, LM
<1>2. ~ToEnd
  BY <1>1 DEF Quiet, ToEnd, Coming
<1>3. CASE Sip
  BY <1>2, <1>3, Zenon DEF TrunkSilence, Due, Quiet
<1>4. CASE ~Sip
  <2>1. Ending = {}
    BY <1>1 DEF Ending, WM
  <2>. QED
    BY <1>2, <1>4, <2>1 DEF Silence
<1>. QED
  BY <1>3, <1>4

SoundInv == TypeInv /\ OrderInv /\ Calm /\ More /\ Speaking /\ Silence /\ TrunkSilence

LEMMA InitSound == Init => SoundInv
<1>. SUFFICES ASSUME Init
              PROVE  SoundInv
  OBVIOUS
<1>1. Calm
  BY DEF Init, Calm
<1>2. More
  BY RangeEmpty DEF Init, More, QM
<1>. QED
  BY <1>1, <1>2, InitTypes, InitOrder, InitSpeaking, InitSilence, InitTrunkSilence DEF SoundInv

LEMMA SoundStep == SoundInv /\ [Next]_vars => SoundInv'
<1>1. CASE Next
  BY <1>1, TypeStep, OrderStep, CalmStep, MoreStep, SpeakingStep, SilenceStep, TrunkSilenceStep
     DEF SoundInv, OrderInv
<1>2. CASE UNCHANGED vars
  <2>1. SoundInv => TypeInv'
    BY <1>2, TypeStep DEF SoundInv
  <2>2. UNCHANGED <<handler, done, valid, turns, count, queue, marks, cleared, playing, cut, cuts, loop, line,
                    echoes, late, skipped, trunk>>
    BY <1>2 DEF vars, answerVars, heardVars, wireVars
  <2>3. LM' = LM
    BY <2>2 DEF LM, AllMarks, Chunks, Responses
  <2>4. QM' = QM /\ MM' = MM /\ CM' = CM /\ EM' = EM /\ WM' = WM /\ InHand' = InHand /\ (Busy' <=> Busy)
    BY <2>2, <2>3 DEF QM, MM, CM, EM, WM, InHand, Busy
  <2>5. OrderInv => OrderInv'
    BY <2>2, <2>3, <2>4 DEF OrderInv, Sip, Queued, Wires, Registers, Out, Handed, Made, Upto, Newest
  <2>6. (Coming' <=> Coming) /\ (ToEnd' <=> ToEnd) /\ Ending' = Ending /\ (Due(trunk)' <=> Due(trunk))
    BY <2>2, <2>4 DEF Coming, ToEnd, Ending, Due, Newest, EndsAnswer
  <2>7. (Calm => Calm') /\ (More => More')
    BY <2>2, <2>4 DEF Calm, More, Sip, Newest, EndsAnswer
  <2>8. Speaking => Speaking'
    BY <2>2, <2>4 DEF Speaking, Sip, First
  <2>9. (Silence => Silence') /\ (TrunkSilence => TrunkSilence')
    BY <2>2, <2>4, <2>6 DEF Silence, TrunkSilence, Sip
  <2>. QED
    BY <2>1, <2>5, <2>7, <2>8, <2>9 DEF SoundInv
<1>. QED
  BY <1>1, <1>2

(* The flag by which the agent counts as speaking follows what is heard: it is *)
(* set while audio before a mark is still to be played, before any             *)
(* interruption; and it is not when all is over, unless something was late.    *)
THEOREM FlagFollowsAudio == Spec => []PlayingKnown
<1>1. SoundInv => PlayingKnown
  BY SpeakingHeard, QuietIsSilent DEF SoundInv, PlayingKnown
<1>. QED
  BY <1>1, InitSound, SoundStep, PTL DEF Spec

-----------------------------------------------------------------------------
(* What each step does, off the trunk, to what is where. *)
LEMMA OffTrunk ==
  ASSUME TypeInv, ~Sip, Next
  PROVE  \/ Take \/ SendMedia \/ SendPost \/ Echo \/ ClearData \/ Sync \/ Restart
         \/ (Interrupt \/ AskIfThere) \/ (Play \/ Respond \/ Synthesize)
<1>1. trunk = NoTrunk /\ loop.pc \in {"idle", "pre", "media"}
  BY WireTypes
<1>. QED
  BY <1>1 DEF Next, Buffered, SendOn, Xoff, Xon, Drain, Settle, NoTrunk

LEMMA TakeMarks ==
  ASSUME TypeInv, OrderInv, ~Sip, Take
  PROVE  \E c \in AllMarks :
         /\ c.kind \in {"audio", "last", "end"} /\ c \in QM /\ QM = QM' \union {c} /\ ~Busy
         /\ \A q \in QM' : Ahead(c, q)
         /\ Made(c) /\ \A n \in WM \union MM : Ahead(n, c)
         /\ UNCHANGED <<handler, answerVars, valid, cleared, heard, everHeard, cut, cuts, echoes, skipped, played>>
         /\ late' = (late \/ cut # "no") /\ (playing => playing')
         /\ CM' = CM
         /\ \/ /\ c.of[1] \notin valid /\ c.kind # "end"
               /\ ~Busy' /\ WM' = WM /\ MM' = MM
            \/ /\ (c.of[1] \in valid /\ playing') \/ c.kind = "end"
               /\ \E x \in AllMarks :
                    /\ x.of = c.of /\ WM' = WM \union {x} /\ MM' = MM \union {x}
                    /\ \A n \in WM \union MM : Foregoes(n, x)
                    /\ \/ Tracked /\ c.kind = "end" /\ x = c /\ ~Busy'
                       \/ /\ Tracked => c.kind # "end"
                          /\ x.kind = "pre" /\ Busy' /\ loop'.pc = "pre" /\ InHand' = c /\ loop'.of = c.of
<1>0. PICK c : c = Head(queue)
  OBVIOUS
<1>1. /\ c \in ChunkType /\ c \in AllMarks /\ c \in QM /\ QM = QM' \union {c} /\ ~Busy
      /\ \A q \in QM' : Ahead(c, q)
      /\ UNCHANGED <<handler, answerVars, valid, cleared, heard, everHeard, cut, cuts, echoes, skipped, played>>
      /\ late' = (late \/ cut # "no")
      /\ Wires /\ Registers /\ Out /\ Queued
  BY <1>0, TakeDoes DEF OrderInv, Take
<1>2. \/ /\ c.of[1] \notin valid /\ c.kind # "end" /\ UNCHANGED <<loop, marks, line, playing>>
      \/ /\ \/ c.of[1] \in valid /\ playing' = TRUE
            \/ c.of[1] \notin valid /\ c.kind = "end" /\ UNCHANGED playing
         /\ \/ Tracked /\ c.kind = "end" /\ Marked(Mark(c.of, c.kind)) /\ loop' = Idle
            \/ /\ Tracked => c.kind # "end"
               /\ Marked(Mark(c.of, "pre"))
               /\ loop' = [pc |-> "pre", of |-> c.of, kind |-> c.kind, frame |-> 0, gen |-> 0]
  BY <1>0, <1>1, TakeDoes
<1>3. /\ c.kind \in {"audio", "last", "end"} /\ Made(c) /\ \A n \in WM \union MM : Ahead(n, c)
      /\ c.of \in Chunks /\ c.kind \in Kinds /\ CM' = CM
  BY <1>1 DEF ChunkType, Queued, Out, Chunks, Kinds, CM
<1>4. playing => playing'
  BY <1>2, Zenon
<1>5. ASSUME NEW k \in {c.kind, "pre"}, Marked(Mark(c.of, k))
      PROVE  \E x \in AllMarks : /\ x = Mark(c.of, k) /\ x.of = c.of /\ x.kind = k
                                 /\ WM' = WM \union {x} /\ MM' = MM \union {x}
                                 /\ \A n \in WM \union MM : Foregoes(n, x)
  <2>0. PICK x : x = Mark(c.of, k)
    OBVIOUS
  <2>1. x \in AllMarks /\ x.of = c.of /\ x.kind = k
    <3>1. k \in Kinds
      BY <1>3 DEF Kinds
    <3>. QED
      BY <1>3, <2>0, <3>1, MarkIs
  <2>2. \A n \in WM \union MM : Foregoes(n, x)
    BY <1>3, <2>1, AheadForegoes
  <2>3. WM' = WM \union {x} /\ MM' = MM \union {x}
    BY <1>1, <1>5, <2>0, <2>1, <2>2, MarkedDoes
  <2>. QED
    BY <2>0, <2>1, <2>2, <2>3
<1>6. CASE c.of[1] \notin valid /\ c.kind # "end" /\ UNCHANGED <<loop, marks, line, playing>>
  <2>1. LM' = LM
    BY <1>6 DEF LM, AllMarks, Chunks, Responses
  <2>2. WM' = WM /\ MM' = MM /\ ~Busy'
    BY <1>1, <1>6, <2>1 DEF WM, EM, MM, Busy
  <2>. QED
    BY <1>1, <1>3, <1>4, <1>6, <2>2
<1>7. ASSUME (c.of[1] \in valid /\ playing') \/ c.kind = "end",
             Tracked, c.kind = "end", Marked(Mark(c.of, c.kind)), loop' = Idle
      PROVE  \E x \in AllMarks :
                    /\ x.of = c.of /\ WM' = WM \union {x} /\ MM' = MM \union {x}
                    /\ \A n \in WM \union MM : Foregoes(n, x)
                    /\ x = c /\ ~Busy'
  <2>1. c = Mark(c.of, c.kind)
    BY <1>1, AllMarksAre
  <2>2. ~Busy'
    BY <1>7 DEF Busy, Idle
  <2>. QED
    BY <1>5, <1>7, <2>1, <2>2
<1>8. ASSUME Marked(Mark(c.of, "pre")),
             loop' = [pc |-> "pre", of |-> c.of, kind |-> c.kind, frame |-> 0, gen |-> 0]
      PROVE  \E x \in AllMarks :
                    /\ x.of = c.of /\ WM' = WM \union {x} /\ MM' = MM \union {x}
                    /\ \A n \in WM \union MM : Foregoes(n, x)
                    /\ x.kind = "pre" /\ Busy' /\ loop'.pc = "pre" /\ InHand' = c /\ loop'.of = c.of
  <2>1. c = Mark(c.of, c.kind)
    BY <1>1, AllMarksAre
  <2>2. Busy' /\ loop'.pc = "pre" /\ InHand' = c /\ loop'.of = c.of
    BY <1>8, <2>1 DEF Busy, InHand
  <2>. QED
    BY <1>5, <1>8, <2>2
<1>9. (c.of[1] \in valid /\ playing' = TRUE) \/ (c.of[1] \notin valid /\ c.kind = "end" /\ UNCHANGED playing)
        => (c.of[1] \in valid /\ playing') \/ c.kind = "end"
  BY Zenon
<1>. QED
  BY <1>1, <1>2, <1>3, <1>4, <1>6, <1>7, <1>8, <1>9

LEMMA FarDoes ==
  ASSUME TypeInv, OrderInv, ~Sip, Play \/ Respond \/ Synthesize
  PROVE  /\ WM' = WM /\ MM' = MM /\ CM' = CM /\ E' = E /\ InHand' = InHand /\ (Busy' <=> Busy)
         /\ (playing' <=> playing) /\ (late' <=> late)
         /\ UNCHANGED <<handler, history, loop, heard, everHeard, cut, cuts, skipped, marks, cleared>>
<1>1. UNCHANGED <<handler, history, loop, heard, everHeard, cut, cuts, skipped, marks, cleared, playing, late>>
  BY DEF Play, Respond, Synthesize, heardVars, wireVars
<1>2. WM' = WM
  <2>1. CASE Play
    BY <2>1, PlayDoes DEF OrderInv
  <2>2. CASE Respond \/ Synthesize
    <3>1. UNCHANGED <<line, echoes>>
      BY <2>2 DEF Respond, Synthesize, wireVars
    <3>2. LM' = LM
      BY <3>1 DEF LM, AllMarks, Chunks, Responses
    <3>. QED
      BY <3>1, <3>2 DEF WM, EM
  <2>. QED
    BY <2>1, <2>2
<1>. QED
  BY <1>1, <1>2 DEF MM, CM, E, InHand, Busy

LEMMA CutDoes ==
  ASSUME TypeInv, OrderInv, ~Sip, Interrupt \/ AskIfThere
  PROVE  /\ cut = "no" /\ ~playing' /\ MM' = MM /\ CM' = CM /\ QM' = QM /\ E' = E
         /\ InHand' = InHand /\ (Busy' <=> Busy) /\ (late' <=> late)
         /\ UNCHANGED <<handler, answerVars, valid, history, queue, loop, everHeard, marks, cleared>>
         /\ (WM' = WM \/ WM' = EM) /\ EM \subseteq WM /\ skipped \subseteq skipped'
         /\ loop.pc = "media" => loop.of \in skipped'
         /\ \/ cut' = "clearing" /\ heard' = heard
            \/ cut' = "asking" /\ heard' = <<>> /\ ~playing
<1>1. /\ cut = "no" /\ Clear
      /\ UNCHANGED <<handler, answerVars, valid, history, queue, loop, everHeard, marks, cleared, late>>
  BY DEF Interrupt, AskIfThere
<1>2. ~playing'
  BY Zenon DEF Interrupt, AskIfThere
<1>3. \/ cut' = "clearing" /\ heard' = heard
      \/ cut' = "asking" /\ heard' = <<>> /\ ~playing
  BY DEF Interrupt, AskIfThere
<1>4. (WM' = WM \/ WM' = EM) /\ skipped \subseteq skipped' /\ (loop.pc = "media" => loop.of \in skipped')
  BY <1>1, ClearDoes DEF OrderInv
<1>. QED
  BY <1>1, <1>2, <1>3, <1>4 DEF MM, CM, QM, E, InHand, Busy, WM

LEMMA ClearDataDoes ==
  ASSUME TypeInv, OrderInv, ~Sip, ClearData
  PROVE  /\ MM' = {} /\ WM' = WM /\ QM' = QM /\ E' = E /\ InHand' = InHand /\ (Busy' <=> Busy)
         /\ (playing' <=> playing) /\ (late' <=> late)
         /\ UNCHANGED <<handler, answerVars, valid, history, queue, loop, heard, everHeard, cuts>>
         /\ \/ cut = "clearing" /\ cut' = "syncing" /\ CM' = MM /\ skipped' = skipped
            \/ /\ cut = "asking" /\ cut' = "no" /\ CM' = {} /\ skipped \subseteq skipped'
               /\ \A m \in MM : m.of \in skipped'
<1>1. /\ UNCHANGED <<handler, answerVars, valid, history, queue, loop, heard, everHeard, cuts, line, echoes, late>>
      /\ marks' = <<>>
      /\ \/ cut = "clearing" /\ cut' = "syncing" /\ cleared' = marks /\ skipped' = skipped
         \/ /\ cut = "asking" /\ cut' = "no" /\ cleared' = <<>>
            /\ skipped' = skipped \union {m.of : m \in MM}
  BY DEF ClearData, MM
<1>2. playing' = playing
  BY Zenon DEF ClearData
<1>3. LM' = LM
  BY <1>1 DEF LM, AllMarks, Chunks, Responses
<1>4. MM' = {} /\ WM' = WM /\ QM' = QM /\ E' = E /\ InHand' = InHand /\ (Busy' <=> Busy)
  BY <1>1, <1>3, RangeEmpty DEF MM, WM, EM, QM, E, InHand, Busy
<1>5. (cleared' = marks => CM' = MM) /\ (cleared' = <<>> => CM' = {})
  BY RangeEmpty DEF CM, MM
<1>. QED
  BY <1>1, <1>2, <1>4, <1>5

LEMMA SyncDoes ==
  ASSUME TypeInv, OrderInv, ~Sip, Sync
  PROVE  /\ cut = "syncing" /\ cut' = "flushing" /\ heard' = <<>> /\ CM' = {} /\ valid' = {}
         /\ MM' = MM /\ WM' = WM /\ QM' = QM /\ E' = E /\ InHand' = InHand /\ (Busy' <=> Busy)
         /\ (playing' <=> playing) /\ (late' <=> late)
         /\ UNCHANGED <<handler, answerVars, queue, loop, everHeard, cuts, skipped, marks>>
<1>1. /\ UNCHANGED <<handler, answerVars, queue, loop, everHeard, cuts, skipped, line, echoes, marks, late, playing>>
      /\ cut = "syncing" /\ cut' = "flushing" /\ heard' = <<>> /\ cleared' = <<>> /\ valid' = {}
  BY DEF Sync, wireVars
<1>2. LM' = LM
  BY <1>1 DEF LM, AllMarks, Chunks, Responses
<1>. QED
  BY <1>1, <1>2, RangeEmpty DEF MM, WM, EM, QM, CM, E, InHand, Busy

LEMMA RestartDoes ==
  ASSUME TypeInv, OrderInv, ~Sip, Restart
  PROVE  /\ cut = "flushing" /\ cut' = "no" /\ ~Busy' /\ QM' = {} /\ loop' = Idle
         /\ MM' = MM /\ CM' = CM /\ WM' = WM /\ E' = E
         /\ (playing' <=> playing) /\ (late' <=> late)
         /\ UNCHANGED <<handler, answerVars, valid, history, heard, everHeard, cuts, skipped, marks, cleared>>
<1>1. /\ UNCHANGED <<handler, answerVars, valid, history, heard, everHeard, cuts, skipped, marks, cleared,
                     line, echoes, late, playing>>
      /\ cut = "flushing" /\ cut' = "no" /\ loop' = Idle /\ queue' = <<>>
  BY DEF Restart, wireVars, heardVars
<1>2. LM' = LM
  BY <1>1 DEF LM, AllMarks, Chunks, Responses
<1>. QED
  BY <1>1, <1>2, RangeEmpty DEF MM, WM, EM, QM, CM, E, Busy, Idle

(* A mark comes back: it is heard, or is unknown. *)
LEMMA EchoHears ==
  ASSUME TypeInv, OrderInv, ~Sip, Echo
  PROVE  \E h \in AllMarks :
         /\ h \in WM /\ WM' = WM \ {h} /\ \A n \in WM' : Foregoes(h, n)
         /\ QM' = QM /\ CM' = CM /\ InHand' = InHand /\ (Busy' <=> Busy)
         /\ UNCHANGED <<handler, answerVars, valid, history, queue, loop, cleared, cut, cuts, skipped>>
         /\ \/ /\ h \in MM /\ MM' = MM \ {h}
               /\ E' = E \union (IF HasText(h) THEN {h.of} ELSE {})
               /\ everHeard' = everHeard \o (IF HasText(h) THEN <<h.of>> ELSE <<>>)
               /\ IF Tracked THEN /\ heard' = heard \o (IF HasText(h) THEN <<h.of>> ELSE <<>>)
                                  /\ Range(heard') = Range(heard) \union (IF HasText(h) THEN {h.of} ELSE {})
                  ELSE heard' = heard
               /\ playing' <=> ~EndsAnswer(h) /\ (playing \/ h.kind = "pre")
               /\ late' <=> late \/ (h.kind = "pre" /\ cut # "no")
            \/ /\ h \notin MM /\ MM' = MM /\ E' = E /\ UNCHANGED <<everHeard, heard>>
               /\ (playing' <=> playing) /\ (late' <=> late)
<1>0. PICK h : h = Head(echoes)
  OBVIOUS
<1>1. /\ h \in EM /\ h \in AllMarks /\ WM' = WM \ {h} /\ \A n \in WM' : Foregoes(h, n)
      /\ UNCHANGED <<handler, answerVars, valid, history, queue, loop, cleared, cut, cuts, skipped>>
      /\ \/ /\ h \in MM /\ MM' = MM \ {h} /\ Hears(<<h>>)
            /\ playing' = (IF EndsAnswer(h) THEN FALSE ELSE (playing \/ Begins(h)))
            /\ late' = (late \/ (h.kind = "pre" /\ cut # "no"))
         \/ h \notin MM /\ UNCHANGED <<marks, playing, heard, everHeard, late>>
  BY <1>0, EchoDoes DEF OrderInv, heardVars
<1>2. /\ h \in WM /\ QM' = QM /\ CM' = CM /\ InHand' = InHand /\ (Busy' <=> Busy)
  BY <1>1 DEF WM, QM, CM, InHand, Busy
<1>3. CASE h \notin MM /\ UNCHANGED <<marks, playing, heard, everHeard, late>>
  <2>1. MM' = MM /\ E' = E /\ UNCHANGED <<everHeard, heard>>
        /\ (playing' <=> playing) /\ (late' <=> late)
    BY <1>3 DEF MM, E
  <2>. QED
    BY <1>1, <1>2, <1>3, <2>1
<1>4. CASE /\ h \in MM /\ MM' = MM \ {h} /\ Hears(<<h>>)
           /\ playing' = (IF EndsAnswer(h) THEN FALSE ELSE (playing \/ Begins(h)))
           /\ late' = (late \/ (h.kind = "pre" /\ cut # "no"))
  <2>. DEFINE t == IF HasText(h) THEN <<h.of>> ELSE <<>>
              T == IF HasText(h) THEN {h.of} ELSE {}
  <2>1. everHeard' = everHeard \o t /\ heard' = (IF Tracked THEN heard \o t ELSE heard)
    BY <1>1, <1>4, TextsOne DEF Hears
  <2>2. t \in Seq(Chunks) /\ Range(t) = T
    <3>1. h.of \in Chunks
      BY <1>1, AllMarksAre
    <3>2. CASE HasText(h)
      <4>1. t = <<h.of>> /\ T = {h.of}
        BY <3>2
      <4>2. Range(<<h.of>>) = {h.of} /\ <<h.of>> \in Seq(Chunks)
        BY <3>1 DEF Range
      <4>. QED
        BY <4>1, <4>2
    <3>3. CASE ~HasText(h)
      <4>1. t = <<>> /\ T = {}
        BY <3>3
      <4>2. <<>> \in Seq(Chunks)
        OBVIOUS
      <4>. QED
        BY <4>1, <4>2, RangeEmpty
    <3>. QED
      BY <3>2, <3>3
  <2>. HIDE DEF t, T
  <2>3. E' = E \union T /\ (Tracked => Range(heard') = Range(heard) \union T)
    BY <2>1, <2>2, WireTypes, RangeConcat DEF E
  <2>4. playing' <=> ~EndsAnswer(h) /\ (playing \/ h.kind = "pre")
    BY <1>4, Zenon DEF Begins
  <2>5. late' <=> late \/ (h.kind = "pre" /\ cut # "no")
    BY <1>4, Zenon
  <2>. QED
    BY <1>1, <1>2, <1>4, <2>1, <2>3, <2>4, <2>5 DEF t, T
<1>. QED
  BY <1>1, <1>3, <1>4

(* Of two marks on the wire, one foregoes the other. *)
LEMMA WireCompares ==
  ASSUME TypeInv, ~Sip, Wires, NEW m \in WM, NEW n \in WM, m # n
  PROVE  Foregoes(m, n) \/ Foregoes(n, m)
<1>1. /\ echoes \in Seq(AllMarks) /\ line \in Seq(Items) /\ m \in AllMarks /\ n \in AllMarks
      /\ DOMAIN echoes = 1..Len(echoes) /\ DOMAIN line = 1..Len(line)
  BY WireTypes, SetsTyped
<1>2. ASSUME NEW s \in {echoes, line}, m \in Range(s), n \in Range(s)
      PROVE  Foregoes(m, n) \/ Foregoes(n, m)
  <2>1. PICK i \in DOMAIN s, j \in DOMAIN s : m = s[i] /\ n = s[j]
    BY <1>2 DEF Range
  <2>2. i < j \/ j < i
    BY <1>1, <2>1
  <2>3. <<m, n>> \in Ordering \/ <<n, m>> \in Ordering
    BY <2>1, <2>2 DEF Wires, Rising
  <2>. QED
    BY <1>1, <2>3, InOrdering
<1>. QED
  BY <1>2 DEF WM, EM, LM, Wires

(* What was cleared stays so. *)
Skips == {of[1] : of \in skipped}

LEMMA SkippedStays ==
  ASSUME TypeInv, OrderInv, ~Sip, Next
  PROVE  skipped \subseteq skipped' /\ Skips \subseteq Skips'
<1>1. skipped \subseteq skipped'
  BY OffTrunk, TakeMarks, SendMediaDoes, SendPostDoes, FarDoes, EchoHears, CutDoes, ClearDataDoes, SyncDoes, RestartDoes
<1>. QED
  BY <1>1 DEF Skips

-----------------------------------------------------------------------------
(* What has been lost: off the trunk, a mark that is registered and not on the *)
(* wire was dropped by an interruption that has not yet forgotten it; and what *)
(* is registered during one was cleared.                                       *)
LostInv == ~Sip =>
  /\ cut \notin {"clearing", "asking"} => MM \subseteq WM
  /\ ~late => \A m \in WM, n \in MM \ WM : m.of \in skipped \/ Foregoes(m, n)
  /\ ~late /\ cut # "no" /\ loop.pc = "media" => loop.of \in skipped
  /\ ~late /\ cut \in {"syncing", "flushing"} => \A m \in MM : m.of \in skipped

LEMMA InitLost == Init => LostInv
  BY RangeEmpty DEF Init, LostInv, MM, WM, EM, LM, Idle

LEMMA LostStep == TypeInv /\ OrderInv /\ LostInv /\ Next => LostInv'
<1>. SUFFICES ASSUME TypeInv, OrderInv, LostInv, Next, ~Sip
              PROVE  LostInv'
  BY HandlerStays DEF LostInv
<1>. DEFINE Goal == /\ cut' \notin {"clearing", "asking"} => MM' \subseteq WM'
                    /\ ~late' => \A m \in WM', n \in MM' \ WM' : m.of \in skipped' \/ Foregoes(m, n)
                    /\ ~late' /\ cut' # "no" /\ loop'.pc = "media" => loop'.of \in skipped'
                    /\ ~late' /\ cut' \in {"syncing", "flushing"} => \A m \in MM' : m.of \in skipped'
<1>0. SUFFICES Goal
  BY DEF LostInv, Foregoes, Ahead, Earlier, EndsAnswer
<1>1. /\ cut \notin {"clearing", "asking"} => MM \subseteq WM
      /\ ~late => \A m \in WM, n \in MM \ WM : m.of \in skipped \/ Foregoes(m, n)
      /\ ~late /\ cut # "no" /\ loop.pc = "media" => loop.of \in skipped
      /\ ~late /\ cut \in {"syncing", "flushing"} => \A m \in MM : m.of \in skipped
  BY DEF LostInv
<1>2. ~late' => ~late
  BY Lately
<1>3. CASE Take
  <2>1. /\ cut' = cut /\ (late' <=> late \/ cut # "no")
        /\ (MM' = MM /\ WM' = WM) \/ \E x \in AllMarks : MM' = MM \union {x} /\ WM' = WM \union {x}
    BY <1>3, TakeMarks
  <2>2. cut \notin {"clearing", "asking"} => MM' \subseteq WM'
    BY <1>1, <2>1
  <2>. QED
    BY <1>2, <2>1, <2>2
<1>4. CASE SendMedia
  <2>1. cut' = cut /\ (late' <=> late \/ cut # "no") /\ MM' = MM /\ WM' = WM /\ skipped' = skipped
    BY <1>4, SendMediaDoes
  <2>. QED
    BY <1>1, <1>2, <2>1
<1>5. CASE SendPost
  <2>0. PICK x : x = InHand
    OBVIOUS
  <2>1. /\ cut' = cut /\ (late' <=> late) /\ MM' = MM \union {x} /\ WM' = WM \union {x} /\ skipped' = skipped
        /\ loop.pc = "media" /\ loop'.pc # "media" /\ x.of = loop.of
    BY <1>5, <2>0, SendPostDoes DEF Idle, InHand, Mark
  <2>2. ~late' => \A m \in WM', n \in MM' \ WM' : m.of \in skipped' \/ Foregoes(m, n)
    BY <1>1, <2>1
  <2>. QED
    BY <1>1, <2>1, <2>2
<1>6. CASE Echo
  <2>1. PICK h \in AllMarks :
          /\ h \in WM /\ WM' = WM \ {h} /\ cut' = cut /\ loop' = loop /\ skipped' = skipped
          /\ (h \in MM /\ MM' = MM \ {h}) \/ (h \notin MM /\ MM' = MM)
    BY <1>6, EchoHears
  <2>. QED
    BY <1>1, <1>2, <2>1
<1>7. CASE Interrupt \/ AskIfThere
  <2>1. /\ cut = "no" /\ cut' \in {"clearing", "asking"} /\ MM' = MM /\ (late' <=> late)
        /\ (WM' = WM \/ WM' = EM) /\ (loop'.pc = "media" => loop'.of \in skipped')
    BY <1>7, CutDoes
  <2>2. MM \subseteq WM /\ \A m \in EM, n \in LM : Foregoes(m, n)
    BY <1>1, <2>1 DEF OrderInv, Wires
  <2>3. \A m \in WM', n \in MM' \ WM' : Foregoes(m, n)
    BY <2>1, <2>2 DEF WM
  <2>. QED
    BY <2>1, <2>3
<1>8. CASE ClearData
  <2>1. /\ MM' = {} /\ WM' = WM /\ (late' <=> late) /\ loop' = loop
        /\ (cut = "clearing" /\ cut' = "syncing" /\ skipped' = skipped) \/ cut' = "no"
    BY <1>8, ClearDataDoes
  <2>. QED
    BY <1>1, <2>1
<1>9. CASE Sync
  <2>1. /\ cut = "syncing" /\ cut' = "flushing" /\ MM' = MM /\ WM' = WM /\ (late' <=> late) /\ loop' = loop
        /\ skipped' = skipped
    BY <1>9, SyncDoes
  <2>. QED
    BY <1>1, <2>1
<1>10. CASE Restart
  <2>1. /\ cut = "flushing" /\ cut' = "no" /\ MM' = MM /\ WM' = WM /\ (late' <=> late) /\ skipped' = skipped
    BY <1>10, RestartDoes
  <2>. QED
    BY <1>1, <2>1
<1>11. CASE Play \/ Respond \/ Synthesize
  <2>1. /\ cut' = cut /\ MM' = MM /\ WM' = WM /\ (late' <=> late) /\ skipped' = skipped /\ loop' = loop
    BY <1>11, FarDoes
  <2>. QED
    BY <1>1, <2>1
<1>. HIDE DEF Goal
<1>. QED
  BY OffTrunk, <1>3, <1>4, <1>5, <1>6, <1>7, <1>8, <1>9, <1>10, <1>11

-----------------------------------------------------------------------------
(* What begins to be heard: off the trunk, while nothing is late, a mark after *)
(* audio that is registered has the one before it in front; or that one is     *)
(* back, then it is the first itself, and the agent counts as speaking.        *)
PreInv == ~Sip /\ ~late =>
  /\ \A m \in WM \intersect MM : HasText(m) /\ m.of \notin skipped /\ cut \in {"no", "asking"} =>
       PreOf(m) \in WM \intersect MM \/ (cut = "no" /\ playing /\ First(m))
  /\ Busy /\ HasText(InHand) /\ loop.of \notin skipped =>
       /\ cut = "no" => PreOf(InHand) \in WM \intersect MM \/ (playing /\ WM = {})
       /\ cut = "asking" => PreOf(InHand) \in MM

LEMMA InitPre == Init => PreInv
  BY RangeEmpty DEF Init, PreInv, MM, WM, EM, LM, Busy, Idle

LEMMA FirstMark ==
  ASSUME NEW m \in AllMarks, HasText(m), NEW h, Foregoes(h, PreOf(m)), h = m
  PROVE  FALSE
<1>1. PreOf(m).of = m.of /\ PreOf(m).kind = "pre" /\ m.of \in Chunks /\ m.kind # "pre"
  BY AllMarksAre DEF PreOf, Mark, HasText
<1>2. Foregoes(PreOf(m), m)
  BY <1>1 DEF Foregoes
<1>. QED
  BY <1>1, <1>2, ForegoesOrders

LEMMA PreStep == TypeInv /\ OrderInv /\ LostInv /\ PreInv /\ Next => PreInv'
<1>. SUFFICES ASSUME TypeInv, OrderInv, LostInv, PreInv, Next, ~Sip, ~late'
              PROVE  PreInv'
  BY HandlerStays DEF PreInv
<1>. DEFINE Mid(m) == PreOf(m) \in WM' \intersect MM' \/ (cut' = "no" /\ playing' /\ First(m)')
            Goal1 == \A m \in WM' \intersect MM' : HasText(m) /\ m.of \notin skipped' /\ cut' \in {"no", "asking"} => Mid(m)
            Goal2 == Busy' /\ HasText(InHand') /\ loop'.of \notin skipped' =>
                       /\ cut' = "no" => PreOf(InHand') \in WM' \intersect MM' \/ (playing' /\ WM' = {})
                       /\ cut' = "asking" => PreOf(InHand') \in MM'
<1>0. SUFFICES Goal1 /\ Goal2
  BY DEF PreInv, PreOf, Mark, HasText, InHand
<1>1. /\ ~late
      /\ \A m \in WM \intersect MM : HasText(m) /\ m.of \notin skipped /\ cut \in {"no", "asking"} =>
           PreOf(m) \in WM \intersect MM \/ (cut = "no" /\ playing /\ First(m))
      /\ Busy /\ HasText(InHand) /\ loop.of \notin skipped =>
           /\ cut = "no" => PreOf(InHand) \in WM \intersect MM \/ (playing /\ WM = {})
           /\ cut = "asking" => PreOf(InHand) \in MM
      /\ cut # "no" /\ loop.pc = "media" => loop.of \in skipped
      /\ cut \in {"syncing", "flushing"} => \A m \in MM : m.of \in skipped
  BY Lately DEF PreInv, LostInv
<1>2. /\ \A m \in WM \union MM : m \in AllMarks /\ m.of \in Chunks
      /\ \A m : PreOf(m).of = m.of /\ PreOf(m).kind = "pre"
      /\ \A m : HasText(m) => m.kind # "pre" /\ m # PreOf(m)
      /\ Busy => InHand \in AllMarks /\ InHand.of = loop.of /\ InHand.of \in Chunks
  BY SetsTyped, AllMarksAre DEF PreOf, Mark, HasText
<1>. HIDE DEF PreInv, LostInv
<1>3. ASSUME WM' = WM, MM' = MM, cut' = cut, skipped \subseteq skipped', playing => playing'
      PROVE  Goal1
  BY <1>1, <1>3 DEF First, Foregoes, Ahead, Earlier, EndsAnswer
<1>4. ASSUME NEW x \in AllMarks, WM' = WM \union {x}, MM' = MM \union {x}, \A n \in WM : Foregoes(n, x),
             cut' = cut, skipped' = skipped, playing => playing',
             HasText(x) /\ x.of \notin skipped /\ cut \in {"no", "asking"} => Mid(x)
      PROVE  Goal1
  <2>. SUFFICES ASSUME NEW m \in WM' \intersect MM', HasText(m), m.of \notin skipped', cut' \in {"no", "asking"}
                PROVE  Mid(m)
    OBVIOUS
  <2>1. CASE m = x
    BY <1>4, <2>1
  <2>2. CASE m # x /\ m \in MM /\ m \notin WM
    BY <1>4, <2>2
  <2>3. CASE m # x /\ m \in MM /\ m \in WM
    <3>1. First(m) => First(m)'
      BY <1>4, <2>3 DEF First, Foregoes, Ahead, Earlier, EndsAnswer
    <3>. QED
      BY <1>1, <1>4, <2>3, <3>1
  <2>. QED
    BY <1>4, <2>1, <2>2, <2>3
<1>5. CASE Take
  <2>1. /\ cut' = cut /\ (late' <=> late \/ cut # "no") /\ skipped' = skipped /\ (playing => playing')
        /\ \/ ~Busy' /\ WM' = WM /\ MM' = MM
           \/ \E x \in AllMarks :
                    /\ WM' = WM \union {x} /\ MM' = MM \union {x}
                    /\ \A n \in WM \union MM : Foregoes(n, x)
                    /\ \/ x.kind = "end" /\ ~Busy'
                       \/ x.kind = "pre" /\ InHand'.of = x.of
    BY <1>5, TakeMarks
  <2>2. CASE ~Busy' /\ WM' = WM /\ MM' = MM
    BY <1>3, <2>1, <2>2
  <2>3. ASSUME NEW x \in AllMarks,
               WM' = WM \union {x} /\ MM' = MM \union {x}, \A n \in WM \union MM : Foregoes(n, x),
               (x.kind = "end" /\ ~Busy') \/ (x.kind = "pre" /\ InHand'.of = x.of)
        PROVE  Goal1 /\ Goal2
    <3>1. ~HasText(x)
      BY <2>3 DEF HasText
    <3>2. Goal1
      BY <1>4, <2>1, <2>3, <3>1
    <3>3. x.kind = "pre" /\ InHand'.of = x.of => PreOf(InHand') = x
      BY AllMarksAre DEF PreOf
    <3>4. cut' = "no"
      BY <2>1
    <3>. QED
      BY <2>3, <3>2, <3>3, <3>4
  <2>. QED
    BY <2>1, <2>2, <2>3
<1>6. CASE SendMedia
  <2>1. /\ Busy /\ cut' = cut /\ WM' = WM /\ MM' = MM /\ skipped' = skipped /\ InHand' = InHand /\ loop'.of = loop.of
        /\ (playing' <=> playing)
    BY <1>6, SendMediaDoes
  <2>. QED
    BY <1>1, <1>3, <2>1
<1>7. CASE SendPost
  <2>0. PICK x : x = InHand
    OBVIOUS
  <2>1. /\ Busy /\ ~Busy' /\ cut' = cut /\ skipped' = skipped /\ (playing' <=> playing)
        /\ MM' = MM \union {x} /\ WM' = WM \union {x}
        /\ loop.pc = "media" /\ x.of = loop.of /\ x \in AllMarks
    BY <1>7, <2>0, SendPostDoes DEF InHand, Mark
  <2>2. \A n \in WM : Foregoes(n, x)
    BY <2>0, <2>1 DEF OrderInv, Out
  <2>3. ASSUME HasText(x), x.of \notin skipped, cut \in {"no", "asking"}
        PROVE  Mid(x)
    <3>1. cut = "no"
      BY <1>1, <2>1, <2>3
    <3>2. PreOf(x) \in WM \intersect MM \/ (playing /\ WM = {})
      BY <1>1, <2>0, <2>1, <2>3, <3>1
    <3>3. WM = {} => First(x)'
      BY <2>1 DEF First
    <3>. QED
      BY <2>1, <3>1, <3>2, <3>3
  <2>. QED
    BY <1>4, <2>1, <2>2, <2>3
<1>8. CASE Echo
  <2>1. PICK h \in AllMarks :
         /\ h \in WM /\ WM' = WM \ {h} /\ \A n \in WM' : Foregoes(h, n)
         /\ InHand' = InHand /\ (Busy' <=> Busy) /\ UNCHANGED <<loop, cut, skipped>>
         /\ \/ /\ h \in MM /\ MM' = MM \ {h}
               /\ playing' <=> ~EndsAnswer(h) /\ (playing \/ h.kind = "pre")
               /\ late' <=> late \/ (h.kind = "pre" /\ cut # "no")
            \/ h \notin MM /\ MM' = MM /\ (playing' <=> playing)
    BY <1>8, EchoHears
  <2>2. ASSUME NEW m \in WM' \intersect MM', HasText(m), m.of \notin skipped', cut' \in {"no", "asking"}
        PROVE  Mid(m)
    <3>1. /\ m \in WM \intersect MM /\ m # h /\ Foregoes(h, m) /\ m \in AllMarks /\ m.of \in Chunks /\ h.of \in Chunks
          /\ PreOf(m).of = m.of /\ PreOf(m).kind = "pre" /\ m.kind # "pre"
      BY <1>2, <2>1, <2>2
    <3>2. PreOf(m) \in WM \intersect MM
      <4>1. ~First(m)
        BY <2>1, <3>1, ForegoesOrders DEF First
      <4>. QED
        BY <1>1, <2>1, <2>2, <3>1, <4>1
    <3>3. CASE h # PreOf(m)
      BY <2>1, <3>2, <3>3
    <3>4. CASE h = PreOf(m)
      <4>1. cut' = "no" /\ playing'
        BY <1>1, <2>1, <3>1, <3>2, <3>4 DEF EndsAnswer
      <4>2. ASSUME NEW n \in WM', n # m PROVE Foregoes(m, n)
        <5>1. n \in WM /\ Foregoes(h, n) /\ n.of \in Chunks
          BY <1>2, <2>1
        <5>2. Foregoes(m, n) \/ Foregoes(n, m)
          BY <3>1, <4>2, <5>1, WireCompares DEF OrderInv
        <5>. QED
          BY <3>1, <3>4, <5>1, <5>2, NothingBetween
      <4>3. First(m)'
        BY <4>2 DEF First, Foregoes, Ahead, Earlier, EndsAnswer
      <4>. QED
        BY <4>1, <4>3
    <3>. QED
      BY <3>3, <3>4
  <2>3. ASSUME Busy, HasText(InHand), loop.of \notin skipped, cut = "no"
        PROVE  PreOf(InHand) \in WM' \intersect MM' \/ (playing' /\ WM' = {})
    <3>1. PreOf(InHand) \in WM \intersect MM
      BY <1>1, <2>1, <2>3
    <3>2. CASE h # PreOf(InHand)
      BY <2>1, <3>1, <3>2
    <3>3. CASE h = PreOf(InHand)
      <4>1. playing'
        BY <1>2, <2>1, <3>1, <3>3 DEF EndsAnswer
      <4>2. ASSUME NEW n \in WM' PROVE FALSE
        <5>1. n \in WM /\ Foregoes(h, n) /\ n.of \in Chunks /\ Foregoes(n, InHand)
          BY <1>2, <2>1, <2>3 DEF OrderInv, Out
        <5>2. h.of \in Chunks /\ h.of = InHand.of /\ h.kind = "pre" /\ InHand.kind # "pre"
          BY <1>2, <2>1, <2>3, <3>3
        <5>. QED
          BY <5>1, <5>2, NothingBetween
      <4>. QED
        BY <4>1, <4>2
    <3>. QED
      BY <3>2, <3>3
  <2>4. ASSUME Busy, HasText(InHand), loop.of \notin skipped, cut = "asking"
        PROVE  PreOf(InHand) \in MM'
    BY <1>1, <1>2, <2>1, <2>4
  <2>. QED
    BY <2>1, <2>2, <2>3, <2>4
<1>9. CASE Interrupt \/ AskIfThere
  <2>1. /\ cut = "no" /\ MM' = MM /\ (WM' = WM \/ WM' = EM) /\ EM \subseteq WM /\ skipped \subseteq skipped'
        /\ InHand' = InHand /\ (Busy' <=> Busy) /\ loop' = loop
        /\ (cut' = "clearing" \/ (cut' = "asking" /\ ~playing))
    BY <1>9, CutDoes
  <2>2. ASSUME NEW m \in WM' \intersect MM', HasText(m), m.of \notin skipped', cut' \in {"no", "asking"}
        PROVE  Mid(m)
    <3>1. PreOf(m) \in WM \intersect MM /\ m \in WM /\ m.of \in Chunks
      BY <1>1, <1>2, <2>1, <2>2
    <3>2. ASSUME m \in EM, PreOf(m) \in LM PROVE FALSE
      <4>1. Foregoes(m, PreOf(m))
        BY <3>2 DEF OrderInv, Wires
      <4>. QED
        BY <1>2, <2>2, <3>1, <4>1, FirstMark
    <3>3. PreOf(m) \in WM'
      BY <2>1, <2>2, <3>1, <3>2 DEF WM
    <3>. QED
      BY <2>1, <3>1, <3>3
  <2>3. Goal2
    BY <1>1, <2>1
  <2>. QED
    BY <2>2, <2>3
<1>10. CASE ClearData
  <2>1. /\ MM' = {} /\ InHand' = InHand /\ (Busy' <=> Busy) /\ loop' = loop
        /\ \/ cut' = "syncing"
           \/ cut = "asking" /\ cut' = "no" /\ skipped \subseteq skipped' /\ \A m \in MM : m.of \in skipped'
    BY <1>10, ClearDataDoes
  <2>2. ASSUME Busy, HasText(InHand), loop.of \notin skipped', cut = "asking", skipped \subseteq skipped',
               \A m \in MM : m.of \in skipped'
        PROVE  FALSE
    BY <1>1, <1>2, <2>2
  <2>. QED
    BY <2>1, <2>2
<1>11. CASE Sync
  BY <1>11, SyncDoes
<1>12. CASE Restart
  <2>1. cut = "flushing" /\ ~Busy' /\ MM' = MM /\ skipped' = skipped
    BY <1>12, RestartDoes
  <2>. QED
    BY <1>1, <2>1
<1>13. CASE Play \/ Respond \/ Synthesize
  <2>1. /\ WM' = WM /\ MM' = MM /\ InHand' = InHand /\ (Busy' <=> Busy) /\ (playing' <=> playing)
        /\ UNCHANGED <<loop, cut, skipped>>
    BY <1>13, FarDoes
  <2>. QED
    BY <1>1, <1>3, <2>1
<1>. HIDE DEF Goal1, Goal2
<1>. QED
  BY OffTrunk, <1>5, <1>6, <1>7, <1>8, <1>9, <1>10, <1>11, <1>12, <1>13

-----------------------------------------------------------------------------
(* What is heard rises: the memories are in the order of the chunks, before    *)
(* everything that is in hand, on the wire or queued.                          *)
Rises == {p \in Chunks \X Chunks : Earlier(p[1], p[2])}
HeardInv == ~Sip =>
  /\ Rising(everHeard, Rises) /\ Rising(heard, Rises) /\ Range(heard) \subseteq E
  /\ \A of \in E : /\ Upto(of) /\ (Busy => Earlier(of, loop.of))
                   /\ \A m \in WM \union QM : Earlier(of, m.of)

LEMMA InitHeard == Init => HeardInv
  BY RangeEmpty, RisingEmpty DEF Init, HeardInv, E

LEMMA RisesAppend ==
  ASSUME NEW s \in Seq(Chunks), Rising(s, Rises), NEW of \in Chunks, \A o \in Range(s) : Earlier(o, of)
  PROVE  Rising(s \o <<of>>, Rises) /\ Rising(s \o <<>>, Rises)
<1>1. s \o <<of>> = Append(s, of) /\ s \o <<>> = s
  OBVIOUS
<1>2. Range(s) \subseteq Chunks
  BY DEF Range
<1>3. \A o \in Range(s) : <<o, of>> \in Rises
  BY <1>2 DEF Rises
<1>. QED
  BY <1>1, <1>3, RisingAppend

LEMMA HeardStep == TypeInv /\ OrderInv /\ HeardInv /\ Next => HeardInv'
<1>. SUFFICES ASSUME TypeInv, OrderInv, HeardInv, Next, ~Sip
              PROVE  HeardInv'
  BY HandlerStays DEF HeardInv
<1>. DEFINE Goal == /\ Rising(everHeard', Rises) /\ Rising(heard', Rises) /\ Range(heard') \subseteq E'
                    /\ \A of \in E' : /\ Upto(of)' /\ (Busy' => Earlier(of, loop'.of))
                                      /\ \A m \in WM' \union QM' : Earlier(of, m.of)
<1>0. SUFFICES Goal
  BY DEF HeardInv, Rising, Rises, Earlier, Chunks, Responses, Upto, Newest
<1>1. /\ Rising(everHeard, Rises) /\ Rising(heard, Rises) /\ Range(heard) \subseteq E
      /\ \A of \in E : /\ Upto(of) /\ (Busy => Earlier(of, loop.of))
                       /\ \A m \in WM \union QM : Earlier(of, m.of)
  BY DEF HeardInv
<1>2. /\ everHeard \in Seq(Chunks) /\ heard \in Seq(Chunks) /\ E \subseteq Chunks
      /\ Wires /\ Registers /\ Out /\ Handed /\ Queued
  BY WireTypes, SetsTyped DEF OrderInv
<1>3. ASSUME UNCHANGED <<everHeard, turns, count>>, heard' = heard \/ heard' = <<>>,
             WM' \subseteq WM, QM' \subseteq QM, Busy' => Busy, loop' = loop \/ ~Busy' \/ loop'.of = loop.of
      PROVE  Goal
  <2>1. E' = E
    BY <1>3 DEF E
  <2>2. Rising(heard', Rises) /\ Range(heard') \subseteq E
    BY <1>1, <1>3, RangeEmpty, RisingEmpty
  <2>. QED
    BY <1>1, <1>3, <2>1, <2>2 DEF Upto, Newest
<1>4. CASE Take
  <2>1. PICK c \in AllMarks :
         /\ c \in QM /\ QM = QM' \union {c}
         /\ UNCHANGED <<turns, count, heard, everHeard>>
         /\ \/ ~Busy' /\ WM' = WM
            \/ \E x \in AllMarks : x.of = c.of /\ WM' = WM \union {x} /\ (Busy' => loop'.of = c.of)
    BY <1>4, TakeMarks DEF answerVars
  <2>2. E' = E
    BY <2>1 DEF E
  <2>3. \A of \in E : Upto(of)'
    BY <1>1, <2>1 DEF Upto, Newest
  <2>. QED
    BY <1>1, <2>1, <2>2, <2>3
<1>5. CASE SendMedia
  <2>1. WM' = WM /\ QM' = QM /\ Busy /\ loop'.of = loop.of /\ UNCHANGED <<everHeard, heard, turns, count>>
    BY <1>5, SendMediaDoes DEF answerVars
  <2>. QED
    BY <1>3, <2>1
<1>6. CASE SendPost
  <2>0. PICK x : x = InHand
    OBVIOUS
  <2>1. /\ Busy /\ ~Busy' /\ WM' = WM \union {x} /\ QM' = QM /\ x.of = loop.of
        /\ UNCHANGED <<everHeard, heard, turns, count>>
    BY <1>6, <2>0, SendPostDoes DEF InHand, Mark, answerVars
  <2>2. E' = E /\ \A of \in E : Upto(of)'
    BY <1>1, <2>1 DEF E, Upto, Newest
  <2>. QED
    BY <1>1, <2>1, <2>2
<1>7. CASE Echo
  <2>1. PICK h \in AllMarks :
         /\ h \in WM /\ WM' = WM \ {h} /\ \A n \in WM' : Foregoes(h, n)
         /\ QM' = QM /\ (Busy' <=> Busy) /\ UNCHANGED <<turns, count, loop>>
         /\ \/ /\ E' = E \union (IF HasText(h) THEN {h.of} ELSE {})
               /\ everHeard' = everHeard \o (IF HasText(h) THEN <<h.of>> ELSE <<>>)
               /\ IF Tracked THEN /\ heard' = heard \o (IF HasText(h) THEN <<h.of>> ELSE <<>>)
                                  /\ Range(heard') = Range(heard) \union (IF HasText(h) THEN {h.of} ELSE {})
                  ELSE heard' = heard
            \/ UNCHANGED <<everHeard, heard>>
    BY <1>7, EchoHears DEF answerVars
  <2>2. /\ h.of \in Chunks /\ \A of \in E : Earlier(of, h.of)
        /\ Upto(h.of) /\ (Busy => Foregoes(h, InHand)) /\ (Busy => InHand.of = loop.of)
        /\ \A q \in QM : Ahead(h, q)
    BY <1>1, <1>2, <2>1, AllMarksAre DEF Out, Made, InHand, Mark
  <2>3. HasText(h) => /\ Busy => Earlier(h.of, loop.of)
                      /\ \A n \in WM' \union QM' : Earlier(h.of, n.of)
    BY <2>1, <2>2 DEF Foregoes, Ahead, HasText
  <2>4. \A of \in E \union {h.of} : Upto(of)'
    BY <1>1, <2>1, <2>2 DEF Upto, Newest
  <2>5. /\ Rising(everHeard \o <<h.of>>, Rises) /\ Rising(everHeard \o <<>>, Rises)
        /\ Rising(heard \o <<h.of>>, Rises) /\ Rising(heard \o <<>>, Rises)
    BY <1>1, <1>2, <2>2, RisesAppend DEF E
  <2>6. ASSUME UNCHANGED <<everHeard, heard>> PROVE Goal
    BY <1>1, <2>1, <2>4, <2>6 DEF E
  <2>7. ASSUME /\ E' = E \union (IF HasText(h) THEN {h.of} ELSE {})
               /\ everHeard' = everHeard \o (IF HasText(h) THEN <<h.of>> ELSE <<>>)
               /\ IF Tracked THEN /\ heard' = heard \o (IF HasText(h) THEN <<h.of>> ELSE <<>>)
                                  /\ Range(heard') = Range(heard) \union (IF HasText(h) THEN {h.of} ELSE {})
                  ELSE heard' = heard
        PROVE  Goal
    <3>1. Rising(everHeard', Rises) /\ Rising(heard', Rises)
      BY <1>1, <2>5, <2>7
    <3>2. Range(heard') \subseteq E'
      BY <1>1, <2>7
    <3>3. \A of \in E' : of \in E \/ (of = h.of /\ HasText(h))
      BY <2>7
    <3>4. \A of \in E' : /\ Upto(of)' /\ (Busy' => Earlier(of, loop'.of))
                         /\ \A m \in WM' \union QM' : Earlier(of, m.of)
      BY <1>1, <2>1, <2>3, <2>4, <3>3
    <3>. QED
      BY <3>1, <3>2, <3>4
  <2>. QED
    BY <2>1, <2>6, <2>7
<1>8. CASE Interrupt \/ AskIfThere
  <2>1. /\ UNCHANGED <<everHeard, turns, count, loop>> /\ (heard' = heard \/ heard' = <<>>)
        /\ WM' \subseteq WM /\ QM' = QM /\ (Busy' <=> Busy)
    BY <1>8, CutDoes DEF answerVars
  <2>. QED
    BY <1>3, <2>1
<1>9. CASE ClearData
  <2>1. UNCHANGED <<everHeard, turns, count, loop, heard>> /\ WM' = WM /\ QM' = QM /\ (Busy' <=> Busy)
    BY <1>9, ClearDataDoes DEF answerVars
  <2>. QED
    BY <1>3, <2>1
<1>10. CASE Sync
  <2>1. UNCHANGED <<everHeard, turns, count, loop>> /\ heard' = <<>> /\ WM' = WM /\ QM' = QM /\ (Busy' <=> Busy)
    BY <1>10, SyncDoes DEF answerVars
  <2>. QED
    BY <1>3, <2>1
<1>11. CASE Restart
  <2>1. UNCHANGED <<everHeard, turns, count, heard>> /\ WM' = WM /\ QM' = {} /\ ~Busy'
    BY <1>11, RestartDoes DEF answerVars
  <2>. QED
    BY <1>3, <2>1
<1>12. CASE Play
  <2>1. UNCHANGED <<everHeard, turns, count, heard, loop, queue>> /\ WM' = WM /\ (Busy' <=> Busy)
    BY <1>12, FarDoes DEF Play, answerVars
  <2>2. QM' = QM
    BY <2>1 DEF QM
  <2>. QED
    BY <1>3, <2>1, <2>2
<1>13. CASE Respond \/ Synthesize
  <2>1. /\ UNCHANGED <<everHeard, heard, loop>> /\ WM' = WM /\ (Busy' <=> Busy) /\ E' = E
    BY <1>13, FarDoes
  <2>2. Rising(everHeard', Rises) /\ Rising(heard', Rises) /\ Range(heard') \subseteq E'
    BY <1>1, <2>1
  <2>3. /\ turns \in Seq(Responses) /\ Newest \in Nat /\ count \in Nat
        /\ \A of \in E : of[1] \in Nat /\ of[2] \in Nat
    BY <1>2, ChunkNumbers, BoundsAssumption DEF TypeInv, FlushInv, GoodAnswers, Newest
  <2>4. CASE Respond
    <3>1. Newest' = Newest + 1 /\ QM' = QM
      BY <2>3, <2>4 DEF Respond, Newest, QM
    <3>2. \A of \in E : Upto(of)'
      BY <1>1, <2>3, <3>1 DEF Upto
    <3>. QED
      BY <1>1, <2>1, <2>2, <3>1, <3>2
  <2>5. CASE Synthesize
    <3>1. PICK x \in ChunkType : QM' = QM \union {x} /\ x.of = <<Newest, count + 1>>
      BY <2>5, SynthesizeDoes
    <3>2. Newest' = Newest /\ count' = count + 1
      BY <2>5 DEF Synthesize, Newest
    <3>3. \A of \in E : Upto(of)' /\ Earlier(of, x.of)
      BY <1>1, <2>3, <3>1, <3>2 DEF Upto, Earlier
    <3>. QED
      BY <1>1, <2>1, <2>2, <3>1, <3>3
  <2>. QED
    BY <1>13, <2>4, <2>5
<1>. HIDE DEF Goal
<1>. QED
  BY OffTrunk, <1>4, <1>5, <1>6, <1>7, <1>8, <1>9, <1>10, <1>11, <1>12, <1>13

-----------------------------------------------------------------------------
(* The call is on the telephone, nothing was late, and each turn has one       *)
(* response: this was so before each step.                                     *)
Followed == Tracked /\ ~late /\ IsInjective(turns)

LEMMA FollowedBefore ==
  ASSUME TypeInv, OrderInv, Next, Followed'
  PROVE  /\ Followed /\ ~Sip /\ skipped \subseteq skipped' /\ Skips \subseteq Skips'
         /\ (Take \/ SendMedia => cut = "no") /\ (Respond => cut = "no")
<1>1. handler' = handler
  BY DEF Next, Respond, Synthesize, Take, SendMedia, SendPost, Buffered, SendOn, Xoff, Xon, Drain, TrunkOnly, Play,
     Echo, Settle, Interrupt, AskIfThere, ClearData, Sync, Restart
<1>2. Tracked /\ ~Sip
  BY <1>1 DEF Followed, Tracked, Sip
<1>3. ~late /\ (Take \/ SendMedia => cut = "no")
  BY Lately DEF Followed
<1>4. turns \in Seq(Responses)
  BY DEF TypeInv, FlushInv, GoodAnswers
<1>5. CASE Respond
  <2>1. IsInjective(turns')
    BY DEF Followed
  <2>2. PICK t : turns' = Append(turns, t)
    BY <1>5 DEF Respond
  <2>3. PICK n \in Nat : n = Len(turns) /\ DOMAIN turns = 1..n
    BY <1>4
  <2>4. /\ DOMAIN turns' = 1..(n + 1) /\ \A i \in 1..n : turns'[i] = turns[i]
        /\ turns'[n + 1] = t
    BY <1>4, <2>2, <2>3
  <2>5. IsInjective(turns)
    BY <2>1, <2>3, <2>4 DEF IsInjective
  <2>6. cut = "no"
    <3>1. SUFFICES ASSUME cut # "no" PROVE FALSE
      OBVIOUS
    <3>2. Newest > 0 /\ turns' = Append(turns, Last(turns))
      BY <1>2, <1>5, <3>1 DEF Respond
    <3>3. n > 0 /\ turns'[n + 1] = turns[n] /\ turns'[n] = turns[n]
      BY <1>4, <2>3, <2>4, <3>2 DEF Newest, Last
    <3>4. n + 1 \in DOMAIN turns' /\ n \in DOMAIN turns' /\ n # n + 1
      BY <2>3, <2>4, <3>3
    <3>. QED
      BY <2>1, <3>3, <3>4 DEF IsInjective
  <2>. QED
    BY <1>2, <1>3, <2>5, <2>6, SkippedStays DEF Followed
<1>6. CASE ~Respond
  <2>1. turns' = turns
    BY <1>6 DEF Next, Synthesize, Take, SendMedia, SendPost, Buffered, SendOn, Xoff, Xon, Drain, TrunkOnly, Play,
       Echo, Settle, Interrupt, AskIfThere, ClearData, Sync, Restart, answerVars
  <2>. QED
    BY <1>2, <1>3, <1>6, <2>1, SkippedStays DEF Followed
<1>. QED
  BY <1>5, <1>6

(* What the loop has in hand may be sent; or an interruption has come between, *)
(* and the loop is stopped or the audio was cleared.                           *)
LoopInv == /\ Tracked /\ Busy => HasText(InHand)
           /\ Followed => /\ cut = "flushing" => valid = {}
                          /\ Busy /\ loop.of[1] \notin valid =>
                               (loop.pc = "media" /\ loop.of \in skipped) \/ (loop.pc = "pre" /\ cut = "flushing")

LEMMA InitLoop == Init => LoopInv
  BY DEF Init, LoopInv, Busy, Idle

LEMMA LoopStep == TypeInv /\ OrderInv /\ LostInv /\ LoopInv /\ Next => LoopInv'
<1>. SUFFICES ASSUME TypeInv, OrderInv, LostInv, LoopInv, Next
              PROVE  LoopInv'
  OBVIOUS
<1>1. handler' = handler
  BY DEF Next, Respond, Synthesize, Take, SendMedia, SendPost, Buffered, SendOn, Xoff, Xon, Drain, TrunkOnly, Play,
     Echo, Settle, Interrupt, AskIfThere, ClearData, Sync, Restart
<1>2. ASSUME Tracked, Busy' PROVE HasText(InHand')
  <2>1. ~Sip
    BY <1>2 DEF Tracked, Sip
  <2>2. CASE Take
    BY <1>2, <2>1, <2>2, TakeMarks DEF HasText
  <2>3. CASE SendMedia
    BY <1>2, <2>1, <2>3, SendMediaDoes DEF LoopInv, HasText
  <2>4. CASE SendPost \/ Restart
    BY <1>2, <2>1, <2>4, SendPostDoes, RestartDoes
  <2>5. CASE ~Take /\ ~SendMedia /\ ~SendPost /\ ~Restart
    <3>1. InHand' = InHand /\ (Busy' <=> Busy)
      BY <2>1, <2>5, OffTrunk, EchoHears, CutDoes, ClearDataDoes, SyncDoes, FarDoes
    <3>. QED
      BY <1>2, <3>1 DEF LoopInv, HasText
  <2>. QED
    BY <2>2, <2>3, <2>4, <2>5
<1>. SUFFICES ASSUME Followed'
              PROVE  /\ cut' = "flushing" => valid' = {}
                     /\ Busy' /\ loop'.of[1] \notin valid' =>
                          (loop'.pc = "media" /\ loop'.of \in skipped') \/ (loop'.pc = "pre" /\ cut' = "flushing")
  BY <1>1, <1>2 DEF LoopInv, Tracked
<1>3. /\ Followed /\ ~Sip /\ ~late /\ skipped \subseteq skipped'
      /\ (Take \/ SendMedia => cut = "no") /\ (Respond => cut = "no")
      /\ cut = "flushing" => valid = {}
      /\ Busy /\ loop.of[1] \notin valid =>
           (loop.pc = "media" /\ loop.of \in skipped) \/ (loop.pc = "pre" /\ cut = "flushing")
      /\ cut # "no" /\ loop.pc = "media" => loop.of \in skipped
      /\ loop.pc \in {"idle", "pre", "media"}
  BY FollowedBefore, WireTypes DEF LoopInv, LostInv, Followed
<1>4. CASE Take
  <2>1. PICK c \in AllMarks :
         /\ cut' = cut /\ valid' = valid
         /\ Busy' => loop'.of = c.of /\ (c.of[1] \in valid \/ c.kind = "end") /\ (Tracked => c.kind # "end")
    BY <1>3, <1>4, TakeMarks
  <2>. QED
    BY <1>3, <1>4, <2>1 DEF Followed
<1>5. CASE SendMedia
  BY <1>3, <1>5, SendMediaDoes
<1>6. CASE SendPost
  BY <1>3, <1>6, SendPostDoes
<1>7. CASE Echo
  BY <1>3, <1>7, EchoHears
<1>8. CASE Interrupt \/ AskIfThere
  BY <1>3, <1>8, CutDoes
<1>9. CASE ClearData
  BY <1>3, <1>9, ClearDataDoes
<1>10. CASE Sync
  BY <1>3, <1>10, SyncDoes DEF Busy
<1>11. CASE Restart
  BY <1>3, <1>11, RestartDoes
<1>12. CASE Respond
  <2>1. cut = "no" /\ cut' = cut /\ loop' = loop /\ valid \subseteq valid' /\ (Busy' <=> Busy)
    BY <1>3, <1>12 DEF Respond, Busy
  <2>. QED
    BY <1>3, <2>1
<1>13. CASE Play \/ Synthesize
  <2>1. cut' = cut /\ loop' = loop /\ valid' = valid /\ (Busy' <=> Busy)
    BY <1>13 DEF Play, Synthesize, Busy, answerVars
  <2>. QED
    BY <1>3, <2>1
<1>. QED
  BY <1>3, OffTrunk, <1>4, <1>5, <1>6, <1>7, <1>8, <1>9, <1>10, <1>11, <1>12, <1>13

-----------------------------------------------------------------------------
(* What was heard is before what is registered; what is kept or has been, is   *)
(* kept with all before it; and all before what is to come is kept or to come. *)
Kept(of) == of \in E \/ \E m \in MM \union CM : HasText(m) /\ m.of = of
Held(of) == Kept(of) \/ (Busy /\ loop.of = of) \/ \E q \in QM : q.of = of
BeforeInv == Followed =>
  \A of \in E, m \in MM \union CM : HasText(m) /\ of[1] = m.of[1] /\ of[1] \notin Skips => Earlier(of, m.of)
KeptInv == Followed => \A r \in Responses \ Skips :
  /\ \A k \in Nat : Kept(<<r, k>>) => \A j \in 1..(k - 1) : Kept(<<r, j>>)
  /\ r \in valid =>
       /\ \A q \in QM : q.of[1] = r => \A j \in 1..(q.of[2] - 1) : Held(<<r, j>>)
       /\ Busy /\ loop.of[1] = r => \A j \in 1..(loop.of[2] - 1) : Held(<<r, j>>)
       /\ r = Newest /\ ~done => \A j \in 1..count : Held(<<r, j>>)

LEMMA InitKept == Init => BeforeInv /\ KeptInv
  BY RangeEmpty DEF Init, BeforeInv, KeptInv, Kept, E, MM, CM, Followed

LEMMA SkipsHas == ASSUME NEW of \in skipped PROVE of[1] \in Skips
  BY DEF Skips

LEMMA BeforeStep == TypeInv /\ OrderInv /\ Calm /\ LostInv /\ HeardInv /\ BeforeInv /\ Next => BeforeInv'
<1>. SUFFICES ASSUME TypeInv, OrderInv, Calm, LostInv, HeardInv, BeforeInv, Next, Followed'
              PROVE  \A of \in E', m \in MM' \union CM' :
                       HasText(m) /\ of[1] = m.of[1] /\ of[1] \notin Skips' => Earlier(of, m.of)
  BY DEF BeforeInv, HasText, Earlier
<1>1. /\ Followed /\ ~Sip /\ ~late /\ skipped \subseteq skipped' /\ Skips \subseteq Skips'
      /\ Wires /\ Out
  BY FollowedBefore DEF Followed, OrderInv
<1>2. /\ \A of \in E, m \in MM \union CM : HasText(m) /\ of[1] = m.of[1] /\ of[1] \notin Skips => Earlier(of, m.of)
      /\ \A m \in WM, n \in MM \ WM : m.of \in skipped \/ Foregoes(m, n)
      /\ cut \in {"syncing", "flushing"} => \A m \in MM : m.of \in skipped
      /\ cut # "syncing" => CM = {}
      /\ \A of \in E : Busy => Earlier(of, loop.of)
  BY <1>1, RangeEmpty DEF BeforeInv, LostInv, Calm, HeardInv, CM
<1>3. ASSUME E' = E, \A m \in MM' \union CM' : HasText(m) => m \in MM \union CM
      PROVE  \A of \in E', m \in MM' \union CM' :
                       HasText(m) /\ of[1] = m.of[1] /\ of[1] \notin Skips' => Earlier(of, m.of)
  BY <1>1, <1>2, <1>3
<1>4. CASE Take
  <2>1. E' = E
    BY <1>1, <1>4, TakeMarks DEF E
  <2>2. /\ CM' = CM
        /\ MM' = MM \/ \E x \in AllMarks : MM' = MM \union {x} /\ x.kind \in {"end", "pre"}
    BY <1>1, <1>4, TakeMarks
  <2>3. \A m \in MM' \union CM' : HasText(m) => m \in MM \union CM
    BY <2>2 DEF HasText
  <2>. QED
    BY <1>3, <2>1, <2>3
<1>5. CASE SendMedia
  <2>1. E' = E /\ MM' = MM /\ CM' = CM
    BY <1>1, <1>5, SendMediaDoes DEF E, CM
  <2>. QED
    BY <1>3, <2>1
<1>6. CASE SendPost
  <2>0. PICK x : x = InHand
    OBVIOUS
  <2>1. E' = E /\ MM' = MM \union {x} /\ CM' = CM /\ Busy /\ x.of = loop.of
    BY <1>1, <1>6, <2>0, SendPostDoes DEF E, CM, InHand, Mark
  <2>. QED
    BY <1>1, <1>2, <2>1
<1>7. CASE Echo
  <2>1. PICK h \in AllMarks :
         /\ h \in WM /\ WM' = WM \ {h} /\ \A n \in WM' : Foregoes(h, n)
         /\ CM' = CM
         /\ \/ h \in MM /\ MM' = MM \ {h} /\ E' = E \union (IF HasText(h) THEN {h.of} ELSE {})
            \/ MM' = MM /\ E' = E
    BY <1>1, <1>7, EchoHears
  <2>2. CASE MM' = MM /\ E' = E
    BY <1>3, <2>1, <2>2
  <2>3. ASSUME h \in MM, MM' = MM \ {h}, HasText(h), NEW m \in MM' \union CM', HasText(m),
               h.of[1] \notin Skips'
        PROVE  Earlier(h.of, m.of)
    <3>1. h.of \notin skipped /\ h.kind # "pre"
      BY <1>1, <2>3, SkipsHas DEF HasText
    <3>2. m \in MM'
      BY <1>2, <2>1, <2>3, <3>1
    <3>3. Foregoes(h, m)
      BY <1>2, <2>1, <2>3, <3>1, <3>2
    <3>. QED
      BY <3>1, <3>3 DEF Foregoes, Ahead
  <2>4. CASE h \in MM /\ MM' = MM \ {h} /\ E' = E \union (IF HasText(h) THEN {h.of} ELSE {})
    BY <1>1, <1>2, <2>1, <2>3, <2>4
  <2>. QED
    BY <2>1, <2>2, <2>4
<1>8. CASE Interrupt \/ AskIfThere
  BY <1>1, <1>3, <1>8, CutDoes
<1>9. CASE ClearData
  <2>1. E' = E /\ MM' = {} /\ (CM' = MM \/ CM' = {})
    BY <1>1, <1>9, ClearDataDoes
  <2>. QED
    BY <1>3, <2>1
<1>10. CASE Sync
  BY <1>1, <1>3, <1>10, SyncDoes
<1>11. CASE Restart
  BY <1>1, <1>3, <1>11, RestartDoes
<1>12. CASE Play \/ Respond \/ Synthesize
  BY <1>1, <1>3, <1>12, FarDoes
<1>. QED
  BY <1>1, OffTrunk, <1>4, <1>5, <1>6, <1>7, <1>8, <1>9, <1>10, <1>11, <1>12

LEMMA KeptStep ==
  TypeInv /\ OrderInv /\ Calm /\ LostInv /\ HeardInv /\ LoopInv /\ BeforeInv /\ KeptInv /\ Next => KeptInv'
<1>. SUFFICES ASSUME TypeInv, OrderInv, Calm, LostInv, HeardInv, LoopInv, BeforeInv, KeptInv, Next, Followed',
                     NEW r \in Responses \ Skips'
              PROVE  /\ \A k \in Nat : Kept(<<r, k>>)' => \A j \in 1..(k - 1) : Kept(<<r, j>>)'
                     /\ r \in valid' =>
                          /\ \A q \in QM' : q.of[1] = r => \A j \in 1..(q.of[2] - 1) : Held(<<r, j>>)'
                          /\ Busy' /\ loop'.of[1] = r => \A j \in 1..(loop'.of[2] - 1) : Held(<<r, j>>)'
                          /\ r = Newest' /\ ~done' => \A j \in 1..count' : Held(<<r, j>>)'
  BY DEF KeptInv, Responses
<1>. DEFINE Goal1 == \A k \in Nat : Kept(<<r, k>>)' => \A j \in 1..(k - 1) : Kept(<<r, j>>)'
            Goal2 == r \in valid' =>
                       /\ \A q \in QM' : q.of[1] = r => \A j \in 1..(q.of[2] - 1) : Held(<<r, j>>)'
                       /\ Busy' /\ loop'.of[1] = r => \A j \in 1..(loop'.of[2] - 1) : Held(<<r, j>>)'
                       /\ r = Newest' /\ ~done' => \A j \in 1..count' : Held(<<r, j>>)'
<1>0. SUFFICES Goal1 /\ Goal2
  OBVIOUS
<1>1. /\ Followed /\ Tracked /\ ~Sip /\ ~late /\ skipped \subseteq skipped' /\ Skips \subseteq Skips'
      /\ Wires /\ Out /\ Handed /\ Queued
      /\ (Take \/ SendMedia => cut = "no") /\ (Respond => cut = "no")
  BY FollowedBefore DEF Followed, OrderInv
<1>2. /\ r \in Responses \ Skips /\ r \in Nat
      /\ \A k \in Nat : Kept(<<r, k>>) => \A j \in 1..(k - 1) : Kept(<<r, j>>)
      /\ r \in valid =>
           /\ \A q \in QM : q.of[1] = r => \A j \in 1..(q.of[2] - 1) : Held(<<r, j>>)
           /\ Busy /\ loop.of[1] = r => \A j \in 1..(loop.of[2] - 1) : Held(<<r, j>>)
           /\ r = Newest /\ ~done => \A j \in 1..count : Held(<<r, j>>)
  BY <1>1 DEF KeptInv, Responses
<1>3. /\ cut \in {"syncing", "flushing"} => \A m \in MM : m.of \in skipped
      /\ cut # "syncing" => CM = {}
      /\ cut = "flushing" => valid = {}
      /\ Busy /\ loop.of[1] \notin valid =>
           (loop.pc = "media" /\ loop.of \in skipped) \/ (loop.pc = "pre" /\ cut = "flushing")
      /\ Busy => HasText(InHand)
  BY <1>1, RangeEmpty DEF LostInv, Calm, LoopInv, CM
<1>. HIDE DEF KeptInv, LostInv, Calm, LoopInv, HeardInv
<1>4. ASSUME E' = E, MM' \union CM' = MM \union CM
      PROVE  \A of : Kept(of)' <=> Kept(of)
  BY <1>4 DEF Kept, HasText
<1>5. ASSUME \A of : Kept(of)' <=> Kept(of)
      PROVE  Goal1
  BY <1>2, <1>5
<1>6. ASSUME \A of : Kept(of)' <=> Kept(of), QM' = QM, Busy' <=> Busy, loop'.of = loop.of, valid' = valid,
             UNCHANGED answerVars
      PROVE  Goal1 /\ Goal2
  <2>1. \A of : Held(of)' <=> Held(of)
    BY <1>6 DEF Held
  <2>2. Newest' = Newest /\ done' = done /\ count' = count
    BY <1>6 DEF answerVars, Newest
  <2>3. r \in valid =>
           /\ \A q \in QM : q.of[1] = r => \A j \in 1..(q.of[2] - 1) : Held(<<r, j>>)'
           /\ Busy /\ loop.of[1] = r => \A j \in 1..(loop.of[2] - 1) : Held(<<r, j>>)'
           /\ r = Newest /\ ~done => \A j \in 1..count : Held(<<r, j>>)'
    BY <1>2, <2>1
  <2>4. Goal2
    BY <1>6, <2>2, <2>3
  <2>. QED
    BY <1>5, <1>6, <2>4
<1>7. CASE Take
  <2>1. PICK c \in AllMarks :
         /\ c.kind \in {"audio", "last", "end"} /\ c \in QM /\ QM = QM' \union {c} /\ ~Busy
         /\ \A q \in QM' : Ahead(c, q)
         /\ Made(c)
         /\ UNCHANGED <<answerVars, valid, everHeard>> /\ CM' = CM
         /\ \/ /\ c.of[1] \notin valid /\ c.kind # "end"
               /\ ~Busy' /\ MM' = MM
            \/ \E x \in AllMarks :
                    /\ x.of = c.of /\ MM' = MM \union {x}
                    /\ \/ c.kind = "end" /\ x = c /\ ~Busy'
                       \/ x.kind = "pre" /\ Busy' /\ loop'.of = c.of
    BY <1>1, <1>7, TakeMarks
  <2>2. E' = E /\ Newest' = Newest /\ done' = done /\ count' = count /\ valid' = valid
    BY <2>1 DEF E, answerVars, Newest
  <2>3. \A of : Kept(of)' <=> Kept(of)
    BY <2>1, <2>2 DEF Kept, HasText
  <2>4. \A of : Held(of) <=> Kept(of) \/ of = c.of \/ \E q \in QM' : q.of = of
    BY <2>1 DEF Held
  <2>5. CASE Busy' /\ loop'.of = c.of
    <3>1. \A of : Held(of)' <=> Held(of)
      BY <2>3, <2>4, <2>5 DEF Held
    <3>2. r \in valid =>
             /\ \A q \in QM : q.of[1] = r => \A j \in 1..(q.of[2] - 1) : Held(<<r, j>>)'
             /\ r = Newest /\ ~done => \A j \in 1..count : Held(<<r, j>>)'
      BY <1>2, <3>1
    <3>3. Goal2
      BY <2>1, <2>2, <2>5, <3>2
    <3>. QED
      BY <1>5, <2>3, <3>3
  <2>6. CASE ~Busy'
    <3>1. \A of : Held(of)' <=> Kept(of) \/ \E q \in QM' : q.of = of
      BY <2>3, <2>6 DEF Held
    <3>2. CASE r # c.of[1]
      <4>1. \A j : Held(<<r, j>>)' <=> Held(<<r, j>>)
        <5>1. \A j : <<r, j>> # c.of
          BY <3>2
        <5>. QED
          BY <2>4, <3>1, <5>1
      <4>2. r \in valid =>
               /\ \A q \in QM : q.of[1] = r => \A j \in 1..(q.of[2] - 1) : Held(<<r, j>>)'
               /\ r = Newest /\ ~done => \A j \in 1..count : Held(<<r, j>>)'
        BY <1>2, <4>1
      <4>3. Goal2
        BY <2>1, <2>2, <2>6, <4>2
      <4>. QED
        BY <1>5, <2>3, <4>3
    <3>3. CASE r = c.of[1] /\ r \in valid
      <4>1. c.kind = "end"
        BY <2>1, <2>6, <3>3
      <4>2. \A q \in QM' : q.of[1] # r
        <5>1. \A q \in QM' : c.of[1] < q.of[1]
          BY <2>1, <4>1 DEF Ahead, EndsAnswer
        <5>. QED
          BY <1>2, <3>3, <5>1
      <4>3. r = Newest => done
        BY <2>1, <3>3, <4>1 DEF Made, EndsAnswer
      <4>4. Goal2
        BY <2>2, <2>6, <4>2, <4>3
      <4>. QED
        BY <1>5, <2>3, <4>4
    <3>4. CASE r \notin valid
      BY <1>5, <2>2, <2>3, <3>4
    <3>. QED
      BY <3>2, <3>3, <3>4
  <2>. QED
    BY <2>1, <2>5, <2>6
<1>8. CASE SendMedia
  <2>1. /\ E' = E /\ MM' = MM /\ CM' = CM /\ QM' = QM /\ (Busy' <=> Busy) /\ loop'.of = loop.of /\ valid' = valid
        /\ UNCHANGED answerVars
    BY <1>1, <1>8, SendMediaDoes DEF E, CM
  <2>. QED
    BY <1>4, <1>6, <2>1
<1>9. CASE SendPost
  <2>0. PICK x : x = InHand
    OBVIOUS
  <2>1. /\ E' = E /\ MM' = MM \union {x} /\ CM' = CM /\ Busy /\ x.of = loop.of /\ HasText(x) /\ QM' = QM
        /\ ~Busy' /\ valid' = valid /\ UNCHANGED answerVars /\ loop.pc = "media" /\ loop.of \in Chunks
    BY <1>1, <1>3, <1>9, <2>0, SendPostDoes DEF E, CM, InHand, Mark, TypeInv, Looping
  <2>2. \A of : Kept(of)' <=> Kept(of) \/ of = loop.of
    BY <2>1 DEF Kept, HasText
  <2>3. \A of : Held(of)' <=> Held(of)
    BY <2>1, <2>2 DEF Held
  <2>4. Newest' = Newest /\ done' = done /\ count' = count
    BY <2>1 DEF answerVars, Newest
  <2>5. Goal2
    <3>1. r \in valid =>
             /\ \A q \in QM : q.of[1] = r => \A j \in 1..(q.of[2] - 1) : Held(<<r, j>>)'
             /\ r = Newest /\ ~done => \A j \in 1..count : Held(<<r, j>>)'
      BY <1>2, <2>3
    <3>. QED
      BY <2>1, <2>4, <3>1
  <2>6. ASSUME NEW k \in Nat, <<r, k>> = loop.of, NEW j \in 1..(k - 1)
        PROVE  Kept(<<r, j>>)
    <3>1. loop.of[1] = r /\ loop.of[2] = k
      BY <2>6
    <3>2. r \in valid
      <4>1. loop.of \notin skipped
        BY <1>2, <3>1, SkipsHas
      <4>. QED
        BY <1>3, <2>1, <3>1, <4>1
    <3>3. Held(<<r, j>>)
      BY <1>2, <2>1, <2>6, <3>1, <3>2
    <3>4. ASSUME NEW q \in QM, q.of = <<r, j>> PROVE FALSE
      <4>1. Earlier(loop.of, q.of)
        BY <1>1, <2>0, <2>1 DEF Handed, Ahead
      <4>. QED
        BY <1>2, <2>6, <3>1, <3>4, <4>1 DEF Earlier
    <3>5. <<r, j>> # loop.of
      BY <2>6, <3>1
    <3>. QED
      BY <3>3, <3>4, <3>5 DEF Held
  <2>7. Goal1
    <3>. SUFFICES ASSUME NEW k \in Nat, Kept(<<r, k>>)', NEW j \in 1..(k - 1) PROVE Kept(<<r, j>>)'
      OBVIOUS
    <3>1. Kept(<<r, k>>) \/ <<r, k>> = loop.of
      BY <2>2
    <3>2. Kept(<<r, j>>)
      BY <1>2, <2>6, <3>1
    <3>. QED
      BY <2>2, <3>2
  <2>. QED
    BY <2>5, <2>7
<1>10. CASE Echo
  <2>1. PICK h \in AllMarks :
         /\ QM' = QM /\ CM' = CM /\ (Busy' <=> Busy)
         /\ UNCHANGED <<answerVars, valid, loop>>
         /\ \/ h \in MM /\ MM' = MM \ {h} /\ E' = E \union (IF HasText(h) THEN {h.of} ELSE {})
            \/ MM' = MM /\ E' = E
    BY <1>1, <1>10, EchoHears
  <2>2. \A of : Kept(of)' <=> Kept(of)
    <3>1. CASE MM' = MM /\ E' = E
      BY <1>4, <2>1, <3>1
    <3>2. CASE h \in MM /\ MM' = MM \ {h} /\ E' = E \union (IF HasText(h) THEN {h.of} ELSE {})
      <4>1. CASE HasText(h)
        BY <2>1, <3>2, <4>1 DEF Kept, HasText
      <4>2. CASE ~HasText(h)
        BY <2>1, <3>2, <4>2 DEF Kept, HasText
      <4>. QED
        BY <4>1, <4>2
    <3>. QED
      BY <2>1, <3>1, <3>2
  <2>. QED
    BY <1>6, <2>1, <2>2
<1>11. CASE Interrupt \/ AskIfThere
  <2>1. E' = E /\ MM' = MM /\ CM' = CM /\ QM' = QM /\ (Busy' <=> Busy) /\ UNCHANGED <<loop, valid, answerVars>>
    BY <1>1, <1>11, CutDoes
  <2>. QED
    BY <1>4, <1>6, <2>1
<1>12. CASE ClearData
  <2>1. /\ E' = E /\ MM' = {} /\ QM' = QM /\ (Busy' <=> Busy) /\ UNCHANGED <<loop, valid, answerVars>>
        /\ CM = {} /\ (CM' = MM \/ (CM' = {} /\ \A m \in MM : m.of \in skipped'))
    BY <1>1, <1>3, <1>12, ClearDataDoes
  <2>2. CASE CM' = MM
    BY <1>4, <1>6, <2>1, <2>2
  <2>3. CASE CM' = {} /\ \A m \in MM : m.of \in skipped'
    <3>1. \A j : Kept(<<r, j>>)' <=> Kept(<<r, j>>)
      <4>1. \A m \in MM : m.of[1] # r
        BY <2>3 DEF Skips
      <4>. QED
        BY <2>1, <2>3, <4>1 DEF Kept
    <3>2. \A j : Held(<<r, j>>)' <=> Held(<<r, j>>)
      BY <2>1, <3>1 DEF Held
    <3>3. Goal1
      BY <1>2, <3>1
    <3>4. r \in valid =>
             /\ \A q \in QM : q.of[1] = r => \A j \in 1..(q.of[2] - 1) : Held(<<r, j>>)'
             /\ Busy /\ loop.of[1] = r => \A j \in 1..(loop.of[2] - 1) : Held(<<r, j>>)'
             /\ r = Newest /\ ~done => \A j \in 1..count : Held(<<r, j>>)'
      BY <1>2, <3>2
    <3>5. Newest' = Newest /\ done' = done /\ count' = count
      BY <2>1 DEF answerVars, Newest
    <3>6. Goal2
      BY <2>1, <3>4, <3>5
    <3>. QED
      BY <3>3, <3>6
  <2>. QED
    BY <2>1, <2>2, <2>3
<1>13. CASE Sync
  <2>1. E' = E /\ MM' = MM /\ CM' = {} /\ valid' = {} /\ \A m \in MM : m.of \in skipped
    BY <1>1, <1>3, <1>13, SyncDoes
  <2>2. \A k : Kept(<<r, k>>)' <=> <<r, k>> \in E
    <3>1. \A m \in MM : m.of[1] # r
      BY <1>2, <2>1, SkipsHas
    <3>. QED
      BY <2>1, <3>1 DEF Kept
  <2>3. ASSUME NEW k \in Nat, <<r, k>> \in E, NEW j \in 1..(k - 1) PROVE <<r, j>> \in E
    <3>1. Kept(<<r, j>>)
      BY <1>2, <2>3 DEF Kept
    <3>2. ASSUME NEW m \in MM \union CM, HasText(m), m.of = <<r, j>> PROVE FALSE
      <4>1. Earlier(<<r, k>>, <<r, j>>)
        BY <1>1, <1>2, <2>3, <3>2 DEF BeforeInv
      <4>. QED
        BY <1>2, <2>3, <4>1 DEF Earlier
    <3>. QED
      BY <3>1, <3>2 DEF Kept
  <2>. QED
    BY <2>1, <2>2, <2>3
<1>14. CASE Restart
  <2>1. /\ E' = E /\ MM' = MM /\ CM' = CM /\ QM' = {} /\ ~Busy' /\ valid' = valid /\ valid = {}
    BY <1>1, <1>3, <1>14, RestartDoes
  <2>. QED
    BY <1>4, <1>5, <2>1
<1>15. CASE Play
  <2>1. E' = E /\ MM' = MM /\ CM' = CM /\ (Busy' <=> Busy) /\ UNCHANGED <<loop, valid, answerVars, queue>>
    BY <1>1, <1>15, FarDoes DEF Play
  <2>2. QM' = QM
    BY <2>1 DEF QM
  <2>. QED
    BY <1>4, <1>6, <2>1, <2>2
<1>16. CASE Respond \/ Synthesize
  <2>1. E' = E /\ MM' = MM /\ CM' = CM /\ (Busy' <=> Busy) /\ UNCHANGED loop
    BY <1>1, <1>16, FarDoes
  <2>2. \A of : Kept(of)' <=> Kept(of)
    BY <1>4, <2>1
  <2>3. turns \in Seq(Responses) /\ Newest \in Nat /\ count \in Nat /\ Newest = Len(turns)
    BY BoundsAssumption DEF TypeInv, FlushInv, GoodAnswers, Newest
  <2>4. CASE Respond
    <3>1. Newest' = Newest + 1 /\ QM' = QM /\ valid' = valid \union {Newest + 1} /\ count' = 0
      BY <2>3, <2>4 DEF Respond, Newest, QM
    <3>2. \A of : Held(of)' <=> Held(of)
      BY <2>1, <2>2, <3>1 DEF Held
    <3>3. CASE r = Newest + 1
      <4>1. \A q \in QM : q.of[1] # r
        BY <1>1, <2>3, <3>3, QueueNumbers
      <4>2. Busy => loop.of[1] # r
        <5>1. Busy => InHand.of = loop.of /\ loop.of \in Chunks /\ Upto(InHand.of)
          BY <1>1 DEF Handed, Made, InHand, Mark, TypeInv, Looping
        <5>2. Busy => loop.of[1] \in Nat /\ loop.of[1] <= Newest
          BY <5>1, ChunkNumbers DEF Upto
        <5>. QED
          BY <2>3, <3>3, <5>2
      <4>3. Goal2
        BY <2>1, <3>1, <4>1, <4>2
      <4>. QED
        BY <1>5, <2>2, <4>3
    <3>4. CASE r # Newest + 1
      <4>1. r \in valid =>
               /\ \A q \in QM : q.of[1] = r => \A j \in 1..(q.of[2] - 1) : Held(<<r, j>>)'
               /\ Busy /\ loop.of[1] = r => \A j \in 1..(loop.of[2] - 1) : Held(<<r, j>>)'
        BY <1>2, <3>2
      <4>2. Goal2
        BY <2>1, <3>1, <3>4, <4>1
      <4>. QED
        BY <1>5, <2>2, <4>2
    <3>. QED
      BY <3>3, <3>4
  <2>5. CASE Synthesize
    <3>1. PICK x \in ChunkType : QM' = QM \union {x} /\ x.of = <<Newest, count + 1>>
      BY <2>5, SynthesizeDoes
    <3>2. Newest' = Newest /\ count' = count + 1 /\ valid' = valid /\ ~done
      BY <2>5 DEF Synthesize, Newest
    <3>3. \A of : Held(of) => Held(of)'
      BY <2>1, <2>2, <3>1 DEF Held
    <3>4. \A of : of = <<Newest, count + 1>> => Held(of)'
      BY <3>1 DEF Held
    <3>5. r \in valid =>
             /\ \A q \in QM : q.of[1] = r => \A j \in 1..(q.of[2] - 1) : Held(<<r, j>>)'
             /\ Busy /\ loop.of[1] = r => \A j \in 1..(loop.of[2] - 1) : Held(<<r, j>>)'
             /\ r = Newest => \A j \in 1..count : Held(<<r, j>>)'
      BY <1>2, <3>2, <3>3
    <3>6. \A j \in 1..(count + 1) : j \in 1..count \/ j = count + 1
      BY <2>3
    <3>7. x.of[1] = Newest /\ x.of[2] - 1 = count
      BY <2>3, <3>1
    <3>8. ASSUME r \in valid' PROVE \A q \in QM' : q.of[1] = r => \A j \in 1..(q.of[2] - 1) : Held(<<r, j>>)'
      <4>. SUFFICES ASSUME NEW q \in QM', q.of[1] = r, NEW j \in 1..(q.of[2] - 1) PROVE Held(<<r, j>>)'
        OBVIOUS
      <4>1. CASE q \in QM
        BY <3>2, <3>5, <3>8, <4>1
      <4>2. CASE q = x
        <5>1. r = Newest /\ j \in 1..count
          BY <3>7, <4>2
        <5>. QED
          BY <3>2, <3>5, <3>8, <5>1
      <4>. QED
        BY <3>1, <4>1, <4>2
    <3>9. r \in valid /\ r = Newest => \A j \in 1..(count + 1) : Held(<<r, j>>)'
      BY <3>4, <3>5, <3>6
    <3>10. Goal2
      BY <2>1, <3>2, <3>5, <3>8, <3>9
    <3>. QED
      BY <1>5, <2>2, <3>10
  <2>. QED
    BY <1>16, <2>4, <2>5
<1>. HIDE DEF Goal1, Goal2
<1>. QED
  BY <1>1, OffTrunk, <1>7, <1>8, <1>9, <1>10, <1>11, <1>12, <1>13, <1>14, <1>15, <1>16

-----------------------------------------------------------------------------
(* What is forgotten: of a response some of which the input handler remembers  *)
(* it remembers all; and of one some of which it has forgotten, at a question  *)
(* whether the caller is there, no more is to be heard. A question comes only  *)
(* when the agent is silent.                                                   *)
ToHear(r) ==
  \/ \E m \in WM \intersect MM : HasText(m) /\ m.of[1] = r
  \/ r \in valid /\ \/ Busy /\ loop.of[1] = r
                    \/ \E q \in QM : q.of[1] = r
                    \/ r = Newest /\ ~done
HM == Range(heard)
ForgottenInv == Followed =>
  /\ \A r \in Responses \ Skips :
       /\ (\E of \in HM : of[1] = r) => \A of \in E : of[1] = r => of \in HM
       /\ (\E of \in E : of[1] = r /\ of \notin HM) => ~ToHear(r)
       /\ cut = "no" /\ (\E of \in E : of[1] = r) /\ ToHear(r) => playing
  /\ cut = "asking" => \A of \in HM : of[1] \in Skips

LEMMA InitForgotten == Init => ForgottenInv
  BY RangeEmpty DEF Init, ForgottenInv, E, HM

(* After the end of a response nothing of it is to be heard. *)
LEMMA EndsHearing ==
  ASSUME TypeInv, OrderInv, HeardInv, Next, Echo, ~Sip, NEW h \in AllMarks, h \in WM, EndsAnswer(h),
         \A n \in WM' : Foregoes(h, n), QM' = QM, Busy' <=> Busy, UNCHANGED <<answerVars, valid, loop>>,
         NEW of \in E \union {h.of}, ToHear(of[1])'
  PROVE  FALSE
<1>1. /\ of[1] \in Nat /\ h.of[1] \in Nat /\ of[1] <= h.of[1] /\ E \subseteq Chunks /\ h.of \in Chunks
  <2>1. \A o \in E : Earlier(o, h.of)
    BY DEF HeardInv
  <2>2. h.of \in Chunks /\ E \subseteq Chunks
    BY AllMarksAre, SetsTyped
  <2>3. of \in Chunks /\ (of = h.of \/ Earlier(of, h.of))
    BY <2>1, <2>2
  <2>. QED
    BY <2>2, <2>3, ChunkNumbers DEF Earlier
<1>2. h.kind # "pre" /\ \A n : Foregoes(h, n) => h.of[1] < n.of[1]
  <2>1. h.kind # "pre"
    BY DEF EndsAnswer
  <2>. QED
    BY <2>1 DEF Foregoes, Ahead
<1>3. /\ Busy => Foregoes(h, InHand) /\ InHand.of = loop.of /\ loop.of \in Chunks
      /\ \A q \in QM : Ahead(h, q) /\ q.of \in Chunks
      /\ Made(h) /\ \A n \in WM : n.of \in Chunks
  BY SetsTyped, AllMarksAre DEF OrderInv, Out, InHand, Mark, TypeInv, Looping
<1>4. ASSUME NEW n, n.of \in Chunks, Foregoes(h, n), n.of[1] = of[1] PROVE FALSE
  BY <1>1, <1>2, <1>4, ChunkNumbers
<1>5. \A q \in QM : q.of[1] # of[1]
  <2>1. \A q \in QM : Foregoes(h, q)
    BY <1>3 DEF Foregoes
  <2>. QED
    BY <1>3, <1>4, <2>1
<1>6. Busy => loop.of[1] # of[1]
  BY <1>3, <1>4
<1>7. of[1] = Newest => done
  BY <1>1, <1>3 DEF Made, Upto, TypeInv, FlushInv, GoodAnswers, Newest
<1>8. \A m \in WM' : m \in WM /\ m.of[1] # of[1]
  <2>1. WM' \subseteq WM
    BY EchoHears
  <2>. QED
    BY <1>3, <1>4, <2>1
<1>9. Newest' = Newest /\ done' = done
  BY DEF answerVars, Newest
<1>. QED
  BY <1>5, <1>6, <1>7, <1>8, <1>9 DEF ToHear

LEMMA ForgottenStep ==
  TypeInv /\ OrderInv /\ Calm /\ LostInv /\ PreInv /\ HeardInv /\ LoopInv /\ ForgottenInv /\ Next => ForgottenInv'
<1>. SUFFICES ASSUME TypeInv, OrderInv, Calm, LostInv, PreInv, HeardInv, LoopInv, ForgottenInv, Next, Followed'
              PROVE  /\ \A r \in Responses \ Skips' :
                          /\ (\E of \in HM' : of[1] = r) => \A of \in E' : of[1] = r => of \in HM'
                          /\ (\E of \in E' : of[1] = r /\ of \notin HM') => ~ToHear(r)'
                          /\ cut' = "no" /\ (\E of \in E' : of[1] = r) /\ ToHear(r)' => playing'
                     /\ cut' = "asking" => \A of \in HM' : of[1] \in Skips'
  BY DEF ForgottenInv, Responses
<1>. DEFINE Goal(r) == /\ (\E of \in HM' : of[1] = r) => \A of \in E' : of[1] = r => of \in HM'
                       /\ (\E of \in E' : of[1] = r /\ of \notin HM') => ~ToHear(r)'
                       /\ cut' = "no" /\ (\E of \in E' : of[1] = r) /\ ToHear(r)' => playing'
            Asked == cut' = "asking" => \A of \in HM' : of[1] \in Skips'
<1>0. SUFFICES (\A r \in Responses \ Skips' : Goal(r)) /\ Asked
  OBVIOUS
<1>1. /\ Followed /\ Tracked /\ ~Sip /\ ~late /\ ~late' /\ skipped \subseteq skipped' /\ Skips \subseteq Skips'
      /\ Wires /\ Out /\ Handed /\ Queued
      /\ (Take \/ SendMedia => cut = "no") /\ (Respond => cut = "no")
  BY FollowedBefore DEF Followed, OrderInv
<1>2. /\ \A r \in Responses \ Skips :
           /\ (\E of \in HM : of[1] = r) => \A of \in E : of[1] = r => of \in HM
           /\ (\E of \in E : of[1] = r /\ of \notin HM) => ~ToHear(r)
           /\ cut = "no" /\ (\E of \in E : of[1] = r) /\ ToHear(r) => playing
      /\ cut = "asking" => \A of \in HM : of[1] \in Skips
  BY <1>1 DEF ForgottenInv
<1>3. /\ cut \in {"syncing", "flushing"} => \A m \in MM : m.of \in skipped
      /\ cut = "flushing" => valid = {}
      /\ Busy /\ loop.of[1] \notin valid =>
           (loop.pc = "media" /\ loop.of \in skipped) \/ (loop.pc = "pre" /\ cut = "flushing")
      /\ cut \in {"no", "asking"} => \A m \in WM \intersect MM : HasText(m) /\ m.of \notin skipped =>
           PreOf(m) \in WM \intersect MM \/ (cut = "no" /\ playing /\ First(m))
  BY <1>1 DEF LostInv, LoopInv, PreInv
<1>. HIDE DEF ForgottenInv, LostInv, Calm, LoopInv, PreInv
<1>4. ASSUME E' = E, HM' = HM, cut' = cut, playing => playing',
             \A r \in Responses \ Skips' : (\E of \in E : of[1] = r) /\ ToHear(r)' => ToHear(r)
      PROVE  (\A r \in Responses \ Skips' : Goal(r)) /\ Asked
  BY <1>1, <1>2, <1>4
<1>5. UNCHANGED answerVars => Newest' = Newest /\ done' = done
  BY DEF answerVars, Newest
<1>6. CASE Take
  <2>1. PICK c \in AllMarks :
         /\ c \in QM /\ QM = QM' \union {c}
         /\ UNCHANGED <<answerVars, valid, everHeard, heard, cut>> /\ (playing => playing')
         /\ \/ ~Busy' /\ MM' = MM /\ WM' = WM
            \/ \E x \in AllMarks :
                    /\ MM' = MM \union {x} /\ WM' = WM \union {x}
                    /\ \/ x.kind = "end" /\ ~Busy'
                       \/ x.kind = "pre" /\ Busy' /\ loop'.of = c.of
    BY <1>1, <1>6, TakeMarks
  <2>2. E' = E /\ HM' = HM
    BY <2>1 DEF E, HM
  <2>3. \A m \in WM' \intersect MM' : HasText(m) => m \in WM \intersect MM
    BY <2>1 DEF HasText
  <2>4. \A r : ToHear(r)' => ToHear(r)
    BY <1>5, <2>1, <2>3 DEF ToHear, HasText
  <2>. QED
    BY <1>4, <2>1, <2>2, <2>4
<1>7. CASE SendMedia
  <2>1. /\ UNCHANGED <<answerVars, valid, everHeard, heard, cut>> /\ (playing => playing')
        /\ MM' = MM /\ WM' = WM /\ QM' = QM /\ Busy /\ loop'.of = loop.of
    BY <1>1, <1>7, SendMediaDoes
  <2>2. E' = E /\ HM' = HM
    BY <2>1 DEF E, HM
  <2>3. \A r : ToHear(r)' => ToHear(r)
    BY <1>5, <2>1 DEF ToHear, HasText
  <2>. QED
    BY <1>4, <2>1, <2>2, <2>3
<1>8. CASE SendPost
  <2>0. PICK x : x = InHand
    OBVIOUS
  <2>1. /\ UNCHANGED <<answerVars, valid, everHeard, heard, cut>> /\ (playing => playing')
        /\ MM' = MM \union {x} /\ WM' = WM \union {x} /\ QM' = QM /\ Busy /\ ~Busy' /\ x.of = loop.of
        /\ loop.pc = "media"
    BY <1>1, <1>8, <2>0, SendPostDoes DEF InHand, Mark
  <2>2. E' = E /\ HM' = HM
    BY <2>1 DEF E, HM
  <2>3. ASSUME NEW r \in Responses \ Skips', ToHear(r)' PROVE ToHear(r)
    <3>1. loop.of[1] = r => r \in valid
      <4>1. loop.of[1] = r => loop.of \notin skipped
        BY <1>1, SkipsHas
      <4>. QED
        BY <1>3, <2>1, <4>1
    <3>2. CASE \E m \in WM' \intersect MM' : HasText(m) /\ m.of[1] = r
      BY <2>1, <3>1, <3>2 DEF ToHear
    <3>3. CASE r \in valid /\ ((\E q \in QM : q.of[1] = r) \/ (r = Newest /\ ~done))
      BY <3>3 DEF ToHear
    <3>. QED
      BY <1>5, <2>1, <2>3, <3>2, <3>3 DEF ToHear, HasText
  <2>. QED
    BY <1>4, <2>1, <2>2, <2>3
<1>9. CASE Echo
  <2>1. PICK h \in AllMarks :
         /\ h \in WM /\ WM' = WM \ {h} /\ \A n \in WM' : Foregoes(h, n)
         /\ QM' = QM /\ (Busy' <=> Busy)
         /\ UNCHANGED <<answerVars, valid, loop, cut>>
         /\ \/ /\ h \in MM /\ MM' = MM \ {h}
               /\ E' = E \union (IF HasText(h) THEN {h.of} ELSE {})
               /\ HM' = HM \union (IF HasText(h) THEN {h.of} ELSE {})
               /\ playing' <=> ~EndsAnswer(h) /\ (playing \/ h.kind = "pre")
            \/ /\ h \notin MM /\ MM' = MM /\ E' = E /\ HM' = HM
               /\ (playing' <=> playing)
    BY <1>1, <1>9, EchoHears DEF HM
  <2>2. \A r : ToHear(r)' => ToHear(r)
    BY <1>5, <2>1 DEF ToHear, HasText
  <2>3. CASE /\ h \notin MM /\ MM' = MM /\ E' = E /\ HM' = HM
             /\ (playing' <=> playing)
    BY <1>4, <2>1, <2>2, <2>3
  <2>4. ASSUME EndsAnswer(h), NEW of \in E \union {h.of}, ToHear(of[1])' PROVE FALSE
    BY <1>1, <1>9, <2>1, <2>4, EndsHearing
  <2>5. CASE /\ h \in MM /\ ~HasText(h) /\ E' = E /\ HM' = HM
             /\ playing' <=> ~EndsAnswer(h) /\ (playing \/ h.kind = "pre")
    <3>1. ASSUME NEW r \in Responses \ Skips' PROVE Goal(r)
      <4>1. r \in Responses \ Skips
        BY <1>1
      <4>2. cut' = "no" /\ (\E of \in E' : of[1] = r) /\ ToHear(r)' => playing'
        BY <1>2, <2>1, <2>2, <2>4, <2>5, <4>1
      <4>. QED
        BY <1>2, <2>2, <2>5, <4>1, <4>2
    <3>. QED
      BY <1>1, <1>2, <2>1, <2>5, <3>1
  <2>6. CASE /\ h \in MM /\ HasText(h) /\ E' = E \union {h.of} /\ HM' = HM \union {h.of}
             /\ playing' <=> ~EndsAnswer(h) /\ (playing \/ h.kind = "pre")
    <3>1. ToHear(h.of[1])
      BY <2>1, <2>6 DEF ToHear
    <3>2. ASSUME h.of[1] \notin Skips', cut \in {"no", "asking"} PROVE cut = "no" /\ playing
      <4>1. h.of \notin skipped
        BY <1>1, <3>2, SkipsHas
      <4>2. PreOf(h) \in WM \intersect MM \/ (cut = "no" /\ playing /\ First(h))
        BY <1>3, <2>1, <2>6, <3>2, <4>1
      <4>3. PreOf(h) \notin WM
        <5>1. SUFFICES ASSUME PreOf(h) \in WM PROVE FALSE
          OBVIOUS
        <5>2. PreOf(h) # h
          BY <2>6 DEF PreOf, Mark, HasText
        <5>. QED
          BY <2>1, <2>6, <5>1, <5>2, FirstMark
      <4>. QED
        BY <4>2, <4>3
    <3>3. ASSUME NEW r \in Responses \ Skips' PROVE Goal(r)
      <4>1. r \in Responses \ Skips
        BY <1>1
      <4>2. (\E of \in HM' : of[1] = r) => \A of \in E' : of[1] = r => of \in HM'
        <5>1. CASE r = h.of[1]
          <6>1. \A of \in E : of[1] = r => of \in HM
            BY <1>2, <3>1, <4>1, <5>1
          <6>. QED
            BY <2>6, <6>1
        <5>2. CASE r # h.of[1]
          BY <1>2, <2>6, <4>1, <5>2
        <5>. QED
          BY <5>1, <5>2
      <4>3. (\E of \in E' : of[1] = r /\ of \notin HM') => ~ToHear(r)'
        BY <1>2, <2>2, <2>6, <4>1
      <4>4. ASSUME cut' = "no", NEW of \in E', of[1] = r, ToHear(r)' PROVE playing'
        <5>1. ~EndsAnswer(h)
          BY <2>4, <2>6, <4>4
        <5>2. playing
          <6>1. CASE of \in E
            BY <1>2, <2>1, <2>2, <4>1, <4>4, <6>1
          <6>2. CASE of = h.of
            BY <2>1, <3>2, <4>4, <6>2
          <6>. QED
            BY <2>6, <4>4, <6>1, <6>2
        <5>. QED
          BY <2>6, <5>1, <5>2
      <4>. QED
        BY <4>2, <4>3, <4>4
    <3>4. Asked
      BY <1>1, <1>2, <2>1, <2>6, <3>2
    <3>. QED
      BY <3>3, <3>4
  <2>. QED
    BY <2>1, <2>3, <2>5, <2>6
<1>10. CASE Interrupt \/ AskIfThere
  <2>1. /\ cut = "no" /\ MM' = MM /\ QM' = QM /\ E' = E /\ (Busy' <=> Busy)
        /\ UNCHANGED <<answerVars, valid, loop>>
        /\ WM' \subseteq WM
        /\ \/ cut' = "clearing" /\ heard' = heard
           \/ cut' = "asking" /\ heard' = <<>> /\ ~playing
    BY <1>1, <1>10, CutDoes
  <2>2. \A r : ToHear(r)' => ToHear(r)
    BY <1>5, <2>1 DEF ToHear, HasText
  <2>3. (heard' = heard => HM' = HM) /\ (heard' = <<>> => HM' = {})
    BY RangeEmpty DEF HM
  <2>4. CASE cut' = "clearing" /\ HM' = HM
    BY <1>1, <1>2, <2>1, <2>2, <2>4
  <2>5. CASE cut' = "asking" /\ HM' = {} /\ ~playing
    BY <1>1, <1>2, <2>1, <2>2, <2>5
  <2>. QED
    BY <2>1, <2>3, <2>4, <2>5
<1>11. CASE ClearData
  <2>1. /\ MM' = {} /\ WM' = WM /\ QM' = QM /\ E' = E /\ (Busy' <=> Busy)
        /\ UNCHANGED <<answerVars, valid, loop, heard>>
        /\ (cut = "clearing" /\ cut' = "syncing") \/ (cut = "asking" /\ cut' = "no")
    BY <1>1, <1>11, ClearDataDoes
  <2>2. \A r : ToHear(r)' => ToHear(r)
    BY <1>5, <2>1 DEF ToHear, HasText
  <2>3. HM' = HM
    BY <2>1 DEF HM
  <2>4. CASE cut' = "syncing"
    BY <1>1, <1>2, <2>1, <2>2, <2>3, <2>4
  <2>5. CASE cut = "asking" /\ cut' = "no"
    BY <1>1, <1>2, <2>1, <2>2, <2>3, <2>5
  <2>. QED
    BY <2>1, <2>4, <2>5
<1>12. CASE Sync
  <2>1. /\ cut' = "flushing" /\ HM' = {} /\ valid' = {} /\ MM' = MM /\ \A m \in MM : m.of \in skipped
    BY <1>1, <1>3, <1>12, SyncDoes, RangeEmpty DEF HM
  <2>2. \A r \in Responses \ Skips' : ~ToHear(r)'
    BY <1>1, <2>1, SkipsHas DEF ToHear, HasText
  <2>. QED
    BY <2>1, <2>2
<1>13. CASE Restart
  <2>1. /\ cut' = "no" /\ HM' = HM /\ E' = E /\ valid' = {} /\ MM' = MM /\ \A m \in MM : m.of \in skipped
    BY <1>1, <1>3, <1>13, RestartDoes DEF HM
  <2>2. \A r \in Responses \ Skips' : ~ToHear(r)'
    BY <1>1, <2>1, SkipsHas DEF ToHear, HasText
  <2>. QED
    BY <1>1, <1>2, <2>1, <2>2
<1>14. CASE Play \/ Respond \/ Synthesize
  <2>1. /\ E' = E /\ MM' = MM /\ WM' = WM /\ (Busy' <=> Busy) /\ (playing' <=> playing) /\ cut' = cut
        /\ UNCHANGED <<loop, heard>>
    BY <1>1, <1>14, FarDoes
  <2>2. HM' = HM
    BY <2>1 DEF HM
  <2>3. CASE Play
    <3>1. QM' = QM /\ UNCHANGED <<answerVars, valid>>
      BY <2>3 DEF Play, QM
    <3>2. \A r : ToHear(r)' => ToHear(r)
      BY <1>5, <2>1, <3>1 DEF ToHear, HasText
    <3>. QED
      BY <1>4, <2>1, <2>2, <3>2
  <2>4. CASE Respond
    <3>1. turns \in Seq(Responses)
      BY DEF TypeInv, FlushInv, GoodAnswers
    <3>2. Newest \in Nat /\ Newest' = Newest + 1 /\ QM' = QM /\ valid' = valid \union {Newest + 1}
      BY <2>4, <3>1 DEF Respond, Newest, QM
    <3>3. ASSUME NEW r, NEW of \in E, of[1] = r, ToHear(r)' PROVE ToHear(r)
      <4>1. r # Newest + 1
        <5>1. of[1] <= Newest /\ of[1] \in Nat
          BY <3>3, SetsTyped, ChunkNumbers, <1>1 DEF HeardInv, Upto
        <5>. QED
          BY <3>2, <3>3, <5>1
      <4>. QED
        BY <2>1, <3>2, <3>3, <4>1 DEF ToHear, HasText
    <3>. QED
      BY <1>4, <2>1, <2>2, <3>3
  <2>5. CASE Synthesize
    <3>1. PICK x \in ChunkType : QM' = QM \union {x} /\ x.of = <<Newest, count + 1>>
      BY <2>5, SynthesizeDoes
    <3>2. Newest' = Newest /\ valid' = valid /\ ~done /\ x.of[1] = Newest
      BY <2>5, <3>1 DEF Synthesize, Newest
    <3>3. \A r : ToHear(r)' => ToHear(r)
      BY <2>1, <3>1, <3>2 DEF ToHear, HasText
    <3>. QED
      BY <1>4, <2>1, <2>2, <3>3
  <2>. QED
    BY <1>14, <2>3, <2>4, <2>5
<1>. HIDE DEF Goal, Asked
<1>. QED
  BY <1>1, OffTrunk, <1>6, <1>7, <1>8, <1>9, <1>10, <1>11, <1>12, <1>13, <1>14

-----------------------------------------------------------------------------
(* What the history is cut to. *)
LEMMA InjectiveBefore ==
  ASSUME TypeInv, Next, IsInjective(turns')
  PROVE  IsInjective(turns)
<1>1. turns \in Seq(Responses)
  BY DEF TypeInv, FlushInv, GoodAnswers
<1>2. CASE Respond
  <2>1. PICK t : turns' = Append(turns, t)
    BY <1>2 DEF Respond
  <2>2. PICK n \in Nat : n = Len(turns) /\ DOMAIN turns = 1..n
    BY <1>1
  <2>3. DOMAIN turns' = 1..(n + 1) /\ \A i \in 1..n : turns'[i] = turns[i]
    BY <1>1, <2>1, <2>2
  <2>. QED
    BY <2>2, <2>3 DEF IsInjective
<1>3. CASE ~Respond
  <2>1. turns' = turns
    BY <1>3 DEF Next, Synthesize, Take, SendMedia, SendPost, Buffered, SendOn, Xoff, Xon, Drain, TrunkOnly, Play,
       Echo, Settle, Interrupt, AskIfThere, ClearData, Sync, Restart, answerVars
  <2>. QED
    BY <2>1
<1>. QED
  BY <1>2, <1>3

LEMMA OfOne ==
  ASSUME TypeInv, IsInjective(turns), NEW r \in 1..Newest, NEW h
  PROVE  OfTurn(h, r) = OfResponse(h, r)
<1>1. turns \in Seq(Responses)
  BY DEF TypeInv, FlushInv, GoodAnswers
<1>2. DOMAIN turns = 1..Newest
  BY <1>1 DEF Newest
<1>3. SameTurn(r) = {r}
  BY <1>2 DEF SameTurn, IsInjective
<1>. QED
  BY <1>3 DEF OfTurn, OfResponse

LEMMA OfResponseIs ==
  ASSUME NEW h \in Seq(Chunks), Rising(h, Rises), NEW r \in Responses
  PROVE  /\ OfResponse(h, r) \in Seq(Chunks)
         /\ Range(OfResponse(h, r)) = {of \in Range(h) : of[1] = r}
         /\ Ordered(r, OfResponse(h, r))
<1>. DEFINE S == {r} \X (1..MaxChunks)
            t == OfResponse(h, r)
<1>1. t \in Seq(Chunks \intersect S) /\ Range(t) = Range(h) \intersect S
  BY ThoseTyped DEF OfResponse
<1>2. Range(h) \subseteq Chunks /\ Chunks \intersect S \subseteq Chunks
  BY DEF Range
<1>3. \A of \in Chunks : of \in S <=> of[1] = r
  BY DEF Chunks
<1>4. Rising(t, Rises)
  BY RisingThose DEF OfResponse
<1>5. t \in Seq(Chunks)
  BY <1>1, <1>2
<1>. HIDE DEF t, S
<1>6. \A i \in DOMAIN t : t[i] \in Chunks /\ t[i][1] = r /\ t[i][1] \in Nat /\ t[i][2] \in Nat
  <2>1. \A i \in DOMAIN t : t[i] \in Chunks /\ t[i] \in S
    BY <1>1
  <2>. QED
    BY <1>3, <2>1, ChunkNumbers
<1>7. \A i, j \in DOMAIN t : i < j => t[i][2] < t[j][2]
  <2>1. \A i, j \in DOMAIN t : i < j => Earlier(t[i], t[j])
    BY <1>4 DEF Rising, Rises
  <2>. QED
    BY <1>6, <2>1 DEF Earlier
<1>8. Range(t) = {of \in Range(h) : of[1] = r}
  BY <1>1, <1>2, <1>3
<1>. QED
  BY <1>5, <1>6, <1>7, <1>8 DEF Ordered, t

LEMMA OfResponseComplete ==
  ASSUME NEW h \in Seq(Chunks), Rising(h, Rises), NEW r \in Responses,
         \A of \in Range(h) : of[1] = r => \A k \in 1..(of[2] - 1) : <<r, k>> \in Range(h)
  PROVE  Complete(r, OfResponse(h, r))
<1>. DEFINE t == OfResponse(h, r)
<1>1. t \in Seq(Chunks) /\ Range(t) = {of \in Range(h) : of[1] = r} /\ Ordered(r, t)
  BY OfResponseIs
<1>. HIDE DEF t
<1>2. Chunks \subseteq Responses \X Nat
  BY DEF Chunks
<1>3. t \in Seq(Responses \X Nat)
  BY <1>1, <1>2
<1>4. \A i \in DOMAIN t : t[i] \in Chunks /\ t[i] \in Range(t) /\ t[i][1] = r /\ t[i][2] # 0
  <2>1. \A i \in DOMAIN t : t[i] \in Chunks /\ t[i] \in Range(t) /\ t[i][1] = r
    BY <1>1 DEF Ordered, Range
  <2>. QED
    BY <2>1, ChunkNumbers
<1>5. \A i \in DOMAIN t : \A k \in 1..(t[i][2] - 1) : <<r, k>> \in Range(t)
  BY <1>1, <1>4
<1>6. \A i, j \in DOMAIN t : i < j => t[i][2] < t[j][2]
  BY <1>1 DEF Ordered
<1>. QED
  BY <1>3, <1>4, <1>5, <1>6, Counted DEF Complete, t

LEMMA TextsRise ==
  ASSUME TypeInv, Registers
  PROVE  /\ Texts(cleared) \in Seq(Chunks) /\ Rising(Texts(cleared), Rises)
         /\ Range(Texts(cleared)) = {m.of : m \in {n \in CM : HasText(n)}}
<1>. DEFINE s == Those(cleared, Texted)
<1>1. cleared \in Seq(AllMarks) /\ Rising(cleared, Ordering)
  BY DEF TypeInv, Memory, Registers
<1>2. s \in Seq(AllMarks \intersect Texted) /\ Range(s) = CM \intersect Texted /\ Rising(s, Ordering)
  BY <1>1, ThoseTyped, RisingThose DEF CM
<1>3. Texts(cleared) = [i \in DOMAIN s |-> s[i].of]
  BY DEF Texts
<1>. HIDE DEF s
<1>4. \A m \in AllMarks : m \in Texted <=> HasText(m)
  BY DEF AllMarks, Texted, HasText
<1>5. PICK n \in Nat : n = Len(s) /\ DOMAIN s = 1..n
  BY <1>2
<1>6. \A i \in 1..n : s[i] \in AllMarks /\ HasText(s[i]) /\ s[i].of \in Chunks
  <2>1. \A i \in 1..n : s[i] \in AllMarks /\ s[i] \in Texted
    BY <1>2, <1>5
  <2>. QED
    BY <1>4, <2>1, AllMarksAre
<1>. DEFINE t == [i \in DOMAIN s |-> s[i].of]
<1>7. t \in Seq(Chunks) /\ DOMAIN t = 1..n /\ \A i \in 1..n : t[i] = s[i].of
  BY <1>5, <1>6
<1>8. Rising(t, Rises)
  <2>1. ASSUME NEW i \in 1..n, NEW j \in 1..n, i < j PROVE Earlier(s[i].of, s[j].of)
    <3>1. <<s[i], s[j]>> \in Ordering
      BY <1>2, <1>5, <2>1 DEF Rising
    <3>2. Foregoes(s[i], s[j])
      BY <1>6, <3>1, InOrdering
    <3>. QED
      BY <1>6, <3>2 DEF Foregoes, Ahead, HasText
  <2>. QED
    BY <1>6, <1>7, <2>1 DEF Rising, Rises
<1>9. CM \subseteq AllMarks
  BY SetsTyped
<1>10. Range(t) = {m.of : m \in {x \in CM : HasText(x)}}
  <2>1. Range(s) = {x \in CM : HasText(x)}
    BY <1>2, <1>4, <1>9
  <2>2. Range(s) = {s[i] : i \in 1..n} /\ Range(t) = {t[i] : i \in 1..n}
    BY <1>5, <1>7 DEF Range
  <2>3. Range(t) = {m.of : m \in Range(s)}
    BY <1>7, <2>2
  <2>. QED
    BY <2>1, <2>3
<1>. QED
  BY <1>3, <1>7, <1>8, <1>10

LEMMA PrefixKeeps ==
  ASSUME NEW t \in Seq(Chunks), NEW p \in Prefixes(t), NEW r
  PROVE  (Ordered(r, t) => Ordered(r, p)) /\ (Complete(r, t) => Complete(r, p))
<1>1. PICK l \in 0..Len(t) : p = SubSeq(t, 1, l)
  BY DEF Prefixes
<1>2. DOMAIN p = 1..l /\ (\A i \in 1..l : p[i] = t[i]) /\ 1..l \subseteq DOMAIN t
  BY <1>1
<1>. QED
  BY <1>2 DEF Ordered, Complete

(* What is heard of a response, none of which was cleared, lacks none before. *)
LEMMA HeardWhole ==
  ASSUME TypeInv, Followed, BeforeInv, KeptInv, NEW r \in Responses \ Skips, NEW of \in E, of[1] = r
  PROVE  \A k \in 1..(of[2] - 1) : <<r, k>> \in E
<1>. SUFFICES ASSUME NEW k \in 1..(of[2] - 1) PROVE <<r, k>> \in E
  OBVIOUS
<1>1. of \in Chunks /\ of = <<r, of[2]>> /\ of[2] \in Nat /\ r \in Nat
  BY SetsTyped, ChunkNumbers DEF Responses
<1>2. Kept(<<r, of[2]>>)
  BY <1>1 DEF Kept
<1>3. Kept(<<r, k>>)
  BY <1>1, <1>2 DEF KeptInv
<1>4. ASSUME NEW m \in MM \union CM, HasText(m), m.of = <<r, k>> PROVE FALSE
  <2>1. Earlier(of, <<r, k>>)
    BY <1>4 DEF BeforeInv
  <2>. QED
    BY <1>1, <2>1 DEF Earlier
<1>. QED
  BY <1>3, <1>4 DEF Kept

(* sync_history() has a response of this call for its target. *)
LEMMA TargetIs ==
  ASSUME TypeInv, OrderInv, HeardInv, ~Sip
  PROVE  Target \in 0..Newest
<1>1. Newest \in Nat
  BY DEF TypeInv, FlushInv, GoodAnswers, Newest
<1>2. ASSUME cleared # <<>> PROVE Last(cleared).of[1] \in 0..Newest
  <2>1. cleared \in Seq(AllMarks) /\ Last(cleared) = cleared[Len(cleared)] /\ Len(cleared) \in DOMAIN cleared
    BY <1>2 DEF TypeInv, Memory, Last
  <2>2. Last(cleared) \in CM /\ Last(cleared) \in AllMarks
    BY <2>1 DEF CM, Range
  <2>3. Made(Last(cleared)) /\ Last(cleared).of \in Chunks
    BY <2>2, AllMarksAre DEF OrderInv, Registers
  <2>. QED
    BY <1>1, <2>3, ChunkNumbers DEF Made, Upto
<1>3. ASSUME heard # <<>> PROVE Last(heard)[1] \in 0..Newest
  <2>1. heard \in Seq(Chunks) /\ Last(heard) = heard[Len(heard)] /\ Len(heard) \in DOMAIN heard
    BY <1>3 DEF TypeInv, Memory, Last
  <2>2. Last(heard) \in E /\ Last(heard) \in Chunks
    BY <2>1 DEF HeardInv, Range
  <2>3. Upto(Last(heard))
    BY <2>2 DEF HeardInv
  <2>. QED
    BY <1>1, <2>2, <2>3, ChunkNumbers DEF Upto
<1>4. Latest \in 0..Newest
  <2>. DEFINE P(r) == (r > 0 => InHistory(r)) /\ \A q \in (r + 1)..Newest : ~InHistory(q)
              S == {k \in 0..Newest : Newest - k > 0 => InHistory(Newest - k)}
  <2>1. S \in SUBSET Nat /\ Newest \in S
    BY <1>1
  <2>2. PICK m \in S : \A k \in S : m <= k
    <3>. HIDE DEF S
    <3>. QED
      BY <2>1, Least
  <2>3. P(Newest - m)
    <3>1. Newest - m > 0 => InHistory(Newest - m)
      BY <2>2
    <3>2. ASSUME NEW q \in (Newest - m + 1)..Newest, InHistory(q) PROVE FALSE
      <4>1. Newest - q \in 0..Newest /\ Newest - q < m /\ Newest - (Newest - q) = q
        BY <1>1, <2>2
      <4>2. Newest - q \in S
        BY <3>2, <4>1
      <4>. QED
        BY <2>1, <2>2, <4>1, <4>2
    <3>. QED
      BY <3>1, <3>2
  <2>4. Newest - m \in 0..Newest
    BY <1>1, <2>2
  <2>5. \E r \in 0..Newest : P(r)
    BY <2>3, <2>4
  <2>. QED
    BY <2>5 DEF Latest
<1>. QED
  BY <1>2, <1>3, <1>4 DEF Target

(* The text that sync_history() takes is of the response, and in its order;    *)
(* and none before it lacks, if the response was followed from its start.      *)
LEMMA CutIsOrdered ==
  ASSUME TypeInv, OrderInv, LostInv, HeardInv, BeforeInv, KeptInv, ForgottenInv, Tracked, IsInjective(turns),
         cut = "syncing", NEW r \in Responses, r \in 1..Newest, NEW text \in HeardTexts(r)
  PROVE  Ordered(r, text) /\ (~late /\ r \notin Skips => Complete(r, text))
<1>1. ~Sip /\ Registers
  BY DEF Tracked, Sip, OrderInv
<1>2. /\ heard \in Seq(Chunks) /\ everHeard \in Seq(Chunks) /\ Rising(heard, Rises) /\ Rising(everHeard, Rises)
      /\ Range(everHeard) = E /\ HM \subseteq E /\ E \subseteq Chunks
  BY <1>1, SetsTyped DEF TypeInv, Memory, HeardInv, E, HM
<1>3. /\ Ordered(r, OfResponse(heard, r)) /\ Ordered(r, OfResponse(everHeard, r))
      /\ Range(OfResponse(everHeard, r)) = {of \in E : of[1] = r}
  BY <1>2, OfResponseIs
<1>4. HeardOf(r) = IF OfResponse(heard, r) # <<>> THEN OfResponse(heard, r) ELSE OfResponse(everHeard, r)
  <2>1. OfTurn(heard, r) = OfResponse(heard, r) /\ OfTurn(everHeard, r) = OfResponse(everHeard, r)
    BY OfOne
  <2>. QED
    BY <2>1 DEF HeardOf, Or
<1>5. CASE HeardOf(r) # <<>>
  <2>1. text = HeardOf(r)
    BY <1>5 DEF HeardTexts
  <2>2. ASSUME ~late, r \notin Skips
        PROVE  Complete(r, OfResponse(heard, r)) /\ Complete(r, OfResponse(everHeard, r))
    <3>1. Followed
      BY <2>2 DEF Followed
    <3>2. \A of \in E : of[1] = r => \A k \in 1..(of[2] - 1) : <<r, k>> \in E
      BY <2>2, <3>1, HeardWhole
    <3>3. (\E of \in HM : of[1] = r) => \A of \in E : of[1] = r => of \in HM
      BY <2>2, <3>1 DEF ForgottenInv
    <3>4. \A of \in HM : of[1] = r => \A k \in 1..(of[2] - 1) : <<r, k>> \in HM
      BY <1>2, <3>2, <3>3
    <3>5. Complete(r, OfResponse(everHeard, r))
      BY <1>2, <3>2, OfResponseComplete
    <3>6. Complete(r, OfResponse(heard, r))
      BY <1>2, <3>4, OfResponseComplete DEF HM
    <3>. QED
      BY <3>5, <3>6
  <2>. QED
    BY <1>3, <1>4, <2>1, <2>2
<1>6. CASE HeardOf(r) = <<>>
  <2>. DEFINE t == Texts(cleared)
  <2>1. text \in Prefixes(OfResponse(t, r))
    BY <1>6, OfOne DEF HeardTexts, Pending
  <2>2. /\ t \in Seq(Chunks) /\ Rising(t, Rises) /\ Range(t) = {m.of : m \in {n \in CM : HasText(n)}}
    BY <1>1, TextsRise
  <2>. HIDE DEF t
  <2>3. OfResponse(t, r) \in Seq(Chunks) /\ Ordered(r, OfResponse(t, r))
    BY <2>2, OfResponseIs
  <2>4. ASSUME ~late, r \notin Skips PROVE Complete(r, OfResponse(t, r))
    <3>1. Followed
      BY <2>4 DEF Followed
    <3>2. \A of \in E : of[1] # r
      <4>1. OfResponse(everHeard, r) = <<>>
        BY <1>4, <1>6
      <4>. QED
        BY <1>3, <4>1, RangeEmpty
    <3>3. \A m \in MM : m.of[1] # r
      <4>1. \A m \in MM : m.of \in skipped
        BY <1>1, <2>4 DEF LostInv
      <4>. QED
        BY <2>4, <4>1, SkipsHas
    <3>4. ASSUME NEW of \in Range(t), of[1] = r, NEW k \in 1..(of[2] - 1) PROVE <<r, k>> \in Range(t)
      <4>1. PICK m \in CM : HasText(m) /\ m.of = of
        BY <2>2, <3>4
      <4>2. of \in Chunks /\ of = <<r, of[2]>> /\ of[2] \in Nat
        <5>1. of \in Chunks
          BY <2>2, <3>4 DEF Range
        <5>. QED
          BY <3>4, <5>1, ChunkNumbers
      <4>3. Kept(<<r, of[2]>>)
        BY <4>1, <4>2 DEF Kept
      <4>4. Kept(<<r, k>>)
        BY <2>4, <3>1, <4>2, <4>3 DEF KeptInv
      <4>5. PICK n \in MM \union CM : HasText(n) /\ n.of = <<r, k>>
        BY <3>2, <4>4 DEF Kept
      <4>6. n \in CM
        BY <3>3, <4>5
      <4>. QED
        BY <2>2, <4>5, <4>6
    <3>5. \A of \in Range(t) : of[1] = r => \A k \in 1..(of[2] - 1) : <<r, k>> \in Range(t)
      BY <3>4
    <3>. QED
      BY <2>2, <3>5, OfResponseComplete
  <2>. QED
    BY <2>1, <2>3, <2>4, PrefixKeeps
<1>. QED
  BY <1>5, <1>6

(* Only what is cut on the telephone is cut. *)
HistInv == /\ ~Tracked => \A r \in Responses : history[r].state # "cut"
           /\ HistoryInOrder

LEMMA InitHist == Init => HistInv
  BY DEF Init, HistInv, HistoryInOrder, Nothing

LEMMA HistStep ==
  /\ TypeInv /\ OrderInv /\ LostInv /\ HeardInv /\ BeforeInv /\ KeptInv /\ ForgottenInv /\ HistInv /\ Next
  => HistInv'
<1>. SUFFICES ASSUME TypeInv, OrderInv, LostInv, HeardInv, BeforeInv, KeptInv, ForgottenInv, HistInv, Next
              PROVE  HistInv'
  OBVIOUS
<1>. USE DEF Skips
<1>1. Tracked' <=> Tracked
  <2>1. handler' = handler
    BY DEF Next, Respond, Synthesize, Take, SendMedia, SendPost, Buffered, SendOn, Xoff, Xon, Drain, TrunkOnly, Play,
       Echo, Settle, Interrupt, AskIfThere, ClearData, Sync, Restart
  <2>. QED
    BY <2>1 DEF Tracked
<1>2. history \in Histories
  BY DEF TypeInv
<1>3. ASSUME \A r \in Responses : history'[r].state = "cut" => history'[r] = history[r]
      PROVE  HistInv'
  <2>1. ~Tracked' => \A r \in Responses : history'[r].state # "cut"
    BY <1>1, <1>3 DEF HistInv
  <2>2. ASSUME NEW r \in Responses, history'[r].state = "cut", IsInjective(turns')
        PROVE  /\ Ordered(r, history'[r].text)
               /\ ~late' /\ r \notin Skips' => Complete(r, history'[r].text)
    <3>1. Tracked /\ ~Sip /\ history[r].state = "cut" /\ history'[r] = history[r] /\ IsInjective(turns)
      <4>1. Tracked
        BY <1>1, <2>1, <2>2
      <4>. QED
        BY <1>3, <2>2, <4>1, InjectiveBefore DEF Tracked, Sip
    <3>2. Skips \subseteq Skips'
      BY <3>1, SkippedStays
    <3>3. ~late' => ~late
      BY Lately
    <3>4. /\ Ordered(r, history[r].text)
          /\ ~late /\ r \notin Skips => Complete(r, history[r].text)
      BY <3>1 DEF HistInv, HistoryInOrder
    <3>. QED
      BY <3>1, <3>2, <3>3, <3>4
  <2>. QED
    BY <2>1, <2>2 DEF HistInv, HistoryInOrder, Ordered, Complete
<1>4. CASE Sync
  <2>1. CASE UNCHANGED history
    BY <1>3, <2>1
  <2>2. CASE MayCut(Target) /\ \E text \in HeardTexts(Target) : history' = CutTo(Target, text)
    <3>1. PICK text \in HeardTexts(Target) : history' = CutTo(Target, text)
      BY <2>2
    <3>2. /\ Tracked /\ ~Sip /\ Target # 0
      BY <2>2 DEF MayCut, Tracked, Sip
    <3>3. PICK r : r = Target
      OBVIOUS
    <3>4. r \in 1..Newest
      BY <3>2, <3>3, TargetIs DEF TypeInv, FlushInv, GoodAnswers, Newest
    <3>5. text = <<>> => \A q \in Responses : history'[q] = Nothing \/ history'[q] = history[q]
      BY <3>1, <3>3 DEF CutTo
    <3>6. CASE text = <<>>
      BY <1>3, <3>5, <3>6 DEF Nothing
    <3>7. CASE text # <<>>
      <4>1. \A q \in Responses : IF q = r THEN history'[q] = [state |-> "cut", text |-> text]
                                          ELSE history'[q] = history[q]
        BY <3>1, <3>3, <3>7 DEF CutTo
      <4>2. UNCHANGED <<turns, skipped>> /\ (late' <=> late) /\ cut = "syncing"
        BY <1>4, <3>2, SyncDoes DEF answerVars
      <4>3. ASSUME IsInjective(turns), r \in Responses
            PROVE  Ordered(r, text) /\ (~late /\ r \notin Skips => Complete(r, text))
        BY <3>1, <3>2, <3>3, <3>4, <4>2, <4>3, CutIsOrdered
      <4>4. \A q \in Responses :
              history'[q].state = "cut" /\ IsInjective(turns) =>
                /\ Ordered(q, history'[q].text)
                /\ ~late /\ q \notin Skips => Complete(q, history'[q].text)
        <5>1. TAKE q \in Responses
        <5>2. CASE q = r
          BY <4>1, <4>3, <5>2
        <5>3. CASE q # r
          BY <4>1, <5>3 DEF HistInv, HistoryInOrder
        <5>. QED
          BY <5>2, <5>3
      <4>. QED
        BY <1>1, <3>2, <4>2, <4>4 DEF HistInv, HistoryInOrder, Ordered, Complete
    <3>. QED
      BY <3>6, <3>7
  <2>. QED
    BY <1>4, <2>1, <2>2 DEF Sync
<1>5. CASE Take
  <2>1. PICK r : \/ history[r].state = "none" /\ history' = [history EXCEPT ![r].state = "full"]
                 \/ history' = history
    BY <1>5 DEF Take
  <2>2. \A q \in Responses : history'[q].state = "cut" => history'[q] = history[q]
    BY <1>2, <2>1 DEF Histories
  <2>. QED
    BY <1>3, <2>2
<1>6. CASE ~Sync /\ ~Take
  <2>1. history' = history
    BY <1>6 DEF Next, Respond, Synthesize, SendMedia, SendPost, Buffered, SendOn, Xoff, Xon, Drain, TrunkOnly, Play,
       Echo, Settle, Interrupt, AskIfThere, ClearData, Restart
  <2>. QED
    BY <1>3, <2>1
<1>. QED
  BY <1>4, <1>5, <1>6

HistoryInv == /\ TypeInv /\ OrderInv /\ Calm /\ LostInv /\ PreInv /\ HeardInv
              /\ LoopInv /\ BeforeInv /\ KeptInv /\ ForgottenInv /\ HistInv

LEMMA InitCut == Init => HistoryInv
<1>1. Init => Calm
  BY DEF Init, Calm
<1>. QED
  BY <1>1, InitTypes, InitOrder, InitLost, InitPre, InitHeard, InitLoop, InitKept, InitForgotten, InitHist
     DEF HistoryInv

LEMMA CutStep == HistoryInv /\ [Next]_vars => HistoryInv'
<1>1. CASE Next
  BY <1>1, TypeStep, OrderStep, CalmStep, LostStep, PreStep, HeardStep, LoopStep, BeforeStep, KeptStep,
     ForgottenStep, HistStep DEF HistoryInv
<1>2. CASE UNCHANGED vars
  <2>. SUFFICES ASSUME HistoryInv PROVE HistoryInv'
    BY <1>2
  <2>1. TypeInv'
    BY <1>2, TypeStep DEF HistoryInv
  <2>2. UNCHANGED <<handler, done, valid, turns, count, queue, marks, cleared, playing, cut, cuts, loop, line,
                    echoes, late, skipped, trunk, heard, everHeard, history>>
    BY <1>2 DEF vars, answerVars, heardVars, wireVars
  <2>3. LM' = LM
    BY <2>2 DEF LM, AllMarks, Chunks, Responses
  <2>4. /\ QM' = QM /\ MM' = MM /\ CM' = CM /\ EM' = EM /\ WM' = WM /\ InHand' = InHand /\ (Busy' <=> Busy)
        /\ E' = E /\ HM' = HM /\ Skips' = Skips /\ (Followed' <=> Followed) /\ (Sip' <=> Sip) /\ (Tracked' <=> Tracked)
        /\ Newest' = Newest
    BY <2>2, <2>3 DEF QM, MM, CM, EM, WM, InHand, Busy, E, HM, Skips, Followed, Tracked, Sip, Newest
  <2>5. OrderInv'
    BY <2>2, <2>3, <2>4 DEF HistoryInv, OrderInv, Queued, Wires, Registers, Out, Handed, Made, Upto
  <2>6. Calm' /\ LostInv' /\ PreInv'
    BY <2>2, <2>4 DEF HistoryInv, Calm, LostInv, PreInv, First
  <2>7. HeardInv' /\ LoopInv' /\ BeforeInv'
    BY <2>2, <2>4 DEF HistoryInv, HeardInv, LoopInv, BeforeInv, Upto
  <2>8. KeptInv'
    <3>1. \A of : (Kept(of)' <=> Kept(of)) /\ (Held(of)' <=> Held(of))
      BY <2>2, <2>4 DEF Kept, Held
    <3>. QED
      BY <2>2, <2>4, <3>1 DEF HistoryInv, KeptInv
  <2>9. ForgottenInv'
    BY <2>2, <2>4 DEF HistoryInv, ForgottenInv, ToHear
  <2>10. HistInv'
    BY <2>2, <2>4 DEF HistoryInv, HistInv, HistoryInOrder, Skips
  <2>. QED
    BY <2>1, <2>5, <2>6, <2>7, <2>8, <2>9, <2>10 DEF HistoryInv
<1>. QED
  BY <1>1, <1>2

(* On the telephone, with one response to a turn, what sync_history() leaves   *)
(* of a response is its own text in its order; and it lacks none before what   *)
(* it has, if nothing was taken, sent or begun during an interruption and none *)
(* of the response was cleared between its audio and its mark or forgotten for *)
(* a question: whichever of its marks had come back, and wherever the others   *)
(* were when the caller interrupted.                                           *)
THEOREM HistoryStaysInOrder == Spec => []HistoryInOrder
<1>1. HistoryInv => HistoryInOrder
  BY DEF HistoryInv, HistInv
<1>. QED
  BY <1>1, InitCut, CutStep, PTL DEF Spec
=============================================================================

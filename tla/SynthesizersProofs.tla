------------------------- MODULE SynthesizersProofs -------------------------
(* Theorems about Synthesizers, for any numbers of answers, texts, messages,   *)
(* lost connections and upsets.                                                *)
EXTENDS Synthesizers, SequenceTheorems, TLAPS

(* The answers that the items of a list are of. *)
Ids(list) == {list[i].seq : i \in DOMAIN list}

LEMMA IdsEmpty == Ids(<<>>) = {}
  BY DEF Ids

LEMMA IdsNone ==
  ASSUME NEW T, NEW s \in Seq(T), Ids(s) = {}
  PROVE  s = <<>>
<1>1. s # <<>> => s[1].seq \in Ids(s)
  BY DEF Ids
<1>. QED
  BY <1>1

LEMMA IdsWithin ==
  ASSUME NEW T, NEW s \in Seq(T), NEW U, \A e \in T : e.seq \in U
  PROVE  Ids(s) \subseteq U
<1>1. \A i \in DOMAIN s : s[i] \in T
  OBVIOUS
<1>. QED
  BY <1>1 DEF Ids

LEMMA IdsAppend ==
  ASSUME NEW T, NEW s \in Seq(T), NEW e \in T
  PROVE  Ids(Append(s, e)) = Ids(s) \union {e.seq}
<1>. DEFINE t == Append(s, e)
<1>1. /\ DOMAIN t = 1..(Len(s) + 1) /\ DOMAIN s = 1..Len(s) /\ Len(s) \in Nat
      /\ t[Len(s) + 1] = e /\ \A i \in 1..Len(s) : t[i] = s[i]
  OBVIOUS
<1>. HIDE DEF t
<1>2. \A i \in DOMAIN t : i \in DOMAIN s \/ i = Len(s) + 1
  BY <1>1
<1>3. Ids(t) \subseteq Ids(s) \union {e.seq}
  BY <1>1, <1>2 DEF Ids
<1>4. Ids(s) \subseteq Ids(t) /\ e.seq \in Ids(t)
  BY <1>1 DEF Ids
<1>. QED
  BY <1>3, <1>4 DEF t

LEMMA Joined ==
  ASSUME NEW T, NEW s \in Seq(T), NEW t \in Seq(T)
  PROVE  /\ DOMAIN (s \o t) = 1..(Len(s) + Len(t)) /\ DOMAIN s = 1..Len(s) /\ DOMAIN t = 1..Len(t)
         /\ Len(s \o t) = Len(s) + Len(t) /\ s \o t \in Seq(T)
         /\ Len(s) \in Nat /\ Len(t) \in Nat
         /\ \A i \in 1..Len(s) : (s \o t)[i] = s[i]
         /\ \A i \in 1..Len(t) : (s \o t)[Len(s) + i] = t[i]
  OBVIOUS

LEMMA IdsJoined ==
  ASSUME NEW T, NEW s \in Seq(T), NEW t \in Seq(T)
  PROVE  Ids(s \o t) = Ids(s) \union Ids(t)
<1>. DEFINE u == s \o t
<1>1. /\ DOMAIN u = 1..(Len(s) + Len(t)) /\ DOMAIN s = 1..Len(s) /\ DOMAIN t = 1..Len(t)
      /\ Len(s) \in Nat /\ Len(t) \in Nat
      /\ \A i \in 1..Len(s) : u[i] = s[i]
      /\ \A i \in 1..Len(t) : u[Len(s) + i] = t[i]
  BY Joined
<1>. HIDE DEF u
<1>2. \A i \in DOMAIN u : i \in DOMAIN s \/ \E j \in DOMAIN t : i = Len(s) + j
  <2>1. \A i \in DOMAIN u : i > Len(s) => i - Len(s) \in DOMAIN t /\ i = Len(s) + (i - Len(s))
    BY <1>1
  <2>. QED
    BY <1>1, <2>1
<1>3. Ids(u) \subseteq Ids(s) \union Ids(t)
  BY <1>1, <1>2 DEF Ids
<1>4. \A j \in DOMAIN t : Len(s) + j \in DOMAIN u
  BY <1>1
<1>5. Ids(s) \subseteq Ids(u) /\ Ids(t) \subseteq Ids(u)
  BY <1>1, <1>4 DEF Ids
<1>. QED
  BY <1>3, <1>5 DEF u

LEMMA IdsTaken ==
  ASSUME NEW T, NEW s \in Seq(T), s # <<>>
  PROVE  /\ Head(s) \in T /\ Tail(s) \in Seq(T) /\ Len(Tail(s)) = Len(s) - 1
         /\ Head(s) = s[1] /\ 1 \in DOMAIN s
         /\ \A i \in DOMAIN Tail(s) : i + 1 \in DOMAIN s /\ Tail(s)[i] = s[i + 1]
         /\ Ids(Tail(s)) \subseteq Ids(s) /\ Head(s).seq \in Ids(s)
<1>1. /\ Head(s) \in T /\ Tail(s) \in Seq(T) /\ Len(Tail(s)) = Len(s) - 1
      /\ Head(s) = s[1] /\ 1 \in DOMAIN s
      /\ \A i \in DOMAIN Tail(s) : i + 1 \in DOMAIN s /\ Tail(s)[i] = s[i + 1]
  OBVIOUS
<1>. QED
  BY <1>1 DEF Ids

LEMMA IdsCut ==
  ASSUME NEW T, NEW s \in Seq(T), NEW n \in 0..Len(s)
  PROVE  /\ SubSeq(s, 1, n) \in Seq(T) /\ Len(SubSeq(s, 1, n)) = n
         /\ \A i \in DOMAIN SubSeq(s, 1, n) : i \in DOMAIN s /\ SubSeq(s, 1, n)[i] = s[i]
         /\ Ids(SubSeq(s, 1, n)) \subseteq Ids(s)
<1>1. /\ SubSeq(s, 1, n) \in Seq(T) /\ Len(SubSeq(s, 1, n)) = n
      /\ \A i \in DOMAIN SubSeq(s, 1, n) : i \in DOMAIN s /\ SubSeq(s, 1, n)[i] = s[i]
  OBVIOUS
<1>. QED
  BY <1>1 DEF Ids

Without(u, s, k) ==
  /\ Len(u) = Len(s) - 1
  /\ \A i \in 1..(k - 1) : u[i] = s[i]
  /\ \A i \in 1..(Len(s) - k) : u[k - 1 + i] = s[k + i]

LEMMA AllButOne ==
  ASSUME NEW T, NEW s \in Seq(T), NEW k \in 1..Len(s), NEW u \in Seq(T), Without(u, s, k)
  PROVE  \A i \in DOMAIN u : \E j \in DOMAIN s : j # k /\ u[i] = s[j] /\ (i = j \/ i + 1 = j)
<1>. SUFFICES ASSUME NEW i \in DOMAIN u
              PROVE  \E j \in DOMAIN s : j # k /\ u[i] = s[j] /\ (i = j \/ i + 1 = j)
  OBVIOUS
<1>1. /\ i \in Nat /\ 1 <= i /\ i <= Len(s) - 1 /\ i \in DOMAIN s /\ i + 1 \in DOMAIN s
      /\ k \in Nat /\ Len(s) \in Nat
  BY DEF Without
<1>2. CASE i < k
  <2>1. i \in 1..(k - 1) /\ i # k
    BY <1>1, <1>2
  <2>. QED
    BY <1>1, <2>1 DEF Without
<1>3. CASE i >= k
  <2>. DEFINE j == i + 1 - k
  <2>1. j \in 1..(Len(s) - k) /\ k - 1 + j = i /\ k + j = i + 1 /\ i + 1 # k
    BY <1>1, <1>3
  <2>2. u[k - 1 + j] = s[k + j]
    BY <2>1 DEF Without
  <2>. QED
    BY <1>1, <2>1, <2>2
<1>. QED
  BY <1>1, <1>2, <1>3

LEMMA IdsRemoved ==
  ASSUME NEW T, NEW s \in Seq(T), NEW k \in DOMAIN s
  PROVE  /\ RemoveAt(s, k) \in Seq(T) /\ Len(RemoveAt(s, k)) = Len(s) - 1
         /\ \A i \in DOMAIN RemoveAt(s, k) :
              \E j \in DOMAIN s : j # k /\ RemoveAt(s, k)[i] = s[j] /\ (i = j \/ i + 1 = j)
         /\ Ids(RemoveAt(s, k)) \subseteq Ids(s)
<1>1. k \in 1..Len(s) /\ k \in Nat /\ Len(s) \in Nat
  OBVIOUS
<1>2. /\ RemoveAt(s, k) \in Seq(T) /\ Len(RemoveAt(s, k)) = Len(s) - 1
      /\ \A i \in 1..(k - 1) : RemoveAt(s, k)[i] = s[i]
      /\ \A i \in 1..(Len(s) - k) : RemoveAt(s, k)[k - 1 + i] = s[k + i]
  <2>0. SubSeq(s, 1, k - 1) \in Seq(T) /\ SubSeq(s, k + 1, Len(s)) \in Seq(T)
    BY <1>1
  <2>1. PICK a \in Seq(T) : a = SubSeq(s, 1, k - 1)
    BY <2>0, Zenon
  <2>2. PICK b \in Seq(T) : b = SubSeq(s, k + 1, Len(s))
    BY <2>0, Zenon
  <2>3. Len(a) = k - 1 /\ \A i \in 1..(k - 1) : a[i] = s[i]
    BY <1>1, <2>1
  <2>4. Len(b) = Len(s) - k /\ \A i \in 1..(Len(s) - k) : b[i] = s[k + i]
    BY <1>1, <2>2
  <2>5. RemoveAt(s, k) = a \o b
    BY <2>1, <2>2 DEF RemoveAt
  <2>6. /\ Len(a \o b) = Len(a) + Len(b) /\ a \o b \in Seq(T)
        /\ \A i \in 1..Len(a) : (a \o b)[i] = a[i]
        /\ \A i \in 1..Len(b) : (a \o b)[Len(a) + i] = b[i]
    BY Joined
  <2>7. Len(a) + Len(b) = Len(s) - 1
    BY <1>1, <2>3, <2>4
  <2>. QED
    BY <2>3, <2>4, <2>5, <2>6, <2>7
<1>3. PICK u \in Seq(T) : u = RemoveAt(s, k)
  BY <1>2
<1>4. \A i \in DOMAIN u : \E j \in DOMAIN s : j # k /\ u[i] = s[j] /\ (i = j \/ i + 1 = j)
  <2>1. Without(u, s, k)
    BY <1>2, <1>3 DEF Without
  <2>. QED
    BY <1>1, <2>1, AllButOne
<1>5. Ids(u) \subseteq Ids(s)
  BY <1>4 DEF Ids
<1>. QED
  BY <1>2, <1>3, <1>4, <1>5

-----------------------------------------------------------------------------
(* Types. The texts that are queued and fetched are of an answer; the meta     *)
(* information may be none yet.                                                *)
TextType == [seq : Seqs, last : BOOLEAN, end : BOOLEAN]
SenderType == [seq : Seqs, last : BOOLEAN, state : {"new", "polling"}]
PacketType == [kind : {"audio", "end", "none"}, of : 0..MaxSeq, seq : 0..MaxSeq, heard : BOOLEAN]

AnswersTyped == /\ provider \in Providers /\ valid \subseteq Seqs /\ seq \in 0..MaxSeq
                /\ pushed \in 0..MaxTexts /\ complete \subseteq Seqs
TextsTyped == queue \in Seq(TextType) /\ meta \in Metas /\ (fetching = NoMeta \/ fetching \in TextType)
ContextsTyped == context \in 0..contexts /\ contexts \in Nat /\ ignored \subseteq 1..contexts
SendersTyped == /\ senders \in Seq(SenderType) /\ ContextsTyped /\ lastSent \in BOOLEAN
                /\ provider \notin Streaming => senders = <<>>
LinkTyped == failures \in 0..3 /\ up \in BOOLEAN /\ error \in BOOLEAN /\ drops \in Nat
WireTyped == incoming \in Seq(Messages) /\ yielding \in Seq(Messages) /\ done \in BOOLEAN
GivenTyped == packet \in PacketType /\ finished \subseteq Seqs
EndTyped == /\ ended \in BOOLEAN
            /\ disturbed \subseteq {"overlap", "cut", "lost", "reordered", "stale", "merged"}
TypeInv == /\ AnswersTyped /\ TextsTyped /\ SendersTyped /\ LinkTyped /\ WireTyped /\ GivenTyped
           /\ EndTyped

LEMMA NoMetaTyped == NoMeta \in Metas /\ NoMeta.seq = 0
  BY BoundsAssumption DEF NoMeta, Metas

LEMMA TypeInvIsType == TypeInv => TypeOK
<1>. SUFFICES ASSUME TypeInv PROVE TypeOK
  OBVIOUS
<1>1. \A t \in TextType : t \in Metas
  BY BoundsAssumption DEF TextType, Metas, Seqs
<1>2. queue \in Seq(Metas)
  <2>1. queue \in Seq(TextType)
    BY DEF TypeInv, TextsTyped
  <2>. QED
    BY <1>1, <2>1
<1>3. fetching \in Metas
  BY <1>1, NoMetaTyped DEF TypeInv, TextsTyped
<1>4. senders \in Seq([seq : Seqs, last : BOOLEAN, state : {"new", "polling"}])
  BY DEF TypeInv, SendersTyped, SenderType
<1>5. packet \in [kind : {"audio", "end", "none"}, of : 0..MaxSeq, seq : 0..MaxSeq, heard : BOOLEAN]
  BY DEF TypeInv, GivenTyped, PacketType
<1>6. {lastSent, up, error, done, ended} \subseteq BOOLEAN
  BY DEF TypeInv, SendersTyped, LinkTyped, WireTyped, EndTyped
<1>. QED
  BY <1>2, <1>3, <1>4, <1>5, <1>6
  DEF TypeInv, TypeOK, AnswersTyped, TextsTyped, ContextsTyped, SendersTyped, LinkTyped, WireTyped,
      GivenTyped, EndTyped

(* A packet that is given. *)
LEMMA GiveTyped ==
  ASSUME valid \subseteq Seqs, GivenTyped, NEW kind \in {"audio", "end"}, NEW of \in 0..MaxSeq,
         NEW m \in Metas, Give(kind, of, m)
  PROVE  GivenTyped'
<1>1. m.seq \in 0..MaxSeq
  BY DEF Metas
<1>2. packet' = [kind |-> kind, of |-> of, seq |-> m.seq, heard |-> m.seq \in valid]
  BY DEF Give
<1>3. packet' \in PacketType
  BY <1>1, <1>2 DEF PacketType
<1>4. finished' \subseteq Seqs
  BY DEF Give, GivenTyped
<1>. QED
  BY <1>3, <1>4 DEF GivenTyped

(* What is sent in reply to a text is of that text, in the context that is     *)
(* current; and at its end is its end, if there is one.                        *)
Fits(r, sender, n) ==
  /\ r \in Seq(Messages) /\ Len(r) >= n
  /\ \A i \in DOMAIN r : /\ r[i].seq = sender.seq /\ r[i].context = context
                         /\ r[i].kind = "end" => i = Len(r) /\ (provider \in Buffering => sender.last)

LEMMA AudioFits ==
  ASSUME ContextsTyped, NEW sender \in SenderType, NEW n \in Nat
  PROVE  /\ Audio(sender, n) \in Seq(Messages) /\ Len(Audio(sender, n)) = n
         /\ \A i \in 1..n : /\ Audio(sender, n)[i].seq = sender.seq
                            /\ Audio(sender, n)[i].context = context
                            /\ Audio(sender, n)[i].kind = "audio"
<1>1. \A k \in 1..n : [kind |-> "audio", seq |-> sender.seq, context |-> context,
                       last |-> sender.last /\ k = n] \in Messages
  BY DEF Messages, SenderType, ContextsTyped
<1>. QED
  BY <1>1 DEF Audio

LEMMA EndFits ==
  ASSUME ContextsTyped, NEW sender \in SenderType
  PROVE  /\ End(sender) \in Messages /\ End(sender).seq = sender.seq /\ End(sender).context = context
         /\ End(sender).kind = "end"
  BY DEF End, Messages, SenderType, ContextsTyped

LEMMA AudioAloneFits ==
  ASSUME ContextsTyped, NEW sender \in SenderType, NEW n \in Nat
  PROVE  Fits(Audio(sender, n), sender, n)
  BY AudioFits DEF Fits

LEMMA EndedFits ==
  ASSUME ContextsTyped, NEW sender \in SenderType, NEW n \in Nat, provider \in Buffering => sender.last
  PROVE  Fits(Append(Audio(sender, n), End(sender)), sender, n)
<1>. DEFINE a == Audio(sender, n)
<1>1. /\ a \in Seq(Messages) /\ Len(a) = n
      /\ \A i \in 1..n : a[i].seq = sender.seq /\ a[i].context = context /\ a[i].kind = "audio"
  BY AudioFits
<1>2. /\ End(sender) \in Messages /\ End(sender).seq = sender.seq /\ End(sender).context = context
      /\ End(sender).kind = "end"
  BY EndFits
<1>. HIDE DEF a
<1>3. /\ Append(a, End(sender)) \in Seq(Messages) /\ Len(Append(a, End(sender))) = n + 1
      /\ \A i \in 1..n : Append(a, End(sender))[i] = a[i]
      /\ Append(a, End(sender))[n + 1] = End(sender)
      /\ DOMAIN Append(a, End(sender)) = 1..(n + 1)
  BY <1>1, <1>2
<1>4. \A i \in 1..(n + 1) : i \in 1..n \/ i = n + 1
  OBVIOUS
<1>. QED
  BY <1>1, <1>2, <1>3, <1>4 DEF Fits, a

LEMMA ClosedFits ==
  ASSUME ContextsTyped, NEW sender \in SenderType, NEW n \in Nat
  PROVE  Fits(Audio(sender, n) \o Closing(sender), sender, n)
<1>1. Audio(sender, n) \in Seq(Messages) /\ End(sender) \in Messages
  BY AudioFits, EndFits
<1>2. CASE sender.last
  <2>1. Audio(sender, n) \o Closing(sender) = Append(Audio(sender, n), End(sender))
    BY <1>1, <1>2 DEF Closing
  <2>. QED
    BY <1>2, <2>1, EndedFits
<1>3. CASE ~sender.last
  <2>1. Audio(sender, n) \o Closing(sender) = Audio(sender, n)
    BY <1>1, <1>3 DEF Closing
  <2>. QED
    BY <2>1, AudioAloneFits
<1>. QED
  BY <1>2, <1>3

LEMMA ReplyFits ==
  ASSUME ContextsTyped, provider \in Streaming, NEW sender \in SenderType, NEW n \in Nat
  PROVE  Fits(Reply(sender, n), sender, n)
<1>1. CASE provider \in Buffering
  <2>1. Reply(sender, n) = Audio(sender, n) \o Closing(sender)
    BY <1>1 DEF Reply, Buffering, CartesiaReply, PixaReply, DeepgramReply
  <2>. QED
    BY <2>1, ClosedFits
<1>2. CASE provider \in {"elevenlabs", "rime"}
  <2>1. Reply(sender, n) = Audio(sender, n)
    BY <1>2 DEF Reply, ElevenlabsReply, RimeReply
  <2>. QED
    BY <2>1, AudioAloneFits
<1>3. CASE provider \in {"sarvam", "smallest"}
  <2>1. Reply(sender, n) = Append(Audio(sender, n), End(sender))
    BY <1>3 DEF Reply, SarvamReply, SmallestReply
  <2>. QED
    BY <1>3, <2>1, EndedFits DEF Buffering
<1>. QED
  BY <1>1, <1>2, <1>3 DEF Streaming, Buffering

(* What is yielded for a message is of the same answer; those that buffer      *)
(* yield the message, or nothing if its context is ignored.                    *)
LEMMA AsEndFits ==
  ASSUME NEW m \in Messages
  PROVE  AsEnd(m) \in Messages /\ AsEnd(m).seq = m.seq
  BY DEF AsEnd, Messages

LEMMA YieldsFit ==
  ASSUME provider \in Streaming, NEW m \in Messages, NEW items \in Yields(m)
  PROVE  /\ items \in Seq(Messages) /\ \A i \in DOMAIN items : items[i].seq = m.seq
         /\ provider \in Buffering => items = <<m>> \/ (items = <<>> /\ m.context \in ignored)
         /\ provider \notin {"cartesia", "pixa"} => items # <<>>
         /\ provider = "cartesia" => (items = <<>> <=> m.context \in ignored)
<1>0. AsEnd(m) \in Messages /\ AsEnd(m).seq = m.seq
  BY AsEndFits
<1>1. CASE provider = "cartesia"
  <2>1. items = IF m.context \in ignored THEN <<>> ELSE <<m>>
    BY <1>1 DEF Yields, CartesiaYields, IsIgnored
  <2>2. CASE m.context \in ignored
    BY <1>1, <2>1, <2>2
  <2>3. CASE m.context \notin ignored
    BY <1>1, <2>1, <2>3
  <2>. QED
    BY <2>2, <2>3
<1>2. CASE provider = "pixa"
  <2>1. items = IF m.kind = "end" /\ m.context \in ignored THEN <<>> ELSE <<m>>
    BY <1>2 DEF Yields, PixaYields, IsIgnored
  <2>2. CASE m.kind = "end" /\ m.context \in ignored
    BY <1>2, <2>1, <2>2
  <2>3. CASE ~(m.kind = "end" /\ m.context \in ignored)
    BY <1>2, <2>1, <2>3
  <2>. QED
    BY <2>2, <2>3
<1>3. CASE provider = "elevenlabs"
  <2>1. items \in {<<m>>, <<m, AsEnd(m)>>}
    BY <1>3 DEF Yields, ElevenlabsYields
  <2>2. CASE items = <<m>>
    BY <1>3, <2>2 DEF Buffering
  <2>3. CASE items = <<m, AsEnd(m)>>
    BY <1>0, <1>3, <2>3 DEF Buffering
  <2>. QED
    BY <2>1, <2>2, <2>3
<1>4. CASE provider = "rime"
  <2>1. items \in {<<m>>, <<m, AsEnd(m)>>, <<AsEnd(m), m, AsEnd(m)>>}
    BY <1>4 DEF Yields, RimeYields
  <2>2. CASE items = <<m>>
    BY <1>4, <2>2 DEF Buffering
  <2>3. CASE items = <<m, AsEnd(m)>>
    BY <1>0, <1>4, <2>3 DEF Buffering
  <2>4. CASE items = <<AsEnd(m), m, AsEnd(m)>>
    BY <1>0, <1>4, <2>4 DEF Buffering
  <2>. QED
    BY <2>1, <2>2, <2>3, <2>4
<1>5. CASE provider \in {"deepgram", "sarvam", "smallest"}
  <2>1. items = <<m>>
    BY <1>5 DEF Yields, DeepgramYields, SarvamYields, SmallestYields
  <2>. QED
    BY <1>5, <2>1
<1>. QED
  BY <1>1, <1>2, <1>3, <1>4, <1>5 DEF Streaming

LEMMA NextMetaTyped ==
  ASSUME TypeInv
  PROVE  NextMeta \in Metas /\ (queue # <<>> => NextMeta \in TextType)
<1>1. queue # <<>> => Head(queue) \in TextType
  BY DEF TypeInv, TextsTyped
<1>2. \A t \in TextType : t \in Metas
  BY BoundsAssumption DEF TextType, Metas, Seqs
<1>. QED
  BY <1>1, <1>2 DEF NextMeta, TypeInv, TextsTyped

LEMMA ItemMetaTyped ==
  ASSUME TypeInv, NEW item
  PROVE  /\ ItemMeta(item) \in Metas
         /\ ItemMeta(item).seq = NextMeta.seq /\ ItemMeta(item).last = NextMeta.last
         /\ ItemMeta(item).end = (item.kind = "end" \/ NextMeta.end)
<1>1. NextMeta \in Metas
  BY NextMetaTyped
<1>. QED
  BY <1>1 DEF ItemMeta, Metas

LEMMA YieldItemTyped ==
  ASSUME TypeInv, NEW item \in Messages, YieldItem(item)
  PROVE  queue' \in Seq(TextType) /\ meta' \in Metas /\ GivenTyped'
<1>1. ItemMeta(item) \in Metas
  BY ItemMetaTyped
<1>2. item.kind \in {"audio", "end"} /\ item.seq \in 0..MaxSeq
  BY DEF Messages, Seqs
<1>3. GivenTyped'
  BY <1>1, <1>2, GiveTyped DEF YieldItem, TypeInv, AnswersTyped
<1>4. queue' \in Seq(TextType)
  BY DEF YieldItem, TypeInv, TextsTyped
<1>. QED
  BY <1>1, <1>3, <1>4 DEF YieldItem

(* What an interruption leaves of the messages is the first of them. *)
LEMMA CancelCuts ==
  ASSUME incoming \in Seq(Messages), NEW ids, Cancel(ids)
  PROVE  /\ incoming' \in Seq(Messages) /\ Ids(incoming') \subseteq Ids(incoming)
         /\ Len(incoming') <= Len(incoming)
         /\ \A i \in DOMAIN incoming' : i \in DOMAIN incoming /\ incoming'[i] = incoming[i]
<1>1. PICK sent \in 0..Len(incoming) : incoming' = SubSeq(incoming, 1, sent)
  BY DEF Cancel
<1>. QED
  BY <1>1, IdsCut

(* An interruption leaves the first of the messages, if the connection is      *)
(* open, or all.                                                               *)
Shortened == /\ incoming' \in Seq(Messages) /\ Ids(incoming') \subseteq Ids(incoming)
             /\ Len(incoming') <= Len(incoming)
             /\ \A i \in DOMAIN incoming' : i \in DOMAIN incoming /\ incoming'[i] = incoming[i]

LEMMA UnchangedShortens ==
  ASSUME incoming \in Seq(Messages), incoming' = incoming
  PROVE  Shortened
  BY DEF Shortened

LEMMA InterruptTyped ==
  ASSUME TypeInv, Interrupt
  PROVE  Shortened /\ ContextsTyped' /\ valid' = {}
<1>. USE DEF Ignore
<1>1. incoming \in Seq(Messages) /\ ContextsTyped /\ valid' = {}
  BY DEF TypeInv, WireTyped, SendersTyped, Interrupt
<1>2. \A ids : Cancel(ids) => Shortened
  BY <1>1, CancelCuts DEF Shortened
<1>3. incoming' = incoming => Shortened
  BY <1>1, UnchangedShortens
<1>4. CASE provider = "cartesia" /\ CartesiaInterrupt
  BY <1>1, <1>2, <1>3, <1>4 DEF CartesiaInterrupt, ContextsTyped
<1>5. CASE provider = "pixa" /\ PixaInterrupt
  BY <1>1, <1>2, <1>3, <1>5 DEF PixaInterrupt, ContextsTyped
<1>6. CASE provider = "deepgram" /\ DeepgramInterrupt
  BY <1>1, <1>2, <1>3, <1>6 DEF DeepgramInterrupt, ContextsTyped
<1>7. CASE provider = "rime" /\ RimeInterrupt
  BY <1>1, <1>2, <1>3, <1>7 DEF RimeInterrupt, ContextsTyped
<1>8. CASE provider \notin {"cartesia", "pixa", "deepgram", "rime"}
  <2>1. UNCHANGED <<ignored, context, contexts, incoming>>
    BY <1>8 DEF Interrupt, ElevenlabsInterrupt, NoInterrupt
  <2>. QED
    BY <1>1, <1>3, <2>1 DEF ContextsTyped
<1>. QED
  BY <1>4, <1>5, <1>6, <1>7, <1>8 DEF Interrupt

(* A text that is sent brings the reply. *)
LEMMA SendTyped ==
  ASSUME TypeInv, provider \in Streaming, NEW i \in DOMAIN senders, Send(i), ignored' = ignored
  PROVE  /\ senders[i] \in SenderType
         /\ \E n \in Nat, r \in Seq(Messages) :
              /\ Fits(r, senders[i], n) /\ incoming' = incoming \o r
              /\ disturbed' = disturbed \union (IF n = 0 THEN {"merged"} ELSE {})
                                 \union (IF i > 1 THEN {"reordered"} ELSE {})
                                 \union (IF senders[i].seq \notin valid THEN {"stale"} ELSE {})
         /\ lastSent' \in BOOLEAN /\ ContextsTyped'
         /\ provider \notin {"elevenlabs", "rime"} => context' = context /\ contexts' = contexts
<1>1. senders[i] \in SenderType /\ ContextsTyped
  BY DEF TypeInv, SendersTyped
<1>2. PICK n \in (IF provider \in Buffering THEN 0 ELSE 1)..MaxAudio :
        /\ incoming' = incoming \o Reply(senders[i], n)
        /\ disturbed' = disturbed \union (IF n = 0 THEN {"merged"} ELSE {})
                                 \union (IF i > 1 THEN {"reordered"} ELSE {})
                                 \union (IF senders[i].seq \notin valid THEN {"stale"} ELSE {})
  BY DEF Send
<1>3. n \in Nat
  BY BoundsAssumption
<1>4. Fits(Reply(senders[i], n), senders[i], n) /\ Reply(senders[i], n) \in Seq(Messages)
  BY <1>1, <1>3, ReplyFits DEF Fits
<1>5. lastSent' \in BOOLEAN
  BY <1>1 DEF Send, TypeInv, SendersTyped, SenderType
<1>6. ContextsTyped'
  BY <1>1 DEF Send, ContextsTyped
<1>. QED
  BY <1>1, <1>2, <1>3, <1>4, <1>5, <1>6 DEF Send

LEMMA RestTyped ==
  ASSUME NEW s \in Seq(Messages), s # <<>>
  PROVE  Head(s) \in Messages /\ Tail(s) \in Seq(Messages)
  BY IdsTaken

LEMMA TypeInvKept == TypeInv /\ [Next]_vars => TypeInv'
<1>. SUFFICES ASSUME TypeInv, [Next]_vars PROVE TypeInv'
  OBVIOUS
<1>. USE DEF TypeInv
<1>1. CASE Respond
  BY <1>1, BoundsAssumption
  DEF Respond, AnswersTyped, TextsTyped, SendersTyped, ContextsTyped, LinkTyped, WireTyped, GivenTyped,
      EndTyped, Seqs, sending, link, given
<1>2. CASE Interrupt
  BY <1>2, InterruptTyped
  DEF Interrupt, AnswersTyped, TextsTyped, SendersTyped, LinkTyped, WireTyped, GivenTyped,
      EndTyped, link, given, Shortened, Disturb
<1>3. ASSUME NEW last \in BOOLEAN, Push(last) PROVE TypeInv'
  <2>1. seq \in Seqs
    BY <1>3 DEF Push, AnswersTyped
  <2>2. [seq |-> seq, last |-> last, end |-> FALSE] \in TextType
    BY <2>1 DEF TextType
  <2>3. [seq |-> seq, last |-> last, end |-> FALSE] \in Metas
    BY <2>1 DEF Metas, Seqs
  <2>4. [seq |-> seq, last |-> last, state |-> "new"] \in SenderType
    BY <2>1 DEF SenderType
  <2>5. AnswersTyped'
    BY <1>3, <2>1, BoundsAssumption DEF Push, AnswersTyped
  <2>6. TextsTyped'
    <3>1. queue' = Append(queue, [seq |-> seq, last |-> last, end |-> FALSE]) /\ fetching' = fetching
      BY <1>3 DEF Push
    <3>2. queue' \in Seq(TextType)
      BY <2>2, <3>1 DEF TextsTyped
    <3>3. meta' \in Metas
      BY <1>3, <2>3 DEF Push, TextsTyped
    <3>. QED
      BY <3>1, <3>2, <3>3 DEF TextsTyped
  <2>7. SendersTyped'
    <3>0. provider' = provider /\ UNCHANGED <<ignored, lastSent>>
      BY <1>3 DEF Push
    <3>1. CASE provider \in Streaming
      <4>1. senders' = Append(senders, [seq |-> seq, last |-> last, state |-> "new"])
        BY <1>3, <3>1 DEF Push
      <4>2. senders' \in Seq(SenderType)
        BY <2>4, <4>1 DEF SendersTyped
      <4>3. ContextsTyped'
        <5>1. (context' = contexts + 1 /\ contexts' = contexts + 1) \/ UNCHANGED <<context, contexts>>
          BY <1>3, <3>1 DEF Push
        <5>. QED
          BY <3>0, <5>1 DEF ContextsTyped, SendersTyped
      <4>. QED
        BY <3>0, <3>1, <4>2, <4>3 DEF SendersTyped
    <3>2. CASE provider \notin Streaming
      <4>1. UNCHANGED <<senders, contexts, context>>
        BY <1>3, <3>2 DEF Push
      <4>. QED
        BY <3>0, <4>1 DEF SendersTyped, ContextsTyped
    <3>. QED
      BY <3>1, <3>2
  <2>8. LinkTyped' /\ WireTyped' /\ GivenTyped'
    BY <1>3 DEF Push, LinkTyped, WireTyped, GivenTyped, link, given
  <2>9. EndTyped'
    BY <1>3 DEF Push, EndTyped, Disturb
  <2>. QED
    BY <2>5, <2>6, <2>7, <2>8, <2>9
<1>4. ASSUME NEW i \in DOMAIN senders, SenderStarts(i) \/ SenderWakes(i) PROVE TypeInv'
  <2>1. AnswersTyped' /\ TextsTyped' /\ LinkTyped' /\ GivenTyped' /\ ended' = ended
        /\ yielding' = yielding /\ done' = done /\ ignored' = ignored
    BY <1>4 DEF SenderStarts, SenderWakes, AnswersTyped, TextsTyped, LinkTyped, GivenTyped, answers, link, given
  <2>1a. provider \in Streaming /\ provider' = provider
    BY <1>4 DEF SenderStarts, SenderWakes, SendersTyped, answers
  <2>2. \/ Leaves(i)
        \/ senders' = [senders EXCEPT ![i].state = "polling"]
    BY <1>4 DEF SenderStarts, SenderWakes
  <2>3. senders' \in Seq(SenderType)
    <3>1. senders \in Seq(SenderType)
      BY DEF SendersTyped
    <3>2. CASE Leaves(i)
      BY <3>1, <3>2, IdsRemoved DEF Leaves
    <3>3. CASE senders' = [senders EXCEPT ![i].state = "polling"]
      <4>1. senders[i] \in SenderType
        BY <3>1
      <4>2. [senders[i] EXCEPT !.state = "polling"] \in SenderType
        BY <4>1 DEF SenderType
      <4>. QED
        BY <3>1, <3>3, <4>2
    <3>. QED
      BY <2>2, <3>2, <3>3
  <2>4. \/ UNCHANGED <<incoming, lastSent, context, contexts, disturbed>>
        \/ Send(i)
    BY <1>4 DEF SenderStarts, SenderWakes
  <2>5. CASE UNCHANGED <<incoming, lastSent, context, contexts, disturbed>>
    BY <2>1, <2>1a, <2>3, <2>5 DEF SendersTyped, ContextsTyped, WireTyped, EndTyped
  <2>6. CASE Send(i) /\ provider \in Streaming
    <3>1. /\ \E n \in Nat, r \in Seq(Messages) :
               /\ Fits(r, senders[i], n) /\ incoming' = incoming \o r
               /\ disturbed' = disturbed \union (IF n = 0 THEN {"merged"} ELSE {})
                                  \union (IF i > 1 THEN {"reordered"} ELSE {})
                                  \union (IF senders[i].seq \notin valid THEN {"stale"} ELSE {})
          /\ lastSent' \in BOOLEAN /\ ContextsTyped'
      BY <2>1, <2>6, SendTyped
    <3>2. incoming' \in Seq(Messages)
      BY <3>1 DEF WireTyped
    <3>3. EndTyped'
      BY <2>1, <3>1 DEF EndTyped
    <3>. QED
      BY <2>1, <2>1a, <2>3, <3>1, <3>2, <3>3 DEF SendersTyped, WireTyped
  <2>. QED
    BY <2>1a, <2>4, <2>5, <2>6
<1>5. ASSUME NEW i \in DOMAIN senders, SendFails(i) PROVE TypeInv'
  <2>1. senders' \in Seq(SenderType)
    BY <1>5, IdsRemoved DEF SendFails, Leaves, SendersTyped
  <2>2. provider \in Streaming
    BY <1>5 DEF SendersTyped
  <2>3. AnswersTyped' /\ TextsTyped' /\ GivenTyped' /\ EndTyped'
    BY <1>5 DEF SendFails, AnswersTyped, TextsTyped, GivenTyped, EndTyped, Disturb, answers, given
  <2>4. LinkTyped' /\ WireTyped'
    <3>1. drops' \in Nat /\ failures' \in 0..3
      BY <1>5 DEF SendFails, LinkTyped
    <3>2. up' \in BOOLEAN /\ error' \in BOOLEAN /\ done' \in BOOLEAN
      BY <1>5 DEF SendFails, LinkTyped, WireTyped
    <3>3. incoming' \in Seq(Messages) /\ yielding' \in Seq(Messages)
      BY <1>5 DEF SendFails, WireTyped
    <3>. QED
      BY <3>1, <3>2, <3>3 DEF LinkTyped, WireTyped
  <2>5. SendersTyped'
    BY <1>5, <2>1, <2>2 DEF SendFails, SendersTyped, ContextsTyped, answers
  <2>. QED
    BY <2>3, <2>4, <2>5
<1>6. CASE Receive
  <2>1. incoming # <<>> /\ provider \in Streaming /\ incoming \in Seq(Messages)
    BY <1>6 DEF Receive, WireTyped
  <2>2. Head(incoming) \in Messages /\ Tail(incoming) \in Seq(Messages)
    BY <2>1, RestTyped
  <2>3. PICK items \in Yields(Head(incoming)) :
          IF items = <<>> THEN UNCHANGED <<yielding, meta, queue, given>>
          ELSE YieldItem(Head(items)) /\ yielding' = Tail(items)
    BY <1>6 DEF Receive
  <2>4. items \in Seq(Messages)
    BY <2>1, <2>2, YieldsFit
  <2>5. queue' \in Seq(TextType) /\ meta' \in Metas /\ GivenTyped' /\ yielding' \in Seq(Messages)
    <3>1. CASE items = <<>>
      BY <2>3, <3>1 DEF given, TextsTyped, GivenTyped, WireTyped
    <3>2. CASE items # <<>>
      <4>1. Head(items) \in Messages /\ Tail(items) \in Seq(Messages)
        BY <2>4, <3>2, RestTyped
      <4>. QED
        BY <2>3, <3>2, <4>1, YieldItemTyped
    <3>. QED
      BY <3>1, <3>2
  <2>. QED
    BY <1>6, <2>2, <2>5
    DEF Receive, AnswersTyped, TextsTyped, SendersTyped, ContextsTyped, LinkTyped, WireTyped,
        EndTyped, answers, sending, link
<1>7. CASE Yield
  <2>1. Head(yielding) \in Messages /\ Tail(yielding) \in Seq(Messages)
    BY <1>7, RestTyped DEF Yield, WireTyped
  <2>2. queue' \in Seq(TextType) /\ meta' \in Metas /\ GivenTyped'
    BY <1>7, <2>1, YieldItemTyped DEF Yield
  <2>. QED
    BY <1>7, <2>1, <2>2
    DEF Yield, AnswersTyped, TextsTyped, SendersTyped, ContextsTyped, LinkTyped, WireTyped,
        EndTyped, answers, sending, link
<1>8. CASE RaiseError \/ Connect \/ Drop
  <2>1. AnswersTyped' /\ TextsTyped' /\ SendersTyped' /\ GivenTyped'
    BY <1>8
    DEF RaiseError, Connect, Drop, AnswersTyped, TextsTyped, SendersTyped, ContextsTyped,
        GivenTyped, answers, sending, given
  <2>2. LinkTyped' /\ WireTyped'
    <3>1. drops' \in Nat /\ failures' \in 0..3
      <4>1. \/ UNCHANGED <<drops, failures>>
            \/ drops' = drops /\ failures' = 0
            \/ drops' = drops + 1 /\ failures' = failures
        BY <1>8 DEF RaiseError, Connect, Drop, link
      <4>. QED
        BY <4>1 DEF LinkTyped
    <3>2. up' \in BOOLEAN /\ error' \in BOOLEAN /\ done' \in BOOLEAN
      BY <1>8 DEF RaiseError, Connect, Drop, LinkTyped, WireTyped, link
    <3>3. incoming' \in Seq(Messages) /\ yielding' \in Seq(Messages)
      <4>1. incoming' \in {incoming, <<>>} /\ yielding' = yielding
        BY <1>8 DEF RaiseError, Connect, Drop
      <4>2. incoming \in Seq(Messages) /\ yielding \in Seq(Messages) /\ <<>> \in Seq(Messages)
        BY DEF WireTyped
      <4>3. CASE incoming' = incoming
        BY <4>1, <4>2, <4>3
      <4>4. CASE incoming' = <<>>
        BY <4>1, <4>2, <4>4
      <4>. QED
        BY <4>1, <4>3, <4>4
    <3>. QED
      BY <3>1, <3>2, <3>3 DEF LinkTyped, WireTyped
  <2>3. EndTyped'
    BY <1>8 DEF RaiseError, Connect, Drop, EndTyped, Disturb
  <2>. QED
    BY <2>1, <2>2, <2>3
<1>9. CASE ConnectFails
  <2>1. PICK recorded \in BOOLEAN : error' = (error \/ recorded \/ failures = 2)
    BY <1>9 DEF ConnectFails, Records, CartesiaRecords, ElevenlabsRecords, PixaRecords, SarvamRecords,
                DeepgramRecords, RimeRecords, SmallestRecords, Streaming
  <2>. QED
    BY <1>9, <2>1
    DEF ConnectFails, AnswersTyped, TextsTyped, SendersTyped, ContextsTyped,
        LinkTyped, WireTyped, GivenTyped, EndTyped, answers, sending, given
<1>10. CASE Take
  <2>1. Head(queue) \in TextType /\ Tail(queue) \in Seq(TextType)
    BY <1>10, IdsTaken DEF Take, TextsTyped
  <2>. QED
    BY <1>10, <2>1
    DEF Take, AnswersTyped, TextsTyped, SendersTyped, ContextsTyped,
        LinkTyped, WireTyped, GivenTyped, EndTyped, answers, sending, link, given
<1>11. CASE Fetched \/ FetchFails
  <2>1. fetching \in TextType
    BY <1>11 DEF Fetched, FetchFails, TextsTyped
  <2>2. Stamped(fetching) \in Metas /\ fetching.seq \in 0..MaxSeq
    BY <2>1 DEF Stamped, TextType, Metas, Seqs
  <2>3. \A kind \in {"audio", "end"} : Give(kind, fetching.seq, Stamped(fetching)) => GivenTyped'
    BY <2>2, GiveTyped DEF AnswersTyped
  <2>4. GivenTyped' /\ ended' \in BOOLEAN /\ (fetching' = NoMeta \/ fetching' = fetching)
    BY <1>11, <2>3 DEF Fetched, FetchFails, given, GivenTyped, EndTyped
  <2>5. UNCHANGED <<answers, queue, meta, sending, link, incoming, yielding, done, disturbed>>
    BY <1>11 DEF Fetched, FetchFails
  <2>. QED
    BY <2>4, <2>5
    DEF AnswersTyped, TextsTyped, SendersTyped, ContextsTyped,
        LinkTyped, WireTyped, EndTyped, answers, sending, link
<1>12. CASE AzureCallback
  <2>1. fetching \in TextType
    BY <1>12 DEF AzureCallback, TextsTyped
  <2>2. [kind |-> "audio", seq |-> fetching.seq, context |-> 0, last |-> FALSE] \in Messages
    BY <2>1 DEF Messages, TextType
  <2>3. WireTyped'
    <3>1. done' \in BOOLEAN /\ yielding' \in Seq(Messages)
      BY <1>12 DEF AzureCallback, WireTyped
    <3>2. incoming' \in Seq(Messages)
      BY <1>12, <2>2 DEF AzureCallback, WireTyped
    <3>. QED
      BY <3>1, <3>2 DEF WireTyped
  <2>. QED
    BY <1>12, <2>3
    DEF AzureCallback, AnswersTyped, TextsTyped, SendersTyped, ContextsTyped,
        LinkTyped, GivenTyped, EndTyped, answers, sending, link, given
<1>13. CASE AzureChunk
  <2>1. incoming # <<>> /\ Tail(incoming) \in Seq(Messages)
    BY <1>13, RestTyped DEF AzureChunk, WireTyped
  <2>2. PICK m \in {fetching, Stamped(fetching)} : fetching' = m /\ Give("audio", fetching.seq, m)
    BY <1>13 DEF AzureChunk
  <2>3. m = NoMeta \/ m \in TextType
    BY <2>2 DEF TextsTyped, Stamped, NoMeta, TextType
  <2>4. m \in Metas /\ fetching.seq \in 0..MaxSeq
    BY <2>3, NoMetaTyped, BoundsAssumption DEF TextsTyped, TextType, Metas, Seqs
  <2>5. GivenTyped'
    BY <2>2, <2>4, GiveTyped DEF AnswersTyped
  <2>. QED
    BY <1>13, <2>1, <2>2, <2>3, <2>5
    DEF AzureChunk, AnswersTyped, TextsTyped, SendersTyped, ContextsTyped,
        LinkTyped, WireTyped, EndTyped, answers, sending, link
<1>14. CASE AzureNext
  BY <1>14
  DEF AzureNext, AnswersTyped, TextsTyped, SendersTyped, ContextsTyped,
      LinkTyped, WireTyped, GivenTyped, EndTyped, answers, sending, link, given
<1>15. CASE UNCHANGED vars
  BY <1>15
  DEF vars, AnswersTyped, TextsTyped, SendersTyped, ContextsTyped,
      LinkTyped, WireTyped, GivenTyped, EndTyped, answers, sending, link, given
<1>. QED
  BY <1>1, <1>2, <1>3, <1>4, <1>5, <1>6, <1>7, <1>8, <1>9, <1>10, <1>11, <1>12, <1>13, <1>14, <1>15
  DEF Next, SenderStep, Generator, Monitor

LEMMA TypeInvStarts == Init => TypeInv
<1>. SUFFICES ASSUME Init PROVE TypeInv
  OBVIOUS
<1>1. AnswersTyped
  BY BoundsAssumption DEF Init, AnswersTyped
<1>1a. TextsTyped
  BY NoMetaTyped DEF Init, TextsTyped
<1>1b. SendersTyped
  <2>1. senders = <<>> /\ context = 0 /\ contexts = 0 /\ ignored = {}
    BY DEF Init
  <2>2. lastSent \in BOOLEAN
    BY DEF Init
  <2>3. <<>> \in Seq(SenderType) /\ ContextsTyped
    BY <2>1 DEF ContextsTyped
  <2>. QED
    BY <2>1, <2>2, <2>3 DEF SendersTyped
<1>2. LinkTyped
  <2>1. failures \in 0..3 /\ drops \in Nat
    BY DEF Init
  <2>2. up \in BOOLEAN /\ error \in BOOLEAN
    BY DEF Init
  <2>. QED
    BY <2>1, <2>2 DEF LinkTyped
<1>2a. WireTyped
  <2>1. incoming \in Seq(Messages) /\ yielding \in Seq(Messages)
    BY DEF Init
  <2>2. done \in BOOLEAN
    BY DEF Init
  <2>. QED
    BY <2>1, <2>2 DEF WireTyped
<1>2b. EndTyped
  BY DEF Init, EndTyped
<1>3. GivenTyped
  BY BoundsAssumption DEF Init, GivenTyped, NoPacket, PacketType
<1>. QED
  BY <1>1, <1>1a, <1>1b, <1>2, <1>2a, <1>2b, <1>3 DEF TypeInv

LEMMA TypeInvHolds == Spec => []TypeInv
  BY TypeInvStarts, TypeInvKept, PTL DEF Spec

(* Every variable of Synthesizers has its type in every reachable state, for   *)
(* every provider and any numbers of answers, texts, messages and upsets.      *)
THEOREM TypeCorrect == Spec => []TypeOK
  BY TypeInvHolds, TypeInvIsType, PTL

-----------------------------------------------------------------------------
(* What the steps of a streaming synthesizer do to what is under way: a text's *)
(* sender goes without sending, goes on to poll, or sends.                     *)
Alone(i) == /\ senders' = RemoveAt(senders, i)
            /\ senders[i].seq \notin valid \/ error
            /\ UNCHANGED <<incoming, context, contexts, disturbed>>
Polls(i) == /\ Ids(senders') = Ids(senders) /\ Len(senders') = Len(senders)
            /\ DOMAIN senders' = DOMAIN senders
            /\ \A j \in DOMAIN senders : senders'[j].seq = senders[j].seq /\ senders'[j].last = senders[j].last
            /\ UNCHANGED <<incoming, context, contexts, disturbed>>
Sent(i, n, r) ==
  /\ senders' = RemoveAt(senders, i) /\ up
  /\ Fits(r, senders[i], n) /\ incoming' = incoming \o r
  /\ disturbed' = disturbed \union (IF n = 0 THEN {"merged"} ELSE {})
                            \union (IF i > 1 THEN {"reordered"} ELSE {})
                            \union (IF senders[i].seq \notin valid THEN {"stale"} ELSE {})
  /\ provider \notin {"elevenlabs", "rime"} => context' = context /\ contexts' = contexts
ByPasses == UNCHANGED <<answers, queue, meta, ignored, link, yielding, fetching, done, given, ended>>

LEMMA SenderEffect ==
  ASSUME TypeInv, NEW i \in DOMAIN senders, SenderStarts(i) \/ SenderWakes(i)
  PROVE  /\ provider \in Streaming /\ ByPasses
         /\ Alone(i) \/ Polls(i) \/ \E n \in Nat, r \in Seq(Messages) : Sent(i, n, r)
<1>1. senders \in Seq(SenderType) /\ provider \in Streaming
  BY DEF TypeInv, SendersTyped
<1>2. ByPasses /\ ignored' = ignored
  BY DEF SenderStarts, SenderWakes, ByPasses
<1>3. CASE /\ senders' = [senders EXCEPT ![i].state = "polling"]
           /\ UNCHANGED <<incoming, lastSent, context, contexts, disturbed>>
  <2>1. senders[i] \in SenderType
    BY <1>1
  <2>2. /\ DOMAIN senders' = DOMAIN senders /\ Len(senders') = Len(senders)
        /\ \A j \in DOMAIN senders : senders'[j].seq = senders[j].seq /\ senders'[j].last = senders[j].last
    BY <1>1, <1>3, <2>1 DEF SenderType
  <2>3. Ids(senders') = Ids(senders)
    BY <2>2 DEF Ids
  <2>. QED
    BY <1>1, <1>2, <1>3, <2>2, <2>3 DEF Polls
<1>4. CASE /\ Leaves(i) /\ UNCHANGED <<incoming, lastSent, context, contexts, disturbed>>
           /\ senders[i].seq \notin valid \/ error
  BY <1>1, <1>2, <1>4 DEF Alone, Leaves
<1>5. CASE Leaves(i) /\ Send(i)
  <2>1. /\ \E n \in Nat, r \in Seq(Messages) :
              /\ Fits(r, senders[i], n) /\ incoming' = incoming \o r
              /\ disturbed' = disturbed \union (IF n = 0 THEN {"merged"} ELSE {})
                                 \union (IF i > 1 THEN {"reordered"} ELSE {})
                                 \union (IF senders[i].seq \notin valid THEN {"stale"} ELSE {})
        /\ provider \notin {"elevenlabs", "rime"} => context' = context /\ contexts' = contexts
    BY <1>1, <1>2, <1>5, SendTyped
  <2>2. senders' = RemoveAt(senders, i) /\ up
    BY <1>5 DEF Leaves, Send
  <2>. QED
    BY <1>1, <1>2, <2>1, <2>2 DEF Sent
<1>. QED
  BY <1>3, <1>4, <1>5 DEF SenderStarts, SenderWakes

(* A message is received and yields nothing, or an item goes out and others    *)
(* wait.                                                                       *)
Nothing == UNCHANGED <<yielding, meta, queue, given>>
Passed(item) ==
  /\ item \in Messages /\ item.seq = Head(incoming).seq /\ YieldItem(item)
  /\ yielding' \in Seq(Messages) /\ Ids(yielding') \subseteq {Head(incoming).seq}
  /\ provider \in Buffering => item = Head(incoming) /\ yielding' = <<>>
Received == UNCHANGED <<answers, sending, link, fetching, done, ended, disturbed>>

LEMMA ReceiveEffect ==
  ASSUME TypeInv, Receive
  PROVE  /\ provider \in Streaming /\ up /\ ~error /\ incoming # <<>> /\ Received /\ yielding = <<>>
         /\ incoming' = Tail(incoming)
         /\ \/ Nothing /\ Head(incoming).context \in ignored /\ provider \in {"cartesia", "pixa"}
            \/ /\ \E item : Passed(item)
               /\ provider = "cartesia" => Head(incoming).context \notin ignored
<1>1. /\ provider \in Streaming /\ up /\ ~error /\ incoming # <<>> /\ Received /\ yielding = <<>>
      /\ incoming' = Tail(incoming)
  BY DEF Receive, Received
<1>2. Head(incoming) \in Messages
  BY <1>1, RestTyped DEF TypeInv, WireTyped
<1>3. PICK items \in Yields(Head(incoming)) :
        IF items = <<>> THEN Nothing ELSE YieldItem(Head(items)) /\ yielding' = Tail(items)
  BY DEF Receive, Nothing
<1>4. /\ items \in Seq(Messages) /\ \A i \in DOMAIN items : items[i].seq = Head(incoming).seq
      /\ provider \in Buffering =>
           items = <<Head(incoming)>> \/ (items = <<>> /\ Head(incoming).context \in ignored)
      /\ provider \notin {"cartesia", "pixa"} => items # <<>>
      /\ provider = "cartesia" => (items = <<>> <=> Head(incoming).context \in ignored)
  BY <1>1, <1>2, YieldsFit
<1>5. CASE items = <<>>
  <2>1. provider \in {"cartesia", "pixa"} /\ Head(incoming).context \in ignored
    BY <1>4, <1>5 DEF Buffering
  <2>. QED
    BY <1>1, <1>3, <1>5, <2>1
<1>6. CASE items # <<>>
  <2>1. /\ Head(items) \in Messages /\ Tail(items) \in Seq(Messages) /\ 1 \in DOMAIN items
        /\ Head(items) = items[1] /\ Ids(Tail(items)) \subseteq Ids(items)
    BY <1>4, <1>6, IdsTaken
  <2>2. Ids(items) \subseteq {Head(incoming).seq}
    BY <1>4 DEF Ids
  <2>3. provider \in Buffering => Head(items) = Head(incoming) /\ Tail(items) = <<>>
    BY <1>4, <1>6
  <2>4. Passed(Head(items))
    BY <1>3, <1>4, <1>6, <2>1, <2>2, <2>3 DEF Passed
  <2>. QED
    BY <1>1, <1>4, <1>6, <2>4
<1>. QED
  BY <1>5, <1>6

-----------------------------------------------------------------------------
(* Which of the state each kind of provider uses.                              *)
Streams == provider \in Streaming
Direct == provider \in {"http", "azure"}
ModeInv ==
  /\ ~Streams => yielding = <<>> /\ ~up
  /\ provider = "http" => incoming = <<>>
  /\ Streams => fetching = NoMeta
  /\ Streams /\ ~up => incoming = <<>>
  /\ provider \in Buffering => yielding = <<>>

LEMMA KindOfProvider ==
  ASSUME TypeInv
  PROVE  (Direct <=> ~Streams) /\ (provider \in Buffering => Streams) /\ (provider = "cartesia" => Streams)
  BY ProvidersAssumption DEF TypeInv, AnswersTyped, Direct, Streams, Streaming, Buffering

LEMMA ModeInvKept == TypeInv /\ ModeInv /\ [Next]_vars => ModeInv'
<1>. SUFFICES ASSUME TypeInv, ModeInv, [Next]_vars PROVE ModeInv'
  OBVIOUS
<1>0. (Direct <=> ~Streams) /\ (provider \in Buffering => Streams)
  BY KindOfProvider
<1>. USE DEF ModeInv, Streams
<1>1. CASE Respond \/ RaiseError \/ ConnectFails \/ AzureNext \/ Connect
  BY <1>1 DEF Respond, RaiseError, ConnectFails, AzureNext, Connect, answers, sending, link
<1>2. CASE Interrupt
  <2>1. Len(incoming') <= Len(incoming) /\ incoming' \in Seq(Messages) /\ incoming \in Seq(Messages)
    BY <1>2, InterruptTyped DEF Shortened, TypeInv, WireTyped
  <2>2. incoming = <<>> => incoming' = <<>>
    BY <2>1
  <2>. QED
    BY <1>2, <2>2 DEF Interrupt, link
<1>3. ASSUME NEW last \in BOOLEAN, Push(last) PROVE ModeInv'
  BY <1>3 DEF Push, link
<1>4. ASSUME NEW i \in DOMAIN senders, SenderStarts(i) \/ SenderWakes(i) PROVE ModeInv'
  <2>1. /\ provider \in Streaming /\ ByPasses
        /\ Alone(i) \/ Polls(i) \/ \E n \in Nat, r \in Seq(Messages) : Sent(i, n, r)
    BY <1>4, SenderEffect
  <2>2. incoming' = incoming \/ up
    BY <2>1 DEF Alone, Polls, Sent
  <2>. QED
    BY <2>1, <2>2 DEF ByPasses, answers, link, Streaming
<1>5. ASSUME NEW i \in DOMAIN senders, SendFails(i) PROVE ModeInv'
  BY <1>5 DEF SendFails, answers
<1>6. CASE Receive
  BY <1>6, ReceiveEffect DEF Received, Nothing, Passed, answers, link, Streaming
<1>7. CASE Yield
  BY <1>7 DEF Yield, answers, link
<1>8. CASE Drop
  BY <1>8 DEF Drop, answers
<1>9. CASE Take \/ Fetched \/ FetchFails
  BY <1>0, <1>9 DEF Take, Fetched, FetchFails, answers, link, Direct
<1>10. CASE AzureCallback \/ AzureChunk
  BY <1>10 DEF AzureCallback, AzureChunk, answers, link, Streaming, Buffering
<1>11. CASE UNCHANGED vars
  BY <1>11 DEF vars, answers, link
<1>. QED
  BY <1>1, <1>2, <1>3, <1>4, <1>5, <1>6, <1>7, <1>8, <1>9, <1>10, <1>11
  DEF Next, SenderStep, Generator, Monitor

-----------------------------------------------------------------------------
(* Nothing is of an answer that has not begun; of one no text of which was     *)
(* pushed nothing is under way.                                                *)
Flight == Ids(senders) \union Ids(incoming) \union Ids(yielding)
Known(s) == s \in 1..seq
KnownInv ==
  /\ \A s \in Flight \union Ids(queue) \union valid \union complete : Known(s)
  /\ meta.seq <= seq /\ fetching.seq <= seq /\ packet.of <= seq /\ packet.seq <= seq
  /\ Streams /\ pushed = 0 => seq \notin Flight

(* A step that brings nothing new and begins no answer. *)
Quiet ==
  /\ provider' = provider /\ Ids(queue)' \subseteq Ids(queue)
  /\ \A s \in Flight' : s \in Flight \/ (~Streams /\ s = fetching.seq /\ s # 0)
  /\ UNCHANGED <<seq, complete, pushed>> /\ valid' \subseteq valid
  /\ meta'.seq \in {meta.seq} \union Ids(queue)
  /\ fetching'.seq \in {0, fetching.seq} \union Ids(queue)
  /\ \/ packet' = packet
     \/ packet'.of \in {fetching.seq} \union Flight /\ packet'.seq \in {fetching.seq, meta.seq} \union Ids(queue)

LEMMA IdTypes ==
  ASSUME TypeInv
  PROVE  /\ Flight \subseteq Seqs /\ Ids(queue) \subseteq Seqs
         /\ meta.seq \in Nat /\ fetching.seq \in Nat /\ packet.of \in Nat /\ packet.seq \in Nat /\ seq \in Nat
         /\ valid \subseteq Seqs
<1>1. /\ senders \in Seq(SenderType) /\ incoming \in Seq(Messages) /\ yielding \in Seq(Messages)
      /\ queue \in Seq(TextType)
  BY DEF TypeInv, SendersTyped, WireTyped, TextsTyped
<1>2. Ids(senders) \subseteq Seqs
  <2>1. \A e \in SenderType : e.seq \in Seqs
    BY DEF SenderType
  <2>. QED
    BY <1>1, <2>1, IdsWithin
<1>3. Ids(incoming) \subseteq Seqs /\ Ids(yielding) \subseteq Seqs
  <2>1. \A e \in Messages : e.seq \in Seqs
    BY DEF Messages
  <2>. QED
    BY <1>1, <2>1, IdsWithin
<1>4. Ids(queue) \subseteq Seqs
  <2>1. \A e \in TextType : e.seq \in Seqs
    BY DEF TextType
  <2>. QED
    BY <1>1, <2>1, IdsWithin
<1>5. meta.seq \in Nat /\ fetching.seq \in Nat
  BY NoMetaTyped, BoundsAssumption DEF TypeInv, TextsTyped, Metas, TextType, Seqs
<1>6. packet.of \in Nat /\ packet.seq \in Nat
  BY DEF TypeInv, GivenTyped, PacketType
<1>. QED
  BY <1>2, <1>3, <1>4, <1>5, <1>6, BoundsAssumption DEF Flight, TypeInv, AnswersTyped

LEMMA QuietKeepsKnown ==
  ASSUME TypeInv, KnownInv, Quiet
  PROVE  KnownInv'
<1>. USE DEF Quiet, KnownInv, Known
<1>1. seq \in Nat /\ meta.seq \in Nat /\ fetching.seq \in Nat
  BY IdTypes
<1>2. \A s \in Flight \union Ids(queue) : s \in Nat /\ s <= seq
  BY <1>1
<1>3. meta'.seq <= seq /\ fetching'.seq <= seq
  BY <1>1, <1>2
<1>4. packet'.of <= seq /\ packet'.seq <= seq
  BY <1>1, <1>2
<1>5. \A s \in Flight' : s \in 1..seq
  BY <1>1
<1>6. \A s \in Ids(queue)' \union valid' \union complete' : s \in 1..seq
  OBVIOUS
<1>. QED
  BY <1>3, <1>4, <1>5, <1>6 DEF Streams

(* An item goes out with meta information that is of the queue, or the last.   *)
LEMMA YieldItemEffect ==
  ASSUME TypeInv, NEW item \in Messages, YieldItem(item)
  PROVE  /\ queue = <<>> => NextMeta = meta /\ queue' = queue
         /\ queue # <<>> => /\ NextMeta = Head(queue) /\ queue' = Tail(queue) /\ NextMeta.seq \in Ids(queue)
                            /\ Len(queue') = Len(queue) - 1
         /\ Ids(queue') \subseteq Ids(queue)
         /\ meta'.seq = NextMeta.seq /\ packet'.seq = NextMeta.seq /\ packet'.of = item.seq
         /\ meta'.last = NextMeta.last
         /\ packet'.kind = item.kind /\ packet'.heard = (NextMeta.seq \in valid)
         /\ \A s \in finished' : s \in finished \/ /\ s = NextMeta.seq /\ NextMeta.last
                                                   /\ item.kind = "end" \/ NextMeta.end
<1>1. /\ ItemMeta(item).seq = NextMeta.seq /\ ItemMeta(item).last = NextMeta.last
      /\ ItemMeta(item).end = (item.kind = "end" \/ NextMeta.end)
  BY ItemMetaTyped
<1>2. queue \in Seq(TextType)
  BY DEF TypeInv, TextsTyped
<1>3. queue = <<>> => NextMeta = meta /\ queue' = queue
  BY DEF NextMeta, YieldItem
<1>4. queue # <<>> => /\ NextMeta = Head(queue) /\ queue' = Tail(queue) /\ NextMeta.seq \in Ids(queue)
                      /\ Len(queue') = Len(queue) - 1 /\ Ids(queue') \subseteq Ids(queue)
  BY <1>2, IdsTaken DEF NextMeta, YieldItem
<1>5. meta'.seq = NextMeta.seq /\ meta'.last = NextMeta.last
  BY <1>1 DEF YieldItem
<1>6. packet' = [kind |-> item.kind, of |-> item.seq, seq |-> NextMeta.seq, heard |-> NextMeta.seq \in valid]
  BY <1>1 DEF YieldItem, Give
<1>7. \A s \in finished' : s \in finished \/ /\ s = NextMeta.seq /\ NextMeta.last
                                             /\ item.kind = "end" \/ NextMeta.end
  BY <1>1 DEF YieldItem, Give
<1>. QED
  BY <1>3, <1>4, <1>5, <1>6, <1>7

LEMMA SentIds ==
  ASSUME TypeInv, NEW i \in DOMAIN senders, NEW n \in Nat, NEW r \in Seq(Messages), Sent(i, n, r)
  PROVE  /\ Ids(incoming') \subseteq Ids(incoming) \union {senders[i].seq} /\ senders[i].seq \in Ids(senders)
         /\ Len(incoming') = Len(incoming) + Len(r)
<1>1. incoming \in Seq(Messages)
  BY DEF TypeInv, WireTyped
<1>2. incoming' = incoming \o r
  BY DEF Sent
<1>3. Ids(incoming \o r) = Ids(incoming) \union Ids(r)
  BY <1>1, IdsJoined
<1>4. Ids(r) \subseteq {senders[i].seq}
  BY DEF Sent, Fits, Ids
<1>5. senders[i].seq \in Ids(senders)
  BY DEF Ids
<1>6. Len(incoming \o r) = Len(incoming) + Len(r)
  BY <1>1, Joined
<1>. QED
  BY <1>2, <1>3, <1>4, <1>5, <1>6

LEMMA SenderIds ==
  ASSUME TypeInv, NEW i \in DOMAIN senders, SenderStarts(i) \/ SenderWakes(i)
  PROVE  Ids(senders') \subseteq Ids(senders) /\ Flight' \subseteq Flight
<1>1. senders \in Seq(SenderType)
  BY DEF TypeInv, SendersTyped
<1>2. Ids(RemoveAt(senders, i)) \subseteq Ids(senders)
  BY <1>1, IdsRemoved
<1>3. /\ ByPasses
      /\ Alone(i) \/ Polls(i) \/ \E n \in Nat, r \in Seq(Messages) : Sent(i, n, r)
  BY SenderEffect
<1>4. Ids(senders') \subseteq Ids(senders)
  BY <1>2, <1>3 DEF Alone, Polls, Sent
<1>5. Ids(incoming') \subseteq Ids(incoming) \union Ids(senders)
  BY <1>3, SentIds DEF Alone, Polls
<1>6. yielding' = yielding
  BY <1>3 DEF ByPasses
<1>7. Flight' = Ids(senders') \union Ids(incoming') \union Ids(yielding')
  BY DEF Flight
<1>. QED
  BY <1>4, <1>5, <1>6, <1>7 DEF Flight

(* The items that the receiver lets out. *)
LEMMA ReceivedIds ==
  ASSUME TypeInv, Receive
  PROVE  /\ Ids(incoming') \subseteq Ids(incoming) /\ Ids(yielding') \subseteq Ids(incoming)
         /\ Ids(queue') \subseteq Ids(queue) /\ Flight' \subseteq Flight
<1>1. incoming \in Seq(Messages) /\ yielding = <<>> /\ incoming # <<>> /\ incoming' = Tail(incoming)
  BY ReceiveEffect DEF TypeInv, WireTyped
<1>2. Ids(Tail(incoming)) \subseteq Ids(incoming) /\ Head(incoming).seq \in Ids(incoming)
  BY <1>1, IdsTaken
<1>3. Ids(yielding') \subseteq Ids(incoming) /\ Ids(queue') \subseteq Ids(queue)
  <2>1. CASE Nothing
    BY <1>1, <2>1, IdsEmpty DEF Nothing
  <2>2. ASSUME NEW item, Passed(item) PROVE Ids(yielding') \subseteq Ids(incoming) /\ Ids(queue') \subseteq Ids(queue)
    <3>1. item \in Messages /\ YieldItem(item) /\ Ids(yielding') \subseteq {Head(incoming).seq}
      BY <2>2 DEF Passed
    <3>2. Ids(queue') \subseteq Ids(queue)
      BY <3>1, YieldItemEffect
    <3>. QED
      BY <1>2, <3>1, <3>2
  <2>. QED
    BY <2>1, <2>2, ReceiveEffect
<1>4. senders' = senders
  BY ReceiveEffect DEF Received, sending
<1>5. Flight' = Ids(senders') \union Ids(incoming') \union Ids(yielding')
  BY DEF Flight
<1>. QED
  BY <1>1, <1>2, <1>3, <1>4, <1>5 DEF Flight

LEMMA YieldIds ==
  ASSUME TypeInv, Yield
  PROVE  /\ Head(yielding) \in Messages /\ YieldItem(Head(yielding)) /\ Head(yielding).seq \in Ids(yielding)
         /\ Ids(yielding') \subseteq Ids(yielding) /\ Ids(queue') \subseteq Ids(queue) /\ Flight' \subseteq Flight
<1>1. yielding \in Seq(Messages) /\ yielding # <<>> /\ yielding' = Tail(yielding) /\ YieldItem(Head(yielding))
  BY DEF TypeInv, WireTyped, Yield
<1>2. /\ Ids(Tail(yielding)) \subseteq Ids(yielding) /\ Head(yielding).seq \in Ids(yielding)
      /\ Head(yielding) \in Messages
  BY <1>1, IdsTaken
<1>3. Ids(queue') \subseteq Ids(queue)
  BY <1>1, <1>2, YieldItemEffect
<1>4. senders' = senders /\ incoming' = incoming
  BY DEF Yield, sending
<1>5. Flight' = Ids(senders') \union Ids(incoming') \union Ids(yielding')
  BY DEF Flight
<1>. QED
  BY <1>1, <1>2, <1>3, <1>4, <1>5 DEF Flight

(* A text that is pushed to a streaming synthesizer, or to another one. *)
LEMMA PushIds ==
  ASSUME TypeInv, NEW last \in BOOLEAN, Push(last)
  PROVE  /\ seq \in Seqs /\ Ids(queue') = Ids(queue) \union {seq}
         /\ queue' = Append(queue, [seq |-> seq, last |-> last, end |-> FALSE])
         /\ Streams => /\ Ids(senders') = Ids(senders) \union {seq} /\ Flight' = Flight \union {seq}
                       /\ senders' = Append(senders, [seq |-> seq, last |-> last, state |-> "new"])
                       /\ meta' = [seq |-> seq, last |-> last, end |-> FALSE]
         /\ ~Streams => senders' = senders /\ Flight' = Flight /\ meta' = meta
<1>1. /\ seq \in Seqs /\ queue \in Seq(TextType) /\ senders \in Seq(SenderType)
      /\ UNCHANGED <<incoming, yielding>>
  BY DEF Push, TypeInv, AnswersTyped, TextsTyped, SendersTyped
<1>2. queue' = Append(queue, [seq |-> seq, last |-> last, end |-> FALSE])
  BY DEF Push
<1>3. [seq |-> seq, last |-> last, end |-> FALSE] \in TextType
  BY <1>1 DEF TextType
<1>4. Ids(Append(queue, [seq |-> seq, last |-> last, end |-> FALSE])) = Ids(queue) \union {seq}
  BY <1>1, <1>3, IdsAppend
<1>5. [seq |-> seq, last |-> last, state |-> "new"] \in SenderType
  BY <1>1 DEF SenderType
<1>6. Ids(Append(senders, [seq |-> seq, last |-> last, state |-> "new"])) = Ids(senders) \union {seq}
  BY <1>1, <1>5, IdsAppend
<1>7. Flight' = Ids(senders') \union Ids(incoming') \union Ids(yielding')
  BY DEF Flight
<1>8. CASE Streams
  <2>1. /\ senders' = Append(senders, [seq |-> seq, last |-> last, state |-> "new"])
        /\ meta' = [seq |-> seq, last |-> last, end |-> FALSE]
    BY <1>8 DEF Push, Streams
  <2>2. Ids(senders') = Ids(senders) \union {seq}
    BY <1>6, <2>1
  <2>3. Flight' = Flight \union {seq}
    BY <1>1, <1>7, <2>2 DEF Flight
  <2>. QED
    BY <1>1, <1>2, <1>4, <1>8, <2>1, <2>2, <2>3
<1>9. CASE ~Streams
  <2>1. senders' = senders /\ meta' = meta
    BY <1>9 DEF Push, Streams
  <2>2. Flight' = Flight
    BY <1>1, <1>7, <2>1 DEF Flight
  <2>. QED
    BY <1>1, <1>2, <1>4, <1>9, <2>1, <2>2
<1>. QED
  BY <1>8, <1>9

(* What the steps that only lose something leave. *)
LEMMA LostIds ==
  ASSUME TypeInv, Interrupt \/ Drop \/ \E i \in DOMAIN senders : SendFails(i)
  PROVE  Flight' \subseteq Flight /\ Ids(incoming') \subseteq Ids(incoming) /\ Ids(senders') \subseteq Ids(senders)
<1>1. Flight' = Ids(senders') \union Ids(incoming') \union Ids(yielding')
  BY DEF Flight
<1>2. yielding' = yielding
  BY DEF Interrupt, Drop, SendFails
<1>3. Ids(incoming') \subseteq Ids(incoming)
  <2>1. CASE Interrupt
    BY <2>1, InterruptTyped DEF Shortened
  <2>2. CASE incoming' = <<>>
    BY <2>2, IdsEmpty
  <2>. QED
    BY <2>1, <2>2 DEF Drop, SendFails
<1>4. Ids(senders') \subseteq Ids(senders)
  <2>1. senders' = senders \/ \E i \in DOMAIN senders : senders' = RemoveAt(senders, i)
    BY DEF Interrupt, Drop, SendFails, Leaves, sending
  <2>2. senders \in Seq(SenderType)
    BY DEF TypeInv, SendersTyped
  <2>. QED
    BY <2>1, <2>2, IdsRemoved
<1>. QED
  BY <1>1, <1>2, <1>3, <1>4 DEF Flight

LEMMA KnownInvKept == TypeInv /\ ModeInv /\ KnownInv /\ [Next]_vars => KnownInv'
<1>. SUFFICES ASSUME TypeInv, ModeInv, KnownInv, [Next]_vars PROVE KnownInv'
  OBVIOUS
<1>a. /\ seq \in Nat /\ meta.seq \in Nat /\ fetching.seq \in Nat /\ packet.of \in Nat /\ packet.seq \in Nat
      /\ valid \subseteq Seqs /\ provider \in Providers
  BY IdTypes DEF TypeInv, AnswersTyped
<1>b. Flight' = Ids(senders') \union Ids(incoming') \union Ids(yielding') /\ Ids(queue)' = Ids(queue')
  BY DEF Flight, Ids
<1>c. (Direct <=> ~Streams) /\ NoMeta.seq = 0
  BY KindOfProvider, NoMetaTyped
<1>1. CASE Respond
  <2>1. /\ seq' = seq + 1 /\ pushed' = 0 /\ Flight' = Flight /\ Ids(queue)' = Ids(queue) /\ provider' = provider
        /\ valid' = valid \union {seq + 1} /\ UNCHANGED <<complete, meta, fetching, packet>>
    BY <1>1, <1>b DEF Respond, sending, given, Flight
  <2>2. \A s \in Flight \union Ids(queue) \union valid \union complete : s \in Nat /\ s >= 1 /\ s <= seq
    BY <1>a DEF KnownInv, Known
  <2>3. \A s \in Flight' \union Ids(queue)' \union valid' \union complete' : s \in 1..seq'
    BY <1>a, <2>1, <2>2
  <2>4. seq' \notin Flight'
    BY <1>a, <2>1, <2>2
  <2>5. meta'.seq <= seq' /\ fetching'.seq <= seq' /\ packet'.of <= seq' /\ packet'.seq <= seq'
    BY <1>a, <2>1 DEF KnownInv
  <2>. QED
    BY <2>3, <2>4, <2>5 DEF KnownInv, Known
<1>2. CASE Interrupt
  <2>1. /\ UNCHANGED <<provider, queue, seq, complete, pushed, meta, fetching, packet>> /\ valid' = {}
    BY <1>2 DEF Interrupt, given
  <2>2. Quiet
    BY <1>2, <1>b, <2>1, LostIds DEF Quiet
  <2>. QED
    BY <2>2, QuietKeepsKnown
<1>3. ASSUME NEW last \in BOOLEAN, Push(last) PROVE KnownInv'
  <2>1. /\ UNCHANGED <<provider, seq, valid, fetching, packet>> /\ pushed' = pushed + 1 /\ pushed \in Nat
        /\ complete' \subseteq complete \union {seq}
    BY <1>3 DEF Push, given, TypeInv, AnswersTyped
  <2>2. /\ seq \in Seqs /\ Ids(queue)' = Ids(queue) \union {seq} /\ Flight' \subseteq Flight \union {seq}
        /\ meta'.seq \in {meta.seq, seq}
    <3>1. CASE Streams
      <4>1. /\ Ids(queue') = Ids(queue) \union {seq} /\ Flight' = Flight \union {seq} /\ seq \in Seqs
            /\ meta' = [seq |-> seq, last |-> last, end |-> FALSE]
        BY <1>3, <3>1, PushIds, Zenon
      <4>2. meta'.seq = seq
        BY <4>1
      <4>. QED
        BY <1>b, <4>1, <4>2, Zenon
    <3>2. CASE ~Streams
      BY <1>3, <1>b, <3>2, PushIds
    <3>. QED
      BY <3>1, <3>2
  <2>3. seq \in 1..seq
    BY <1>a, <2>2 DEF Seqs
  <2>4. \A s \in Flight' \union Ids(queue)' \union valid' \union complete' : s \in 1..seq'
    BY <2>1, <2>2, <2>3 DEF KnownInv, Known
  <2>5. meta'.seq <= seq' /\ fetching'.seq <= seq' /\ packet'.of <= seq' /\ packet'.seq <= seq'
    BY <1>a, <2>1, <2>2 DEF KnownInv
  <2>6. pushed' # 0
    BY <2>1
  <2>. QED
    BY <2>4, <2>5, <2>6 DEF KnownInv, Known
<1>4. ASSUME NEW i \in DOMAIN senders, SenderStarts(i) \/ SenderWakes(i) PROVE KnownInv'
  <2>1. UNCHANGED <<provider, valid, queue, seq, complete, pushed, meta, fetching, packet>>
    BY <1>4, SenderEffect DEF ByPasses, answers, given
  <2>2. Quiet
    BY <1>4, <1>b, <2>1, SenderIds DEF Quiet
  <2>. QED
    BY <2>2, QuietKeepsKnown
<1>5. CASE Drop \/ \E i \in DOMAIN senders : SendFails(i)
  <2>1. UNCHANGED <<provider, valid, queue, seq, complete, pushed, meta, fetching, packet>>
    BY <1>5 DEF Drop, SendFails, answers, given
  <2>2. Quiet
    BY <1>5, <1>b, <2>1, LostIds DEF Quiet
  <2>. QED
    BY <2>2, QuietKeepsKnown
<1>6. CASE Receive
  <2>1. /\ UNCHANGED <<provider, valid, seq, complete, pushed, fetching>> /\ incoming \in Seq(Messages)
        /\ incoming # <<>>
    BY <1>6, ReceiveEffect DEF Received, answers, TypeInv, WireTyped
  <2>2. Head(incoming).seq \in Ids(incoming)
    BY <2>1, IdsTaken
  <2>3. CASE Nothing
    <3>1. UNCHANGED <<meta, packet>>
      BY <2>3 DEF Nothing, given
    <3>. QED
      BY <1>6, <1>b, <2>1, <3>1, ReceivedIds, QuietKeepsKnown DEF Quiet
  <2>4. ASSUME NEW item, Passed(item) PROVE KnownInv'
    <3>1. item \in Messages /\ YieldItem(item) /\ item.seq \in Flight
      BY <2>2, <2>4 DEF Passed, Flight
    <3>2. NextMeta.seq \in {meta.seq} \union Ids(queue)
      BY <3>1, YieldItemEffect
    <3>3. Quiet
      BY <1>6, <1>b, <2>1, <3>1, <3>2, ReceivedIds, YieldItemEffect DEF Quiet
    <3>. QED
      BY <3>3, QuietKeepsKnown
  <2>. QED
    BY <1>6, <2>3, <2>4, ReceiveEffect
<1>7. CASE Yield
  <2>1. UNCHANGED <<provider, valid, seq, complete, pushed, fetching>>
    BY <1>7 DEF Yield, answers
  <2>2. Head(yielding) \in Messages /\ YieldItem(Head(yielding)) /\ Head(yielding).seq \in Flight
    BY <1>7, YieldIds DEF Flight
  <2>3. NextMeta.seq \in {meta.seq} \union Ids(queue)
    BY <2>2, YieldItemEffect
  <2>4. Quiet
    BY <1>7, <1>b, <2>1, <2>2, <2>3, YieldIds, YieldItemEffect DEF Quiet
  <2>. QED
    BY <2>4, QuietKeepsKnown
<1>8. CASE RaiseError \/ Connect \/ ConnectFails
  <2>1. UNCHANGED <<answers, queue, senders, incoming, yielding, meta, fetching, packet>>
    BY <1>8 DEF RaiseError, Connect, ConnectFails, sending, given
  <2>2. Flight' = Flight /\ Ids(queue)' = Ids(queue)
    BY <1>b, <2>1 DEF Flight
  <2>. QED
    BY <2>1, <2>2, QuietKeepsKnown DEF Quiet, answers
<1>9. CASE Take
  <2>1. /\ UNCHANGED <<answers, senders, incoming, yielding, meta, packet>> /\ queue' = Tail(queue)
        /\ queue # <<>> /\ fetching' \in {NoMeta, Head(queue)} /\ queue \in Seq(TextType)
    BY <1>9 DEF Take, sending, given, TypeInv, TextsTyped
  <2>2. Ids(Tail(queue)) \subseteq Ids(queue) /\ Head(queue).seq \in Ids(queue)
    BY <2>1, IdsTaken
  <2>3. Flight' = Flight
    BY <1>b, <2>1 DEF Flight
  <2>4. fetching'.seq \in {0, fetching.seq} \union Ids(queue)
    BY <1>c, <2>1, <2>2
  <2>5. Quiet
    BY <1>b, <2>1, <2>2, <2>3, <2>4 DEF Quiet, answers
  <2>. QED
    BY <2>5, QuietKeepsKnown
<1>10. CASE Fetched \/ FetchFails \/ AzureNext
  <2>1. /\ UNCHANGED <<answers, senders, incoming, yielding, meta, queue>>
        /\ fetching' \in {NoMeta, fetching}
    BY <1>10 DEF Fetched, FetchFails, AzureNext, sending
  <2>2. packet' = packet \/ (packet'.of = fetching.seq /\ packet'.seq = fetching.seq)
    <3>1. Stamped(fetching).seq = fetching.seq
      BY DEF Stamped, TypeInv, TextsTyped, TextType, NoMeta
    <3>. QED
      BY <1>10, <3>1 DEF Fetched, FetchFails, AzureNext, Give, given
  <2>3. Flight' = Flight /\ Ids(queue)' = Ids(queue)
    BY <1>b, <2>1 DEF Flight
  <2>4. fetching'.seq \in {0, fetching.seq} \union Ids(queue)
    BY <1>c, <2>1
  <2>5. Quiet
    BY <2>1, <2>2, <2>3, <2>4 DEF Quiet, answers
  <2>. QED
    BY <2>5, QuietKeepsKnown
<1>11. CASE AzureCallback
  <2>1. /\ UNCHANGED <<answers, senders, yielding, meta, queue, fetching, packet>> /\ ~Streams
        /\ fetching # NoMeta /\ incoming \in Seq(Messages)
    BY <1>11 DEF AzureCallback, sending, given, Streams, Streaming, TypeInv, WireTyped
  <2>2. fetching.seq \in Seqs
    BY <2>1 DEF TypeInv, TextsTyped, TextType
  <2>3. Ids(incoming') \subseteq Ids(incoming) \union {fetching.seq}
    <3>1. [kind |-> "audio", seq |-> fetching.seq, context |-> 0, last |-> FALSE] \in Messages
      BY <2>2 DEF Messages
    <3>2. Ids(Append(incoming, [kind |-> "audio", seq |-> fetching.seq, context |-> 0, last |-> FALSE]))
            = Ids(incoming) \union {fetching.seq}
      BY <2>1, <3>1, IdsAppend
    <3>. QED
      BY <1>11, <3>2 DEF AzureCallback
  <2>4. fetching.seq # 0
    BY <2>2, BoundsAssumption DEF Seqs
  <2>5. Quiet
    <3>1. \A s \in Flight' : s \in Flight \/ s = fetching.seq
      BY <1>b, <2>1, <2>3 DEF Flight
    <3>. QED
      BY <1>b, <2>1, <2>4, <3>1 DEF Quiet, answers
  <2>. QED
    BY <2>5, QuietKeepsKnown
<1>12. CASE AzureChunk
  <2>1. /\ UNCHANGED <<answers, senders, yielding, meta, queue>>
        /\ incoming \in Seq(Messages) /\ incoming # <<>> /\ incoming' = Tail(incoming)
    BY <1>12 DEF AzureChunk, sending, TypeInv, WireTyped
  <2>2. Ids(Tail(incoming)) \subseteq Ids(incoming)
    BY <2>1, IdsTaken
  <2>3. Stamped(fetching).seq = fetching.seq
    BY DEF Stamped, TypeInv, TextsTyped, TextType, NoMeta
  <2>4. fetching'.seq = fetching.seq /\ packet'.of = fetching.seq /\ packet'.seq = fetching.seq
    BY <1>12, <2>3 DEF AzureChunk, Give
  <2>5. Flight' \subseteq Flight /\ Ids(queue)' = Ids(queue)
    BY <1>b, <2>1, <2>2 DEF Flight
  <2>6. Quiet
    BY <2>1, <2>4, <2>5 DEF Quiet, answers
  <2>. QED
    BY <2>6, QuietKeepsKnown
<1>13. CASE UNCHANGED vars
  <2>1. UNCHANGED <<answers, queue, senders, incoming, yielding, meta, fetching, packet>>
    BY <1>13 DEF vars, sending, given
  <2>2. Flight' = Flight /\ Ids(queue)' = Ids(queue)
    BY <1>b, <2>1 DEF Flight
  <2>. QED
    BY <2>1, <2>2, QuietKeepsKnown DEF Quiet, answers
<1>. QED
  BY <1>1, <1>2, <1>3, <1>4, <1>5, <1>6, <1>7, <1>8, <1>9, <1>10, <1>11, <1>12, <1>13
  DEF Next, SenderStep, Generator, Monitor

-----------------------------------------------------------------------------
(* The steps of a streaming synthesizer, and of the others. *)
Settles == /\ UNCHANGED <<answers, queue, meta, senders, context, contexts, ignored, incoming, yielding,
                          fetching, done, given, disturbed>>
           /\ error => error'

LEMMA StreamSteps ==
  ASSUME TypeInv, Streams, [Next]_vars
  PROVE  \/ Respond \/ Interrupt \/ (\E last \in BOOLEAN : Push(last))
         \/ (\E i \in DOMAIN senders : SenderStarts(i) \/ SenderWakes(i))
         \/ (\E i \in DOMAIN senders : SendFails(i)) \/ Drop \/ Receive \/ Yield \/ Settles
<1>1. (RaiseError \/ Connect) => Settles
  BY DEF RaiseError, Connect, Settles, sending, link
<1>2. ConnectFails => Settles
  <2>1. ConnectFails => UNCHANGED <<answers, queue, meta, senders, context, contexts, ignored, incoming,
                                    yielding, fetching, done, given, disturbed>>
    BY DEF ConnectFails, sending
  <2>2. ConnectFails /\ error => error'
    BY DEF ConnectFails
  <2>. QED
    BY <2>1, <2>2 DEF Settles
<1>3. UNCHANGED vars => Settles
  BY DEF vars, Settles, sending, link
<1>4. ~(Take \/ Fetched \/ FetchFails \/ AzureCallback \/ AzureChunk \/ AzureNext)
  BY DEF Take, Fetched, FetchFails, AzureCallback, AzureChunk, AzureNext, Streams, Streaming
<1>. QED
  BY <1>1, <1>2, <1>3, <1>4 DEF Next, SenderStep, Generator, Monitor

LEMMA DirectSteps ==
  ASSUME TypeInv, ModeInv, Direct, [Next]_vars
  PROVE  \/ Respond \/ Interrupt \/ (\E last \in BOOLEAN : Push(last))
         \/ Take \/ Fetched \/ FetchFails \/ AzureCallback \/ AzureChunk \/ AzureNext \/ UNCHANGED vars
<1>1. ~Streams
  BY KindOfProvider
<1>2. ~(Receive \/ RaiseError \/ Connect \/ ConnectFails \/ Drop \/ Yield)
  BY <1>1 DEF Receive, RaiseError, Connect, ConnectFails, Drop, Yield, Streams, ModeInv
<1>3. senders = <<>>
  BY <1>1 DEF TypeInv, SendersTyped, Streams
<1>. QED
  BY <1>2, <1>3 DEF Next, SenderStep, Generator, Monitor

(* An upset stays one, an error stays recorded, and a complete answer is       *)
(* complete for good.                                                          *)
LEMMA Lasting ==
  ASSUME TypeInv, [Next]_vars
  PROVE  provider' = provider /\ disturbed \subseteq disturbed' /\ complete \subseteq complete'
<1>1. ASSUME NEW i \in DOMAIN senders, SenderStarts(i) \/ SenderWakes(i)
      PROVE  provider' = provider /\ disturbed \subseteq disturbed' /\ complete \subseteq complete'
  BY <1>1, SenderEffect DEF ByPasses, answers, Alone, Polls, Sent
<1>2. Respond \/ Interrupt \/ (\E last \in BOOLEAN : Push(last)) =>
        provider' = provider /\ disturbed \subseteq disturbed' /\ complete \subseteq complete'
  BY DEF Respond, Interrupt, Push, Disturb
<1>3. (\E i \in DOMAIN senders : SendFails(i)) \/ Drop =>
        provider' = provider /\ disturbed \subseteq disturbed' /\ complete \subseteq complete'
  BY DEF SendFails, Drop, Disturb, answers
<1>4. Receive \/ Yield \/ RaiseError \/ Take \/ Fetched \/ AzureChunk \/ AzureNext =>
        provider' = provider /\ disturbed \subseteq disturbed' /\ complete \subseteq complete'
  BY DEF Receive, Yield, RaiseError, Take, Fetched, AzureChunk, AzureNext, answers
<1>5. Connect \/ ConnectFails \/ FetchFails \/ AzureCallback \/ UNCHANGED vars =>
        provider' = provider /\ disturbed \subseteq disturbed' /\ complete \subseteq complete'
  BY DEF Connect, ConnectFails, FetchFails, AzureCallback, vars, answers
<1>. QED
  BY <1>1, <1>2, <1>3, <1>4, <1>5 DEF Next, SenderStep, Generator, Monitor

LEMMA BusyIsInFlight ==
  ASSUME TypeInv, Streams, NEW s
  PROVE  Busy(s) <=> s \in Flight
<1>1. \A list : Has(s, list) <=> s \in Ids(list)
  BY DEF Has, Ids
<1>2. \A list : HasAudio(s, list) => Has(s, list)
  BY DEF HasAudio, Has
<1>. QED
  BY <1>1, <1>2 DEF Busy, AudioLeft, Flight, Streams

(* What is lost without an upset is nothing. *)
LEMMA NothingLost ==
  ASSUME TypeInv, Streams, Interrupt \/ Drop \/ \E i \in DOMAIN senders : SendFails(i),
         disturbed' \intersect {"cut", "lost"} = {}
  PROVE  Flight = {} /\ ~(\E i \in DOMAIN senders : SendFails(i))
<1>1. ~(\E i \in DOMAIN senders : SendFails(i))
  BY DEF SendFails, Disturb
<1>2. \A s \in Seqs : ~Busy(s)
  BY <1>1 DEF Interrupt, Drop, Disturb
<1>. QED
  BY <1>1, <1>2, BusyIsInFlight, IdTypes

LEMMA InterruptIsNoCut ==
  ASSUME TypeInv, Streams, Interrupt, "cut" \notin disturbed'
  PROVE  Flight = {}
<1>1. \A s \in Seqs : ~Busy(s)
  BY DEF Interrupt, Disturb
<1>. QED
  BY <1>1, BusyIsInFlight, IdTypes

LEMMA PushedAlone ==
  ASSUME TypeInv, Streams, NEW last \in BOOLEAN, Push(last), "overlap" \notin disturbed'
  PROVE  Flight \intersect valid \subseteq {seq}
<1>1. \A s \in valid \ {seq} : ~Busy(s)
  BY DEF Push, Disturb
<1>. QED
  BY <1>1, BusyIsInFlight

-----------------------------------------------------------------------------
(* Only the last text of a complete answer is marked as the last one.          *)
LastInv ==
  /\ \A i \in DOMAIN queue : ~queue[i].end /\ (queue[i].last => queue[i].seq \in complete)
  /\ \A i \in DOMAIN senders : senders[i].last => senders[i].seq \in complete
  /\ meta.last => meta.seq \in complete
  /\ fetching.last => fetching.seq \in complete
  /\ finished \subseteq complete

(* What an item that goes out leaves of it. *)
LEMMA YieldKeepsLast ==
  ASSUME TypeInv, LastInv, NEW item \in Messages, YieldItem(item)
  PROVE  /\ \A i \in DOMAIN queue' : ~queue'[i].end /\ (queue'[i].last => queue'[i].seq \in complete)
         /\ meta'.last => meta'.seq \in complete
         /\ finished' \subseteq complete
<1>1. queue \in Seq(TextType)
  BY DEF TypeInv, TextsTyped
<1>2. queue # <<>> => /\ Head(queue) = queue[1] /\ 1 \in DOMAIN queue
                      /\ \A i \in DOMAIN Tail(queue) : i + 1 \in DOMAIN queue /\ Tail(queue)[i] = queue[i + 1]
  BY <1>1, IdsTaken
<1>3. NextMeta.last => NextMeta.seq \in complete
  BY <1>2, YieldItemEffect DEF LastInv
<1>4. \A i \in DOMAIN queue' : ~queue'[i].end /\ (queue'[i].last => queue'[i].seq \in complete)
  <2>1. CASE queue = <<>>
    <3>1. queue' = queue
      BY <2>1, YieldItemEffect
    <3>. QED
      BY <3>1 DEF LastInv
  <2>2. CASE queue # <<>>
    <3>1. queue' = Tail(queue)
      BY <2>2, YieldItemEffect
    <3>. QED
      BY <1>2, <2>2, <3>1 DEF LastInv
  <2>. QED
    BY <2>1, <2>2
<1>5. meta'.last => meta'.seq \in complete
  BY <1>3, YieldItemEffect
<1>6. finished' \subseteq complete
  BY <1>3, YieldItemEffect DEF LastInv
<1>. QED
  BY <1>4, <1>5, <1>6

(* A sender of the next state is one of this state, or that of a new text. *)
LEMMA SendersFrom ==
  ASSUME TypeInv, NEW i \in DOMAIN senders, SenderStarts(i) \/ SenderWakes(i) \/ SendFails(i)
  PROVE  \A k \in DOMAIN senders' :
           \E j \in DOMAIN senders : /\ senders'[k].seq = senders[j].seq /\ senders'[k].last = senders[j].last
                                     /\ (senders' = RemoveAt(senders, i) /\ j # i) \/ Polls(i)
                                     /\ k = j \/ (senders' = RemoveAt(senders, i) /\ k + 1 = j)
<1>1. senders \in Seq(SenderType)
  BY DEF TypeInv, SendersTyped
<1>2. CASE senders' = RemoveAt(senders, i)
  <2>1. \A k \in DOMAIN RemoveAt(senders, i) :
          \E j \in DOMAIN senders : j # i /\ RemoveAt(senders, i)[k] = senders[j] /\ (k = j \/ k + 1 = j)
    BY <1>1, IdsRemoved
  <2>. QED
    BY <1>2, <2>1
<1>3. CASE Polls(i)
  BY <1>3 DEF Polls
<1>4. (senders' = RemoveAt(senders, i)) \/ Polls(i)
  BY SenderEffect DEF Alone, Sent, SendFails, Leaves
<1>. QED
  BY <1>2, <1>3, <1>4

LEMMA LastInvKept == TypeInv /\ ModeInv /\ LastInv /\ [Next]_vars => LastInv'
<1>. SUFFICES ASSUME TypeInv, ModeInv, LastInv, [Next]_vars PROVE LastInv'
  OBVIOUS
<1>0. complete \subseteq complete' /\ NoMeta.last = FALSE
  BY Lasting DEF NoMeta
<1>a. queue \in Seq(TextType) /\ senders \in Seq(SenderType)
  BY DEF TypeInv, TextsTyped, SendersTyped
<1>1. ASSUME UNCHANGED <<queue, senders, meta, fetching, finished>> PROVE LastInv'
  BY <1>0, <1>1 DEF LastInv
<1>2. CASE Respond \/ Interrupt \/ UNCHANGED vars
  BY <1>1, <1>2 DEF Respond, Interrupt, vars, sending, given
<1>3. ASSUME NEW last \in BOOLEAN, Push(last) PROVE LastInv'
  <2>1. /\ queue' = Append(queue, [seq |-> seq, last |-> last, end |-> FALSE])
        /\ UNCHANGED <<fetching, finished>> /\ (last => seq \in complete')
    BY <1>3 DEF Push, given
  <2>2. \A i \in DOMAIN queue' : i \in DOMAIN queue \/ i = Len(queue) + 1
    BY <1>a, <2>1
  <2>3. /\ \A i \in DOMAIN queue : queue'[i] = queue[i]
        /\ queue'[Len(queue) + 1] = [seq |-> seq, last |-> last, end |-> FALSE]
    BY <1>a, <2>1
  <2>4. \A i \in DOMAIN queue' : ~queue'[i].end /\ (queue'[i].last => queue'[i].seq \in complete')
    BY <1>0, <2>1, <2>2, <2>3 DEF LastInv
  <2>5. \A i \in DOMAIN senders' : senders'[i].last => senders'[i].seq \in complete'
    <3>1. CASE Streams
      <4>1. senders' = Append(senders, [seq |-> seq, last |-> last, state |-> "new"])
        BY <1>3, <3>1, PushIds, Zenon
      <4>2. \A i \in DOMAIN senders' : i \in DOMAIN senders \/ i = Len(senders) + 1
        BY <1>a, <4>1
      <4>3. /\ \A i \in DOMAIN senders : senders'[i] = senders[i]
            /\ senders'[Len(senders) + 1] = [seq |-> seq, last |-> last, state |-> "new"]
        BY <1>a, <4>1
      <4>. QED
        BY <1>0, <2>1, <4>2, <4>3 DEF LastInv
    <3>2. CASE ~Streams
      <4>1. senders' = senders
        BY <1>3, <3>2, PushIds, Zenon
      <4>. QED
        BY <1>0, <4>1 DEF LastInv
    <3>. QED
      BY <3>1, <3>2
  <2>6. meta'.last => meta'.seq \in complete'
    <3>1. CASE Streams
      <4>1. meta' = [seq |-> seq, last |-> last, end |-> FALSE]
        BY <1>3, <3>1, PushIds, Zenon
      <4>. QED
        BY <2>1, <4>1
    <3>2. CASE ~Streams
      <4>1. meta' = meta
        BY <1>3, <3>2, PushIds, Zenon
      <4>. QED
        BY <1>0, <4>1 DEF LastInv
    <3>. QED
      BY <3>1, <3>2
  <2>. QED
    BY <1>0, <2>1, <2>4, <2>5, <2>6 DEF LastInv
<1>4. ASSUME NEW i \in DOMAIN senders, SenderStarts(i) \/ SenderWakes(i) \/ SendFails(i) PROVE LastInv'
  <2>1. UNCHANGED <<queue, meta, fetching, finished>>
    BY <1>4 DEF SenderStarts, SenderWakes, SendFails, given
  <2>2. \A k \in DOMAIN senders' :
          \E j \in DOMAIN senders : senders'[k].seq = senders[j].seq /\ senders'[k].last = senders[j].last
    BY <1>4, SendersFrom
  <2>3. \A k \in DOMAIN senders' : senders'[k].last => senders'[k].seq \in complete'
    BY <1>0, <2>2 DEF LastInv
  <2>. QED
    BY <1>0, <2>1, <2>3 DEF LastInv
<1>5. CASE Drop \/ RaiseError \/ Connect \/ ConnectFails \/ AzureNext \/ AzureCallback
  <2>1. UNCHANGED <<queue, senders, meta, finished>> /\ fetching' \in {fetching, NoMeta}
    BY <1>5 DEF Drop, RaiseError, Connect, ConnectFails, AzureNext, AzureCallback, sending, given
  <2>. QED
    BY <1>0, <2>1 DEF LastInv
<1>6. CASE Receive \/ Yield
  <2>1. UNCHANGED <<fetching, senders>> /\ complete' = complete
    BY <1>6, ReceiveEffect DEF Received, Yield, sending, answers
  <2>2. ASSUME NEW item \in Messages, YieldItem(item) PROVE LastInv'
    <3>1. /\ \A i \in DOMAIN queue' : ~queue'[i].end /\ (queue'[i].last => queue'[i].seq \in complete)
          /\ meta'.last => meta'.seq \in complete
          /\ finished' \subseteq complete
      BY <2>2, YieldKeepsLast
    <3>. QED
      BY <2>1, <3>1 DEF LastInv
  <2>3. CASE Nothing
    BY <1>0, <2>1, <2>3 DEF Nothing, LastInv, given
  <2>. QED
    BY <1>6, <2>2, <2>3, ReceiveEffect, YieldIds DEF Passed
<1>7. CASE Take
  <2>1. /\ UNCHANGED <<senders, meta, finished>> /\ queue' = Tail(queue) /\ complete' = complete
        /\ queue # <<>> /\ fetching' \in {NoMeta, Head(queue)}
    BY <1>7 DEF Take, sending, given, answers
  <2>2. /\ Head(queue) = queue[1] /\ 1 \in DOMAIN queue
        /\ \A i \in DOMAIN Tail(queue) : i + 1 \in DOMAIN queue /\ Tail(queue)[i] = queue[i + 1]
    BY <1>a, <2>1, IdsTaken
  <2>3. fetching'.last => fetching'.seq \in complete
    BY <1>0, <2>1, <2>2 DEF LastInv
  <2>4. \A i \in DOMAIN queue' : ~queue'[i].end /\ (queue'[i].last => queue'[i].seq \in complete)
    BY <2>1, <2>2 DEF LastInv
  <2>. QED
    BY <2>1, <2>3, <2>4 DEF LastInv
<1>8. CASE Fetched \/ FetchFails \/ AzureChunk
  <2>1. /\ UNCHANGED <<senders, queue, meta>> /\ complete' = complete
    BY <1>8 DEF Fetched, FetchFails, AzureChunk, sending, answers
  <2>2. fetching \in Metas
    BY NoMetaTyped, TypeInvIsType DEF TypeOK
  <2>3. /\ Stamped(fetching).seq = fetching.seq /\ Stamped(fetching).last = fetching.last
        /\ Stamped(fetching) \in Metas
    BY <2>2 DEF Stamped, Metas
  <2>4. fetching' \in {NoMeta, fetching, Stamped(fetching)}
    BY <1>8 DEF Fetched, FetchFails, AzureChunk
  <2>5. \A s \in finished' : s \in finished \/ (s = fetching.seq /\ fetching.last)
    BY <1>8, <2>3 DEF Fetched, FetchFails, AzureChunk, Give, given
  <2>6. fetching'.last => fetching'.seq \in complete
    BY <1>0, <2>3, <2>4 DEF LastInv
  <2>7. finished' \subseteq complete
    BY <2>5 DEF LastInv
  <2>. QED
    BY <2>1, <2>6, <2>7 DEF LastInv
<1>. QED
  BY <1>2, <1>3, <1>4, <1>5, <1>6, <1>7, <1>8 DEF Next, SenderStep, Generator, Monitor

-----------------------------------------------------------------------------
(* As long as nothing is upset, or texts are joined only, all that is under    *)
(* way is of a valid answer; as long as nothing but joined texts, it is all of *)
(* the answer that the last text pushed is of, and there is meta information   *)
(* for every item at most once.                                                *)
CalmInv == Streams /\ disturbed \subseteq {"merged"} => Flight \subseteq valid

LineInv ==
  Streams /\ disturbed = {} /\ ~error =>
    Flight \union Ids(queue) \subseteq {meta.seq} /\ Len(queue) <= Len(senders) + Len(incoming)

(* With cartesia an interruption leaves nothing behind that would be heard     *)
(* before the meta information that is older.                                  *)
CutInv ==
  provider = "cartesia" /\ disturbed \subseteq {"cut"} =>
    \A x \in Flight \intersect valid : \A q \in Ids(queue) \union {meta.seq} : q <= x

LEMMA CalmInvKept == TypeInv /\ KnownInv /\ CalmInv /\ [Next]_vars => CalmInv'
<1>. SUFFICES ASSUME TypeInv, KnownInv, CalmInv, [Next]_vars, Streams, disturbed' \subseteq {"merged"}
              PROVE  Flight' \subseteq valid'
  BY Lasting DEF CalmInv, Streams
<1>1. Flight \subseteq valid
  BY Lasting DEF CalmInv
<1>2. ASSUME Flight' \subseteq Flight, valid \subseteq valid' PROVE Flight' \subseteq valid'
  BY <1>1, <1>2
<1>3. Flight' = Ids(senders') \union Ids(incoming') \union Ids(yielding')
  BY DEF Flight
<1>4. CASE Respond
  <2>1. Flight' = Flight /\ valid \subseteq valid'
    BY <1>3, <1>4 DEF Respond, Flight, sending
  <2>. QED
    BY <1>2, <2>1
<1>5. CASE Interrupt
  BY <1>5, NothingLost, LostIds
<1>6. ASSUME NEW last \in BOOLEAN, Push(last) PROVE Flight' \subseteq valid'
  <2>1. Flight' = Flight \union {seq}
    BY <1>6, PushIds
  <2>. QED
    BY <1>1, <1>6, <2>1 DEF Push
<1>7. ASSUME NEW i \in DOMAIN senders, SenderStarts(i) \/ SenderWakes(i) PROVE Flight' \subseteq valid'
  BY <1>2, <1>7, SenderIds, SenderEffect DEF ByPasses, answers
<1>8. CASE Drop \/ \E i \in DOMAIN senders : SendFails(i)
  BY <1>2, <1>8, LostIds DEF Drop, SendFails, answers
<1>9. CASE Receive
  BY <1>2, <1>9, ReceivedIds, ReceiveEffect DEF Received, answers
<1>10. CASE Yield
  BY <1>2, <1>10, YieldIds DEF Yield, answers
<1>11. CASE Settles
  <2>1. Flight' = Flight /\ valid' = valid
    BY <1>3, <1>11 DEF Settles, Flight, answers
  <2>. QED
    BY <1>2, <2>1
<1>. QED
  BY <1>4, <1>5, <1>6, <1>7, <1>8, <1>9, <1>10, <1>11, StreamSteps

LEMMA CutInvKept == TypeInv /\ KnownInv /\ CutInv /\ [Next]_vars => CutInv'
<1>. SUFFICES ASSUME TypeInv, KnownInv, CutInv, [Next]_vars, provider = "cartesia", disturbed' \subseteq {"cut"},
                     NEW x \in Flight' \intersect valid', NEW q \in Ids(queue') \union {meta'.seq}
              PROVE  q <= x
  <2>1. Ids(queue)' = Ids(queue')
    BY DEF Ids
  <2>. QED
    BY <2>1, Lasting DEF CutInv
<1>0. Streams
  BY DEF Streams, Streaming
<1>1. \A y \in Flight \intersect valid : \A p \in Ids(queue) \union {meta.seq} : p <= y
  BY Lasting DEF CutInv
<1>2. ASSUME Flight' \subseteq Flight, valid' \subseteq valid, Ids(queue') \subseteq Ids(queue),
             meta'.seq \in Ids(queue) \union {meta.seq}
      PROVE  q <= x
  BY <1>1, <1>2
<1>3. Flight' = Ids(senders') \union Ids(incoming') \union Ids(yielding')
  BY DEF Flight
<1>4. CASE Respond
  <2>1. /\ Flight' = Flight /\ valid' = valid \union {seq + 1} /\ UNCHANGED <<queue, meta>>
    BY <1>3, <1>4 DEF Respond, Flight, sending
  <2>2. seq + 1 \notin Flight
    <3>1. \A s \in Flight : s \in 1..seq
      BY DEF KnownInv, Known
    <3>. QED
      BY <3>1, IdTypes
  <2>. QED
    BY <1>1, <2>1, <2>2
<1>5. CASE Interrupt
  BY <1>5 DEF Interrupt
<1>6. ASSUME NEW last \in BOOLEAN, Push(last) PROVE q <= x
  <2>1. Flight' = Flight \union {seq} /\ Ids(queue') = Ids(queue) \union {seq}
    BY <1>0, <1>6, PushIds
  <2>2. meta'.seq = seq
    <3>1. meta' = [seq |-> seq, last |-> last, end |-> FALSE]
      BY <1>0, <1>6, PushIds, Zenon
    <3>. QED
      BY <3>1
  <2>3. Flight \intersect valid \subseteq {seq}
    <3>1. "overlap" \notin disturbed'
      OBVIOUS
    <3>. QED
      BY <1>0, <1>6, <3>1, PushedAlone
  <2>4. valid' = valid
    BY <1>6 DEF Push
  <2>5. x = seq
    BY <2>1, <2>3, <2>4
  <2>6. \A p \in Ids(queue) : p \in 1..seq
    BY DEF KnownInv, Known
  <2>. QED
    BY <2>1, <2>2, <2>5, <2>6, IdTypes
<1>7. ASSUME NEW i \in DOMAIN senders, SenderStarts(i) \/ SenderWakes(i) PROVE q <= x
  BY <1>2, <1>7, SenderIds, SenderEffect DEF ByPasses, answers
<1>8. CASE Drop \/ \E i \in DOMAIN senders : SendFails(i)
  BY <1>2, <1>8, LostIds DEF Drop, SendFails, answers
<1>9. CASE Receive
  <2>1. valid' = valid
    BY <1>9, ReceiveEffect DEF Received, answers
  <2>2. meta'.seq \in Ids(queue) \union {meta.seq}
    <3>1. CASE Nothing
      BY <3>1 DEF Nothing
    <3>2. ASSUME NEW item \in Messages, YieldItem(item) PROVE meta'.seq \in Ids(queue) \union {meta.seq}
      BY <3>2, YieldItemEffect
    <3>. QED
      BY <1>9, <3>1, <3>2, ReceiveEffect DEF Passed
  <2>. QED
    BY <1>2, <1>9, <2>1, <2>2, ReceivedIds
<1>10. CASE Yield
  <2>1. valid' = valid
    BY <1>10 DEF Yield, answers
  <2>2. meta'.seq \in Ids(queue) \union {meta.seq}
    BY <1>10, YieldIds, YieldItemEffect
  <2>. QED
    BY <1>2, <1>10, <2>1, <2>2, YieldIds
<1>11. CASE Settles
  <2>1. Flight' = Flight /\ UNCHANGED <<valid, queue, meta>>
    BY <1>3, <1>11 DEF Settles, Flight, answers
  <2>. QED
    BY <1>2, <2>1
<1>. QED
  BY <1>0, <1>4, <1>5, <1>6, <1>7, <1>8, <1>9, <1>10, <1>11, StreamSteps

-----------------------------------------------------------------------------
(* The contexts of cartesia and pixa: what is under way of the valid answer is *)
(* in the current context, and an ignored context is of answers that are no    *)
(* longer valid.                                                               *)
Contextual == /\ provider \in {"cartesia", "pixa"}
              /\ disturbed \subseteq (IF provider = "cartesia" THEN {"cut"} ELSE {})
OfContext(m) ==
  /\ m.context \in ignored <=> m.seq \notin valid
  /\ m.seq \in valid => m.context = context /\ context # 0
MessagesInContext == \A i \in DOMAIN incoming : OfContext(incoming[i])
SendersInContext == Ids(senders) \intersect valid # {} => context \notin ignored \union {0}
ContextInv ==
  /\ provider = "pixa" => context \notin ignored
  /\ provider = "cartesia" /\ pushed # 0 /\ seq \in valid => context \notin ignored \union {0}
  /\ Contextual => MessagesInContext /\ SendersInContext

LEMMA ContextualKept ==
  ASSUME TypeInv, [Next]_vars, Contextual'
  PROVE  /\ Contextual /\ Streams /\ provider \in {"cartesia", "pixa"} /\ provider' = provider
         /\ disturbed' \intersect {"overlap", "lost", "reordered", "stale", "merged"} = {}
         /\ provider = "pixa" => disturbed' = {} /\ disturbed = {}
  BY Lasting DEF Contextual, Streams, Streaming

LEMMA ContextPushed ==
  ASSUME TypeInv, KnownInv, CalmInv, ContextInv, NEW last \in BOOLEAN, Push(last), [Next]_vars
  PROVE  ContextInv'
<1>. DEFINE ctx == IF FreshContext THEN contexts + 1 ELSE context
<1>1. /\ UNCHANGED <<provider, seq, valid, ignored, incoming>> /\ seq \in valid
  BY DEF Push
<1>2. context \in 0..contexts /\ contexts \in Nat /\ ignored \subseteq 1..contexts
  BY DEF TypeInv, SendersTyped, ContextsTyped
<1>3. CASE provider \notin {"cartesia", "pixa"}
  BY <1>1, <1>3 DEF ContextInv, Contextual
<1>4. CASE provider \in {"cartesia", "pixa"}
  <2>0. Streams
    BY <1>4 DEF Streams, Streaming
  <2>1. context' = ctx
    BY <2>0 DEF Push, Streams
  <2>2. contexts + 1 \notin ignored \union {0}
    BY <1>2
  <2>3. ctx \notin ignored \union {0}
    <3>1. CASE FreshContext
      BY <2>2, <3>1
    <3>2. CASE ~FreshContext
      BY <1>1, <1>4, <3>2 DEF FreshContext, ContextInv
    <3>. QED
      BY <3>1, <3>2
  <2>4. ASSUME Contextual' PROVE MessagesInContext'
    <3>0. /\ Contextual /\ provider' = provider /\ "overlap" \notin disturbed'
          /\ provider = "pixa" => disturbed = {}
      BY <2>4, ContextualKept
    <3>1. SUFFICES ASSUME NEW i \in DOMAIN incoming
                   PROVE  /\ incoming[i].context \in ignored <=> incoming[i].seq \notin valid
                          /\ incoming[i].seq \in valid => incoming[i].context = ctx /\ ctx # 0
      BY <1>1, <2>1 DEF MessagesInContext, OfContext
    <3>2. OfContext(incoming[i])
      BY <3>0 DEF ContextInv, MessagesInContext
    <3>3. ASSUME incoming[i].seq \in valid PROVE ctx = context
      <4>1. incoming[i].seq \in Flight
        BY DEF Flight, Ids
      <4>2. incoming[i].seq = seq
        BY <2>0, <3>0, <3>3, <4>1, PushedAlone
      <4>3. pushed # 0
        BY <2>0, <4>1, <4>2 DEF KnownInv
      <4>4. context # 0
        BY <3>2, <3>3 DEF OfContext
      <4>. QED
        BY <1>4, <4>3, <4>4 DEF FreshContext
    <3>. QED
      BY <2>3, <3>2, <3>3 DEF OfContext
  <2>5. SendersInContext'
    BY <1>1, <2>1, <2>3 DEF SendersInContext
  <2>. QED
    BY <1>1, <2>1, <2>3, <2>4, <2>5 DEF ContextInv
<1>. QED
  BY <1>3, <1>4

LEMMA ContextInterrupted ==
  ASSUME TypeInv, CalmInv, ContextInv, Interrupt, [Next]_vars
  PROVE  ContextInv'
<1>1. /\ UNCHANGED <<provider, seq, senders>> /\ valid' = {}
  BY DEF Interrupt
<1>2. context \in 0..contexts /\ contexts \in Nat /\ ignored \subseteq 1..contexts
  BY DEF TypeInv, SendersTyped, ContextsTyped
<1>3. provider = "pixa" => context' \notin ignored'
  BY <1>2 DEF Interrupt, PixaInterrupt, Ignore
<1>4. ASSUME Contextual' PROVE MessagesInContext' /\ SendersInContext'
  <2>0. /\ Contextual /\ provider \in {"cartesia", "pixa"} /\ provider' = provider
    BY <1>4, ContextualKept
  <2>1. ignored' = IF context = 0 THEN ignored ELSE ignored \union {context}
    BY <2>0 DEF Interrupt, CartesiaInterrupt, PixaInterrupt, Ignore
  <2>2. \A i \in DOMAIN incoming' : i \in DOMAIN incoming /\ incoming'[i] = incoming[i]
    BY InterruptTyped DEF Shortened
  <2>3. \A i \in DOMAIN incoming : incoming[i].context \in ignored'
    BY <2>0, <2>1 DEF ContextInv, MessagesInContext, OfContext
  <2>4. MessagesInContext'
    BY <1>1, <2>2, <2>3 DEF MessagesInContext, OfContext
  <2>5. SendersInContext'
    BY <1>1 DEF SendersInContext
  <2>. QED
    BY <2>4, <2>5
<1>. QED
  BY <1>1, <1>3, <1>4 DEF ContextInv

LEMMA ContextSent ==
  ASSUME TypeInv, ContextInv, [Next]_vars, NEW i \in DOMAIN senders, SenderStarts(i) \/ SenderWakes(i)
  PROVE  ContextInv'
<1>1. UNCHANGED <<provider, seq, pushed, valid, ignored>>
  BY SenderEffect DEF ByPasses, answers
<1>2. provider \in {"cartesia", "pixa"} => context' = context
  BY SenderEffect DEF Alone, Polls, Sent
<1>3. ASSUME Contextual' PROVE MessagesInContext' /\ SendersInContext'
  <2>0. /\ Contextual /\ provider \in {"cartesia", "pixa"} /\ "stale" \notin disturbed'
    BY <1>3, ContextualKept
  <2>1. MessagesInContext /\ SendersInContext
    BY <2>0 DEF ContextInv
  <2>2. SendersInContext'
    <3>1. Ids(senders') \subseteq Ids(senders)
      BY SenderIds
    <3>2. Ids(senders)' = Ids(senders')
      BY DEF Ids
    <3>. QED
      BY <1>1, <1>2, <2>0, <2>1, <3>1, <3>2 DEF SendersInContext
  <2>3. ASSUME incoming' = incoming PROVE MessagesInContext'
    <3>1. UNCHANGED <<incoming, context, valid, ignored>>
      BY <1>1, <1>2, <2>0, <2>3
    <3>2. MessagesInContext
      BY <2>1
    <3>. QED
      BY <3>1, <3>2 DEF MessagesInContext, OfContext
  <2>4. ASSUME NEW n \in Nat, NEW r \in Seq(Messages), Sent(i, n, r) PROVE MessagesInContext'
    <3>1. incoming' = incoming \o r /\ Fits(r, senders[i], n) /\ senders[i].seq \in valid
      BY <2>0, <2>4 DEF Sent
    <3>2. incoming \in Seq(Messages)
      BY DEF TypeInv, WireTyped
    <3>3. senders[i].seq \in Ids(senders)
      BY DEF Ids
    <3>4. context \notin ignored \union {0}
      BY <2>1, <3>1, <3>3 DEF SendersInContext
    <3>5. \A k \in DOMAIN r : r[k].seq \in valid /\ r[k].context = context
      BY <3>1 DEF Fits
    <3>6. \A k \in DOMAIN r : OfContext(r[k])
      BY <3>4, <3>5 DEF OfContext
    <3>7. \A k \in DOMAIN incoming : OfContext(incoming[k])
      BY <2>1 DEF MessagesInContext
    <3>8. /\ DOMAIN (incoming \o r) = 1..(Len(incoming) + Len(r))
          /\ DOMAIN incoming = 1..Len(incoming) /\ DOMAIN r = 1..Len(r)
          /\ Len(incoming) \in Nat /\ Len(r) \in Nat
          /\ \A k \in 1..Len(incoming) : (incoming \o r)[k] = incoming[k]
          /\ \A k \in 1..Len(r) : (incoming \o r)[Len(incoming) + k] = r[k]
      BY <3>2, Joined
    <3>9. \A k \in 1..(Len(incoming) + Len(r)) :
            k \in 1..Len(incoming) \/ (k - Len(incoming) \in 1..Len(r) /\ k = Len(incoming) + (k - Len(incoming)))
      BY <3>8
    <3>10. \A k \in DOMAIN (incoming \o r) : OfContext((incoming \o r)[k])
      <4>. SUFFICES ASSUME NEW k \in DOMAIN (incoming \o r) PROVE OfContext((incoming \o r)[k])
        OBVIOUS
      <4>1. CASE k \in 1..Len(incoming)
        BY <3>7, <3>8, <4>1
      <4>2. CASE k - Len(incoming) \in 1..Len(r) /\ k = Len(incoming) + (k - Len(incoming))
        BY <3>6, <3>8, <4>2
      <4>. QED
        BY <3>8, <3>9, <4>1, <4>2
    <3>. QED
      BY <1>1, <1>2, <2>0, <3>1, <3>10 DEF MessagesInContext, OfContext
  <2>. QED
    BY <2>2, <2>3, <2>4, SenderEffect DEF Alone, Polls
<1>. QED
  BY <1>1, <1>2, <1>3 DEF ContextInv

LEMMA ContextInvKept == TypeInv /\ KnownInv /\ CalmInv /\ ContextInv /\ [Next]_vars => ContextInv'
<1>. SUFFICES ASSUME TypeInv, KnownInv, CalmInv, ContextInv, [Next]_vars PROVE ContextInv'
  OBVIOUS
<1>1. CASE ~Streams
  <2>1. provider \notin {"cartesia", "pixa"} /\ provider' = provider
    BY <1>1, Lasting DEF Streams, Streaming
  <2>. QED
    BY <2>1 DEF ContextInv, Contextual
<1>2. CASE Streams
  <2>1. ASSUME UNCHANGED <<provider, seq, pushed, valid, ignored, context>>,
               Contextual' => MessagesInContext' /\ Ids(senders') \subseteq Ids(senders)
        PROVE  ContextInv'
    <3>1. Ids(senders)' = Ids(senders')
      BY DEF Ids
    <3>2. Contextual' => SendersInContext'
      BY <2>1, <3>1, ContextualKept DEF ContextInv, SendersInContext
    <3>. QED
      BY <2>1, <3>2 DEF ContextInv
  <2>2. CASE Respond
    <3>1. /\ valid' = valid \union {seq + 1} /\ pushed' = 0 /\ UNCHANGED <<provider, ignored, context, incoming, senders>>
      BY <2>2 DEF Respond, sending
    <3>2. seq + 1 \notin Flight
      <4>1. \A s \in Flight : s \in 1..seq
        BY DEF KnownInv, Known
      <4>. QED
        BY <4>1, IdTypes
    <3>3. \A i \in DOMAIN incoming : incoming[i].seq # seq + 1
      BY <3>2 DEF Flight, Ids
    <3>4. seq + 1 \notin Ids(senders)
      BY <3>2 DEF Flight
    <3>5. MessagesInContext => MessagesInContext'
      BY <3>1, <3>3 DEF MessagesInContext, OfContext
    <3>6. SendersInContext => SendersInContext'
      BY <3>1, <3>4 DEF SendersInContext
    <3>. QED
      BY <3>1, <3>5, <3>6, ContextualKept DEF ContextInv
  <2>3. CASE Interrupt
    BY <2>3, ContextInterrupted
  <2>4. ASSUME NEW last \in BOOLEAN, Push(last) PROVE ContextInv'
    BY <2>4, ContextPushed
  <2>5. ASSUME NEW i \in DOMAIN senders, SenderStarts(i) \/ SenderWakes(i) PROVE ContextInv'
    BY <2>5, ContextSent
  <2>6. CASE Drop \/ \E i \in DOMAIN senders : SendFails(i)
    <3>1. UNCHANGED <<provider, seq, pushed, valid, ignored, context>> /\ incoming' = <<>>
      BY <2>6 DEF Drop, SendFails, answers, sending
    <3>2. MessagesInContext'
      BY <3>1 DEF MessagesInContext
    <3>. QED
      BY <2>1, <2>6, <3>1, <3>2, LostIds
  <2>7. CASE Receive
    <3>1. UNCHANGED <<provider, seq, pushed, valid, ignored, context, senders>>
      BY <2>7, ReceiveEffect DEF Received, answers, sending
    <3>2. \A i \in DOMAIN incoming' : i + 1 \in DOMAIN incoming /\ incoming'[i] = incoming[i + 1]
      BY <2>7, ReceiveEffect, IdsTaken DEF TypeInv, WireTyped
    <3>3. MessagesInContext => MessagesInContext'
      BY <3>1, <3>2 DEF MessagesInContext, OfContext
    <3>. QED
      BY <2>1, <3>1, <3>3, ContextualKept DEF ContextInv
  <2>8. CASE Yield \/ Settles
    <3>1. UNCHANGED <<provider, seq, pushed, valid, ignored, context, senders, incoming>>
      BY <2>8 DEF Yield, Settles, answers, sending
    <3>2. MessagesInContext => MessagesInContext'
      BY <3>1 DEF MessagesInContext, OfContext
    <3>. QED
      BY <2>1, <3>1, <3>2, ContextualKept DEF ContextInv
  <2>. QED
    BY <1>2, <2>2, <2>3, <2>4, <2>5, <2>6, <2>7, <2>8, StreamSteps
<1>. QED
  BY <1>1, <1>2

LEMMA LineInvKept ==
  TypeInv /\ ModeInv /\ KnownInv /\ CalmInv /\ ContextInv /\ LineInv /\ [Next]_vars => LineInv'
<1>. SUFFICES ASSUME TypeInv, ModeInv, KnownInv, CalmInv, ContextInv, LineInv, [Next]_vars,
                     Streams, disturbed' = {}, ~error'
              PROVE  /\ Flight' \union Ids(queue') \subseteq {meta'.seq}
                     /\ Len(queue') <= Len(senders') + Len(incoming')
  <2>1. Ids(queue)' = Ids(queue')
    BY DEF Ids
  <2>. QED
    BY <2>1, Lasting DEF LineInv, Streams
<1>0. disturbed = {}
  BY Lasting
<1>1. CalmInv => Flight \subseteq valid
  BY <1>0 DEF CalmInv
<1>2. ~error => /\ Flight \union Ids(queue) \subseteq {meta.seq}
                /\ Len(queue) <= Len(senders) + Len(incoming)
  BY <1>0 DEF LineInv
<1>3. Flight' = Ids(senders') \union Ids(incoming') \union Ids(yielding')
  BY DEF Flight
<1>4. queue \in Seq(TextType) /\ senders \in Seq(SenderType) /\ incoming \in Seq(Messages)
  BY DEF TypeInv, TextsTyped, SendersTyped, WireTyped
<1>5. ASSUME Flight = {}, ~error, UNCHANGED <<queue, meta>>, Flight' \subseteq Flight, senders' = senders,
             Len(incoming') \in Nat
      PROVE  /\ Flight' \union Ids(queue') \subseteq {meta'.seq}
             /\ Len(queue') <= Len(senders') + Len(incoming')
  <2>1. senders = <<>> /\ incoming = <<>>
    BY <1>4, <1>5, IdsNone DEF Flight
  <2>2. Len(queue) <= 0 /\ Len(queue) \in Nat /\ Len(senders) = 0
    BY <1>2, <1>4, <1>5, <2>1
  <2>. QED
    BY <1>2, <1>5, <2>2
<1>6. CASE Respond \/ Settles
  <2>1. UNCHANGED <<queue, meta, senders, incoming, yielding>>
    BY <1>6 DEF Respond, Settles, sending
  <2>1a. ~error
    BY <1>6 DEF Respond, Settles, link
  <2>2. Flight' = Flight
    BY <1>3, <2>1 DEF Flight
  <2>. QED
    BY <1>2, <2>1, <2>1a, <2>2
<1>7. CASE Interrupt \/ Drop \/ \E i \in DOMAIN senders : SendFails(i)
  <2>1. Flight = {} /\ ~(\E i \in DOMAIN senders : SendFails(i))
    BY <1>7, NothingLost
  <2>2. UNCHANGED <<queue, meta, senders, error>>
    BY <1>7, <2>1 DEF Interrupt, Drop, sending, link
  <2>3. incoming' \in Seq(Messages)
    <3>1. Interrupt => incoming' \in Seq(Messages)
      BY InterruptTyped DEF Shortened
    <3>2. Drop => incoming' = <<>>
      BY DEF Drop
    <3>3. <<>> \in Seq(Messages)
      OBVIOUS
    <3>. QED
      BY <1>7, <2>1, <3>1, <3>2, <3>3, Zenon
  <2>. QED
    BY <1>5, <1>7, <2>1, <2>2, <2>3, LostIds
<1>8. ASSUME NEW last \in BOOLEAN, Push(last)
      PROVE  /\ Flight' \union Ids(queue') \subseteq {meta'.seq}
             /\ Len(queue') <= Len(senders') + Len(incoming')
  <2>1. /\ Ids(queue') = Ids(queue) \union {seq} /\ Flight' = Flight \union {seq}
        /\ queue' = Append(queue, [seq |-> seq, last |-> last, end |-> FALSE])
        /\ senders' = Append(senders, [seq |-> seq, last |-> last, state |-> "new"])
        /\ meta' = [seq |-> seq, last |-> last, end |-> FALSE]
    BY <1>8, PushIds, Zenon
  <2>2. meta'.seq = seq /\ incoming' = incoming /\ ~error
    BY <1>8, <2>1 DEF Push, link
  <2>3. Flight \subseteq {seq}
    <3>1. "overlap" \notin disturbed'
      OBVIOUS
    <3>. QED
      BY <1>1, <1>8, <3>1, PushedAlone
  <2>4. Ids(queue) \subseteq {seq}
    <3>1. CASE Flight = {}
      <4>1. senders = <<>> /\ incoming = <<>>
        BY <1>4, <3>1, IdsNone DEF Flight
      <4>2. Len(queue) <= 0
        BY <1>2, <2>2, <4>1
      <4>3. queue = <<>>
        BY <1>4, <4>2
      <4>. QED
        BY <4>3, IdsEmpty
    <3>2. CASE Flight # {}
      BY <1>2, <2>2, <2>3, <3>2
    <3>. QED
      BY <3>1, <3>2
  <2>5. Len(queue') = Len(queue) + 1 /\ Len(senders') = Len(senders) + 1
    BY <1>4, <2>1
  <2>6. Len(queue) \in Nat /\ Len(senders) \in Nat /\ Len(incoming) \in Nat
    BY <1>4
  <2>7. Len(queue') <= Len(senders') + Len(incoming')
    BY <1>2, <2>2, <2>5, <2>6
  <2>. QED
    BY <2>1, <2>2, <2>3, <2>4, <2>7
<1>9. ASSUME NEW i \in DOMAIN senders, SenderStarts(i) \/ SenderWakes(i)
      PROVE  /\ Flight' \union Ids(queue') \subseteq {meta'.seq}
             /\ Len(queue') <= Len(senders') + Len(incoming')
  <2>1. UNCHANGED <<queue, meta, error>> /\ Flight' \subseteq Flight
    BY <1>9, SenderEffect, SenderIds DEF ByPasses, link
  <2>2. senders[i].seq \in valid
    BY <1>1 DEF Flight, Ids
  <2>3. Len(queue) \in Nat /\ Len(senders) \in Nat /\ Len(incoming) \in Nat
    BY <1>4
  <2>4. Len(senders') + Len(incoming') >= Len(senders) + Len(incoming)
    <3>1. ~Alone(i)
      BY <2>1, <2>2 DEF Alone
    <3>2. CASE Polls(i)
      BY <2>3, <3>2 DEF Polls
    <3>3. ASSUME NEW n \in Nat, NEW r \in Seq(Messages), Sent(i, n, r)
          PROVE  Len(senders') + Len(incoming') >= Len(senders) + Len(incoming)
      <4>1. n # 0
        <5>1. n = 0 => "merged" \in disturbed'
          BY <3>3 DEF Sent
        <5>. QED
          BY <5>1
      <4>1a. Len(r) >= n /\ Len(r) \in Nat
        BY <3>3 DEF Sent, Fits
      <4>2. Len(senders') = Len(senders) - 1
        BY <1>4, <3>3, IdsRemoved DEF Sent
      <4>3. Len(incoming') = Len(incoming) + Len(r)
        BY <3>3, SentIds
      <4>. QED
        BY <2>3, <4>1, <4>1a, <4>2, <4>3
    <3>. QED
      BY <1>9, <3>1, <3>2, <3>3, SenderEffect
  <2>5. Len(senders') \in Nat /\ Len(incoming') \in Nat
    <3>1. TypeInv'
      BY TypeInvKept
    <3>2. senders' \in Seq(SenderType) /\ incoming' \in Seq(Messages)
      BY <3>1 DEF TypeInv, SendersTyped, WireTyped
    <3>. QED
      BY <3>2
  <2>. QED
    BY <1>2, <2>1, <2>3, <2>4, <2>5
<1>10. CASE Receive
  <2>1. /\ ~error /\ incoming # <<>> /\ incoming' = Tail(incoming) /\ senders' = senders
    BY <1>10, ReceiveEffect DEF Received, sending
  <2>2. ~(Head(incoming).context \in ignored /\ provider \in {"cartesia", "pixa"})
    <3>1. Head(incoming).seq \in Ids(incoming) /\ Head(incoming) = incoming[1] /\ 1 \in DOMAIN incoming
      BY <1>4, <2>1, IdsTaken
    <3>2. Head(incoming).seq \in valid
      BY <1>1, <3>1 DEF Flight
    <3>3. Contextual => Head(incoming).context \notin ignored
      BY <3>1, <3>2 DEF ContextInv, MessagesInContext, OfContext
    <3>. QED
      BY <1>0, <3>3 DEF Contextual
  <2>3. PICK item : item \in Messages /\ YieldItem(item)
    BY <1>10, <2>2, ReceiveEffect DEF Passed
  <2>4. /\ meta'.seq \in Ids(queue) \union {meta.seq}
        /\ Len(queue') = (IF queue = <<>> THEN 0 ELSE Len(queue) - 1)
    BY <1>4, <2>3, YieldItemEffect
  <2>5. Len(incoming') = Len(incoming) - 1 /\ Len(incoming) \in Nat /\ Len(senders) \in Nat /\ Len(queue) \in Nat
    BY <1>4, <2>1, IdsTaken
  <2>6. incoming' \in Seq(Messages)
    BY <1>4, <2>1
  <2>7. Len(queue') <= Len(senders') + Len(incoming')
    BY <1>2, <1>4, <2>1, <2>4, <2>5, <2>6
  <2>. QED
    BY <1>2, <1>10, <2>1, <2>4, <2>7, ReceivedIds
<1>11. CASE Yield
  <2>1. /\ ~error /\ UNCHANGED <<senders, incoming>>
    BY <1>11 DEF Yield, sending
  <2>2. /\ meta'.seq \in Ids(queue) \union {meta.seq}
        /\ Len(queue') = (IF queue = <<>> THEN 0 ELSE Len(queue) - 1)
    BY <1>4, <1>11, YieldIds, YieldItemEffect
  <2>3. Len(incoming) \in Nat /\ Len(senders) \in Nat /\ Len(queue) \in Nat
    BY <1>4
  <2>4. Len(queue') <= Len(senders') + Len(incoming')
    BY <1>2, <2>1, <2>2, <2>3
  <2>. QED
    BY <1>2, <1>11, <2>1, <2>2, <2>4, YieldIds
<1>. QED
  BY <1>6, <1>7, <1>8, <1>9, <1>10, <1>11, StreamSteps

-----------------------------------------------------------------------------
(* A synthesizer that works at one text at a time: the chunks are of the text  *)
(* it has in hand, and after the last text of an answer none of it comes.      *)
ChunksInHand == (fetching = NoMeta => incoming = <<>>) /\ Ids(incoming) \subseteq {fetching.seq}
LastComesLast ==
  /\ \A i, j \in DOMAIN queue : i < j /\ queue[i].last => queue[i].seq # queue[j].seq
  /\ fetching # NoMeta /\ fetching.last => fetching.seq \notin Ids(queue)
EndsWhenDone == fetching.end => done /\ incoming = <<>>
DirectInv == Direct => ChunksInHand /\ LastComesLast /\ EndsWhenDone

LEMMA StampedFits ==
  ASSUME TypeInv
  PROVE  /\ Stamped(fetching).seq = fetching.seq /\ Stamped(fetching).last = fetching.last
         /\ Stamped(fetching).end = fetching.last /\ Stamped(fetching) \in Metas
         /\ fetching # NoMeta => Stamped(fetching) # NoMeta
<1>1. fetching \in Metas
  BY TypeInvIsType DEF TypeOK
<1>2. fetching # NoMeta => fetching.seq # 0
  BY DEF TypeInv, TextsTyped, TextType, Seqs
<1>. QED
  BY <1>1, <1>2 DEF Stamped, Metas, NoMeta

LEMMA DirectInvKept == TypeInv /\ ModeInv /\ LastInv /\ DirectInv /\ [Next]_vars => DirectInv'
<1>. SUFFICES ASSUME TypeInv, ModeInv, LastInv, DirectInv, [Next]_vars, Direct
              PROVE  ChunksInHand' /\ LastComesLast' /\ EndsWhenDone'
  BY Lasting DEF DirectInv, Direct
<1>0. ChunksInHand /\ LastComesLast /\ EndsWhenDone /\ ~Streams /\ NoMeta.end = FALSE /\ NoMeta.seq = 0
  BY KindOfProvider DEF DirectInv, NoMeta
<1>a. queue \in Seq(TextType) /\ incoming \in Seq(Messages)
  BY DEF TypeInv, TextsTyped, WireTyped
<1>b. Ids(queue)' = Ids(queue') /\ Ids(incoming)' = Ids(incoming')
  BY DEF Ids
<1>c. \A i, j \in DOMAIN queue : i < j /\ queue[i].last => queue[i].seq # queue[j].seq
  BY <1>0 DEF LastComesLast
<1>1. ASSUME UNCHANGED <<queue, incoming, fetching, done>> PROVE ChunksInHand' /\ LastComesLast' /\ EndsWhenDone'
  BY <1>0, <1>b, <1>1 DEF ChunksInHand, LastComesLast, EndsWhenDone
<1>2. CASE Respond \/ Interrupt \/ UNCHANGED vars
  <2>1. Interrupt => UNCHANGED incoming
    BY DEF Interrupt, NoInterrupt, Direct
  <2>. QED
    BY <1>1, <1>2, <2>1 DEF Respond, Interrupt, vars
<1>3. ASSUME NEW last \in BOOLEAN, Push(last) PROVE ChunksInHand' /\ LastComesLast' /\ EndsWhenDone'
  <2>1. UNCHANGED <<incoming, fetching, done>> /\ seq \notin complete
    BY <1>3 DEF Push
  <2>2. /\ queue' = Append(queue, [seq |-> seq, last |-> last, end |-> FALSE])
        /\ Ids(queue') = Ids(queue) \union {seq}
    BY <1>3, PushIds, Zenon
  <2>3. /\ \A i \in DOMAIN queue' : i \in DOMAIN queue \/ i = Len(queue) + 1
        /\ \A i \in DOMAIN queue : queue'[i] = queue[i] /\ i < Len(queue) + 1
        /\ queue'[Len(queue) + 1] = [seq |-> seq, last |-> last, end |-> FALSE]
        /\ Len(queue) \in Nat /\ DOMAIN queue = 1..Len(queue)
    BY <1>a, <2>2
  <2>4. \A i, j \in DOMAIN queue' : i < j /\ queue'[i].last => queue'[i].seq # queue'[j].seq
    <3>. SUFFICES ASSUME NEW i \in DOMAIN queue', NEW j \in DOMAIN queue', i < j, queue'[i].last
                  PROVE  queue'[i].seq # queue'[j].seq
      OBVIOUS
    <3>1. i \in DOMAIN queue
      BY <2>3
    <3>2. CASE j \in DOMAIN queue
      BY <1>c, <2>3, <3>1, <3>2
    <3>3. CASE j = Len(queue) + 1
      <4>1. queue[i].seq \in complete
        BY <2>3, <3>1 DEF LastInv
      <4>. QED
        BY <2>1, <2>3, <3>1, <3>3, <4>1
    <3>. QED
      BY <2>3, <3>2, <3>3
  <2>5. fetching.last => fetching.seq # seq
    BY <2>1 DEF LastInv
  <2>6. LastComesLast'
    BY <1>0, <1>b, <2>1, <2>2, <2>4, <2>5 DEF LastComesLast
  <2>. QED
    BY <1>0, <1>b, <2>1, <2>6 DEF ChunksInHand, EndsWhenDone
<1>4. CASE Take
  <2>1. /\ UNCHANGED incoming /\ queue' = Tail(queue) /\ fetching = NoMeta /\ incoming = <<>>
        /\ queue # <<>> /\ fetching' \in {NoMeta, Head(queue)}
    BY <1>0, <1>4 DEF Take, ChunksInHand
  <2>2. /\ Head(queue) = queue[1] /\ 1 \in DOMAIN queue
        /\ \A i \in DOMAIN Tail(queue) : i + 1 \in DOMAIN queue /\ Tail(queue)[i] = queue[i + 1]
    BY <1>a, <2>1, IdsTaken
  <2>3. \A i \in DOMAIN queue' : i \in Nat /\ 1 < i + 1
    BY <1>a, <2>1
  <2>4. \A i, j \in DOMAIN queue' : i < j /\ queue'[i].last => queue'[i].seq # queue'[j].seq
    <3>. SUFFICES ASSUME NEW i \in DOMAIN queue', NEW j \in DOMAIN queue', i < j, queue'[i].last
                  PROVE  queue'[i].seq # queue'[j].seq
      OBVIOUS
    <3>1. i + 1 \in DOMAIN queue /\ j + 1 \in DOMAIN queue /\ i + 1 < j + 1
      BY <2>1, <2>2, <2>3
    <3>2. queue'[i] = queue[i + 1] /\ queue'[j] = queue[j + 1]
      BY <2>1, <2>2
    <3>. QED
      BY <1>c, <3>1, <3>2
  <2>5. Head(queue).last => Head(queue).seq \notin Ids(queue')
    <3>. SUFFICES ASSUME Head(queue).last, NEW i \in DOMAIN queue'
                  PROVE  Head(queue).seq # queue'[i].seq
      BY DEF Ids
    <3>1. i + 1 \in DOMAIN queue /\ 1 < i + 1 /\ queue'[i] = queue[i + 1]
      BY <2>1, <2>2, <2>3
    <3>. QED
      BY <1>c, <2>2, <3>1
  <2>6. LastComesLast'
    BY <1>b, <2>1, <2>4, <2>5 DEF LastComesLast
  <2>7. ~fetching'.end
    BY <1>0, <2>1, <2>2 DEF LastInv
  <2>. QED
    BY <1>b, <2>1, <2>6, <2>7, IdsEmpty DEF ChunksInHand, EndsWhenDone
<1>5. CASE Fetched \/ FetchFails \/ AzureNext
  <2>1. UNCHANGED <<queue, incoming, done>> /\ fetching' \in {fetching, NoMeta}
    BY <1>5 DEF Fetched, FetchFails, AzureNext
  <2>2. incoming = <<>>
    BY <1>5 DEF Fetched, FetchFails, AzureNext, ModeInv
  <2>3. LastComesLast'
    BY <1>0, <1>b, <2>1 DEF LastComesLast
  <2>4. EndsWhenDone'
    BY <1>0, <2>1 DEF EndsWhenDone
  <2>. QED
    BY <1>b, <2>1, <2>2, <2>3, <2>4, IdsEmpty DEF ChunksInHand
<1>6. CASE AzureCallback
  <2>1. UNCHANGED <<queue, fetching>> /\ ~done /\ fetching # NoMeta
    BY <1>6 DEF AzureCallback
  <2>2. Ids(incoming') \subseteq {fetching.seq}
    <3>1. fetching.seq \in Seqs
      BY <2>1 DEF TypeInv, TextsTyped, TextType
    <3>2. [kind |-> "audio", seq |-> fetching.seq, context |-> 0, last |-> FALSE] \in Messages
      BY <3>1 DEF Messages
    <3>3. Ids(Append(incoming, [kind |-> "audio", seq |-> fetching.seq, context |-> 0, last |-> FALSE]))
            = Ids(incoming) \union {fetching.seq}
      BY <1>a, <3>2, IdsAppend
    <3>. QED
      BY <1>0, <1>6, <3>3 DEF AzureCallback, ChunksInHand
  <2>3. ~fetching.end
    BY <1>0, <2>1 DEF EndsWhenDone
  <2>4. LastComesLast'
    BY <1>0, <1>b, <2>1 DEF LastComesLast
  <2>. QED
    BY <1>b, <2>1, <2>2, <2>3, <2>4 DEF ChunksInHand, EndsWhenDone
<1>7. CASE AzureChunk
  <2>1. /\ UNCHANGED <<queue, done>> /\ incoming # <<>> /\ incoming' = Tail(incoming)
        /\ fetching' = IF done /\ Len(incoming) = 1 THEN Stamped(fetching) ELSE fetching
    BY <1>7 DEF AzureChunk
  <2>2. /\ Ids(incoming') \subseteq Ids(incoming) /\ fetching # NoMeta /\ ~fetching.end
        /\ Len(incoming') = Len(incoming) - 1 /\ incoming' \in Seq(Messages)
    BY <1>0, <1>a, <2>1, IdsTaken DEF ChunksInHand, EndsWhenDone
  <2>3. fetching'.seq = fetching.seq /\ fetching'.last = fetching.last /\ fetching' # NoMeta
    BY <2>1, <2>2, StampedFits
  <2>4. fetching'.end => done /\ Len(incoming') = 0
    <3>1. CASE done /\ Len(incoming) = 1
      BY <2>2, <3>1
    <3>2. CASE ~(done /\ Len(incoming) = 1)
      BY <2>1, <2>2, <3>2
    <3>. QED
      BY <3>1, <3>2
  <2>5. fetching'.end => done /\ incoming' = <<>>
    <3>1. Len(incoming') = 0 => incoming' = <<>>
      BY <2>2
    <3>. QED
      BY <2>4, <3>1, Zenon
  <2>6. LastComesLast'
    BY <1>0, <1>b, <2>1, <2>2, <2>3 DEF LastComesLast
  <2>. QED
    BY <1>0, <1>b, <2>1, <2>2, <2>3, <2>5, <2>6 DEF ChunksInHand, EndsWhenDone
<1>. QED
  BY <1>2, <1>3, <1>4, <1>5, <1>6, <1>7, DirectSteps

-----------------------------------------------------------------------------
(* The end of an answer, with the synthesizers that may join texts: it comes   *)
(* from the answer's last text, which is the last that is under way, and is    *)
(* the last message.                                                           *)
EndsComplete == \A i \in DOMAIN incoming : incoming[i].kind = "end" => incoming[i].seq \in complete
EndIsLast == \A i \in DOMAIN incoming : incoming[i].kind = "end" => i = Len(incoming) /\ senders = <<>>
LastIsLast == \A i \in DOMAIN senders : senders[i].last => i = Len(senders)
EndInv ==
  provider \in Buffering =>
    /\ EndsComplete
    /\ disturbed \subseteq {"merged"} => EndIsLast /\ LastIsLast /\ (meta.end => Flight = {})

LEMMA EndsCompleteKept ==
  ASSUME TypeInv, LastInv, EndsComplete, provider \in Buffering, [Next]_vars
  PROVE  EndsComplete'
<1>0. Streams /\ complete \subseteq complete'
  BY KindOfProvider, Lasting
<1>1. ASSUME \A i \in DOMAIN incoming' : \E j \in DOMAIN incoming : incoming'[i] = incoming[j]
      PROVE  EndsComplete'
  BY <1>0, <1>1 DEF EndsComplete
<1>2. CASE incoming' = incoming \/ incoming' = <<>>
  BY <1>1, <1>2
<1>3. CASE Interrupt
  BY <1>1, <1>3, InterruptTyped DEF Shortened
<1>4. ASSUME NEW i \in DOMAIN senders, SenderStarts(i) \/ SenderWakes(i) PROVE EndsComplete'
  <2>1. CASE Alone(i) \/ Polls(i)
    BY <1>2, <2>1 DEF Alone, Polls
  <2>2. ASSUME NEW n \in Nat, NEW r \in Seq(Messages), Sent(i, n, r) PROVE EndsComplete'
    <3>1. incoming' = incoming \o r /\ Fits(r, senders[i], n)
      BY <2>2 DEF Sent
    <3>2. \A k \in DOMAIN r : r[k].kind = "end" => r[k].seq \in complete
      BY <3>1 DEF Fits, LastInv
    <3>3. incoming \in Seq(Messages)
      BY DEF TypeInv, WireTyped
    <3>4. /\ DOMAIN (incoming \o r) = 1..(Len(incoming) + Len(r))
          /\ DOMAIN incoming = 1..Len(incoming) /\ DOMAIN r = 1..Len(r)
          /\ Len(incoming) \in Nat /\ Len(r) \in Nat
          /\ \A k \in 1..Len(incoming) : (incoming \o r)[k] = incoming[k]
          /\ \A k \in 1..Len(r) : (incoming \o r)[Len(incoming) + k] = r[k]
      BY <3>3, Joined
    <3>5. \A k \in 1..(Len(incoming) + Len(r)) :
            k \in 1..Len(incoming) \/ (k - Len(incoming) \in 1..Len(r) /\ k = Len(incoming) + (k - Len(incoming)))
      BY <3>4
    <3>6. \A k \in DOMAIN (incoming \o r) :
            (incoming \o r)[k].kind = "end" => (incoming \o r)[k].seq \in complete
      <4>. SUFFICES ASSUME NEW k \in DOMAIN (incoming \o r), (incoming \o r)[k].kind = "end"
                    PROVE  (incoming \o r)[k].seq \in complete
        OBVIOUS
      <4>1. CASE k \in 1..Len(incoming)
        BY <3>4, <4>1 DEF EndsComplete
      <4>2. CASE k - Len(incoming) \in 1..Len(r) /\ k = Len(incoming) + (k - Len(incoming))
        <5>1. (incoming \o r)[k] = r[k - Len(incoming)]
          BY <3>4, <4>2
        <5>. QED
          BY <3>2, <3>4, <4>2, <5>1
      <4>. QED
        BY <3>4, <3>5, <4>1, <4>2
    <3>. QED
      BY <1>0, <3>1, <3>6 DEF EndsComplete
  <2>. QED
    BY <1>4, <2>1, <2>2, SenderEffect
<1>5. CASE Receive
  <2>1. incoming # <<>> /\ incoming' = Tail(incoming) /\ incoming \in Seq(Messages)
    BY <1>5, ReceiveEffect DEF TypeInv, WireTyped
  <2>2. \A i \in DOMAIN Tail(incoming) : i + 1 \in DOMAIN incoming /\ Tail(incoming)[i] = incoming[i + 1]
    BY <2>1, IdsTaken
  <2>. QED
    BY <1>1, <2>1, <2>2
<1>6. Drop \/ (\E i \in DOMAIN senders : SendFails(i)) => incoming' = <<>>
  BY DEF Drop, SendFails
<1>7. Respond \/ (\E last \in BOOLEAN : Push(last)) \/ Yield \/ Settles => incoming' = incoming
  BY DEF Respond, Push, Yield, Settles
<1>. QED
  BY <1>0, <1>2, <1>3, <1>4, <1>5, <1>6, <1>7, StreamSteps

LEMMA EndInvKept ==
  TypeInv /\ ModeInv /\ LastInv /\ CalmInv /\ EndInv /\ [Next]_vars => EndInv'
<1>. SUFFICES ASSUME TypeInv, ModeInv, LastInv, CalmInv, EndInv, [Next]_vars, provider \in Buffering,
                     disturbed' \subseteq {"merged"}
              PROVE  /\ EndIsLast' /\ LastIsLast' /\ (meta'.end => Flight' = {})
  BY Lasting, EndsCompleteKept DEF EndInv
<1>0. /\ Streams /\ yielding = <<>> /\ EndsComplete /\ disturbed \subseteq {"merged"}
      /\ EndIsLast /\ LastIsLast /\ (meta.end => Flight = {})
  BY Lasting, KindOfProvider DEF EndInv, ModeInv
<1>1. Flight \subseteq valid
  BY <1>0 DEF CalmInv
<1>2. queue \in Seq(TextType) /\ senders \in Seq(SenderType) /\ incoming \in Seq(Messages)
  BY DEF TypeInv, TextsTyped, SendersTyped, WireTyped
<1>3. Flight' = Ids(senders') \union Ids(incoming') \union Ids(yielding')
  BY DEF Flight
<1>4. ASSUME Flight' = {} PROVE EndIsLast' /\ LastIsLast' /\ (meta'.end => Flight' = {})
  <2>1. TypeInv'
    BY TypeInvKept
  <2>2. senders' = <<>> /\ incoming' = <<>>
    <3>1. senders' \in Seq(SenderType) /\ incoming' \in Seq(Messages)
      BY <2>1 DEF TypeInv, SendersTyped, WireTyped
    <3>. QED
      BY <1>3, <1>4, <3>1, IdsNone
  <2>. QED
    BY <1>4, <2>2 DEF EndIsLast, LastIsLast
<1>5. CASE Respond \/ Settles
  <2>1. UNCHANGED <<senders, incoming, yielding, meta>>
    BY <1>5 DEF Respond, Settles, sending
  <2>2. Flight' = Flight
    BY <1>3, <2>1 DEF Flight
  <2>. QED
    BY <1>0, <2>1, <2>2 DEF EndIsLast, LastIsLast
<1>6. CASE Interrupt \/ Drop \/ \E i \in DOMAIN senders : SendFails(i)
  <2>1. Flight = {}
    BY <1>0, <1>6, NothingLost
  <2>. QED
    BY <1>4, <1>6, <2>1, LostIds
<1>7. ASSUME NEW last \in BOOLEAN, Push(last)
      PROVE  EndIsLast' /\ LastIsLast' /\ (meta'.end => Flight' = {})
  <2>1. /\ senders' = Append(senders, [seq |-> seq, last |-> last, state |-> "new"])
        /\ meta' = [seq |-> seq, last |-> last, end |-> FALSE]
    BY <1>0, <1>7, PushIds, Zenon
  <2>2. incoming' = incoming /\ seq \notin complete
    BY <1>7 DEF Push
  <2>3. Flight \subseteq {seq}
    <3>1. "overlap" \notin disturbed'
      OBVIOUS
    <3>. QED
      BY <1>0, <1>1, <1>7, <3>1, PushedAlone
  <2>4. \A i \in DOMAIN incoming : incoming[i].seq \notin complete
    BY <2>2, <2>3 DEF Flight, Ids
  <2>5. EndIsLast'
    BY <1>0, <2>2, <2>4 DEF EndIsLast, EndsComplete
  <2>6. \A i \in DOMAIN senders : ~senders[i].last
    <3>1. \A i \in DOMAIN senders : senders[i].seq \notin complete
      BY <2>2, <2>3 DEF Flight, Ids
    <3>. QED
      BY <3>1 DEF LastInv
  <2>7. LastIsLast'
    <3>1. \A i \in DOMAIN senders' : i \in DOMAIN senders \/ i = Len(senders')
      BY <1>2, <2>1
    <3>2. \A i \in DOMAIN senders : senders'[i] = senders[i]
      BY <1>2, <2>1
    <3>. QED
      BY <2>6, <3>1, <3>2 DEF LastIsLast
  <2>8. ~meta'.end
    BY <2>1
  <2>. QED
    BY <2>5, <2>7, <2>8
<1>8. ASSUME NEW i \in DOMAIN senders, SenderStarts(i) \/ SenderWakes(i)
      PROVE  EndIsLast' /\ LastIsLast' /\ (meta'.end => Flight' = {})
  <2>1. meta' = meta /\ Flight' \subseteq Flight
    BY <1>8, SenderEffect, SenderIds DEF ByPasses
  <2>2. senders # <<>> /\ Len(senders) \in Nat /\ DOMAIN senders = 1..Len(senders)
    BY <1>2
  <2>3. \A k \in DOMAIN incoming : incoming[k].kind # "end"
    BY <1>0, <2>2 DEF EndIsLast
  <2>4. LastIsLast'
    <3>1. CASE Polls(i)
      BY <1>0, <3>1 DEF Polls, LastIsLast
    <3>2. CASE senders' = RemoveAt(senders, i)
      <4>1. /\ Len(RemoveAt(senders, i)) = Len(senders) - 1 /\ RemoveAt(senders, i) \in Seq(SenderType)
            /\ \A k \in DOMAIN RemoveAt(senders, i) :
              \E j \in DOMAIN senders : j # i /\ RemoveAt(senders, i)[k] = senders[j] /\ (k = j \/ k + 1 = j)
        BY <1>2, IdsRemoved
      <4>2. ASSUME NEW k \in DOMAIN senders', senders'[k].last PROVE k = Len(senders')
        <5>1. PICK j \in DOMAIN senders : senders'[k] = senders[j] /\ (k = j \/ k + 1 = j)
          BY <3>2, <4>1
        <5>2. j = Len(senders)
          BY <1>0, <4>2, <5>1 DEF LastIsLast
        <5>3. k \in 1..(Len(senders) - 1)
          BY <3>2, <4>1
        <5>. QED
          BY <2>2, <3>2, <4>1, <5>1, <5>2, <5>3
      <4>. QED
        BY <4>2 DEF LastIsLast
    <3>. QED
      BY <1>8, <3>1, <3>2, SenderEffect DEF Alone, Sent
  <2>5. EndIsLast'
    <3>1. CASE incoming' = incoming
      BY <2>3, <3>1 DEF EndIsLast
    <3>2. ASSUME NEW n \in Nat, NEW r \in Seq(Messages), Sent(i, n, r) PROVE EndIsLast'
      <4>1. /\ incoming' = incoming \o r /\ Fits(r, senders[i], n) /\ senders' = RemoveAt(senders, i)
            /\ ~(i > 1)
        <5>1. i > 1 => "reordered" \in disturbed'
          BY <3>2 DEF Sent
        <5>. QED
          BY <3>2, <5>1 DEF Sent
      <4>2. \A k \in DOMAIN r : r[k].kind = "end" => k = Len(r) /\ senders[i].last
        BY <4>1 DEF Fits
      <4>3. senders[i].last => senders' = <<>>
        <5>1. senders[i].last => i = Len(senders)
          BY <1>0 DEF LastIsLast
        <5>2. /\ Len(RemoveAt(senders, i)) = Len(senders) - 1
              /\ RemoveAt(senders, i) \in Seq(SenderType)
          BY <1>2, IdsRemoved
        <5>3. senders[i].last => Len(senders) = 1
          BY <2>2, <4>1, <5>1
        <5>4. Len(senders) = 1 => RemoveAt(senders, i) = <<>>
          BY <5>2
        <5>. QED
          BY <4>1, <5>3, <5>4, Zenon
      <4>4. /\ DOMAIN (incoming \o r) = 1..(Len(incoming) + Len(r))
            /\ DOMAIN incoming = 1..Len(incoming) /\ DOMAIN r = 1..Len(r)
            /\ Len(incoming \o r) = Len(incoming) + Len(r)
            /\ Len(incoming) \in Nat /\ Len(r) \in Nat
            /\ \A k \in 1..Len(incoming) : (incoming \o r)[k] = incoming[k]
            /\ \A k \in 1..Len(r) : (incoming \o r)[Len(incoming) + k] = r[k]
        BY <1>2, Joined
      <4>5. \A k \in 1..(Len(incoming) + Len(r)) :
              k \in 1..Len(incoming) \/ (k - Len(incoming) \in 1..Len(r) /\ k = Len(incoming) + (k - Len(incoming)))
        BY <4>4
      <4>6. ASSUME NEW k \in DOMAIN (incoming \o r), (incoming \o r)[k].kind = "end"
            PROVE  k = Len(incoming \o r) /\ senders' = <<>>
        <5>1. k \notin 1..Len(incoming)
          BY <2>3, <4>4, <4>6
        <5>2. k - Len(incoming) \in 1..Len(r) /\ k = Len(incoming) + (k - Len(incoming))
          BY <4>4, <4>5, <5>1
        <5>3. (incoming \o r)[k] = r[k - Len(incoming)]
          BY <4>4, <5>2
        <5>4. k - Len(incoming) = Len(r) /\ senders[i].last
          BY <4>2, <4>4, <4>6, <5>2, <5>3
        <5>5. k = Len(incoming \o r)
          BY <4>4, <5>2, <5>4
        <5>. QED
          BY <4>3, <5>4, <5>5
      <4>. QED
        BY <4>1, <4>6 DEF EndIsLast
    <3>. QED
      BY <1>8, <3>1, <3>2, SenderEffect DEF Alone, Polls
  <2>. QED
    BY <1>0, <2>1, <2>4, <2>5
<1>9. CASE Receive
  <2>1. /\ incoming # <<>> /\ incoming' = Tail(incoming) /\ senders' = senders
    BY <1>9, ReceiveEffect DEF Received, sending
  <2>2. /\ Len(incoming') = Len(incoming) - 1 /\ Head(incoming) = incoming[1] /\ 1 \in DOMAIN incoming
        /\ incoming' \in Seq(Messages) /\ Head(incoming) \in Messages
        /\ \A k \in DOMAIN incoming' : k + 1 \in DOMAIN incoming /\ incoming'[k] = incoming[k + 1]
    BY <1>2, <2>1, IdsTaken
  <2>3. LastIsLast'
    BY <1>0, <2>1 DEF LastIsLast
  <2>4. EndIsLast'
    <3>1. ASSUME NEW k \in DOMAIN incoming', incoming'[k].kind = "end" PROVE k = Len(incoming') /\ senders' = <<>>
      <4>1. k + 1 = Len(incoming) /\ senders = <<>>
        BY <1>0, <2>2, <3>1 DEF EndIsLast
      <4>2. k \in Nat
        BY <2>2
      <4>. QED
        BY <1>2, <2>1, <2>2, <4>1, <4>2
    <3>. QED
      BY <3>1 DEF EndIsLast
  <2>5. meta'.end => Flight' = {}
    <3>1. Flight # {}
      <4>1. Head(incoming).seq \in Ids(incoming)
        BY <1>2, <2>1, IdsTaken
      <4>. QED
        BY <4>1 DEF Flight
    <3>2. ~meta.end
      BY <1>0, <3>1
    <3>3. CASE Nothing
      BY <3>2, <3>3 DEF Nothing
    <3>4. ASSUME NEW item, Passed(item), meta'.end PROVE Flight' = {}
      <4>1. /\ item \in Messages /\ item = Head(incoming) /\ yielding' = <<>> /\ meta' = ItemMeta(item)
        BY <3>4 DEF Passed, YieldItem
      <4>2. ~NextMeta.end
        <5>1. queue # <<>> => Head(queue) = queue[1] /\ 1 \in DOMAIN queue
          BY <1>2
        <5>. QED
          BY <3>2, <5>1 DEF NextMeta, LastInv
      <4>3. item.kind = "end"
        BY <3>4, <4>1, <4>2, ItemMetaTyped
      <4>4. 1 = Len(incoming) /\ senders = <<>>
        BY <1>0, <2>2, <4>1, <4>3 DEF EndIsLast
      <4>5. incoming' = <<>>
        <5>0. Len(incoming) = 1
          BY <4>4
        <5>1. Len(incoming') = 0
          BY <2>2, <5>0
        <5>. QED
          BY <2>2, <5>1
      <4>. QED
        BY <1>3, <2>1, <4>1, <4>4, <4>5, IdsEmpty
    <3>. QED
      BY <1>9, <3>3, <3>4, ReceiveEffect
  <2>. QED
    BY <2>3, <2>4, <2>5
<1>10. ~Yield
  BY <1>0 DEF Yield
<1>. QED
  BY <1>0, <1>5, <1>6, <1>7, <1>8, <1>9, <1>10, StreamSteps

-----------------------------------------------------------------------------
(* Nothing is under way of an answer whose final packet was heard. *)
StreamEnds ==
  provider \in Buffering /\ disturbed \subseteq {"merged"} => finished \intersect Flight = {}
DirectEnds ==
  Direct => \A s \in finished : s \notin Ids(queue) /\ (fetching.seq = s => done /\ incoming = <<>>)

LEMMA StreamEndsKept ==
  TypeInv /\ ModeInv /\ LastInv /\ EndInv /\ StreamEnds /\ [Next]_vars => StreamEnds'
<1>. SUFFICES ASSUME TypeInv, ModeInv, LastInv, EndInv, StreamEnds, [Next]_vars, provider \in Buffering,
                     disturbed' \subseteq {"merged"}
              PROVE  finished' \intersect Flight' = {}
  BY Lasting DEF StreamEnds
<1>0. /\ Streams /\ yielding = <<>> /\ disturbed \subseteq {"merged"} /\ EndIsLast
      /\ finished \intersect Flight = {} /\ (meta.end => Flight = {})
  BY Lasting, KindOfProvider DEF EndInv, ModeInv, StreamEnds
<1>1. ASSUME finished' = finished, Flight' \subseteq Flight PROVE finished' \intersect Flight' = {}
  BY <1>0, <1>1
<1>2. Flight' = Ids(senders') \union Ids(incoming') \union Ids(yielding')
  BY DEF Flight
<1>3. CASE Respond \/ Settles
  <2>1. UNCHANGED <<senders, incoming, yielding, finished>>
    BY <1>3 DEF Respond, Settles, sending, given
  <2>2. Flight' = Flight
    BY <1>2, <2>1 DEF Flight
  <2>. QED
    BY <1>1, <2>1, <2>2
<1>4. CASE Interrupt \/ Drop \/ \E i \in DOMAIN senders : SendFails(i)
  BY <1>1, <1>4, LostIds DEF Interrupt, Drop, SendFails, given
<1>5. ASSUME NEW last \in BOOLEAN, Push(last) PROVE finished' \intersect Flight' = {}
  <2>1. finished' = finished /\ seq \notin complete
    BY <1>5 DEF Push, given
  <2>2. Flight' = Flight \union {seq}
    BY <1>0, <1>5, PushIds, Zenon
  <2>. QED
    BY <1>0, <2>1, <2>2 DEF LastInv
<1>6. ASSUME NEW i \in DOMAIN senders, SenderStarts(i) \/ SenderWakes(i) PROVE finished' \intersect Flight' = {}
  BY <1>1, <1>6, SenderEffect, SenderIds DEF ByPasses, given
<1>7. CASE Receive
  <2>1. /\ incoming # <<>> /\ incoming' = Tail(incoming) /\ senders' = senders /\ incoming \in Seq(Messages)
    BY <1>7, ReceiveEffect DEF Received, sending, TypeInv, WireTyped
  <2>2. /\ Len(incoming') = Len(incoming) - 1 /\ Head(incoming) = incoming[1] /\ 1 \in DOMAIN incoming
        /\ incoming' \in Seq(Messages) /\ Head(incoming).seq \in Ids(incoming)
    BY <2>1, IdsTaken
  <2>3. ~meta.end
    BY <1>0, <2>2 DEF Flight
  <2>4. CASE Nothing
    BY <1>1, <1>7, <2>4, ReceivedIds DEF Nothing, given
  <2>5. ASSUME NEW item, Passed(item) PROVE finished' \intersect Flight' = {}
    <3>1. item \in Messages /\ item = Head(incoming) /\ yielding' = <<>> /\ YieldItem(item)
      BY <2>5 DEF Passed
    <3>2. ~NextMeta.end
      <4>1. queue # <<>> => Head(queue) = queue[1] /\ 1 \in DOMAIN queue
        BY DEF TypeInv, TextsTyped
      <4>. QED
        BY <2>3, <4>1 DEF NextMeta, LastInv
    <3>3. CASE item.kind = "end"
      <4>1. 1 = Len(incoming) /\ senders = <<>>
        BY <1>0, <2>2, <3>1, <3>3 DEF EndIsLast
      <4>2. incoming' = <<>>
        <5>0. Len(incoming) = 1
          BY <4>1
        <5>1. Len(incoming') = 0
          BY <2>2, <5>0
        <5>. QED
          BY <2>2, <5>1
      <4>. QED
        BY <1>2, <2>1, <3>1, <4>1, <4>2, IdsEmpty
    <3>4. CASE item.kind # "end"
      <4>1. finished' \subseteq finished
        BY <3>1, <3>2, <3>4, YieldItemEffect
      <4>. QED
        BY <1>0, <1>7, <4>1, ReceivedIds
    <3>. QED
      BY <3>3, <3>4
  <2>. QED
    BY <1>7, <2>4, <2>5, ReceiveEffect
<1>8. ~Yield
  BY <1>0 DEF Yield
<1>. QED
  BY <1>0, <1>3, <1>4, <1>5, <1>6, <1>7, <1>8, StreamSteps

LEMMA DirectEndsKept ==
  TypeInv /\ ModeInv /\ LastInv /\ DirectInv /\ DirectEnds /\ [Next]_vars => DirectEnds'
<1>. SUFFICES ASSUME TypeInv, ModeInv, LastInv, DirectInv, DirectEnds, [Next]_vars, Direct,
                     NEW s \in finished'
              PROVE  s \notin Ids(queue') /\ (fetching'.seq = s => done' /\ incoming' = <<>>)
  <2>1. Ids(queue)' = Ids(queue')
    BY DEF Ids
  <2>. QED
    BY <2>1, Lasting DEF DirectEnds, Direct
<1>0. ChunksInHand /\ LastComesLast /\ EndsWhenDone /\ ~Streams /\ NoMeta.seq = 0
  BY KindOfProvider, NoMetaTyped DEF DirectInv
<1>1. s \in finished => s \notin Ids(queue) /\ (fetching.seq = s => done /\ incoming = <<>>) /\ s \in complete
  BY DEF DirectEnds, LastInv
<1>2. s # 0
  <2>1. TypeInv'
    BY TypeInvKept
  <2>. QED
    BY <2>1 DEF TypeInv, GivenTyped, Seqs
<1>3. CASE Respond \/ Interrupt \/ UNCHANGED vars
  <2>1. Interrupt => UNCHANGED incoming
    BY DEF Interrupt, NoInterrupt, Direct
  <2>2. UNCHANGED <<queue, incoming, fetching, done, finished>>
    BY <1>3, <2>1 DEF Respond, Interrupt, vars, given
  <2>. QED
    BY <1>1, <2>2
<1>4. ASSUME NEW last \in BOOLEAN, Push(last)
      PROVE  s \notin Ids(queue') /\ (fetching'.seq = s => done' /\ incoming' = <<>>)
  <2>1. UNCHANGED <<incoming, fetching, done, finished>> /\ seq \notin complete
    BY <1>4 DEF Push, given
  <2>2. Ids(queue') = Ids(queue) \union {seq}
    BY <1>4, PushIds, Zenon
  <2>. QED
    BY <1>1, <2>1, <2>2
<1>5. CASE Take
  <2>1. /\ UNCHANGED <<incoming, finished>> /\ queue' = Tail(queue) /\ queue # <<>>
        /\ fetching' \in {NoMeta, Head(queue)} /\ queue \in Seq(TextType)
    BY <1>5 DEF Take, given, TypeInv, TextsTyped
  <2>2. Ids(Tail(queue)) \subseteq Ids(queue) /\ Head(queue).seq \in Ids(queue)
    BY <2>1, IdsTaken
  <2>. QED
    BY <1>0, <1>1, <1>2, <2>1, <2>2
<1>6. CASE Fetched \/ FetchFails \/ AzureNext
  <2>1. UNCHANGED <<queue, incoming, done>> /\ fetching # NoMeta
    BY <1>6 DEF Fetched, FetchFails, AzureNext
  <2>2. \/ finished' = finished /\ fetching' \in {fetching, NoMeta}
        \/ /\ fetching' = NoMeta
           /\ \A x \in finished' : x \in finished \/ (x = fetching.seq /\ fetching.last)
    BY <1>6, StampedFits DEF Fetched, FetchFails, AzureNext, Give, given
  <2>3. fetching.last => fetching.seq \notin Ids(queue)
    BY <1>0, <2>1 DEF LastComesLast
  <2>. QED
    BY <1>0, <1>1, <1>2, <2>1, <2>2, <2>3
<1>7. CASE AzureCallback
  <2>1. UNCHANGED <<queue, fetching, finished>> /\ ~done
    BY <1>7 DEF AzureCallback, given
  <2>. QED
    BY <1>1, <2>1
<1>8. CASE AzureChunk
  <2>1. /\ UNCHANGED <<queue, done>> /\ incoming # <<>> /\ incoming' = Tail(incoming)
        /\ fetching' = IF done /\ Len(incoming) = 1 THEN Stamped(fetching) ELSE fetching
        /\ Give("audio", fetching.seq, fetching') /\ incoming \in Seq(Messages)
    BY <1>8 DEF AzureChunk, TypeInv, WireTyped
  <2>2. fetching # NoMeta /\ ~fetching.end
    BY <1>0, <2>1 DEF ChunksInHand, EndsWhenDone
  <2>3. fetching'.seq = fetching.seq /\ fetching'.last = fetching.last
    BY <2>1, StampedFits
  <2>4. Len(incoming) = 1 => incoming' = <<>>
    <3>1. Len(Tail(incoming)) = Len(incoming) - 1 /\ Tail(incoming) \in Seq(Messages)
      BY <2>1, IdsTaken
    <3>2. Len(incoming) = 1 => Len(incoming') = 0 /\ incoming' \in Seq(Messages)
      BY <2>1, <3>1
    <3>. QED
      BY <3>2
  <2>5. fetching'.end => done /\ Len(incoming) = 1
    BY <2>1, <2>2
  <2>6. s \in finished \/ (s = fetching.seq /\ fetching.last /\ fetching'.end)
    BY <2>1, <2>3 DEF Give
  <2>7. CASE s \in finished
    BY <1>1, <2>1, <2>3, <2>7
  <2>8. CASE s = fetching.seq /\ fetching.last /\ fetching'.end
    <3>1. s \notin Ids(queue)
      BY <1>0, <2>2, <2>8 DEF LastComesLast
    <3>2. done' = done /\ queue' = queue
      BY <2>1
    <3>. QED
      BY <2>4, <2>5, <2>8, <3>1, <3>2
  <2>. QED
    BY <2>6, <2>7, <2>8
<1>. QED
  BY <1>3, <1>4, <1>5, <1>6, <1>7, <1>8, DirectSteps

-----------------------------------------------------------------------------
(* A packet shares the fate of its answer as long as it is the last one. *)
LEMMA PacketKept ==
  ASSUME TypeInv, KnownInv, AudioOfItsAnswer, [Next]_vars, packet' = packet, valid' \subseteq valid \union {seq + 1}
  PROVE  AudioOfItsAnswer'
<1>1. provider' = provider /\ disturbed \subseteq disturbed'
  BY Lasting
<1>2. Withstands({})' => Withstands({})
  BY <1>1 DEF Withstands
<1>3. disturbed' \subseteq {"cut"} => disturbed \subseteq {"cut"}
  BY <1>1
<1>4. packet.of # seq + 1
  BY IdTypes DEF KnownInv
<1>5. OldAudioSilent'
  BY <1>1, <1>2, <1>3 DEF AudioOfItsAnswer, OldAudioSilent
<1>6. NewAudioHeard'
  BY <1>2, <1>4 DEF AudioOfItsAnswer, NewAudioHeard
<1>. QED
  BY <1>5, <1>6 DEF AudioOfItsAnswer

(* An item that a streaming synthesizer lets out. *)
LEMMA PacketYielded ==
  ASSUME TypeInv, ModeInv, KnownInv, LineInv, CutInv, Streams, ~error, [Next]_vars, valid' = valid,
         NEW item \in Messages, YieldItem(item), item.seq \in Flight,
         disturbed' = disturbed, provider = "cartesia" /\ disturbed \subseteq {"cut"} => item.seq \in valid
  PROVE  AudioOfItsAnswer'
<1>1. /\ packet'.of = item.seq /\ packet'.seq = NextMeta.seq /\ packet'.heard = (NextMeta.seq \in valid)
      /\ NextMeta.seq \in Ids(queue) \union {meta.seq}
  BY YieldItemEffect
<1>2. provider' = provider
  BY Lasting
<1>3. Withstands({})' => disturbed = {}
  BY <1>2, KindOfProvider DEF Withstands, Direct
<1>4. disturbed = {} => packet'.of = packet'.seq
  BY <1>1 DEF LineInv
<1>5. provider = "cartesia" /\ disturbed \subseteq {"cut"} => packet'.seq <= packet'.of
  BY <1>1 DEF CutInv
<1>6. OldAudioSilent'
  BY <1>2, <1>3, <1>4, <1>5 DEF OldAudioSilent
<1>7. NewAudioHeard'
  BY <1>1, <1>3, <1>4 DEF NewAudioHeard
<1>. QED
  BY <1>6, <1>7 DEF AudioOfItsAnswer

LEMMA AudioOfItsAnswerKept ==
  ASSUME TypeInv, ModeInv, KnownInv, ContextInv, LineInv, CutInv, AudioOfItsAnswer, [Next]_vars
  PROVE  AudioOfItsAnswer'
<1>1. CASE Streams
  <2>1. Respond \/ Interrupt \/ (\E last \in BOOLEAN : Push(last)) =>
          packet' = packet /\ valid' \subseteq valid \union {seq + 1}
    BY DEF Respond, Interrupt, Push, given
  <2>2. ASSUME NEW i \in DOMAIN senders, SenderStarts(i) \/ SenderWakes(i)
        PROVE  packet' = packet /\ valid' \subseteq valid \union {seq + 1}
    BY <2>2, SenderEffect DEF ByPasses, given, answers
  <2>3. Drop \/ (\E i \in DOMAIN senders : SendFails(i)) \/ Settles =>
          packet' = packet /\ valid' \subseteq valid \union {seq + 1}
    BY DEF Drop, SendFails, Settles, given, answers
  <2>4. CASE Receive
    <3>1. /\ ~error /\ valid' = valid /\ disturbed' = disturbed /\ incoming \in Seq(Messages) /\ incoming # <<>>
      BY <2>4, ReceiveEffect DEF Received, answers, TypeInv, WireTyped
    <3>2. CASE Nothing
      BY <3>1, <3>2, PacketKept DEF Nothing, given
    <3>3. ASSUME NEW item, Passed(item), provider = "cartesia" => Head(incoming).context \notin ignored
          PROVE  AudioOfItsAnswer'
      <4>1. item \in Messages /\ YieldItem(item) /\ item.seq = Head(incoming).seq
        BY <3>3 DEF Passed
      <4>2. Head(incoming) = incoming[1] /\ 1 \in DOMAIN incoming /\ Head(incoming).seq \in Ids(incoming)
        BY <3>1, IdsTaken
      <4>3. provider = "cartesia" /\ disturbed \subseteq {"cut"} => item.seq \in valid
        BY <3>3, <4>1, <4>2 DEF ContextInv, Contextual, MessagesInContext, OfContext
      <4>4. item.seq \in Flight
        BY <4>1, <4>2 DEF Flight
      <4>. QED
        BY <1>1, <3>1, <4>1, <4>3, <4>4, PacketYielded
    <3>. QED
      BY <2>4, <3>2, <3>3, ReceiveEffect
  <2>5. CASE Yield
    <3>1. ~error /\ valid' = valid /\ disturbed' = disturbed /\ yielding # <<>>
      BY <2>5 DEF Yield, answers
    <3>2. Head(yielding) \in Messages /\ YieldItem(Head(yielding)) /\ Head(yielding).seq \in Flight
      BY <2>5, YieldIds DEF Flight
    <3>3. provider # "cartesia"
      BY <3>1 DEF ModeInv, Buffering
    <3>. QED
      BY <1>1, <3>1, <3>2, <3>3, PacketYielded
  <2>. QED
    BY <1>1, <2>1, <2>2, <2>3, <2>4, <2>5, PacketKept, StreamSteps
<1>2. CASE ~Streams
  <2>0. Direct
    BY <1>2, KindOfProvider
  <2>1. Respond \/ Interrupt \/ (\E last \in BOOLEAN : Push(last)) \/ Take \/ AzureCallback \/ AzureNext
          \/ UNCHANGED vars =>
          packet' = packet /\ valid' \subseteq valid \union {seq + 1}
    BY DEF Respond, Interrupt, Push, Take, AzureCallback, AzureNext, vars, given, answers
  <2>2. CASE Fetched \/ FetchFails \/ AzureChunk
    <3>1. valid' = valid
      BY <2>2 DEF Fetched, FetchFails, AzureChunk, answers
    <3>2. packet' = packet \/ /\ packet'.of = fetching.seq /\ packet'.seq = fetching.seq
                              /\ packet'.heard = (fetching.seq \in valid)
      BY <2>2, StampedFits DEF Fetched, FetchFails, AzureChunk, Give, given
    <3>3. CASE packet' = packet
      BY <3>1, <3>3, PacketKept
    <3>4. CASE /\ packet'.of = fetching.seq /\ packet'.seq = fetching.seq
               /\ packet'.heard = (fetching.seq \in valid)
      <4>1. provider' # "cartesia"
        BY <2>0, Lasting DEF Direct
      <4>. QED
        BY <3>1, <3>4, <4>1 DEF AudioOfItsAnswer, OldAudioSilent, NewAudioHeard
    <3>. QED
      BY <3>2, <3>3, <3>4
  <2>. QED
    BY <2>0, <2>1, <2>2, PacketKept, DirectSteps
<1>. QED
  BY <1>1, <1>2

-----------------------------------------------------------------------------
(* The inductive invariant. *)
SynthInv ==
  /\ TypeInv /\ ModeInv /\ KnownInv /\ LastInv /\ CalmInv /\ ContextInv /\ LineInv /\ CutInv /\ DirectInv
  /\ EndInv /\ StreamEnds /\ DirectEnds /\ AudioOfItsAnswer

LEMMA InitHolds == Init => SynthInv
<1>. SUFFICES ASSUME Init PROVE SynthInv
  OBVIOUS
<1>1. TypeInv
  BY TypeInvStarts
<1>2. /\ valid = {} /\ seq = 0 /\ complete = {} /\ queue = <<>> /\ meta = NoMeta /\ fetching = NoMeta
      /\ senders = <<>> /\ incoming = <<>> /\ yielding = <<>> /\ packet = NoPacket /\ finished = {}
      /\ context = 0 /\ ignored = {} /\ disturbed = {} /\ ~up
  BY DEF Init
<1>3. Flight = {} /\ Ids(queue) = {} /\ Ids(incoming) = {} /\ Ids(senders) = {} /\ Len(queue) = 0
  BY <1>2, IdsEmpty DEF Flight
<1>4. NoMeta.seq = 0 /\ NoMeta.last = FALSE /\ NoMeta.end = FALSE
  BY DEF NoMeta
<1>5. NoPacket.of = 0 /\ NoPacket.seq = 0 /\ NoPacket.heard = FALSE /\ NoPacket.kind = "none"
  BY DEF NoPacket
<1>6. ModeInv /\ KnownInv
  BY <1>2, <1>3, <1>4, <1>5 DEF ModeInv, KnownInv
<1>7. LastInv
  BY <1>2, <1>4 DEF LastInv
<1>8. CalmInv /\ CutInv
  BY <1>3 DEF CalmInv, CutInv
<1>9. LineInv
  BY <1>2, <1>3 DEF LineInv
<1>10. ContextInv
  BY <1>2, <1>3 DEF ContextInv, MessagesInContext, SendersInContext, Init
<1>11. DirectInv
  BY <1>2, <1>3, <1>4 DEF DirectInv, ChunksInHand, LastComesLast, EndsWhenDone
<1>12. EndInv
  BY <1>2, <1>3 DEF EndInv, EndsComplete, EndIsLast, LastIsLast
<1>13. StreamEnds /\ DirectEnds
  BY <1>2 DEF StreamEnds, DirectEnds
<1>14. AudioOfItsAnswer
  BY <1>2, <1>5 DEF AudioOfItsAnswer, OldAudioSilent, NewAudioHeard
<1>. QED
  BY <1>1, <1>6, <1>7, <1>8, <1>9, <1>10, <1>11, <1>12, <1>13, <1>14 DEF SynthInv

LEMMA SynthInvHolds == Spec => []SynthInv
<1>1. SynthInv /\ [Next]_vars => SynthInv'
  <2>. SUFFICES ASSUME SynthInv, [Next]_vars PROVE SynthInv'
    OBVIOUS
  <2>1. TypeInv' /\ ModeInv' /\ KnownInv' /\ LastInv'
    BY TypeInvKept, ModeInvKept, KnownInvKept, LastInvKept DEF SynthInv
  <2>2. CalmInv' /\ ContextInv' /\ LineInv' /\ CutInv'
    BY CalmInvKept, ContextInvKept, LineInvKept, CutInvKept DEF SynthInv
  <2>3. DirectInv' /\ EndInv' /\ StreamEnds' /\ DirectEnds'
    BY DirectInvKept, EndInvKept, StreamEndsKept, DirectEndsKept DEF SynthInv
  <2>4. AudioOfItsAnswer'
    BY AudioOfItsAnswerKept DEF SynthInv
  <2>. QED
    BY <2>1, <2>2, <2>3, <2>4 DEF SynthInv
<1>. QED
  BY <1>1, InitHolds, PTL DEF Spec

(* Audio shares the fate of the answer it is of, with every provider: it goes  *)
(* out under its own sequence id unless the order of texts and audio was upset *)
(* (by overlapping answers, joined texts, lost, late or reordered ones), and   *)
(* cartesia's, whose audio names its answer, never under a newer one even      *)
(* after interruptions.                                                        *)
THEOREM AudioSharesItsFate == Spec => []AudioOfItsAnswer
<1>1. SynthInv => AudioOfItsAnswer
  BY DEF SynthInv
<1>. QED
  BY <1>1, SynthInvHolds, PTL

(* When the final packet of an answer has been heard, its last text had been   *)
(* pushed and all of its audio has gone out.                                   *)
THEOREM FinalPacketIsLast == Spec => []FinalIsLast
<1>1. SynthInv => FinalIsLast
  <2>. SUFFICES ASSUME SynthInv, provider \in Buffering \union {"http", "azure"}, Withstands({"merged"}),
                       NEW s \in finished
                PROVE  s \in complete /\ ~AudioLeft(s)
    BY DEF FinalIsLast
  <2>1. TypeInv /\ LastInv /\ StreamEnds /\ DirectEnds /\ DirectInv /\ ModeInv
    BY DEF SynthInv
  <2>2. s \in complete
    BY <2>1 DEF LastInv
  <2>3. \A list : Has(s, list) <=> s \in Ids(list)
    BY DEF Has, Ids
  <2>4. CASE provider \in Buffering
    <3>1. Streams /\ disturbed \subseteq {"merged"}
      BY <2>1, <2>4, KindOfProvider DEF Withstands, Buffering
    <3>2. s \notin Flight
      BY <2>1, <2>4, <3>1 DEF StreamEnds
    <3>3. AudioLeft(s) => Busy(s)
      BY DEF Busy
    <3>. QED
      BY <2>1, <2>2, <3>1, <3>2, <3>3, BusyIsInFlight
  <2>5. CASE provider \in {"http", "azure"}
    <3>1. ~Streams /\ Direct
      BY <2>1, <2>5, KindOfProvider DEF Direct
    <3>2. s \notin Ids(queue) /\ (fetching.seq = s => done /\ incoming = <<>>)
      BY <2>1, <3>1 DEF DirectEnds
    <3>3. senders = <<>> /\ yielding = <<>>
      BY <2>1, <3>1 DEF TypeInv, SendersTyped, ModeInv, Streams
    <3>4. ~Has(s, senders) /\ ~Has(s, yielding) /\ ~HasAudio(s, yielding)
      BY <3>3 DEF Has, HasAudio
    <3>5. ~HasAudio(s, incoming)
      <4>1. HasAudio(s, incoming) => s \in Ids(incoming)
        BY DEF HasAudio, Ids
      <4>2. s \in Ids(incoming) => s = fetching.seq
        BY <2>1, <3>1 DEF DirectInv, ChunksInHand
      <4>. QED
        BY <3>2, <4>1, <4>2 DEF HasAudio
    <3>. QED
      BY <2>2, <2>3, <3>2, <3>4, <3>5 DEF AudioLeft
  <2>. QED
    BY <2>4, <2>5
<1>. QED
  BY <1>1, SynthInvHolds, PTL
=============================================================================

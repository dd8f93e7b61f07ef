---------------------- MODULE WebSocketPublisherProofs ----------------------
(***************************************************************************)
(* Proofs about WebSocketPublisher, for any number of connections and any  *)
(* size of the queues.                                                     *)
(*                                                                         *)
(* A step concerns one connection, or is a publish.  So what holds of a    *)
(* connection is a predicate, Sound, of the values it has in the eight     *)
(* variables; a first group of lemmas shows that every operation on the    *)
(* values preserves it, and the induction then looks up, for each action,  *)
(* which values it gives to which connection.                              *)
(***************************************************************************)
EXTENDS WebSocketPublisher, TLAPS

Numbers == 1..MaxMessages

Numbered == Seq(Numbers)

----------------------------------------------------------------------------
(* What holds of a connection.                                             *)

\* The types, and the phases in which a connection has a sender and queues.
Shaped(pub, ph, pe, qu, se, sg, de, jo) ==
    /\ pub \in 0..MaxMessages
    /\ ph \in Phases
    /\ pe \in Numbered
    /\ qu \in Numbered
    /\ Len(qu) <= QueueSize
    /\ se \in SenderStates
    /\ sg \in Numbered
    /\ Len(sg) = IF se = "sending" THEN 1 ELSE 0
    /\ de \in Numbered
    /\ jo \in 0..MaxMessages
    /\ ph \in {"new", "accepting"} => se = "none" /\ pe = <<>> /\ qu = <<>>
    /\ ph = "open" => se \in {"waiting", "sending", "failed"}
    /\ ph = "closing" => se # "none"
    /\ ph = "done" => se \notin {"waiting", "sending"}

\* Of a registered connection, the callbacks and the queue hold the newest
\* notifications one after the other; an older one was received, is being sent,
\* or had QueueSize newer ones behind it when it was dropped.
Consecutive(pub, pe, qu) ==
    /\ \A i \in 1..Len(pe) : pe[i] = pub - Len(pe) + i
    /\ \A i \in 1..Len(qu) : qu[i] = pub - Len(pe) - Len(qu) + i

Kept(pub, pe, qu, sg, de, jo) ==
    \A n \in (jo + 1)..(pub - Len(pe) - Len(qu)) :
        n + QueueSize > pub - Len(pe) => n \in ToSet(de) \union ToSet(sg)

Sound(pub, ph, pe, qu, se, sg, de, jo) ==
    /\ Shaped(pub, ph, pe, qu, se, sg, de, jo)
    /\ ph = "open" => Consecutive(pub, pe, qu)
    /\ ph = "open" /\ se # "failed" => Kept(pub, pe, qu, sg, de, jo)

----------------------------------------------------------------------------
(* Sequences.                                                              *)

\* A sequence that is not empty has a head and a tail (deque of asyncio.Queue).
LEMMA HeadAndTail ==
    ASSUME NEW S, NEW s \in Seq(S), s # <<>>
    PROVE  /\ Len(s) \in Nat \ {0}
           /\ Head(s) \in S
           /\ Head(s) = s[1]
           /\ Tail(s) \in Seq(S)
           /\ Len(Tail(s)) = Len(s) - 1
           /\ \A i \in 1..(Len(s) - 1) : Tail(s)[i] = s[i + 1]
OBVIOUS

\* Appending an element (asyncio.Queue.put_nowait).
LEMMA Appended ==
    ASSUME NEW S, NEW s \in Seq(S), NEW e \in S
    PROVE  /\ Append(s, e) \in Seq(S)
           /\ Len(Append(s, e)) = Len(s) + 1
           /\ \A i \in 1..Len(s) : Append(s, e)[i] = s[i]
           /\ Append(s, e)[Len(s) + 1] = e
OBVIOUS

\* A sequence contains its elements (the notifications a queue holds).
LEMMA ElementsOfSequence ==
    ASSUME NEW S, NEW s \in Seq(S)
    PROVE  \A i \in 1..Len(s) : s[i] \in ToSet(s)
<1>1. DOMAIN s = 1..Len(s)
  OBVIOUS
<1>2. ASSUME NEW i \in 1..Len(s)
      PROVE  s[i] \in ToSet(s)
  BY <1>1 DEF ToSet
<1> QED
  BY <1>2

\* The elements of a concatenation (what a client has received).
LEMMA ElementsOfConcat ==
    ASSUME NEW S, NEW s \in Seq(S), NEW t \in Seq(S)
    PROVE  ToSet(s \o t) = ToSet(s) \union ToSet(t)
<1>1. /\ s \o t \in Seq(S)
      /\ Len(s \o t) = Len(s) + Len(t)
      /\ DOMAIN (s \o t) = 1..(Len(s) + Len(t))
      /\ DOMAIN s = 1..Len(s) /\ DOMAIN t = 1..Len(t)
      /\ Len(s) \in Nat /\ Len(t) \in Nat
  OBVIOUS
<1>2. \A i \in 1..Len(s) : (s \o t)[i] = s[i]
  OBVIOUS
<1>3. \A i \in 1..Len(t) : (s \o t)[Len(s) + i] = t[i]
  OBVIOUS
<1>4. ASSUME NEW e \in ToSet(s \o t)
      PROVE  e \in ToSet(s) \union ToSet(t)
  <2>1. PICK i \in 1..(Len(s) + Len(t)) : e = (s \o t)[i]
    BY <1>1 DEF ToSet
  <2>2. CASE i <= Len(s)
    BY <1>1, <1>2, <2>1, <2>2 DEF ToSet
  <2>3. CASE i > Len(s)
    <3>1. i - Len(s) \in 1..Len(t) /\ i = Len(s) + (i - Len(s))
      BY <1>1, <2>3
    <3>2. e = t[i - Len(s)]
      BY <1>3, <2>1, <3>1
    <3> QED
      BY <1>1, <3>1, <3>2 DEF ToSet
  <2> QED
    BY <1>1, <2>2, <2>3
<1>5. ASSUME NEW e \in ToSet(s)
      PROVE  e \in ToSet(s \o t)
  <2>1. PICK i \in 1..Len(s) : e = s[i]
    BY <1>1 DEF ToSet
  <2>2. i \in 1..(Len(s) + Len(t)) /\ e = (s \o t)[i]
    BY <1>1, <1>2, <2>1
  <2> QED
    BY <1>1, <2>2 DEF ToSet
<1>6. ASSUME NEW e \in ToSet(t)
      PROVE  e \in ToSet(s \o t)
  <2>1. PICK i \in 1..Len(t) : e = t[i]
    BY <1>1 DEF ToSet
  <2>2. Len(s) + i \in 1..(Len(s) + Len(t)) /\ e = (s \o t)[Len(s) + i]
    BY <1>1, <1>3, <2>1
  <2> QED
    BY <1>1, <2>2 DEF ToSet
<1> QED
  BY <1>4, <1>5, <1>6

----------------------------------------------------------------------------
(* Operations on the values of a connection.                               *)

\* The rest of connect makes a sound connection.
LEMMA RegisterSound ==
    ASSUME NEW pub, NEW pe, NEW qu, NEW se, NEW sg, NEW de, NEW jo,
           Sound(pub, "accepting", pe, qu, se, sg, de, jo)
    PROVE  Sound(pub, "open", pe, qu, "waiting", sg, de, pub)
<1>1. pe = <<>> /\ qu = <<>> /\ Len(pe) = 0 /\ Len(qu) = 0 /\ pub \in Nat
  BY SizesAssumption DEF Sound, Shaped
<1>2. Shaped(pub, "open", pe, qu, "waiting", sg, de, pub)
  BY DEF Sound, Shaped, Phases, SenderStates
<1>3. Consecutive(pub, pe, qu)
  BY <1>1 DEF Consecutive
<1>4. Kept(pub, pe, qu, sg, de, pub)
  BY <1>1 DEF Kept
<1> QED
  BY <1>2, <1>3, <1>4 DEF Sound

\* publish adds a callback to a registered connection.
LEMMA PublishSound ==
    ASSUME NEW pub, NEW ph, NEW pe, NEW qu, NEW se, NEW sg, NEW de, NEW jo,
           Sound(pub, ph, pe, qu, se, sg, de, jo), pub < MaxMessages
    PROVE  Sound(pub + 1, ph, IF ph = "open" THEN Append(pe, pub + 1) ELSE pe,
                 qu, se, sg, de, jo)
<1>1. /\ pub \in Nat /\ pub + 1 \in 0..MaxMessages /\ pub + 1 \in Numbers
      /\ pe \in Numbered /\ qu \in Numbered /\ Len(pe) \in Nat /\ Len(qu) \in Nat
  BY SizesAssumption DEF Sound, Shaped, Numbers, Numbered
<1>2. CASE ph # "open"
  BY <1>1, <1>2 DEF Sound, Shaped
<1>3. CASE ph = "open"
  <2> DEFINE pe2 == Append(pe, pub + 1)
  <2>1. /\ pe2 \in Numbered
        /\ Len(pe2) = Len(pe) + 1
        /\ \A i \in 1..Len(pe) : pe2[i] = pe[i]
        /\ pe2[Len(pe) + 1] = pub + 1
    BY <1>1, Appended DEF Numbered
  <2> HIDE DEF pe2
  <2>2. Shaped(pub + 1, ph, pe2, qu, se, sg, de, jo)
    BY <1>1, <1>3, <2>1 DEF Sound, Shaped
  <2>3. Consecutive(pub + 1, pe2, qu)
    BY <1>1, <1>3, <2>1 DEF Sound, Consecutive
  <2>4. se # "failed" => Kept(pub + 1, pe2, qu, sg, de, jo)
    <3>1. /\ (pub + 1) - Len(pe2) = pub - Len(pe)
          /\ (pub + 1) - Len(pe2) - Len(qu) = pub - Len(pe) - Len(qu)
      BY <1>1, <2>1
    <3>2. se # "failed" => Kept(pub, pe, qu, sg, de, jo)
      BY <1>3 DEF Sound
    <3> QED
      BY <3>1, <3>2 DEF Kept
  <2> QED
    BY <1>3, <2>2, <2>3, <2>4 DEF Sound, pe2
<1> QED
  BY <1>2, <1>3

\* _enqueue: a full queue loses its oldest notification, which QueueSize newer
\* ones have followed.
LEMMA EnqueueSound ==
    ASSUME NEW pub, NEW ph, NEW pe, NEW qu, NEW se, NEW sg, NEW de, NEW jo,
           Sound(pub, ph, pe, qu, se, sg, de, jo), pe # <<>>
    PROVE  Sound(pub, ph, Tail(pe),
                 Append(IF Len(qu) = QueueSize THEN Tail(qu) ELSE qu, Head(pe)),
                 se, sg, de, jo)
<1> DEFINE room == IF Len(qu) = QueueSize THEN Tail(qu) ELSE qu
           pe2 == Tail(pe)
           qu2 == Append(room, Head(pe))
           lost == IF Len(qu) = QueueSize THEN 1 ELSE 0
<1>1. /\ pub \in Nat /\ jo \in Nat
      /\ pe \in Numbered /\ qu \in Numbered /\ Len(qu) \in Nat
      /\ QueueSize \in Nat \ {0}
  BY SizesAssumption DEF Sound, Shaped, Numbers, Numbered
<1>2. /\ Len(pe) \in Nat \ {0}
      /\ Head(pe) \in Numbers /\ Head(pe) = pe[1]
      /\ pe2 \in Numbered
      /\ Len(pe2) = Len(pe) - 1
      /\ \A i \in 1..(Len(pe) - 1) : pe2[i] = pe[i + 1]
  BY <1>1, HeadAndTail DEF Numbered
<1>3. /\ room \in Numbered
      /\ Len(room) = Len(qu) - lost
      /\ \A i \in 1..(Len(qu) - lost) : room[i] = qu[i + lost]
  <2>1. CASE Len(qu) = QueueSize
    <3>1. qu # <<>>
      BY <1>1, <2>1
    <3> QED
      BY <1>1, <2>1, <3>1, HeadAndTail DEF Numbered
  <2>2. CASE Len(qu) # QueueSize
    BY <1>1, <2>2
  <2> QED
    BY <2>1, <2>2
<1>4. /\ qu2 \in Numbered
      /\ Len(qu2) = Len(qu) - lost + 1
      /\ \A i \in 1..(Len(qu) - lost) : qu2[i] = qu[i + lost]
      /\ qu2[Len(qu) - lost + 1] = pe[1]
  <2>1. /\ Append(room, Head(pe)) \in Seq(Numbers)
        /\ Len(Append(room, Head(pe))) = Len(room) + 1
        /\ \A i \in 1..Len(room) : Append(room, Head(pe))[i] = room[i]
        /\ Append(room, Head(pe))[Len(room) + 1] = Head(pe)
    <3> HIDE DEF room
    <3> QED
      BY <1>2, <1>3, Appended DEF Numbered
  <2> HIDE DEF room, lost
  <2> QED
    BY <1>2, <1>3, <2>1 DEF Numbered
<1>5. lost \in {0, 1} /\ (lost = 0 => Len(qu) # QueueSize) /\ (lost = 1 => Len(qu) = QueueSize)
  OBVIOUS
<1> HIDE DEF pe2, qu2, lost, room
<1>6. Len(qu) <= QueueSize /\ Len(qu2) <= QueueSize
  BY <1>1, <1>4, <1>5 DEF Sound, Shaped
<1>7. ph \notin {"new", "accepting"}
  BY DEF Sound, Shaped
<1>8. Shaped(pub, ph, pe2, qu2, se, sg, de, jo)
  BY <1>2, <1>4, <1>6, <1>7 DEF Sound, Shaped
<1>9. ASSUME ph = "open"
      PROVE  Consecutive(pub, pe2, qu2)
  <2>1. Consecutive(pub, pe, qu)
    BY <1>9 DEF Sound
  <2>2. ASSUME NEW i \in 1..Len(pe2)
        PROVE  pe2[i] = pub - Len(pe2) + i
    <3>1. i \in 1..(Len(pe) - 1) /\ i + 1 \in 1..Len(pe)
      BY <1>2
    <3>2. pe2[i] = pub - Len(pe) + (i + 1)
      BY <1>2, <2>1, <3>1 DEF Consecutive
    <3> QED
      BY <1>1, <1>2, <3>2
  <2>3. ASSUME NEW i \in 1..Len(qu2)
        PROVE  qu2[i] = pub - Len(pe2) - Len(qu2) + i
    <3>1. CASE i <= Len(qu) - lost
      <4>1. i \in 1..(Len(qu) - lost) /\ i + lost \in 1..Len(qu)
        BY <1>1, <1>4, <1>5, <3>1
      <4>2. qu2[i] = pub - Len(pe) - Len(qu) + (i + lost)
        BY <1>4, <2>1, <4>1 DEF Consecutive
      <4> QED
        BY <1>1, <1>2, <1>4, <1>5, <4>2
    <3>2. CASE i = Len(qu) - lost + 1
      <4>1. pe[1] = pub - Len(pe) + 1
        BY <1>2, <2>1 DEF Consecutive
      <4> QED
        BY <1>1, <1>2, <1>4, <1>5, <3>2, <4>1
    <3> QED
      BY <1>1, <1>4, <1>5, <3>1, <3>2
  <2> QED
    BY <2>2, <2>3 DEF Consecutive
<1>10. ASSUME ph = "open", se # "failed"
       PROVE  Kept(pub, pe2, qu2, sg, de, jo)
  <2>1. Kept(pub, pe, qu, sg, de, jo)
    BY <1>10 DEF Sound
  <2>2. SUFFICES ASSUME NEW n \in (jo + 1)..(pub - Len(pe2) - Len(qu2)),
                        n + QueueSize > pub - Len(pe2)
                 PROVE  n \in ToSet(de) \union ToSet(sg)
    BY DEF Kept
  <2>3. /\ pub - Len(pe2) = pub - Len(pe) + 1
        /\ pub - Len(pe2) - Len(qu2) = pub - Len(pe) - Len(qu) + lost
    BY <1>1, <1>2, <1>4, <1>5
  <2>4. n + QueueSize > pub - Len(pe)
    BY <1>1, <1>2, <2>2, <2>3
  <2>5. n <= pub - Len(pe) - Len(qu)
    BY <1>1, <1>2, <1>5, <2>2, <2>3
  <2> QED
    BY <1>1, <1>2, <2>1, <2>4, <2>5 DEF Kept
<1> QED
  BY <1>8, <1>9, <1>10 DEF Sound, pe2, qu2, room

\* The sender takes the oldest notification of the queue.
LEMMA TakeSound ==
    ASSUME NEW pub, NEW pe, NEW qu, NEW sg, NEW de, NEW jo,
           Sound(pub, "open", pe, qu, "waiting", sg, de, jo), qu # <<>>
    PROVE  Sound(pub, "open", pe, Tail(qu), "sending", <<Head(qu)>>, de, jo)
<1> DEFINE qu2 == Tail(qu)
           sg2 == <<Head(qu)>>
<1>1. /\ pub \in Nat /\ jo \in Nat /\ Len(pe) \in Nat
      /\ pe \in Numbered /\ qu \in Numbered /\ sg \in Numbered /\ Len(sg) = 0
  BY SizesAssumption DEF Sound, Shaped, Numbers, Numbered
<1>2. /\ Len(qu) \in Nat \ {0}
      /\ Head(qu) \in Numbers /\ Head(qu) = qu[1]
      /\ qu2 \in Numbered
      /\ Len(qu2) = Len(qu) - 1
      /\ \A i \in 1..(Len(qu) - 1) : qu2[i] = qu[i + 1]
  BY <1>1, HeadAndTail DEF Numbered
<1>3. sg2 \in Numbered /\ Len(sg2) = 1 /\ ToSet(sg2) = {qu[1]} /\ ToSet(sg) = {}
  BY <1>1, <1>2 DEF Numbered, ToSet
<1> HIDE DEF qu2, sg2
<1>4. Shaped(pub, "open", pe, qu2, "sending", sg2, de, jo)
  BY <1>1, <1>2, <1>3, SizesAssumption DEF Sound, Shaped, SenderStates
<1>5. Consecutive(pub, pe, qu)
  BY DEF Sound
<1>6. Consecutive(pub, pe, qu2)
  <2>1. ASSUME NEW i \in 1..Len(qu2)
        PROVE  qu2[i] = pub - Len(pe) - Len(qu2) + i
    <3>1. i \in 1..(Len(qu) - 1) /\ i + 1 \in 1..Len(qu)
      BY <1>2
    <3>2. qu2[i] = pub - Len(pe) - Len(qu) + (i + 1)
      BY <1>2, <1>5, <3>1 DEF Consecutive
    <3> QED
      BY <1>1, <1>2, <3>2
  <2> QED
    BY <1>5, <2>1 DEF Consecutive
<1>7. Kept(pub, pe, qu2, sg2, de, jo)
  <2>1. SUFFICES ASSUME NEW n \in (jo + 1)..(pub - Len(pe) - Len(qu2)),
                        n + QueueSize > pub - Len(pe)
                 PROVE  n \in ToSet(de) \union ToSet(sg2)
    BY DEF Kept
  <2>2. CASE n = pub - Len(pe) - Len(qu) + 1
    <3>1. qu[1] = pub - Len(pe) - Len(qu) + 1
      BY <1>2, <1>5 DEF Consecutive
    <3> QED
      BY <1>3, <2>2, <3>1
  <2>3. CASE n <= pub - Len(pe) - Len(qu)
    <3>1. n \in ToSet(de) \union ToSet(sg)
      BY <1>1, <1>2, <2>1, <2>3 DEF Sound, Kept
    <3> QED
      BY <1>3, <3>1
  <2>4. n = pub - Len(pe) - Len(qu) + 1 \/ n <= pub - Len(pe) - Len(qu)
    <3>1. n \in Int /\ n <= pub - Len(pe) - Len(qu2)
      BY <1>1, <1>2
    <3>2. pub \in Int /\ Len(pe) \in Int /\ Len(qu) \in Int /\ Len(qu2) = Len(qu) - 1
      BY <1>1, <1>2
    <3> QED
      BY <3>1, <3>2
  <2> QED
    BY <2>2, <2>3, <2>4, Zenon
<1> QED
  BY <1>4, <1>6, <1>7 DEF Sound, qu2, sg2

\* A send returns.
LEMMA SentSound ==
    ASSUME NEW pub, NEW pe, NEW qu, NEW sg, NEW de, NEW jo,
           Sound(pub, "open", pe, qu, "sending", sg, de, jo)
    PROVE  Sound(pub, "open", pe, qu, "waiting", <<>>, de \o sg, jo)
<1>1. sg \in Numbered /\ de \in Numbered
  BY DEF Sound, Shaped
<1>2. de \o sg \in Numbered /\ ToSet(de \o sg) = ToSet(de) \union ToSet(sg)
  BY <1>1, ElementsOfConcat DEF Numbered
<1>3. ToSet(<<>>) = {} /\ <<>> \in Numbered /\ Len(<<>>) = 0
  BY DEF ToSet, Numbered
<1>4. Shaped(pub, "open", pe, qu, "waiting", <<>>, de \o sg, jo)
  BY <1>2, <1>3 DEF Sound, Shaped, SenderStates
<1>5. Kept(pub, pe, qu, <<>>, de \o sg, jo)
  BY <1>2, <1>3 DEF Sound, Kept
<1> QED
  BY <1>4, <1>5 DEF Sound

\* A send raises: a connection with a failed sender need not keep anything.
LEMMA SendFailsSound ==
    ASSUME NEW pub, NEW ph, NEW pe, NEW qu, NEW sg, NEW de, NEW jo,
           Sound(pub, ph, pe, qu, "sending", sg, de, jo)
    PROVE  Sound(pub, ph, pe, qu, "failed", <<>>, de, jo)
<1>1. <<>> \in Numbered /\ Len(<<>>) = 0
  BY DEF Numbered
<1> QED
  BY <1>1 DEF Sound, Shaped, SenderStates

\* disconnect and what follows it: nothing is kept for a connection that is not
\* registered.
LEMMA ClosingSound ==
    ASSUME NEW pub, NEW ph, NEW pe, NEW qu, NEW se, NEW sg, NEW de, NEW jo,
           Sound(pub, ph, pe, qu, se, sg, de, jo)
    PROVE  /\ ph = "open" => Sound(pub, "closing", pe, qu, se, sg, de, jo)
           /\ ph = "new" => Sound(pub, "accepting", pe, qu, se, sg, de, jo)
           /\ ph = "accepting" \/ (ph = "closing" /\ se \in {"stopped", "failed"})
                => Sound(pub, "done", pe, qu, se, sg, de, jo)
           /\ ph = "closing" /\ se \in {"waiting", "sending"}
                => /\ Sound(pub, ph, pe, qu, "stopped", <<>>, de, jo)
                   /\ Sound(pub, ph, pe, qu, "stopped", <<>>, de \o sg, jo)
<1>1. <<>> \in Numbered /\ Len(<<>>) = 0
  BY DEF Numbered
<1>2. de \o sg \in Numbered
  BY DEF Sound, Shaped, Numbered
<1> QED
  BY <1>1, <1>2 DEF Sound, Shaped, SenderStates, Phases

----------------------------------------------------------------------------
(* The invariant.                                                          *)

SoundAt(c) ==
    Sound(published, phase[c], pending[c], queue[c], sender[c], sending[c],
          delivered[c], joined[c])

Inv == TypeOK /\ \A c \in Connections : SoundAt(c)

\* The invariant holds before the first connection.
LEMMA InitInv == Init => Inv
<1> SUFFICES ASSUME Init PROVE Inv
  OBVIOUS
<1>1. <<>> \in Numbered /\ Len(<<>>) = 0 /\ 0 \in 0..MaxMessages /\ 0 <= QueueSize
  BY SizesAssumption DEF Numbered
<1>2. TypeOK
  BY <1>1 DEF Init, TypeOK, Phases, SenderStates, Numbered, Numbers
<1>3. ASSUME NEW c \in Connections
      PROVE  SoundAt(c)
  BY <1>1 DEF Init, SoundAt, Sound, Shaped, Phases, SenderStates
<1> QED
  BY <1>2, <1>3 DEF Inv

\* Writing what is there changes nothing (the fields a coroutine leaves alone).
LEMMA Rewritten ==
    ASSUME NEW S, NEW T, NEW f \in [S -> T], NEW x \in S
    PROVE  f = [f EXCEPT ![x] = f[x]]
OBVIOUS

\* A step that gives one connection the values.
Becomes(c, ph, pe, qu, se, sg, de, jo) ==
    /\ published' = published
    /\ phase' = [phase EXCEPT ![c] = ph]
    /\ pending' = [pending EXCEPT ![c] = pe]
    /\ queue' = [queue EXCEPT ![c] = qu]
    /\ sender' = [sender EXCEPT ![c] = se]
    /\ sending' = [sending EXCEPT ![c] = sg]
    /\ delivered' = [delivered EXCEPT ![c] = de]
    /\ joined' = [joined EXCEPT ![c] = jo]

\* If the values are sound, it preserves the invariant.
LEMMA OneChanges ==
    ASSUME Inv, NEW c \in Connections,
           NEW ph, NEW pe, NEW qu, NEW se, NEW sg, NEW de, NEW jo,
           Becomes(c, ph, pe, qu, se, sg, de, jo),
           Sound(published, ph, pe, qu, se, sg, de, jo)
    PROVE  Inv'
<1> USE DEF Becomes
<1>1. /\ ph \in Phases /\ pe \in Numbered /\ qu \in Numbered /\ Len(qu) <= QueueSize
      /\ se \in SenderStates /\ sg \in Numbered
      /\ Len(sg) = IF se = "sending" THEN 1 ELSE 0
      /\ de \in Numbered /\ jo \in 0..MaxMessages
  BY DEF Sound, Shaped
<1>2. TypeOK
  BY DEF Inv
<1>3. /\ phase' \in [Connections -> Phases]
      /\ pending' \in [Connections -> Numbered]
      /\ queue' \in [Connections -> Numbered]
      /\ sender' \in [Connections -> SenderStates]
      /\ sending' \in [Connections -> Numbered]
      /\ delivered' \in [Connections -> Numbered]
      /\ joined' \in [Connections -> 0..MaxMessages]
  BY <1>1, <1>2 DEF TypeOK, Numbered, Numbers
<1>4. /\ phase'[c] = ph /\ pending'[c] = pe /\ queue'[c] = qu /\ sender'[c] = se
      /\ sending'[c] = sg /\ delivered'[c] = de /\ joined'[c] = jo
  BY <1>2 DEF TypeOK
<1>5. \A d \in Connections : d # c =>
        /\ phase'[d] = phase[d] /\ pending'[d] = pending[d] /\ queue'[d] = queue[d]
        /\ sender'[d] = sender[d] /\ sending'[d] = sending[d]
        /\ delivered'[d] = delivered[d] /\ joined'[d] = joined[d]
  BY <1>2 DEF TypeOK
<1>6. TypeOK'
  <2>1. \A d \in Connections :
          /\ Len(queue'[d]) <= QueueSize
          /\ Len(sending'[d]) = IF sender'[d] = "sending" THEN 1 ELSE 0
    BY <1>1, <1>2, <1>4, <1>5 DEF TypeOK
  <2> QED
    BY <1>2, <1>3, <2>1 DEF TypeOK, Numbered, Numbers
<1>7. ASSUME NEW d \in Connections
      PROVE  SoundAt(d)'
  <2>1. CASE d = c
    BY <1>4, <2>1 DEF SoundAt
  <2>2. CASE d # c
    BY <1>5, <2>2 DEF Inv, SoundAt
  <2> QED
    BY <2>1, <2>2
<1> QED
  BY <1>6, <1>7 DEF Inv

\* What each action makes of its connection.
LEMMA Becoming ==
    ASSUME TypeOK, NEW c \in Connections
    PROVE  /\ Connect(c) => Becomes(c, "accepting", pending[c], queue[c], sender[c],
                                    sending[c], delivered[c], joined[c])
           /\ AcceptFails(c) => Becomes(c, "done", pending[c], queue[c], sender[c],
                                        sending[c], delivered[c], joined[c])
           /\ Register(c) => Becomes(c, "open", pending[c], queue[c], "waiting",
                                     sending[c], delivered[c], published)
           /\ Enqueue(c) => Becomes(c, phase[c], Tail(pending[c]),
                                    Append(IF Len(queue[c]) = QueueSize THEN Tail(queue[c])
                                                                        ELSE queue[c],
                                           Head(pending[c])),
                                    sender[c], sending[c], delivered[c], joined[c])
           /\ Take(c) => Becomes(c, "open", pending[c], Tail(queue[c]), "sending",
                                 <<Head(queue[c])>>, delivered[c], joined[c])
           /\ Sent(c) => Becomes(c, "open", pending[c], queue[c], "waiting", <<>>,
                                 delivered[c] \o sending[c], joined[c])
           /\ SendFails(c) => Becomes(c, phase[c], pending[c], queue[c], "failed", <<>>,
                                      delivered[c], joined[c])
           /\ Disconnect(c) => Becomes(c, "closing", pending[c], queue[c], sender[c],
                                       sending[c], delivered[c], joined[c])
           /\ SenderCanceled(c) =>
                \/ Becomes(c, phase[c], pending[c], queue[c], "stopped", <<>>,
                           delivered[c], joined[c])
                \/ Becomes(c, phase[c], pending[c], queue[c], "stopped", <<>>,
                           delivered[c] \o sending[c], joined[c])
           /\ HandlerEnds(c) => Becomes(c, "done", pending[c], queue[c], sender[c],
                                        sending[c], delivered[c], joined[c])
<1>1. /\ phase = [phase EXCEPT ![c] = phase[c]]
      /\ pending = [pending EXCEPT ![c] = pending[c]]
      /\ queue = [queue EXCEPT ![c] = queue[c]]
      /\ sender = [sender EXCEPT ![c] = sender[c]]
      /\ sending = [sending EXCEPT ![c] = sending[c]]
      /\ delivered = [delivered EXCEPT ![c] = delivered[c]]
      /\ joined = [joined EXCEPT ![c] = joined[c]]
  BY Rewritten DEF TypeOK
<1>2. Connect(c) => Becomes(c, "accepting", pending[c], queue[c], sender[c],
                            sending[c], delivered[c], joined[c])
  BY <1>1 DEF Connect, Becomes
<1>3. AcceptFails(c) => Becomes(c, "done", pending[c], queue[c], sender[c],
                                sending[c], delivered[c], joined[c])
  BY <1>1 DEF AcceptFails, Becomes
<1>4. Register(c) => Becomes(c, "open", pending[c], queue[c], "waiting",
                             sending[c], delivered[c], published)
  BY <1>1 DEF Register, Becomes
<1>5. Enqueue(c) => Becomes(c, phase[c], Tail(pending[c]),
                            Append(IF Len(queue[c]) = QueueSize THEN Tail(queue[c])
                                                                ELSE queue[c],
                                   Head(pending[c])),
                            sender[c], sending[c], delivered[c], joined[c])
  BY <1>1 DEF Enqueue, Becomes
<1>6. Take(c) => Becomes(c, "open", pending[c], Tail(queue[c]), "sending",
                         <<Head(queue[c])>>, delivered[c], joined[c])
  BY <1>1 DEF Take, Becomes
<1>7. Sent(c) => Becomes(c, "open", pending[c], queue[c], "waiting", <<>>,
                         delivered[c] \o sending[c], joined[c])
  BY <1>1 DEF Sent, Becomes
<1>8. SendFails(c) => Becomes(c, phase[c], pending[c], queue[c], "failed", <<>>,
                              delivered[c], joined[c])
  BY <1>1 DEF SendFails, Becomes
<1>9. Disconnect(c) => Becomes(c, "closing", pending[c], queue[c], sender[c],
                               sending[c], delivered[c], joined[c])
  BY <1>1 DEF Disconnect, Becomes
<1>10. SenderCanceled(c) => 
          \/ Becomes(c, phase[c], pending[c], queue[c], "stopped", <<>>,
                     delivered[c], joined[c])
          \/ Becomes(c, phase[c], pending[c], queue[c], "stopped", <<>>,
                     delivered[c] \o sending[c], joined[c])
  BY <1>1 DEF SenderCanceled, Becomes
<1>11. HandlerEnds(c) => Becomes(c, "done", pending[c], queue[c], sender[c],
                                sending[c], delivered[c], joined[c])
  BY <1>1 DEF HandlerEnds, Becomes
<1> QED
  BY <1>2, <1>3, <1>4, <1>5, <1>6, <1>7, <1>8, <1>9, <1>10, <1>11

\* A publish adds a callback to every registered connection.
LEMMA PublishInv == Inv /\ Publish => Inv'
<1> SUFFICES ASSUME Inv, Publish PROVE Inv'
  OBVIOUS
<1>1. TypeOK /\ \A c \in Connections : SoundAt(c)
  BY DEF Inv
<1>2. published' = published + 1 /\ published \in Nat /\ published < MaxMessages
  BY <1>1, SizesAssumption DEF Publish, TypeOK
<1>3. /\ phase' = phase /\ queue' = queue /\ sender' = sender /\ sending' = sending
      /\ delivered' = delivered /\ joined' = joined
  BY DEF Publish
<1>4. ASSUME NEW c \in Connections
      PROVE  /\ pending'[c] = IF phase[c] = "open" THEN Append(pending[c], published + 1)
                                                   ELSE pending[c]
             /\ SoundAt(c)'
  <2>1. pending'[c] = IF phase[c] = "open" THEN Append(pending[c], published + 1)
                                           ELSE pending[c]
    BY DEF Publish, Registered
  <2>2. Sound(published + 1, phase[c], pending'[c], queue[c], sender[c], sending[c],
              delivered[c], joined[c])
    BY <1>1, <1>2, <2>1, PublishSound DEF SoundAt
  <2> QED
    BY <1>2, <1>3, <2>1, <2>2 DEF SoundAt
<1>5. TypeOK'
  <2>1. \A c \in Connections : pending'[c] \in Numbered
    BY <1>4 DEF SoundAt, Sound, Shaped
  <2>2. pending' \in [Connections -> Numbered]
    BY <2>1 DEF Publish
  <2> QED
    BY <1>1, <1>2, <1>3, <2>2, SizesAssumption DEF TypeOK, Numbered, Numbers
<1> QED
  BY <1>4, <1>5 DEF Inv

\* So every step of a connection preserves the invariant.
LEMMA ConnectionInv ==
    ASSUME Inv, NEW c \in Connections, Connection(c)
    PROVE  Inv'
<1>0. /\ TypeOK
      /\ Sound(published, phase[c], pending[c], queue[c], sender[c], sending[c],
               delivered[c], joined[c])
  BY DEF Inv, SoundAt
<1>1. CASE Connect(c)
  <2>1. Sound(published, "accepting", pending[c], queue[c], sender[c],
              sending[c], delivered[c], joined[c])
    BY <1>0, <1>1, ClosingSound DEF Connect
  <2>2. Becomes(c, "accepting", pending[c], queue[c], sender[c],
              sending[c], delivered[c], joined[c])
    BY <1>0, <1>1, Becoming
  <2> QED
    BY <2>1, <2>2, OneChanges
<1>2. CASE Register(c)
  <2>1. Sound(published, "open", pending[c], queue[c], "waiting",
              sending[c], delivered[c], published)
    BY <1>0, <1>2, RegisterSound DEF Register
  <2>2. Becomes(c, "open", pending[c], queue[c], "waiting",
              sending[c], delivered[c], published)
    BY <1>0, <1>2, Becoming
  <2> QED
    BY <2>1, <2>2, OneChanges
<1>3. CASE AcceptFails(c)
  <2>1. Sound(published, "done", pending[c], queue[c], sender[c],
              sending[c], delivered[c], joined[c])
    BY <1>0, <1>3, ClosingSound DEF AcceptFails
  <2>2. Becomes(c, "done", pending[c], queue[c], sender[c],
              sending[c], delivered[c], joined[c])
    BY <1>0, <1>3, Becoming
  <2> QED
    BY <2>1, <2>2, OneChanges
<1>4. CASE Enqueue(c)
  <2>1. Sound(published, phase[c], Tail(pending[c]),
              Append(IF Len(queue[c]) = QueueSize THEN Tail(queue[c]) ELSE queue[c],
                     Head(pending[c])),
              sender[c], sending[c], delivered[c], joined[c])
    BY <1>0, <1>4, EnqueueSound DEF Enqueue
  <2>2. Becomes(c, phase[c], Tail(pending[c]),
              Append(IF Len(queue[c]) = QueueSize THEN Tail(queue[c]) ELSE queue[c],
                     Head(pending[c])),
              sender[c], sending[c], delivered[c], joined[c])
    BY <1>0, <1>4, Becoming
  <2> QED
    BY <2>1, <2>2, OneChanges
<1>5. CASE Take(c)
  <2>1. Sound(published, "open", pending[c], Tail(queue[c]), "sending",
              <<Head(queue[c])>>, delivered[c], joined[c])
    BY <1>0, <1>5, TakeSound DEF Take
  <2>2. Becomes(c, "open", pending[c], Tail(queue[c]), "sending",
              <<Head(queue[c])>>, delivered[c], joined[c])
    BY <1>0, <1>5, Becoming
  <2> QED
    BY <2>1, <2>2, OneChanges
<1>6. CASE Sent(c)
  <2>1. Sound(published, "open", pending[c], queue[c], "waiting",
              <<>>, delivered[c] \o sending[c], joined[c])
    BY <1>0, <1>6, SentSound DEF Sent
  <2>2. Becomes(c, "open", pending[c], queue[c], "waiting",
              <<>>, delivered[c] \o sending[c], joined[c])
    BY <1>0, <1>6, Becoming
  <2> QED
    BY <2>1, <2>2, OneChanges
<1>7. CASE SendFails(c)
  <2>1. Sound(published, phase[c], pending[c], queue[c], "failed",
              <<>>, delivered[c], joined[c])
    BY <1>0, <1>7, SendFailsSound DEF SendFails
  <2>2. Becomes(c, phase[c], pending[c], queue[c], "failed",
              <<>>, delivered[c], joined[c])
    BY <1>0, <1>7, Becoming
  <2> QED
    BY <2>1, <2>2, OneChanges
<1>8. CASE Disconnect(c)
  <2>1. Sound(published, "closing", pending[c], queue[c], sender[c],
              sending[c], delivered[c], joined[c])
    BY <1>0, <1>8, ClosingSound DEF Disconnect
  <2>2. Becomes(c, "closing", pending[c], queue[c], sender[c],
              sending[c], delivered[c], joined[c])
    BY <1>0, <1>8, Becoming
  <2> QED
    BY <2>1, <2>2, OneChanges
<1>9. CASE SenderCanceled(c)
  <2>1. Sound(published, phase[c], pending[c], queue[c], "stopped",
              <<>>, delivered[c], joined[c])
    BY <1>0, <1>9, ClosingSound DEF SenderCanceled
  <2>2. Sound(published, phase[c], pending[c], queue[c], "stopped",
              <<>>, delivered[c] \o sending[c], joined[c])
    BY <1>0, <1>9, ClosingSound DEF SenderCanceled
  <2>3. \/ Becomes(c, phase[c], pending[c], queue[c], "stopped",
              <<>>, delivered[c], joined[c])
        \/ Becomes(c, phase[c], pending[c], queue[c], "stopped",
              <<>>, delivered[c] \o sending[c], joined[c])
    BY <1>0, <1>9, Becoming
  <2>4. CASE Becomes(c, phase[c], pending[c], queue[c], "stopped",
              <<>>, delivered[c], joined[c])
    BY <2>1, <2>4, OneChanges
  <2>5. CASE Becomes(c, phase[c], pending[c], queue[c], "stopped",
              <<>>, delivered[c] \o sending[c], joined[c])
    BY <2>2, <2>5, OneChanges
  <2> QED
    BY <2>3, <2>4, <2>5
<1>10. CASE HandlerEnds(c)
  <2>1. Sound(published, "done", pending[c], queue[c], sender[c],
              sending[c], delivered[c], joined[c])
    BY <1>0, <1>10, ClosingSound DEF HandlerEnds
  <2>2. Becomes(c, "done", pending[c], queue[c], sender[c],
              sending[c], delivered[c], joined[c])
    BY <1>0, <1>10, Becoming
  <2> QED
    BY <2>1, <2>2, OneChanges
<1> QED
  BY <1>1, <1>2, <1>3, <1>4, <1>5, <1>6, <1>7, <1>8, <1>9, <1>10 DEF Connection

\* The invariant is inductive.
LEMMA StepInv == Inv /\ [Next]_vars => Inv'
<1> SUFFICES ASSUME Inv, [Next]_vars PROVE Inv'
  OBVIOUS
<1>1. CASE Publish
  BY <1>1, PublishInv
<1>2. ASSUME NEW c \in Connections, Connection(c)
      PROVE  Inv'
  BY <1>2, ConnectionInv
<1>3. CASE UNCHANGED vars
  BY <1>3 DEF vars, Inv, SoundAt, TypeOK
<1> QED
  BY <1>1, <1>2, <1>3 DEF Next

\* The invariant holds in every state.
LEMMA Invariance == Spec => []Inv
BY InitInv, StepInv, PTL DEF Spec

\* The publisher's state keeps its type; in particular no queue exceeds its
\* size (QueueSize of _Connection).
THEOREM TypeCorrectness == Spec => []TypeOK
<1>1. Inv => TypeOK
  BY DEF Inv
<1> QED
  BY <1>1, Invariance, PTL

\* No sender task outlives its connection (disconnect).
THEOREM SendersEnd == Spec => []NoOrphanSender
<1>1. Inv => NoOrphanSender
  BY DEF Inv, SoundAt, Sound, Shaped, NoOrphanSender, Phases
<1> QED
  BY <1>1, Invariance, PTL

\* However slow a client, of the notifications since it connected the newest
\* QueueSize have been delivered or are on their way (_enqueue).
THEOREM NewestKept == Spec => []KeepsNewest
<1>1. Inv => KeepsNewest
  <2> SUFFICES ASSUME Inv, NEW c \in Connections, Live(c),
                      NEW n \in (joined[c] + 1)..published, n + QueueSize > published
               PROVE  n \in ToSet(delivered[c]) \union ToSet(OnItsWay(c))
    BY DEF KeepsNewest
  <2> DEFINE pe == pending[c]
             qu == queue[c]
             sg == sending[c]
  <2>1. /\ Shaped(published, phase[c], pe, qu, sender[c], sg, delivered[c], joined[c])
        /\ Consecutive(published, pe, qu)
        /\ Kept(published, pe, qu, sg, delivered[c], joined[c])
    BY DEF Inv, SoundAt, Sound, Live
  <2>2. /\ published \in Nat /\ joined[c] \in Nat /\ n \in Int
        /\ pe \in Seq(Numbers) /\ qu \in Seq(Numbers) /\ sg \in Seq(Numbers)
        /\ Len(pe) \in Nat /\ Len(qu) \in Nat
        /\ QueueSize \in Nat /\ joined[c] < n /\ n <= published
    BY <2>1, SizesAssumption DEF Shaped, Numbered, Numbers
  <2>3. ToSet(OnItsWay(c)) = ToSet(sg) \union ToSet(qu) \union ToSet(pe)
    <3> DEFINE taken == sg \o qu
    <3>1. taken \in Seq(Numbers) /\ ToSet(taken) = ToSet(sg) \union ToSet(qu)
      BY <2>2, ElementsOfConcat
    <3> HIDE DEF taken
    <3>2. ToSet(taken \o pe) = ToSet(taken) \union ToSet(pe)
      BY <2>2, <3>1, ElementsOfConcat
    <3> QED
      BY <3>1, <3>2 DEF OnItsWay, taken
  <2> DEFINE last == published - Len(pe)
             first == last - Len(qu)
  <2>4. last \in Int /\ first \in Int /\ first = last - Len(qu)
    BY <2>2
  <2>5. CASE n > last
    <3> DEFINE i == n - last
    <3>1. i \in 1..Len(pe) /\ n = last + i
      <4>1. published = last + Len(pe)
        BY <2>2
      <4> HIDE DEF last
      <4> QED
        BY <2>2, <2>4, <2>5, <4>1
    <3> HIDE DEF i
    <3>2. pe[i] = n
      BY <2>1, <3>1 DEF Consecutive
    <3>3. pe[i] \in ToSet(pe)
      BY <2>2, <3>1, ElementsOfSequence
    <3> QED
      BY <2>3, <3>2, <3>3
  <2>6. CASE n <= last /\ n > first
    <3> DEFINE i == n - first
    <3>1. i \in 1..Len(qu) /\ n = first + i
      <4>1. last = first + Len(qu) /\ n \in Int /\ Len(qu) \in Int
        BY <2>2
      <4> HIDE DEF first, last
      <4>2. n <= first + Len(qu) /\ n > first /\ first \in Int
        BY <2>4, <2>6, <4>1
      <4> QED
        BY <4>1, <4>2
    <3> HIDE DEF i
    <3>2. qu[i] = n
      BY <2>1, <3>1 DEF Consecutive
    <3>3. qu[i] \in ToSet(qu)
      BY <2>2, <3>1, ElementsOfSequence
    <3> QED
      BY <2>3, <3>2, <3>3
  <2>7. CASE n <= first
    <3>1. n \in (joined[c] + 1)..first
      <4> HIDE DEF first, last
      <4> QED
        BY <2>2, <2>4, <2>7
    <3>2. n + QueueSize > last
      BY <2>2
    <3>3. n \in ToSet(delivered[c]) \union ToSet(sg)
      BY <2>1, <3>1, <3>2 DEF Kept
    <3> QED
      BY <2>3, <3>3
  <2> HIDE DEF first, last
  <2> QED
    BY <2>2, <2>4, <2>5, <2>6, <2>7
<1> QED
  BY <1>1, Invariance, PTL

----------------------------------------------------------------------------
(* The publisher implements NotificationStream.                            *)

\* The length of a concatenation (what is on its way to a client).
LEMMA LengthOfConcat ==
    ASSUME NEW s \in Numbered, NEW t \in Numbered
    PROVE  /\ s \o t \in Numbered
           /\ Len(s \o t) = Len(s) + Len(t)
           /\ Len(s) \in Nat
BY DEF Numbered

\* Concatenation is associative (sending, queue and callbacks in a row).
LEMMA Regrouped ==
    ASSUME NEW s \in Numbered, NEW t \in Numbered, NEW u \in Numbered
    PROVE  (s \o t) \o u = s \o (t \o u)
BY DEF Numbered

\* Dropping the head of a sequence from a concatenation (_enqueue on a full queue).
LEMMA Dropped ==
    ASSUME NEW s \in Numbered, NEW t \in Numbered, t # <<>>
    PROVE  RemoveAt(s \o t, Len(s) + 1) = s \o Tail(t)
<1>1. SubSeq(s \o t, 1, (Len(s) + 1) - 1) = s
  BY DEF Numbered
<1>2. SubSeq(s \o t, (Len(s) + 1) + 1, Len(s \o t)) = Tail(t)
  BY DEF Numbered
<1> QED
  BY <1>1, <1>2 DEF RemoveAt

\* The sequence s has the head h and the tail r.
Split(s, h, r) == s \in Numbered /\ s # <<>> /\ h = Head(s) /\ r = Tail(s)

\* The sequence s2 is s with x added at its end.
Extended(s2, s, x) == s2 = Append(s, x)

\* What the parts of such a sequence are (a queue, the callbacks).
LEMMA Parts ==
    ASSUME NEW s, NEW h, NEW r, Split(s, h, r)
    PROVE  /\ s \in Numbered /\ h \in Numbers /\ r \in Numbered
           /\ Len(s) \in Nat \ {0}
BY DEF Split, Numbered

\* Its first element moves to the end of another one (_enqueue).
LEMMA SplitMoved ==
    ASSUME NEW q \in Numbered, NEW s, NEW h, NEW r, Split(s, h, r),
           NEW q2, Extended(q2, q, h)
    PROVE  q2 \in Numbered /\ q2 \o r = q \o s
BY DEF Split, Extended, Numbered

\* Its first element is the first of a concatenation (_enqueue).
LEMMA SplitConcat ==
    ASSUME NEW s, NEW t \in Numbered, NEW h, NEW r, Split(s, h, r)
    PROVE  s \o t # <<>> /\ Tail(s \o t) = r \o t
BY DEF Split, Numbered

\* What a connection is sending, its queue and its callbacks in a row.
Row(sg, qu, pe) == (sg \o qu) \o pe

\* The row in two parts.
LEMMA RowInTwo ==
    ASSUME NEW sg \in Numbered, NEW qu \in Numbered, NEW pe \in Numbered
    PROVE  Row(sg, qu, pe) = sg \o (qu \o pe)
BY Regrouped DEF Row

\* _enqueue leaves what is on its way as it is if there is room in the queue.
LEMMA RowKept ==
    ASSUME NEW sg \in Numbered, NEW qu \in Numbered, NEW pe,
           NEW h, NEW r, Split(pe, h, r), NEW q2, Extended(q2, qu, h)
    PROVE  Row(sg, q2, r) = Row(sg, qu, pe)
<1>1. q2 \in Numbered /\ r \in Numbered /\ pe \in Numbered
  BY Parts, SplitMoved
<1>2. q2 \o r = qu \o pe
  BY SplitMoved
<1>3. Row(sg, q2, r) = sg \o (q2 \o r) /\ Row(sg, qu, pe) = sg \o (qu \o pe)
  BY <1>1, RowInTwo
<1> QED
  BY <1>2, <1>3

\* If there is none, the oldest notification of the queue is lost.
LEMMA RowLosesOldest ==
    ASSUME NEW sg \in Numbered, NEW qu, NEW pe,
           NEW h, NEW r, Split(pe, h, r), NEW oldest, NEW older, Split(qu, oldest, older),
           NEW q2, Extended(q2, older, h)
    PROVE  /\ Row(sg, q2, r) = RemoveAt(Row(sg, qu, pe), Len(sg) + 1)
           /\ Len(sg) + 1 \in 1..(Len(Row(sg, qu, pe)) - 1)
<1> DEFINE rest == qu \o pe
<1>1. /\ older \in Numbered /\ qu \in Numbered /\ pe \in Numbered
      /\ Len(qu) \in Nat \ {0} /\ Len(pe) \in Nat \ {0}
  BY Parts
<1>2. rest # <<>> /\ Tail(rest) = older \o pe
  BY <1>1, SplitConcat
<1>3. /\ rest \in Numbered /\ Len(rest) = Len(qu) + Len(pe)
      /\ Len(sg) \in Nat
  BY <1>1, LengthOfConcat
<1>4. Row(sg, qu, pe) = sg \o rest
  BY <1>1, RowInTwo
<1> HIDE DEF rest
<1>5. RemoveAt(sg \o rest, Len(sg) + 1) = sg \o Tail(rest)
  BY <1>2, <1>3, Dropped
<1>6. Len(sg \o rest) = Len(sg) + Len(rest)
  BY <1>3, LengthOfConcat
<1>7. Len(sg) + 1 \in 1..(Len(sg \o rest) - 1)
  BY <1>1, <1>3, <1>6
<1>8. Row(sg, q2, r) = Row(sg, older, pe)
  BY <1>1, RowKept
<1>9. Row(sg, older, pe) = sg \o (older \o pe)
  BY <1>1, RowInTwo
<1>10. Row(sg, q2, r) = RemoveAt(sg \o rest, Len(sg) + 1)
  BY <1>2, <1>5, <1>8, <1>9
<1> QED
  BY <1>4, <1>7, <1>10

StatusOf(ph, se) ==
    IF ph \in {"new", "accepting"} THEN "new"
    ELSE IF ph = "open" /\ se # "failed" THEN "on"
    ELSE IF se = "none" THEN "new"
    ELSE "ended"

BacklogOf(ph, pe, qu, se, sg) ==
    IF ph = "open" /\ se # "failed" THEN Row(sg, qu, pe) ELSE sg

\* The state of the stream.
status == [c \in Connections |-> StreamStatus(c)]

backlog == [c \in Connections |-> IF Live(c) THEN OnItsWay(c) ELSE sending[c]]

\* How the stream's state depends on the values of a connection.
LEMMA Mapped ==
    ASSUME NEW c \in Connections
    PROVE  /\ status[c] = StatusOf(phase[c], sender[c])
           /\ backlog[c] = BacklogOf(phase[c], pending[c], queue[c], sender[c], sending[c])
BY DEF status, backlog, StreamStatus, Live, OnItsWay, StatusOf, BacklogOf, Row

\* What becomes of it when one connection is given other values.
LEMMA StreamBecomes ==
    ASSUME TypeOK, NEW c \in Connections,
           NEW ph, NEW pe, NEW qu, NEW se, NEW sg, NEW de, NEW jo,
           Becomes(c, ph, pe, qu, se, sg, de, jo)
    PROVE  /\ status' = [status EXCEPT ![c] = StatusOf(ph, se)]
           /\ backlog' = [backlog EXCEPT ![c] = BacklogOf(ph, pe, qu, se, sg)]
           /\ delivered' = [delivered EXCEPT ![c] = de]
           /\ published' = published
<1>1. /\ phase'[c] = ph /\ pending'[c] = pe /\ queue'[c] = qu /\ sender'[c] = se
      /\ sending'[c] = sg
  BY DEF Becomes, TypeOK
<1>2. \A d \in Connections : d # c =>
        /\ phase'[d] = phase[d] /\ pending'[d] = pending[d] /\ queue'[d] = queue[d]
        /\ sender'[d] = sender[d] /\ sending'[d] = sending[d]
  BY DEF Becomes, TypeOK
<1>3. ASSUME NEW d \in Connections
      PROVE  /\ StreamStatus(d)' = IF d = c THEN StatusOf(ph, se) ELSE StreamStatus(d)
             /\ (IF Live(d) THEN OnItsWay(d) ELSE sending[d])' =
                   IF d = c THEN BacklogOf(ph, pe, qu, se, sg)
                   ELSE IF Live(d) THEN OnItsWay(d) ELSE sending[d]
  <2>1. CASE d = c
    BY <1>1, <2>1 DEF StreamStatus, Live, OnItsWay, StatusOf, BacklogOf, Row
  <2>2. CASE d # c
    BY <1>2, <2>2 DEF StreamStatus, Live, OnItsWay
  <2> QED
    BY <2>1, <2>2
<1>4. status' = [status EXCEPT ![c] = StatusOf(ph, se)]
  BY <1>3 DEF status
<1>5. backlog' = [backlog EXCEPT ![c] = BacklogOf(ph, pe, qu, se, sg)]
  BY <1>3 DEF backlog
<1> QED
  BY <1>4, <1>5 DEF Becomes

\* Giving a connection the stream values it has is a stutter.
LEMMA Stutters ==
    ASSUME TypeOK, NEW c \in Connections,
           NEW ph, NEW pe, NEW qu, NEW se, NEW sg, NEW jo,
           Becomes(c, ph, pe, qu, se, sg, delivered[c], jo),
           StatusOf(ph, se) = status[c],
           BacklogOf(ph, pe, qu, se, sg) = backlog[c]
    PROVE  UNCHANGED Stream!streamVars
<1>1. /\ status' = [status EXCEPT ![c] = status[c]]
      /\ backlog' = [backlog EXCEPT ![c] = backlog[c]]
      /\ delivered' = [delivered EXCEPT ![c] = delivered[c]]
      /\ published' = published
  BY StreamBecomes
<1>2. status' = status /\ backlog' = backlog
  BY <1>1 DEF status, backlog
<1>3. delivered' = delivered
  BY <1>1 DEF TypeOK
<1> QED
  BY <1>1, <1>2, <1>3 DEF Stream!streamVars, status, backlog

\* Giving it the stream values after a delivery is one (Sent, SenderCanceled).
LEMMA Delivers ==
    ASSUME TypeOK, NEW c \in Connections,
           NEW ph, NEW pe, NEW qu, NEW se, NEW sg, NEW de, NEW jo,
           Becomes(c, ph, pe, qu, se, sg, de, jo),
           StatusOf(ph, se) = status[c],
           backlog[c] # <<>>,
           BacklogOf(ph, pe, qu, se, sg) = Tail(backlog[c]),
           Extended(de, delivered[c], Head(backlog[c]))
    PROVE  Stream!Deliver(c)
<1>1. /\ status' = [status EXCEPT ![c] = StatusOf(ph, se)]
      /\ backlog' = [backlog EXCEPT ![c] = BacklogOf(ph, pe, qu, se, sg)]
      /\ delivered' = [delivered EXCEPT ![c] = de]
      /\ published' = published
  BY StreamBecomes
<1>2. status' = status
  BY <1>1 DEF status
<1>3. backlog' = [backlog EXCEPT ![c] = Tail(@)]
  BY <1>1 DEF backlog
<1>4. delivered' = [delivered EXCEPT ![c] = Append(@, Head(backlog[c]))]
  BY <1>1 DEF TypeOK, Extended
<1> QED
  BY <1>1, <1>2, <1>3, <1>4 DEF Stream!Deliver, status, backlog

\* Those after an end, with at most one notification left, are an end
\* (SendFails, Disconnect).
LEMMA Ends ==
    ASSUME TypeOK, NEW c \in Connections,
           NEW ph, NEW pe, NEW qu, NEW se, NEW sg, NEW jo,
           Becomes(c, ph, pe, qu, se, sg, delivered[c], jo),
           status[c] = "on", StatusOf(ph, se) = "ended",
           NEW n \in {0, 1}, n <= Len(backlog[c]),
           BacklogOf(ph, pe, qu, se, sg) = SubSeq(backlog[c], 1, n)
    PROVE  Stream!End(c)
<1>1. /\ status' = [status EXCEPT ![c] = "ended"]
      /\ backlog' = [backlog EXCEPT ![c] = SubSeq(@, 1, n)]
      /\ delivered' = [delivered EXCEPT ![c] = delivered[c]]
      /\ published' = published
  BY StreamBecomes DEF backlog
<1>2. delivered' = delivered
  BY <1>1 DEF TypeOK
<1> QED
  BY <1>1, <1>2 DEF Stream!End, status, backlog

\* Those after what was being sent is given up are a discard (SendFails,
\* SenderCanceled).
LEMMA Discards ==
    ASSUME TypeOK, NEW c \in Connections,
           NEW ph, NEW pe, NEW qu, NEW se, NEW sg, NEW jo,
           Becomes(c, ph, pe, qu, se, sg, delivered[c], jo),
           status[c] = "ended", StatusOf(ph, se) = "ended",
           backlog[c] # <<>>, BacklogOf(ph, pe, qu, se, sg) = <<>>
    PROVE  Stream!Discard(c)
<1>1. /\ status' = [status EXCEPT ![c] = status[c]]
      /\ backlog' = [backlog EXCEPT ![c] = <<>>]
      /\ delivered' = [delivered EXCEPT ![c] = delivered[c]]
      /\ published' = published
  BY StreamBecomes
<1>2. status' = status /\ delivered' = delivered
  BY <1>1 DEF status, TypeOK
<1> QED
  BY <1>1, <1>2 DEF Stream!Discard, status, backlog

\* A publish notifies the subscribers.
LEMMA PublishNotifies == Inv /\ Publish => Stream!Notify
<1> SUFFICES ASSUME Inv, Publish PROVE Stream!Notify
  OBVIOUS
<1>1. /\ published' = published + 1
      /\ phase' = phase /\ queue' = queue /\ sender' = sender /\ sending' = sending
      /\ delivered' = delivered
  BY DEF Publish
<1>2. status' = status
  BY <1>1 DEF status, StreamStatus, Live
<1>3. ASSUME NEW c \in Connections
      PROVE  (IF Live(c) THEN OnItsWay(c) ELSE sending[c])' =
                 IF StreamStatus(c) = "on"
                 THEN Append(IF Live(c) THEN OnItsWay(c) ELSE sending[c], published + 1)
                 ELSE IF Live(c) THEN OnItsWay(c) ELSE sending[c]
  <2>1. pending'[c] = IF phase[c] = "open" THEN Append(pending[c], published + 1)
                                           ELSE pending[c]
    BY DEF Publish, Registered
  <2>2. Live(c)' <=> Live(c)
    BY <1>1 DEF Live
  <2>3. CASE Live(c)
    <3>1. StreamStatus(c) = "on" /\ phase[c] = "open"
      BY <2>3 DEF StreamStatus, Live
    <3>2. /\ sending[c] \in Seq(Numbers) /\ queue[c] \in Seq(Numbers)
          /\ pending[c] \in Seq(Numbers) /\ published + 1 \in Numbers
      BY SizesAssumption DEF Inv, TypeOK, Numbers, Publish
    <3>3. \A s \in Seq(Numbers), n \in Numbers :
            s \o Append(pending[c], n) = Append(s \o pending[c], n)
      BY <3>2
    <3>4. sending[c] \o queue[c] \in Seq(Numbers)
      BY <3>2
    <3>5. OnItsWay(c)' = Append(OnItsWay(c), published + 1)
      BY <1>1, <2>1, <3>1, <3>2, <3>3, <3>4 DEF OnItsWay
    <3> QED
      BY <2>2, <2>3, <3>1, <3>5
  <2>4. CASE ~Live(c)
    <3>1. StreamStatus(c) # "on"
      BY <2>4 DEF StreamStatus
    <3> QED
      BY <1>1, <2>2, <2>4, <3>1
  <2> QED
    BY <2>3, <2>4
<1>4. backlog' = [c \in Connections |->
                     IF status[c] = "on" THEN Append(backlog[c], published + 1)
                                         ELSE backlog[c]]
  BY <1>3 DEF status, backlog
<1> QED
  BY <1>1, <1>2, <1>4 DEF Stream!Notify, status, backlog

\* What the invariant says of the values of a connection, in the words needed
\* below.
LEMMA Values ==
    ASSUME Inv, NEW c \in Connections
    PROVE  /\ TypeOK
           /\ pending[c] \in Seq(Numbers) /\ queue[c] \in Seq(Numbers)
           /\ sending[c] \in Seq(Numbers) /\ delivered[c] \in Seq(Numbers)
           /\ Len(sending[c]) = IF sender[c] = "sending" THEN 1 ELSE 0
           /\ phase[c] \in {"new", "accepting"} =>
                 sender[c] = "none" /\ pending[c] = <<>> /\ queue[c] = <<>>
           /\ phase[c] = "open" => sender[c] \in {"waiting", "sending", "failed"}
           /\ phase[c] = "closing" => sender[c] # "none"
BY DEF Inv, SoundAt, Sound, Shaped, Numbered

\* A connection that is not sending has nothing in its hands.
LEMMA NothingSent ==
    ASSUME Inv, NEW c \in Connections
    PROVE  /\ sender[c] # "sending" => sending[c] = <<>>
           /\ sender[c] = "sending" => sending[c] = <<Head(sending[c])>>
                                       /\ sending[c] # <<>>
                                       /\ Head(sending[c]) \in Numbers
                                       /\ Tail(sending[c]) = <<>>
BY Values

\* Connecting and registering: at most a subscription.
LEMMA ConnectSubscribes ==
    ASSUME Inv, NEW c \in Connections, Connect(c) \/ AcceptFails(c) \/ Register(c)
    PROVE  [Stream!StreamNext]_(Stream!streamVars)
<1>0. TypeOK
  BY DEF Inv
<1>1. CASE Connect(c)
  <2>1. Becomes(c, "accepting", pending[c], queue[c], sender[c], sending[c],
                delivered[c], joined[c])
    BY <1>0, <1>1, Becoming
  <2>2. /\ StatusOf("accepting", sender[c]) = status[c]
        /\ BacklogOf("accepting", pending[c], queue[c], sender[c], sending[c]) = backlog[c]
    BY <1>1, Mapped DEF Connect, StatusOf, BacklogOf
  <2> QED
    BY <1>0, <2>1, <2>2, Stutters
<1>2. CASE AcceptFails(c)
  <2>1. Becomes(c, "done", pending[c], queue[c], sender[c], sending[c],
                delivered[c], joined[c])
    BY <1>0, <1>2, Becoming
  <2>2. sender[c] = "none"
    BY <1>2, Values DEF AcceptFails
  <2>3. /\ StatusOf("done", sender[c]) = status[c]
        /\ BacklogOf("done", pending[c], queue[c], sender[c], sending[c]) = backlog[c]
    BY <1>2, <2>2, Mapped DEF AcceptFails, StatusOf, BacklogOf
  <2> QED
    BY <1>0, <2>1, <2>3, Stutters
<1>3. CASE Register(c)
  <2>1. Becomes(c, "open", pending[c], queue[c], "waiting", sending[c],
                delivered[c], published)
    BY <1>0, <1>3, Becoming
  <2>2. /\ status' = [status EXCEPT ![c] = StatusOf("open", "waiting")]
        /\ backlog' = [backlog EXCEPT ![c] =
               BacklogOf("open", pending[c], queue[c], "waiting", sending[c])]
        /\ delivered' = [delivered EXCEPT ![c] = delivered[c]]
        /\ published' = published
    BY <1>0, <2>1, StreamBecomes
  <2>3. pending[c] = <<>> /\ queue[c] = <<>> /\ sending[c] = <<>>
    BY <1>3, Values, NothingSent DEF Register
  <2>4. /\ status[c] = "new" /\ StatusOf("open", "waiting") = "on"
        /\ backlog[c] = <<>>
        /\ BacklogOf("open", pending[c], queue[c], "waiting", sending[c]) = <<>>
    BY <1>3, <2>3, Mapped DEF Register, StatusOf, BacklogOf, Row
  <2>5. backlog' = backlog
    <3>1. backlog' = [backlog EXCEPT ![c] = backlog[c]]
      BY <2>2, <2>4
    <3> QED
      BY <3>1 DEF backlog
  <2>6. delivered' = delivered
    BY <1>0, <2>2 DEF TypeOK
  <2>7. Stream!Subscribe(c)
    BY <2>2, <2>4, <2>5, <2>6 DEF Stream!Subscribe, status, backlog
  <2> QED
    BY <2>7 DEF Stream!StreamNext
<1> QED
  BY <1>1, <1>2, <1>3

\* A callback loses the oldest notification of a full queue, and only if there is
\* a newer one.
LEMMA EnqueueLoses ==
    ASSUME Inv, NEW c \in Connections, Enqueue(c)
    PROVE  [Stream!StreamNext]_(Stream!streamVars)
<1> DEFINE pe == pending[c]
           qu == queue[c]
           sg == sending[c]
           qu2 == Append(IF Len(qu) = QueueSize THEN Tail(qu) ELSE qu, Head(pe))
           after == BacklogOf(phase[c], Tail(pe), qu2, sender[c], sg)
           i == Len(sg) + 1
<1>0. /\ TypeOK /\ pe # <<>>
      /\ pe \in Seq(Numbers) /\ qu \in Seq(Numbers) /\ sg \in Seq(Numbers)
      /\ Len(qu) = QueueSize => qu # <<>>
  BY Values, SizesAssumption DEF Enqueue
<1>1. Becomes(c, phase[c], Tail(pe), qu2, sender[c], sg, delivered[c], joined[c])
  BY <1>0, Becoming
<1>2. /\ status[c] = StatusOf(phase[c], sender[c])
      /\ backlog[c] = BacklogOf(phase[c], pe, qu, sender[c], sg)
  BY Mapped
<1>3. /\ status' = [status EXCEPT ![c] = StatusOf(phase[c], sender[c])]
      /\ backlog' = [backlog EXCEPT ![c] = after]
      /\ delivered' = [delivered EXCEPT ![c] = delivered[c]]
      /\ published' = published
  BY <1>0, <1>1, StreamBecomes
<1>4. \/ after = backlog[c]
      \/ after = RemoveAt(backlog[c], i) /\ i \in 1..(Len(backlog[c]) - 1)
  <2> DEFINE h == Head(pe)
             r == Tail(pe)
             older == Tail(qu)
             oldest == Head(qu)
  <2>0. /\ Split(pe, h, r)
        /\ qu # <<>> => Split(qu, oldest, older)
        /\ qu \in Numbered /\ sg \in Numbered
    BY <1>0 DEF Split, Numbered
  <2> HIDE DEF pe, qu, sg
  <2>1. CASE ~(phase[c] = "open" /\ sender[c] # "failed")
    BY <1>2, <2>1 DEF BacklogOf
  <2>2. CASE phase[c] = "open" /\ sender[c] # "failed"
    <3>1. after = Row(sg, qu2, r) /\ backlog[c] = Row(sg, qu, pe)
      BY <1>2, <2>2 DEF BacklogOf
    <3>2. CASE Len(qu) # QueueSize
      <4>1. Extended(qu2, qu, h)
        BY <3>2 DEF Extended
      <4> HIDE DEF h, r, qu2, after
      <4>2. Row(sg, qu2, r) = Row(sg, qu, pe)
        BY <2>0, <4>1, RowKept
      <4> QED
        BY <3>1, <4>1, <4>2
    <3>3. CASE Len(qu) = QueueSize
      <4>1. Extended(qu2, older, h) /\ qu # <<>>
        BY <1>0, <3>3 DEF qu, Extended
      <4> HIDE DEF h, r, qu2, after, older, oldest
      <4>2. /\ Row(sg, qu2, r) = RemoveAt(Row(sg, qu, pe), Len(sg) + 1)
            /\ Len(sg) + 1 \in 1..(Len(Row(sg, qu, pe)) - 1)
        BY <2>0, <4>1, RowLosesOldest
      <4> QED
        BY <3>1, <4>1, <4>2
    <3> QED
      BY <3>2, <3>3
  <2> QED
    BY <2>1, <2>2
<1>5. CASE after = backlog[c]
  BY <1>0, <1>1, <1>2, <1>5, Stutters
<1>6. CASE after = RemoveAt(backlog[c], i) /\ i \in 1..(Len(backlog[c]) - 1)
  <2>1. status' = status /\ delivered' = delivered
    BY <1>0, <1>2, <1>3 DEF status, TypeOK
  <2> HIDE DEF i, after
  <2>2. i \in 1..(Len(backlog[c]) - 1) /\ backlog' = [backlog EXCEPT ![c] = RemoveAt(@, i)]
    BY <1>3, <1>6
  <2>3. RemoveAt(backlog[c], i) = Stream!RemoveAt(backlog[c], i)
    BY DEF RemoveAt, Stream!RemoveAt
  <2>4. backlog' = [backlog EXCEPT ![c] = Stream!RemoveAt(@, i)]
    BY <2>2, <2>3
  <2>5. Stream!Lose(c)
    BY <1>3, <2>1, <2>2, <2>4 DEF Stream!Lose, status, backlog
  <2> QED
    BY <2>5 DEF Stream!StreamNext
<1> QED
  BY <1>4, <1>5, <1>6

\* What the sender takes stays in the row (queue.get).
LEMMA RowTaken ==
    ASSUME NEW qu, NEW pe \in Numbered, NEW h, NEW r, Split(qu, h, r)
    PROVE  Row(<<h>>, r, pe) = Row(<<>>, qu, pe)
<1>1. <<h>> \o r = qu /\ <<>> \o qu = qu
  BY DEF Split, Numbered
<1> QED
  BY <1>1 DEF Row

\* What it is sending is the first of the row (send_json).
LEMMA RowSent ==
    ASSUME NEW x \in Numbers, NEW qu \in Numbered, NEW pe \in Numbered
    PROVE  /\ Row(<<x>>, qu, pe) # <<>>
           /\ Head(Row(<<x>>, qu, pe)) = x
           /\ Tail(Row(<<x>>, qu, pe)) = Row(<<>>, qu, pe)
           /\ SubSeq(Row(<<x>>, qu, pe), 1, 1) = <<x>>
           /\ 1 <= Len(Row(<<x>>, qu, pe))
<1> DEFINE rest == qu \o pe
<1>1. rest \in Numbered
  BY LengthOfConcat
<1>2. <<x>> \in Numbered /\ <<>> \in Numbered
  BY DEF Numbered
<1>3. Row(<<x>>, qu, pe) = <<x>> \o rest
  BY <1>2, RowInTwo
<1>4. Row(<<>>, qu, pe) = <<>> \o rest
  BY <1>2, RowInTwo
<1> HIDE DEF rest
<1>5. /\ <<x>> \o rest # <<>> /\ Head(<<x>> \o rest) = x
      /\ 1 <= Len(<<x>> \o rest)
  BY <1>1 DEF Numbered
<1>6. Tail(<<x>> \o rest) = rest
  BY <1>1 DEF Numbered
<1>7. SubSeq(<<x>> \o rest, 1, 1) = <<x>>
  <2> DEFINE row == <<x>> \o rest
  <2>1. row \in Seq(Numbers) /\ 1 <= Len(row) /\ row[1] = x
    BY <1>1 DEF Numbered
  <2> HIDE DEF row
  <2> DEFINE first == SubSeq(row, 1, 1)
  <2>2. first \in Seq(Numbers) /\ Len(first) = 1 /\ first[1] = row[1]
    BY <2>1
  <2> HIDE DEF first
  <2>3. first = <<first[1]>>
    BY <2>2
  <2> QED
    BY <2>1, <2>2, <2>3 DEF row, first
<1>8. <<>> \o rest = rest
  BY <1>1 DEF Numbered
<1> QED
  BY <1>3, <1>4, <1>5, <1>6, <1>7, <1>8

\* A notification the sender takes is still on its way.
LEMMA TakeStutters ==
    ASSUME Inv, NEW c \in Connections, Take(c)
    PROVE  UNCHANGED Stream!streamVars
<1>1. /\ TypeOK /\ phase[c] = "open" /\ sender[c] = "waiting"
      /\ sending[c] = <<>> /\ pending[c] \in Numbered
      /\ Split(queue[c], Head(queue[c]), Tail(queue[c]))
  BY Values, NothingSent DEF Take, Split, Numbered
<1>2. Becomes(c, "open", pending[c], Tail(queue[c]), "sending", <<Head(queue[c])>>,
              delivered[c], joined[c])
  BY <1>1, Becoming
<1>3. status[c] = StatusOf("open", "sending")
  BY <1>1, Mapped DEF StatusOf
<1>4. /\ backlog[c] = Row(<<>>, queue[c], pending[c])
      /\ BacklogOf("open", pending[c], Tail(queue[c]), "sending", <<Head(queue[c])>>)
            = Row(<<Head(queue[c])>>, Tail(queue[c]), pending[c])
  BY <1>1, Mapped DEF BacklogOf
<1>5. backlog[c] = BacklogOf("open", pending[c], Tail(queue[c]), "sending", <<Head(queue[c])>>)
  <2> DEFINE h == Head(queue[c])
             r == Tail(queue[c])
  <2>1. Split(queue[c], h, r)
    BY <1>1
  <2> HIDE DEF h, r
  <2>2. Row(<<h>>, r, pending[c]) = Row(<<>>, queue[c], pending[c])
    BY <1>1, <2>1, RowTaken
  <2> QED
    BY <1>4, <2>2 DEF h, r
<1> QED
  BY <1>1, <1>2, <1>3, <1>5, Stutters

\* What a send has in its hands, and what follows it.
LEMMA SentRow ==
    ASSUME Inv, NEW c \in Connections, sender[c] = "sending", phase[c] = "open"
    PROVE  /\ status[c] = "on"
           /\ backlog[c] # <<>> /\ 1 <= Len(backlog[c])
           /\ <<Head(backlog[c])>> = sending[c]
           /\ Tail(backlog[c]) = Row(<<>>, queue[c], pending[c])
           /\ SubSeq(backlog[c], 1, 1) = sending[c]
<1> DEFINE x == Head(sending[c])
<1>1. /\ sending[c] = <<x>> /\ x \in Numbers
      /\ queue[c] \in Numbered /\ pending[c] \in Numbered
  BY Values, NothingSent DEF Numbered
<1>2. status[c] = "on" /\ backlog[c] = Row(sending[c], queue[c], pending[c])
  BY Mapped DEF StatusOf, BacklogOf
<1> HIDE DEF x
<1>3. backlog[c] = Row(<<x>>, queue[c], pending[c])
  BY <1>1, <1>2
<1> QED
  BY <1>1, <1>2, <1>3, RowSent

\* A send that returns is a delivery; one that fails ends the subscription or
\* is what is given up after its end.
LEMMA SentDelivers ==
    ASSUME Inv, NEW c \in Connections, Sent(c)
    PROVE  Stream!Deliver(c)
<1> DEFINE de == delivered[c] \o sending[c]
<1>1. TypeOK /\ phase[c] = "open" /\ sender[c] = "sending"
  BY Values DEF Sent
<1>2. Becomes(c, "open", pending[c], queue[c], "waiting", <<>>, de, joined[c])
  BY <1>1, Becoming
<1>3. /\ status[c] = "on" /\ backlog[c] # <<>> /\ <<Head(backlog[c])>> = sending[c]
      /\ Tail(backlog[c]) = Row(<<>>, queue[c], pending[c])
  BY <1>1, SentRow
<1>4. /\ StatusOf("open", "waiting") = status[c]
      /\ BacklogOf("open", pending[c], queue[c], "waiting", <<>>) = Tail(backlog[c])
  BY <1>3 DEF StatusOf, BacklogOf
<1>5. Extended(de, delivered[c], Head(backlog[c]))
  <2> DEFINE x == Head(backlog[c])
  <2>1. sending[c] = <<x>> /\ delivered[c] \in Seq(Numbers) /\ sending[c] \in Seq(Numbers)
    BY <1>3, Values
  <2> HIDE DEF x
  <2>2. x \in Numbers
    BY <2>1
  <2>3. delivered[c] \o <<x>> = Append(delivered[c], x)
    BY <2>1, <2>2
  <2> QED
    BY <2>1, <2>3 DEF x, Extended
<1> HIDE DEF de
<1> QED
  BY <1>1, <1>2, <1>3, <1>4, <1>5, Delivers

LEMMA SendFailsEnds ==
    ASSUME Inv, NEW c \in Connections, SendFails(c)
    PROVE  Stream!End(c) \/ Stream!Discard(c)
<1>1. TypeOK /\ sender[c] = "sending" /\ phase[c] \in {"open", "closing"}
  <2>1. Shaped(published, phase[c], pending[c], queue[c], sender[c], sending[c],
               delivered[c], joined[c])
    BY DEF Inv, SoundAt, Sound
  <2> QED
    BY <2>1 DEF Inv, SendFails, Shaped, Phases
<1>2. Becomes(c, phase[c], pending[c], queue[c], "failed", <<>>, delivered[c], joined[c])
  BY <1>1, Becoming
<1>3. /\ StatusOf(phase[c], "failed") = "ended"
      /\ BacklogOf(phase[c], pending[c], queue[c], "failed", <<>>) = <<>>
  BY <1>1 DEF StatusOf, BacklogOf
<1>4. CASE phase[c] = "open"
  <2>1. status[c] = "on" /\ 1 <= Len(backlog[c]) /\ backlog[c] # <<>>
    BY <1>1, <1>4, SentRow
  <2>2. SubSeq(backlog[c], 1, 0) = <<>> /\ 0 <= Len(backlog[c])
    BY <2>1
  <2> QED
    BY <1>1, <1>2, <1>3, <2>1, <2>2, Ends
<1>5. CASE phase[c] = "closing"
  <2>1. status[c] = "ended" /\ backlog[c] = sending[c] /\ sending[c] # <<>>
    BY <1>1, <1>5, Mapped, NothingSent DEF StatusOf, BacklogOf
  <2> QED
    BY <1>1, <1>2, <1>3, <2>1, Discards
<1> QED
  BY <1>1, <1>4, <1>5

\* disconnect ends the subscription, if a failed send has not.
LEMMA DisconnectEnds ==
    ASSUME Inv, NEW c \in Connections, Disconnect(c)
    PROVE  Stream!End(c) \/ UNCHANGED Stream!streamVars
<1>1. /\ TypeOK /\ phase[c] = "open" /\ sender[c] \in {"waiting", "sending", "failed"}
      /\ queue[c] \in Numbered /\ pending[c] \in Numbered
  BY Values DEF Disconnect, Numbered
<1>2. Becomes(c, "closing", pending[c], queue[c], sender[c], sending[c],
              delivered[c], joined[c])
  BY <1>1, Becoming
<1>3. /\ StatusOf("closing", sender[c]) = "ended"
      /\ BacklogOf("closing", pending[c], queue[c], sender[c], sending[c]) = sending[c]
  BY <1>1 DEF StatusOf, BacklogOf
<1>4. CASE sender[c] = "failed"
  <2>1. status[c] = "ended" /\ backlog[c] = sending[c]
    BY <1>1, <1>4, Mapped DEF StatusOf, BacklogOf
  <2> QED
    BY <1>1, <1>2, <1>3, <2>1, Stutters
<1>5. CASE sender[c] = "sending"
  <2>1. /\ status[c] = "on" /\ 1 <= Len(backlog[c])
        /\ SubSeq(backlog[c], 1, 1) = sending[c]
    BY <1>1, <1>5, SentRow
  <2> QED
    BY <1>1, <1>2, <1>3, <2>1, Ends
<1>6. CASE sender[c] = "waiting"
  <2>1. status[c] = "on" /\ backlog[c] = Row(sending[c], queue[c], pending[c])
    BY <1>1, <1>6, Mapped DEF StatusOf, BacklogOf
  <2>2. sending[c] = <<>> /\ sending[c] \in Numbered
    BY <1>6, NothingSent, Values DEF Numbered
  <2>3. backlog[c] \in Seq(Numbers)
    <3>1. sending[c] \o queue[c] \in Numbered
      BY <1>1, <2>2, LengthOfConcat
    <3>2. (sending[c] \o queue[c]) \o pending[c] \in Numbered
      BY <1>1, <3>1, LengthOfConcat
    <3> QED
      BY <2>1, <3>2 DEF Row, Numbered
  <2>4. SubSeq(backlog[c], 1, 0) = sending[c] /\ 0 <= Len(backlog[c])
    BY <2>2, <2>3
  <2> QED
    BY <1>1, <1>2, <1>3, <2>1, <2>4, Ends
<1> QED
  BY <1>1, <1>4, <1>5, <1>6

\* A canceled send is a delivery or is given up; a canceled wait changes nothing.
LEMMA CanceledStops ==
    ASSUME Inv, NEW c \in Connections, SenderCanceled(c)
    PROVE  Stream!Deliver(c) \/ Stream!Discard(c) \/ UNCHANGED Stream!streamVars
<1> DEFINE de == delivered[c] \o sending[c]
<1>1. /\ TypeOK /\ phase[c] = "closing" /\ sender[c] \in {"waiting", "sending"}
      /\ delivered[c] \in Seq(Numbers)
  BY Values DEF SenderCanceled
<1>2. \/ Becomes(c, phase[c], pending[c], queue[c], "stopped", <<>>, delivered[c], joined[c])
      \/ Becomes(c, phase[c], pending[c], queue[c], "stopped", <<>>, de, joined[c])
  BY <1>1, Becoming
<1>3. /\ StatusOf(phase[c], "stopped") = "ended" /\ status[c] = "ended"
      /\ BacklogOf(phase[c], pending[c], queue[c], "stopped", <<>>) = <<>>
      /\ backlog[c] = sending[c]
  BY <1>1, Mapped DEF StatusOf, BacklogOf
<1>4. CASE sender[c] = "waiting"
  <2>1. sending[c] = <<>>
    BY <1>4, NothingSent
  <2>2. de = delivered[c]
    BY <1>1, <2>1
  <2> HIDE DEF de
  <2> QED
    BY <1>1, <1>2, <1>3, <2>1, <2>2, Stutters
<1>5. CASE sender[c] = "sending"
  <2> DEFINE x == Head(sending[c])
  <2>1. sending[c] = <<x>> /\ sending[c] # <<>> /\ x \in Numbers /\ Tail(sending[c]) = <<>>
    BY <1>5, NothingSent
  <2>2. Extended(de, delivered[c], x)
    <3> HIDE DEF x
    <3> QED
      BY <1>1, <2>1 DEF Extended
  <2> HIDE DEF de
  <2>3. Extended(de, delivered[c], Head(backlog[c]))
        /\ backlog[c] # <<>> /\ Tail(backlog[c]) = <<>>
    BY <1>3, <2>1, <2>2
  <2>4. CASE Becomes(c, phase[c], pending[c], queue[c], "stopped", <<>>, delivered[c],
                     joined[c])
    BY <1>1, <1>3, <2>3, <2>4, Discards
  <2>5. CASE Becomes(c, phase[c], pending[c], queue[c], "stopped", <<>>, de, joined[c])
    BY <1>1, <1>3, <2>3, <2>5, Delivers
  <2> QED
    BY <1>2, <2>4, <2>5
<1> QED
  BY <1>1, <1>4, <1>5

\* The end of the handler changes nothing for the client.
LEMMA HandlerEndsStutters ==
    ASSUME Inv, NEW c \in Connections, HandlerEnds(c)
    PROVE  UNCHANGED Stream!streamVars
<1>1. TypeOK /\ phase[c] = "closing" /\ sender[c] \in {"stopped", "failed"}
  BY Values DEF HandlerEnds
<1>2. Becomes(c, "done", pending[c], queue[c], sender[c], sending[c],
              delivered[c], joined[c])
  BY <1>1, Becoming
<1>3. /\ StatusOf("done", sender[c]) = status[c]
      /\ BacklogOf("done", pending[c], queue[c], sender[c], sending[c]) = backlog[c]
  BY <1>1, Mapped DEF StatusOf, BacklogOf
<1> QED
  BY <1>1, <1>2, <1>3, Stutters

\* Every step of the publisher is one of the stream, or none.
LEMMA StreamStep ==
    ASSUME Inv, Next
    PROVE  [Stream!StreamNext]_(Stream!streamVars)
<1>1. CASE Publish
  BY <1>1, PublishNotifies DEF Stream!StreamNext
<1>2. ASSUME NEW c \in Connections, Connection(c)
      PROVE  [Stream!StreamNext]_(Stream!streamVars)
  <2>1. CASE Connect(c) \/ Register(c) \/ AcceptFails(c)
    BY <2>1, ConnectSubscribes
  <2>2. CASE Enqueue(c)
    BY <2>2, EnqueueLoses
  <2>3. CASE Take(c)
    BY <2>3, TakeStutters
  <2>4. CASE Sent(c)
    BY <2>4, SentDelivers DEF Stream!StreamNext
  <2>5. CASE SendFails(c)
    BY <2>5, SendFailsEnds DEF Stream!StreamNext
  <2>6. CASE Disconnect(c)
    BY <2>6, DisconnectEnds DEF Stream!StreamNext
  <2>7. CASE SenderCanceled(c)
    BY <2>7, CanceledStops DEF Stream!StreamNext
  <2>8. CASE HandlerEnds(c)
    BY <2>8, HandlerEndsStutters
  <2> QED
    BY <1>2, <2>1, <2>2, <2>3, <2>4, <2>5, <2>6, <2>7, <2>8 DEF Connection
<1> QED
  BY <1>1, <1>2 DEF Next

\* The publisher gives every subscriber the stream it is promised: in order,
\* none twice, losing only what has a newer one behind it (publish, _enqueue,
\* _sender_loop, disconnect).
THEOREM Refinement == Spec => ImplementsStream
<1>1. Init => Stream!StreamInit
  BY DEF Init, Stream!StreamInit, StreamStatus, Live, OnItsWay
<1>2. Inv /\ [Next]_vars => [Stream!StreamNext]_(Stream!streamVars)
  <2> SUFFICES ASSUME Inv, [Next]_vars
               PROVE  [Stream!StreamNext]_(Stream!streamVars)
    OBVIOUS
  <2>1. CASE Next
    BY <2>1, StreamStep
  <2>2. CASE UNCHANGED vars
    BY <2>2 DEF vars, Stream!streamVars, StreamStatus, Live, OnItsWay
  <2> QED
    BY <2>1, <2>2
<1> QED
  BY <1>1, <1>2, Invariance, PTL DEF Spec, ImplementsStream, Stream!StreamSpec

----------------------------------------------------------------------------
(* What the stream means for a subscriber.                                 *)

\* Of a subscription that began after notification jo: what it has received, and
\* what is on its way, are newer, each newer than the one before it.
Growing(s) == \A i, j \in 1..Len(s) : i < j => s[i] < s[j]

Within(s, low, high) == \A i \in 1..Len(s) : low < s[i] /\ s[i] <= high

Follows(b, d) == \A i \in 1..Len(d), j \in 1..Len(b) : d[i] < b[j]

Promised(pub, b, d, jo) ==
    /\ pub \in Nat /\ jo \in 0..pub
    /\ b \in Seq(Nat) /\ d \in Seq(Nat)
    /\ Within(b, jo, pub) /\ Within(d, jo, pub)
    /\ Growing(b) /\ Growing(d) /\ Follows(b, d)

\* A notification that is published is the newest (Notify).
LEMMA NotifyPromised ==
    ASSUME NEW pub, NEW b, NEW d, NEW jo, Promised(pub, b, d, jo)
    PROVE  /\ Promised(pub + 1, b, d, jo)
           /\ Promised(pub + 1, Append(b, pub + 1), d, jo)
<1> DEFINE b2 == Append(b, pub + 1)
<1>0. /\ pub \in Nat /\ pub + 1 \in Nat /\ jo \in Int /\ jo \in 0..(pub + 1) /\ jo <= pub
      /\ b \in Seq(Nat) /\ d \in Seq(Nat) /\ Len(b) \in Nat
      /\ \A i \in 1..Len(b) : b[i] \in Nat
      /\ \A i \in 1..Len(d) : d[i] \in Nat
  BY DEF Promised
<1>1. Within(b, jo, pub + 1) /\ Within(d, jo, pub + 1)
  BY <1>0 DEF Promised, Within
<1>2. /\ b2 \in Seq(Nat) /\ Len(b2) = Len(b) + 1
      /\ \A i \in 1..Len(b) : b2[i] = b[i]
      /\ b2[Len(b) + 1] = pub + 1
  BY <1>0, Appended
<1> HIDE DEF b2
<1>3. \A i \in 1..Len(b2) : i \in 1..Len(b) \/ i = Len(b) + 1
  BY <1>0, <1>2
<1>4. Within(b2, jo, pub + 1)
  <2> SUFFICES ASSUME NEW i \in 1..Len(b2) PROVE jo < b2[i] /\ b2[i] <= pub + 1
    BY DEF Within
  <2>1. CASE i \in 1..Len(b)
    BY <1>1, <1>2, <2>1 DEF Within
  <2>2. CASE i = Len(b) + 1
    BY <1>0, <1>2, <2>2
  <2> QED
    BY <1>3, <2>1, <2>2
<1>5. Growing(b2)
  <2> SUFFICES ASSUME NEW i \in 1..Len(b2), NEW j \in 1..Len(b2), i < j
               PROVE  b2[i] < b2[j]
    BY DEF Growing
  <2>1. i \in 1..Len(b)
    BY <1>0, <1>2
  <2>2. CASE j \in 1..Len(b)
    BY <1>2, <2>1, <2>2 DEF Promised, Growing
  <2>3. CASE j = Len(b) + 1
    <3>1. b2[i] = b[i] /\ b2[j] = pub + 1 /\ b[i] <= pub /\ b[i] \in Nat
      BY <1>0, <1>2, <2>1, <2>3 DEF Promised, Within
    <3> QED
      BY <1>0, <3>1
  <2> QED
    BY <1>3, <2>2, <2>3
<1>6. Follows(b2, d)
  <2> SUFFICES ASSUME NEW i \in 1..Len(d), NEW j \in 1..Len(b2)
               PROVE  d[i] < b2[j]
    BY DEF Follows
  <2>1. CASE j \in 1..Len(b)
    BY <1>2, <2>1 DEF Promised, Follows
  <2>2. CASE j = Len(b) + 1
    <3>1. b2[j] = pub + 1 /\ d[i] <= pub /\ d[i] \in Nat
      BY <1>0, <1>2, <2>2 DEF Promised, Within
    <3> QED
      BY <1>0, <3>1
  <2> QED
    BY <1>3, <2>1, <2>2
<1>7. Promised(pub + 1, b, d, jo) /\ Promised(pub + 1, b2, d, jo)
  BY <1>0, <1>1, <1>2, <1>4, <1>5, <1>6 DEF Promised
<1> QED
  BY <1>7 DEF b2

\* The oldest of what is on its way is received (Deliver).
LEMMA DeliverPromised ==
    ASSUME NEW pub, NEW b, NEW d, NEW jo, Promised(pub, b, d, jo), b # <<>>
    PROVE  Promised(pub, Tail(b), Append(d, Head(b)), jo)
<1> DEFINE b2 == Tail(b)
           d2 == Append(d, Head(b))
<1>0. /\ pub \in Nat /\ jo \in 0..pub /\ b \in Seq(Nat) /\ d \in Seq(Nat)
      /\ Len(d) \in Nat
      /\ Within(b, jo, pub) /\ Within(d, jo, pub)
      /\ Growing(b) /\ Growing(d) /\ Follows(b, d)
  BY DEF Promised
<1>1. /\ b2 \in Seq(Nat) /\ Len(b2) = Len(b) - 1 /\ Len(b) \in Nat \ {0}
      /\ \A i \in 1..Len(b2) : b2[i] = b[i + 1] /\ i + 1 \in 1..Len(b)
      /\ Head(b) \in Nat /\ Head(b) = b[1] /\ 1 \in 1..Len(b)
  BY <1>0, HeadAndTail
<1>2. /\ d2 \in Seq(Nat) /\ Len(d2) = Len(d) + 1
      /\ \A i \in 1..Len(d) : d2[i] = d[i]
      /\ d2[Len(d) + 1] = b[1]
  BY <1>0, <1>1, Appended
<1> HIDE DEF b2, d2
<1>3. \A i \in 1..Len(d2) : i \in 1..Len(d) \/ i = Len(d) + 1
  BY <1>0, <1>2
<1>4. Within(b2, jo, pub) /\ Within(d2, jo, pub)
  BY <1>0, <1>1, <1>2, <1>3 DEF Within
<1>5. Growing(b2)
  <2> SUFFICES ASSUME NEW i \in 1..Len(b2), NEW j \in 1..Len(b2), i < j
               PROVE  b2[i] < b2[j]
    BY DEF Growing
  <2>1. b2[i] = b[i + 1] /\ b2[j] = b[j + 1] /\ i + 1 \in 1..Len(b) /\ j + 1 \in 1..Len(b)
        /\ i + 1 < j + 1
    BY <1>1
  <2> QED
    BY <1>0, <2>1 DEF Growing
<1>6. Growing(d2)
  <2> SUFFICES ASSUME NEW i \in 1..Len(d2), NEW j \in 1..Len(d2), i < j
               PROVE  d2[i] < d2[j]
    BY DEF Growing
  <2>1. i \in 1..Len(d)
    BY <1>0, <1>2
  <2>2. CASE j \in 1..Len(d)
    BY <1>0, <1>2, <2>1, <2>2 DEF Growing
  <2>3. CASE j = Len(d) + 1
    BY <1>0, <1>1, <1>2, <2>1, <2>3 DEF Follows
  <2> QED
    BY <1>3, <2>2, <2>3
<1>7. Follows(b2, d2)
  <2> SUFFICES ASSUME NEW i \in 1..Len(d2), NEW j \in 1..Len(b2)
               PROVE  d2[i] < b2[j]
    BY DEF Follows
  <2>1. b2[j] = b[j + 1] /\ j + 1 \in 1..Len(b) /\ 1 < j + 1
    BY <1>1
  <2>2. CASE i \in 1..Len(d)
    BY <1>0, <1>2, <2>1, <2>2 DEF Follows
  <2>3. CASE i = Len(d) + 1
    BY <1>0, <1>1, <1>2, <2>1, <2>3 DEF Growing
  <2> QED
    BY <1>3, <2>2, <2>3
<1>8. Promised(pub, b2, d2, jo)
  BY <1>0, <1>1, <1>2, <1>4, <1>5, <1>6, <1>7 DEF Promised
<1> QED
  BY <1>8 DEF b2, d2

\* What is lost leaves the others in their order (Lose, End, Discard).
LEMMA FewerPromised ==
    ASSUME NEW pub, NEW b, NEW d, NEW jo, Promised(pub, b, d, jo),
           NEW b2 \in Seq(Nat), NEW f \in [1..Len(b2) -> 1..Len(b)],
           \A i \in 1..Len(b2) : b2[i] = b[f[i]],
           \A i, j \in 1..Len(b2) : i < j => f[i] < f[j]
    PROVE  Promised(pub, b2, d, jo)
<1>1. \A i \in 1..Len(b2) : f[i] \in 1..Len(b)
  OBVIOUS
<1>2. Within(b2, jo, pub)
  BY <1>1 DEF Promised, Within
<1>3. Growing(b2)
  BY <1>1 DEF Promised, Growing
<1>4. Follows(b2, d)
  BY <1>1 DEF Promised, Follows
<1> QED
  BY <1>2, <1>3, <1>4 DEF Promised

LEMMA LosePromised ==
    ASSUME NEW pub, NEW b, NEW d, NEW jo, Promised(pub, b, d, jo),
           NEW i \in 1..(Len(b) - 1)
    PROVE  Promised(pub, RemoveAt(b, i), d, jo)
<1> DEFINE n == Len(b)
           left == SubSeq(b, 1, i - 1)
           right == SubSeq(b, i + 1, n)
           b2 == left \o right
           f == [k \in 1..Len(b2) |-> IF k < i THEN k ELSE k + 1]
<1>0. b \in Seq(Nat) /\ n \in Nat /\ i \in 1..n
  BY DEF Promised
<1>1. /\ left \in Seq(Nat) /\ Len(left) = i - 1
      /\ \A k \in 1..(i - 1) : left[k] = b[k]
  BY <1>0
<1>2. /\ right \in Seq(Nat) /\ Len(right) = n - i
      /\ \A k \in 1..(n - i) : right[k] = b[k + i]
  BY <1>0
<1> HIDE DEF left, right, n
<1>3. /\ b2 \in Seq(Nat) /\ Len(b2) = n - 1
      /\ \A k \in 1..(i - 1) : b2[k] = b[k]
      /\ \A k \in i..(n - 1) : b2[k] = b[k + 1]
  <2>0. /\ b2 \in Seq(Nat) /\ Len(b2) = Len(left) + Len(right)
        /\ \A k \in 1..Len(left) : b2[k] = left[k]
        /\ \A k \in 1..Len(right) : b2[Len(left) + k] = right[k]
    <3>1. left \in Seq(Nat) /\ right \in Seq(Nat)
      BY <1>1, <1>2
    <3>2. b2 \in Seq(Nat) /\ Len(b2) = Len(left) + Len(right)
      BY <3>1
    <3>3. \A k \in 1..Len(left) : b2[k] = left[k]
      BY <3>1
    <3>4. \A k \in 1..Len(right) : b2[Len(left) + k] = right[k]
      BY <3>1
    <3> QED
      BY <3>2, <3>3, <3>4
  <2> HIDE DEF b2
  <2>1. b2 \in Seq(Nat) /\ Len(b2) = n - 1
    BY <1>0, <1>1, <1>2, <2>0
  <2>2. ASSUME NEW k \in 1..(i - 1) PROVE b2[k] = b[k]
    BY <1>0, <1>1, <2>0
  <2>3. ASSUME NEW k \in i..(n - 1) PROVE b2[k] = b[k + 1]
    <3>1. /\ k - (i - 1) \in 1..(n - i) /\ (k - (i - 1)) + i = k + 1
          /\ (i - 1) + (k - (i - 1)) = k
      BY <1>0, <2>3
    <3>2. b2[k] = right[k - (i - 1)]
      <4> DEFINE m == k - (i - 1)
      <4>1. m \in 1..Len(right) /\ Len(left) + m = k
        BY <1>1, <1>2, <3>1
      <4> HIDE DEF m
      <4>2. b2[Len(left) + m] = right[m]
        BY <2>0, <4>1
      <4> QED
        BY <4>1, <4>2 DEF m
    <3> QED
      BY <1>2, <3>1, <3>2
  <2> QED
    BY <2>1, <2>2, <2>3
<1> HIDE DEF b2
<1>4. f \in [1..Len(b2) -> 1..n]
  BY <1>0, <1>3
<1>5. \A k \in 1..Len(b2) : b2[k] = b[f[k]]
  BY <1>0, <1>3
<1>6. \A k, l \in 1..Len(b2) : k < l => f[k] < f[l]
  OBVIOUS
<1> HIDE DEF f
<1>7. Promised(pub, b2, d, jo)
  BY <1>3, <1>4, <1>5, <1>6, FewerPromised DEF n
<1> QED
  BY <1>7 DEF RemoveAt, b2, left, right, n

LEMMA PrefixPromised ==
    ASSUME NEW pub, NEW b, NEW d, NEW jo, Promised(pub, b, d, jo),
           NEW n \in 0..Len(b)
    PROVE  Promised(pub, SubSeq(b, 1, n), d, jo)
<1> DEFINE b2 == SubSeq(b, 1, n)
           f == [k \in 1..Len(b2) |-> k]
<1>1. b \in Seq(Nat) /\ Len(b) \in Nat
  BY DEF Promised
<1>2. b2 \in Seq(Nat) /\ Len(b2) = n /\ \A k \in 1..n : b2[k] = b[k]
  BY <1>1
<1> HIDE DEF b2
<1>3. f \in [1..Len(b2) -> 1..Len(b)]
  BY <1>1, <1>2
<1>4. /\ \A k \in 1..Len(b2) : b2[k] = b[f[k]]
      /\ \A k, l \in 1..Len(b2) : k < l => f[k] < f[l]
  BY <1>2
<1> HIDE DEF f
<1>5. Promised(pub, b2, d, jo)
  BY <1>2, <1>3, <1>4, FewerPromised
<1> QED
  BY <1>5 DEF b2

\* A subscription that has not begun has received nothing.
PromiseKept ==
    \A c \in Connections :
        /\ Promised(published, backlog[c], delivered[c], joined[c])
        /\ status[c] = "new" => backlog[c] = <<>> /\ delivered[c] = <<>>

\* What a step of the stream does to one subscriber.
LEMMA StreamPromised ==
    ASSUME TypeOK, PromiseKept, [Stream!StreamNext]_(Stream!streamVars),
           NEW c \in Connections
    PROVE  /\ Promised(published', backlog'[c], delivered'[c], joined[c])
           /\ status'[c] = "new" => backlog'[c] = <<>> /\ delivered'[c] = <<>>
           /\ published \in Nat /\ published' \in Nat /\ published <= published'
<1>0. /\ Promised(published, backlog[c], delivered[c], joined[c])
      /\ status[c] = "new" => backlog[c] = <<>> /\ delivered[c] = <<>>
      /\ published \in Nat
  BY DEF PromiseKept, Promised
<1>1. CASE UNCHANGED Stream!streamVars
  <2>1. published' = published /\ backlog' = backlog /\ delivered' = delivered
        /\ status' = status
    BY <1>1 DEF Stream!streamVars, status, backlog
  <2> QED
    BY <1>0, <2>1
<1>2. CASE Stream!Notify
  <2>1. /\ published' = published + 1 /\ status' = status /\ delivered' = delivered
        /\ backlog' = [e \in Connections |->
                          IF status[e] = "on" THEN Append(backlog[e], published + 1)
                                              ELSE backlog[e]]
    BY <1>2 DEF Stream!Notify, status, backlog
  <2>2. backlog'[c] = IF status[c] = "on" THEN Append(backlog[c], published + 1)
                                          ELSE backlog[c]
    BY <2>1
  <2>3. Promised(published', backlog'[c], delivered'[c], joined[c])
    BY <1>0, <2>1, <2>2, NotifyPromised
  <2> QED
    BY <1>0, <2>1, <2>2, <2>3
<1>3. ASSUME NEW e \in Connections, Stream!Subscribe(e)
      PROVE  /\ Promised(published', backlog'[c], delivered'[c], joined[c])
             /\ status'[c] = "new" => backlog'[c] = <<>> /\ delivered'[c] = <<>>
             /\ published' = published
  <2>1. /\ published' = published /\ backlog' = backlog /\ delivered' = delivered
        /\ status' = [status EXCEPT ![e] = "on"]
    BY <1>3 DEF Stream!Subscribe, status, backlog
  <2>2. status'[c] = "new" => status[c] = "new"
    BY <2>1 DEF status
  <2> QED
    BY <1>0, <2>1, <2>2
<1>4. ASSUME NEW e \in Connections, NEW b2, NEW d2,
             published' = published, backlog' = [backlog EXCEPT ![e] = b2],
             delivered' = [delivered EXCEPT ![e] = d2],
             status'[e] # "new", \A x \in Connections : x # e => status'[x] = status[x],
             c = e => Promised(published, b2, d2, joined[c])
      PROVE  /\ Promised(published', backlog'[c], delivered'[c], joined[c])
             /\ status'[c] = "new" => backlog'[c] = <<>> /\ delivered'[c] = <<>>
             /\ published' = published
  <2>1. backlog'[c] = IF c = e THEN b2 ELSE backlog[c]
    BY <1>4 DEF backlog
  <2>2. delivered'[c] = IF c = e THEN d2 ELSE delivered[c]
    BY <1>4 DEF TypeOK
  <2> QED
    BY <1>0, <1>4, <2>1, <2>2
<1>5. ASSUME NEW e \in Connections, Stream!Deliver(e)
      PROVE  /\ Promised(published', backlog'[c], delivered'[c], joined[c])
             /\ status'[c] = "new" => backlog'[c] = <<>> /\ delivered'[c] = <<>>
             /\ published' = published
  <2>1. /\ published' = published /\ status' = status /\ backlog[e] # <<>>
        /\ backlog' = [backlog EXCEPT ![e] = Tail(backlog[e])]
        /\ delivered' = [delivered EXCEPT ![e] = Append(delivered[e], Head(backlog[e]))]
    BY <1>5 DEF Stream!Deliver, status, backlog
  <2>2. c = e => Promised(published, Tail(backlog[e]), Append(delivered[e], Head(backlog[e])),
                          joined[c])
    BY <1>0, <2>1, DeliverPromised
  <2>3. status'[e] # "new" /\ \A x \in Connections : x # e => status'[x] = status[x]
    BY <2>1 DEF PromiseKept
  <2> QED
    BY <1>4, <2>1, <2>2, <2>3
<1>6. ASSUME NEW e \in Connections, Stream!Lose(e)
      PROVE  /\ Promised(published', backlog'[c], delivered'[c], joined[c])
             /\ status'[c] = "new" => backlog'[c] = <<>> /\ delivered'[c] = <<>>
             /\ published' = published
  <2>1. PICK i \in 1..(Len(backlog[e]) - 1) :
          backlog' = [backlog EXCEPT ![e] = Stream!RemoveAt(backlog[e], i)]
    BY <1>6 DEF Stream!Lose, backlog
  <2>2. published' = published /\ status' = status /\ delivered' = delivered
    BY <1>6 DEF Stream!Lose, status, backlog
  <2>3. Stream!RemoveAt(backlog[e], i) = RemoveAt(backlog[e], i)
    BY DEF RemoveAt, Stream!RemoveAt
  <2>4. c = e => Promised(published, RemoveAt(backlog[e], i), delivered[e], joined[c])
    BY <1>0, <2>1, LosePromised
  <2>5. delivered' = [delivered EXCEPT ![e] = delivered[e]]
    BY <2>2 DEF TypeOK
  <2>6. backlog[e] # <<>>
    <3>1. Promised(published, backlog[e], delivered[e], joined[e])
      BY DEF PromiseKept
    <3>2. backlog[e] \in Seq(Nat)
      BY <3>1 DEF Promised
    <3> QED
      BY <2>1, <3>2
  <2>7. status'[e] # "new" /\ \A x \in Connections : x # e => status'[x] = status[x]
    BY <2>2, <2>6 DEF PromiseKept
  <2> QED
    BY <1>4, <2>1, <2>2, <2>3, <2>4, <2>5, <2>7
<1>7. ASSUME NEW e \in Connections, Stream!End(e)
      PROVE  /\ Promised(published', backlog'[c], delivered'[c], joined[c])
             /\ status'[c] = "new" => backlog'[c] = <<>> /\ delivered'[c] = <<>>
             /\ published' = published
  <2>1. PICK n \in {0, 1} : n <= Len(backlog[e])
                            /\ backlog' = [backlog EXCEPT ![e] = SubSeq(backlog[e], 1, n)]
    BY <1>7 DEF Stream!End, backlog
  <2>2. /\ published' = published /\ delivered' = delivered
        /\ status' = [status EXCEPT ![e] = "ended"]
    BY <1>7 DEF Stream!End, status, backlog
  <2>3. c = e => Promised(published, SubSeq(backlog[e], 1, n), delivered[e], joined[c])
    <3> SUFFICES ASSUME c = e
                 PROVE  Promised(published, SubSeq(backlog[c], 1, n), delivered[c], joined[c])
      OBVIOUS
    <3>1. backlog[c] \in Seq(Nat)
      BY <1>0 DEF Promised
    <3>2. n \in 0..Len(backlog[c])
      BY <2>1, <3>1
    <3> QED
      BY <1>0, <3>2, PrefixPromised
  <2>4. delivered' = [delivered EXCEPT ![e] = delivered[e]]
    BY <2>2 DEF TypeOK
  <2>5. status'[e] # "new" /\ \A x \in Connections : x # e => status'[x] = status[x]
    BY <2>2 DEF status
  <2> QED
    BY <1>4, <2>1, <2>2, <2>3, <2>4, <2>5
<1>8. ASSUME NEW e \in Connections, Stream!Discard(e)
      PROVE  /\ Promised(published', backlog'[c], delivered'[c], joined[c])
             /\ status'[c] = "new" => backlog'[c] = <<>> /\ delivered'[c] = <<>>
             /\ published' = published
  <2>1. /\ published' = published /\ delivered' = delivered /\ status' = status
        /\ status[e] = "ended" /\ backlog' = [backlog EXCEPT ![e] = <<>>]
    BY <1>8 DEF Stream!Discard, status, backlog
  <2>2. c = e => Promised(published, <<>>, delivered[e], joined[c])
    <3> SUFFICES ASSUME c = e
                 PROVE  Promised(published, <<>>, delivered[c], joined[c])
      OBVIOUS
    <3>1. backlog[c] \in Seq(Nat) /\ 0 \in 0..Len(backlog[c])
      BY <1>0 DEF Promised
    <3>2. Promised(published, SubSeq(backlog[c], 1, 0), delivered[c], joined[c])
      BY <1>0, <3>1, PrefixPromised
    <3>3. SubSeq(backlog[c], 1, 0) = <<>>
      BY <3>1
    <3> QED
      BY <3>2, <3>3
  <2>3. delivered' = [delivered EXCEPT ![e] = delivered[e]]
    BY <2>1 DEF TypeOK
  <2> QED
    BY <1>4, <2>1, <2>2, <2>3
<1> QED
  BY <1>0, <1>1, <1>2, <1>3, <1>5, <1>6, <1>7, <1>8 DEF Stream!StreamNext

\* What the publisher does with the number a subscription began after.
LEMMA JoinedStep ==
    ASSUME Inv, [Next]_vars, NEW c \in Connections
    PROVE  \/ joined'[c] = joined[c]
           \/ /\ joined'[c] = published' /\ published' = published
              /\ status[c] = "new" /\ delivered' = delivered /\ backlog'[c] = <<>>
<1>1. CASE \E e \in Connections : Register(e)
  <2>1. PICK e \in Connections : Register(e)
    BY <1>1
  <2>2. joined' = [joined EXCEPT ![e] = published] /\ published' = published
        /\ delivered' = delivered /\ queue' = queue /\ pending' = pending /\ sending' = sending
    BY <2>1 DEF Register
  <2>3. CASE c # e
    BY <2>2, <2>3 DEF Inv, TypeOK
  <2>4. CASE c = e
    <3>1. joined'[c] = published
      BY <2>2, <2>4 DEF Inv, TypeOK
    <3>2. status[c] = "new"
      BY <2>1, <2>4 DEF Register, status, StreamStatus
    <3>3. pending[c] = <<>> /\ queue[c] = <<>> /\ sending[c] = <<>>
      BY <2>1, <2>4, Values, NothingSent DEF Register
    <3>4. backlog'[c] = <<>>
      BY <2>2, <3>3 DEF backlog, OnItsWay
    <3> QED
      BY <2>2, <3>1, <3>2, <3>4
  <2> QED
    BY <2>3, <2>4
<1>2. CASE ~\E e \in Connections : Register(e)
  <2>1. joined' = joined
    BY <1>2 DEF Next, Connection, vars, Publish, Connect, AcceptFails, Enqueue, Take, Sent,
       SendFails, Disconnect, SenderCanceled, HandlerEnds
  <2> QED
    BY <2>1
<1> QED
  BY <1>1, <1>2

LEMMA PromiseStep ==
    ASSUME Inv, PromiseKept, [Next]_vars, [Stream!StreamNext]_(Stream!streamVars)
    PROVE  PromiseKept'
<1> SUFFICES ASSUME NEW c \in Connections
             PROVE  /\ Promised(published, backlog[c], delivered[c], joined[c])'
                    /\ status'[c] = "new" => backlog'[c] = <<>> /\ delivered'[c] = <<>>
  BY DEF PromiseKept
<1>1. /\ Promised(published', backlog'[c], delivered'[c], joined[c])
      /\ status'[c] = "new" => backlog'[c] = <<>> /\ delivered'[c] = <<>>
      /\ published' \in Nat
  BY StreamPromised DEF Inv
<1>2. CASE joined'[c] = joined[c]
  BY <1>1, <1>2 DEF Promised, Within, Growing, Follows
<1>3. CASE /\ joined'[c] = published' /\ published' = published
           /\ status[c] = "new" /\ delivered' = delivered /\ backlog'[c] = <<>>
  <2>1. delivered'[c] = <<>> /\ backlog'[c] = <<>>
    BY <1>3 DEF PromiseKept
  <2>2. Promised(published', <<>>, <<>>, published')
    BY <1>1 DEF Promised, Within, Growing, Follows
  <2>3. Promised(published', backlog'[c], delivered'[c], joined'[c])
    BY <1>3, <2>1, <2>2
  <2> QED
    BY <1>1, <2>3 DEF Promised, Within, Growing, Follows
<1> QED
  BY <1>1, <1>2, <1>3, JoinedStep

\* No notification reaches a client twice or after a newer one, none from before
\* its registration or never published; and what it is still to be sent is newer
\* than what it has.
DeliveredInOrder ==
    \A c \in Connections :
        /\ Growing(delivered[c])
        /\ Within(delivered[c], joined[c], published)
        /\ Live(c) => Growing(OnItsWay(c)) /\ Follows(OnItsWay(c), delivered[c])

\* So it is for any number of clients, any size of the queues, and whenever
\* connections come, fail and go; for it is what the stream promises that the
\* publisher implements (publish, _enqueue, _sender_loop, disconnect).
THEOREM ReceivedInOrder == Spec => []DeliveredInOrder
<1>1. Init => PromiseKept
  <2> SUFFICES ASSUME Init, NEW c \in Connections
               PROVE  /\ Promised(published, backlog[c], delivered[c], joined[c])
                      /\ backlog[c] = <<>> /\ delivered[c] = <<>>
    BY DEF PromiseKept
  <2>1. /\ published = 0 /\ joined[c] = 0 /\ delivered[c] = <<>>
        /\ queue[c] = <<>> /\ pending[c] = <<>> /\ sending[c] = <<>>
    BY DEF Init
  <2>2. backlog[c] = <<>>
    BY <2>1 DEF backlog, OnItsWay
  <2>3. Promised(0, <<>>, <<>>, 0)
    BY DEF Promised, Within, Growing, Follows
  <2> QED
    BY <2>1, <2>2, <2>3
<1>2. Inv /\ PromiseKept /\ [Next]_vars /\ [Stream!StreamNext]_(Stream!streamVars) => PromiseKept'
  BY PromiseStep
<1>3. PromiseKept => DeliveredInOrder
  BY DEF PromiseKept, DeliveredInOrder, Promised, backlog
<1> QED
  BY <1>1, <1>2, <1>3, Invariance, Refinement, PTL
     DEF Spec, ImplementsStream, Stream!StreamSpec

============================================================================

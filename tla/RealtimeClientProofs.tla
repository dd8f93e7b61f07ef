------------------------ MODULE RealtimeClientProofs ------------------------
(***************************************************************************)
(* Proofs about RealtimeClient, for any number of connections and events,  *)
(* any history and any size of the queues: a browser that loads once it is *)
(* registered and follows the notifications shows what is stored, or will. *)
(*                                                                         *)
(* What the publisher still has for a live connection is a matter of       *)
(* numbers: all after the front, and the one being sent.  A first part     *)
(* says what each step of the publisher does to them, a second what that   *)
(* makes of a state the browser holds.                                     *)
(***************************************************************************)
EXTENDS RealtimeClient, WebSocketPublisherProofs

\* The last notification that is neither in the queue nor in a callback.
Foremost(c) == published - Len(pending[c]) - Len(queue[c])

\* What is at most at the front and newer than what is being sent was dropped,
\* and QueueSize newer ones had come by then.
Tracks(c) ==
    /\ joined[c] <= Foremost(c)
    /\ \A s \in Numbers : sending[c] = <<s>> =>
          /\ joined[c] < s /\ s <= Foremost(c)
          /\ \A m \in Numbers : s < m /\ m <= Foremost(c) => m + QueueSize <= published

\* What a step can do to a connection that is live before and after it.
Same(c) ==
    /\ published' = published /\ Foremost(c)' = Foremost(c)
    /\ sending'[c] = sending[c] /\ joined'[c] = joined[c]

Grows(c) ==
    /\ published' = published + 1 /\ Foremost(c)' = Foremost(c)
    /\ sending'[c] = sending[c] /\ joined'[c] = joined[c]

Drops(c) ==
    /\ published' = published /\ Foremost(c)' = Foremost(c) + 1
    /\ Foremost(c) + 1 + QueueSize <= published
    /\ sending'[c] = sending[c] /\ joined'[c] = joined[c]

Takes(c) ==
    /\ published' = published /\ Foremost(c)' = Foremost(c) + 1
    /\ Foremost(c) + 1 \in Numbers
    /\ sending[c] = <<>> /\ sending'[c] = <<Foremost(c) + 1>>
    /\ joined'[c] = joined[c]

Sends(c) ==
    /\ published' = published /\ Foremost(c)' = Foremost(c)
    /\ sending'[c] = <<>> /\ joined'[c] = joined[c]

----------------------------------------------------------------------------
(* The steps of the publisher.                                             *)

\* The arithmetic of the front.
LEMMA FrontOf ==
    ASSUME NEW n \in Nat, NEW p \in Nat, NEW q \in Nat
    PROVE  /\ n - p - q \in Int /\ n - p - q <= n
           /\ q > 0 => n - p - (q - 1) = (n - p - q) + 1
           /\ p > 0 => /\ n - (p - 1) - q = (n - p - q) + 1
                       /\ n - (p - 1) - (q + 1) = n - p - q
                       /\ (n - p - q) + 1 + q <= n
OBVIOUS

\* The types of what a live connection has.
LEMMA LiveTypes ==
    ASSUME Inv, NEW c \in Connections, Live(c)
    PROVE  /\ published \in Nat /\ published <= MaxMessages /\ joined[c] \in Nat
           /\ QueueSize \in Nat \ {0} /\ MaxMessages \in Nat
           /\ pending[c] \in Numbered /\ queue[c] \in Numbered /\ sending[c] \in Numbered
           /\ Len(pending[c]) \in Nat /\ Len(queue[c]) \in Nat
           /\ Foremost(c) \in Int /\ Foremost(c) <= published
           /\ sending[c] = <<>> \/ \E s \in Numbers : sending[c] = <<s>>
           /\ Consecutive(published, pending[c], queue[c])
<1>1. /\ Shaped(published, phase[c], pending[c], queue[c], sender[c], sending[c],
                delivered[c], joined[c])
      /\ Consecutive(published, pending[c], queue[c])
  BY DEF Inv, SoundAt, Sound, Live
<1>2. /\ published \in Nat /\ published <= MaxMessages /\ joined[c] \in Nat
      /\ QueueSize \in Nat \ {0} /\ MaxMessages \in Nat
      /\ pending[c] \in Numbered /\ queue[c] \in Numbered /\ sending[c] \in Numbered
      /\ Len(sending[c]) \in {0, 1}
  BY <1>1, SizesAssumption DEF Shaped
<1>3. Len(pending[c]) \in Nat /\ Len(queue[c]) \in Nat
  BY <1>2 DEF Numbered
<1>4. Foremost(c) \in Int /\ Foremost(c) <= published
  BY <1>2, <1>3, FrontOf DEF Foremost
<1>5. sending[c] = <<>> \/ \E s \in Numbers : sending[c] = <<s>>
  <2>1. CASE Len(sending[c]) = 0
    BY <1>2, <2>1 DEF Numbered
  <2>2. CASE Len(sending[c]) = 1
    <3>1. sending[c][1] \in Numbers /\ sending[c] = <<sending[c][1]>>
      BY <1>2, <2>2 DEF Numbered
    <3> QED
      BY <3>1
  <2> QED
    BY <1>2, <2>1, <2>2
<1> QED
  BY <1>1, <1>2, <1>3, <1>4, <1>5

\* The length of a tail, and of what Enqueue makes of a queue.
LEMMA Lengths ==
    ASSUME NEW q \in Numbered, NEW p \in Numbered, p # <<>>
    PROVE  /\ Len(Tail(p)) = Len(p) - 1 /\ Len(p) \in Nat \ {0}
           /\ Len(q) = QueueSize =>
                Len(Append(Tail(q), Head(p))) = QueueSize
           /\ Len(Append(q, Head(p))) = Len(q) + 1
<1>1. Len(Tail(p)) = Len(p) - 1 /\ Head(p) \in Numbers /\ Len(p) \in Nat \ {0}
  BY HeadAndTail DEF Numbered
<1>2. Len(Append(q, Head(p))) = Len(q) + 1
  BY <1>1, Appended DEF Numbered
<1>3. ASSUME Len(q) = QueueSize
      PROVE  Len(Append(Tail(q), Head(p))) = QueueSize
  <2>1. q # <<>>
    BY <1>3, SizesAssumption
  <2>2. Tail(q) \in Numbered /\ Len(Tail(q)) = QueueSize - 1
    BY <1>3, <2>1, HeadAndTail DEF Numbered
  <2>3. Len(Append(Tail(q), Head(p))) = Len(Tail(q)) + 1
    BY <1>1, <2>2, Appended DEF Numbered
  <2> QED
    BY <2>2, <2>3, SizesAssumption
<1> QED
  BY <1>1, <1>2, <1>3

\* publish.
LEMMA PublishGrows ==
    ASSUME Inv, NEW c \in Connections, Live(c), Publish
    PROVE  Grows(c)
<1>1. /\ published \in Nat /\ published + 1 \in Numbers
      /\ pending[c] \in Numbered /\ Len(pending[c]) \in Nat /\ Len(queue[c]) \in Nat
  BY LiveTypes DEF Publish, Numbers
<1>2. pending'[c] = Append(pending[c], published + 1)
  BY DEF Publish, Registered, Live
<1>3. Len(pending'[c]) = Len(pending[c]) + 1
  BY <1>1, <1>2, Appended DEF Numbered
<1>4. /\ published' = published + 1 /\ queue' = queue
      /\ sending' = sending /\ joined' = joined
  BY DEF Publish
<1> QED
  BY <1>1, <1>3, <1>4 DEF Grows, Foremost

\* _enqueue.
LEMMA EnqueueMoves ==
    ASSUME Inv, NEW c \in Connections, Live(c), Enqueue(c)
    PROVE  Same(c) \/ Drops(c)
<1>1. /\ published \in Nat /\ QueueSize \in Nat
      /\ pending[c] \in Numbered /\ queue[c] \in Numbered
      /\ Len(pending[c]) \in Nat /\ Len(queue[c]) \in Nat
  BY LiveTypes
<1>2. pending[c] # <<>>
  BY DEF Enqueue
<1>3. /\ pending'[c] = Tail(pending[c])
      /\ queue'[c] = Append(IF Len(queue[c]) = QueueSize THEN Tail(queue[c]) ELSE queue[c],
                            Head(pending[c]))
      /\ published' = published /\ sending' = sending /\ joined' = joined
  BY DEF Enqueue, Inv, TypeOK
<1>4. PICK n \in Nat, p \in Nat, q \in Nat :
          n = published /\ p = Len(pending[c]) /\ q = Len(queue[c])
  BY <1>1
<1>5. Foremost(c) = n - p - q /\ Foremost(c)' = n - Len(pending'[c]) - Len(queue'[c])
  BY <1>3, <1>4 DEF Foremost
<1>6. CASE Len(queue[c]) = QueueSize
  <2>1. /\ Len(pending'[c]) = Len(pending[c]) - 1 /\ Len(pending[c]) > 0
        /\ Len(queue'[c]) = QueueSize
    BY <1>1, <1>2, <1>3, <1>6, Lengths
  <2> QED
    <3>1. Foremost(c)' = n - (p - 1) - q /\ p > 0 /\ q = QueueSize
      BY <1>4, <1>5, <1>6, <2>1
    <3>2. (n - p - q) + 1 + q <= n /\ n - (p - 1) - q = (n - p - q) + 1
      BY <3>1, FrontOf
    <3>3. Foremost(c)' = Foremost(c) + 1
      BY <1>5, <3>1, <3>2
    <3>4. Foremost(c) + 1 + QueueSize <= published
      BY <1>4, <1>5, <3>1, <3>2
    <3> QED
      BY <1>3, <3>3, <3>4 DEF Drops
<1>7. CASE Len(queue[c]) # QueueSize
  <2>1. /\ Len(pending'[c]) = Len(pending[c]) - 1
        /\ Len(queue'[c]) = Len(queue[c]) + 1
    BY <1>1, <1>2, <1>3, <1>7, Lengths
  <2>2. Len(pending[c]) > 0
    BY <1>1, <1>2, Lengths
  <2> QED
    <3>1. Foremost(c)' = n - (p - 1) - (q + 1) /\ p > 0
      BY <1>4, <1>5, <2>1, <2>2
    <3>2. Foremost(c)' = Foremost(c)
      BY <1>5, <3>1, FrontOf
    <3> QED
      BY <1>3, <3>2 DEF Same
<1> QED
  BY <1>6, <1>7

\* The sender's queue.get.
LEMMA TakeTakes ==
    ASSUME Inv, NEW c \in Connections, Live(c), Take(c)
    PROVE  Takes(c)
<1>1. /\ published \in Nat
      /\ pending[c] \in Numbered /\ queue[c] \in Numbered /\ sending[c] \in Numbered
      /\ Len(pending[c]) \in Nat /\ Len(queue[c]) \in Nat
      /\ Consecutive(published, pending[c], queue[c])
  BY LiveTypes
<1>2. queue[c] # <<>> /\ sender[c] = "waiting"
  BY DEF Take
<1>3. /\ queue'[c] = Tail(queue[c]) /\ sending'[c] = <<Head(queue[c])>>
      /\ published' = published /\ pending' = pending /\ joined' = joined
  BY DEF Take, Inv, TypeOK
<1>4. /\ Len(queue[c]) \in Nat \ {0} /\ Len(queue'[c]) = Len(queue[c]) - 1
      /\ Head(queue[c]) = queue[c][1] /\ Head(queue[c]) \in Numbers
  BY <1>1, <1>2, <1>3, HeadAndTail DEF Numbered
<1>5. queue[c][1] = published - Len(pending[c]) - Len(queue[c]) + 1
  <2>1. 1 \in 1..Len(queue[c])
    BY <1>4
  <2>2. \A i \in 1..Len(queue[c]) : queue[c][i] = published - Len(pending[c]) - Len(queue[c]) + i
    BY <1>1 DEF Consecutive
  <2> QED
    BY <2>1, <2>2
<1>6. Head(queue[c]) = Foremost(c) + 1
  BY <1>4, <1>5 DEF Foremost
<1>7. Foremost(c)' = Foremost(c) + 1
  <2>1. PICK n \in Nat, p \in Nat, q \in Nat :
            n = published /\ p = Len(pending[c]) /\ q = Len(queue[c])
    BY <1>1
  <2>2. Foremost(c) = n - p - q /\ q > 0
    BY <1>4, <2>1 DEF Foremost
  <2>3. Foremost(c)' = published' - Len(pending'[c]) - Len(queue'[c])
    BY DEF Foremost
  <2>4. Foremost(c)' = n - p - (q - 1)
    BY <1>3, <1>4, <2>1, <2>3
  <2> QED
    BY <2>2, <2>4, FrontOf
<1>8. sending[c] = <<>>
  <2>1. Len(sending[c]) = 0
    BY <1>2 DEF Inv, TypeOK
  <2> QED
    BY <1>1, <2>1 DEF Numbered
<1> QED
  BY <1>3, <1>4, <1>6, <1>7, <1>8 DEF Takes

\* send_json returns.
LEMMA SentSends ==
    ASSUME Inv, NEW c \in Connections, Live(c), Sent(c)
    PROVE  Sends(c) /\ \E s \in Numbers : sending[c] = <<s>>
<1>1. Sends(c)
  BY DEF Sent, Sends, Foremost, Inv, TypeOK
<1>2. Len(sending[c]) = 1
  BY DEF Sent, Inv, TypeOK
<1>3. sending[c] # <<>>
  BY <1>2
<1> QED
  BY <1>1, <1>3, LiveTypes

\* A step of another connection.
LEMMA OthersSame ==
    ASSUME Inv, NEW c \in Connections, NEW d \in Connections, d # c, Connection(d)
    PROVE  Same(c) /\ phase'[c] = phase[c] /\ sender'[c] = sender[c]
<1>1. /\ phase'[c] = phase[c] /\ pending'[c] = pending[c] /\ queue'[c] = queue[c]
      /\ sender'[c] = sender[c] /\ sending'[c] = sending[c] /\ joined'[c] = joined[c]
      /\ published' = published
  BY DEF Inv, TypeOK, Connection, Connect, Register, AcceptFails, Enqueue, Take, Sent,
         SendFails, Disconnect, SenderCanceled, HandlerEnds
<1> QED
  BY <1>1 DEF Same, Foremost

----------------------------------------------------------------------------
(* What the browser holds, against what the publisher still has.           *)

\* v is the last state n of an event, or n will come, or was overrun.
Current(c, n, v) ==
    \/ v = n
    \/ n > Foremost(c)
    \/ sending[c] = <<n>>
    \/ n > joined[c] /\ n + QueueSize <= published

\* While the stream goes on; s is what has just been sent.
LEMMA TracksStep ==
    ASSUME Inv, NEW c \in Connections, Live(c), Tracks(c),
           Same(c) \/ Grows(c) \/ Drops(c) \/ Takes(c) \/ Sends(c)
    PROVE  Tracks(c)'
<1>1. /\ published \in Nat /\ joined[c] \in Nat /\ Foremost(c) \in Int
      /\ QueueSize \in Nat /\ \A m \in Numbers : m \in Int
  BY LiveTypes DEF Numbers
<1>2. CASE Same(c)
  BY <1>2 DEF Same, Tracks
<1>3. CASE Grows(c)
  BY <1>1, <1>3 DEF Grows, Tracks
<1>4. CASE Drops(c)
  <2>1. ASSUME NEW s \in Numbers, sending'[c] = <<s>>
        PROVE  /\ joined[c] < s /\ s <= Foremost(c) + 1
               /\ \A m \in Numbers : s < m /\ m <= Foremost(c) + 1 => m + QueueSize <= published
    <3>1. /\ joined[c] < s /\ s <= Foremost(c)
          /\ \A m \in Numbers : s < m /\ m <= Foremost(c) => m + QueueSize <= published
      BY <1>4, <2>1 DEF Drops, Tracks
    <3>2. Foremost(c) + 1 + QueueSize <= published
      BY <1>4 DEF Drops
    <3>3. \A m \in Numbers : m <= Foremost(c) + 1 => m <= Foremost(c) \/ m = Foremost(c) + 1
      BY <1>1
    <3> QED
      BY <1>1, <3>1, <3>2, <3>3
  <2> QED
    BY <1>1, <1>4, <2>1 DEF Drops, Tracks
<1>5. CASE Takes(c)
  <2>1. ASSUME NEW s \in Numbers, sending'[c] = <<s>>
        PROVE  s = Foremost(c) + 1
    BY <1>5, <2>1 DEF Takes
  <2>2. joined[c] <= Foremost(c)
    BY DEF Tracks
  <2> QED
    BY <1>1, <1>5, <2>1, <2>2 DEF Takes, Tracks
<1>6. CASE Sends(c)
  BY <1>6 DEF Sends, Tracks
<1> QED
  BY <1>2, <1>3, <1>4, <1>5, <1>6

\* A connection that has just been registered.
LEMMA TracksNew ==
    ASSUME Inv, NEW c \in Connections, Register(c)
    PROVE  Tracks(c)'
<1>1. Shaped(published, phase[c], pending[c], queue[c], sender[c], sending[c],
             delivered[c], joined[c])
  BY DEF Inv, SoundAt, Sound
<1>2. /\ pending[c] = <<>> /\ queue[c] = <<>> /\ sending[c] = <<>>
      /\ published \in Nat
  BY <1>1, SizesAssumption DEF Register, Shaped, Numbered
<1>3. /\ pending'[c] = <<>> /\ queue'[c] = <<>> /\ sending'[c] = <<>>
      /\ joined'[c] = published /\ published' = published
  BY <1>2 DEF Register, Inv, TypeOK
<1>4. Foremost(c)' = published
  <2>1. Len(<<>>) = 0
    OBVIOUS
  <2> QED
    BY <1>2, <1>3, <2>1 DEF Foremost
<1> QED
  BY <1>2, <1>3, <1>4 DEF Tracks

\* A state that is current stays so while the event does not change and no
\* notification about it is received.
LEMMA CurrentStays ==
    ASSUME Inv, NEW c \in Connections, Live(c), Tracks(c),
           NEW n \in 0..MaxMessages, NEW v, Current(c, n, v),
           \/ Same(c) \/ Grows(c) \/ Drops(c) \/ Takes(c)
           \/ Sends(c) /\ sending[c] # <<n>>
    PROVE  Current(c, n, v)'
<1>1. /\ published \in Nat /\ joined[c] \in Nat /\ Foremost(c) \in Int
      /\ QueueSize \in Nat /\ n \in Int
  BY LiveTypes
<1>2. joined[c] <= Foremost(c)
  BY DEF Tracks
<1>3. CASE Same(c)
  BY <1>3 DEF Same, Current
<1>4. CASE Grows(c)
  BY <1>1, <1>4 DEF Grows, Current
<1>5. CASE Drops(c)
  <2>1. n > Foremost(c) => n > Foremost(c) + 1 \/ n = Foremost(c) + 1
    BY <1>1
  <2>2. ASSUME n = Foremost(c) + 1
        PROVE  n > joined[c] /\ n + QueueSize <= published
    BY <1>1, <1>2, <1>5, <2>2 DEF Drops
  <2> QED
    BY <1>1, <1>5, <2>1, <2>2 DEF Drops, Current
<1>6. CASE Takes(c)
  <2>1. n > Foremost(c) => n > Foremost(c) + 1 \/ n = Foremost(c) + 1
    BY <1>1
  <2>2. n = Foremost(c) + 1 => sending'[c] = <<n>>
    BY <1>6 DEF Takes
  <2>3. sending[c] # <<n>>
    BY <1>6 DEF Takes
  <2> QED
    BY <1>6, <2>1, <2>2, <2>3 DEF Takes, Current
<1>7. CASE Sends(c) /\ sending[c] # <<n>>
  BY <1>7 DEF Sends, Current
<1> QED
  BY <1>3, <1>4, <1>5, <1>6, <1>7

\* A notification s is received: it is the last about its event, or that one
\* is to come, or was overrun.
LEMMA CurrentReceived ==
    ASSUME Inv, NEW c \in Connections, Live(c), Tracks(c), Sends(c),
           NEW s \in Numbers, sending[c] = <<s>>,
           NEW n \in 0..MaxMessages, s <= n
    PROVE  Current(c, n, s)'
<1>1. /\ published \in Nat /\ joined[c] \in Nat /\ Foremost(c) \in Int
      /\ QueueSize \in Nat /\ n \in Int /\ s \in Int
  BY LiveTypes DEF Numbers
<1>2. /\ joined[c] < s
      /\ \A m \in Numbers : s < m /\ m <= Foremost(c) => m + QueueSize <= published
  BY DEF Tracks
<1>3. CASE s = n
  BY <1>3 DEF Current
<1>4. CASE n > Foremost(c)
  BY <1>4 DEF Sends, Current
<1>5. CASE s # n /\ ~(n > Foremost(c))
  <2>1. n \in Numbers /\ s < n /\ n <= Foremost(c) /\ n > joined[c]
    BY <1>1, <1>2, <1>5 DEF Numbers
  <2> QED
    BY <1>2, <2>1 DEF Sends, Current
<1> QED
  BY <1>3, <1>4, <1>5

----------------------------------------------------------------------------
(* The steps as seen from one connection.                                  *)

\* The steps of a connection that neither open it nor tell its client.
Quiet(d) ==
    \/ Register(d) \/ AcceptFails(d) \/ Enqueue(d) \/ Take(d) \/ SendFails(d)
    \/ Disconnect(d) \/ SenderCanceled(d) \/ HandlerEnds(d)

LEMMA QuietSteps ==
    ASSUME Inv, NEW c \in Connections, NEW d \in Connections, Quiet(d),
           Live(c), Live(c)'
    PROVE  Same(c) \/ Drops(c) \/ Takes(c)
<1>1. CASE c # d
  BY <1>1, OthersSame DEF Quiet, Connection
<1>2. CASE c = d
  <2>1. phase \in [Connections -> Phases] /\ sender \in [Connections -> SenderStates]
    BY DEF Inv, TypeOK
  <2>2. Enqueue(c) \/ Take(c)
    BY <1>2, <2>1 DEF Quiet, Live, Register, AcceptFails, SendFails, Disconnect,
       SenderCanceled, HandlerEnds
  <2> QED
    BY <2>2, EnqueueMoves, TakeTakes
<1> QED
  BY <1>1, <1>2

\* Only the rest of connect makes a connection live.
LEMMA OnlyRegister ==
    ASSUME Inv, NEW c \in Connections, ~Live(c), Live(c)', [Next]_vars
    PROVE  Register(c)
<1>0. phase \in [Connections -> Phases] /\ sender \in [Connections -> SenderStates]
  BY DEF Inv, TypeOK
<1>1. CASE Publish \/ UNCHANGED vars
  BY <1>1 DEF Publish, vars, Live
<1>2. ASSUME NEW d \in Connections, Connection(d), d # c
      PROVE  FALSE
  BY <1>2, OthersSame DEF Live
<1>3. ASSUME Connection(c), ~Register(c)
      PROVE  FALSE
  BY <1>0, <1>3 DEF Live, Connection, Connect, AcceptFails, Enqueue, Take, Sent, SendFails,
     Disconnect, SenderCanceled, HandlerEnds
<1> QED
  BY <1>1, <1>2, <1>3 DEF Next

LEMMA TracksInv ==
    ASSUME Inv, \A c \in Connections : Live(c) => Tracks(c), [Next]_vars
    PROVE  \A c \in Connections : Live(c)' => Tracks(c)'
<1> SUFFICES ASSUME NEW c \in Connections, Live(c)'
             PROVE  Tracks(c)'
  OBVIOUS
<1>1. CASE ~Live(c)
  BY <1>1, OnlyRegister, TracksNew
<1>2. CASE Live(c)
  <2>1. CASE Publish
    BY <1>2, <2>1, PublishGrows, TracksStep
  <2>2. CASE UNCHANGED vars
    BY <1>2, <2>2, TracksStep DEF vars, Same, Foremost
  <2>3. ASSUME NEW d \in Connections, Quiet(d)
        PROVE  Tracks(c)'
    BY <1>2, <2>3, QuietSteps, TracksStep
  <2>4. ASSUME NEW d \in Connections, d # c, Connect(d) \/ Sent(d)
        PROVE  Tracks(c)'
    <3>1. Same(c)
      BY <2>4, OthersSame DEF Connection
    <3> QED
      BY <1>2, <3>1, TracksStep
  <2>5. ~Connect(c)
    BY <1>2 DEF Connect, Live
  <2>6. CASE Sent(c)
    BY <1>2, <2>6, SentSends, TracksStep
  <2> QED
    BY <2>1, <2>2, <2>3, <2>4, <2>5, <2>6 DEF Next, Connection, Quiet
<1> QED
  BY <1>1, <1>2

----------------------------------------------------------------------------
(* The rows.                                                               *)

\* Newest is the last change of an event, 0 if there was none.
NewestOK(e) ==
    /\ Newest(e) \in 0..published
    /\ Newest(e) # 0 => about[Newest(e)] = e
    /\ \A m \in 1..published : about[m] = e => m <= Newest(e)

LEMMA NewestInit == ASSUME Init, NEW e \in Events PROVE NewestOK(e)
<1>1. published = 0 /\ 1..published = {}
  BY DEF Init
<1>2. Newest(e) = 0
  BY <1>1 DEF Newest
<1> QED
  BY <1>1, <1>2 DEF NewestOK

\* A change is the newest state of its event, and of no other.
LEMMA NewestMoves ==
    ASSUME NEW e \in Events, NewestOK(e), published \in Nat,
           published' = published + 1, about' = about
    PROVE  /\ NewestOK(e)'
           /\ Newest(e)' = IF about[published + 1] = e THEN published + 1 ELSE Newest(e)
<1> DEFINE C == {n \in 1..published : about[n] = e}
           D == {n \in 1..(published + 1) : about[n] = e}
<1>1. Newest(e)' = IF D = {} THEN 0 ELSE CHOOSE n \in D : \A m \in D : m <= n
  BY DEF Newest
<1>2. Newest(e) = IF C = {} THEN 0 ELSE CHOOSE n \in C : \A m \in C : m <= n
  BY DEF Newest
<1>3. CASE about[published + 1] = e
  <2>1. published + 1 \in D /\ \A m \in D : m <= published + 1 /\ m \in Nat
    BY <1>3
  <2> HIDE DEF D
  <2>2. D # {}
    BY <2>1
  <2>3. \A n \in D : (\A m \in D : m <= n) => n = published + 1
    BY <2>1
  <2>4. (CHOOSE n \in D : \A m \in D : m <= n) = published + 1
    BY <2>1, <2>3
  <2>5. Newest(e)' = published + 1
    BY <1>1, <2>2, <2>4
  <2> QED
    BY <1>3, <2>5 DEF NewestOK
<1>4. CASE about[published + 1] # e
  <2>1. C = D
    BY <1>4
  <2>2. Newest(e)' = Newest(e)
    BY <1>1, <1>2, <2>1
  <2>3. \A m \in 1..(published + 1) : m \in 1..published \/ m = published + 1
    OBVIOUS
  <2> QED
    BY <1>4, <2>2, <2>3 DEF NewestOK
<1> QED
  BY <1>3, <1>4

\* Nothing else touches the rows.
LEMMA NewestStays ==
    ASSUME UNCHANGED <<published, about>>, NEW e \in Events
    PROVE  Newest(e)' = Newest(e) /\ (NewestOK(e) => NewestOK(e)')
<1>1. Newest(e)' = Newest(e)
  BY DEF Newest
<1> QED
  BY <1>1 DEF NewestOK

----------------------------------------------------------------------------
(* The browser.                                                            *)

\* The events it has a state of that it shows, or will show, and that state.
Claims(e) == client.step \in {"answered", "following"} \/ client.kept[e] # 0

Shown(e) ==
    IF client.step = "following" THEN client.view[e]
    ELSE IF client.kept[e] # 0 THEN client.kept[e] ELSE client.answer[e]

\* Before its connection is registered it has nothing.
Fresh == client.step \in {"offline", "opening"} /\ client.kept = Unchanged

Early == client.step = "offline" \/ phase[client.socket] = "accepting"

BrowserOK ==
    /\ ClientTypeOK
    /\ Early => Fresh
    /\ client.step # "offline" /\ Live(client.socket) =>
          \A e \in Events :
              Claims(e) => Current(client.socket, Newest(e), Shown(e))

ClientInv ==
    /\ Inv
    /\ \A c \in Connections : Live(c) => Tracks(c)
    /\ \A e \in Events : NewestOK(e)
    /\ BrowserOK

LEMMA ClientInitInv == ClientInit => ClientInv
<1> SUFFICES ASSUME ClientInit PROVE ClientInv
  OBVIOUS
<1>1. Init /\ Inv
  BY InitInv DEF ClientInit
<1>2. \A c \in Connections : ~Live(c)
  BY <1>1 DEF Init, Live
<1>3. \A e \in Events : NewestOK(e)
  BY <1>1, NewestInit
<1>4. Unchanged \in States
  BY SizesAssumption DEF Unchanged, States
<1>5. ClientTypeOK
  BY <1>4 DEF ClientInit, ClientTypeOK, Client
<1>6. Fresh /\ client.step = "offline"
  BY DEF ClientInit, Fresh
<1> QED
  BY <1>1, <1>2, <1>3, <1>5, <1>6 DEF ClientInv, BrowserOK

\* Types of the browser's state.
LEMMA BrowserTypes ==
    ASSUME ClientInv
    PROVE  /\ client \in Client /\ about \in [Numbers -> Events]
           /\ client.socket \in Connections \union {None}
           /\ client.step # "offline" => client.socket \in Connections
           /\ client.view \in States /\ client.kept \in States /\ client.answer \in States
           /\ published \in Nat /\ published <= MaxMessages
           /\ \A e \in Events : /\ Newest(e) \in 0..MaxMessages
                                /\ Newest(e) # 0 => about[Newest(e)] = e
                                /\ \A m \in 1..published : about[m] = e => m <= Newest(e)
<1>1. client \in Client /\ about \in Histories /\ (client.step = "offline" <=> client.socket = None)
  BY DEF ClientInv, BrowserOK, ClientTypeOK
<1>2. about \in [Numbers -> Events]
  BY <1>1, HistoriesAssumption DEF Numbers
<1>3. published \in Nat /\ published <= MaxMessages /\ MaxMessages \in Nat
  BY SizesAssumption DEF ClientInv, Inv, TypeOK
<1>4. \A e \in Events : NewestOK(e)
  BY DEF ClientInv
<1> QED
  BY <1>1, <1>2, <1>3, <1>4 DEF Client, NewestOK

LEMMA ClientStepIsStep ==
    ASSUME [ClientNext]_clientVars
    PROVE  [Next]_vars
<1>1. CASE Change
  BY <1>1 DEF Change, Unseen, Next
<1>2. ASSUME NEW c \in Connections, ConnectionNext(c)
      PROVE  Next
  BY <1>2 DEF ConnectionNext, Open, Receive, Unseen, Next, Connection
<1>3. CASE Load \/ Answer \/ Arrive \/ Lose
  BY <1>3 DEF Load, Answer, Arrive, Lose
<1>4. CASE UNCHANGED clientVars
  BY <1>4 DEF clientVars, vars
<1> QED
  BY <1>1, <1>2, <1>3, <1>4 DEF ClientNext

\* A step that the browser does not see.
LEMMA QuietBrowser ==
    ASSUME ClientInv, NEW d \in Connections, Unseen(Quiet(d))
    PROVE  BrowserOK'
<1> DEFINE c == client.socket
<1>1. client' = client /\ about' = about /\ published' = published
  BY DEF Unseen, Quiet, Register, AcceptFails, Enqueue, Take, SendFails, Disconnect,
     SenderCanceled, HandlerEnds
<1>2. Inv /\ BrowserOK /\ \A x \in Connections : Live(x) => Tracks(x)
  BY DEF ClientInv
<1>3. ClientTypeOK'
  BY <1>1, <1>2 DEF BrowserOK, ClientTypeOK
<1>4. client.step # "offline" => c \in Connections
  BY BrowserTypes
<1>5. \A x \in Connections : phase'[x] = "accepting" => phase[x] = "accepting"
  BY <1>2 DEF Inv, TypeOK, Unseen, Quiet, Register, AcceptFails, Enqueue, Take, SendFails,
     Disconnect, SenderCanceled, HandlerEnds
<1>6. (Early => Fresh)'
  BY <1>1, <1>2, <1>4, <1>5 DEF BrowserOK, Early, Fresh
<1>7. ASSUME client.step # "offline", Live(client.socket)', NEW e \in Events, Claims(e)
      PROVE  Current(client.socket, Newest(e), Shown(e))'
  <2>1. PICK x \in Connections : x = client.socket /\ x = client'.socket
    BY <1>1, <1>4, <1>7
  <2>2. PICK n \in 0..MaxMessages, v \in 0..MaxMessages : n = Newest(e) /\ v = Shown(e)
    BY BrowserTypes DEF Shown, States
  <2>3. Newest(e)' = n /\ Shown(e)' = v
    BY <1>1, <2>2, NewestStays DEF Shown
  <2>4. Live(x)' /\ ~Fresh
    BY <1>1, <1>7, <2>1 DEF Live, Claims, Fresh, Unchanged
  <2>5. Live(x)
    <3>1. phase[x] # "accepting"
      BY <1>2, <2>1, <2>4 DEF BrowserOK, Early
    <3>2. [Next]_vars
      BY DEF Unseen, Quiet, Next, Connection
    <3> QED
      BY <1>2, <2>4, <3>1, <3>2, OnlyRegister DEF Register
  <2>6. Current(x, n, v)
    BY <1>2, <1>7, <2>1, <2>2, <2>5 DEF BrowserOK
  <2>7. Same(x) \/ Drops(x) \/ Takes(x)
    BY <1>2, <2>4, <2>5, QuietSteps DEF Unseen
  <2>8. Current(x, n, v)'
    BY <1>2, <2>5, <2>6, <2>7, CurrentStays
  <2> QED
    BY <2>1, <2>3, <2>8 DEF Current, Foremost
<1>8. (client.step # "offline" /\ Live(client.socket) =>
          \A e \in Events : Claims(e) => Current(client.socket, Newest(e), Shown(e)))'
  BY <1>1, <1>7 DEF Claims
<1> QED
  BY <1>3, <1>6, <1>8 DEF BrowserOK

\* A change: of the event it is about, the notification is on its way.
LEMMA ChangeBrowser ==
    ASSUME ClientInv, Change
    PROVE  BrowserOK' /\ \A e \in Events : NewestOK(e)'
<1>1. /\ client' = client /\ about' = about /\ published' = published + 1
      /\ phase' = phase /\ sender' = sender /\ published < MaxMessages /\ Publish
  BY DEF Change, Unseen, Publish
<1>2. Inv /\ BrowserOK /\ \A x \in Connections : Live(x) => Tracks(x)
  BY DEF ClientInv
<1>3. ClientTypeOK' /\ (Early => Fresh)'
  BY <1>1, <1>2 DEF BrowserOK, ClientTypeOK, Early, Fresh
<1>4. \A e \in Events :
          /\ NewestOK(e)'
          /\ Newest(e)' = IF about[published + 1] = e THEN published + 1 ELSE Newest(e)
  BY <1>1, BrowserTypes, NewestMoves DEF ClientInv
<1>5. ASSUME client.step # "offline", Live(client.socket), NEW e \in Events, Claims(e)
      PROVE  Current(client.socket, Newest(e), Shown(e))'
  <2>1. PICK x \in Connections : x = client.socket /\ x = client'.socket
    BY <1>1, <1>5, BrowserTypes
  <2>2. PICK n \in 0..MaxMessages, v \in 0..MaxMessages : n = Newest(e) /\ v = Shown(e)
    BY BrowserTypes DEF Shown, States
  <2>3. Shown(e)' = v
    BY <1>1, <2>2 DEF Shown
  <2>4. Live(x) /\ Tracks(x) /\ Current(x, n, v)
    BY <1>2, <1>5, <2>1, <2>2 DEF BrowserOK
  <2>5. Grows(x)
    BY <1>1, <1>2, <2>4, PublishGrows
  <2>6. CASE about[published + 1] # e
    <3>1. Current(x, n, v)'
      BY <1>2, <2>4, <2>5, CurrentStays
    <3> QED
      BY <1>4, <2>1, <2>2, <2>3, <2>6, <3>1 DEF Current, Foremost
  <2>7. CASE about[published + 1] = e
    <3>1. Newest(e)' = published + 1
      BY <1>4, <2>7
    <3>2. Foremost(x)' < published + 1
      BY <1>2, <2>4, <2>5, LiveTypes DEF Grows
    <3>3. Newest(e)' > Foremost(x)'
      BY <1>2, <2>4, <2>5, <3>1, <3>2, LiveTypes DEF Grows
    <3> QED
      BY <2>1, <3>3 DEF Current, Foremost
  <2> QED
    BY <2>6, <2>7
<1>6. (client.step # "offline" /\ Live(client.socket) =>
          \A e \in Events : Claims(e) => Current(client.socket, Newest(e), Shown(e)))'
  BY <1>1, <1>5 DEF Claims, Live
<1> QED
  BY <1>3, <1>4, <1>6 DEF BrowserOK

\* A connection is opened: the browser has nothing yet.
LEMMA OpenBrowser ==
    ASSUME ClientInv, NEW d \in Connections, Open(d)
    PROVE  BrowserOK'
<1>1. /\ client.step = "offline" /\ client \in Client
      /\ client' = [client EXCEPT !.step = "opening", !.socket = d]
      /\ about' = about /\ phase' = [phase EXCEPT ![d] = "accepting"]
  BY BrowserTypes DEF Open, Connect
<1>2. Inv /\ BrowserOK
  BY DEF ClientInv
<1>3. client.kept = Unchanged
  BY <1>1, <1>2 DEF BrowserOK, Early, Fresh
<1>4. /\ client'.step = "opening" /\ client'.socket = d /\ client'.kept = Unchanged
      /\ client' \in Client
  BY <1>1, <1>3 DEF Client
<1>5. d # None
  BY NoneAssumption
<1>6. ClientTypeOK'
  BY <1>1, <1>2, <1>4, <1>5 DEF BrowserOK, ClientTypeOK
<1>7. Fresh' /\ \A e \in Events : ~Claims(e)'
  BY <1>4 DEF Fresh, Claims, Unchanged
<1> QED
  BY <1>6, <1>7 DEF BrowserOK

\* The steps of the browser alone.
LEMMA LoadBrowser ==
    ASSUME ClientInv, Load
    PROVE  BrowserOK'
<1>1. /\ client.step = "opening" /\ client.socket \in Registered /\ client \in Client
      /\ client' = [client EXCEPT !.step = "loading"]
      /\ UNCHANGED vars /\ about' = about
  BY BrowserTypes DEF Load
<1>2. BrowserOK
  BY DEF ClientInv
<1>3. /\ client'.step = "loading" /\ client'.socket = client.socket
      /\ client'.kept = client.kept /\ client' \in Client
  BY <1>1 DEF Client
<1>4. ClientTypeOK'
  BY <1>1, <1>2, <1>3 DEF BrowserOK, ClientTypeOK
<1>5. ~Early'
  BY <1>1, <1>3 DEF Early, Registered, vars
<1>6. ASSUME Live(client.socket), NEW e \in Events, Claims(e)'
      PROVE  Current(client.socket, Newest(e), Shown(e))'
  <2>1. Claims(e) /\ Shown(e)' = Shown(e)
    BY <1>1, <1>3, <1>6 DEF Claims, Shown
  <2>2. Newest(e)' = Newest(e)
    BY <1>1, NewestStays DEF vars
  <2>3. Current(client.socket, Newest(e), Shown(e))
    BY <1>1, <1>2, <1>6, <2>1 DEF BrowserOK
  <2> QED
    BY <1>1, <1>3, <2>1, <2>2, <2>3 DEF Current, Foremost, vars
<1> QED
  BY <1>1, <1>3, <1>4, <1>5, <1>6 DEF BrowserOK, Live, vars

LEMMA AnswerBrowser ==
    ASSUME ClientInv, Answer
    PROVE  BrowserOK'
<1> DEFINE a == [e \in Events |-> Newest(e)]
<1>1. /\ client.step = "loading" /\ client \in Client
      /\ client' = [client EXCEPT !.step = "answered", !.answer = a]
      /\ UNCHANGED vars /\ about' = about
  BY BrowserTypes DEF Answer
<1>2. BrowserOK
  BY DEF ClientInv
<1>3. a \in States /\ \A e \in Events : a[e] = Newest(e)
  BY BrowserTypes DEF States
<1> HIDE DEF a
<1>4. /\ client'.step = "answered" /\ client'.socket = client.socket
      /\ client'.kept = client.kept /\ client'.answer = a /\ client' \in Client
  BY <1>1, <1>3 DEF Client
<1>5. ClientTypeOK'
  BY <1>1, <1>2, <1>4 DEF BrowserOK, ClientTypeOK
<1>6. ~Early'
  BY <1>1, <1>2, <1>4 DEF BrowserOK, Early, Fresh, vars
<1>7. ASSUME Live(client.socket), NEW e \in Events
      PROVE  Current(client.socket, Newest(e), Shown(e))'
  <2>1. Newest(e)' = Newest(e)
    BY <1>1, NewestStays DEF vars
  <2>2. CASE client.kept[e] = 0
    <3>1. Shown(e)' = Newest(e)
      BY <1>3, <1>4, <2>2 DEF Shown
    <3> QED
      BY <2>1, <3>1 DEF Current
  <2>3. CASE client.kept[e] # 0
    <3>1. Claims(e) /\ Shown(e)' = Shown(e)
      BY <1>1, <1>4, <2>3 DEF Claims, Shown
    <3>2. Current(client.socket, Newest(e), Shown(e))
      BY <1>1, <1>2, <1>7, <3>1 DEF BrowserOK
    <3> QED
      BY <1>1, <1>4, <2>1, <3>1, <3>2 DEF Current, Foremost, vars
  <2> QED
    BY <2>2, <2>3
<1> QED
  BY <1>1, <1>4, <1>5, <1>6, <1>7 DEF BrowserOK, Live, vars

LEMMA ArriveBrowser ==
    ASSUME ClientInv, Arrive
    PROVE  BrowserOK'
<1> DEFINE a == [e \in Events |-> IF client.kept[e] = 0 THEN client.answer[e]
                                                       ELSE client.kept[e]]
<1>1. /\ client.step = "answered" /\ client \in Client
      /\ client' = [client EXCEPT !.step = "following", !.view = a,
                                  !.answer = Unchanged, !.kept = Unchanged]
      /\ UNCHANGED vars /\ about' = about
  BY BrowserTypes DEF Arrive
<1>2. BrowserOK
  BY DEF ClientInv
<1>3. a \in States /\ \A e \in Events : a[e] = Shown(e)
  BY <1>1, BrowserTypes DEF States, Shown
<1>4. Unchanged \in States
  BY SizesAssumption DEF States, Unchanged
<1> HIDE DEF a
<1>5. /\ client'.step = "following" /\ client'.socket = client.socket
      /\ client'.view = a /\ client' \in Client
  BY <1>1, <1>3, <1>4 DEF Client
<1>6. ClientTypeOK'
  BY <1>1, <1>2, <1>5 DEF BrowserOK, ClientTypeOK
<1>7. ~Early'
  BY <1>1, <1>2, <1>5 DEF BrowserOK, Early, Fresh, vars
<1>8. ASSUME Live(client.socket), NEW e \in Events
      PROVE  Current(client.socket, Newest(e), Shown(e))'
  <2>1. Claims(e) /\ Shown(e)' = Shown(e)
    BY <1>1, <1>3, <1>5 DEF Claims, Shown
  <2>2. Newest(e)' = Newest(e)
    BY <1>1, NewestStays DEF vars
  <2>3. Current(client.socket, Newest(e), Shown(e))
    BY <1>1, <1>2, <1>8, <2>1 DEF BrowserOK
  <2> QED
    BY <1>1, <1>5, <2>1, <2>2, <2>3 DEF Current, Foremost, vars
<1> QED
  BY <1>1, <1>5, <1>6, <1>7, <1>8 DEF BrowserOK, Live, vars

LEMMA LoseBrowser ==
    ASSUME ClientInv, Lose
    PROVE  BrowserOK'
<1>1. /\ client \in Client /\ about' = about
      /\ client' = [client EXCEPT !.step = "offline", !.socket = None,
                                  !.answer = Unchanged, !.kept = Unchanged]
  BY BrowserTypes DEF Lose
<1>2. Unchanged \in States
  BY SizesAssumption DEF States, Unchanged
<1>3. /\ client'.step = "offline" /\ client'.socket = None
      /\ client'.kept = Unchanged /\ client' \in Client
  BY <1>1, <1>2 DEF Client
<1> QED
  BY <1>1, <1>3 DEF ClientInv, BrowserOK, ClientTypeOK, Fresh, Early

\* A notification received: about its event there is nothing older to show.
LEMMA ReceiveBrowser ==
    ASSUME ClientInv, NEW d \in Connections, Receive(d)
    PROVE  BrowserOK'
<1>1. /\ Sent(d) /\ about' = about /\ published' = published /\ phase' = phase
      /\ client' = IF client.socket = d THEN Applied(Head(sending[d])) ELSE client
  BY DEF Receive, Sent
<1>2. Inv /\ BrowserOK /\ \A x \in Connections : Live(x) => Tracks(x)
  BY DEF ClientInv
<1>3. sender \in [Connections -> SenderStates] /\ phase \in [Connections -> Phases]
  BY <1>2 DEF Inv, TypeOK
<1>4. Live(d) /\ Sends(d) /\ Tracks(d) /\ phase[d] = "open"
  BY <1>1, <1>2, SentSends DEF Sent, Live
<1>5. PICK s \in Numbers : sending[d] = <<s>> /\ Head(sending[d]) = s
  BY <1>1, <1>2, <1>4, SentSends
<1>6. \A e \in Events : Newest(e)' = Newest(e)
  BY <1>1, NewestStays
<1>7. CASE client.socket # d
  <2>1. client' = client
    BY <1>1, <1>7
  <2>2. ClientTypeOK' /\ (Early => Fresh)'
    BY <1>1, <1>2, <2>1 DEF BrowserOK, ClientTypeOK, Early, Fresh
  <2>3. ASSUME client.step # "offline", Live(client.socket)', NEW e \in Events, Claims(e)
        PROVE  Current(client.socket, Newest(e), Shown(e))'
    <3>1. PICK x \in Connections : x = client.socket /\ x = client'.socket /\ x # d
      BY <1>7, <2>1, <2>3, BrowserTypes
    <3>2. Same(x) /\ phase'[x] = phase[x] /\ sender'[x] = sender[x]
      BY <1>1, <1>2, <3>1, OthersSame DEF Connection
    <3>3. Live(x)' /\ Live(x)
      BY <2>3, <3>1, <3>2 DEF Live
    <3>4. PICK n \in 0..MaxMessages, v \in 0..MaxMessages : n = Newest(e) /\ v = Shown(e)
      BY BrowserTypes DEF Shown, States
    <3>5. Current(x, n, v)
      BY <1>2, <2>3, <3>1, <3>3, <3>4 DEF BrowserOK
    <3>6. Current(x, n, v)'
      BY <1>2, <3>2, <3>3, <3>5, CurrentStays
    <3>7. Newest(e)' = n /\ Shown(e)' = v
      BY <1>6, <2>1, <3>4 DEF Shown
    <3> QED
      BY <3>1, <3>6, <3>7 DEF Current, Foremost
  <2>4. (client.step # "offline" /\ Live(client.socket) =>
          \A e \in Events : Claims(e) => Current(client.socket, Newest(e), Shown(e)))'
    BY <2>1, <2>3 DEF Claims
  <2> QED
    BY <2>2, <2>4 DEF BrowserOK
<1>8. CASE client.socket = d
  <2>0. PICK f \in Events : f = about[s]
    BY BrowserTypes
  <2>1. /\ client' = Applied(s) /\ client.step # "offline" /\ ~Early
        /\ client \in Client
    BY <1>1, <1>2, <1>4, <1>5, <1>8, BrowserTypes, NoneAssumption
       DEF BrowserOK, ClientTypeOK, Early
  <2>2. client.view \in States /\ client.kept \in States /\ s \in 0..MaxMessages
    BY BrowserTypes DEF Numbers
  <2>3. client'.step = client.step /\ client'.socket = client.socket /\ client' \in Client
    <3>1. CASE client.step = "following"
      <4>1. client' = [client EXCEPT !.view[f] = s]
        BY <2>0, <2>1, <3>1 DEF Applied
      <4>2. [client.view EXCEPT ![f] = s] \in States
        BY <2>1, <2>2 DEF States
      <4> QED
        BY <2>1, <4>1, <4>2 DEF Client
    <3>2. CASE client.step # "following"
      <4>1. client' = [client EXCEPT !.kept[f] = s]
        BY <2>0, <2>1, <3>2 DEF Applied
      <4>2. [client.kept EXCEPT ![f] = s] \in States
        BY <2>1, <2>2 DEF States
      <4> QED
        BY <2>1, <4>1, <4>2 DEF Client
    <3> QED
      BY <3>1, <3>2
  <2>4. /\ Shown(f)' = s
        /\ \A e \in Events : e # f => (Claims(e)' <=> Claims(e)) /\ (Shown(e)' = Shown(e))
    <3>1. CASE client.step = "following"
      <4>1. client' = [client EXCEPT !.view[f] = s]
        BY <2>0, <2>1, <3>1 DEF Applied
      <4>2. /\ client'.view[f] = s
            /\ \A e \in Events : e # f => client'.view[e] = client.view[e]
        BY <2>1, <2>2, <4>1 DEF Client, States
      <4> QED
        BY <2>3, <3>1, <4>2 DEF Shown, Claims
    <3>2. CASE client.step # "following"
      <4>1. client' = [client EXCEPT !.kept[f] = s]
        BY <2>0, <2>1, <3>2 DEF Applied
      <4>2. /\ client'.kept[f] = s /\ client'.answer = client.answer
            /\ \A e \in Events : e # f => client'.kept[e] = client.kept[e]
        BY <2>1, <2>2, <4>1 DEF Client, States
      <4>3. s # 0
        BY DEF Numbers
      <4> QED
        BY <2>3, <3>2, <4>2, <4>3 DEF Shown, Claims
    <3> QED
      BY <3>1, <3>2
  <2>5. ClientTypeOK'
    BY <1>1, <1>2, <2>3 DEF BrowserOK, ClientTypeOK
  <2>6. ~Early'
    BY <1>1, <2>1, <2>3 DEF Early
  <2>7. ASSUME NEW e \in Events, Claims(e)'
        PROVE  Current(client.socket, Newest(e), Shown(e))'
    <3>1. PICK n \in 0..MaxMessages : n = Newest(e)
      BY BrowserTypes
    <3>2. CASE e = f
      <4>1. about[s] = e /\ s \in 1..published
        <5>1. s <= Foremost(d) /\ Foremost(d) <= published /\ published \in Nat /\ Foremost(d) \in Int
          BY <1>2, <1>4, <1>5, LiveTypes DEF Tracks
        <5> QED
          BY <2>0, <3>2, <5>1 DEF Numbers
      <4>2. s <= n
        BY <3>1, <4>1, BrowserTypes
      <4>3. Current(d, n, s)'
        BY <1>2, <1>4, <1>5, <4>2, CurrentReceived
      <4>4. Newest(e)' = n /\ Shown(e)' = s /\ client'.socket = d
        BY <1>6, <1>8, <2>3, <2>4, <3>1, <3>2
      <4> QED
        BY <4>3, <4>4 DEF Current, Foremost
    <3>3. CASE e # f
      <4>1. PICK v : v = Shown(e)
        OBVIOUS
      <4>2. Current(d, n, v)
        BY <1>2, <1>4, <1>8, <2>1, <2>4, <2>7, <3>1, <3>3, <4>1 DEF BrowserOK
      <4>3. sending[d] # <<n>>
        <5>1. Newest(e) # 0 => about[Newest(e)] = e
          BY BrowserTypes
        <5>2. s # 0
          BY DEF Numbers
        <5>3. n # s
          BY <2>0, <3>1, <3>3, <5>1, <5>2
        <5> QED
          BY <1>5, <5>3
      <4>4. Current(d, n, v)'
        BY <1>2, <1>4, <4>2, <4>3, CurrentStays
      <4>5. Newest(e)' = n /\ Shown(e)' = v /\ client'.socket = d
        BY <1>6, <1>8, <2>3, <2>4, <3>1, <3>3, <4>1
      <4> QED
        BY <4>4, <4>5 DEF Current, Foremost
    <3> QED
      BY <3>2, <3>3
  <2> QED
    BY <2>5, <2>6, <2>7 DEF BrowserOK
<1> QED
  BY <1>7, <1>8

LEMMA ClientNextInv == ClientInv /\ [ClientNext]_clientVars => ClientInv'
<1> SUFFICES ASSUME ClientInv, [ClientNext]_clientVars
             PROVE  ClientInv'
  OBVIOUS
<1>1. [Next]_vars /\ Inv
  BY ClientStepIsStep DEF ClientInv
<1>2. Inv' /\ \A c \in Connections : Live(c)' => Tracks(c)'
  BY <1>1, StepInv, TracksInv DEF ClientInv
<1>3. (\A e \in Events : NewestOK(e)') /\ BrowserOK'
  <2>1. CASE Change
    BY <2>1, ChangeBrowser
  <2>2. ASSUME UNCHANGED <<published, about>>
        PROVE  \A e \in Events : NewestOK(e)'
    BY <2>2, NewestStays DEF ClientInv
  <2>3. ASSUME NEW d \in Connections, ConnectionNext(d)
        PROVE  UNCHANGED <<published, about>> /\ BrowserOK'
    <3>1. CASE Open(d)
      BY <3>1, OpenBrowser DEF Open, Connect
    <3>2. CASE Receive(d)
      BY <3>2, ReceiveBrowser DEF Receive, Sent
    <3>3. CASE Unseen(Quiet(d))
      BY <3>3, QuietBrowser DEF Unseen, Quiet, Register, AcceptFails, Enqueue, Take,
         SendFails, Disconnect, SenderCanceled, HandlerEnds
    <3> QED
      BY <2>3, <3>1, <3>2, <3>3 DEF ConnectionNext, Unseen, Quiet
  <2>4. CASE Load \/ Answer \/ Arrive \/ Lose
    <3>1. UNCHANGED <<published, about>>
      BY <2>4 DEF Load, Answer, Arrive, Lose, vars
    <3> QED
      BY <2>2, <2>4, <3>1, LoadBrowser, AnswerBrowser, ArriveBrowser, LoseBrowser
  <2>5. CASE UNCHANGED clientVars
    <3>1. BrowserOK'
      <4>1. \A e \in Events : Newest(e)' = Newest(e)
        BY <2>5, NewestStays DEF clientVars
      <4>2. \A e \in Events : (Claims(e)' <=> Claims(e)) /\ Shown(e)' = Shown(e)
        BY <2>5 DEF clientVars, Claims, Shown
      <4>3. ASSUME client.step # "offline", Live(client.socket), NEW e \in Events, Claims(e)
            PROVE  Current(client.socket, Newest(e), Shown(e))'
        <5>1. Current(client.socket, Newest(e), Shown(e))
          BY <4>3 DEF ClientInv, BrowserOK
        <5> QED
          BY <2>5, <4>1, <4>2, <5>1 DEF clientVars, Current, Foremost
      <4>4. (ClientTypeOK /\ (Early => Fresh))'
        BY <2>5 DEF clientVars, ClientInv, BrowserOK, ClientTypeOK, Early, Fresh
      <4> QED
        BY <2>5, <4>2, <4>3, <4>4 DEF clientVars, BrowserOK, Live
    <3> QED
      BY <2>2, <2>5, <3>1 DEF clientVars
  <2> QED
    BY <2>1, <2>2, <2>3, <2>4, <2>5 DEF ClientNext
<1> QED
  BY <1>2, <1>3 DEF ClientInv

LEMMA ClientInvariance == ClientSpec => []ClientInv
  BY ClientInitInv, ClientNextInv, PTL DEF ClientSpec

----------------------------------------------------------------------------

\* What is on its way to a connection, by number.
LEMMA OnItsWayIs ==
    ASSUME Inv, NEW c \in Connections, Live(c), NEW n \in 1..published,
           n > Foremost(c) \/ sending[c] = <<n>>
    PROVE  n \in ToSet(OnItsWay(c))
<1>1. /\ published \in Nat
      /\ pending[c] \in Seq(Numbers) /\ queue[c] \in Seq(Numbers) /\ sending[c] \in Seq(Numbers)
      /\ Consecutive(published, pending[c], queue[c])
  BY LiveTypes DEF Numbered
<1>2. PICK p \in Nat, q \in Nat : p = Len(pending[c]) /\ q = Len(queue[c])
  BY LiveTypes
<1>3. ToSet(OnItsWay(c)) = ToSet(sending[c]) \union ToSet(queue[c]) \union ToSet(pending[c])
  <2>1. PICK taken \in Seq(Numbers) :
            /\ taken = sending[c] \o queue[c]
            /\ ToSet(taken) = ToSet(sending[c]) \union ToSet(queue[c])
    <3>1. sending[c] \o queue[c] \in Seq(Numbers)
      BY <1>1
    <3>2. ToSet(sending[c] \o queue[c]) = ToSet(sending[c]) \union ToSet(queue[c])
      BY <1>1, ElementsOfConcat
    <3> QED
      BY <3>1, <3>2
  <2>2. ToSet(taken \o pending[c]) = ToSet(taken) \union ToSet(pending[c])
    BY <1>1, ElementsOfConcat
  <2> QED
    BY <2>1, <2>2 DEF OnItsWay
<1>4. /\ \A i \in 1..p : pending[c][i] = published - p + i
      /\ \A i \in 1..q : queue[c][i] = published - p - q + i
  BY <1>1, <1>2 DEF Consecutive
<1>5. /\ \A i \in 1..p : pending[c][i] \in ToSet(pending[c])
      /\ \A i \in 1..q : queue[c][i] \in ToSet(queue[c])
      /\ \A i \in 1..Len(sending[c]) : sending[c][i] \in ToSet(sending[c])
  BY <1>1, <1>2, ElementsOfSequence
<1>6. CASE sending[c] = <<n>>
  <2>1. sending[c][1] = n /\ Len(sending[c]) = 1
    BY <1>6
  <2> QED
    BY <1>3, <1>5, <2>1
<1>7. CASE n > published - p
  <2>1. PICK i \in 1..p : n = published - p + i
    <3>1. n - (published - p) \in 1..p /\ n = published - p + (n - (published - p))
      BY <1>1, <1>7
    <3> QED
      BY <3>1
  <2> QED
    BY <1>3, <1>4, <1>5, <2>1
<1>8. CASE n > Foremost(c) /\ ~(n > published - p)
  <2>1. n > published - p - q
    BY <1>2, <1>8 DEF Foremost
  <2>2. PICK i \in 1..q : n = published - p - q + i
    <3>1. /\ n - (published - p - q) \in 1..q
          /\ n = published - p - q + (n - (published - p - q))
      BY <1>1, <1>8, <2>1
    <3> QED
      BY <3>1
  <2> QED
    BY <1>3, <1>4, <1>5, <2>2
<1> QED
  BY <1>6, <1>7, <1>8

\* The browser's state keeps its type: it has a socket unless it is offline,
\* and states of the events only that were, or are, stored.
THEOREM ClientTypeCorrectness == ClientSpec => []ClientTypeOK
<1>1. ClientInv => ClientTypeOK
  BY DEF ClientInv, BrowserOK
<1> QED
  BY <1>1, ClientInvariance, PTL

\* The publisher beside a browser is the publisher, so all that is proved of it
\* holds here.
THEOREM ClientSpecIsSpec == ClientSpec => Spec
<1>1. ClientInit => Init
  BY DEF ClientInit
<1> QED
  BY <1>1, ClientStepIsStep, PTL DEF ClientSpec, Spec

\* So what the publisher promises any client, it promises beside a browser that
\* comes and goes: the stream (publish, _enqueue, _sender_loop),
THEOREM StreamBesideBrowser == ClientSpec => ImplementsStream
BY ClientSpecIsSpec, Refinement, PTL

\* the newest notifications of each live connection (_enqueue),
THEOREM NewestKeptBesideBrowser == ClientSpec => []KeepsNewest
BY ClientSpecIsSpec, NewestKept, PTL

\* and no sender that outlives its connection (disconnect).
THEOREM SendersEndBesideBrowser == ClientSpec => []NoOrphanSender
BY ClientSpecIsSpec, SendersEnd, PTL

\* A browser that loads once it is registered, and applies what it receives
\* before the answer after it, shows every event as it is, or the notification
\* is on its way, or the queue was overrun: for any number of events, changes,
\* connections, and any size of the queues (connect, publish, _enqueue, _send).
THEOREM BrowserIsCurrent == ClientSpec => []ViewCurrent
<1>1. ClientInv => ViewCurrent
  <2> SUFFICES ASSUME ClientInv, Following, NEW e \in Events
               PROVE  \/ client.view[e] = Newest(e)
                      \/ Newest(e) \in ToSet(OnItsWay(client.socket))
                      \/ Overrun(Newest(e))
    BY DEF ViewCurrent
  <2>1. /\ Inv /\ BrowserOK /\ client.socket \in Connections
        /\ Live(client.socket) /\ Tracks(client.socket)
        /\ client.step = "following" /\ Shown(e) = client.view[e] /\ Claims(e)
    BY BrowserTypes DEF ClientInv, Following, Shown, Claims
  <2>2. Current(client.socket, Newest(e), client.view[e])
    BY <2>1 DEF BrowserOK
  <2>3. ASSUME Newest(e) > Foremost(client.socket) \/ sending[client.socket] = <<Newest(e)>>
        PROVE  Newest(e) \in ToSet(OnItsWay(client.socket))
    <3>1. Newest(e) \in 0..published
      BY DEF ClientInv, NewestOK
    <3>2. Newest(e) # 0
      <4>1. CASE Newest(e) > Foremost(client.socket)
        <5>1. Foremost(client.socket) >= 0 /\ Foremost(client.socket) \in Int
          BY <2>1, LiveTypes DEF Tracks
        <5> QED
          BY <3>1, <4>1, <5>1
      <4>2. CASE sending[client.socket] = <<Newest(e)>>
        <5>1. sending[client.socket] = <<>> \/ \E s \in Numbers : sending[client.socket] = <<s>>
          BY <2>1, LiveTypes
        <5>2. Newest(e) \in Numbers
          BY <4>2, <5>1
        <5> QED
          BY <5>2 DEF Numbers
      <4> QED
        BY <2>3, <4>1, <4>2
    <3>3. Newest(e) \in 1..published
      BY <3>1, <3>2
    <3> QED
      BY <2>1, <2>3, <3>3, OnItsWayIs
  <2> QED
    BY <2>2, <2>3 DEF Current, Overrun
<1> QED
  BY <1>1, ClientInvariance, PTL

============================================================================

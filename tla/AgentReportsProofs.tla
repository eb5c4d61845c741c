------------------------- MODULE AgentReportsProofs -------------------------
(***************************************************************************)
(* Proofs about AgentReports, for any number of starts, batches, streams   *)
(* and faults: where the one copy of a batch is until it is acknowledged,  *)
(* what is refused, and what the agent waits for.                          *)
(***************************************************************************)
EXTENDS AgentReports, TLAPS

\* Every leaf that names no prover goes to Zenon; the arithmetic goes to SMT.
USE ZenonT(90)

Late == {"append", "save", "publish", "send"}
Busy == {"store"} \cup Late
Pcs  == {"recv", "ended"} \cup Busy

\* At most one message is under way in either direction.
Short(S) == {<<>>} \cup {<<x>> : x \in S}

Row == [pc : Pcs, up : Short(Batch), down : Short(Reply), lost : BOOLEAN, batch : Batch]

\* A stream holds one thing at a time: a batch on its way, one that is being
\* stored, or a reply.
Sound(x) ==
    /\ x.up # <<>> => x.pc = "recv" /\ x.down = <<>>
    /\ x.pc \in Busy => x.down = <<>>
    /\ x.pc = "ended" /\ ~x.lost => x.down # <<>> /\ Head(x.down) \in [code : Codes]

Carries(x, n) ==
    \/ x.up # <<>> /\ n = No(Head(x.up))
    \/ x.pc \in Busy /\ n = No(x.batch)

Drawn(n) == n[1] < agent.id \/ (n[1] = agent.id /\ n[2] <= agent.seq)

IsAck(x) == x.down # <<>> /\ Head(x.down) \in [ack : Batch]

Stage == [append |-> 1, save |-> 2, publish |-> 3, send |-> 4]

Shape ==
    /\ stream \in [Streams -> Row]
    /\ \A s \in Streams : Sound(stream[s])

\* Nothing is under way on the stream.
Calm(x) == x.up = <<>> /\ x.down = <<>> /\ x.pc \notin Busy /\ (x.pc = "recv" \/ x.lost)

Attached ==
    /\ agent \in [pc : {"off", "tick", "wait", "stopped"}, id : Agents \cup {0},
                  seq : 0..MaxSeq, sink : Streams \cup {0}]
    /\ agent.pc = "wait" => agent.sink # 0
    /\ agent.pc = "tick" /\ agent.sink # 0 => Calm(stream[agent.sink])

\* No batch is in two places, and none that has a number yet is new.
Unique ==
    /\ \A s, t \in Streams : \A n \in Numbers :
         Carries(stream[s], n) /\ Carries(stream[t], n) => s = t
    /\ \A s \in Streams : \A n \in Numbers : Carries(stream[s], n) => Drawn(n)
    /\ \A n \in Numbers : ~Drawn(n) => commits[n] = 0

\* What has been done for a batch, by where it is.
Progress ==
    \A s \in Streams :
      /\ stream[s].up # <<>> => commits[No(Head(stream[s].up))] = 0
      /\ stream[s].pc = "store" => commits[No(stream[s].batch)] = 0
      /\ stream[s].pc \in Late => /\ commits[No(stream[s].batch)] = 1
                                  /\ stage[No(stream[s].batch)] = Stage[stream[s].pc]

Done(n) ==
    /\ commits[n] = 1 /\ stage[n] = 4
    /\ \A t \in Streams : ~Carries(stream[t], n)

Stored ==
    \A s \in Streams : IsAck(stream[s]) => Done(No(Head(stream[s].down).ack))

Counts ==
    /\ commits \in [Numbers -> {0, 1}]
    /\ stage \in [Numbers -> 0..4]

Books == Unique /\ Progress /\ Stored /\ Counts

Inv == Shape /\ Attached /\ Books

-----------------------------------------------------------------------------
(* Messages and records                                                    *)

LEMMA Messages ==
    ASSUME NEW S
    PROVE  /\ \A x \in S : /\ <<x>> \in Short(S) /\ <<x>> # <<>> /\ Head(<<x>>) = x
                           /\ Tail(<<x>>) = <<>> /\ Append(<<>>, x) = <<x>>
           /\ <<>> \in Short(S)
           /\ \A q \in Short(S) : q # <<>> => q = <<Head(q)>> /\ Head(q) \in S /\ Tail(q) = <<>>
           /\ \A q \in Short(S) : \A i \in DOMAIN q : q[i] = Head(q) /\ q # <<>>
<1>1. \A x \in S : /\ <<x>> # <<>> /\ Head(<<x>>) = x
                   /\ Tail(<<x>>) = <<>> /\ Append(<<>>, x) = <<x>>
  BY SMT
<1>2. \A x \in S : \A i \in DOMAIN <<x>> : <<x>>[i] = x
  BY SMT
<1>3. DOMAIN <<>> = {}
  BY SMT
<1> QED
  BY <1>1, <1>2, <1>3 DEF Short

LEMMA Replies ==
    /\ \A b \in Batch : [ack |-> b] \in Reply /\ [ack |-> b] \in [ack : Batch] /\ [ack |-> b].ack = b
    /\ \A c \in Codes : [code |-> c] \in Reply /\ [code |-> c] \in [code : Codes]
    /\ \A r : ~(r \in [ack : Batch] /\ r \in [code : Codes])
  BY SMT DEF Reply

LEMMA NumberOf ==
    /\ \A b \in Batch : No(b) \in Numbers /\ No(b)[1] = b.agent /\ No(b)[2] = b.seq
    /\ \A b \in Batch : b.agent \in Agents /\ b.seq \in 1..MaxSeq
  BY SMT DEF No, Numbers, Batch

LEMMA OverRow ==
    /\ Over \in Row /\ Over.pc = "ended" /\ Over.up = <<>> /\ Over.down = <<>> /\ Over.lost
    /\ Sound(Over)
<1>1. [agent |-> 1, seq |-> 1, valid |-> TRUE] \in Batch
  <2>1. 1 \in Agents /\ MaxSeq \in Nat \ {0}
    BY AgentReportsAssumption
  <2>2. 1 \in 1..MaxSeq
    BY <2>1, SMT
  <2> QED
    BY <2>1, <2>2 DEF Batch
<1>2. <<>> \in Short(Batch) /\ <<>> \in Short(Reply)
  BY Messages
<1>3. /\ Over.pc = "ended" /\ Over.up = <<>> /\ Over.down = <<>> /\ Over.lost
      /\ Over.batch \in Batch
  BY <1>1 DEF Over
<1>4. "ended" \in Pcs
  BY DEF Pcs
<1>5. Over \in Row
  BY <1>1, <1>2, <1>4, SMT DEF Over, Row
<1> QED
  BY <1>3, <1>5 DEF Sound, Busy, Late

LEMMA Rows ==
    ASSUME NEW x \in Row
    PROVE  /\ x.pc \in Pcs /\ x.up \in Short(Batch) /\ x.down \in Short(Reply)
           /\ x.lost \in BOOLEAN /\ x.batch \in Batch
           /\ x.up # <<>> => Head(x.up) \in Batch /\ No(Head(x.up)) \in Numbers
           /\ No(x.batch) \in Numbers
<1>1. /\ x.pc \in Pcs /\ x.up \in Short(Batch) /\ x.down \in Short(Reply)
      /\ x.lost \in BOOLEAN /\ x.batch \in Batch
  BY DEF Row
<1>2. x.up # <<>> => Head(x.up) \in Batch
  BY <1>1, Messages
<1> QED
  BY <1>1, <1>2, NumberOf

\* What may become of a stream when nothing is sent or stored.
Follows(x, y) ==
    /\ y \in Row /\ Sound(y)
    /\ y.up # <<>> => y.up = x.up
    /\ y.pc = "store" => (x.pc = "store" /\ y.batch = x.batch)
                         \/ (x.up # <<>> /\ y.batch = Head(x.up))
    /\ y.pc \in Late => y.pc = x.pc /\ y.batch = x.batch
    /\ IsAck(y) => y.down = x.down

LEMMA StillCarries ==
    ASSUME NEW x, NEW y, Follows(x, y), NEW n, Carries(y, n)
    PROVE  Carries(x, n)
  BY DEF Follows, Carries, Busy

LEMMA Relay ==
    ASSUME Shape, Books, stream' = [s \in Streams |-> stream'[s]],
           \A s \in Streams : Follows(stream[s], stream'[s]),
           UNCHANGED <<commits, stage>>, \A n \in Numbers : Drawn(n) => Drawn(n)'
    PROVE  Shape' /\ Books'
<1>1. Shape'
  BY DEF Shape, Follows
<1>2. \A s \in Streams : \A n : Carries(stream'[s], n) => Carries(stream[s], n)
  BY StillCarries
<1>3. Unique'
  BY <1>2 DEF Books, Unique
<1>4. ASSUME NEW s \in Streams
      PROVE  /\ stream'[s].up # <<>> => commits'[No(Head(stream'[s].up))] = 0
             /\ stream'[s].pc = "store" => commits'[No(stream'[s].batch)] = 0
             /\ stream'[s].pc \in Late => /\ commits'[No(stream'[s].batch)] = 1
                                          /\ stage'[No(stream'[s].batch)] = Stage[stream'[s].pc]
  <2>1. Follows(stream[s], stream'[s])
    OBVIOUS
  <2> QED
    BY <2>1 DEF Follows, Books, Progress
<1>5. Progress'
  BY <1>4 DEF Progress
<1>6. Stored'
  <2>1. SUFFICES ASSUME NEW s \in Streams, IsAck(stream'[s])
                 PROVE  Done(No(Head(stream[s].down).ack))'
    BY DEF Stored
  <2>2. stream'[s].down = stream[s].down
    BY <2>1 DEF Follows
  <2>3. Done(No(Head(stream[s].down).ack))
    BY <2>1, <2>2 DEF Books, Stored, IsAck
  <2> QED
    BY <2>2, <2>3, <1>2 DEF Done
<1>7. Counts'
  BY DEF Books, Counts
<1> QED
  BY <1>1, <1>3, <1>5, <1>6, <1>7 DEF Books

-----------------------------------------------------------------------------
(* Steps on one stream                                                     *)

LEMMA Same ==
    ASSUME NEW x \in Row, Sound(x)
    PROVE  Follows(x, x)
  BY DEF Follows

LEMMA Changed ==
    ASSUME Shape, NEW s \in Streams, NEW y, stream' = [stream EXCEPT ![s] = y],
           Follows(stream[s], y)
    PROVE  /\ stream' = [t \in Streams |-> stream'[t]] /\ stream'[s] = y
           /\ \A t \in Streams : t # s => stream'[t] = stream[t]
           /\ \A t \in Streams : Follows(stream[t], stream'[t])
<1>1. DOMAIN stream = Streams
  BY DEF Shape
<1>2. /\ stream' = [t \in Streams |-> stream'[t]] /\ stream'[s] = y
      /\ \A t \in Streams : t # s => stream'[t] = stream[t]
  BY <1>1
<1>3. ASSUME NEW t \in Streams PROVE Follows(stream[t], stream'[t])
  <2>1. CASE t = s
    BY <2>1, <1>2
  <2>2. CASE t # s
    <3>1. stream[t] \in Row /\ Sound(stream[t])
      BY DEF Shape
    <3> QED
      BY <2>2, <3>1, <1>2, Same
  <2> QED
    BY <2>1, <2>2
<1> QED
  BY <1>2, <1>3

\* A step of the server, or a loss, that the agent does not see.
LEMMA Unseen ==
    ASSUME Inv, stream' = [t \in Streams |-> stream'[t]],
           \A t \in Streams : Follows(stream[t], stream'[t]),
           \A t \in Streams : Calm(stream[t]) => Calm(stream'[t]),
           UNCHANGED <<agent, commits, stage>>
    PROVE  Inv'
<1>1. Shape' /\ Books'
  <2>1. \A n \in Numbers : Drawn(n) => Drawn(n)'
    BY DEF Drawn
  <2> QED
    BY <2>1, Relay DEF Inv
<1>2. agent.sink \in Streams \cup {0}
  BY DEF Inv, Attached
<1>3. Attached'
  BY <1>2 DEF Inv, Attached
<1> QED
  BY <1>1, <1>3 DEF Inv

LEMMA Handled ==
    ASSUME Inv, NEW s \in Streams, NEW y, stream' = [stream EXCEPT ![s] = y],
           Follows(stream[s], y), Calm(stream[s]) => Calm(y),
           UNCHANGED <<agent, commits, stage>>
    PROVE  Inv'
<1>1. /\ stream' = [t \in Streams |-> stream'[t]] /\ stream'[s] = y
      /\ \A t \in Streams : t # s => stream'[t] = stream[t]
      /\ \A t \in Streams : Follows(stream[t], stream'[t])
  BY Changed DEF Inv
<1>2. \A t \in Streams : Calm(stream[t]) => Calm(stream'[t])
  BY <1>1
<1> QED
  BY <1>1, <1>2, Unseen

LEMMA Overs ==
    ASSUME NEW x \in Row, NEW y, y.pc = "ended", y.up = <<>>, y \in Row,
           ~y.lost => y.down # <<>> /\ Head(y.down) \in [code : Codes],
           IsAck(y) => y.down = x.down
    PROVE  Follows(x, y)
<1>1. y.pc \notin Busy /\ y.pc # "store" /\ y.pc \notin Late
  BY DEF Busy, Late
<1> QED
  BY <1>1 DEF Follows, Sound

\* The handler returns, with or without what it has sent.
LEMMA Returned ==
    ASSUME NEW x \in Row
    PROVE  /\ Follows(x, Over) /\ Calm(Over)
           /\ Follows(x, [Over EXCEPT !.down = x.down])
           /\ x.down = <<>> => Calm([Over EXCEPT !.down = x.down])
<1> DEFINE y == [Over EXCEPT !.down = x.down]
<1>1. /\ Over \in Row /\ Over.pc = "ended" /\ Over.up = <<>> /\ Over.down = <<>> /\ Over.lost
  BY OverRow
<1>2. x.down \in Short(Reply)
  BY Rows
<1>3. y \in Row /\ y.pc = "ended" /\ y.up = <<>> /\ y.down = x.down /\ y.lost
  BY <1>1, <1>2 DEF Row
<1> HIDE DEF y
<1>4. Follows(x, y)
  BY <1>3, Overs
<1>5. Follows(x, Over)
  BY <1>1, Overs DEF IsAck
<1>6. "ended" \notin Busy
  BY DEF Busy, Late
<1>7. Calm(Over) /\ (x.down = <<>> => Calm(y))
  BY <1>1, <1>3, <1>6 DEF Calm
<1> QED
  BY <1>4, <1>5, <1>7 DEF y

\* The handler ends the stream with a status.
LEMMA Ended ==
    ASSUME NEW x \in Row, x.down = <<>>, NEW c \in Codes
    PROVE  Follows(x, [Over EXCEPT !.lost = FALSE, !.down = Append(x.down, [code |-> c])])
<1> DEFINE y == [Over EXCEPT !.lost = FALSE, !.down = Append(x.down, [code |-> c])]
<1>1. /\ Over \in Row /\ Over.pc = "ended" /\ Over.up = <<>> /\ Over.down = <<>> /\ Over.lost
  BY OverRow
<1>2. [code |-> c] \in Reply /\ [code |-> c] \in [code : Codes]
  BY Replies
<1>3. /\ Append(x.down, [code |-> c]) = <<[code |-> c]>> /\ <<[code |-> c]>> \in Short(Reply)
      /\ <<[code |-> c]>> # <<>> /\ Head(<<[code |-> c]>>) = [code |-> c]
  BY <1>2, Messages
<1>4. /\ y \in Row /\ y.pc = "ended" /\ y.up = <<>> /\ y.down = <<[code |-> c]>> /\ ~y.lost
  BY <1>1, <1>3 DEF Row
<1> HIDE DEF y
<1>5. y.down # <<>> /\ Head(y.down) \in [code : Codes]
  BY <1>2, <1>3, <1>4
<1>6. ~IsAck(y)
  BY <1>5, Replies DEF IsAck
<1>7. Follows(x, y)
  BY <1>4, <1>5, <1>6, Overs
<1> QED
  BY <1>7 DEF y

LEMMA Cutting ==
    ASSUME NEW x \in Row, Sound(x), NEW y \in Cut(x)
    PROVE  /\ Follows(x, y) /\ Follows(x, [y EXCEPT !.down = <<>>])
           /\ Calm(x) => Calm(y)
<1>1. PICK u \in {<<>>, x.up}, d \in {<<>>, x.down} :
        y = [x EXCEPT !.lost = TRUE, !.up = u, !.down = d]
  BY SMT DEF Cut
<1>2. /\ x.up \in Short(Batch) /\ x.down \in Short(Reply)
      /\ <<>> \in Short(Batch) /\ <<>> \in Short(Reply)
  BY Rows, Messages
<1>3. /\ y \in Row /\ y.up = u /\ y.down = d /\ y.lost /\ y.pc = x.pc /\ y.batch = x.batch
  BY <1>1, <1>2 DEF Row
<1> DEFINE z == [y EXCEPT !.down = <<>>]
<1>4. /\ z \in Row /\ z.up = u /\ z.down = <<>> /\ z.lost /\ z.pc = x.pc /\ z.batch = x.batch
  BY <1>2, <1>3 DEF Row
<1> HIDE DEF z
<1>5. Sound(y) /\ Sound(z)
  BY <1>3, <1>4 DEF Sound
<1>6. Follows(x, y) /\ Follows(x, z)
  BY <1>3, <1>4, <1>5 DEF Follows, IsAck
<1>7. Calm(x) => Calm(y)
  BY <1>3 DEF Calm
<1> QED
  BY <1>6, <1>7 DEF z

\* The agent takes the acknowledgement, and nothing is left.
LEMMA TakesAck ==
    ASSUME NEW x \in Row, Sound(x), IsAck(x)
    PROVE  /\ Follows(x, [x EXCEPT !.down = Tail(@)])
           /\ Calm([x EXCEPT !.down = Tail(@)])
<1> DEFINE y == [x EXCEPT !.down = Tail(@)]
<1>1. /\ x.down \in Short(Reply) /\ x.down # <<>> /\ <<>> \in Short(Reply) /\ x.pc \in Pcs
  BY Rows, Messages DEF IsAck
<1>2. Tail(x.down) = <<>>
  BY <1>1, Messages
<1>3. /\ y \in Row /\ y.up = x.up /\ y.down = <<>> /\ y.lost = x.lost /\ y.pc = x.pc
      /\ y.batch = x.batch
  BY <1>1, <1>2 DEF Row
<1> HIDE DEF y
<1>4. ~(x.pc = "ended" /\ ~x.lost)
  BY Replies DEF IsAck, Sound
<1>5. x.up = <<>> /\ x.pc \notin Busy
  BY <1>1 DEF Sound
<1>6. x.pc = "recv" \/ x.lost
  BY <1>1, <1>4, <1>5 DEF Pcs
<1>7. Sound(y)
  BY <1>3, <1>4, <1>5 DEF Sound
<1>8. Follows(x, y)
  BY <1>3, <1>7 DEF Follows, IsAck
<1>9. Calm(y)
  BY <1>3, <1>5, <1>6 DEF Calm
<1> QED
  BY <1>8, <1>9 DEF y

LEMMA Receives ==
    ASSUME NEW x \in Row, Sound(x), x.pc = "recv", x.up # <<>>
    PROVE  /\ Follows(x, [x EXCEPT !.up = Tail(@), !.batch = Head(x.up), !.pc = "store"])
           /\ ~Calm(x) /\ x.down = <<>>
<1> DEFINE y == [x EXCEPT !.up = Tail(@), !.batch = Head(x.up), !.pc = "store"]
<1>1. x.up \in Short(Batch) /\ <<>> \in Short(Batch) /\ Head(x.up) \in Batch
  BY Rows, Messages
<1>2. Tail(x.up) = <<>>
  BY <1>1, Messages
<1>3. "store" \in Pcs
  BY DEF Pcs, Busy
<1>4. /\ y \in Row /\ y.up = <<>> /\ y.down = x.down /\ y.lost = x.lost /\ y.pc = "store"
      /\ y.batch = Head(x.up)
  BY <1>1, <1>2, <1>3 DEF Row
<1> HIDE DEF y
<1>5. x.down = <<>>
  BY DEF Sound
<1>6. Sound(y)
  BY <1>4, <1>5 DEF Sound
<1>7. Follows(x, y)
  BY <1>4, <1>5, <1>6 DEF Follows, IsAck, Late
<1>8. ~Calm(x)
  BY DEF Calm
<1> QED
  BY <1>5, <1>7, <1>8 DEF y

\* A handler that holds a batch, or has one to receive, gives up.
LEMMA Ending ==
    ASSUME Inv, NEW s \in Streams, NEW c \in Codes, End(s, c),
           ~Calm(stream[s]), stream[s].down = <<>>, UNCHANGED <<agent, commits, stage>>
    PROVE  Inv'
<1>1. stream[s] \in Row
  BY DEF Inv, Shape
<1>2. CASE stream[s].lost
  <2>1. stream' = [stream EXCEPT ![s] = [Over EXCEPT !.down = stream[s].down]]
    BY <1>2 DEF End, Return
  <2>2. Follows(stream[s], [Over EXCEPT !.down = stream[s].down])
    BY <1>1, Returned
  <2> QED
    BY <2>1, <2>2, Handled
<1>3. CASE ~stream[s].lost
  <2> DEFINE y == [Over EXCEPT !.lost = FALSE, !.down = Append(stream[s].down, [code |-> c])]
  <2>1. stream' = [stream EXCEPT ![s] = y]
    BY <1>3 DEF End
  <2>2. Follows(stream[s], y)
    BY <1>1, Ended
  <2> HIDE DEF y
  <2> QED
    BY <2>1, <2>2, Handled
<1> QED
  BY <1>2, <1>3

LEMMA Holding ==
    ASSUME Inv, NEW s \in Streams
    PROVE  /\ stream[s] \in Row /\ Sound(stream[s])
           /\ stream[s].pc \in Busy => ~Calm(stream[s]) /\ stream[s].down = <<>> /\ stream[s].up = <<>>
<1>1. stream[s] \in Row /\ Sound(stream[s])
  BY DEF Inv, Shape
<1>2. "recv" \notin Busy
  BY DEF Busy, Late
<1> QED
  BY <1>1, <1>2 DEF Sound, Calm

LEMMA CodesOf == "InvalidArgument" \in Codes /\ "FailedPrecondition" \in Codes /\ "Internal" \in Codes
  BY DEF Codes

LEMMA ServerKeeps ==
    ASSUME Inv, NEW s \in Streams,
           Recv(s) \/ RecvEnds(s) \/ ReportWithoutTenant(s) \/ CallFails(s) \/ Lose(s)
    PROVE  Inv'
<1>1. stream[s] \in Row /\ Sound(stream[s])
  BY Holding
<1>2. CASE Recv(s)
  <2>1. stream[s].pc = "recv" /\ stream[s].up # <<>> /\ UNCHANGED <<agent, commits, stage>>
    BY <1>2 DEF Recv, records
  <2> DEFINE y == [stream[s] EXCEPT !.up = Tail(@), !.batch = Head(stream[s].up), !.pc = "store"]
  <2>2. Follows(stream[s], y) /\ ~Calm(stream[s]) /\ stream[s].down = <<>>
    BY <1>1, <2>1, Receives
  <2>3. CASE Head(stream[s].up).valid
    <3>1. stream' = [stream EXCEPT ![s] = y]
      BY <1>2, <2>3 DEF Recv
    <3> HIDE DEF y
    <3> QED
      BY <2>1, <2>2, <3>1, Handled
  <2>4. CASE ~Head(stream[s].up).valid
    <3>1. End(s, "InvalidArgument")
      BY <1>2, <2>4 DEF Recv
    <3> QED
      BY <2>1, <2>2, <3>1, CodesOf, Ending
  <2> QED
    BY <2>3, <2>4
<1>3. CASE RecvEnds(s)
  <2>1. /\ stream' = [stream EXCEPT ![s] = [Over EXCEPT !.down = stream[s].down]]
        /\ UNCHANGED <<agent, commits, stage>>
    BY <1>3 DEF RecvEnds, Return, records
  <2>2. /\ Follows(stream[s], [Over EXCEPT !.down = stream[s].down])
        /\ Calm(stream[s]) => Calm([Over EXCEPT !.down = stream[s].down])
    BY <1>1, Returned DEF Calm
  <2> QED
    BY <2>1, <2>2, Handled
<1>4. CASE ReportWithoutTenant(s)
  <2>1. /\ stream[s].pc = "store" /\ End(s, "FailedPrecondition")
        /\ UNCHANGED <<agent, commits, stage>>
    BY <1>4 DEF ReportWithoutTenant, records
  <2>2. ~Calm(stream[s]) /\ stream[s].down = <<>>
    BY <2>1, Holding DEF Busy
  <2> QED
    BY <2>1, <2>2, CodesOf, Ending
<1>5. CASE CallFails(s)
  <2>1. /\ stream[s].pc \in {"append", "save", "publish"} /\ End(s, "Internal")
        /\ UNCHANGED <<agent, commits, stage>>
    BY <1>5 DEF CallFails, records
  <2>2. ~Calm(stream[s]) /\ stream[s].down = <<>>
    BY <2>1, Holding DEF Busy, Late
  <2> QED
    BY <2>1, <2>2, CodesOf, Ending
<1>6. CASE Lose(s)
  <2>1. PICK x \in Cut(stream[s]) : stream' = [stream EXCEPT ![s] = x]
    BY <1>6 DEF Lose
  <2>2. UNCHANGED <<agent, commits, stage>>
    BY <1>6 DEF Lose, records
  <2>3. Follows(stream[s], x) /\ (Calm(stream[s]) => Calm(x))
    BY <1>1, Cutting
  <2> QED
    BY <2>1, <2>2, <2>3, Handled
<1> QED
  BY <1>2, <1>3, <1>4, <1>5, <1>6

LEMMA Restarted ==
    ASSUME Inv, RestartServer
    PROVE  Inv'
<1>1. PICK keep \in BOOLEAN :
        stream' = [s \in Streams |-> IF keep THEN [Over EXCEPT !.down = stream[s].down] ELSE Over]
  BY DEF RestartServer
<1>2. UNCHANGED <<agent, commits, stage>>
  BY DEF RestartServer
<1>3. stream' = [t \in Streams |-> stream'[t]]
  BY <1>1
<1>4. ASSUME NEW s \in Streams
      PROVE  Follows(stream[s], stream'[s]) /\ (Calm(stream[s]) => Calm(stream'[s]))
  <2>1. stream[s] \in Row
    BY Holding
  <2>2. stream'[s] = IF keep THEN [Over EXCEPT !.down = stream[s].down] ELSE Over
    BY <1>1
  <2>3. /\ Follows(stream[s], Over) /\ Calm(Over)
        /\ Follows(stream[s], [Over EXCEPT !.down = stream[s].down])
        /\ stream[s].down = <<>> => Calm([Over EXCEPT !.down = stream[s].down])
    BY <2>1, Returned
  <2>4. Calm(stream[s]) => stream[s].down = <<>>
    BY DEF Calm
  <2> QED
    BY <2>2, <2>3, <2>4
<1> QED
  BY <1>2, <1>3, <1>4, Unseen

-----------------------------------------------------------------------------
(* Steps of the agent that send nothing                                    *)

AgentFields == [pc : {"off", "tick", "wait", "stopped"}, id : Agents \cup {0},
                seq : 0..MaxSeq, sink : Streams \cup {0}]

LEMMA AgentTypes ==
    ASSUME Inv
    PROVE  /\ agent \in AgentFields
           /\ agent.id \in Nat /\ agent.seq \in Nat /\ agent.seq <= MaxSeq /\ MaxSeq \in Nat
           /\ \A n \in Numbers : n[1] \in Nat /\ n[2] \in Nat
           /\ agent.sink # 0 => agent.sink \in Streams
           /\ agent.pc = "wait" => agent.sink \in Streams
<1>1. agent \in AgentFields
  BY DEF Inv, Attached, AgentFields
<1>2. agent.id \in Agents \cup {0} /\ agent.seq \in 0..MaxSeq /\ agent.sink \in Streams \cup {0}
  BY <1>1 DEF AgentFields
<1>3. (\A a \in Agents \cup {0} : a \in Nat) /\ MaxSeq \in Nat
  <2>1. 0 \in Nat
    BY SMT
  <2> QED
    BY <2>1, AgentReportsAssumption
<1>4. /\ agent.id \in Nat
      /\ agent.seq \in Nat /\ agent.seq <= MaxSeq
  <2>1. agent.id \in Nat
    BY <1>2, <1>3
  <2>2. \A i \in 0..MaxSeq : i \in Nat /\ i <= MaxSeq
    BY <1>3, SMT
  <2> QED
    BY <1>2, <2>1, <2>2
<1>5. ASSUME NEW n \in Numbers PROVE n[1] \in Nat /\ n[2] \in Nat
  <2>1. n[1] \in Agents /\ n[2] \in 1..MaxSeq
    BY SMT DEF Numbers
  <2>2. \A i \in 1..MaxSeq : i \in Nat
    BY <1>3, SMT
  <2> QED
    BY <1>3, <2>1, <2>2
<1> QED
  BY <1>1, <1>2, <1>3, <1>4, <1>5 DEF Inv, Attached

LEMMA StaysDrawn ==
    ASSUME Inv, agent'.id \in Nat, agent'.seq \in Nat,
           agent'.id > agent.id \/ (agent'.id = agent.id /\ agent'.seq >= agent.seq)
    PROVE  \A n \in Numbers : Drawn(n) => Drawn(n)'
<1>1. /\ agent.id \in Nat /\ agent.seq \in Nat
      /\ \A n \in Numbers : n[1] \in Nat /\ n[2] \in Nat
  BY AgentTypes
<1>2. SUFFICES ASSUME NEW n \in Numbers, Drawn(n) PROVE Drawn(n)'
  OBVIOUS
<1>3. n[1] \in Nat /\ n[2] \in Nat
  BY <1>1
<1> QED
  BY <1>1, <1>2, <1>3, SMT DEF Drawn

LEMMA AgentKeeps ==
    ASSUME Inv, stream' = [t \in Streams |-> stream'[t]],
           \A t \in Streams : Follows(stream[t], stream'[t]),
           UNCHANGED <<commits, stage>>, agent' \in AgentFields,
           agent'.id > agent.id \/ (agent'.id = agent.id /\ agent'.seq >= agent.seq),
           agent'.pc = "wait" => agent'.sink # 0,
           agent'.pc = "tick" /\ agent'.sink # 0 => Calm(stream'[agent'.sink])
    PROVE  Inv'
<1>1. agent'.id \in Agents \cup {0} /\ agent'.seq \in 0..MaxSeq
  BY DEF AgentFields
<1>2. (\A a \in Agents \cup {0} : a \in Nat) /\ (\A i \in 0..MaxSeq : i \in Nat)
  <2>1. 0 \in Nat /\ (\A i \in 0..MaxSeq : i \in Nat)
    BY SMT
  <2> QED
    BY <2>1, AgentReportsAssumption
<1>3. agent'.id \in Nat /\ agent'.seq \in Nat
  BY <1>1, <1>2
<1>4. \A n \in Numbers : Drawn(n) => Drawn(n)'
  BY <1>3, StaysDrawn
<1>5. Shape' /\ Books'
  BY <1>4, Relay DEF Inv
<1>6. Attached'
  BY DEF Attached, AgentFields
<1> QED
  BY <1>5, <1>6 DEF Inv

LEMMA Untouched ==
    ASSUME Inv, UNCHANGED stream
    PROVE  /\ stream' = [t \in Streams |-> stream'[t]]
           /\ \A t \in Streams : Follows(stream[t], stream'[t])
<1>1. DOMAIN stream = Streams /\ stream = [t \in Streams |-> stream[t]]
  BY DEF Inv, Shape
<1>2. \A t \in Streams : Follows(stream[t], stream[t])
  BY Holding, Same
<1> QED
  BY <1>1, <1>2

LEMMA Boots ==
    ASSUME Inv, NEW a \in Agents, Boot(a)
    PROVE  Inv'
<1>1. /\ agent' = [pc |-> IF Loads(FactsOf[a]) THEN "tick" ELSE "stopped",
                   id |-> a, seq |-> 0, sink |-> 0]
      /\ a = agent.id + 1 /\ UNCHANGED <<stream, commits, stage>>
  BY DEF Boot, records
<1>2. MaxSeq \in Nat
  BY AgentTypes
<1>3. 0 \in 0..MaxSeq
  BY <1>2, SMT
<1>4. agent'.pc \in {"tick", "stopped"} /\ agent'.id = a /\ agent'.seq = 0 /\ agent'.sink = 0
  BY <1>1
<1>5. agent' \in AgentFields
  BY <1>1, <1>3, <1>4 DEF AgentFields
<1>6. agent.id \in Nat
  BY AgentTypes
<1>7. agent'.id > agent.id
  BY <1>1, <1>4, <1>6, SMT
<1>8. agent'.pc # "wait"
  BY <1>4
<1> QED
  BY <1>1, <1>4, <1>5, <1>7, <1>8, Untouched, AgentKeeps

LEMMA Retries ==
    ASSUME Inv, NEW n, Retry(n), n = agent.seq \/ (n = agent.seq + 1 /\ agent.seq < MaxSeq),
           stream' = [t \in Streams |-> stream'[t]],
           \A t \in Streams : Follows(stream[t], stream'[t]), UNCHANGED <<commits, stage>>
    PROVE  Inv'
<1>1. /\ agent \in AgentFields /\ agent.seq \in Nat /\ agent.seq <= MaxSeq /\ MaxSeq \in Nat
  BY AgentTypes
<1>2. n \in 0..MaxSeq /\ n >= agent.seq
  BY <1>1, SMT
<1>3. /\ agent' \in AgentFields /\ agent'.pc = "tick" /\ agent'.sink = 0 /\ agent'.seq = n
      /\ agent'.id = agent.id
  BY <1>1, <1>2 DEF Retry, AgentFields
<1>4. agent'.seq >= agent.seq
  BY <1>2, <1>3
<1>5. agent'.pc # "wait"
  BY <1>3
<1> QED
  BY <1>3, <1>4, <1>5, AgentKeeps

LEMMA AgentMoves ==
    ASSUME Inv, OpenFails \/ SendFails \/ RecvAck \/ RecvStatus \/ RecvLost \/ Stop
    PROVE  Inv'
<1>1. CASE OpenFails \/ SendFails
  <2>1. /\ agent.seq < MaxSeq /\ Retry(agent.seq + 1) /\ UNCHANGED <<stream, commits, stage>>
    BY <1>1 DEF OpenFails, SendFails, Ready, records
  <2> QED
    BY <2>1, Untouched, Retries
<1>2. CASE RecvLost
  <2>1. Retry(agent.seq) /\ UNCHANGED <<stream, commits, stage>>
    BY <1>2 DEF RecvLost, records
  <2> QED
    BY <2>1, Untouched, Retries
<1>3. CASE RecvAck
  <2> DEFINE s == agent.sink
             y == [stream[s] EXCEPT !.down = Tail(@)]
  <2>1. /\ agent.pc = "wait" /\ stream[s].down # <<>> /\ Head(stream[s].down) \in [ack : Batch]
        /\ agent' = [agent EXCEPT !.pc = "tick"]
        /\ stream' = [stream EXCEPT ![s] = y]
        /\ UNCHANGED <<commits, stage>>
    BY <1>3 DEF RecvAck, records
  <2>2. s \in Streams /\ agent \in AgentFields /\ agent.seq \in Nat
    BY <2>1, AgentTypes
  <2>3. stream[s] \in Row /\ Sound(stream[s])
    BY <2>2, Holding
  <2>4. Follows(stream[s], y) /\ Calm(y)
    BY <2>1, <2>3, TakesAck DEF IsAck
  <2>5. Shape
    BY DEF Inv
  <2>6. /\ agent' \in AgentFields /\ agent'.pc = "tick" /\ agent'.sink = s
        /\ agent'.seq = agent.seq /\ agent'.id = agent.id
    BY <2>1, <2>2 DEF AgentFields
  <2> HIDE DEF s, y
  <2>7. /\ stream' = [t \in Streams |-> stream'[t]] /\ stream'[s] = y
        /\ \A t \in Streams : Follows(stream[t], stream'[t])
    BY <2>1, <2>2, <2>4, <2>5, Changed
  <2>8. agent'.seq >= agent.seq
    BY <2>2, <2>6, SMT
  <2>9. agent'.pc # "wait" /\ Calm(stream'[agent'.sink])
    BY <2>4, <2>6, <2>7
  <2> QED
    BY <2>1, <2>6, <2>7, <2>8, <2>9, AgentKeeps
<1>4. CASE RecvStatus
  <2> DEFINE s == agent.sink
  <2>1. /\ agent.pc = "wait" /\ stream' = [stream EXCEPT ![s] = Over]
        /\ agent' = [agent EXCEPT !.pc = "stopped", !.sink = 0] \/ Retry(agent.seq)
        /\ UNCHANGED <<commits, stage>>
    BY <1>4 DEF RecvStatus, records
  <2>2. s \in Streams /\ agent \in AgentFields /\ agent.seq \in Nat
    BY <2>1, AgentTypes
  <2>3. Shape /\ Follows(stream[s], Over)
    BY <2>2, Holding, Returned DEF Inv
  <2> HIDE DEF s
  <2>4. /\ stream' = [t \in Streams |-> stream'[t]]
        /\ \A t \in Streams : Follows(stream[t], stream'[t])
    BY <2>1, <2>2, <2>3, Changed
  <2>5. CASE Retry(agent.seq)
    BY <2>1, <2>4, <2>5, Retries
  <2>6. CASE agent' = [agent EXCEPT !.pc = "stopped", !.sink = 0]
    <3>1. /\ agent' \in AgentFields /\ agent'.pc = "stopped"
          /\ agent'.seq = agent.seq /\ agent'.id = agent.id
      BY <2>2, <2>6 DEF AgentFields
    <3>2. agent'.seq >= agent.seq
      BY <2>2, <3>1, SMT
    <3>3. agent'.pc # "wait" /\ agent'.pc # "tick"
      BY <3>1
    <3> QED
      BY <2>1, <2>4, <3>1, <3>2, <3>3, AgentKeeps
  <2> QED
    BY <2>1, <2>5, <2>6
<1>5. CASE Stop
  <2>1. /\ agent' = [agent EXCEPT !.pc = "off", !.sink = 0] /\ UNCHANGED <<commits, stage>>
    BY <1>5 DEF Stop, records
  <2>2. agent \in AgentFields /\ agent.seq \in Nat /\ (agent.sink # 0 => agent.sink \in Streams)
    BY AgentTypes
  <2>3. /\ stream' = [t \in Streams |-> stream'[t]]
        /\ \A t \in Streams : Follows(stream[t], stream'[t])
    <3>1. CASE agent.sink = 0
      <4>1. UNCHANGED stream
        BY <1>5, <3>1 DEF Stop
      <4> QED
        BY <4>1, Untouched
    <3>2. CASE agent.sink # 0
      <4>1. PICK x \in Cut(stream[agent.sink]) :
              stream' = [stream EXCEPT ![agent.sink] = [x EXCEPT !.down = <<>>]]
        BY <1>5, <3>2 DEF Stop
      <4>2. agent.sink \in Streams /\ Shape
        BY <2>2, <3>2 DEF Inv
      <4>3. stream[agent.sink] \in Row /\ Sound(stream[agent.sink])
        BY <4>2, Holding
      <4>4. Follows(stream[agent.sink], [x EXCEPT !.down = <<>>])
        BY <4>3, Cutting
      <4> QED
        BY <4>1, <4>2, <4>4, Changed
    <3> QED
      BY <3>1, <3>2
  <2>4. /\ agent' \in AgentFields /\ agent'.pc = "off"
        /\ agent'.seq = agent.seq /\ agent'.id = agent.id
    BY <2>1, <2>2 DEF AgentFields
  <2>5. agent'.seq >= agent.seq
    BY <2>2, <2>4, SMT
  <2>6. agent'.pc # "wait" /\ agent'.pc # "tick"
    BY <2>4
  <2> QED
    BY <2>1, <2>3, <2>4, <2>5, <2>6, AgentKeeps
<1> QED
  BY <1>1, <1>2, <1>3, <1>4, <1>5

-----------------------------------------------------------------------------
(* A batch is sent: its number is new                                      *)

LEMMA NewNumber ==
    ASSUME Inv, NEW s \in Streams, NEW b \in Batch, b.agent = agent.id, b.seq = agent.seq + 1,
           Wait(s, b)
    PROVE  /\ No(b) \in Numbers /\ ~Drawn(No(b)) /\ Drawn(No(b))'
           /\ \A n \in Numbers : Drawn(n) => Drawn(n)'
           /\ agent' \in AgentFields /\ agent'.pc = "wait" /\ agent'.sink = s /\ s # 0
           /\ agent'.id = agent.id /\ agent'.seq >= agent.seq
<1>1. /\ agent \in AgentFields /\ agent.id \in Nat /\ agent.seq \in Nat /\ MaxSeq \in Nat
  BY AgentTypes
<1>2. No(b) \in Numbers /\ No(b)[1] = b.agent /\ No(b)[2] = b.seq /\ b.seq \in 1..MaxSeq
  BY NumberOf
<1>3. b.seq \in 0..MaxSeq /\ b.seq \in Nat /\ b.seq >= agent.seq
  BY <1>1, <1>2, SMT
<1>4. /\ agent' \in AgentFields /\ agent'.pc = "wait" /\ agent'.sink = s /\ agent'.id = agent.id
      /\ agent'.seq = b.seq
  BY <1>1, <1>3 DEF Wait, AgentFields
<1>5. agent'.seq >= agent.seq /\ agent'.id \in Nat /\ agent'.seq \in Nat
  BY <1>1, <1>3, <1>4
<1>6. \A n \in Numbers : Drawn(n) => Drawn(n)'
  BY <1>4, <1>5, StaysDrawn
<1>7. ~Drawn(No(b))
  BY <1>1, <1>2, SMT DEF Drawn
<1>8. Drawn(No(b))'
  <2>1. No(b)[1] = agent'.id /\ No(b)[2] = agent'.seq
    BY <1>2, <1>4
  <2>2. No(b)[2] <= agent'.seq
    BY <1>5, <2>1, SMT
  <2> QED
    BY <2>1, <2>2 DEF Drawn
<1>9. s # 0
  BY AgentReportsAssumption
<1> QED
  BY <1>2, <1>4, <1>5, <1>6, <1>7, <1>8, <1>9

LEMMA Sending ==
    ASSUME Inv, NEW s \in Streams, NEW b \in Batch, b.agent = agent.id, b.seq = agent.seq + 1,
           Wait(s, b), NEW y \in Row, y.pc = "recv", y.up = <<b>>, y.down = <<>>,
           stream' = [stream EXCEPT ![s] = y], UNCHANGED <<commits, stage>>
    PROVE  Inv'
<1>1. /\ No(b) \in Numbers /\ ~Drawn(No(b)) /\ Drawn(No(b))'
      /\ \A n \in Numbers : Drawn(n) => Drawn(n)'
      /\ agent' \in AgentFields /\ agent'.pc = "wait" /\ agent'.sink = s /\ s # 0
  BY NewNumber
<1>2. /\ y.up # <<>> /\ Head(y.up) = b
  BY Messages
<1>3. Sound(y) /\ ~IsAck(y) /\ y.pc \notin Busy
  BY DEF Sound, IsAck, Busy, Late
<1>4. /\ stream' \in [Streams -> Row] /\ stream'[s] = y
      /\ \A t \in Streams : t # s => stream'[t] = stream[t]
  BY DEF Inv, Shape
<1>5. Shape'
  <2>1. ASSUME NEW t \in Streams PROVE Sound(stream'[t])
    BY <1>3, <1>4, Holding
  <2> QED
    BY <1>4, <2>1 DEF Shape
<1>6. Attached'
  BY <1>1 DEF Attached, AgentFields
<1>7. \A n : Carries(y, n) => n = No(b)
  BY <1>2, <1>3 DEF Carries
<1>8. \A t \in Streams : ~Carries(stream[t], No(b))
  BY <1>1 DEF Inv, Books, Unique
<1>9. commits[No(b)] = 0
  BY <1>1 DEF Inv, Books, Unique
<1>10. Unique'
  <2>1. ASSUME NEW t \in Streams, NEW u \in Streams, NEW n \in Numbers,
               Carries(stream'[t], n), Carries(stream'[u], n)
        PROVE  t = u
    <3>1. CASE t = s \/ u = s
      BY <2>1, <3>1, <1>4, <1>7, <1>8
    <3>2. CASE t # s /\ u # s
      BY <2>1, <3>2, <1>4 DEF Inv, Books, Unique
    <3> QED
      BY <3>1, <3>2
  <2>2. ASSUME NEW t \in Streams, NEW n \in Numbers, Carries(stream'[t], n)
        PROVE  Drawn(n)'
    <3>1. CASE t = s
      BY <2>2, <3>1, <1>1, <1>4, <1>7
    <3>2. CASE t # s
      BY <2>2, <3>2, <1>1, <1>4 DEF Inv, Books, Unique
    <3> QED
      BY <3>1, <3>2
  <2>3. ASSUME NEW n \in Numbers, ~Drawn(n)' PROVE commits'[n] = 0
    BY <2>3, <1>1 DEF Inv, Books, Unique
  <2> QED
    BY <2>1, <2>2, <2>3 DEF Unique
<1>11. Progress'
  <2>1. ASSUME NEW t \in Streams
        PROVE  /\ stream'[t].up # <<>> => commits'[No(Head(stream'[t].up))] = 0
               /\ stream'[t].pc = "store" => commits'[No(stream'[t].batch)] = 0
               /\ stream'[t].pc \in Late => /\ commits'[No(stream'[t].batch)] = 1
                                            /\ stage'[No(stream'[t].batch)] = Stage[stream'[t].pc]
    <3>1. CASE t = s
      BY <3>1, <1>2, <1>3, <1>4, <1>9 DEF Busy
    <3>2. CASE t # s
      BY <3>2, <1>4 DEF Inv, Books, Progress
    <3> QED
      BY <3>1, <3>2
  <2> QED
    BY <2>1 DEF Progress
<1>12. Stored'
  <2>1. SUFFICES ASSUME NEW t \in Streams, IsAck(stream'[t])
                 PROVE  Done(No(Head(stream[t].down).ack))'
    BY DEF Stored
  <2>2. t # s /\ stream'[t] = stream[t]
    BY <2>1, <1>3, <1>4
  <2>3. Done(No(Head(stream[t].down).ack))
    BY <2>1, <2>2 DEF Inv, Books, Stored
  <2>4. No(Head(stream[t].down).ack) # No(b)
    <3>1. 0 # 1
      BY SMT
    <3> QED
      BY <2>3, <1>9, <3>1 DEF Done
  <2> QED
    BY <2>2, <2>3, <2>4, <1>4, <1>7 DEF Done
<1>13. Counts'
  BY DEF Inv, Books, Counts
<1> QED
  BY <1>5, <1>6, <1>10, <1>11, <1>12, <1>13 DEF Inv, Books

LEMMA Sends ==
    ASSUME Inv, NEW b \in Batch, Send(b) \/ \E s \in Streams : OpenAndSend(s, b)
    PROVE  Inv'
<1>1. CASE \E s \in Streams : OpenAndSend(s, b)
  <2>1. PICK s \in Streams : OpenAndSend(s, b)
    BY <1>1
  <2> DEFINE y == [pc |-> "recv", up |-> <<b>>, down |-> <<>>, lost |-> FALSE, batch |-> b]
  <2>2. /\ b.agent = agent.id /\ b.seq = agent.seq + 1 /\ Wait(s, b)
        /\ stream' = [stream EXCEPT ![s] = y] /\ UNCHANGED <<commits, stage>>
    BY <2>1 DEF OpenAndSend, NextBatch, records
  <2>3. <<b>> \in Short(Batch) /\ <<>> \in Short(Reply) /\ "recv" \in Pcs
    BY Messages DEF Pcs
  <2>4. y \in Row /\ y.pc = "recv" /\ y.up = <<b>> /\ y.down = <<>>
    BY <2>3 DEF Row
  <2> HIDE DEF y
  <2> QED
    BY <2>2, <2>4, Sending
<1>2. CASE Send(b)
  <2> DEFINE s == agent.sink
             y == [stream[s] EXCEPT !.up = Append(@, b)]
  <2>1. /\ agent.pc = "tick" /\ s # 0 /\ Wait(s, b) /\ UNCHANGED <<commits, stage>>
        /\ b.agent = agent.id /\ b.seq = agent.seq + 1
    BY <1>2 DEF Send, Ready, NextBatch, records
  <2>2. s \in Streams
    BY <2>1, AgentTypes
  <2>3. stream[s] \in Row /\ Calm(stream[s])
    BY <2>1, <2>2, Holding DEF Inv, Attached
  <2>4. CASE stream[s].lost
    <3>1. UNCHANGED stream
      BY <1>2, <2>4 DEF Send
    <3>2. /\ agent' \in AgentFields /\ agent'.pc = "wait" /\ agent'.sink = s /\ s # 0
          /\ agent'.id = agent.id /\ agent'.seq >= agent.seq
      BY <2>1, <2>2, NewNumber
    <3>3. agent'.pc # "tick" /\ agent'.sink # 0
      BY <3>2
    <3> QED
      BY <2>1, <3>1, <3>2, <3>3, Untouched, AgentKeeps
  <2>5. CASE ~stream[s].lost
    <3>1. stream' = [stream EXCEPT ![s] = y]
      BY <1>2, <2>5 DEF Send
    <3>2. stream[s].up = <<>> /\ stream[s].down = <<>> /\ stream[s].pc = "recv"
      BY <2>3, <2>5 DEF Calm
    <3>3. Append(stream[s].up, b) = <<b>> /\ <<b>> \in Short(Batch)
      BY <3>2, Messages
    <3>4. y \in Row /\ y.pc = "recv" /\ y.up = <<b>> /\ y.down = <<>>
      BY <2>3, <3>2, <3>3 DEF Row
    <3> HIDE DEF y, s
    <3> QED
      BY <2>1, <2>2, <3>1, <3>4, Sending
  <2> QED
    BY <2>4, <2>5
<1> QED
  BY <1>1, <1>2

-----------------------------------------------------------------------------
(* A handler takes its batch a step further                                *)

LEMMA Processing ==
    ASSUME Inv, NEW s \in Streams, stream[s].pc \in Busy, NEW k, k = No(stream[s].batch),
           NEW y \in Row, Sound(y), y.up = <<>>, NEW c \in {0, 1}, NEW g \in 0..4,
           stream' = [stream EXCEPT ![s] = y], commits' = [commits EXCEPT ![k] = c],
           stage' = [stage EXCEPT ![k] = g], UNCHANGED agent,
           y.pc \in Busy => y.batch = stream[s].batch,
           y.pc = "store" => c = 0,
           y.pc \in Late => c = 1 /\ g = Stage[y.pc],
           IsAck(y) => No(Head(y.down).ack) = k /\ c = 1 /\ g = 4 /\ y.pc \notin Busy
    PROVE  Inv'
<1>1. stream[s] \in Row /\ ~Calm(stream[s]) /\ k \in Numbers
  BY Holding, Rows
<1>2. /\ stream' \in [Streams -> Row] /\ stream'[s] = y
      /\ \A t \in Streams : t # s => stream'[t] = stream[t]
  BY DEF Inv, Shape
<1>3. /\ commits' \in [Numbers -> {0, 1}] /\ commits'[k] = c
      /\ \A n \in Numbers : n # k => commits'[n] = commits[n]
  BY <1>1 DEF Inv, Books, Counts
<1>4. /\ stage' \in [Numbers -> 0..4] /\ stage'[k] = g
      /\ \A n \in Numbers : n # k => stage'[n] = stage[n]
  BY <1>1 DEF Inv, Books, Counts
<1>5. Carries(stream[s], k) /\ Drawn(k)
  BY <1>1 DEF Carries, Inv, Books, Unique
<1>6. \A t \in Streams : t # s => ~Carries(stream[t], k)
  BY <1>1, <1>5 DEF Inv, Books, Unique
<1>7. \A n : Carries(y, n) => n = k
  BY DEF Carries
<1>8. Shape'
  <2>1. ASSUME NEW t \in Streams PROVE Sound(stream'[t])
    BY <1>2, Holding
  <2> QED
    BY <1>2, <2>1 DEF Shape
<1>9. Attached'
  <2>1. agent.sink # 0 => agent.sink \in Streams
    BY AgentTypes
  <2>2. agent.pc = "tick" /\ agent.sink # 0 => agent.sink # s
    BY <1>1 DEF Inv, Attached
  <2> QED
    BY <2>1, <2>2, <1>2 DEF Inv, Attached
<1>10. \A t \in Streams, n \in Numbers : Carries(stream'[t], n) => Carries(stream[t], n)
  BY <1>2, <1>5, <1>7
<1>11. \A n \in Numbers : Drawn(n)' <=> Drawn(n)
  BY DEF Drawn
<1>12. Unique'
  BY <1>3, <1>5, <1>10, <1>11 DEF Inv, Books, Unique
<1>13. Progress'
  <2>1. ASSUME NEW t \in Streams
        PROVE  /\ stream'[t].up # <<>> => commits'[No(Head(stream'[t].up))] = 0
               /\ stream'[t].pc = "store" => commits'[No(stream'[t].batch)] = 0
               /\ stream'[t].pc \in Late => /\ commits'[No(stream'[t].batch)] = 1
                                            /\ stage'[No(stream'[t].batch)] = Stage[stream'[t].pc]
    <3>1. CASE t = s
      BY <3>1, <1>2, <1>3, <1>4 DEF Busy
    <3>2. CASE t # s
      <4>1. stream[t] \in Row /\ stream'[t] = stream[t] /\ ~Carries(stream[t], k)
        BY <3>2, <1>2, <1>6, Holding
      <4>2. stream[t].up # <<>> => No(Head(stream[t].up)) \in Numbers /\ No(Head(stream[t].up)) # k
        BY <4>1, Rows DEF Carries
      <4>3. stream[t].pc \in Busy => No(stream[t].batch) \in Numbers /\ No(stream[t].batch) # k
        BY <4>1, Rows DEF Carries
      <4> QED
        BY <4>1, <4>2, <4>3, <1>3, <1>4 DEF Inv, Books, Progress, Busy
    <3> QED
      BY <3>1, <3>2
  <2> QED
    BY <2>1 DEF Progress
<1>14. Stored'
  <2>1. SUFFICES ASSUME NEW t \in Streams, IsAck(stream'[t])
                 PROVE  Done(No(Head(stream[t].down).ack))'
    BY DEF Stored
  <2>2. CASE t = s
    <3>1. No(Head(y.down).ack) = k /\ c = 1 /\ g = 4 /\ y.pc \notin Busy
      BY <2>1, <2>2, <1>2
    <3>2. \A u \in Streams : ~Carries(stream'[u], k)
      BY <3>1, <1>2, <1>6 DEF Carries
    <3> QED
      BY <2>2, <3>1, <3>2, <1>2, <1>3, <1>4 DEF Done
  <2>3. CASE t # s
    <3> DEFINE m == No(Head(stream[t].down).ack)
    <3>1. stream'[t] = stream[t] /\ IsAck(stream[t])
      BY <2>1, <2>3, <1>2
    <3>2. Done(m)
      BY <3>1 DEF Inv, Books, Stored
    <3>3. m \in Numbers
      <4>1. Head(stream[t].down) \in [ack : Batch]
        BY <3>1 DEF IsAck
      <4>2. Head(stream[t].down).ack \in Batch
        BY <4>1
      <4> QED
        BY <4>2, NumberOf
    <3>4. m # k
      BY <3>2, <1>5 DEF Done
    <3>5. commits'[m] = 1 /\ stage'[m] = 4 /\ \A u \in Streams : ~Carries(stream'[u], m)
      BY <3>2, <3>3, <3>4, <1>3, <1>4, <1>10 DEF Done
    <3> QED
      BY <3>1, <3>5 DEF Done
  <2> QED
    BY <2>2, <2>3
<1>15. Counts'
  BY <1>3, <1>4 DEF Counts
<1> QED
  BY <1>8, <1>9, <1>12, <1>13, <1>14, <1>15 DEF Inv, Books

LEMMA StageOf ==
    /\ Stage["append"] = 1 /\ Stage["save"] = 2 /\ Stage["publish"] = 3 /\ Stage["send"] = 4
  BY DEF Stage

\* The handler goes on to p, with the batch committed once and in the stage of p.
LEMMA Advancing ==
    ASSUME Inv, NEW s \in Streams, stream[s].pc \in Busy, NEW p \in Late, Goto(s, p),
           commits' = [commits EXCEPT ![No(stream[s].batch)] = 1],
           stage' = [stage EXCEPT ![No(stream[s].batch)] = Stage[p]], UNCHANGED agent
    PROVE  Inv'
<1> DEFINE x == stream[s]
           y == [x EXCEPT !.pc = p]
           k == No(x.batch)
<1>1. x \in Row /\ Sound(x) /\ x.up = <<>> /\ x.down = <<>>
  BY Holding
<1>2. p \in Pcs /\ p \in Busy /\ p # "recv" /\ p # "ended" /\ p # "store"
  BY DEF Pcs, Busy, Late
<1>3. y \in Row /\ y.pc = p /\ y.up = <<>> /\ y.down = <<>> /\ y.batch = x.batch
  BY <1>1, <1>2 DEF Row
<1>4. stream' = [stream EXCEPT ![s] = y]
  BY DEF Goto
<1>5. Stage[p] \in 0..4
  <2>1. {1, 2, 3, 4} \subseteq 0..4
    BY SMT
  <2> QED
    BY <2>1, StageOf DEF Late
<1> HIDE DEF y
<1>6. Sound(y) /\ ~IsAck(y)
  BY <1>2, <1>3 DEF Sound, IsAck
<1> QED
  BY <1>2, <1>3, <1>4, <1>5, <1>6, Processing

LEMMA Commits ==
    ASSUME Inv, NEW s \in Streams, stream[s].pc = "store", Committed(s)
    PROVE  /\ commits' = [commits EXCEPT ![No(stream[s].batch)] = 1]
           /\ stage' = [stage EXCEPT ![No(stream[s].batch)] = 1]
<1> DEFINE k == No(stream[s].batch)
<1>1. commits[k] = 0
  BY DEF Inv, Books, Progress
<1>2. commits' = [commits EXCEPT ![k] = commits[k] + 1] /\ stage' = [stage EXCEPT ![k] = 1]
  BY DEF Committed
<1>3. 0 + 1 = 1
  BY SMT
<1> QED
  BY <1>1, <1>2, <1>3

LEMMA Reports ==
    ASSUME Inv, NEW s \in Streams, ReportMetrics(s)
    PROVE  Inv'
<1>1. stream[s].pc = "store" /\ Committed(s) /\ Goto(s, "append") /\ UNCHANGED agent
  BY DEF ReportMetrics
<1>2. /\ commits' = [commits EXCEPT ![No(stream[s].batch)] = 1]
      /\ stage' = [stage EXCEPT ![No(stream[s].batch)] = Stage["append"]]
  BY <1>1, Commits, StageOf
<1>3. stream[s].pc \in Busy /\ "append" \in Late
  BY <1>1 DEF Busy, Late
<1> QED
  BY <1>1, <1>2, <1>3, Advancing

LEMMA Calls ==
    ASSUME Inv, NEW s \in Streams,
           AppendHeartbeatMetrics(s) \/ SaveMetricSnapshot(s) \/ PublishHostUpsert(s)
    PROVE  Inv'
<1>1. PICK p \in {"save", "publish", "send"} :
        /\ stream[s].pc \in Late /\ Goto(s, p) /\ UNCHANGED <<agent, commits>>
        /\ stage' = [stage EXCEPT ![No(stream[s].batch)] = Stage[p]]
  <2>1. CASE AppendHeartbeatMetrics(s)
    BY <2>1, StageOf DEF AppendHeartbeatMetrics, Call, Late
  <2>2. CASE SaveMetricSnapshot(s)
    BY <2>2, StageOf DEF SaveMetricSnapshot, Call, Late
  <2>3. CASE PublishHostUpsert(s)
    BY <2>3, StageOf DEF PublishHostUpsert, Call, Late
  <2> QED
    BY <2>1, <2>2, <2>3
<1>2. p \in Late /\ stream[s].pc \in Busy
  BY <1>1 DEF Late, Busy
<1>3. commits' = [commits EXCEPT ![No(stream[s].batch)] = 1]
  <2>1. commits[No(stream[s].batch)] = 1 /\ commits \in [Numbers -> {0, 1}]
    BY <1>1 DEF Inv, Books, Progress, Counts
  <2>2. commits = [commits EXCEPT ![No(stream[s].batch)] = 1]
    BY <2>1
  <2> QED
    BY <1>1, <2>2
<1> QED
  BY <1>1, <1>2, <1>3, Advancing

\* The answer to a COMMIT is lost: the batch is stored, and the agent is told
\* that it is not.
LEMMA ReportsFailing ==
    ASSUME Inv, NEW s \in Streams, ReportFails(s)
    PROVE  Inv'
<1>1. stream[s].pc = "store" /\ End(s, "Internal") /\ UNCHANGED agent
  BY DEF ReportFails
<1>2. /\ stream[s] \in Row /\ ~Calm(stream[s]) /\ stream[s].down = <<>> /\ stream[s].pc \in Busy
  BY <1>1, Holding DEF Busy
<1>3. CASE UNCHANGED <<commits, stage>>
  BY <1>1, <1>2, <1>3, CodesOf, Ending
<1>4. CASE Committed(s)
  <2> DEFINE k == No(stream[s].batch)
  <2>1. commits' = [commits EXCEPT ![k] = 1] /\ stage' = [stage EXCEPT ![k] = 1]
    BY <1>1, <1>4, Commits
  <2>2. PICK y : /\ stream' = [stream EXCEPT ![s] = y] /\ y \in Row /\ Sound(y)
                 /\ y.up = <<>> /\ y.pc = "ended" /\ ~IsAck(y)
    <3>1. CASE stream[s].lost
      <4> DEFINE z == [Over EXCEPT !.down = stream[s].down]
      <4>1. stream' = [stream EXCEPT ![s] = z]
        BY <1>1, <3>1 DEF End, Return
      <4>2. Follows(stream[s], z)
        BY <1>2, Returned
      <4>3. z.up = <<>> /\ z.pc = "ended" /\ z.down = stream[s].down
        BY OverRow DEF Row
      <4> HIDE DEF z
      <4> QED
        BY <1>2, <4>1, <4>2, <4>3 DEF Follows, IsAck
    <3>2. CASE ~stream[s].lost
      <4> DEFINE r == [code |-> "Internal"]
                 z == [Over EXCEPT !.lost = FALSE, !.down = Append(stream[s].down, r)]
      <4>1. stream' = [stream EXCEPT ![s] = z]
        BY <1>1, <3>2 DEF End
      <4>2. Follows(stream[s], z)
        BY <1>2, CodesOf, Ended
      <4>3. z.up = <<>> /\ z.pc = "ended" /\ z.down = Append(stream[s].down, r)
        BY OverRow DEF Row
      <4>4. r \in [code : Codes] /\ r \in Reply
        BY CodesOf, Replies
      <4> HIDE DEF z, r
      <4>5. z.down = <<r>> /\ Head(z.down) = r
        <5>1. Append(<<>>, r) = <<r>> /\ Head(<<r>>) = r
          BY <4>4, Messages
        <5> QED
          BY <1>2, <4>3, <5>1
      <4>6. ~IsAck(z)
        BY <4>4, <4>5, Replies DEF IsAck
      <4> QED
        BY <4>1, <4>2, <4>3, <4>6 DEF Follows
    <3> QED
      BY <3>1, <3>2
  <2>3. y.pc \notin Busy /\ y.pc # "store" /\ y.pc \notin Late
    BY <2>2 DEF Busy, Late
  <2>4. 1 \in {0, 1} /\ 1 \in 0..4
    BY SMT
  <2> QED
    BY <1>1, <1>2, <2>1, <2>2, <2>3, <2>4, Processing
<1> QED
  BY <1>3, <1>4 DEF ReportFails

LEMMA Acknowledges ==
    ASSUME Inv, NEW s \in Streams, SendAck(s)
    PROVE  Inv'
<1> DEFINE x == stream[s]
           k == No(x.batch)
<1>1. x.pc = "send" /\ UNCHANGED <<agent, commits, stage>>
  BY DEF SendAck, records
<1>2. x \in Row /\ ~Calm(x) /\ x.down = <<>> /\ x.up = <<>> /\ x.pc \in Busy
  BY <1>1, Holding DEF Busy, Late
<1>3. CASE x.lost
  <2>1. stream' = [stream EXCEPT ![s] = [Over EXCEPT !.down = stream[s].down]]
    BY <1>3 DEF SendAck, Return
  <2>2. Follows(stream[s], [Over EXCEPT !.down = stream[s].down])
    BY <1>2, Returned
  <2> QED
    BY <1>1, <1>2, <2>1, <2>2, Handled
<1>4. CASE ~x.lost
  <2> DEFINE r == [ack |-> x.batch]
             y == [x EXCEPT !.pc = "recv", !.down = Append(@, r)]
  <2>1. stream' = [stream EXCEPT ![s] = y]
    BY <1>2, <1>4 DEF SendAck, Row, Inv, Shape
  <2>2. x.batch \in Batch
    BY <1>2, Rows
  <2>3. r \in Reply /\ r \in [ack : Batch] /\ r.ack = x.batch
    BY <2>2, Replies
  <2> HIDE DEF r
  <2>4. Append(<<>>, r) = <<r>> /\ Head(<<r>>) = r /\ <<r>> # <<>> /\ <<r>> \in Short(Reply)
    BY <2>3, Messages
  <2>5. Append(x.down, r) \in Short(Reply) /\ "recv" \in Pcs
    BY <1>2, <2>4 DEF Pcs
  <2>6. y \in Row /\ y.pc = "recv" /\ y.up = <<>> /\ y.down = Append(x.down, r)
    BY <1>2, <2>5 DEF Row
  <2>7. Head(y.down) = r
    BY <1>2, <2>4, <2>6
  <2> HIDE DEF y
  <2>8. "recv" \notin Busy /\ "recv" \notin Late /\ "send" \in Late
    BY DEF Busy, Late
  <2>9. Sound(y)
    BY <2>6, <2>8 DEF Sound
  <2>10. commits[k] = 1 /\ stage[k] = 4
    BY <1>1, <2>8, StageOf DEF Inv, Books, Progress
  <2>11. commits = [commits EXCEPT ![k] = 1] /\ stage = [stage EXCEPT ![k] = 4]
    <3>1. commits \in [Numbers -> {0, 1}] /\ stage \in [Numbers -> 0..4]
      BY DEF Inv, Books, Counts
    <3> QED
      BY <2>10, <3>1
  <2>12. commits' = [commits EXCEPT ![k] = 1] /\ stage' = [stage EXCEPT ![k] = 4]
    BY <1>1, <2>11
  <2>13. No(Head(y.down).ack) = k /\ y.pc \notin Busy /\ y.pc # "store" /\ y.pc \notin Late
    BY <2>3, <2>6, <2>7, <2>8
  <2>14. 1 \in {0, 1} /\ 4 \in 0..4
    BY SMT
  <2> QED
    BY <1>1, <1>2, <2>1, <2>6, <2>9, <2>12, <2>13, <2>14, Processing
<1> QED
  BY <1>3, <1>4

-----------------------------------------------------------------------------
(* The invariant                                                           *)

LEMMA InitInv == Init => Inv
<1> SUFFICES ASSUME Init PROVE Inv
  OBVIOUS
<1>1. stream = [s \in Streams |-> Over] /\ commits = [n \in Numbers |-> 0] /\ stage = [n \in Numbers |-> 0]
  BY DEF Init
<1>2. agent = [pc |-> "off", id |-> 0, seq |-> 0, sink |-> 0]
  BY DEF Init
<1>3. /\ Over \in Row /\ Over.pc = "ended" /\ Over.up = <<>> /\ Over.down = <<>> /\ Over.lost
      /\ Sound(Over)
  BY OverRow
<1>4. Shape
  BY <1>1, <1>3 DEF Shape
<1>5. 0 \in 0..MaxSeq /\ 0 \in 0..4
  <2>1. MaxSeq \in Nat
    BY AgentReportsAssumption
  <2> QED
    BY <2>1, SMT
<1>6. Attached
  BY <1>2, <1>5 DEF Attached
<1>7. \A s \in Streams : stream[s] = Over
  BY <1>1
<1>8. "ended" \notin Busy /\ "ended" \notin Late
  BY DEF Busy, Late
<1>9. ~IsAck(Over) /\ \A n : ~Carries(Over, n)
  BY <1>3, <1>8 DEF IsAck, Carries
<1>10. Unique /\ Stored
  BY <1>1, <1>7, <1>9 DEF Unique, Stored
<1>11. Progress
  BY <1>3, <1>7, <1>8 DEF Progress
<1>12. Counts
  BY <1>1, <1>5 DEF Counts
<1> QED
  BY <1>4, <1>6, <1>10, <1>11, <1>12 DEF Inv, Books

LEMMA StepInv == Inv /\ [Next]_vars => Inv'
<1> SUFFICES ASSUME Inv, [Next]_vars PROVE Inv'
  OBVIOUS
<1>1. CASE \E a \in Agents : Boot(a)
  BY <1>1, Boots
<1>2. CASE Cycle \/ OpenFails \/ Answer \/ Stop
  BY <1>2, Sends, AgentMoves DEF Cycle, Answer
<1>3. CASE \E s \in Streams : Handle(s) \/ ReportFails(s) \/ CallFails(s) \/ Lose(s)
  <2>1. PICK s \in Streams : Handle(s) \/ ReportFails(s) \/ CallFails(s) \/ Lose(s)
    BY <1>3
  <2> QED
    BY <2>1, ServerKeeps, Reports, Calls, Acknowledges, ReportsFailing DEF Handle
<1>4. CASE RestartServer
  BY <1>4, Restarted
<1>5. CASE UNCHANGED vars
  <2>1. UNCHANGED <<agent, stream, commits, stage>>
    BY <1>5 DEF vars
  <2>2. \A t \in Streams : Calm(stream[t]) => Calm(stream'[t])
    BY <2>1
  <2> QED
    BY <2>1, <2>2, Untouched, Unseen
<1> QED
  BY <1>1, <1>2, <1>3, <1>4, <1>5 DEF Next

\* Every step of the agent, of a handler and of the network keeps each batch in
\* one place and its records in step with where it is.
THEOREM SpecInv == Spec => []Inv
  BY InitInv, StepInv, PTL DEF Spec

-----------------------------------------------------------------------------
(* The theorems                                                            *)

\* No batch is stored twice, for any number of starts, lost connections,
\* restarts and COMMITs whose answer is lost: pushMetrics draws a new number for
\* every cycle, and a batch is on one stream only until it is acknowledged.
THEOREM StoredAtMostOnce == Spec => []StoredOnce
<1>1. Inv => StoredOnce
  <2>1. 0 <= 1 /\ 1 <= 1
    BY SMT
  <2> QED
    BY <2>1 DEF Inv, Books, Counts, StoredOnce
<1> QED
  BY <1>1, SpecInv, PTL

\* An acknowledgement on its way is for a batch that processMetricBatch has
\* committed, put into its windows and snapshot, and published.
THEOREM AcknowledgedIsStored == Spec => []AckedMeansStored
<1>1. Inv => AckedMeansStored
  <2> SUFFICES ASSUME Inv, NEW n \in Acked PROVE commits[n] > 0 /\ stage[n] = 4
    BY DEF AckedMeansStored
  <2>1. PICK s \in Streams : n \in {No(r.ack) : r \in Range(stream[s].down) \cap [ack : Batch]}
    BY DEF Acked
  <2>2. PICK r \in Range(stream[s].down) \cap [ack : Batch] : n = No(r.ack)
    BY <2>1
  <2>3. PICK i \in DOMAIN stream[s].down : r = stream[s].down[i]
    BY <2>2 DEF Range
  <2>4. stream[s].down \in Short(Reply)
    BY Holding, Rows
  <2>5. r = Head(stream[s].down) /\ stream[s].down # <<>>
    BY <2>3, <2>4, Messages
  <2>6. Done(n)
    BY <2>2, <2>5 DEF Inv, Books, Stored, IsAck
  <2>7. 1 > 0
    BY SMT
  <2> QED
    BY <2>6, <2>7 DEF Done
<1> QED
  BY <1>1, SpecInv, PTL

\* Between two cycles the agent's stream is empty and its handler waits, or the
\* connection is gone: pushMetricsGRPC never reads a reply to an earlier batch.
THEOREM QuietBetweenCycles == Spec => []SinkIsQuiet
<1>1. Inv => SinkIsQuiet
  BY DEF Inv, Attached, Calm, SinkIsQuiet
<1> QED
  BY <1>1, SpecInv, PTL

-----------------------------------------------------------------------------
(* The directory that the handlers write, and what a refusal says of it    *)

\* An agent is entered together with its host, under a tenant that exists, and
\* only an agent that is entered has batches stored.
Directory ==
    /\ tenants \subseteq Tenants
    /\ owner \in [Hosts -> tenants \cup {""}] /\ instances \subseteq Agents
    /\ health \in [Hosts -> {"absent", "up"}] /\ stats \in Nat
    /\ \A a \in instances : owner[HostOf[a]] # ""
    /\ \A n \in Numbers : commits[n] # 0 => n[1] \in instances

\* The tenant code of a's configuration, as far as the server looks at it.
CodeOf(a) == IF AllowCustomTenantCode THEN Load(FactsOf[a]).tenant ELSE ""

LEMMA Resolving ==
    ASSUME Directory, NEW a \in Agents
    PROVE  /\ HostOf[a] \in Hosts /\ Resolved(a) \in tenants \cup {""} /\ "" \notin tenants
           /\ Resolved(a) = "" <=> owner[HostOf[a]] = "" /\ CodeOf(a) \notin tenants
           /\ owner[HostOf[a]] = "" /\ Resolved(a) # "" => CodeOf(a) \in tenants
<1>1. HostOf[a] \in Hosts
  BY DEF Hosts
<1>2. owner[HostOf[a]] \in tenants \cup {""} /\ "" \notin tenants
  BY <1>1, AgentReportsAssumption DEF Directory
<1>3. Resolved(a) = IF owner[HostOf[a]] # "" THEN owner[HostOf[a]]
                    ELSE IF CodeOf(a) \in tenants THEN CodeOf(a) ELSE ""
  BY DEF Resolved, CodeOf
<1>4. CASE owner[HostOf[a]] # ""
  BY <1>1, <1>2, <1>3, <1>4
<1>5. CASE owner[HostOf[a]] = "" /\ CodeOf(a) \in tenants
  <2>1. Resolved(a) = CodeOf(a)
    BY <1>3, <1>5
  <2>2. CodeOf(a) # ""
    BY <1>2, <1>5
  <2> QED
    BY <1>1, <1>2, <1>5, <2>1, <2>2
<1>6. CASE owner[HostOf[a]] = "" /\ CodeOf(a) \notin tenants
  <2>1. Resolved(a) = ""
    BY <1>3, <1>6
  <2> QED
    BY <1>1, <1>2, <1>6, <2>1
<1> QED
  BY <1>4, <1>5, <1>6

\* Nothing but a commit changes the directory.
LEMMA DirectoryStands ==
    ASSUME Directory, UNCHANGED <<tenants, directory, commits>>, stats' \in Nat
    PROVE  Directory'
  BY DEF Directory, directory

\* A commit enters the agent with its host, under the tenant that was resolved.
LEMMA DirectoryCommits ==
    ASSUME Inv, Directory, NEW s \in Streams, Storable(s), Committed(s),
           UNCHANGED <<tenants, stats>>
    PROVE  Directory' /\ Store!Next
<1> DEFINE c == stream[s].batch.agent
           h == HostOf[c]
<1>1. stream[s].batch \in Batch /\ c \in Agents /\ No(stream[s].batch)[1] = c
  BY Holding, Rows, NumberOf
<1>2. h \in Hosts /\ Resolved(c) \in tenants \cup {""}
  BY <1>1, Resolving
<1>3. \A n \in Numbers : commits'[n] # 0 => commits[n] # 0 \/ n[1] = c
  <2>1. commits' = [commits EXCEPT ![No(stream[s].batch)] = commits[No(stream[s].batch)] + 1]
    BY DEF Committed
  <2>2. commits \in [Numbers -> {0, 1}]
    BY DEF Inv, Books, Counts
  <2> QED
    BY <1>1, <2>1, <2>2
<1>4. /\ owner \in [Hosts -> tenants \cup {""}] /\ instances \subseteq Agents
      /\ health \in [Hosts -> {"absent", "up"}] /\ tenants \subseteq Tenants /\ stats \in Nat
      /\ \A a \in instances : owner[HostOf[a]] # ""
      /\ \A n \in Numbers : commits[n] # 0 => n[1] \in instances
  BY DEF Directory
<1>5. CASE c \in instances
  <2>1. Store!Report(c)
    BY <1>5 DEF Committed
  <2>2. health' = [health EXCEPT ![h] = "up"] /\ owner' = owner /\ instances' = instances
    BY <2>1 DEF Store!Report
  <2>3. health' \in [Hosts -> {"absent", "up"}]
    BY <1>2, <1>4, <2>2
  <2>4. \A n \in Numbers : commits'[n] # 0 => n[1] \in instances'
    BY <1>3, <1>4, <1>5, <2>2
  <2>5. Directory'
    BY <1>4, <2>2, <2>3, <2>4 DEF Directory
  <2>6. Store!Next
    BY <1>1, <2>1 DEF Store!Next
  <2> QED
    BY <2>5, <2>6
<1>6. CASE c \notin instances
  <2>1. Store!Register(c, Resolved(c)) /\ Resolved(c) # ""
    BY <1>6 DEF Committed, Storable
  <2>2. /\ health' = [health EXCEPT ![h] = "up"] /\ owner' = [owner EXCEPT ![h] = Resolved(c)]
        /\ instances' = instances \cup {c}
    BY <2>1 DEF Store!Register
  <2>3. Resolved(c) \in tenants
    BY <1>2, <2>1
  <2>4. /\ health' \in [Hosts -> {"absent", "up"}] /\ owner' \in [Hosts -> tenants \cup {""}]
        /\ instances' \subseteq Agents
    BY <1>1, <1>2, <1>4, <2>2, <2>3
  <2>5. \A n \in Numbers : commits'[n] # 0 => n[1] \in instances'
    BY <1>3, <1>4, <2>2
  <2>6. ASSUME NEW a \in instances' PROVE owner'[HostOf[a]] # ""
    <3>1. a \in Agents /\ HostOf[a] \in Hosts
      BY <2>4, Resolving
    <3>2. CASE HostOf[a] = h
      BY <1>2, <1>4, <2>1, <2>2, <3>2
    <3>3. CASE HostOf[a] # h
      <4>1. a \in instances
        BY <2>2, <3>3
      <4>2. owner'[HostOf[a]] = owner[HostOf[a]]
        BY <1>4, <2>2, <3>1, <3>3
      <4> QED
        BY <1>4, <4>1, <4>2
    <3> QED
      BY <3>2, <3>3
  <2>7. Directory'
    BY <1>4, <2>4, <2>5, <2>6 DEF Directory
  <2>8. Store!Next
    BY <1>1, <1>4, <2>1, <2>3 DEF Store!Next
  <2> QED
    BY <2>7, <2>8
<1> QED
  BY <1>5, <1>6

\* A step commits a batch of a handler, or leaves the directory alone.
LEMMA DirectoryOrNot ==
    ASSUME [Next]_vars, Directory
    PROVE  \/ \E s \in Streams : Storable(s) /\ Committed(s) /\ UNCHANGED <<tenants, stats>>
           \/ UNCHANGED <<tenants, directory, commits>> /\ stats' \in Nat
<1>1. stats \in Nat /\ 0 \in Nat /\ stats + 1 \in Nat
  <2>1. stats \in Nat
    BY DEF Directory
  <2> QED
    BY <2>1, SMT
<1>2. CASE \E a \in Agents : Boot(a)
  BY <1>1, <1>2 DEF Boot, records
<1>3. CASE Cycle \/ OpenFails
  BY <1>1, <1>3 DEF Cycle, OpenFails, Send, OpenAndSend, SendFails, records
<1>4. CASE Answer \/ Stop
  BY <1>1, <1>4 DEF Answer, RecvAck, RecvStatus, RecvLost, Stop, records
<1>5. ASSUME NEW s \in Streams, Handle(s)
      PROVE  \/ Storable(s) /\ Committed(s) /\ UNCHANGED <<tenants, stats>>
             \/ UNCHANGED <<tenants, directory, commits>> /\ stats' \in Nat
  <2>1. CASE Recv(s) \/ RecvEnds(s) \/ ReportWithoutTenant(s) \/ SendAck(s)
    BY <1>1, <2>1 DEF Recv, RecvEnds, ReportWithoutTenant, SendAck, records
  <2>2. CASE ReportMetrics(s)
    BY <2>2 DEF ReportMetrics
  <2>3. CASE AppendHeartbeatMetrics(s) \/ SaveMetricSnapshot(s) \/ PublishHostUpsert(s)
    BY <1>1, <2>3 DEF AppendHeartbeatMetrics, SaveMetricSnapshot, PublishHostUpsert, Call
  <2> QED
    BY <1>5, <2>1, <2>2, <2>3 DEF Handle
<1>6. ASSUME NEW s \in Streams, ReportFails(s) \/ CallFails(s) \/ Lose(s)
      PROVE  \/ Storable(s) /\ Committed(s) /\ UNCHANGED <<tenants, stats>>
             \/ UNCHANGED <<tenants, directory, commits>> /\ stats' \in Nat
  BY <1>1, <1>6 DEF ReportFails, CallFails, Lose, records
<1>7. CASE RestartServer
  BY <1>1, <1>7 DEF RestartServer
<1>8. CASE UNCHANGED vars
  BY <1>1, <1>8 DEF vars, directory
<1> QED
  BY <1>2, <1>3, <1>4, <1>5, <1>6, <1>7, <1>8 DEF Next

LEMMA InitDirectory == Init => Directory
<1> SUFFICES ASSUME Init PROVE Directory
  OBVIOUS
<1>1. /\ tenants \in SUBSET Tenants /\ stats = 0 /\ commits = [n \in Numbers |-> 0]
      /\ owner = [h \in Hosts |-> ""] /\ instances = {} /\ health = [h \in Hosts |-> "absent"]
  BY DEF Init, Store!Init
<1>2. 0 \in Nat
  BY SMT
<1> QED
  BY <1>1, <1>2 DEF Directory

LEMMA StepDirectory == Inv /\ Directory /\ [Next]_vars => Directory'
  BY DirectoryOrNot, DirectoryStands, DirectoryCommits

\* Every variable keeps its type, for any number of starts, streams, batches and
\* faults: no stream ever holds more than one message in a direction, a stage
\* stays below five, and a host belongs to a tenant that exists (ReportMetrics).
THEOREM TypesHold == Spec => []TypeOK
<1>1. Inv /\ Directory => TypeOK
  <2> SUFFICES ASSUME Inv, Directory PROVE TypeOK
    OBVIOUS
  <2>1. \A S : Short(S) \subseteq Seq(S)
    <3>1. SUFFICES ASSUME NEW S, NEW q \in Short(S) PROVE q \in Seq(S)
      OBVIOUS
    <3>2. q = <<>> \/ \E x \in S : q = <<x>>
      BY DEF Short
    <3>3. <<>> \in Seq(S)
      BY SMT
    <3>4. \A x \in S : <<x>> \in Seq(S)
      BY SMT
    <3> QED
      BY <3>2, <3>3, <3>4
  <2>2. Pcs = {"recv", "store", "append", "save", "publish", "send", "ended"}
    BY DEF Pcs, Busy, Late
  <2>3. stream \in [Streams -> [pc : Pcs, up : Seq(Batch), down : Seq(Reply), lost : BOOLEAN,
                                batch : Batch]]
    <3>1. stream \in [Streams -> Row]
      BY DEF Inv, Shape
    <3>2. Row \subseteq [pc : Pcs, up : Seq(Batch), down : Seq(Reply), lost : BOOLEAN, batch : Batch]
      <4>1. Short(Batch) \subseteq Seq(Batch) /\ Short(Reply) \subseteq Seq(Reply)
        BY <2>1
      <4> QED
        BY <4>1, SMT DEF Row
    <3> QED
      BY <3>1, <3>2
  <2>4. commits \in [Numbers -> Nat] /\ stage \in [Numbers -> 0..4]
    <3>1. commits \in [Numbers -> {0, 1}] /\ stage \in [Numbers -> 0..4]
      BY DEF Inv, Books, Counts
    <3>2. {0, 1} \subseteq Nat
      BY SMT
    <3> QED
      BY <3>1, <3>2
  <2> QED
    BY <2>2, <2>3, <2>4 DEF TypeOK, Directory, Inv, Attached
<1> QED
  BY <1>1, SpecInv, InitDirectory, StepDirectory, PTL DEF Spec

\* The handlers of any number of streams, retries and restarts change the host
\* directory only by the steps that the host store promises (HostDirectory): a
\* report of an agent it knows, or an entry under a tenant that exists.  With
\* that, what HostStore implements is all that this module uses.
THEOREM WritesTheDirectory == Spec => Store!Spec
<1>1. Init => Store!Init
  BY DEF Init
<1>2. Inv /\ Directory /\ [Next]_vars => [Store!Next]_<<owner, instances, health>>
  BY DirectoryOrNot, DirectoryCommits DEF directory
<1> QED
  BY <1>1, <1>2, SpecInv, InitDirectory, StepDirectory, PTL DEF Spec, Store!Spec, Store!dirVars

-----------------------------------------------------------------------------
(* Why the agent gives up                                                  *)

\* Starts on one host are configured with one tenant code.
SameTenant == \A a, b \in Agents : HostOf[a] = HostOf[b] => CodeOf(a) = CodeOf(b)

Refused(x) == x.down # <<>> /\ Head(x.down) = [code |-> "FailedPrecondition"]

\* What is on the stream x is of start a.
Belongs(x, a) ==
    /\ x.up # <<>> => Head(x.up).agent = a
    /\ x.pc \in Busy => x.batch.agent = a

Own == agent.sink # 0 => Belongs(stream[agent.sink], agent.id)

GivenUp == agent.pc = "stopped" /\ Loads(FactsOf[agent.id])

\* A refusal, on its way or received, holds for as long as the start lasts.
Denied ==
    (agent.sink # 0 /\ Refused(stream[agent.sink])) \/ GivenUp =>
        agent.id \in Agents /\ Resolved(agent.id) = ""

Answers == Own /\ Denied

\* A tenant that is missing for a start stays missing: only a commit enters its
\* host, and another start on that host lacks the same tenant.
LEMMA StaysMissing ==
    ASSUME SameTenant, Inv, Directory, [Next]_vars, NEW a \in Agents, Resolved(a) = ""
    PROVE  Resolved(a)' = ""
<1>1. Directory'
  BY StepDirectory
<1>2. HostOf[a] \in Hosts /\ owner[HostOf[a]] = "" /\ CodeOf(a) \notin tenants
  BY Resolving
<1>3. tenants' = tenants /\ owner'[HostOf[a]] = ""
  <2>1. CASE UNCHANGED <<tenants, directory, commits>>
    BY <1>2, <2>1 DEF directory
  <2>2. CASE \E s \in Streams : Storable(s) /\ Committed(s) /\ UNCHANGED <<tenants, stats>>
    <3>1. PICK s \in Streams : Storable(s) /\ Committed(s) /\ UNCHANGED <<tenants, stats>>
      BY <2>2
    <3> DEFINE c == stream[s].batch.agent
    <3>2. c \in Agents
      BY Holding, Rows, NumberOf
    <3>3. CASE c \in instances
      BY <1>2, <3>1, <3>3 DEF Committed, Store!Report
    <3>4. CASE c \notin instances
      <4>1. owner' = [owner EXCEPT ![HostOf[c]] = Resolved(c)] /\ Resolved(c) # ""
        BY <3>1, <3>4 DEF Committed, Storable, Store!Register
      <4>2. HostOf[a] # HostOf[c]
        BY <1>2, <3>2, <4>1, Resolving DEF SameTenant
      <4>3. owner \in [Hosts -> tenants \cup {""}]
        BY DEF Directory
      <4> QED
        BY <1>2, <3>1, <4>1, <4>2, <4>3
    <3> QED
      BY <3>3, <3>4
  <2> QED
    BY <2>1, <2>2, DirectoryOrNot
<1>4. CodeOf(a)' = CodeOf(a)
  BY DEF CodeOf
<1>5. Resolved(a)' = IF owner'[HostOf[a]] # "" THEN owner'[HostOf[a]]
                     ELSE IF CodeOf(a) \in tenants' THEN CodeOf(a) ELSE ""
  BY DEF Resolved, CodeOf
<1> QED
  BY <1>2, <1>3, <1>5

\* An agent that waits on x has an answer there, or a batch that is not answered
\* yet, or is about to find that the connection is gone.
Owing(x) == x.lost \/ x.down # <<>> \/ x.up # <<>> \/ x.pc \in Busy

\* What a step of a handler, a loss or a restart makes of a stream: its batch is
\* the one it had or was sent, it acknowledges no other, it refuses only a batch
\* without a tenant, and it does not forget that an answer is owed.
Passes(x, y) ==
    /\ Owing(x) => Owing(y)
    /\ IsAck(y) => y.down = x.down \/ (x.pc \in Busy /\ Head(y.down) = [ack |-> x.batch])
    /\ y.up # <<>> => y.up = x.up
    /\ y.pc \in Busy => (x.pc \in Busy /\ y.batch = x.batch) \/ (x.up # <<>> /\ y.batch = Head(x.up))
    /\ Refused(y) => Refused(x) \/ (x.pc \in Busy /\ Resolved(x.batch.agent) = "")

LEMMA PassesEnd ==
    ASSUME Inv, NEW s \in Streams, NEW c \in Codes, End(s, c), stream[s].down = <<>>,
           c = "FailedPrecondition" => stream[s].pc \in Busy /\ Resolved(stream[s].batch.agent) = ""
    PROVE  \E y : stream' = [stream EXCEPT ![s] = y] /\ Passes(stream[s], y)
<1>1. /\ Over \in Row /\ Over.pc = "ended" /\ Over.up = <<>> /\ Over.lost
  BY OverRow
<1>2. "ended" \notin Busy
  BY DEF Busy, Late
<1>3. CASE stream[s].lost
  <2> DEFINE y == [Over EXCEPT !.down = stream[s].down]
  <2>1. stream' = [stream EXCEPT ![s] = y]
    BY <1>3 DEF End, Return
  <2>2. y.pc = "ended" /\ y.up = <<>> /\ y.down = <<>> /\ y.lost
    BY <1>1 DEF Row
  <2> QED
    BY <1>2, <2>1, <2>2 DEF Passes, Refused, Owing, IsAck
<1>4. CASE ~stream[s].lost
  <2> DEFINE y == [Over EXCEPT !.lost = FALSE, !.down = Append(stream[s].down, [code |-> c])]
  <2>1. stream' = [stream EXCEPT ![s] = y]
    BY <1>4 DEF End
  <2>2. /\ y.pc = "ended" /\ y.up = <<>> /\ y.down = Append(stream[s].down, [code |-> c])
    BY <1>1 DEF Row
  <2>3. /\ Head(Append(stream[s].down, [code |-> c])) = [code |-> c]
        /\ Append(stream[s].down, [code |-> c]) # <<>>
    BY Replies, Messages
  <2>4. Refused(y) => c = "FailedPrecondition"
    <3>1. [code |-> c].code = c /\ [code |-> "FailedPrecondition"].code = "FailedPrecondition"
      OBVIOUS
    <3> QED
      BY <2>2, <2>3, <3>1 DEF Refused
  <2>5. Owing(y) /\ ~IsAck(y)
    BY <2>2, <2>3, Replies DEF Owing, IsAck
  <2> HIDE DEF y
  <2> QED
    BY <1>2, <2>1, <2>2, <2>4, <2>5 DEF Passes
<1> QED
  BY <1>3, <1>4

LEMMA PassesReturn ==
    ASSUME NEW x \in Row
    PROVE  Passes(x, Over) /\ Passes(x, [Over EXCEPT !.down = x.down])
<1> DEFINE y == [Over EXCEPT !.down = x.down]
<1>1. /\ Over \in Row /\ Over.pc = "ended" /\ Over.up = <<>> /\ Over.down = <<>> /\ Over.lost
  BY OverRow
<1>2. y.pc = "ended" /\ y.up = <<>> /\ y.down = x.down /\ y.lost
  BY <1>1 DEF Row
<1>3. "ended" \notin Busy
  BY DEF Busy, Late
<1> HIDE DEF y
<1>4. Passes(x, Over) /\ Passes(x, y)
  BY <1>1, <1>2, <1>3 DEF Passes, Refused, Owing, IsAck
<1> QED
  BY <1>4 DEF y

LEMMA PassesOn ==
    ASSUME Inv, NEW s \in Streams,
           Handle(s) \/ ReportFails(s) \/ CallFails(s) \/ Lose(s)
    PROVE  \E y : stream' = [stream EXCEPT ![s] = y] /\ Passes(stream[s], y)
<1> DEFINE x == stream[s]
<1>1. x \in Row /\ Sound(x) /\ (x.pc \in Busy => x.down = <<>> /\ x.up = <<>>)
  BY Holding
<1>2. CASE Recv(s)
  <2>1. x.pc = "recv" /\ x.up # <<>> /\ x.down = <<>>
    BY <1>1, <1>2 DEF Recv, Sound
  <2>2. CASE Head(x.up).valid
    <3> DEFINE y == [x EXCEPT !.up = Tail(@), !.batch = Head(x.up), !.pc = "store"]
    <3>1. stream' = [stream EXCEPT ![s] = y]
      BY <1>2, <2>2 DEF Recv
    <3>2. Tail(x.up) = <<>>
      BY <1>1, <2>1, Rows, Messages
    <3>3. y.up = <<>> /\ y.batch = Head(x.up) /\ y.down = x.down /\ y.pc \in Busy
      BY <1>1, <3>2 DEF Row, Busy
    <3> HIDE DEF y
    <3> QED
      BY <2>1, <3>1, <3>3 DEF Passes, Refused, Owing
  <2>3. CASE ~Head(x.up).valid
    <3>1. End(s, "InvalidArgument")
      BY <1>2, <2>3 DEF Recv
    <3> QED
      BY <2>1, <3>1, CodesOf, PassesEnd
  <2> QED
    BY <2>2, <2>3
<1>3. CASE RecvEnds(s)
  BY <1>1, <1>3, PassesReturn DEF RecvEnds, Return
<1>4. CASE ReportWithoutTenant(s)
  <2>1. x.pc \in Busy /\ Resolved(x.batch.agent) = "" /\ End(s, "FailedPrecondition")
    BY <1>4 DEF ReportWithoutTenant, Storable, Busy
  <2> QED
    BY <1>1, <2>1, CodesOf, PassesEnd
<1>5. CASE ReportFails(s) \/ CallFails(s)
  <2>1. x.pc \in Busy /\ End(s, "Internal")
    BY <1>5 DEF ReportFails, CallFails, Busy, Late
  <2> QED
    BY <1>1, <2>1, CodesOf, PassesEnd
<1>6. CASE \E pc \in Busy : Goto(s, pc) /\ x.pc \in Busy
  <2>1. PICK pc \in Busy : Goto(s, pc) /\ x.pc \in Busy
    BY <1>6
  <2> DEFINE y == [x EXCEPT !.pc = pc]
  <2>2. stream' = [stream EXCEPT ![s] = y]
    BY <2>1 DEF Goto
  <2>3. y.up = x.up /\ y.batch = x.batch /\ y.down = x.down /\ y.pc \in Busy
    BY <1>1, <2>1 DEF Row
  <2> HIDE DEF y
  <2> QED
    BY <2>1, <2>2, <2>3 DEF Passes, Refused, Owing
<1>7. CASE ReportMetrics(s) \/ AppendHeartbeatMetrics(s) \/ SaveMetricSnapshot(s) \/ PublishHostUpsert(s)
  <2>1. \E pc \in {"append", "save", "publish", "send"} :
          Goto(s, pc) /\ x.pc \in {"store", "append", "save", "publish"}
    BY <1>7 DEF ReportMetrics, AppendHeartbeatMetrics, SaveMetricSnapshot, PublishHostUpsert, Call
  <2> QED
    BY <1>6, <2>1 DEF Busy, Late
<1>8. CASE SendAck(s)
  <2>1. x.pc \in Busy /\ x.down = <<>> /\ x.up = <<>>
    BY <1>1, <1>8 DEF SendAck, Busy, Late
  <2>2. CASE x.lost
    BY <1>1, <1>8, <2>2, PassesReturn DEF SendAck, Return
  <2>3. CASE ~x.lost
    <3> DEFINE y == [x EXCEPT !.pc = "recv", !.down = Append(@, [ack |-> x.batch])]
    <3>1. stream' = [stream EXCEPT ![s] = y]
      BY <1>8, <2>3 DEF SendAck
    <3>2. y.pc = "recv" /\ y.up = x.up /\ y.batch = x.batch /\ y.down = Append(x.down, [ack |-> x.batch])
      BY <1>1 DEF Row
    <3>3. x.batch \in Batch /\ [ack |-> x.batch] \in [ack : Batch] /\ [ack |-> x.batch] \in Reply
      BY <1>1, Rows, Replies
    <3>4. /\ Head(Append(x.down, [ack |-> x.batch])) = [ack |-> x.batch]
          /\ Append(x.down, [ack |-> x.batch]) # <<>>
      <4>1. PICK r \in Reply : r = [ack |-> x.batch]
        BY <3>3
      <4>2. Head(Append(<<>>, r)) = r /\ Append(<<>>, r) # <<>>
        BY Messages
      <4> QED
        BY <2>1, <4>1, <4>2
    <3>5. [ack |-> x.batch] # [code |-> "FailedPrecondition"]
      BY <3>3, CodesOf, Replies
    <3>6. "recv" \notin Busy
      BY DEF Busy, Late
    <3>7. Owing(y) /\ ~Refused(y) /\ Head(y.down) = [ack |-> x.batch]
      BY <3>2, <3>4, <3>5 DEF Owing, Refused
    <3> HIDE DEF y
    <3> QED
      BY <2>1, <3>1, <3>2, <3>6, <3>7 DEF Passes
  <2> QED
    BY <2>2, <2>3
<1>9. CASE Lose(s)
  <2>1. PICK y \in Cut(x) : stream' = [stream EXCEPT ![s] = y]
    BY <1>9 DEF Lose
  <2>2. PICK u \in {<<>>, x.up}, d \in {<<>>, x.down} :
          y = [x EXCEPT !.lost = TRUE, !.up = u, !.down = d]
    BY <2>1, SMT DEF Cut
  <2>3. y.up = u /\ y.down = d /\ y.pc = x.pc /\ y.batch = x.batch /\ y.lost
    BY <1>1, <2>2 DEF Row
  <2> QED
    BY <2>1, <2>3 DEF Passes, Refused, Owing, IsAck
<1> QED
  BY <1>2, <1>3, <1>4, <1>5, <1>7, <1>8, <1>9 DEF Handle

\* A step that is not the agent's.
LEMMA Beside ==
    ASSUME Inv, \/ \E s \in Streams : Handle(s) \/ ReportFails(s) \/ CallFails(s) \/ Lose(s)
                \/ RestartServer \/ UNCHANGED vars
    PROVE  /\ UNCHANGED agent
           /\ \A s \in Streams : stream'[s] = stream[s] \/ Passes(stream[s], stream'[s])
<1>1. CASE \E s \in Streams : Handle(s) \/ ReportFails(s) \/ CallFails(s) \/ Lose(s)
  <2>1. PICK s \in Streams : Handle(s) \/ ReportFails(s) \/ CallFails(s) \/ Lose(s)
    BY <1>1
  <2>2. PICK y : stream' = [stream EXCEPT ![s] = y] /\ Passes(stream[s], y)
    BY <2>1, PassesOn
  <2>3. \A t \in Streams : stream'[t] = stream[t] \/ Passes(stream[t], stream'[t])
    BY <2>2 DEF Inv, Shape
  <2>4. UNCHANGED agent
    BY <2>1 DEF Handle, Recv, RecvEnds, ReportMetrics, ReportWithoutTenant, AppendHeartbeatMetrics,
                SaveMetricSnapshot, PublishHostUpsert, Call, SendAck, ReportFails, CallFails, Lose
  <2> QED
    BY <2>3, <2>4
<1>2. CASE RestartServer
  <2>1. PICK keep \in BOOLEAN :
          stream' = [s \in Streams |-> IF keep THEN [Over EXCEPT !.down = stream[s].down] ELSE Over]
    BY <1>2 DEF RestartServer
  <2>2. ASSUME NEW t \in Streams PROVE Passes(stream[t], stream'[t])
    <3>1. stream'[t] = IF keep THEN [Over EXCEPT !.down = stream[t].down] ELSE Over
      BY <2>1
    <3>2. Passes(stream[t], Over) /\ Passes(stream[t], [Over EXCEPT !.down = stream[t].down])
      BY Holding, PassesReturn
    <3> QED
      BY <3>1, <3>2
  <2>3. UNCHANGED agent
    BY <1>2 DEF RestartServer
  <2> QED
    BY <2>2, <2>3
<1>3. CASE UNCHANGED vars
  BY <1>3 DEF vars
<1> QED
  BY <1>1, <1>2, <1>3

\* The agent waits for a server that goes on, loses the connection or restarts.
LEMMA AnswersPass ==
    ASSUME SameTenant, Inv, Directory, Answers, [Next]_vars, UNCHANGED agent,
           \A s \in Streams : stream'[s] = stream[s] \/ Passes(stream[s], stream'[s])
    PROVE  Answers'
<1> DEFINE k == agent.sink
           x == stream[k]
<1>1. \A a \in Agents : Resolved(a) = "" => Resolved(a)' = ""
  BY StaysMissing
<1>2. agent.id \in Agents /\ Resolved(agent.id) = "" => Resolved(agent.id)' = ""
  <2>1. SUFFICES ASSUME agent.id \in Agents, Resolved(agent.id) = "" PROVE Resolved(agent.id)' = ""
    OBVIOUS
  <2>2. PICK a \in Agents : a = agent.id
    BY <2>1
  <2>3. Resolved(a)' = ""
    BY <1>1, <2>1, <2>2
  <2> QED
    BY <2>2, <2>3 DEF Resolved
<1>3. Own' /\ (k # 0 /\ Refused(stream'[k]) => agent.id \in Agents /\ Resolved(agent.id) = "")
  <2>1. CASE k = 0
    BY <2>1 DEF Own
  <2>2. CASE k # 0
    <3>1. k \in Streams /\ x \in Row /\ Belongs(x, agent.id)
      BY <2>2, AgentTypes, Holding DEF Answers, Own
    <3>2. Refused(x) => agent.id \in Agents /\ Resolved(agent.id) = ""
      BY <2>2 DEF Answers, Denied
    <3>3. CASE stream'[k] = x
      BY <3>1, <3>2, <3>3 DEF Own
    <3>4. CASE Passes(x, stream'[k])
      <4>1. Belongs(stream'[k], agent.id)
        BY <3>1, <3>4 DEF Passes, Belongs
      <4>2. x.pc \in Busy => x.batch.agent = agent.id /\ agent.id \in Agents
        <5>1. x.batch \in Batch
          BY <3>1, Rows
        <5>2. x.batch.agent \in Agents
          BY <5>1, NumberOf
        <5> QED
          BY <3>1, <5>2 DEF Belongs
      <4>3. Refused(stream'[k]) => agent.id \in Agents /\ Resolved(agent.id) = ""
        BY <3>2, <3>4, <4>2 DEF Passes
      <4> QED
        BY <4>1, <4>3 DEF Own
    <3> QED
      BY <3>1, <3>3, <3>4
  <2> QED
    BY <2>1, <2>2
<1>4. GivenUp => agent.id \in Agents /\ Resolved(agent.id) = ""
  BY DEF Answers, Denied
<1>5. GivenUp' = GivenUp
  BY DEF GivenUp
<1>6. Denied'
  BY <1>2, <1>3, <1>4, <1>5 DEF Denied
<1> QED
  BY <1>3, <1>6 DEF Answers

\* Between two cycles, and without a stream, nothing is asked and nothing refused.
LEMMA AnswersIdle ==
    ASSUME Inv', agent'.pc = "tick" \/ (agent'.sink = 0 /\ ~GivenUp')
    PROVE  Answers'
<1>1. CASE agent'.sink = 0
  BY <1>1 DEF Answers, Own, Denied, GivenUp
<1>2. CASE agent'.pc = "tick" /\ agent'.sink # 0
  <2>1. Calm(stream'[agent'.sink])
    BY <1>2 DEF Inv, Attached
  <2> QED
    BY <1>2, <2>1 DEF Calm, Answers, Own, Denied, GivenUp, Belongs, Refused
<1> QED
  BY <1>1, <1>2

\* A batch is sent on an empty stream: it is the only thing there, unless the
\* connection is gone.
LEMMA SentOn ==
    ASSUME Inv, NEW b \in Batch, Send(b) \/ \E s \in Streams : OpenAndSend(s, b)
    PROVE  \E s \in Streams :
             /\ Wait(s, b) /\ b.agent = agent.id
             /\ stream'[s].pc \notin Busy /\ stream'[s].down = <<>>
             /\ stream'[s].up # <<>> => Head(stream'[s].up) = b
             /\ Owing(stream'[s])
<1>1. CASE \E s \in Streams : OpenAndSend(s, b)
  <2>1. PICK s \in Streams : OpenAndSend(s, b)
    BY <1>1
  <2> DEFINE y == [pc |-> "recv", up |-> <<b>>, down |-> <<>>, lost |-> FALSE, batch |-> b]
  <2>2. stream' = [stream EXCEPT ![s] = y] /\ Wait(s, b) /\ b.agent = agent.id
    BY <2>1 DEF OpenAndSend, NextBatch
  <2>3. stream'[s] = y
    BY <2>2 DEF Inv, Shape
  <2>4. y.pc = "recv" /\ y.up = <<b>> /\ y.down = <<>> /\ "recv" \notin Busy
    BY DEF Busy, Late
  <2>5. Head(<<b>>) = b /\ <<b>> # <<>>
    BY Messages
  <2>6. Owing(y)
    BY <2>4, <2>5 DEF Owing
  <2> HIDE DEF y
  <2> QED
    BY <2>2, <2>3, <2>4, <2>5, <2>6
<1>2. CASE Send(b)
  <2> DEFINE k == agent.sink
             x == stream[k]
             y == [x EXCEPT !.up = Append(@, b)]
  <2>1. /\ agent.pc = "tick" /\ k # 0 /\ Wait(k, b) /\ b.agent = agent.id
        /\ stream' = IF x.lost THEN stream ELSE [stream EXCEPT ![k] = y]
    BY <1>2 DEF Send, Ready, NextBatch
  <2>2. k \in Streams /\ Calm(x) /\ x \in Row /\ DOMAIN stream = Streams
    BY <2>1, AgentTypes, Holding DEF Inv, Attached, Shape
  <2>3. y.pc = x.pc /\ y.down = x.down /\ y.up = Append(x.up, b)
    BY <2>2 DEF Row
  <2>4. Head(Append(<<>>, b)) = b /\ Append(<<>>, b) # <<>>
    BY Messages
  <2>5. CASE x.lost
    BY <2>1, <2>2, <2>5 DEF Calm, Owing
  <2>6. CASE ~x.lost
    <3>1. stream'[k] = y
      BY <2>1, <2>2, <2>6
    <3> QED
      BY <2>1, <2>2, <2>3, <2>4, <3>1 DEF Calm, Owing
  <2> QED
    BY <2>5, <2>6
<1> QED
  BY <1>1, <1>2

LEMMA AnswersSent ==
    ASSUME Inv, NEW b \in Batch, Send(b) \/ \E s \in Streams : OpenAndSend(s, b)
    PROVE  Answers'
<1>1. PICK s \in Streams :
        /\ Wait(s, b) /\ b.agent = agent.id
        /\ stream'[s].pc \notin Busy /\ stream'[s].down = <<>>
        /\ stream'[s].up # <<>> => Head(stream'[s].up) = b
  BY SentOn
<1>2. agent'.pc = "wait" /\ agent'.sink = s /\ agent'.id = agent.id
  BY <1>1, AgentTypes DEF Wait, AgentFields
<1>3. Belongs(stream'[s], agent.id) /\ ~Refused(stream'[s])
  BY <1>1 DEF Belongs, Refused
<1> QED
  BY <1>2, <1>3 DEF Answers, Own, Denied, GivenUp

LEMMA AnswersTaken ==
    ASSUME Inv, Inv', Answers, OpenFails \/ SendFails \/ Answer \/ Stop
    PROVE  Answers'
<1>1. agent \in AgentFields
  BY AgentTypes
<1>2. CASE OpenFails \/ SendFails \/ RecvLost
  <2>1. agent'.pc = "tick"
    BY <1>1, <1>2 DEF OpenFails, SendFails, RecvLost, Retry, AgentFields
  <2> QED
    BY <2>1, AnswersIdle
<1>3. CASE RecvAck
  <2>1. agent'.pc = "tick"
    BY <1>1, <1>3 DEF RecvAck, AgentFields
  <2> QED
    BY <2>1, AnswersIdle
<1>4. CASE Stop
  <2>1. agent'.pc = "off" /\ agent'.sink = 0
    BY <1>1, <1>4 DEF Stop, AgentFields
  <2> QED
    BY <2>1, AnswersIdle DEF GivenUp
<1>5. CASE RecvStatus
  <2> DEFINE reply == Head(stream[agent.sink].down)
  <2>1. /\ agent.pc = "wait" /\ stream[agent.sink].down # <<>> /\ reply \in [code : Codes]
        /\ UNCHANGED <<tenants, directory>>
    BY <1>5 DEF RecvStatus
  <2>2. CASE Fatal(reply.code)
    <3>1. agent' = [agent EXCEPT !.pc = "stopped", !.sink = 0]
      BY <1>5, <2>2 DEF RecvStatus
    <3>2. agent'.sink = 0 /\ agent'.id = agent.id
      BY <1>1, <3>1 DEF AgentFields
    <3>3. reply = [code |-> "FailedPrecondition"]
      BY <2>1, <2>2, SMT DEF Fatal
    <3>4. agent.sink # 0
      BY <2>1 DEF Inv, Attached
    <3>5. agent.id \in Agents /\ Resolved(agent.id) = ""
      BY <2>1, <3>3, <3>4 DEF Answers, Denied, Refused
    <3>6. Resolved(agent.id)' = ""
      BY <2>1, <3>2, <3>5 DEF Resolved, directory
    <3> QED
      BY <3>2, <3>5, <3>6 DEF Answers, Own, Denied
  <2>3. CASE ~Fatal(reply.code)
    <3>1. agent'.pc = "tick"
      BY <1>1, <1>5, <2>3 DEF RecvStatus, Retry, AgentFields
    <3> QED
      BY <3>1, AnswersIdle
  <2> QED
    BY <2>2, <2>3
<1> QED
  BY <1>2, <1>3, <1>4, <1>5 DEF Answer

LEMMA AnswersStep ==
    ASSUME SameTenant, Inv, Directory, Answers, [Next]_vars
    PROVE  Answers'
<1>1. Inv'
  BY StepInv
<1>2. CASE \E a \in Agents : Boot(a)
  <2>1. PICK a \in Agents : Boot(a)
    BY <1>2
  <2>2. /\ agent'.pc = IF Loads(FactsOf[a]) THEN "tick" ELSE "stopped"
        /\ agent'.id = a /\ agent'.sink = 0
    BY <2>1 DEF Boot
  <2>3. agent'.pc = "tick" \/ ~Loads(FactsOf[a])
    BY <2>2
  <2> QED
    BY <1>1, <2>2, <2>3, AnswersIdle DEF GivenUp
<1>3. CASE Cycle \/ OpenFails \/ Answer \/ Stop
  BY <1>1, <1>3, AnswersSent, AnswersTaken DEF Cycle
<1>4. CASE (\E s \in Streams : Handle(s) \/ ReportFails(s) \/ CallFails(s) \/ Lose(s))
           \/ RestartServer \/ UNCHANGED vars
  BY <1>4, Beside, AnswersPass
<1> QED
  BY <1>2, <1>3, <1>4 DEF Next

\* Where the starts on one host have one tenant code, the agent gives up only
\* where no report of its start was stored and none can be: the refusal
\* (ErrTenantNotFound) reaches it after it was decided, but no other start enters
\* the host in the directory meanwhile.  With two codes on one host it fails: a
\* batch of the earlier start, still in its handler, may enter the host after the
\* refusal.
THEOREM GivesUpOnlyForTenant ==
    ASSUME SameTenant
    PROVE  Spec => []FatalOnlyForTenant
<1>1. Init => Answers
  <2> SUFFICES ASSUME Init PROVE Answers
    OBVIOUS
  <2>1. agent.sink = 0 /\ agent.pc = "off"
    BY DEF Init
  <2> QED
    BY <2>1 DEF Answers, Own, Denied, GivenUp
<1>2. Inv /\ Directory /\ Answers /\ [Next]_vars => Answers'
  BY AnswersStep
<1>3. Inv /\ Directory /\ Answers => FatalOnlyForTenant
  <2> SUFFICES ASSUME Inv, Directory, Answers, GivenUp
               PROVE  Resolved(agent.id) = "" /\ \A i \in 1..MaxSeq : commits[agent.id, i] = 0
    BY DEF FatalOnlyForTenant, GivenUp
  <2>1. agent.id \in Agents /\ Resolved(agent.id) = ""
    BY DEF Answers, Denied
  <2>2. owner[HostOf[agent.id]] = ""
    BY <2>1, Resolving
  <2>3. agent.id \notin instances
    BY <2>2 DEF Directory
  <2>4. ASSUME NEW i \in 1..MaxSeq PROVE commits[agent.id, i] = 0
    <3>1. <<agent.id, i>> \in Numbers /\ <<agent.id, i>>[1] = agent.id
      BY <2>1 DEF Numbers
    <3> QED
      BY <2>3, <3>1 DEF Directory
  <2> QED
    BY <2>1, <2>4
<1> QED
  BY <1>1, <1>2, <1>3, SpecInv, InitDirectory, StepDirectory, PTL DEF Spec

-----------------------------------------------------------------------------
(* What the agent waits for                                                *)

\* Nothing but batch n is on the stream, and no other is acknowledged there.
Only(x, n) ==
    /\ \A m : Carries(x, m) => m = n
    /\ IsAck(x) => No(Head(x.down).ack) = n

\* The answer that a waiting agent is owed is the one to the batch it has sent.
Owed ==
    agent.pc = "wait" =>
        /\ Owing(stream[agent.sink])
        /\ Only(stream[agent.sink], <<agent.id, agent.seq>>)

LEMMA OnlyPasses ==
    ASSUME NEW x \in Row, NEW y, Passes(x, y), NEW n, Only(x, n)
    PROVE  Only(y, n)
<1>1. \A m : Carries(y, m) => Carries(x, m)
  BY DEF Passes, Carries
<1>2. ASSUME IsAck(y) PROVE No(Head(y.down).ack) = n
  <2>1. CASE y.down = x.down
    BY <1>2, <2>1 DEF Only, IsAck
  <2>2. CASE x.pc \in Busy /\ Head(y.down) = [ack |-> x.batch]
    <3>1. Head(y.down).ack = x.batch
      BY <2>2, Rows, Replies
    <3>2. Carries(x, No(x.batch))
      BY <2>2 DEF Carries
    <3> QED
      BY <3>1, <3>2 DEF Only
  <2> QED
    BY <1>2, <2>1, <2>2 DEF Passes
<1> QED
  BY <1>1, <1>2 DEF Only

LEMMA OwedSent ==
    ASSUME Inv, NEW b \in Batch, Send(b) \/ \E s \in Streams : OpenAndSend(s, b)
    PROVE  Owed'
<1>1. PICK s \in Streams :
        /\ Wait(s, b) /\ b.agent = agent.id
        /\ stream'[s].pc \notin Busy /\ stream'[s].down = <<>>
        /\ stream'[s].up # <<>> => Head(stream'[s].up) = b
        /\ Owing(stream'[s])
  BY SentOn
<1>2. agent'.sink = s /\ agent'.id = agent.id /\ agent'.seq = b.seq
  BY <1>1, AgentTypes DEF Wait, AgentFields
<1>3. Only(stream'[s], No(b))
  BY <1>1 DEF Only, Carries, IsAck
<1>4. No(b) = <<agent'.id, agent'.seq>>
  BY <1>1, <1>2 DEF No
<1> QED
  BY <1>1, <1>2, <1>3, <1>4 DEF Owed

LEMMA StepOwed == Inv /\ Owed /\ [Next]_vars => Owed'
<1> SUFFICES ASSUME Inv, Owed, [Next]_vars PROVE Owed'
  OBVIOUS
<1>1. agent \in AgentFields
  BY AgentTypes
<1>2. CASE \E b \in Batch : Send(b) \/ \E s \in Streams : OpenAndSend(s, b)
  BY <1>2, OwedSent
<1>3. CASE (\E a \in Agents : Boot(a)) \/ SendFails \/ OpenFails \/ Answer \/ Stop
  <2>1. agent'.pc # "wait"
    <3>1. CASE \E a \in Agents : Boot(a)
      <4>1. PICK a \in Agents : Boot(a)
        BY <3>1
      <4>2. agent'.pc = IF Loads(FactsOf[a]) THEN "tick" ELSE "stopped"
        BY <4>1 DEF Boot
      <4> QED
        BY <4>2
    <3>2. CASE SendFails \/ OpenFails \/ RecvLost
      <4>1. PICK n : agent' = [agent EXCEPT !.pc = "tick", !.sink = 0, !.seq = n]
        BY <3>2 DEF SendFails, OpenFails, RecvLost, Retry
      <4>2. agent'.pc = "tick"
        BY <1>1, <4>1 DEF AgentFields
      <4> QED
        BY <4>2
    <3>3. CASE RecvAck \/ Stop
      BY <1>1, <3>3 DEF RecvAck, Stop, AgentFields
    <3>4. CASE RecvStatus
      BY <1>1, <3>4 DEF RecvStatus, Retry, AgentFields
    <3> QED
      BY <1>3, <3>1, <3>2, <3>3, <3>4 DEF Answer
  <2> QED
    BY <2>1 DEF Owed
<1>4. CASE (\E s \in Streams : Handle(s) \/ ReportFails(s) \/ CallFails(s) \/ Lose(s))
           \/ RestartServer \/ UNCHANGED vars
  <2>1. /\ UNCHANGED agent
        /\ \A s \in Streams : stream'[s] = stream[s] \/ Passes(stream[s], stream'[s])
    BY <1>4, Beside
  <2>2. SUFFICES ASSUME agent.pc = "wait"
                 PROVE  /\ Owing(stream'[agent.sink])
                        /\ Only(stream'[agent.sink], <<agent.id, agent.seq>>)
    BY <2>1 DEF Owed
  <2>3. agent.sink \in Streams /\ stream[agent.sink] \in Row
    BY <2>2, AgentTypes, Holding
  <2>4. Owing(stream[agent.sink]) /\ Only(stream[agent.sink], <<agent.id, agent.seq>>)
    BY <2>2 DEF Owed
  <2>5. CASE stream'[agent.sink] = stream[agent.sink]
    BY <2>4, <2>5
  <2>6. CASE Passes(stream[agent.sink], stream'[agent.sink])
    <3>1. Only(stream'[agent.sink], <<agent.id, agent.seq>>)
      BY <2>3, <2>4, <2>6, OnlyPasses
    <3> QED
      BY <2>4, <2>6, <3>1 DEF Passes
  <2> QED
    BY <2>1, <2>3, <2>5, <2>6
<1> QED
  BY <1>2, <1>3, <1>4 DEF Next, Cycle

\* What CyclesEnd rests on besides fairness: for as long as the agent waits in
\* Recv, which has no deadline, an answer has arrived, or its batch is on its way
\* or in a handler, or the connection is gone.  No failure, restart or loss leaves
\* it waiting for nothing.
THEOREM AnswerIsOwed == Spec => []Owed
<1>1. Init => Owed
  <2> SUFFICES ASSUME Init PROVE Owed
    OBVIOUS
  <2>1. agent.pc = "off"
    BY DEF Init
  <2> QED
    BY <2>1 DEF Owed
<1> QED
  BY <1>1, StepOwed, SpecInv, PTL DEF Spec

\* The acknowledgement that the agent takes.
RightAck == RecvAck => No(Head(stream[agent.sink].down).ack) = <<agent.id, agent.seq>>

\* The agent takes each acknowledgement for the batch that it acknowledges: an
\* acknowledgement that comes late, after a failed cycle or a restart, is never
\* read.  The error "metric batch ack seq mismatch" (pushMetricsGRPC) cannot occur.
THEOREM AcksMatch == Spec => [][RightAck]_vars
<1>1. Owed => RightAck
  BY DEF Owed, Only, IsAck, RightAck, RecvAck
<1> QED
  BY <1>1, AnswerIsOwed, PTL DEF Spec
=============================================================================

--------------------------- MODULE SamplerProofs ---------------------------
(***************************************************************************)
(* Proofs about Sampler, for any readings, any collectors that fail or are *)
(* late and any number of rounds: the results of different rounds do not   *)
(* mix, a batch tells what became of every collector and has its points,   *)
(* and readers are shown what is theirs, with the values that were sampled.*)
(***************************************************************************)
EXTENDS Sampler, TLAPS

\* Every leaf that names no prover goes to Zenon; the arithmetic goes to SMT.
USE ZenonT(90)

-----------------------------------------------------------------------------
GoFields == {"pc", "points", "failed", "timedOut"}

GoShape ==
    /\ DOMAIN go = Rounds
    /\ \A r \in Rounds : DOMAIN go[r] = Names
    /\ \A r \in Rounds, c \in Names : DOMAIN go[r][c] = GoFields

\* Only rounds that have begun have goroutines.
Begun == \A r \in Rounds, c \in Names : go[r][c].pc # "none" => r <= round

\* A result in the channel of a round is of a goroutine of that round which is done.
Channels ==
    /\ DOMAIN chan = Rounds
    /\ \A r \in Rounds : \A m \in chan[r] : \E c \in Names : m = <<r, c>> /\ go[r][c].pc = "done"

Control ==
    /\ round \in 0..MaxRounds /\ phase \in {"idle", "collecting", "collected"} /\ expired \in BOOLEAN
    /\ phase # "idle" => round \in Rounds
    /\ scenario \in Scenarios

\* What the current round has from its collectors.
Results ==
    /\ byName \in [Names -> {0, round}]
    /\ \A c \in Names : byName[c] # 0 => round \in Rounds /\ go[round][c].pc = "done"
    /\ phase = "collected" /\ (\E c \in Names : byName[c] = 0) => expired
    /\ round \in Rounds => \A c \in Names :
         /\ go[round][c].timedOut => expired
         /\ go[round][c].failed \subseteq Reads(c, scenario[round])

Told(s) ==
    /\ s.name \in Names
    /\ s.state # "unavailable" <=> s.name \in batch.capabilities
    /\ s.state = "available" => byName[s.name] # 0 /\ go[round][s.name].failed = {}
    /\ byName[s.name] = 0 => s.timedOut /\ s.state = "unavailable"
    /\ s.timedOut => expired

Reported == Sent => \A i \in DOMAIN batch.statuses : Told(batch.statuses[i])

Inv == GoShape /\ Begun /\ Channels /\ Control /\ Results /\ Reported

-----------------------------------------------------------------------------
(* The goroutines and their results                                        *)

\* The arithmetic of rounds.
LEMMA RoundNumbers ==
    /\ 0 \in 0..MaxRounds /\ 0 \notin Rounds /\ ~(0 > 0)
    /\ \A r \in Rounds : r \in Nat /\ r \in 0..MaxRounds /\ r > 0
    /\ \A r \in 0..MaxRounds : r \in Nat /\ (r # 0 => r \in Rounds) /\ (r > 0 => r \in Rounds)
    /\ \A r \in 0..MaxRounds : r < MaxRounds => r + 1 \in Rounds
    /\ \A r \in Nat : ~(r < r) /\ r <= r /\ r < r + 1 /\ r + 1 > 0
    /\ \A r, s \in Nat : r <= s => r <= s + 1 /\ r < s + 1 /\ r # s + 1
    /\ \A r, s \in Nat : r < s => r <= s /\ r # s /\ ~(s < r) /\ ~(s <= r)
<1>1. MaxRounds \in Nat
  BY SamplerAssumption
<1> QED
  BY <1>1, SMTT(60) DEF Rounds

LEMMA InitInv == Init => Inv
<1> SUFFICES ASSUME Init PROVE Inv
  OBVIOUS
<1>1. /\ go = [r \in Rounds |-> [c \in Names |-> NotStarted]] /\ chan = [r \in Rounds |-> {}]
      /\ byName = [c \in Names |-> 0] /\ round = 0 /\ phase = "idle" /\ expired = FALSE
      /\ scenario \in Scenarios
  BY DEF Init
<1>2. DOMAIN NotStarted = GoFields
  BY DEF NotStarted, GoFields
<1>3. GoShape
  BY <1>1, <1>2 DEF GoShape
<1>4. Channels /\ Begun
  <2>1. NotStarted.pc = "none"
    BY DEF NotStarted
  <2> QED
    BY <1>1, <2>1 DEF Channels, Begun
<1>5. 0 \in 0..MaxRounds /\ 0 \notin Rounds /\ ~(0 > 0)
  BY RoundNumbers
<1>6. Control
  BY <1>1, <1>5 DEF Control
<1>7. Results
  BY <1>1, <1>5 DEF Results
<1>8. Reported
  BY <1>1, <1>5 DEF Reported, Sent
<1> QED
  BY <1>3, <1>4, <1>6, <1>7, <1>8 DEF Inv

\* A new round begins with nothing received and nobody late.
LEMMA Starts ==
    ASSUME Inv, Start
    PROVE  Inv'
<1> DEFINE n == round + 1
           New(c) == IF c \in FlakyIn(n) THEN [NotStarted EXCEPT !.pc = "reading"]
                     ELSE [Over EXCEPT !.points = run(c, scenario[n], {})]
<1>1. /\ round' = n /\ phase' = IF FlakyIn(n) = {} THEN "collected" ELSE "collecting"
      /\ byName' = [c \in Names |-> IF c \in FlakyIn(n) THEN 0 ELSE n]
      /\ expired' = FALSE /\ chan' = chan /\ scenario' = scenario /\ round < MaxRounds
  BY DEF Start
<1>2. go' = [r \in Rounds |-> [c \in Names |->
               IF r = n THEN New(c) ELSE IF go[r][c].pc = "done" THEN Over ELSE go[r][c]]]
  BY DEF Start
<1>3. n \in Rounds /\ n \in 0..MaxRounds /\ n # 0 /\ n \in Nat /\ round \in Nat
  BY <1>1, RoundNumbers DEF Inv, Control
<1>4. /\ DOMAIN NotStarted = GoFields /\ DOMAIN Over = GoFields
      /\ NotStarted.failed = {} /\ NotStarted.timedOut = FALSE
      /\ Over.pc = "done" /\ Over.failed = {} /\ Over.timedOut = FALSE
  BY DEF NotStarted, Over, GoFields
<1>5. ASSUME NEW c \in Names
      PROVE  /\ DOMAIN New(c) = GoFields /\ New(c).failed = {} /\ New(c).timedOut = FALSE
             /\ c \notin FlakyIn(n) => New(c).pc = "done"
  <2>1. CASE c \in FlakyIn(n)
    BY <1>4, <2>1 DEF GoFields
  <2>2. CASE c \notin FlakyIn(n)
    BY <1>4, <2>2 DEF GoFields
  <2> QED
    BY <2>1, <2>2
<1> HIDE DEF New
<1>6. \A r \in Rounds, c \in Names :
        go'[r][c] = IF r = n THEN New(c) ELSE IF go[r][c].pc = "done" THEN Over ELSE go[r][c]
  BY <1>2
<1>7. GoShape'
  BY <1>2, <1>4, <1>5, <1>6 DEF Inv, GoShape
<1>8. \A c \in Names : go'[n][c] = New(c)
  BY <1>3, <1>6
<1>9. Control'
  BY <1>1, <1>3 DEF Inv, Control
<1>10. Results'
  <2>1. byName' \in [Names -> {0, n}]
    BY <1>1
  <2>2. ASSUME NEW c \in Names, byName'[c] # 0 PROVE go'[n][c].pc = "done"
    BY <1>1, <1>5, <1>8, <2>2
  <2>3. phase' = "collected" => \A c \in Names : byName'[c] # 0
    BY <1>1, <1>3
  <2>4. \A c \in Names : ~go'[n][c].timedOut /\ go'[n][c].failed = {}
    BY <1>5, <1>8
  <2> QED
    BY <1>1, <1>3, <2>1, <2>2, <2>3, <2>4 DEF Results
<1>11. Channels'
  <2>1. SUFFICES ASSUME NEW r \in Rounds, NEW m \in chan[r]
                 PROVE  \E c \in Names : m = <<r, c>> /\ go'[r][c].pc = "done"
    BY <1>1 DEF Inv, Channels
  <2>2. PICK c \in Names : m = <<r, c>> /\ go[r][c].pc = "done"
    BY DEF Inv, Channels
  <2>3. r # n
    <3>1. r <= round
      BY <2>2 DEF Inv, Begun
    <3> QED
      BY <1>3, <3>1, RoundNumbers
  <2> QED
    BY <1>4, <1>6, <2>2, <2>3
<1>12. Reported'
  BY <1>1 DEF Reported, Sent
<1>13. Begun'
  <2>1. \A r \in Rounds : r <= round => r <= n
    BY <1>3, RoundNumbers
  <2>2. n <= n
    BY <1>3, RoundNumbers
  <2>3. ASSUME NEW r \in Rounds, NEW c \in Names, go'[r][c].pc # "none", r # n PROVE r <= round
    <3>1. go[r][c].pc # "none"
      BY <1>6, <2>3
    <3> QED
      BY <3>1 DEF Inv, Begun
  <2> QED
    BY <1>1, <2>1, <2>2, <2>3 DEF Begun
<1> QED
  BY <1>7, <1>9, <1>10, <1>11, <1>12, <1>13 DEF Inv

\* A goroutine moves on and takes nothing back that the round has received.
LEMMA Moves ==
    ASSUME Inv, NEW r \in Rounds, NEW c \in Names, NEW y, DOMAIN y = GoFields,
           go' = [go EXCEPT ![r][c] = y], go[r][c].pc # "none", go[r][c].pc # "done",
           r = round => /\ y.timedOut => expired
                        /\ y.failed \subseteq Reads(c, scenario[round]),
           UNCHANGED <<scenario, round, phase, expired, byName, batch>>
    PROVE  /\ GoShape' /\ Begun' /\ Control' /\ Results' /\ Reported'
           /\ go'[r][c] = y
           /\ \A q \in Rounds, d \in Names : go[q][d].pc = "done" => go'[q][d] = go[q][d]
<1>1. /\ DOMAIN go = Rounds /\ (\A q \in Rounds : DOMAIN go[q] = Names)
      /\ \A q \in Rounds, d \in Names : DOMAIN go[q][d] = GoFields
  BY DEF Inv, GoShape
<1>2. /\ DOMAIN go' = Rounds /\ (\A q \in Rounds : DOMAIN go'[q] = Names) /\ go'[r][c] = y
      /\ \A q \in Rounds, d \in Names : q # r \/ d # c => go'[q][d] = go[q][d]
  BY <1>1
<1>3. \A q \in Rounds, d \in Names : (go'[q][d] = y /\ q = r /\ d = c) \/ go'[q][d] = go[q][d]
  BY <1>2
<1>4. GoShape'
  BY <1>1, <1>2, <1>3 DEF GoShape
<1>5. Begun'
  BY <1>3 DEF Inv, Begun
<1>6. Control'
  BY DEF Inv, Control
<1>7. \A q \in Rounds, d \in Names : go[q][d].pc = "done" => go'[q][d] = go[q][d]
  BY <1>3
<1>8. Results'
  <2>1. \A d \in Names : byName[d] # 0 => round \in Rounds /\ go'[round][d].pc = "done"
    BY <1>7 DEF Inv, Results
  <2>2. ASSUME round \in Rounds, NEW d \in Names
        PROVE  /\ go'[round][d].timedOut => expired
               /\ go'[round][d].failed \subseteq Reads(d, scenario[round])
    BY <1>3, <2>2 DEF Inv, Results
  <2> QED
    BY <2>1, <2>2 DEF Inv, Results
<1>9. Reported'
  <2>1. SUFFICES ASSUME Sent, NEW i \in DOMAIN batch.statuses PROVE Told(batch.statuses[i])'
    BY DEF Reported, Sent
  <2> DEFINE s == batch.statuses[i]
  <2>2. Told(s)
    BY <2>1 DEF Inv, Reported
  <2>3. byName[s.name] # 0 => go'[round][s.name] = go[round][s.name]
    BY <1>7, <2>2 DEF Inv, Results, Told
  <2> QED
    BY <2>2, <2>3 DEF Told
<1> QED
  BY <1>2, <1>4, <1>5, <1>6, <1>7, <1>8, <1>9

LEMMA ReadKeeps ==
    ASSUME Inv, NEW r \in Rounds, NEW c \in Names, Read(r, c)
    PROVE  Inv'
<1>1. PICK failed \in SUBSET (Reads(c, scenario[r]) \cap MayFail) :
        go' = [go EXCEPT ![r][c] = [pc |-> "sending", points |-> run(c, scenario[r], failed),
                                    failed |-> failed, timedOut |-> r < round \/ expired]]
  BY DEF Read
<1> DEFINE y == [pc |-> "sending", points |-> run(c, scenario[r], failed),
                 failed |-> failed, timedOut |-> r < round \/ expired]
<1>2. /\ DOMAIN y = GoFields /\ y.failed = failed /\ y.timedOut = (r < round \/ expired)
  BY DEF GoFields
<1>3. /\ go[r][c].pc = "reading"
      /\ UNCHANGED <<scenario, round, phase, expired, byName, batch, chan>>
  BY DEF Read
<1>4. r = round => (y.timedOut => expired) /\ y.failed \subseteq Reads(c, scenario[round])
  <2>1. r \in Nat /\ ~(r < r)
    BY RoundNumbers
  <2> QED
    BY <1>2, <2>1
<1> HIDE DEF y
<1>5. go' = [go EXCEPT ![r][c] = y]
  BY <1>1 DEF y
<1>6. /\ GoShape' /\ Begun' /\ Control' /\ Results' /\ Reported'
      /\ \A q \in Rounds, d \in Names : go[q][d].pc = "done" => go'[q][d] = go[q][d]
  BY <1>2, <1>3, <1>4, <1>5, Moves
<1>7. Channels'
  <2>1. SUFFICES ASSUME NEW q \in Rounds, NEW m \in chan[q]
                 PROVE  \E d \in Names : m = <<q, d>> /\ go'[q][d].pc = "done"
    BY <1>3 DEF Inv, Channels
  <2>2. PICK d \in Names : m = <<q, d>> /\ go[q][d].pc = "done"
    BY DEF Inv, Channels
  <2> QED
    BY <1>6, <2>2
<1> QED
  BY <1>6, <1>7 DEF Inv

LEMMA SendKeeps ==
    ASSUME Inv, NEW r \in Rounds, NEW c \in Names, Send(r, c)
    PROVE  Inv'
<1> DEFINE y == [go[r][c] EXCEPT !.pc = "done"]
<1>1. /\ go[r][c].pc = "sending" /\ go' = [go EXCEPT ![r][c] = y]
      /\ chan' = [chan EXCEPT ![r] = chan[r] \cup {<<r, c>>}]
      /\ UNCHANGED <<scenario, round, phase, expired, byName, batch>>
  BY DEF Send, ChanOf
<1>2. DOMAIN go[r][c] = GoFields
  BY DEF Inv, GoShape
<1>3. /\ DOMAIN y = GoFields /\ y.pc = "done" /\ y.failed = go[r][c].failed
      /\ y.timedOut = go[r][c].timedOut
  BY <1>2 DEF GoFields
<1>4. r = round => (y.timedOut => expired) /\ y.failed \subseteq Reads(c, scenario[round])
  BY <1>3 DEF Inv, Results
<1> HIDE DEF y
<1>5. /\ GoShape' /\ Begun' /\ Control' /\ Results' /\ Reported' /\ go'[r][c] = y
      /\ \A q \in Rounds, d \in Names : go[q][d].pc = "done" => go'[q][d] = go[q][d]
  BY <1>1, <1>3, <1>4, Moves
<1>6. Channels'
  <2>1. DOMAIN chan = Rounds
    BY DEF Inv, Channels
  <2>2. /\ DOMAIN chan' = Rounds
        /\ \A q \in Rounds : \A m \in chan'[q] : m \in chan[q] \/ (q = r /\ m = <<r, c>>)
    BY <1>1, <2>1
  <2> QED
    BY <1>3, <1>5, <2>2 DEF Inv, Channels
<1> QED
  BY <1>5, <1>6 DEF Inv

\* collectExtendedMetrics takes a result of its own round, waits or gives up.
LEMMA ReceiveKeeps ==
    ASSUME Inv, Receive
    PROVE  Inv'
<1>1. PICK m \in chan[round] :
        /\ chan' = [chan EXCEPT ![round] = chan[round] \ {m}]
        /\ byName' = [byName EXCEPT ![m[2]] = m[1]]
        /\ phase' = IF \A c \in Names : byName'[c] # 0 THEN "collected" ELSE phase
  BY DEF Receive, ChanOf
<1>2. /\ phase = "collecting" /\ UNCHANGED <<scenario, round, expired, go, batch>>
  BY DEF Receive
<1>3. round \in Rounds /\ round # 0
  BY <1>2, RoundNumbers DEF Inv, Control
<1>4. PICK c \in Names : m = <<round, c>> /\ go[round][c].pc = "done"
  BY <1>3 DEF Inv, Channels
<1>5. m[1] = round /\ m[2] = c
  BY <1>4
<1>6. /\ byName \in [Names -> {0, round}] /\ byName' = [byName EXCEPT ![c] = round]
      /\ byName' \in [Names -> {0, round}]
  BY <1>1, <1>5 DEF Inv, Results
<1>7. Results'
  <2>1. \A d \in Names : byName'[d] # 0 => go[round][d].pc = "done"
    BY <1>4, <1>6 DEF Inv, Results
  <2>2. phase' = "collected" => \A d \in Names : byName'[d] # 0
    BY <1>1, <1>2
  <2> QED
    BY <1>2, <1>3, <1>6, <2>1, <2>2 DEF Inv, Results
<1>8. phase' \in {"collecting", "collected"}
  BY <1>1, <1>2
<1>9. Control' /\ Reported'
  <2>1. phase' # "idle"
    BY <1>8
  <2> QED
    BY <1>2, <1>3, <1>8, <2>1 DEF Inv, Control, Reported, Sent
<1>10. Channels'
  <2>1. DOMAIN chan' = Rounds /\ \A q \in Rounds : chan'[q] \subseteq chan[q]
    BY <1>1 DEF Inv, Channels
  <2> QED
    BY <1>2, <2>1 DEF Inv, Channels
<1> QED
  BY <1>2, <1>7, <1>9, <1>10 DEF Inv, GoShape, Begun

LEMMA WaitingKeeps ==
    ASSUME Inv, Expire \/ GiveUp
    PROVE  Inv'
<1>1. /\ UNCHANGED <<scenario, round, go, chan, byName, batch>> /\ phase = "collecting"
      /\ phase' \in {"collecting", "collected"} /\ expired' \in BOOLEAN /\ (expired => expired')
      /\ phase' = "collected" => expired'
  <2>1. CASE Expire
    BY <2>1 DEF Expire
  <2>2. CASE GiveUp
    BY <2>2 DEF GiveUp, Inv, Control
  <2> QED
    BY <2>1, <2>2
<1>2. phase' # "idle" /\ round \in Rounds
  BY <1>1 DEF Inv, Control
<1>3. Control' /\ Reported'
  BY <1>1, <1>2 DEF Inv, Control, Reported, Sent
<1>4. Results'
  BY <1>1 DEF Inv, Results
<1> QED
  BY <1>1, <1>3, <1>4 DEF Inv, GoShape, Begun, Channels

\* What pushMetrics says of a collector.
LEMMA Telling ==
    ASSUME Inv, phase = "collected", NEW c \in Names
    PROVE  /\ Status(c).name = c
           /\ Status(c).state # "unavailable" <=> Present(c)
           /\ Status(c).state = "available" => byName[c] # 0 /\ go[round][c].failed = {}
           /\ byName[c] = 0 => Status(c).timedOut /\ Status(c).state = "unavailable"
           /\ Status(c).timedOut => expired
<1>1. byName[c] \in {0, round} /\ (byName[c] # 0 => round \in Rounds)
  BY DEF Inv, Results
<1>2. /\ Status(c).name = c /\ Status(c).state = State(c)
      /\ Status(c).timedOut = (~Completed(c) \/ go[byName[c]][c].timedOut)
  BY DEF Status
<1>3. CASE byName[c] = 0
  <2>1. Points(c) = <<>>
    BY <1>3 DEF Points, Completed
  <2>2. State(c) = "unavailable"
    BY <2>1 DEF State
  <2>3. expired
    BY <1>3 DEF Inv, Results
  <2> QED
    BY <1>2, <1>3, <2>2, <2>3 DEF Present, Completed
<1>4. CASE byName[c] # 0
  <2>1. byName[c] = round /\ Completed(c)
    BY <1>1, <1>4 DEF Completed
  <2>2. State(c) = "available" => Failed(c) = {}
    <3>1. CASE Points(c) = <<>>
      BY <3>1 DEF State
    <3>2. CASE Points(c) # <<>> /\ Failed(c) # {}
      BY <3>2 DEF State
    <3> QED
      BY <3>1, <3>2 DEF State
  <2>3. go[round][c].timedOut => expired
    BY <1>1, <1>4 DEF Inv, Results
  <2> QED
    BY <1>2, <1>4, <2>1, <2>2, <2>3 DEF Present, Failed
<1> QED
  BY <1>3, <1>4

\* What Push computes, once.
LEMMA Pushed ==
    ASSUME Push
    PROVE  /\ batch'.statuses = [i \in DOMAIN collectors |-> Status(collectors[i])]
           /\ batch'.capabilities = {c \in Names : Present(c)}
           /\ batch'.digest = Sample(SystemMetrics)
           /\ prevNet' = Remember(prevNet, SystemMetrics.interfaces, NetSample(SystemMetrics))
           /\ prevDisk' = Remember(prevDisk, SystemMetrics.disks, DiskSample(SystemMetrics))
           /\ used' = [net  |-> IF SystemMetrics.interfaces # {} THEN used.net \cup {round} ELSE used.net,
                       disk |-> IF SystemMetrics.disks # {} THEN used.disk \cup {round} ELSE used.disk]
           /\ phase = "collected" /\ phase' = "idle"
           /\ UNCHANGED <<scenario, round, expired, go, chan, byName>>
<1>1. PICK system \in {SystemMetrics} :
         /\ \E d \in {Sample(system)} : \E dst \in {SummaryPoints(d)}, extra \in {ExtraPoints} :
            \E b \in {[points |-> appendMetricPoints(dst, extra),
                       statuses |-> [i \in DOMAIN collectors |-> Status(collectors[i])],
                       capabilities |-> {c \in Names : Present(c)}, digest |-> d]} : batch' = b
         /\ prevNet' = Remember(prevNet, system.interfaces, NetSample(system))
         /\ prevDisk' = Remember(prevDisk, system.disks, DiskSample(system))
         /\ used' = [net  |-> IF system.interfaces # {} THEN used.net \cup {round} ELSE used.net,
                     disk |-> IF system.disks # {} THEN used.disk \cup {round} ELSE used.disk]
  BY DEF Push
<1>2. system = SystemMetrics
  OBVIOUS
<1>3. PICK points, statuses, capabilities, digest :
        /\ statuses = [i \in DOMAIN collectors |-> Status(collectors[i])]
        /\ capabilities = {c \in Names : Present(c)} /\ digest = Sample(system)
        /\ batch' = [points |-> points, statuses |-> statuses, capabilities |-> capabilities,
                     digest |-> digest]
  BY <1>1
<1>4. /\ phase = "collected" /\ phase' = "idle" /\ UNCHANGED <<scenario, round, expired, go, chan, byName>>
  BY DEF Push
<1> QED
  <2>1. batch'.statuses = statuses /\ batch'.capabilities = capabilities /\ batch'.digest = digest
    BY <1>3
  <2> QED
    BY <1>1, <1>2, <1>3, <1>4, <2>1

LEMMA PushKeeps ==
    ASSUME Inv, Push
    PROVE  Inv'
<1>1. /\ batch'.statuses = [i \in DOMAIN collectors |-> Status(collectors[i])]
      /\ batch'.capabilities = {c \in Names : Present(c)}
  BY Pushed
<1>2. /\ phase = "collected" /\ phase' = "idle"
      /\ UNCHANGED <<scenario, round, expired, go, chan, byName>>
  BY Pushed
<1>3. Reported'
  <2>1. SUFFICES ASSUME NEW i \in DOMAIN collectors, NEW s, s = Status(collectors[i]) PROVE Told(s)'
    BY <1>1 DEF Reported
  <2>2. collectors[i] \in Names
    BY DEF Names, Range
  <2>3. /\ s.name = collectors[i]
        /\ s.state # "unavailable" <=> Present(collectors[i])
        /\ s.state = "available" => byName[s.name] # 0 /\ go[round][s.name].failed = {}
        /\ byName[s.name] = 0 => s.timedOut /\ s.state = "unavailable"
        /\ s.timedOut => expired
    BY <1>2, <2>1, <2>2, Telling
  <2> QED
    BY <1>1, <1>2, <2>2, <2>3 DEF Told
<1>4. Control' /\ Results'
  BY <1>2 DEF Inv, Control, Results
<1> QED
  BY <1>2, <1>3, <1>4 DEF Inv, GoShape, Begun, Channels

LEMMA StepInv == Inv /\ [Next]_vars => Inv'
<1> SUFFICES ASSUME Inv, [Next]_vars PROVE Inv'
  OBVIOUS
<1>1. CASE UNCHANGED vars
  BY <1>1 DEF vars, Inv, GoShape, Begun, Channels, Control, Results, Reported, Told, Sent
<1> QED
  BY <1>1, Starts, ReadKeeps, SendKeeps, ReceiveKeeps, WaitingKeeps, PushKeeps DEF Next

\* The results that a round uses are its own, and what it says of them is so.
THEOREM SpecInv == Spec => []Inv
  BY InitInv, StepInv, PTL DEF Spec

\* Whatever collectors fail, hang or answer after their round, in any number of rounds,
\* a batch describes its own round: nothing late slips into the next one, and a collector
\* is available, degraded by a failed read, or timed out as it was
\* (collectExtendedMetrics).
THEOREM RoundsDoNotMix == Spec => []StatusesOfRound
<1>1. Inv => StatusesOfRound
  <2> SUFFICES ASSUME Inv, Sent, NEW i \in DOMAIN batch.statuses
               PROVE  LET s == batch.statuses[i] IN
                      /\ byName[s.name] \in {0, round}
                      /\ s.state # "unavailable" <=> s.name \in batch.capabilities
                      /\ s.state = "available" => go[round][s.name].failed = {}
                      /\ (byName[s.name] = 0) => s.timedOut /\ s.state = "unavailable"
                      /\ s.timedOut => expired
    BY DEF StatusesOfRound
  <2>1. Told(batch.statuses[i])
    BY DEF Inv, Reported
  <2> QED
    BY <2>1 DEF Told, Inv, Results
<1> QED
  BY <1>1, SpecInv, PTL

-----------------------------------------------------------------------------
(* Readers                                                                 *)

\* A snapshot names its host and has the metrics of its row.
SnapshotOf(s, u, host) ==
    /\ s.host_uid = u /\ s.tenant_code = host.tenant /\ s.last_metric_at = host.status.lastMetricAt
    /\ s.metrics = [k \in MetricKeys |-> host.status.values[MetricField[k]]]

LEMMA Snapshots == ASSUME NEW u, NEW host PROVE SnapshotOf(hostSnapshotFromModel(u, host), u, host)
  BY DEF hostSnapshotFromModel, SnapshotOf

\* The guards of ReadHosts and ReadHost come to MayRead.
LEMMA Allowed ==
    ASSUME NEW hosts, \A u \in DOMAIN hosts : hosts[u].tenant # "", NEW p \in Readers,
           NEW u \in DOMAIN hosts
    PROVE  MayRead(hosts, p, u) <=>
             hosts[u].tenant = p.tenant /\ validReader(p) /\ AllowsHost(p, hosts[u].tenant, u)
<1>1. p.kind \in {"user", "share", "demo"} /\ hosts[u].tenant # ""
  BY ReadersAssumption
<1>2. CASE p.kind = "user"
  BY <1>1, <1>2 DEF MayRead, validReader, AllowsHost, IsUser
<1>3. CASE p.kind # "user"
  <2>1. p.kind \in {"share", "demo"}
    BY <1>1, <1>3
  <2>2. u \in p.hosts => p.hosts # {}
    OBVIOUS
  <2> QED
    BY <1>1, <1>3, <2>1, <2>2 DEF MayRead, validReader, AllowsHost, IsUser
<1> QED
  BY <1>2, <1>3

LEMMA ReadAll ==
    ASSUME NEW hosts, \A u \in DOMAIN hosts : hosts[u].tenant # "", NEW p \in Readers, NEW s
    PROVE  s \in ReadHosts(hosts, p) <=>
             \E u \in DOMAIN hosts : MayRead(hosts, p, u) /\ s = hostSnapshotFromModel(u, hosts[u])
<1>1. ASSUME s \in ReadHosts(hosts, p)
      PROVE  \E u \in DOMAIN hosts : MayRead(hosts, p, u) /\ s = hostSnapshotFromModel(u, hosts[u])
  <2>1. PICK u \in DOMAIN hosts : hosts[u].tenant = p.tenant /\ s = hostSnapshotFromModel(u, hosts[u])
    BY <1>1 DEF ReadHosts, listHosts
  <2>2. validReader(p) /\ AllowsHost(p, hosts[u].tenant, u)
    <3>1. SnapshotOf(s, u, hosts[u])
      BY <2>1, Snapshots
    <3>2. validReader(p) /\ AllowsHost(p, s.tenant_code, s.host_uid)
      BY <1>1 DEF ReadHosts
    <3> QED
      BY <3>1, <3>2 DEF SnapshotOf
  <2> QED
    BY <2>1, <2>2, Allowed
<1>2. ASSUME NEW u \in DOMAIN hosts, MayRead(hosts, p, u), s = hostSnapshotFromModel(u, hosts[u])
      PROVE  s \in ReadHosts(hosts, p)
  <2>1. hosts[u].tenant = p.tenant /\ validReader(p) /\ AllowsHost(p, hosts[u].tenant, u)
    BY <1>2, Allowed
  <2>2. s.tenant_code = hosts[u].tenant /\ s.host_uid = u
    <3>1. SnapshotOf(s, u, hosts[u])
      BY <1>2, Snapshots
    <3> QED
      BY <3>1 DEF SnapshotOf
  <2>3. s \in listHosts(hosts, DOMAIN hosts, p.tenant)
    BY <1>2, <2>1 DEF listHosts
  <2> QED
    BY <2>1, <2>2, <2>3 DEF ReadHosts
<1> QED
  BY <1>1, <1>2

LEMMA ReadOne ==
    ASSUME NEW hosts, \A u \in DOMAIN hosts : hosts[u].tenant # "", NEW p \in Readers,
           NEW u \in DOMAIN hosts, NEW s
    PROVE  s \in ReadHost(hosts, p, u) <=> MayRead(hosts, p, u) /\ s = hostSnapshotFromModel(u, hosts[u])
<1>1. s \in getHostByUID(hosts, u, p.tenant) <=>
        hosts[u].tenant = p.tenant /\ s = hostSnapshotFromModel(u, hosts[u])
  BY DEF getHostByUID, listHosts
<1>2. ASSUME hosts[u].tenant = p.tenant, s = hostSnapshotFromModel(u, hosts[u])
      PROVE  s \in ReadHost(hosts, p, u) <=> MayRead(hosts, p, u)
  <2>1. s.tenant_code = hosts[u].tenant /\ s.host_uid = u
    <3>1. SnapshotOf(s, u, hosts[u])
      BY <1>2, Snapshots
    <3> QED
      BY <3>1 DEF SnapshotOf
  <2> QED
    BY <1>1, <1>2, <2>1, Allowed DEF ReadHost
<1>3. MayRead(hosts, p, u) => hosts[u].tenant = p.tenant
  BY DEF MayRead
<1>4. s \in ReadHost(hosts, p, u) => s \in getHostByUID(hosts, u, p.tenant)
  BY DEF ReadHost
<1> QED
  BY <1>1, <1>2, <1>3, <1>4

\* What is shown in a list is shown of each host that may be read.
LEMMA Listed ==
    ASSUME NEW hosts, \A u \in DOMAIN hosts : hosts[u].tenant # "", NEW p \in Readers, NEW x
    PROVE  x \in handleListHosts(hosts, p) <=>
             \E u \in DOMAIN hosts : /\ MayRead(hosts, p, u)
                                     /\ x = <<u, ProjectHost(p, hostSnapshotFromModel(u, hosts[u]))>>
<1>1. x \in handleListHosts(hosts, p) <=> \E s \in ReadHosts(hosts, p) : x = <<s.host_uid, ProjectHost(p, s)>>
  BY DEF handleListHosts, ProjectHosts
<1>2. \A u \in DOMAIN hosts : hostSnapshotFromModel(u, hosts[u]).host_uid = u
  BY Snapshots DEF SnapshotOf
<1>3. ASSUME NEW s \in ReadHosts(hosts, p), x = <<s.host_uid, ProjectHost(p, s)>>
      PROVE  \E u \in DOMAIN hosts : /\ MayRead(hosts, p, u)
                                     /\ x = <<u, ProjectHost(p, hostSnapshotFromModel(u, hosts[u]))>>
  <2>1. PICK u \in DOMAIN hosts : MayRead(hosts, p, u) /\ s = hostSnapshotFromModel(u, hosts[u])
    BY ReadAll
  <2> QED
    BY <1>2, <1>3, <2>1
<1>4. ASSUME NEW u \in DOMAIN hosts, MayRead(hosts, p, u),
             x = <<u, ProjectHost(p, hostSnapshotFromModel(u, hosts[u]))>>
      PROVE  \E s \in ReadHosts(hosts, p) : x = <<s.host_uid, ProjectHost(p, s)>>
  <2>1. hostSnapshotFromModel(u, hosts[u]) \in ReadHosts(hosts, p)
    BY <1>4, ReadAll
  <2> QED
    BY <1>2, <1>4, <2>1
<1> QED
  BY <1>1, <1>3, <1>4

\* Whatever hosts the table has, a reader is shown those of its space that it may read and
\* no other, the same in the list and one by one, and no metrics that were not shared
\* (ReadHosts, ReadHost, ProjectHost and latestMetricPointsByHost).
THEOREM ReadersAreScoped ==
    ASSUME NEW hosts, \A u \in DOMAIN hosts : hosts[u].tenant # "", NEW p \in Readers
    PROVE  ReadsAreScoped(hosts, p)
<1> DEFINE Of(u) == ProjectHost(p, hostSnapshotFromModel(u, hosts[u]))
<1>1. \A x : x \in handleListHosts(hosts, p) <=>
        \E u \in DOMAIN hosts : MayRead(hosts, p, u) /\ x = <<u, Of(u)>>
  BY Listed
<1> HIDE DEF Of
<1>2. \A u : <<u, Of(u)>>[1] = u /\ <<u, Of(u)>>[2] = Of(u)
  OBVIOUS
<1>3. {shown[1] : shown \in handleListHosts(hosts, p)} = {uid \in DOMAIN hosts : MayRead(hosts, p, uid)}
  <2>1. ASSUME NEW x \in handleListHosts(hosts, p)
        PROVE  x[1] \in DOMAIN hosts /\ MayRead(hosts, p, x[1])
    BY <1>1, <1>2
  <2>2. ASSUME NEW u \in DOMAIN hosts, MayRead(hosts, p, u)
        PROVE  \E x \in handleListHosts(hosts, p) : u = x[1]
    <3>1. <<u, Of(u)>> \in handleListHosts(hosts, p)
      BY <1>1, <2>2
    <3> QED
      BY <1>2, <3>1
  <2> QED
    BY <2>1, <2>2
<1>4. ASSUME NEW uid \in DOMAIN hosts
      PROVE  handleGetHost(hosts, p, uid) = {shown[2] : shown \in {x \in handleListHosts(hosts, p) : x[1] = uid}}
  <2>1. \A y : y \in handleGetHost(hosts, p, uid) <=> MayRead(hosts, p, uid) /\ y = Of(uid)
    BY ReadOne DEF handleGetHost, Of
  <2>2. ASSUME NEW y \in handleGetHost(hosts, p, uid)
        PROVE  \E x \in {z \in handleListHosts(hosts, p) : z[1] = uid} : y = x[2]
    <3>1. <<uid, Of(uid)>> \in handleListHosts(hosts, p) /\ y = Of(uid)
      BY <1>1, <2>1
    <3> QED
      BY <1>2, <3>1
  <2>3. ASSUME NEW x \in handleListHosts(hosts, p), x[1] = uid
        PROVE  x[2] \in handleGetHost(hosts, p, uid)
    <3>1. PICK u \in DOMAIN hosts : MayRead(hosts, p, u) /\ x = <<u, Of(u)>>
      BY <1>1
    <3>2. u = uid /\ x[2] = Of(u)
      BY <1>2, <2>3, <3>1
    <3> QED
      BY <2>1, <3>1, <3>2
  <2> QED
    BY <2>2, <2>3
<1>5. ASSUME ~SeesMetrics(p)
      PROVE  /\ latestMetricPointsByHost(p, ReadHosts(hosts, p)) = {}
             /\ \A shown \in handleListHosts(hosts, p) : shown[2] = <<>>
  <2>1. ~IsUser(p) /\ ~AllowsField(p, "metrics")
    BY <1>5 DEF SeesMetrics, AllowsField, IsUser
  <2>2. \A u : Of(u) = <<>>
    BY <2>1 DEF Of, ProjectHost
  <2> QED
    <3>1. latestMetricPointsByHost(p, ReadHosts(hosts, p)) = {}
      BY <2>1 DEF latestMetricPointsByHost
    <3>2. ASSUME NEW shown \in handleListHosts(hosts, p) PROVE shown[2] = <<>>
      <4>1. PICK u \in DOMAIN hosts : shown = <<u, Of(u)>>
        BY <1>1
      <4> QED
        BY <1>2, <2>2, <4>1
    <3> QED
      BY <3>1, <3>2
<1> QED
  BY <1>3, <1>4, <1>5 DEF ReadsAreScoped

\* A digest made from a snapshot gives back the values of the snapshot: no two keys have
\* the same field.
LEMMA BackAndForth ==
    ASSUME NEW u, NEW host, NEW s, s = hostSnapshotFromModel(u, host)
    PROVE  DigestMetricValues(digestFromSnapshot(s)) = s.metrics
<1>1. \A j, k \in MetricKeys : MetricField[j] = MetricField[k] => j = k
  BY SMTT(60) DEF MetricKeys, MetricField
<1>2. \A k \in MetricKeys : MetricField[k] \in AgentDigest
  BY SMTT(60) DEF MetricKeys, MetricField, AgentDigest, PointField
<1>3. ASSUME NEW k \in MetricKeys PROVE (CHOOSE j \in MetricKeys : MetricField[j] = MetricField[k]) = k
  <2> DEFINE c == CHOOSE j \in MetricKeys : MetricField[j] = MetricField[k]
  <2>1. c \in MetricKeys /\ MetricField[c] = MetricField[k]
    OBVIOUS
  <2> QED
    BY <1>1, <2>1
<1>4. \A k \in MetricKeys : digestFromSnapshot(s)[MetricField[k]] = s.metrics[k]
  BY <1>2, <1>3 DEF digestFromSnapshot
<1>5. s.metrics = [k \in MetricKeys |-> host.status.values[MetricField[k]]]
  <2>1. SnapshotOf(s, u, host)
    BY Snapshots
  <2> QED
    BY <2>1 DEF SnapshotOf
<1>6. s.metrics = [k \in MetricKeys |-> s.metrics[k]]
  BY <1>5
<1> QED
  BY <1>4, <1>6 DEF DigestMetricValues

\* The values and points of a row, under the keys readers know.
Values(host) == [k \in MetricKeys |-> host.status.values[MetricField[k]]]
ValuePoints(host) == [k \in MetricKeys |-> [ts |-> host.status.lastMetricAt, value |-> Values(host)[k]]]

\* Those who may see the metrics of a host that was measured are shown the values of its
\* row, each under its key, by every route: the list and the host itself, the latest
\* points and those of the stream (ProjectHost, handlePublicLatestMetrics and
\* latestMetricPointsByHost).
THEOREM ShownIsStored ==
    ASSUME NEW hosts, \A u \in DOMAIN hosts : hosts[u].tenant # "", NEW p \in Readers,
           NEW u \in DOMAIN hosts, MayRead(hosts, p, u), SeesMetrics(p), hosts[u].status.lastMetricAt # 0
    PROVE  /\ handleGetHost(hosts, p, u) = {Values(hosts[u])}
           /\ <<u, Values(hosts[u])>> \in handleListHosts(hosts, p)
           /\ handlePublicLatestMetrics(hosts, p, u) = ValuePoints(hosts[u])
           /\ <<u, ValuePoints(hosts[u])>> \in latestMetricPointsByHost(p, ReadHosts(hosts, p))
<1>1. PICK s : s = hostSnapshotFromModel(u, hosts[u])
  OBVIOUS
<1>2. SnapshotOf(s, u, hosts[u])
  BY <1>1, Snapshots
<1>3. s.host_uid = u /\ s.last_metric_at # 0 /\ s.metrics = Values(hosts[u])
  BY <1>2 DEF SnapshotOf, Values
<1>4. AllowsField(p, "metrics")
  <2>1. p.tenant # ""
    BY DEF MayRead
  <2> QED
    BY <2>1 DEF SeesMetrics, AllowsField, IsUser
<1>5. ProjectHost(p, s) = Values(hosts[u])
  <2>1. DigestMetricValues(digestFromSnapshot(s)) = s.metrics
    BY <1>1, BackAndForth
  <2>2. CASE IsUser(p)
    BY <1>3, <1>4, <2>1, <2>2 DEF ProjectHost
  <2>3. CASE ~IsUser(p)
    BY <1>3, <1>4, <2>1, <2>3 DEF ProjectHost
  <2> QED
    BY <2>2, <2>3
<1>6. ReadHost(hosts, p, u) = {s}
  BY <1>1, ReadOne
<1>7. s \in ReadHosts(hosts, p)
  BY <1>1, ReadAll
<1>8. latestMetricPointsFromSnapshot(s) = ValuePoints(hosts[u])
  BY <1>2, <1>3 DEF latestMetricPointsFromSnapshot, ValuePoints, SnapshotOf
<1>9. handleGetHost(hosts, p, u) = {Values(hosts[u])}
  <2>1. \A y : y \in handleGetHost(hosts, p, u) <=> \E x \in ReadHost(hosts, p, u) : y = ProjectHost(p, x)
    BY DEF handleGetHost
  <2>2. \A y : y \in handleGetHost(hosts, p, u) <=> y = ProjectHost(p, s)
    BY <1>6, <2>1
  <2>3. handleGetHost(hosts, p, u) = {ProjectHost(p, s)}
    BY <2>2
  <2> QED
    BY <1>5, <2>3
<1>10. <<u, Values(hosts[u])>> \in handleListHosts(hosts, p)
  BY <1>3, <1>5, <1>7 DEF handleListHosts, ProjectHosts
<1>11. handlePublicLatestMetrics(hosts, p, u) = ValuePoints(hosts[u])
  <2>1. (CHOOSE x \in ReadHost(hosts, p, u) : TRUE) = s
    BY <1>6
  <2> QED
    BY <1>4, <1>6, <1>8, <2>1 DEF handlePublicLatestMetrics
<1>12. <<u, ValuePoints(hosts[u])>> \in latestMetricPointsByHost(p, ReadHosts(hosts, p))
  <2>1. s \in {t \in ReadHosts(hosts, p) : t.last_metric_at # 0}
    BY <1>3, <1>7
  <2> QED
    BY <1>3, <1>4, <1>8, <2>1 DEF latestMetricPointsByHost
<1> QED
  BY <1>9, <1>10, <1>11, <1>12

-----------------------------------------------------------------------------
(* Sequences                                                               *)

\* A sequence is a function on the numbers up to its length.
LEMMA Items ==
    ASSUME NEW S, NEW s \in Seq(S)
    PROVE  /\ Len(s) \in Nat /\ DOMAIN s = 1..Len(s) /\ s \in [1..Len(s) -> S]
           /\ \A i \in 1..Len(s) : s[i] \in S
           /\ Len(s) = 0 => s = <<>>
  BY SMTT(60)

\* The sequence of nothing, and that of one element.
LEMMA NoElement == ASSUME NEW S PROVE <<>> \in Seq(S) /\ Range(<<>>) = {}
<1>1. DOMAIN <<>> = {} /\ <<>> \in Seq(S)
  BY SMT
<1> QED
  BY <1>1 DEF Range

LEMMA OneElement == ASSUME NEW S, NEW x \in S PROVE <<x>> \in Seq(S) /\ Range(<<x>>) = {x}
<1>1. <<x>> \in Seq(S)
  BY SMT
<1>2. DOMAIN <<x>> = {1} /\ <<x>>[1] = x
  BY SMT
<1> QED
  BY <1>1, <1>2 DEF Range

\* A function on 1..n is a sequence.
LEMMA IsSequence == ASSUME NEW S, NEW n \in Nat, NEW s \in [1..n -> S] PROVE s \in Seq(S)
  BY SMTT(60)

\* u is a sequence of the elements of s and t.
Joined(u, s, t, S) == u \in Seq(S) /\ Range(u) = Range(s) \cup Range(t)

LEMMA Joins ==
    ASSUME NEW S, NEW s \in Seq(S), NEW t \in Seq(S), NEW u, u = s \o t
    PROVE  Joined(u, s, t, S)
<1>1. /\ u \in Seq(S) /\ Len(u) = Len(s) + Len(t)
      /\ \A i \in 1 .. Len(s) + Len(t) : u[i] = IF i <= Len(s) THEN s[i] ELSE t[i - Len(s)]
  BY SMTT(60)
<1>2. PICK m, n : m = Len(s) /\ n = Len(t)
  OBVIOUS
<1>3. /\ u \in Seq(S) /\ Len(u) = m + n
      /\ \A i \in 1 .. m + n : u[i] = IF i <= m THEN s[i] ELSE t[i - m]
  BY <1>1, <1>2
<1>4. DOMAIN u = 1 .. m + n /\ DOMAIN s = 1..m /\ DOMAIN t = 1..n /\ m \in Nat /\ n \in Nat
  BY <1>2, <1>3, Items
<1>5. /\ \A i \in 1..m : i \in 1 .. m + n /\ i <= m
      /\ \A i \in 1..n : m + i \in 1 .. m + n /\ ~(m + i <= m) /\ (m + i) - m = i
      /\ \A i \in 1 .. m + n : (i <= m => i \in 1..m) /\ (~(i <= m) => i - m \in 1..n)
  BY <1>4, SMT
<1>6. Range(u) \subseteq Range(s) \cup Range(t)
  <2>1. ASSUME NEW i \in 1 .. m + n PROVE u[i] \in Range(s) \cup Range(t)
    <3>1. ASSUME i <= m PROVE u[i] = s[i] /\ i \in DOMAIN s
      BY <1>3, <1>4, <1>5, <3>1
    <3>2. ASSUME ~(i <= m) PROVE u[i] = t[i - m] /\ i - m \in DOMAIN t
      BY <1>3, <1>4, <1>5, <3>2
    <3> QED
      BY <3>1, <3>2 DEF Range
  <2> QED
    BY <1>4, <2>1 DEF Range
<1>7. ASSUME NEW i \in 1..n PROVE t[i] \in Range(u)
  <2>1. m + i \in DOMAIN u /\ u[m + i] = t[i]
    BY <1>3, <1>4, <1>5
  <2> QED
    BY <2>1 DEF Range
<1>8. ASSUME NEW i \in 1..m PROVE s[i] \in Range(u)
  <2>1. i \in DOMAIN u /\ u[i] = s[i]
    BY <1>3, <1>4, <1>5
  <2> QED
    BY <2>1 DEF Range
<1>9. Range(s) \cup Range(t) \subseteq Range(u)
  BY <1>4, <1>7, <1>8 DEF Range
<1> QED
  BY <1>3, <1>6, <1>9 DEF Joined

\* The elements of a sequence.
LEMMA Elements == ASSUME NEW S, NEW s \in Seq(S) PROVE Range(s) \subseteq S /\ (Range(s) = {} <=> s = <<>>)
<1>1. PICK n : n = Len(s)
  OBVIOUS
<1>2. n \in Nat /\ DOMAIN s = 1..n /\ \A i \in 1..n : s[i] \in S
  BY <1>1, Items
<1>3. Range(s) \subseteq S
  BY <1>2 DEF Range
<1>4. ASSUME s # <<>> PROVE Range(s) # {}
  <2>1. n \in Nat \ {0}
    BY <1>1, <1>2, <1>4, Items
  <2>2. 1 \in 1..n
    BY <2>1, SMT
  <2> QED
    BY <1>2, <2>2 DEF Range
<1> QED
  BY <1>3, <1>4, NoElement

LEMMA JoinsIn == ASSUME NEW S, NEW s \in Seq(S), NEW t \in Seq(S) PROVE s \o t \in Seq(S)
  BY SMTT(60)

LEMMA MoreElements == ASSUME NEW S, NEW T, S \subseteq T, NEW s \in Seq(S) PROVE s \in Seq(T)
<1>1. PICK n : n \in Nat /\ s \in [1..n -> S]
  BY Items
<1>2. s \in [1..n -> T]
  BY <1>1
<1> QED
  BY <1>1, <1>2, IsSequence

\* The largest number of a set is the one that no other exceeds.
LEMMA IsMax ==
    ASSUME NEW S \in SUBSET Nat, NEW m \in S, \A x \in S : x <= m
    PROVE  Max(S) = m
<1>1. \A x \in S : m >= x
  BY SMT
<1>2. \A y \in S : y >= m => y = m
  BY SMT
<1>3. PICK y \in S : y = Max(S) /\ \A x \in S : y >= x
  BY <1>1 DEF Max
<1> QED
  BY <1>2, <1>3

\* Only what follows needs the library: each of its facts makes every proof after it slower.
LOCAL INSTANCE WellFoundedInduction

\* A set of numbers with zero and the successor of each of its members is all of them.
LEMMA Induction ==
    ASSUME NEW T \in SUBSET Nat, 0 \in T, \A n \in T : n + 1 \in T
    PROVE  Nat \subseteq T
<1> DEFINE U == Nat \ T
           L == OpToRel(<, Nat)
<1>1. SUFFICES ASSUME U # {} PROVE FALSE
  OBVIOUS
<1>2. IsWellFoundedOn(L, Nat)
  BY NatLessThanWellFounded
<1>3. U \subseteq Nat
  OBVIOUS
<1>4. PICK m \in U : \A n \in U : ~(<<n, m>> \in L)
  <2> HIDE DEF U, L
  <2> QED
    BY <1>1, <1>2, <1>3, WFMin
<1>5. m \in Nat /\ m \notin T /\ \A n \in Nat : n < m => n \in T
  BY <1>4 DEF OpToRel
<1>6. m # 0 /\ m - 1 \in Nat /\ m - 1 < m /\ (m - 1) + 1 = m
  BY <1>5, SMT
<1> QED
  BY <1>5, <1>6

\* The recursion of Concat over the first n parts.
Flat(f, ss, n) == f = [i \in 0..n |-> IF i = 0 THEN <<>> ELSE f[i - 1] \o ss[i]]

LEMMA FlatExists ==
    ASSUME NEW ss, NEW n \in Nat
    PROVE  \E f : Flat(f, ss, n)
<1> DEFINE T == {k \in Nat : \E f : Flat(f, ss, k)}
<1>1. 0 \in T
  <2>1. 0 \in Nat /\ \A i \in 0..0 : i = 0
    BY SMT
  <2>2. Flat([j \in 0..0 |-> <<>>], ss, 0)
    BY <2>1 DEF Flat
  <2> QED
    BY <2>1, <2>2
<1>2. ASSUME NEW k \in T PROVE k + 1 \in T
  <2>1. PICK f : Flat(f, ss, k)
    OBVIOUS
  <2> DEFINE g == [i \in 0 .. k + 1 |-> IF i = 0 THEN <<>> ELSE f[i - 1] \o ss[i]]
  <2>2. k + 1 \in Nat /\ \A i \in 0 .. k + 1 : i # 0 => i - 1 \in 0..k /\ i - 1 \in 0 .. k + 1
    BY SMT
  <2>3. ASSUME NEW i \in 0 .. k + 1, i # 0 PROVE f[i - 1] = g[i - 1]
    BY <2>1, <2>2, <2>3 DEF Flat
  <2>4. Flat(g, ss, k + 1)
    BY <2>3 DEF Flat
  <2> QED
    BY <2>2, <2>4
<1>3. Nat \subseteq T
  <2> HIDE DEF T
  <2>1. T \in SUBSET Nat
    BY DEF T
  <2> QED
    BY <1>1, <1>2, <2>1, Induction
<1> QED
  BY <1>3

\* f[i] has the elements of the first i parts.
Holds(f, ss, i) == \A x : x \in Range(f[i]) <=> \E j \in 1..i : x \in Range(ss[j])

LEMMA FlatHolds ==
    ASSUME NEW S, NEW n \in Nat, NEW ss, \A i \in 1..n : ss[i] \in Seq(S), NEW f, Flat(f, ss, n)
    PROVE  \A i \in 0..n : f[i] \in Seq(S) /\ Holds(f, ss, i)
<1> DEFINE T == {k \in Nat : k \in 0..n => f[k] \in Seq(S) /\ Holds(f, ss, k)}
<1>1. /\ 0 \in Nat /\ 0 \in 0..n /\ 1..0 = {}
      /\ \A k \in Nat : /\ k + 1 \in Nat /\ (k + 1) - 1 = k /\ k + 1 # 0
                        /\ k + 1 \in 0..n => k \in 0..n /\ k + 1 \in 1..n
                        /\ 1 .. k + 1 = (1..k) \cup {k + 1}
  BY SMTT(60)
<1>2. \A i \in 0..n : f[i] = IF i = 0 THEN <<>> ELSE f[i - 1] \o ss[i]
  BY DEF Flat
<1>3. f[0] \in Seq(S) /\ Holds(f, ss, 0)
  <2>1. f[0] = <<>> /\ <<>> \in Seq(S) /\ Range(<<>>) = {}
    BY <1>1, <1>2, NoElement
  <2> QED
    BY <1>1, <2>1 DEF Holds
<1>4. ASSUME NEW k \in T, k + 1 \in 0..n PROVE f[k + 1] \in Seq(S) /\ Holds(f, ss, k + 1)
  <2>1. f[k] \in Seq(S) /\ Holds(f, ss, k) /\ f[k + 1] = f[k] \o ss[k + 1] /\ ss[k + 1] \in Seq(S)
    BY <1>1, <1>2, <1>4
  <2>2. f[k + 1] \in Seq(S) /\ Range(f[k + 1]) = Range(f[k]) \cup Range(ss[k + 1])
    <3>1. Joined(f[k + 1], f[k], ss[k + 1], S)
      BY <2>1, Joins
    <3> QED
      BY <3>1 DEF Joined
  <2>3. 1 .. k + 1 = (1..k) \cup {k + 1}
    BY <1>1
  <2> QED
    BY <2>1, <2>2, <2>3 DEF Holds
<1>5. Nat \subseteq T
  <2>1. T \in SUBSET Nat /\ 0 \in T /\ \A k \in T : k + 1 \in T
    BY <1>1, <1>3, <1>4
  <2> HIDE DEF T
  <2> QED
    BY <2>1, Induction
<1>6. \A i \in 0..n : i \in Nat
  BY SMT
<1> QED
  BY <1>5, <1>6

\* r has the elements of all parts, in a sequence.
Flattened(r, ss, S) == r \in Seq(S) /\ \A x : x \in Range(r) <=> \E i \in DOMAIN ss : x \in Range(ss[i])

LEMMA Flattens ==
    ASSUME NEW S, NEW ss \in Seq(Seq(S))
    PROVE  Flattened(Concat(ss), ss, S)
<1>1. PICK n : n = Len(ss)
  OBVIOUS
<1>2. n \in Nat /\ DOMAIN ss = 1..n /\ \A i \in 1..n : ss[i] \in Seq(S)
  BY <1>1, Items
<1> DEFINE f == CHOOSE f : f = [i \in 0..n |-> IF i = 0 THEN <<>> ELSE f[i - 1] \o ss[i]]
<1>3. Concat(ss) = f[n]
  BY <1>1 DEF Concat
<1>4. Flat(f, ss, n)
  BY <1>2, FlatExists DEF Flat
<1> HIDE DEF f
<1>5. n \in 0..n
  BY <1>2, SMT
<1>6. f[n] \in Seq(S) /\ Holds(f, ss, n)
  BY <1>2, <1>4, <1>5, FlatHolds
<1> QED
  BY <1>2, <1>3, <1>6 DEF Flattened, Holds

\* A set of numbers has a least one.
LEMMA Least == ASSUME NEW S \in SUBSET Nat, S # {} PROVE \E m \in S : \A n \in S : ~(n < m)
<1> DEFINE L == OpToRel(<, Nat)
<1>1. IsWellFoundedOn(L, Nat)
  BY NatLessThanWellFounded
<1>2. PICK m \in S : \A n \in S : ~(<<n, m>> \in L)
  <2> HIDE DEF L
  <2> QED
    BY <1>1, WFMin
<1> QED
  BY <1>2 DEF OpToRel

\* A bounded set of numbers that is not empty has its maximum.
LEMMA HasMax ==
    ASSUME NEW n \in Nat, NEW S \in SUBSET (1..n), S # {}
    PROVE  Max(S) \in S
<1> DEFINE U == {b \in Nat : \A x \in S : x <= b}
<1>1. n \in U
  BY SMT
<1>2. PICK m \in U : \A b \in U : ~(b < m)
  BY <1>1, Least
<1>3. m \in S
  <2>1. SUFFICES ASSUME m \notin S PROVE FALSE
    OBVIOUS
  <2>2. \A x \in S : x \in Nat /\ x # 0 /\ x <= m
    BY SMT
  <2>3. PICK x \in S : TRUE
    OBVIOUS
  <2>4. m - 1 \in Nat /\ m - 1 < m
    BY <2>2, <2>3, SMT
  <2>5. \A y \in Nat : y <= m /\ y # m => y <= m - 1
    BY SMT
  <2>6. m - 1 \in U
    BY <2>1, <2>2, <2>4, <2>5
  <2> QED
    BY <1>2, <2>4, <2>6
<1>4. \A x \in S : x <= m
  BY <1>2
<1>5. S \in SUBSET Nat
  BY SMT
<1> QED
  BY <1>3, <1>4, <1>5, IsMax

-----------------------------------------------------------------------------
(* The points of the collectors                                            *)

\* What appendMetricPoints makes of dst and extra: the points of dst, and of those in extra
\* one of every identity that is not there yet.
Merged(r, dst, extra, S) ==
    /\ r \in Seq(S)
    /\ Range(dst) \subseteq Range(r)
    /\ \A p \in Range(r) : p \in Range(dst) \/ (p \in Range(extra) /\ \A q \in Range(dst) : ~SamePoint(p, q))
    /\ \A p \in Range(extra) : \E q \in Range(r) : SamePoint(p, q)

LEMMA Merges ==
    ASSUME NEW S, NEW dst \in Seq(S), NEW extra \in Seq(S)
    PROVE  Merged(appendMetricPoints(dst, extra), dst, extra, S)
<1> DEFINE New(i) == /\ \A j \in DOMAIN dst : ~SamePoint(extra[i], dst[j])
                     /\ \A j \in 1..(i - 1) : ~SamePoint(extra[i], extra[j])
           ss == [i \in DOMAIN extra |-> IF New(i) THEN <<extra[i]>> ELSE <<>>]
<1>1. PICK n : n \in Nat /\ DOMAIN extra = 1..n /\ \A i \in 1..n : extra[i] \in S
  BY Items
<1>2. PICK r : r = appendMetricPoints(dst, extra)
  OBVIOUS
<1>3. r = dst \o Concat(ss)
  BY <1>2 DEF appendMetricPoints
<1>4. \A i \in DOMAIN extra : /\ <<extra[i]>> \in Seq(S) /\ Range(<<extra[i]>>) = {extra[i]}
                              /\ <<>> \in Seq(S) /\ Range(<<>>) = {}
  BY <1>1, NoElement, OneElement
<1> HIDE DEF New
<1>5. ss \in Seq(Seq(S)) /\ DOMAIN ss = 1..n
  <2>1. ss \in [1..n -> Seq(S)]
    BY <1>1, <1>4
  <2> QED
    BY <1>1, <2>1, IsSequence
<1>6. \A i \in DOMAIN ss : \A x : x \in Range(ss[i]) <=> New(i) /\ x = extra[i]
  BY <1>1, <1>4
<1> HIDE DEF ss
<1>7. Flattened(Concat(ss), ss, S)
  BY <1>5, Flattens
<1>8. Concat(ss) \in Seq(S) /\ \A x : x \in Range(Concat(ss)) <=> \E i \in 1..n : New(i) /\ x = extra[i]
  BY <1>5, <1>6, <1>7 DEF Flattened
<1>9. r \in Seq(S) /\ Range(r) = Range(dst) \cup Range(Concat(ss))
  <2>1. Joined(r, dst, Concat(ss), S)
    BY <1>3, <1>8, Joins
  <2> QED
    BY <2>1 DEF Joined
<1>10. \A q \in Range(dst) : \E j \in DOMAIN dst : q = dst[j]
  BY DEF Range
<1>11. ASSUME NEW p \in Range(r)
       PROVE  p \in Range(dst) \/ (p \in Range(extra) /\ \A q \in Range(dst) : ~SamePoint(p, q))
  <2>1. CASE p \in Range(dst)
    BY <2>1
  <2>2. CASE p \notin Range(dst)
    <3>1. PICK i \in 1..n : New(i) /\ p = extra[i]
      BY <1>8, <1>9, <2>2
    <3> QED
      BY <1>1, <1>10, <3>1 DEF New, Range
  <2> QED
    BY <2>1, <2>2
<1>12. ASSUME NEW p \in Range(extra) PROVE \E q \in Range(r) : SamePoint(p, q)
  <2> DEFINE J == {j \in 1..n : SamePoint(extra[j], p)}
  <2>1. J \in SUBSET Nat
    BY SMT
  <2>2. J # {}
    BY <1>1 DEF Range, SamePoint
  <2>3. PICK m \in J : \A j \in J : ~(j < m)
    BY <2>1, <2>2, Least
  <2>4. \A j \in 1..(m - 1) : j \in 1..n /\ j < m
    <3>1. m \in 1..n
      BY <2>3
    <3> HIDE DEF J
    <3> QED
      BY <1>1, <3>1, SMT
  <2>5. CASE \E j \in DOMAIN dst : SamePoint(extra[m], dst[j])
    BY <1>9, <2>5 DEF Range, SamePoint
  <2>6. CASE ~\E j \in DOMAIN dst : SamePoint(extra[m], dst[j])
    <3>1. New(m)
      BY <2>3, <2>4, <2>6 DEF New, SamePoint
    <3> QED
      BY <1>8, <1>9, <3>1 DEF SamePoint
  <2> QED
    BY <2>5, <2>6
<1> QED
  BY <1>2, <1>9, <1>11, <1>12 DEF Merged

\* The values of the summary that reach readers as they were computed.
Carried == DigestNames \ {"host_cpu_usage_pct"}

\* The names of the points that carry no value of the summary.
OtherNames ==
    {"host_uptime_seconds", "host_boot_time_seconds", "host_cpu_logical_count", "host_cpu_physical_count",
     "host_cpu_usage_pct", "host_cpu_time_user_seconds", "host_cpu_frequency_mhz", "host_load5",
     "host_scheduler_procs_total", "host_filesystem_total_bytes", "host_filesystem_used_pct",
     "host_disk_io_read_bytes_total", "host_net_bytes_recv_total", "host_net_interface_index",
     "host_net_protocol_in_segs_total", "host_net_filter_conn_track_count",
     "host_net_conntrack_entries_total", "host_sensor_temperature_celsius"}

LEMMA NamesOfValues ==
    DigestNames =
      {"host_cpu_usage_pct", "host_mem_used_pct", "host_mem_available_bytes",
       "host_swap_used_pct", "host_disk_used_pct", "host_disk_free_bytes",
       "host_disk_inodes_used_pct", "host_disk_read_bps", "host_disk_write_bps",
       "host_disk_read_iops", "host_disk_write_iops", "host_load1", "host_net_rx_bps",
       "host_net_tx_bps", "host_net_rx_packets_ps", "host_net_tx_packets_ps"}
  BY SMTT(60) DEF DigestNames, digestPoints, Range

LEMMA OtherPoints == ASSUME NEW n \in OtherNames PROVE n \notin Carried
  BY NamesOfValues, SMTT(60) DEF OtherNames, Carried

\* A point of a collector: one with the name of a value of the summary has no label, so
\* that it is the same point as the one of the summary.
Point == {p \in [name : DigestNames \cup OtherNames, label : Int, value : Int] : p.name \in Carried => p.label = None}

LEMMA LabelledPoint ==
    ASSUME NEW name \in OtherNames, NEW label \in Int, NEW value \in Int
    PROVE  P(name, label, value) \in Point
<1>1. name \in DigestNames \cup OtherNames /\ name \notin Carried
  BY OtherPoints
<1>2. P(name, label, value) \in [name : DigestNames \cup OtherNames, label : Int, value : Int] /\ P(name, label, value).name = name
  BY <1>1 DEF P
<1> QED
  BY <1>1, <1>2 DEF Point

LEMMA SummaryPoint ==
    ASSUME NEW name \in DigestNames, NEW value \in Int
    PROVE  P(name, None, value) \in Point
<1>1. None \in Int /\ name \in DigestNames \cup OtherNames
  <2>1. None \in Int
    BY SMT DEF None
  <2> QED
    BY <2>1
<1>2. /\ P(name, None, value) \in [name : DigestNames \cup OtherNames, label : Int, value : Int]
      /\ P(name, None, value).label = None
  BY <1>1 DEF P
<1> QED
  BY <1>2 DEF Point

LEMMA FieldPoint ==
    ASSUME NEW name \in OtherNames, NEW label \in Int
    PROVE  Field(name, label) \in Point
<1>1. 1 \in Int
  BY SMT
<1> QED
  BY <1>1, LabelledPoint DEF Field

LEMMA Appends == ASSUME NEW p \in Point PROVE appendPoint(p) \in Seq(Point)
  BY NoElement, OneElement DEF appendPoint

LEMMA Goes ==
    ASSUME NEW read, NEW failed, NEW points \in Seq(Point)
    PROVE  If(read, failed, points) \in Seq(Point)
<1> DEFINE ss == [i \in DOMAIN points |-> appendPoint(points[i])]
<1>1. PICK n : n \in Nat /\ DOMAIN points = 1..n /\ \A i \in 1..n : points[i] \in Point
  BY Items
<1>2. ss \in [1..n -> Seq(Point)]
  BY <1>1, Appends
<1>3. ss \in Seq(Seq(Point))
  BY <1>1, <1>2, IsSequence
<1>4. Concat(ss) \in Seq(Point)
  <2> HIDE DEF ss
  <2>1. Flattened(Concat(ss), ss, Point)
    BY <1>3, Flattens
  <2> QED
    BY <2>1 DEF Flattened
<1> QED
  BY <1>4, NoElement DEF If

LEMMA EachIndex ==
    ASSUME NEW name \in OtherNames, NEW n \in Nat
    PROVE  [i \in 1..n |-> Field(name, i)] \in Seq(Point)
<1>1. \A i \in 1..n : i \in Int
  BY SMT
<1>2. [i \in 1..n |-> Field(name, i)] \in [1..n -> Point]
  BY <1>1, FieldPoint
<1> QED
  BY <1>2, IsSequence

\* The fields of a reading.
LEMMA ReadingFields ==
    ASSUME NEW w \in Readings
    PROVE  /\ w.cores \in Seq(Int) /\ w.mem \in Int /\ w.free \in Int /\ w.swap \in Int /\ w.load \in Int
           /\ w.root \in UsageStat /\ w.mounts \in Seq(UsageStat) /\ w.disks \in Seq(DiskStat)
           /\ w.interfaces \in Seq(InterfaceStat) /\ w.listed \in Nat /\ w.sensors \in Nat
  BY DEF Readings

LEMMA MountsOf == ASSUME NEW w \in Readings PROVE Mounts(w) \in Seq(UsageStat)
<1> DEFINE listed == \E i \in DOMAIN w.mounts : w.mounts[i].path = systemRootPath
           all == IF listed THEN w.mounts ELSE w.mounts \o <<w.root>>
           ss == [i \in DOMAIN all |->
                    IF \E j \in 1..(i - 1) : all[j].path = all[i].path THEN <<>> ELSE <<all[i]>>]
<1>1. all \in Seq(UsageStat)
  <2>1. w.mounts \in Seq(UsageStat) /\ w.root \in UsageStat
    BY ReadingFields
  <2>2. <<w.root>> \in Seq(UsageStat)
    BY <2>1, OneElement
  <2>3. w.mounts \o <<w.root>> \in Seq(UsageStat)
    BY <2>1, <2>2, JoinsIn
  <2> QED
    BY <2>1, <2>3
<1>2. Mounts(w) = Concat(ss)
  BY DEF Mounts
<1> HIDE DEF all
<1>3. PICK n : n \in Nat /\ DOMAIN all = 1..n /\ \A i \in 1..n : all[i] \in UsageStat
  BY <1>1, Items
<1>4. ss \in [1..n -> Seq(UsageStat)]
  BY <1>3, NoElement, OneElement
<1>5. ss \in Seq(Seq(UsageStat))
  BY <1>3, <1>4, IsSequence
<1> HIDE DEF ss
<1>6. Flattened(Concat(ss), ss, UsageStat)
  BY <1>5, Flattens
<1> QED
  BY <1>2, <1>6 DEF Flattened

\* What five reads give, one after the other.
LEMMA JoinsFive ==
    ASSUME NEW a \in Seq(Point), NEW b \in Seq(Point), NEW c \in Seq(Point), NEW d \in Seq(Point), NEW e \in Seq(Point)
    PROVE  a \o b \o c \o d \o e \in Seq(Point)
<1>1. a \o b \in Seq(Point)
  BY JoinsIn
<1>2. a \o b \o c \in Seq(Point)
  BY <1>1, JoinsIn
<1>3. a \o b \o c \o d \in Seq(Point)
  BY <1>2, JoinsIn
<1> QED
  BY <1>3, JoinsIn

LEMMA HostPoints == ASSUME NEW w, NEW failed PROVE collectHostMetrics(w, failed) \in Seq(Point)
<1>1. None \in Int
  BY SMT DEF None
<1>2. PICK p, q : p = Field("host_uptime_seconds", None) /\ q = Field("host_boot_time_seconds", None)
  OBVIOUS
<1>3. p \in Point /\ q \in Point
  BY <1>1, <1>2, FieldPoint DEF OtherNames
<1>4. <<p, q>> \in Seq(Point)
  BY <1>3, SMT
<1> QED
  BY <1>2, <1>4 DEF collectHostMetrics

LEMMA CPUPoints == ASSUME NEW w \in Readings, NEW failed PROVE collectCPUMetrics(w, failed) \in Seq(Point)
<1>1. None \in Int /\ \A v \in Int : clampPercent(v) \in Int
  BY SMT DEF None, clampPercent
<1>2. PICK n : n \in Nat /\ DOMAIN w.cores = 1..n /\ \A i \in 1..n : w.cores[i] \in Int
  BY ReadingFields, Items
<1> DEFINE a == <<Field("host_cpu_logical_count", None)>>
           b == <<Field("host_cpu_physical_count", None)>>
           c == [i \in DOMAIN w.cores |-> P("host_cpu_usage_pct", i, clampPercent(w.cores[i]))]
           d == [i \in DOMAIN w.cores |-> Field("host_cpu_time_user_seconds", i)]
           e == [i \in DOMAIN w.cores |-> Field("host_cpu_frequency_mhz", i)]
<1>3. a \in Seq(Point) /\ b \in Seq(Point)
  BY <1>1, FieldPoint, OneElement DEF OtherNames
<1>4. c \in Seq(Point)
  <2>1. \A i \in 1..n : i \in Int
    BY SMT
  <2>2. c \in [1..n -> Point]
    BY <1>1, <1>2, <2>1, LabelledPoint DEF OtherNames
  <2> QED
    BY <1>2, <2>2, IsSequence
<1>5. d \in Seq(Point) /\ e \in Seq(Point)
  BY <1>2, EachIndex DEF OtherNames
<1>6. collectCPUMetrics(w, failed) =
           If("logical", failed, a) \o If("physical", failed, b) \o If("percent", failed, c)
        \o If("times", failed, d) \o If("info", failed, e)
  BY DEF collectCPUMetrics
<1> HIDE DEF a, b, c, d, e
<1>7. /\ If("logical", failed, a) \in Seq(Point) /\ If("physical", failed, b) \in Seq(Point)
      /\ If("percent", failed, c) \in Seq(Point) /\ If("times", failed, d) \in Seq(Point)
      /\ If("info", failed, e) \in Seq(Point)
  BY <1>3, <1>4, <1>5, Goes
<1>8. If("logical", failed, a) \o If("physical", failed, b) \o If("percent", failed, c)
        \o If("times", failed, d) \o If("info", failed, e) \in Seq(Point)
  BY <1>7, JoinsFive
<1> QED
  BY <1>6, <1>8

LEMMA MemoryPoints == ASSUME NEW w \in Readings, NEW failed PROVE collectMemoryMetrics(w, failed) \in Seq(Point)
<1>1. w.free \in Int /\ w.mem \in Int /\ "host_mem_available_bytes" \in DigestNames /\ "host_mem_used_pct" \in DigestNames
  BY ReadingFields, NamesOfValues
<1>2. P("host_mem_available_bytes", None, w.free) \in Point /\ P("host_mem_used_pct", None, w.mem) \in Point
  BY <1>1, SummaryPoint
<1>3. /\ appendPoint(P("host_mem_available_bytes", None, w.free)) \in Seq(Point)
      /\ appendPoint(P("host_mem_used_pct", None, w.mem)) \in Seq(Point)
  BY <1>2, Appends
<1> QED
  BY <1>3, JoinsIn DEF collectMemoryMetrics

LEMMA SwapPoints == ASSUME NEW w \in Readings, NEW failed PROVE collectSwapMetrics(w, failed) \in Seq(Point)
<1>1. w.swap \in Int /\ "host_swap_used_pct" \in DigestNames
  BY ReadingFields, NamesOfValues
<1>2. P("host_swap_used_pct", None, w.swap) \in Point
  BY <1>1, SummaryPoint
<1> QED
  BY <1>2, Appends DEF collectSwapMetrics

LEMMA LoadPoints == ASSUME NEW w \in Readings, NEW failed PROVE collectLoadMetrics(w, failed) \in Seq(Point)
<1>1. w.load \in Int /\ None \in Int /\ "host_load1" \in DigestNames
  <2>1. w.load \in Int
    BY ReadingFields
  <2>2. None \in Int
    BY SMT DEF None
  <2> QED
    BY <2>1, <2>2, NamesOfValues
<1>2. PICK p, q, s : p = P("host_load1", None, w.load) /\ q = Field("host_load5", None)
                     /\ s = <<Field("host_scheduler_procs_total", None)>>
  OBVIOUS
<1>3. p \in Point /\ q \in Point /\ s \in Seq(Point)
  <2>1. p \in Point
    BY <1>1, <1>2, SummaryPoint
  <2>2. q \in Point /\ Field("host_scheduler_procs_total", None) \in Point
    BY <1>1, <1>2, FieldPoint DEF OtherNames
  <2> QED
    BY <1>2, <2>1, <2>2, OneElement
<1>4. <<p, q>> \in Seq(Point)
  BY <1>3, SMT
<1>5. collectLoadMetrics(w, failed) = If("avg", failed, <<p, q>>) \o If("misc", failed, s)
  BY <1>2 DEF collectLoadMetrics
<1> QED
  BY <1>3, <1>4, <1>5, Goes, JoinsIn

LEMMA FilesystemPoints ==
    ASSUME NEW w \in Readings, NEW failed
    PROVE  collectFilesystemMetrics(w, failed) \in Seq(Point)
<1>1. PICK mounts : mounts = Mounts(w)
  OBVIOUS
<1>2. PICK n : n \in Nat /\ DOMAIN mounts = 1..n /\ \A i \in 1..n : mounts[i] \in UsageStat
  BY <1>1, MountsOf, Items
<1> DEFINE ss == [i \in DOMAIN mounts |-> If(mounts[i].path, failed, appendFilesystemUsage(mounts[i]))]
<1>3. ASSUME NEW m \in UsageStat PROVE appendFilesystemUsage(m) \in Seq(Point)
  <2>1. m.label \in Int /\ m.used \in Int
    BY DEF UsageStat
  <2>2. PICK p, q : p = Field("host_filesystem_total_bytes", m.label) /\ q = P("host_filesystem_used_pct", m.label, m.used)
    OBVIOUS
  <2>3. p \in Point /\ q \in Point
    BY <2>1, <2>2, FieldPoint, LabelledPoint DEF OtherNames
  <2>4. <<p, q>> \in Seq(Point)
    BY <2>3, SMT
  <2> QED
    BY <2>2, <2>4 DEF appendFilesystemUsage
<1>4. ss \in [1..n -> Seq(Point)]
  BY <1>2, <1>3, Goes
<1>5. ss \in Seq(Seq(Point))
  BY <1>2, <1>4, IsSequence
<1>6. collectFilesystemMetrics(w, failed) = Concat(ss)
  BY <1>1 DEF collectFilesystemMetrics
<1> HIDE DEF ss
<1>7. Flattened(Concat(ss), ss, Point)
  BY <1>5, Flattens
<1> QED
  BY <1>6, <1>7 DEF Flattened

LEMMA DiskPoints == ASSUME NEW w \in Readings, NEW failed PROVE collectDiskIOMetrics(w, failed) \in Seq(Point)
<1>1. PICK n : n \in Nat /\ DOMAIN w.disks = 1..n /\ \A i \in 1..n : w.disks[i] \in DiskStat
  BY ReadingFields, Items
<1>2. \A d \in DiskStat : d.label \in Int
  BY DEF DiskStat
<1>3. collectDiskIOMetrics(w, failed) \in [1..n -> Point]
  BY <1>1, <1>2, FieldPoint DEF collectDiskIOMetrics, OtherNames
<1> QED
  BY <1>1, <1>3, IsSequence

LEMMA NetworkPoints == ASSUME NEW w \in Readings, NEW failed PROVE collectNetworkMetrics(w, failed) \in Seq(Point)
<1>1. None \in Int /\ w.listed \in Nat
  <2>1. None \in Int
    BY SMT DEF None
  <2> QED
    BY <2>1, ReadingFields
<1>2. PICK n : n \in Nat /\ DOMAIN w.interfaces = 1..n /\ \A i \in 1..n : w.interfaces[i] \in InterfaceStat
  BY ReadingFields, Items
<1>3. \A i \in InterfaceStat : i.interface \in Int
  BY DEF InterfaceStat
<1> DEFINE a == [i \in DOMAIN w.interfaces |-> Field("host_net_bytes_recv_total", w.interfaces[i].interface)]
           b == [i \in 1..w.listed |-> Field("host_net_interface_index", i)]
           c == <<Field("host_net_protocol_in_segs_total", None)>>
           d == <<Field("host_net_filter_conn_track_count", None)>>
           e == <<Field("host_net_conntrack_entries_total", None)>>
<1>4. a \in Seq(Point)
  <2>1. a \in [1..n -> Point]
    BY <1>2, <1>3, FieldPoint DEF OtherNames
  <2> QED
    BY <1>2, <2>1, IsSequence
<1>5. b \in Seq(Point)
  BY <1>1, EachIndex DEF OtherNames
<1>6. c \in Seq(Point) /\ d \in Seq(Point) /\ e \in Seq(Point)
  BY <1>1, FieldPoint, OneElement DEF OtherNames
<1>7. collectNetworkMetrics(w, failed) =
           a \o If("interfaces", failed, b) \o If("protocols", failed, c)
        \o If("filter", failed, d) \o If("conntrack", failed, e)
  BY DEF collectNetworkMetrics
<1> HIDE DEF a, b, c, d, e
<1>8. /\ If("interfaces", failed, b) \in Seq(Point) /\ If("protocols", failed, c) \in Seq(Point)
      /\ If("filter", failed, d) \in Seq(Point) /\ If("conntrack", failed, e) \in Seq(Point)
  BY <1>5, <1>6, Goes
<1>9. a \o If("interfaces", failed, b) \o If("protocols", failed, c)
        \o If("filter", failed, d) \o If("conntrack", failed, e) \in Seq(Point)
  BY <1>4, <1>8, JoinsFive
<1> QED
  BY <1>7, <1>9

LEMMA SensorPoints == ASSUME NEW w \in Readings, NEW failed PROVE collectSensorMetrics(w, failed) \in Seq(Point)
<1>1. w.sensors \in Nat
  BY ReadingFields
<1> QED
  BY <1>1, EachIndex DEF collectSensorMetrics, OtherNames

\* Whatever a collector reads, and whichever reads fail, it gives points.
LEMMA RunGivesPoints ==
    ASSUME NEW c \in Names, NEW w \in Readings, NEW failed
    PROVE  run(c, w, failed) \in Seq(Point)
<1>1. c \in {"host", "cpu", "memory", "swap", "load", "filesystem", "disk_io", "network", "sensors"}
  BY SMTT(60) DEF Names, collectors, Range
<1>2. CASE failed \cap Needed(c) # {}
  BY <1>2, NoElement DEF run
<1>3. CASE failed \cap Needed(c) = {}
  <2>1. CASE c = "host"
    BY <1>3, <2>1, HostPoints DEF run
  <2>2. CASE c = "cpu"
    BY <1>3, <2>2, CPUPoints DEF run
  <2>3. CASE c = "memory"
    BY <1>3, <2>3, MemoryPoints DEF run
  <2>4. CASE c = "swap"
    BY <1>3, <2>4, SwapPoints DEF run
  <2>5. CASE c = "load"
    BY <1>3, <2>5, LoadPoints DEF run
  <2>6. CASE c = "filesystem"
    BY <1>3, <2>6, FilesystemPoints DEF run
  <2>7. CASE c = "disk_io"
    BY <1>3, <2>7, DiskPoints DEF run
  <2>8. CASE c = "network"
    BY <1>3, <2>8, NetworkPoints DEF run
  <2>9. CASE c = "sensors"
    BY <1>3, <2>9, SensorPoints DEF run
  <2> QED
    BY <1>1, <2>1, <2>2, <2>3, <2>4, <2>5, <2>6, <2>7, <2>8, <2>9
<1> QED
  BY <1>2, <1>3

\* The points of the summary: one for each value, without a label.
Summarised(dst, d, S) ==
    /\ dst \in Seq(S)
    /\ \A n \in DigestNames : P(n, None, d[n]) \in Range(dst)
    /\ \A p \in Range(dst) : p.name \in DigestNames => p = P(p.name, None, d[p.name])

LEMMA Summarises == ASSUME NEW d PROVE \E S : Point \subseteq S /\ Summarised(SummaryPoints(d), d, S)
<1> DEFINE f == Field("runtime_uptime_seconds", None)
           t == [i \in DOMAIN digestPoints |-> P(digestPoints[i], None, d[digestPoints[i]])]
           S == Point \cup {f} \cup {P(n, None, d[n]) : n \in DigestNames}
<1>1. DOMAIN digestPoints = 1..16 /\ 16 \in Nat /\ "runtime_uptime_seconds" \notin DigestNames
  <2>1. DOMAIN digestPoints = 1..16 /\ 16 \in Nat
    BY SMT DEF digestPoints
  <2> QED
    BY <2>1, NamesOfValues
<1>2. \A i \in DOMAIN digestPoints : digestPoints[i] \in DigestNames
  BY DEF DigestNames, Range
<1>3. \A n \in DigestNames : \E i \in DOMAIN digestPoints : n = digestPoints[i]
  BY DEF DigestNames, Range
<1>4. t \in Seq(S)
  <2>1. t \in [1..16 -> S]
    BY <1>1, <1>2
  <2> QED
    BY <1>1, <2>1, IsSequence
<1>5. \A x : x \in Range(t) <=> \E n \in DigestNames : x = P(n, None, d[n])
  BY <1>2, <1>3 DEF Range
<1>6. <<f>> \in Seq(S) /\ Range(<<f>>) = {f}
  <2>1. f \in S
    OBVIOUS
  <2> HIDE DEF f, S
  <2> QED
    BY <2>1, OneElement
<1>7. PICK dst : dst = SummaryPoints(d)
  OBVIOUS
<1>8. dst = <<f>> \o t
  BY <1>7 DEF SummaryPoints
<1>9. f.name = "runtime_uptime_seconds"
  BY DEF Field, P
<1>10. \A n : P(n, None, d[n]).name = n
  BY DEF P
<1>11. Point \subseteq S
  OBVIOUS
<1> HIDE DEF f, t, S
<1>12. dst \in Seq(S) /\ Range(dst) = Range(<<f>>) \cup Range(t)
  <2>1. Joined(dst, <<f>>, t, S)
    BY <1>4, <1>6, <1>8, Joins
  <2> QED
    BY <2>1 DEF Joined
<1>13. \A n \in DigestNames : P(n, None, d[n]) \in Range(dst)
  BY <1>5, <1>12
<1>14. ASSUME NEW p \in Range(dst), p.name \in DigestNames PROVE p = P(p.name, None, d[p.name])
  <2>1. PICK n \in DigestNames : p = P(n, None, d[n])
    BY <1>1, <1>5, <1>6, <1>9, <1>12, <1>14
  <2> QED
    BY <1>10, <2>1
<1>15. Summarised(dst, d, S)
  BY <1>12, <1>13, <1>14 DEF Summarised
<1> QED
  BY <1>7, <1>11, <1>15

\* The names of a digest's values and its fields go together one by one.
LEMMA FieldsOfPoints ==
    /\ DigestNames \subseteq DOMAIN PointField
    /\ \A m, n \in DOMAIN PointField : PointField[m] = PointField[n] => m = n
    /\ \A n \in DOMAIN PointField : PointField[n] \in AgentDigest
<1>1. DigestNames \subseteq DOMAIN PointField
  BY NamesOfValues, SMTT(60) DEF PointField
<1>2. \A m, n \in DOMAIN PointField : PointField[m] = PointField[n] => m = n
  BY SMTT(60) DEF PointField
<1>3. \A n \in DOMAIN PointField : PointField[n] \in AgentDigest
  BY DEF AgentDigest
<1> QED
  BY <1>1, <1>2, <1>3

\* In the batch every point with the name of a carried value has that value, and there is one.
Carries(points, d, n) ==
    /\ \E p \in Range(points) : p.name = n
    /\ \A p \in Range(points) : p.name = n => p.value = d[n]

LEMMA BatchCarries ==
    ASSUME NEW d, NEW extra \in Seq(Point), NEW n \in Carried
    PROVE  Carries(appendMetricPoints(SummaryPoints(d), extra), d, n)
<1>1. PICK dst, r : dst = SummaryPoints(d) /\ r = appendMetricPoints(dst, extra)
  OBVIOUS
<1>2. PICK S : Point \subseteq S /\ Summarised(dst, d, S)
  BY <1>1, Summarises
<1>3. dst \in Seq(S) /\ extra \in Seq(S)
  BY <1>2, MoreElements DEF Summarised
<1>4. Merged(r, dst, extra, S)
  BY <1>1, <1>3, Merges
<1>5. PICK q : q = P(n, None, d[n])
  OBVIOUS
<1>6. q.name = n /\ q.label = None /\ q.value = d[n]
  BY <1>5 DEF P
<1>7. n \in DigestNames
  BY DEF Carried
<1>8. q \in Range(dst) /\ q \in Range(r)
  BY <1>2, <1>4, <1>5, <1>7 DEF Summarised, Merged
<1>9. ASSUME NEW p \in Range(r), p.name = n PROVE p.value = d[n]
  <2>1. CASE p \in Range(dst)
    <3>1. p = P(p.name, None, d[p.name])
      BY <1>2, <1>7, <1>9, <2>1 DEF Summarised
    <3> QED
      BY <1>5, <1>6, <1>9, <3>1
  <2>2. CASE p \notin Range(dst)
    <3>1. p \in Range(extra) /\ ~SamePoint(p, q)
      BY <1>4, <1>8, <2>2 DEF Merged
    <3>2. p \in Point
      BY <3>1, Elements
    <3>3. p.label = None
      BY <1>9, <3>2 DEF Point
    <3> QED
      BY <1>6, <1>9, <3>1, <3>3 DEF SamePoint
  <2> QED
    BY <2>1, <2>2
<1>10. Carries(r, d, n)
  BY <1>6, <1>8, <1>9 DEF Carries
<1> QED
  BY <1>1, <1>10

\* The digest of the batch has the value.
Digested(req, d, n) == digestFromMetricBatch(req)[PointField[n]] = d[n]

LEMMA DigestCarries ==
    ASSUME NEW S, NEW req, req.points \in Seq(S), NEW d, NEW n \in Carried, Carries(req.points, d, n)
    PROVE  Digested(req, d, n)
<1>1. PICK points : points = req.points
  OBVIOUS
<1>2. PICK k : k \in Nat /\ DOMAIN points = 1..k
  BY <1>1, Items
<1> DEFINE I == {i \in DOMAIN points : points[i].name \in DOMAIN PointField /\ PointField[points[i].name] = PointField[n]}
<1>3. n \in DOMAIN PointField /\ PointField[n] \in AgentDigest
  BY FieldsOfPoints DEF Carried
<1>4. \A i \in DOMAIN points : i \in I <=> points[i].name = n
  BY <1>3, FieldsOfPoints
<1>5. digestFromMetricBatch(req)[PointField[n]] = IF I = {} THEN 0 ELSE points[Max(I)].value
  BY <1>1, <1>3 DEF digestFromMetricBatch
<1>6. I \in SUBSET (1..k)
  BY <1>2
<1>7. /\ \E i \in DOMAIN points : points[i].name = n
      /\ \A i \in DOMAIN points : points[i].name = n => points[i].value = d[n]
  BY <1>1 DEF Carries, Range
<1>8. I # {}
  BY <1>4, <1>7
<1> HIDE DEF I
<1>9. Max(I) \in I
  BY <1>2, <1>6, <1>8, HasMax
<1>10. points[Max(I)].value = d[n]
  BY <1>2, <1>4, <1>6, <1>7, <1>9
<1> QED
  BY <1>5, <1>8, <1>10 DEF Digested

-----------------------------------------------------------------------------
(* Statuses and the way of the values                                      *)

\* Every result that is kept has the points of its collector.
PointsKept == \A r \in Rounds, c \in Names : go[r][c].points \in Seq(Point)

\* A status names points exactly when it is not unavailable, and then one is in the batch.
TrueStatus(s, points) ==
    /\ (s.state = "unavailable") <=> (s.metricNames = {})
    /\ s.state # "unavailable" => {p \in Range(points) : p.name \in s.metricNames} # {}

Backed == Sent => \A i \in DOMAIN batch.statuses : TrueStatus(batch.statuses[i], batch.points)

\* The row is of an earlier round until the batch of this one was taken.
Times ==
    /\ status.lastMetricAt \in Nat /\ status.lastMetricAt <= round
    /\ phase # "idle" => status.lastMetricAt < round

\* Then it has the values of the summary, and the snapshot all points and statuses.
Taken ==
    Sent /\ status.lastMetricAt = round =>
      /\ \A n \in Carried : status.values[PointField[n]] = batch.digest[n]
      /\ snapshot = [points |-> batch.points, collectors |-> batch.statuses]

Kind == PointsKept /\ Backed /\ Times /\ Taken

LEMMA InitKind == Init => Kind
<1> SUFFICES ASSUME Init PROVE Kind
  OBVIOUS
<1>1. /\ go = [r \in Rounds |-> [c \in Names |-> NotStarted]] /\ round = 0 /\ phase = "idle"
      /\ status = NoMetrics
  BY DEF Init
<1>2. NotStarted.points = <<>> /\ <<>> \in Seq(Point)
  BY NoElement DEF NotStarted
<1>3. PointsKept
  BY <1>1, <1>2 DEF PointsKept
<1>4. ~(0 > 0) /\ 0 \in Nat /\ 0 <= 0
  BY SMT
<1>5. ~Sent
  BY <1>1, <1>4 DEF Sent
<1>6. status.lastMetricAt = 0
  BY <1>1 DEF NoMetrics
<1>7. Times
  BY <1>1, <1>4, <1>6 DEF Times
<1> QED
  BY <1>3, <1>5, <1>7 DEF Kind, Backed, Taken

LEMMA ScenarioReadings == ASSUME Inv, NEW r \in Rounds PROVE scenario[r] \in Readings
<1>1. scenario \in Scenarios
  BY DEF Inv, Control
<1> QED
  BY <1>1, ReadingsAssumption DEF Rounds

LEMMA StartKind == ASSUME Inv, Kind, Start PROVE Kind'
<1>1. /\ phase = "idle" /\ phase' # "idle" /\ round' = round + 1 /\ status' = status /\ round < MaxRounds
      /\ go' = [r \in Rounds |-> [c \in Names |->
                IF r = round + 1
                THEN IF c \in FlakyIn(r) THEN [NotStarted EXCEPT !.pc = "reading"]
                     ELSE [Over EXCEPT !.points = run(c, scenario[r], {})]
                ELSE IF go[r][c].pc = "done" THEN Over ELSE go[r][c]]]
  BY DEF Start
<1>2. /\ NotStarted.points = <<>> /\ [NotStarted EXCEPT !.pc = "reading"].points = <<>> /\ Over.points = <<>>
      /\ <<>> \in Seq(Point) /\ \A x : [Over EXCEPT !.points = x].points = x
  BY NoElement DEF NotStarted, Over
<1>3. ASSUME NEW r \in Rounds, NEW c \in Names PROVE go'[r][c].points \in Seq(Point)
  <2>1. go'[r][c] = IF r = round + 1
                    THEN IF c \in FlakyIn(r) THEN [NotStarted EXCEPT !.pc = "reading"]
                         ELSE [Over EXCEPT !.points = run(c, scenario[r], {})]
                    ELSE IF go[r][c].pc = "done" THEN Over ELSE go[r][c]
    BY <1>1
  <2>2. run(c, scenario[r], {}) \in Seq(Point)
    BY ScenarioReadings, RunGivesPoints
  <2>3. go[r][c].points \in Seq(Point)
    BY DEF Kind, PointsKept
  <2> QED
    BY <1>2, <2>1, <2>2, <2>3
<1>4. PointsKept'
  BY <1>3 DEF PointsKept
<1>5. Times'
  <2>1. round \in Nat /\ status.lastMetricAt \in Nat /\ status.lastMetricAt <= round
    BY RoundNumbers DEF Inv, Control, Kind, Times
  <2>2. status.lastMetricAt <= round + 1 /\ status.lastMetricAt < round + 1
    BY <2>1, RoundNumbers
  <2> QED
    BY <1>1, <2>1, <2>2 DEF Times
<1> QED
  BY <1>1, <1>4, <1>5 DEF Kind, Backed, Taken, Sent

\* The steps of a round leave its summary and the row alone.
LEMMA SameKind ==
    ASSUME Kind, PointsKept', UNCHANGED <<round, batch, status, snapshot>>, (phase' = "idle") <=> (phase = "idle")
    PROVE  Kind'
  BY DEF Kind, Backed, Times, Taken, Sent

LEMMA CollectKind ==
    ASSUME Inv, Kind,
           \/ \E r \in Rounds, c \in Names : Read(r, c) \/ Send(r, c)
           \/ Receive \/ Expire \/ GiveUp
    PROVE  Kind'
<1>1. /\ UNCHANGED <<round, batch, status, snapshot>> /\ ((phase' = "idle") <=> (phase = "idle"))
  BY DEF Read, Send, Receive, Expire, GiveUp
<1>2. PointsKept'
  <2>1. ASSUME NEW r \in Rounds, NEW c \in Names, Read(r, c) PROVE PointsKept'
    <3>1. PICK failed, late : go' = [go EXCEPT ![r][c] =
             [pc |-> "sending", points |-> run(c, scenario[r], failed), failed |-> failed, timedOut |-> late]]
      BY <2>1 DEF Read
    <3>2. run(c, scenario[r], failed) \in Seq(Point)
      BY ScenarioReadings, RunGivesPoints
    <3>3. ASSUME NEW s \in Rounds, NEW d \in Names PROVE go'[s][d].points \in Seq(Point)
      <4>1. go[s][d].points \in Seq(Point) /\ s \in DOMAIN go /\ d \in DOMAIN go[s]
        BY DEF Kind, PointsKept, Inv, GoShape
      <4>2. CASE s = r /\ d = c
        BY <3>1, <3>2, <4>1, <4>2
      <4>3. CASE ~(s = r /\ d = c)
        BY <3>1, <4>1, <4>3
      <4> QED
        BY <4>2, <4>3
    <3> QED
      BY <3>3 DEF PointsKept
  <2>2. ASSUME NEW r \in Rounds, NEW c \in Names, Send(r, c) PROVE PointsKept'
    <3>1. go' = [go EXCEPT ![r][c].pc = "done"]
      BY <2>2 DEF Send
    <3>2. ASSUME NEW s \in Rounds, NEW d \in Names PROVE go'[s][d].points = go[s][d].points
      <4>1. s \in DOMAIN go /\ d \in DOMAIN go[s] /\ DOMAIN go[s][d] = GoFields
        BY DEF Inv, GoShape
      <4> QED
        BY <3>1, <4>1 DEF GoFields
    <3> QED
      BY <3>2 DEF Kind, PointsKept
  <2>3. ASSUME Receive \/ Expire \/ GiveUp PROVE go' = go
    BY <2>3 DEF Receive, Expire, GiveUp
  <2> QED
    BY <2>1, <2>2, <2>3 DEF Kind, PointsKept
<1> QED
  BY <1>1, <1>2, SameKind

\* What a collector gave is in the points of the round if it is present.
LEMMA ExtraOf ==
    ASSUME Inv, PointsKept
    PROVE  /\ \A c \in Names : Points(c) \in Seq(Point)
           /\ ExtraPoints \in Seq(Point)
           /\ \A c \in Names : Present(c) => Range(Points(c)) \subseteq Range(ExtraPoints)
<1>1. ASSUME NEW c \in Names PROVE Points(c) \in Seq(Point)
  <2>1. byName[c] # 0 => byName[c] \in Rounds
    BY DEF Inv, Results
  <2> QED
    BY <2>1, NoElement DEF Points, Completed, PointsKept
<1> DEFINE ss == [i \in DOMAIN collectors |-> IF Present(collectors[i]) THEN Points(collectors[i]) ELSE <<>>]
<1>2. DOMAIN collectors = 1..9 /\ 9 \in Nat
  BY SMT DEF collectors
<1>3. \A i \in DOMAIN collectors : collectors[i] \in Names
  BY DEF Names, Range
<1>4. \A c \in Names : \E i \in DOMAIN collectors : c = collectors[i]
  BY DEF Names, Range
<1>5. ss \in [1..9 -> Seq(Point)]
  BY <1>1, <1>2, <1>3, NoElement
<1>6. ss \in Seq(Seq(Point)) /\ DOMAIN ss = 1..9
  BY <1>2, <1>5, IsSequence
<1>7. ExtraPoints = Concat(ss)
  BY DEF ExtraPoints
<1>8. \A i \in DOMAIN collectors : Present(collectors[i]) => ss[i] = Points(collectors[i])
  OBVIOUS
<1> HIDE DEF ss
<1>9. Flattened(ExtraPoints, ss, Point)
  BY <1>6, <1>7, Flattens
<1>10. ASSUME NEW c \in Names, Present(c), NEW p \in Range(Points(c)) PROVE p \in Range(ExtraPoints)
  <2>1. PICK i \in DOMAIN collectors : c = collectors[i]
    BY <1>4
  <2>2. p \in Range(ss[i])
    BY <1>8, <1>10, <2>1
  <2> QED
    BY <1>2, <1>6, <1>9, <2>2 DEF Flattened
<1> QED
  BY <1>1, <1>9, <1>10 DEF Flattened

\* What becomes of the batch.
LEMMA PushedBatch ==
    ASSUME Push
    PROVE  /\ batch'.points = appendMetricPoints(SummaryPoints(Sample(SystemMetrics)), ExtraPoints)
           /\ \/ UNCHANGED <<status, snapshot>>
              \/ \E req : /\ req.points = batch'.points /\ req.statuses = batch'.statuses
                          /\ status' = upsertDigestStatus(digestFromMetricBatch(req), round)
                          /\ snapshot' = SaveMetricSnapshot(req)
<1>1. PICK system \in {SystemMetrics} :
         \E d \in {Sample(system)} : \E dst \in {SummaryPoints(d)}, extra \in {ExtraPoints} :
            \E b \in {[points |-> appendMetricPoints(dst, extra),
                       statuses |-> [i \in DOMAIN collectors |-> Status(collectors[i])],
                       capabilities |-> {c \in Names : Present(c)}, digest |-> d]} :
            \E req \in {fromProtoPushMetricBatchRequest(toProtoPushMetricBatchRequest(b, system))} :
              /\ batch' = b
              /\ IF validMetricBatch(req)
                 THEN /\ status' = upsertDigestStatus(digestFromMetricBatch(req), round)
                      /\ snapshot' = SaveMetricSnapshot(req)
                 ELSE UNCHANGED <<status, snapshot>>
  BY DEF Push
<1>2. PICK points, statuses, capabilities, digest, b, req :
         /\ points = appendMetricPoints(SummaryPoints(Sample(SystemMetrics)), ExtraPoints)
         /\ b = [points |-> points, statuses |-> statuses, capabilities |-> capabilities, digest |-> digest]
         /\ req = fromProtoPushMetricBatchRequest(toProtoPushMetricBatchRequest(b, system))
         /\ batch' = b
         /\ IF validMetricBatch(req)
            THEN /\ status' = upsertDigestStatus(digestFromMetricBatch(req), round)
                 /\ snapshot' = SaveMetricSnapshot(req)
            ELSE UNCHANGED <<status, snapshot>>
  BY <1>1
<1>3. b.points = points /\ b.statuses = statuses
  BY <1>2
<1>4. req.points = b.points /\ req.statuses = b.statuses
  BY <1>2 DEF fromProtoPushMetricBatchRequest, toProtoPushMetricBatchRequest
<1> QED
  BY <1>2, <1>3, <1>4

LEMMA PushBacked == ASSUME Inv, Kind, Push PROVE Backed'
<1>1. batch'.statuses = [i \in DOMAIN collectors |-> Status(collectors[i])]
  BY Pushed
<1>2. PICK dst, extra : dst = SummaryPoints(Sample(SystemMetrics)) /\ extra = ExtraPoints
  OBVIOUS
<1>3. batch'.points = appendMetricPoints(dst, extra)
  BY <1>2, PushedBatch
<1>4. PICK S : Point \subseteq S /\ dst \in Seq(S)
  BY <1>2, Summarises DEF Summarised
<1>5. extra \in Seq(S)
  BY <1>2, <1>4, ExtraOf, MoreElements DEF Kind
<1>6. Merged(batch'.points, dst, extra, S)
  BY <1>3, <1>4, <1>5, Merges
<1>7. ASSUME NEW c \in Names PROVE TrueStatus(Status(c), batch'.points)
  <2>1. PICK s, points : s = Status(c) /\ points = Points(c)
    OBVIOUS
  <2>2. s.state = State(c) /\ s.metricNames = {p.name : p \in Range(points)}
    BY <2>1 DEF Status, uniqueMetricNames
  <2>3. points \in Seq(Point)
    BY <2>1, ExtraOf DEF Kind
  <2>4. State(c) = "unavailable" <=> points = <<>>
    BY <2>1 DEF State
  <2>5. s.metricNames = {} <=> points = <<>>
    <3>1. Range(points) = {} <=> points = <<>>
      BY <2>3, Elements
    <3> QED
      BY <2>2, <3>1
  <2>6. ASSUME s.state # "unavailable" PROVE {p \in Range(batch'.points) : p.name \in s.metricNames} # {}
    <3>1. Present(c)
      BY <2>2, <2>6 DEF Present
    <3>2. PICK p \in Range(points) : TRUE
      BY <2>2, <2>4, <2>5, <2>6
    <3>3. p \in Range(extra)
      BY <1>2, <2>1, <3>1, <3>2, ExtraOf DEF Kind
    <3>4. PICK q \in Range(batch'.points) : SamePoint(p, q)
      BY <1>6, <3>3 DEF Merged
    <3>5. q.name \in s.metricNames
      BY <2>2, <3>2, <3>4 DEF SamePoint
    <3> QED
      BY <3>4, <3>5
  <2>7. TrueStatus(s, batch'.points)
    BY <2>2, <2>4, <2>5, <2>6 DEF TrueStatus
  <2> QED
    BY <2>1, <2>7
<1>8. \A i \in DOMAIN collectors : collectors[i] \in Names
  BY DEF Names, Range
<1> QED
  BY <1>1, <1>7, <1>8 DEF Backed

LEMMA PushTaken == ASSUME Inv, Kind, Push PROVE Times' /\ Taken'
<1>1. phase = "collected" /\ phase' = "idle" /\ round' = round /\ batch'.digest = Sample(SystemMetrics)
  BY Pushed
<1>2. /\ status.lastMetricAt \in Nat /\ status.lastMetricAt < round /\ status.lastMetricAt <= round /\ round \in Nat
      /\ status.lastMetricAt # round
  BY <1>1, RoundNumbers DEF Inv, Control, Kind, Times
<1>3. CASE UNCHANGED <<status, snapshot>>
  BY <1>1, <1>2, <1>3 DEF Times, Taken
<1>4. ASSUME NEW req, req.points = batch'.points, req.statuses = batch'.statuses,
             status' = upsertDigestStatus(digestFromMetricBatch(req), round), snapshot' = SaveMetricSnapshot(req)
      PROVE  Times' /\ Taken'
  <2>1. PICK d, dst, extra : d = Sample(SystemMetrics) /\ dst = SummaryPoints(d) /\ extra = ExtraPoints
    OBVIOUS
  <2>2. req.points = appendMetricPoints(dst, extra)
    BY <1>4, <2>1, PushedBatch
  <2>3. PICK S : Point \subseteq S /\ dst \in Seq(S)
    BY <2>1, Summarises DEF Summarised
  <2>4. extra \in Seq(Point) /\ extra \in Seq(S)
    BY <2>1, <2>3, ExtraOf, MoreElements DEF Kind
  <2>5. req.points \in Seq(S)
    <3>1. Merged(req.points, dst, extra, S)
      BY <2>2, <2>3, <2>4, Merges
    <3> QED
      BY <3>1 DEF Merged
  <2>6. ASSUME NEW n \in Carried PROVE status'.values[PointField[n]] = d[n]
    <3>1. Carries(req.points, d, n)
      BY <2>1, <2>2, <2>4, BatchCarries
    <3>2. Digested(req, d, n)
      BY <2>5, <3>1, DigestCarries
    <3>3. PointField[n] \in AgentDigest
      BY FieldsOfPoints DEF Carried
    <3> QED
      BY <1>4, <3>2, <3>3 DEF upsertDigestStatus, Digested
  <2>7. status'.lastMetricAt = round /\ round <= round
    BY <1>2, <1>4, RoundNumbers DEF upsertDigestStatus
  <2>8. snapshot' = [points |-> batch'.points, collectors |-> batch'.statuses]
    BY <1>4 DEF SaveMetricSnapshot
  <2>9. Times'
    BY <1>1, <1>2, <2>7 DEF Times
  <2>10. Taken'
    BY <1>1, <2>1, <2>6, <2>8 DEF Taken
  <2> QED
    BY <2>9, <2>10
<1> QED
  BY <1>3, <1>4, PushedBatch

LEMMA StepKind == Inv /\ Kind /\ [Next]_vars => Kind'
<1> SUFFICES ASSUME Inv, Kind, [Next]_vars PROVE Kind'
  OBVIOUS
<1>1. CASE UNCHANGED vars
  BY <1>1 DEF vars, Kind, PointsKept, Backed, Times, Taken, Sent
<1>2. CASE Start
  BY <1>2, StartKind
<1>3. CASE Push
  <2>1. PointsKept'
    <3>1. go' = go
      BY <1>3, Pushed
    <3> QED
      BY <3>1 DEF Kind, PointsKept
  <2> QED
    BY <1>3, <2>1, PushBacked, PushTaken DEF Kind
<1> QED
  BY <1>1, <1>2, <1>3, CollectKind DEF Next

\* The inductive invariant behind the next two theorems.
THEOREM SpecKind == Spec => []Kind
  BY InitKind, SpecInv, StepKind, PTL DEF Spec

\* Whatever collectors fail, hang or are late, the statuses of a batch are true of its
\* round, and a collector is unavailable when and only when it put no point into the batch:
\* leaving out points that are there already never leaves a present collector without one
\* (collectExtendedMetrics and appendMetricPoints).
THEOREM StatusesTrue == Spec => []StatusesAreTrue
<1>1. StatusesOfRound /\ Kind => StatusesAreTrue
  BY DEF Kind, Backed, TrueStatus, StatusesAreTrue
<1> QED
  BY <1>1, RoundsDoNotMix, SpecKind, PTL

\* The key of a value leads to the field that its point leads to.
LEMMA KeysOfValues == \A n \in Carried : ShownAs[n] \in MetricKeys /\ MetricField[ShownAs[n]] = PointField[n]
<1>1. \A n \in DigestNames : ShownAs[n] \in MetricKeys
  BY NamesOfValues, SMTT(60) DEF ShownAs, MetricKeys
<1>2. \A n \in DigestNames : MetricField[ShownAs[n]] = PointField[n]
  BY NamesOfValues, SMTT(60) DEF ShownAs, MetricField, PointField
<1> QED
  BY <1>1, <1>2 DEF Carried

LEMMA OurHosts ==
    /\ DOMAIN Hosts = {"own", "other"} /\ \A u \in DOMAIN Hosts : Hosts[u].tenant # ""
    /\ Hosts["own"].tenant = "space" /\ Hosts["own"].status = status /\ Hosts["own"].snapshot = snapshot
<1>1. DOMAIN Hosts = {"own", "other"}
  BY DEF Hosts
<1>2. PICK o, e : /\ o = [tenant |-> "space", status |-> status, snapshot |-> snapshot]
                  /\ e = [tenant |-> "elsewhere", status |-> NoMetrics, snapshot |-> NoSnapshot]
  OBVIOUS
<1>3. o.tenant = "space" /\ o.status = status /\ o.snapshot = snapshot
  BY <1>2
<1>4. e.tenant = "elsewhere"
  BY <1>2
<1>5. Hosts["own"] = o /\ Hosts["other"] = e
  BY <1>2 DEF Hosts
<1>6. "space" # "" /\ "elsewhere" # ""
  BY SMT
<1>7. \A u \in DOMAIN Hosts : Hosts[u].tenant # ""
  BY <1>1, <1>3, <1>4, <1>5, <1>6
<1> QED
  BY <1>1, <1>3, <1>5, <1>7

\* What the snapshot route gives.
LEMMA SnapshotShown ==
    ASSUME NEW p \in Readers
    PROVE  handleGetLatestMetricSnapshot(Hosts, p, "own") =
             IF p.kind = "user" /\ MayRead(Hosts, p, "own") THEN snapshot ELSE NoSnapshot
<1>1. getHostByUID(Hosts, "own", p.tenant) # {} <=> p.tenant = "space"
  <2>1. \A s : s \in getHostByUID(Hosts, "own", p.tenant) <=>
                 Hosts["own"].tenant = p.tenant /\ s = hostSnapshotFromModel("own", Hosts["own"])
    BY DEF getHostByUID, listHosts
  <2>2. Hosts["own"].tenant = "space"
    BY OurHosts
  <2> QED
    BY <2>1, <2>2
<1>2. IsUser(p) /\ p.tenant = "space" <=> p.kind = "user" /\ MayRead(Hosts, p, "own")
  BY OurHosts DEF IsUser, MayRead
<1> QED
  BY <1>1, <1>2, OurHosts DEF handleGetLatestMetricSnapshot

\* From the collectors to the reader: whatever the machine reports and whoever reads, every
\* value of the summary but the CPU usage is shown as it was computed for the last batch that
\* was taken, under its key and by every route, and users of the space are shown that batch
\* itself; nobody is shown what is not theirs (pushMetrics, digestFromMetricBatch,
\* ProjectHost and handlePublicLatestMetrics).
THEOREM SampledIsShown == Spec => []ShownIsSampled
<1>1. ASSUME Inv, Kind PROVE ShownIsSampled
  <2>1. SUFFICES ASSUME Sent, NEW p \in Readers
                 PROVE  LET may == MayRead(Hosts, p, "own")
                            latest == handlePublicLatestMetrics(Hosts, p, "own") IN
                        /\ ReadsAreScoped(Hosts, p)
                        /\ status.lastMetricAt = round /\ may /\ SeesMetrics(p) =>
                             /\ <<"own", latest>> \in latestMetricPointsByHost(p, ReadHosts(Hosts, p))
                             /\ \A n \in DigestNames \ {"host_cpu_usage_pct"} :
                                  /\ latest[ShownAs[n]] = [ts |-> round, value |-> batch.digest[n]]
                                  /\ \A shown \in handleGetHost(Hosts, p, "own") : shown[ShownAs[n]] = batch.digest[n]
                        /\ status.lastMetricAt = round =>
                             handleGetLatestMetricSnapshot(Hosts, p, "own") =
                               IF p.kind = "user" /\ may THEN [points |-> batch.points, collectors |-> batch.statuses]
                               ELSE NoSnapshot
    BY DEF ShownIsSampled
  <2>2. ReadsAreScoped(Hosts, p)
    BY OurHosts, ReadersAreScoped
  <2>3. ASSUME status.lastMetricAt = round
        PROVE  handleGetLatestMetricSnapshot(Hosts, p, "own") =
                 IF p.kind = "user" /\ MayRead(Hosts, p, "own")
                 THEN [points |-> batch.points, collectors |-> batch.statuses] ELSE NoSnapshot
    <3>1. snapshot = [points |-> batch.points, collectors |-> batch.statuses]
      BY <1>1, <2>1, <2>3 DEF Kind, Taken
    <3> QED
      BY <3>1, SnapshotShown
  <2>4. ASSUME status.lastMetricAt = round, MayRead(Hosts, p, "own"), SeesMetrics(p), NEW latest,
               latest = handlePublicLatestMetrics(Hosts, p, "own")
        PROVE  /\ <<"own", latest>> \in latestMetricPointsByHost(p, ReadHosts(Hosts, p))
               /\ \A n \in DigestNames \ {"host_cpu_usage_pct"} :
                    /\ latest[ShownAs[n]] = [ts |-> round, value |-> batch.digest[n]]
                    /\ \A shown \in handleGetHost(Hosts, p, "own") : shown[ShownAs[n]] = batch.digest[n]
    <3>1. "own" \in DOMAIN Hosts /\ (\A u \in DOMAIN Hosts : Hosts[u].tenant # "") /\ Hosts["own"].status = status
      BY OurHosts
    <3>2. Hosts["own"].status.lastMetricAt # 0
      BY <1>1, <2>1, <2>4, <3>1, RoundNumbers DEF Inv, Control, Sent
    <3>3. /\ handleGetHost(Hosts, p, "own") = {Values(Hosts["own"])}
          /\ latest = ValuePoints(Hosts["own"])
          /\ <<"own", ValuePoints(Hosts["own"])>> \in latestMetricPointsByHost(p, ReadHosts(Hosts, p))
      BY <2>4, <3>1, <3>2, ShownIsStored
    <3>4. ASSUME NEW n \in Carried
          PROVE  /\ Values(Hosts["own"])[ShownAs[n]] = batch.digest[n]
                 /\ ValuePoints(Hosts["own"])[ShownAs[n]] = [ts |-> round, value |-> batch.digest[n]]
      <4>1. ShownAs[n] \in MetricKeys /\ MetricField[ShownAs[n]] = PointField[n]
        BY KeysOfValues
      <4>2. status.values[PointField[n]] = batch.digest[n]
        BY <1>1, <2>1, <2>4 DEF Kind, Taken
      <4>3. Values(Hosts["own"])[ShownAs[n]] = batch.digest[n]
        BY <3>1, <4>1, <4>2 DEF Values
      <4> QED
        BY <2>4, <3>1, <4>1, <4>3 DEF ValuePoints
    <3> QED
      BY <3>3, <3>4 DEF Carried
  <2> QED
    BY <2>2, <2>3, <2>4
<1> QED
  BY <1>1, SpecInv, SpecKind, PTL
=============================================================================

---------------------------- MODULE ServerProofs ----------------------------
(***************************************************************************)
(* Proofs about Server, for any number of handlers: the process ends in    *)
(* order, and on its way it waits for nobody who may never come.           *)
(***************************************************************************)
EXTENDS Server, TLAPS

\* Every leaf that names no prover goes to Zenon; the arithmetic goes to SMT.
USE ZenonT(90)

\* New and Run until serve starts the workers; the deferred calls of Run and after.
Stage == {"postgres", "redis", "store", "admin", "web"}
Early == {"load", "listen HTTP", "listen gRPC", "start"} \cup Stage
Late  == {"release", "close", "exited"}

TypeInv ==
    /\ main \in Early \cup Late \cup {"select", "wait gRPC", "wait HTTP", "wait workers"}
    /\ worker \in [Workers -> {"none", "running", "nil", "err", "done"}]
    /\ rpcs \in Nat /\ requests \in Nat

\* Nothing has been started.
Idle == /\ \A w \in Workers : worker[w] = "none"
        /\ graceful = "serving" /\ shutdown = "serving" /\ rpcs = 0 /\ requests = 0

\* Everything that was started has ended.
Ended == (\A w \in Workers : worker[w] = "done") /\ rpcs = 0 /\ requests = 0

\* Each stage of serve leaves behind what it has stopped, and what is stopped stays so.
Stopping ==
    /\ main \in Early => Idle
    /\ main = "select" => graceful = "serving" /\ shutdown = "serving"
    /\ main \in {"wait HTTP", "wait workers"} => graceful = "stopped"
    /\ main = "wait workers" => shutdown \in {"stopped", "failed"} /\ requests = 0
    /\ main \in Late => Idle \/ Ended
    /\ graceful = "stopped" => rpcs = 0
    /\ shutdown = "stopped" => requests = 0

\* What is open at each stage.
Resources ==
    /\ main \in {"load", "exited"} => opened = {}
    /\ main = "redis" => "postgres" \in opened
    /\ main \notin {"load", "postgres", "redis", "exited"} => {"postgres", "redis"} \subseteq opened
    /\ main \in {"load", "listen HTTP", "close", "exited"} \cup Stage => listeners = {}

Inv == TypeInv /\ Stopping /\ Resources

LEMMA InitInv == Init => Inv
<1>1. 0 \in Nat
  BY SMT
<1> QED
  BY <1>1 DEF Init, Inv, TypeInv, Stopping, Resources, Idle, Early, Late, Stage

\* The stages of New come in their order, and open what they are named after.
LEMMA Opening ==
    ASSUME Open
    PROVE  /\ main \in Stage /\ main' \in {"redis", "store", "admin", "web", "listen HTTP"}
           /\ main = "postgres" => main' = "redis" /\ "postgres" \in opened'
           /\ main' = "redis" => main = "postgres"
           /\ main = "redis" => "redis" \in opened'
           /\ opened \subseteq opened'
<1>1. PICK i \in DOMAIN Stages : main = Stages[i] /\ main' = After(i)
                                 /\ opened' = opened \cup Opens(main)
  BY DEF Open
<1>2. i \in {1, 2, 3, 4, 5} /\ Len(Stages) = 5
  BY SMT DEF Stages
<1>3. /\ Stages[1] = "postgres" /\ Stages[2] = "redis" /\ Stages[3] = "store"
      /\ Stages[4] = "admin" /\ Stages[5] = "web"
  BY SMT DEF Stages
<1>4. /\ i = 1 => After(i) = "redis"
      /\ i = 2 => After(i) = "store"
      /\ i = 3 => After(i) = "admin"
      /\ i = 4 => After(i) \in {"web", "listen HTTP"}
      /\ i = 5 => After(i) = "listen HTTP"
  <2>1. 1 + 1 = 2 /\ 2 + 1 = 3 /\ 3 + 1 = 4 /\ 4 + 1 = 5
        /\ 1 # 5 /\ 2 # 5 /\ 3 # 5 /\ 4 # 5
    BY SMT
  <2> QED
    BY <1>2, <1>3, <2>1 DEF After
<1> QED
  BY <1>1, <1>2, <1>3, <1>4 DEF Stage, Opens

\* A stage of New is one of five.
LEMMA Staging == ASSUME NEW i \in DOMAIN Stages PROVE Stages[i] \in Stage
<1>1. i \in {1, 2, 3, 4, 5}
  BY SMT DEF Stages
<1>2. /\ Stages[1] = "postgres" /\ Stages[2] = "redis" /\ Stages[3] = "store"
      /\ Stages[4] = "admin" /\ Stages[5] = "web"
  BY SMT DEF Stages
<1> QED
  BY <1>1, <1>2 DEF Stage

\* Every step keeps the invariant.
LEMMA StepInv == Inv /\ [Next]_vars => Inv'
<1> SUFFICES ASSUME Inv, [Next]_vars PROVE Inv'
  OBVIOUS
<1> USE DEF Inv, storage, clients, work, stopping
<1>n. 0 \in Nat /\ rpcs \in Nat /\ requests \in Nat
  <2>1. 0 \in Nat
    BY SMT
  <2> QED
    BY <2>1 DEF TypeInv
<1>w. \A w \in Workers : worker[w] \notin {"none", "done"} => main \notin Early \cup Late
  BY DEF Stopping, Idle, Ended
<1>h. rpcs # 0 \/ requests # 0 => main \notin Early \cup Late
  BY DEF Stopping, Idle, Ended
<1>1. CASE Signal
  BY <1>1 DEF Signal, TypeInv, Stopping, Resources, Idle, Ended
<1>2. CASE Load
  <2> USE <1>2 DEF Load
  <2>1. /\ Idle /\ opened = {} /\ listeners = {}
        /\ main' \in {"postgres", "exited"} /\ Idle'
    <3>1. Stages[1] = "postgres"
      BY SMT DEF Stages
    <3> QED
      BY <3>1 DEF Stopping, Resources, Idle, Early
  <2>2. TypeInv'
    BY <2>1 DEF TypeInv, Early, Late, Stage
  <2>3. Stopping'
    BY <2>1, <1>n DEF Stopping, Idle, Early, Late, Stage
  <2>4. Resources'
    BY <2>1 DEF Resources
  <2> QED
    BY <2>2, <2>3, <2>4
<1>3. CASE Open
  <2>1. UNCHANGED <<listeners, worker, graceful, shutdown, rpcs, requests>>
    BY <1>3 DEF Open
  <2>2. /\ main \in Stage /\ main' \in {"redis", "store", "admin", "web", "listen HTTP"}
        /\ main = "postgres" => main' = "redis" /\ "postgres" \in opened'
        /\ main' = "redis" => main = "postgres"
        /\ main = "redis" => "redis" \in opened'
        /\ opened \subseteq opened'
    BY <1>3, Opening
  <2>3. TypeInv'
    BY <2>1, <2>2 DEF TypeInv, Early, Stage
  <2>4. Stopping'
    BY <2>1, <2>2 DEF Stopping, Idle, Early, Late, Stage
  <2>5. Resources'
    BY <2>1, <2>2 DEF Resources, Stage
  <2> QED
    BY <2>3, <2>4, <2>5
<1>4. CASE OpenFails
  <2> USE <1>4 DEF OpenFails
  <2>1. main \in Stage /\ Idle /\ Idle' /\ listeners' = {} /\ opened' = {}
    BY Staging DEF Stopping, Idle, Early, Resources
  <2> QED
    BY <2>1 DEF TypeInv, Stopping, Resources, Idle, Early, Late, Stage
<1>5. CASE ListenHTTP
  <2> USE <1>5 DEF ListenHTTP
  <2>1. main' \in {"release", "listen gRPC"} /\ Idle /\ Idle'
    BY DEF Stopping, Idle, Early
  <2>2. TypeInv'
    BY <2>1 DEF TypeInv, Early, Late
  <2>3. Stopping'
    BY <2>1 DEF Stopping, Idle, Late
  <2>4. Resources'
    BY <2>1 DEF Resources, Stage
  <2> QED
    BY <2>2, <2>3, <2>4
<1>6. CASE ListenGRPC
  <2> USE <1>6 DEF ListenGRPC
  <2>1. main' \in {"release", "start"} /\ Idle /\ Idle'
    BY DEF Stopping, Idle, Early
  <2>2. TypeInv'
    BY <2>1 DEF TypeInv, Early, Late
  <2>3. Stopping'
    BY <2>1 DEF Stopping, Idle, Late
  <2>4. Resources'
    BY <2>1 DEF Resources, Stage
  <2> QED
    BY <2>2, <2>3, <2>4
<1>7. CASE StartWorkers
  <2> USE <1>7 DEF StartWorkers
  <2>1. graceful = "serving" /\ shutdown = "serving"
    BY DEF Stopping, Idle, Early
  <2> QED
    BY <2>1 DEF TypeInv, Stopping, Resources, Early, Late, Stage
<1>8. CASE Select
  BY <1>8 DEF Select, TypeInv, Stopping, Resources, Early, Late, Stage
<1>9. CASE WaitGRPC
  <2> USE <1>9 DEF WaitGRPC
  <2>1. main' = "wait HTTP" /\ graceful' = "stopped" /\ rpcs' = 0
    BY DEF Stopping
  <2> QED
    BY <2>1, <1>n DEF TypeInv, Stopping, Resources, Early, Late, Stage
<1>10. CASE WaitHTTP
  <2> USE <1>10 DEF WaitHTTP
  <2>1. main' = "wait workers" /\ shutdown' \in {"stopped", "failed"} /\ requests' = 0
    BY DEF Stopping
  <2> QED
    BY <2>1, <1>n DEF TypeInv, Stopping, Resources, Early, Late, Stage
<1>11. CASE Join
  <2> USE <1>11 DEF Join
  <2>1. Ended'
    BY DEF Stopping, Ended
  <2> QED
    BY <2>1 DEF TypeInv, Stopping, Resources, Early, Late, Stage
<1>12. CASE Release \/ Close
  BY <1>12 DEF Release, Close, TypeInv, Stopping, Resources, Idle, Ended, Early, Late, Stage
<1>13. CASE ProbeTarget \/ ProbeReport \/ ProbeDone \/ Scan \/ ScanDone
  BY <1>13 DEF ProbeTarget, ProbeReport, ProbeDone, Scan, ScanDone, TypeInv, Stopping,
               Resources, Idle, Ended
<1>14. ASSUME NEW w \in Workers, Returns(w) PROVE Inv'
  <2> USE <1>14 DEF Returns
  <2>1. main \notin Early \cup Late
    BY <1>w
  <2>2. worker' \in [Workers -> {"none", "running", "nil", "err", "done"}]
    <3>1. \A o \in Outcomes(w) : o \in {"nil", "err"}
      BY DEF Outcomes
    <3> QED
      BY <3>1 DEF TypeInv
  <2> QED
    BY <2>1, <2>2 DEF TypeInv, Stopping, Resources
<1>15. ASSUME NEW w \in Workers, Sends(w) PROVE Inv'
  <2> USE <1>15 DEF Sends
  <2>1. main \notin Early \cup Late
    BY <1>w
  <2> QED
    BY <2>1 DEF TypeInv, Stopping, Resources
<1>16. CASE StartRPC
  <2> USE <1>16 DEF StartRPC
  <2>1. rpcs' \in Nat
    BY <1>n, SMT
  <2>2. main \notin Early \cup Late
    BY <1>w DEF Workers
  <2>3. graceful # "stopped"
    OBVIOUS
  <2> QED
    BY <2>1, <2>2, <2>3 DEF TypeInv, Stopping, Resources
<1>17. CASE EndRPC
  <2> USE <1>17 DEF EndRPC
  <2>1. rpcs' \in Nat /\ rpcs # 0
    BY <1>n, SMT
  <2>2. main \notin Early \cup Late
    BY <2>1, <1>h
  <2>3. graceful # "stopped"
    BY <2>1 DEF Stopping
  <2> QED
    BY <2>1, <2>2, <2>3 DEF TypeInv, Stopping, Resources
<1>18. CASE StartRequest
  <2> USE <1>18 DEF StartRequest
  <2>1. requests' \in Nat
    BY <1>n, SMT
  <2>2. main \notin Early \cup Late
    BY <1>w DEF Workers
  <2>3. shutdown \notin {"stopped", "failed"}
    OBVIOUS
  <2> QED
    BY <2>1, <2>2, <2>3 DEF TypeInv, Stopping, Resources
<1>19. CASE EndRequest
  <2> USE <1>19 DEF EndRequest
  <2>1. requests' \in Nat /\ requests # 0
    BY <1>n, SMT
  <2>2. main \notin Early \cup Late /\ main # "wait workers" /\ shutdown # "stopped"
    BY <2>1, <1>h DEF Stopping
  <2> QED
    BY <2>1, <2>2 DEF TypeInv, Stopping, Resources
<1>20. CASE EndOrphan \/ Expire
  BY <1>20 DEF EndOrphan, Expire, TypeInv, Stopping, Resources, Idle, Ended
<1>21. CASE GracefulStop
  <2> USE <1>21 DEF GracefulStop
  <2>1. main \notin Early /\ main # "select" /\ main \notin {"wait HTTP", "wait workers"}
    BY DEF Stopping, Idle
  <2> QED
    BY <2>1 DEF TypeInv, Stopping, Resources, Idle, Ended
<1>22. CASE GracefullyStopped
  <2> USE <1>22 DEF GracefullyStopped
  <2>1. main \notin Early /\ main # "select"
    BY DEF Stopping, Idle
  <2> QED
    BY <2>1 DEF TypeInv, Stopping, Resources, Idle, Ended
<1>23. CASE Shutdown
  <2> USE <1>23 DEF Shutdown
  <2>1. main \notin Early /\ main # "select" /\ main # "wait workers"
    BY DEF Stopping, Idle
  <2> QED
    BY <2>1 DEF TypeInv, Stopping, Resources, Idle, Ended
<1>24. CASE ShutdownReturns
  <2> USE <1>24 DEF ShutdownReturns
  <2>1. main \notin Early /\ main # "select" /\ main # "wait workers"
    BY DEF Stopping, Idle
  <2> QED
    BY <2>1 DEF TypeInv, Stopping, Resources, Idle, Ended
<1>25. CASE UNCHANGED vars
  BY <1>25 DEF vars, TypeInv, Stopping, Resources, Idle, Ended
<1> QED
  BY <1>1, <1>2, <1>3, <1>4, <1>5, <1>6, <1>7, <1>8, <1>9, <1>10, <1>11, <1>12, <1>13, <1>14,
     <1>15, <1>16, <1>17, <1>18, <1>19, <1>20, <1>21, <1>22, <1>23, <1>24, <1>25 DEF Next, Main

\* The process ends in order, whatever fails while it starts or stops and however many
\* handlers it runs (New, Run, serve, Close).
THEOREM ExitsInOrder == Spec => []OrderlyExit
<1>1. Inv => OrderlyExit
  <2> SUFFICES ASSUME Inv PROVE OrderlyExit
    OBVIOUS
  <2>1. ASSUME (\E w \in Workers : worker[w] = "running") \/ rpcs > 0 \/ requests > 0
        PROVE  {"postgres", "redis"} \subseteq opened
    <3>1. ~(0 > 0)
      BY SMT
    <3>2. main \notin Early \cup Late
      BY <2>1, <3>1 DEF Inv, Stopping, Idle, Ended
    <3> QED
      BY <3>2 DEF Inv, Resources, Early, Late, Stage
  <2>2. main = "exited" => /\ opened = {} /\ listeners = {}
                           /\ \A w \in Workers : worker[w] \in {"none", "done"}
    BY DEF Inv, Stopping, Resources, Idle, Ended, Late
  <2> QED
    BY <2>1, <2>2 DEF OrderlyExit
<1> QED
  BY <1>1, InitInv, StepInv, PTL DEF Spec

-----------------------------------------------------------------------------
(* The results of the workers, and what serve waits for                    *)

Waits == {"wait gRPC", "wait HTTP", "wait workers"}

Done(w) == IF worker[w] = "done" THEN 1 ELSE 0

\* How many workers have sent their result.
Sent == Done("HTTP") + Done("gRPC") + Done("probe-worker") + Done("offline reconciler")

\* A result is in errCh or was taken by serve, which takes none before it stops.
Results ==
    /\ errCh \in Seq({"nil", "err"})
    /\ Len(errCh) <= Sent
    /\ main \in Early \cup {"select"} => Len(errCh) = Sent

\* serve has started the workers before it waits, and has told all of them to stop.
Told ==
    /\ graceful \in {"serving", "asked", "waiting", "stopped"}
    /\ shutdown \in {"serving", "asked", "waiting", "stopped", "failed"}
    /\ main \in {"select"} \cup Waits => \A w \in Workers : worker[w] # "none"
    /\ main \in Waits => cancelled /\ graceful # "serving" /\ shutdown # "serving"

LEMMA SentRange ==
    /\ Sent \in 0..4
    /\ \A w \in Workers : worker[w] # "done" => Sent < Capacity
<1>1. \A w : Done(w) \in {0, 1} /\ (worker[w] # "done" => Done(w) = 0)
  BY DEF Done
<1> DEFINE a == Done("HTTP")
           b == Done("gRPC")
           c == Done("probe-worker")
           d == Done("offline reconciler")
<1>2. a \in {0, 1} /\ b \in {0, 1} /\ c \in {0, 1} /\ d \in {0, 1}
  BY <1>1
<1>3. Sent = a + b + c + d
  BY DEF Sent
<1>4. \A w \in Workers : worker[w] # "done" => a = 0 \/ b = 0 \/ c = 0 \/ d = 0
  BY <1>1 DEF Workers
<1> HIDE DEF a, b, c, d
<1>5. Sent \in 0..4 /\ (a = 0 \/ b = 0 \/ c = 0 \/ d = 0 => Sent < Capacity)
  BY <1>2, <1>3, SMT DEF Capacity
<1> QED
  BY <1>4, <1>5

\* The count depends on who is done and on nothing else.
LEMMA SameSent ==
    ASSUME \A w \in Workers : worker'[w] = "done" <=> worker[w] = "done"
    PROVE  Sent' = Sent
<1>1. \A w \in Workers : Done(w)' = Done(w)
  BY DEF Done
<1>2. /\ Done("HTTP")' = Done("HTTP") /\ Done("gRPC")' = Done("gRPC")
      /\ Done("probe-worker")' = Done("probe-worker")
      /\ Done("offline reconciler")' = Done("offline reconciler")
  BY <1>1 DEF Workers
<1> QED
  BY <1>2 DEF Sent

LEMMA OneMoreSent ==
    ASSUME TypeInv, NEW w \in Workers, worker[w] # "done",
           worker' = [worker EXCEPT ![w] = "done"]
    PROVE  Sent' = Sent + 1
<1>1. worker'[w] = "done" /\ \A v \in Workers : v # w => worker'[v] = worker[v]
  BY DEF TypeInv
<1>2. \A v \in Workers : /\ Done(v) \in {0, 1} /\ Done(v)' \in {0, 1}
                         /\ v # w => Done(v)' = Done(v)
                         /\ v = w => Done(v)' = 1 /\ Done(v) = 0
  BY <1>1 DEF Done
<1> DEFINE a == Done("HTTP")
           b == Done("gRPC")
           c == Done("probe-worker")
           d == Done("offline reconciler")
<1>3. a \in {0, 1} /\ b \in {0, 1} /\ c \in {0, 1} /\ d \in {0, 1}
  BY <1>2 DEF Workers
<1>4. \/ a = 0 /\ a' = 1 /\ b' = b /\ c' = c /\ d' = d
      \/ b = 0 /\ b' = 1 /\ a' = a /\ c' = c /\ d' = d
      \/ c = 0 /\ c' = 1 /\ a' = a /\ b' = b /\ d' = d
      \/ d = 0 /\ d' = 1 /\ a' = a /\ b' = b /\ c' = c
  BY <1>2 DEF Workers
<1>5. Sent = a + b + c + d /\ Sent' = a' + b' + c' + d'
  BY DEF Sent
<1> HIDE DEF a, b, c, d
<1> QED
  BY <1>3, <1>4, <1>5, SMT

LEMMA ToldStep == Inv /\ Told /\ [Next]_vars => Told'
<1> SUFFICES ASSUME Inv, Told, [Next]_vars PROVE Told'
  OBVIOUS
<1> USE DEF storage, clients, work, stopping
<1>t. worker \in [Workers -> {"none", "running", "nil", "err", "done"}]
  BY DEF Inv, TypeInv
<1>1. CASE Main
  <2>1. CASE Load \/ Open \/ OpenFails \/ ListenHTTP \/ ListenGRPC
    <3>1. main' \in {"exited", "release", "listen HTTP", "listen gRPC", "start"} \cup Stage
      <4>1. Load => main' \in {"exited", "postgres"}
        <5>1. Stages[1] = "postgres"
          BY SMT DEF Stages
        <5> QED
          BY <5>1 DEF Load
      <4> QED
        BY <2>1, <4>1, Opening DEF OpenFails, ListenHTTP, ListenGRPC, Stage
    <3>2. main' \notin {"select"} \cup Waits
      BY <3>1 DEF Waits, Stage
    <3>3. UNCHANGED <<graceful, shutdown>>
      BY <2>1 DEF Load, Open, OpenFails, ListenHTTP, ListenGRPC
    <3> QED
      BY <3>2, <3>3 DEF Told
  <2>2. CASE StartWorkers
    BY <2>2 DEF StartWorkers, Told, Waits
  <2>3. CASE Select
    BY <2>3 DEF Select, Told, Waits
  <2>4. CASE WaitGRPC
    BY <2>4 DEF WaitGRPC, Told, Waits
  <2>5. CASE WaitHTTP
    BY <2>5 DEF WaitHTTP, Told, Waits
  <2>6. CASE Join \/ Release \/ Close
    BY <2>6 DEF Join, Release, Close, Told, Waits
  <2> QED
    BY <1>1, <2>1, <2>2, <2>3, <2>4, <2>5, <2>6 DEF Main
<1>2. ASSUME NEW w \in Workers, Returns(w) \/ Sends(w) PROVE Told'
  <2>1. PICK o : worker' = [worker EXCEPT ![w] = o] /\ o # "none"
    <3>1. \A o \in Outcomes(w) : o \in {"nil", "err"}
      BY DEF Outcomes
    <3> QED
      BY <1>2, <3>1 DEF Returns, Sends
  <2>2. UNCHANGED <<main, graceful, shutdown, cancelled>>
    BY <1>2 DEF Returns, Sends
  <2>3. \A v \in Workers : worker[v] # "none" => worker'[v] # "none"
    BY <1>t, <2>1
  <2> QED
    BY <2>2, <2>3 DEF Told
<1>3. CASE GracefulStop \/ GracefullyStopped \/ Shutdown \/ ShutdownReturns
  BY <1>3 DEF GracefulStop, GracefullyStopped, Shutdown, ShutdownReturns, Told
<1>4. CASE \/ Signal \/ ProbeTarget \/ ProbeReport \/ ProbeDone \/ Scan \/ ScanDone
           \/ StartRPC \/ EndRPC \/ StartRequest \/ EndRequest \/ EndOrphan \/ Expire
           \/ UNCHANGED vars
  <2>1. UNCHANGED <<main, worker, graceful, shutdown, cancelled>>
    BY <1>4 DEF Signal, ProbeTarget, ProbeReport, ProbeDone, Scan, ScanDone, StartRPC, EndRPC,
                StartRequest, EndRequest, EndOrphan, Expire, vars
  <2> QED
    BY <2>1 DEF Told
<1> QED
  BY <1>1, <1>2, <1>3, <1>4 DEF Next

\* A worker sends its result, or serve takes one.
LEMMA ResultsSend ==
    ASSUME Inv, Results, NEW w \in Workers, Sends(w)
    PROVE  Results'
<1>1. /\ worker[w] \in {"nil", "err"} /\ errCh' = Append(errCh, worker[w])
      /\ worker' = [worker EXCEPT ![w] = "done"] /\ main' = main
  BY DEF Sends
<1>2. Sent' = Sent + 1
  BY <1>1, OneMoreSent DEF Inv
<1>3. errCh \in Seq({"nil", "err"}) /\ Len(errCh) <= Sent /\ Sent \in 0..4
  BY SentRange DEF Results
<1>4. errCh' \in Seq({"nil", "err"}) /\ Len(errCh') = Len(errCh) + 1 /\ Len(errCh') <= Sent'
  BY <1>1, <1>2, <1>3, SMT
<1> QED
  BY <1>1, <1>2, <1>4 DEF Results

LEMMA ResultsTaken ==
    ASSUME Results, Select
    PROVE  Results'
<1>1. errCh' = errCh \/ (errCh # <<>> /\ errCh' = Tail(errCh))
  BY DEF Select
<1>2. main' = "wait gRPC" /\ UNCHANGED worker
  BY DEF Select
<1>3. Sent' = Sent /\ Sent \in 0..4
  BY <1>2, SameSent, SentRange
<1>4. errCh \in Seq({"nil", "err"}) /\ Len(errCh) <= Sent
  BY DEF Results
<1>5. errCh' \in Seq({"nil", "err"}) /\ Len(errCh') <= Sent
  BY <1>1, <1>3, <1>4, SMT
<1>6. "wait gRPC" \notin Early \cup {"select"}
  BY DEF Early, Stage
<1> QED
  BY <1>2, <1>3, <1>5, <1>6 DEF Results

LEMMA ResultsStep == Inv /\ Results /\ [Next]_vars => Results'
<1> SUFFICES ASSUME Inv, Results, [Next]_vars PROVE Results'
  OBVIOUS
<1> USE DEF storage, clients, work, stopping
<1>1. ASSUME errCh' = errCh, \A w \in Workers : worker'[w] = "done" <=> worker[w] = "done",
             main' \in Early \cup {"select"} => main \in Early \cup {"select"}
      PROVE  Results'
  <2>1. Sent' = Sent
    BY <1>1, SameSent
  <2> QED
    BY <1>1, <2>1 DEF Results
<1>2. CASE Load \/ Open \/ OpenFails \/ ListenHTTP \/ ListenGRPC
  <2>1. main \in Early
    BY <1>2, Opening, Staging DEF Load, OpenFails, ListenHTTP, ListenGRPC, Early
  <2>2. UNCHANGED <<errCh, worker>>
    BY <1>2 DEF Load, Open, OpenFails, ListenHTTP, ListenGRPC
  <2> QED
    BY <1>1, <2>1, <2>2
<1>3. CASE StartWorkers
  <2>1. main \in Early /\ errCh' = errCh /\ worker' = [w \in Workers |-> "running"]
    BY <1>3 DEF StartWorkers, Early
  <2>2. \A w \in Workers : worker[w] = "none"
    BY <2>1 DEF Inv, Stopping, Idle
  <2> QED
    BY <1>1, <2>1, <2>2
<1>4. CASE Select
  BY <1>4, ResultsTaken
<1>5. CASE WaitGRPC \/ WaitHTTP \/ Join \/ Release \/ Close
  <2>1. main' \in {"wait HTTP", "wait workers", "release", "close", "exited"}
    BY <1>5 DEF WaitGRPC, WaitHTTP, Join, Release, Close
  <2>2. main' \notin Early \cup {"select"}
    BY <2>1 DEF Early, Stage
  <2>3. UNCHANGED <<errCh, worker>>
    BY <1>5 DEF WaitGRPC, WaitHTTP, Join, Release, Close
  <2> QED
    BY <1>1, <2>2, <2>3
<1>6. ASSUME NEW w \in Workers, Returns(w) PROVE Results'
  <2>1. PICK o : worker' = [worker EXCEPT ![w] = o] /\ o # "done" /\ worker[w] = "running"
    <3>1. \A o \in Outcomes(w) : o \in {"nil", "err"}
      BY DEF Outcomes
    <3> QED
      BY <1>6, <3>1 DEF Returns
  <2>2. \A v \in Workers : worker'[v] = "done" <=> worker[v] = "done"
    BY <2>1 DEF Inv, TypeInv
  <2>3. errCh' = errCh /\ main' = main
    BY <1>6 DEF Returns
  <2> QED
    BY <1>1, <2>2, <2>3
<1>7. ASSUME NEW w \in Workers, Sends(w) PROVE Results'
  BY <1>7, ResultsSend
<1>8. CASE \/ Signal \/ ProbeTarget \/ ProbeReport \/ ProbeDone \/ Scan \/ ScanDone
           \/ StartRPC \/ EndRPC \/ StartRequest \/ EndRequest \/ EndOrphan \/ Expire
           \/ GracefulStop \/ GracefullyStopped \/ Shutdown \/ ShutdownReturns \/ UNCHANGED vars
  <2>1. UNCHANGED <<main, worker, errCh>>
    BY <1>8 DEF Signal, ProbeTarget, ProbeReport, ProbeDone, Scan, ScanDone, StartRPC, EndRPC,
                StartRequest, EndRequest, EndOrphan, Expire, GracefulStop, GracefullyStopped,
                Shutdown, ShutdownReturns, vars
  <2> QED
    BY <1>1, <2>1
<1> QED
  BY <1>2, <1>3, <1>4, <1>5, <1>6, <1>7, <1>8 DEF Next, Main

LEMMA SpecResults == Spec => [](Inv /\ Results /\ Told)
<1>1. Init => Results /\ Told
  <2> SUFFICES ASSUME Init PROVE Results /\ Told
    OBVIOUS
  <2>1. /\ errCh = <<>> /\ main = "load" /\ graceful = "serving" /\ shutdown = "serving"
        /\ \A w \in Workers : worker[w] # "done"
    BY DEF Init
  <2>2. Sent = 0
    <3>1. \A w \in Workers : Done(w) = 0
      BY <2>1 DEF Done
    <3>2. Sent = 0 + 0 + 0 + 0
      BY <3>1 DEF Sent, Workers
    <3> QED
      BY <3>2, SMT
  <2>3. <<>> \in Seq({"nil", "err"}) /\ Len(<<>>) = 0 /\ 0 <= 0
    BY SMT
  <2>4. "load" \notin {"select"} \cup Waits
    BY DEF Waits
  <2> QED
    BY <2>1, <2>2, <2>3, <2>4 DEF Results, Told
<1> QED
  BY <1>1, InitInv, StepInv, ResultsStep, ToldStep, PTL DEF Spec

\* A worker that has a result finds room for it.
RoomForResults == \A w \in Workers : worker[w] \in {"nil", "err"} => Len(errCh) < Capacity

\* No worker blocks on errCh, also after serve has taken the one result that it takes
\* (serve: a buffered channel with room for the four workers).
THEOREM NoWorkerBlocks == Spec => []RoomForResults
<1>1. Results => RoomForResults
  <2> SUFFICES ASSUME Results, NEW w \in Workers, worker[w] \in {"nil", "err"}
               PROVE  Len(errCh) < Capacity
    BY DEF RoomForResults
  <2>1. Sent < Capacity /\ Sent \in 0..4
    BY SentRange
  <2>2. errCh \in Seq({"nil", "err"}) /\ Len(errCh) <= Sent
    BY DEF Results
  <2> QED
    BY <2>1, <2>2, SMT DEF Capacity
<1> QED
  BY <1>1, SpecResults, PTL

\* The process is told to stop, or a worker has ended.
MustStop == signalled \/ \E w \in Workers : worker[w] \in {"nil", "err", "done"}

\* The guards of the steps that FairSpec takes: those of the main goroutine ...
MainGoesOn ==
    \/ main \in Early \cup {"release", "close"}
    \/ main = "select" /\ (signalled \/ errCh # <<>>)
    \/ main = "wait gRPC" /\ (graceful = "stopped" \/ expired)
    \/ main = "wait HTTP" /\ shutdown \in {"stopped", "failed"}
    \/ main = "wait workers" /\ \A w \in Workers : worker[w] = "done"

\* ... of the workers ...
WorkerGoesOn ==
    \/ probe \in {"probing", "reporting"} \/ scanning
    \/ \E w \in Workers : worker[w] \in {"nil", "err"} /\ Len(errCh) < Capacity
    \/ \E w \in Workers : /\ worker[w] = "running" /\ Outcomes(w) # {}
                          /\ w = "HTTP" => shutdown \notin {"serving", "asked"}
                          /\ w = "gRPC" => graceful = "stopped"

\* ... and of the deadline and of the goroutines that stop the two servers.
StopGoesOn ==
    \/ graceful = "asked" \/ shutdown = "asked"
    \/ shutdown = "waiting" /\ expired
    \/ main \in {"wait gRPC", "wait HTTP"} /\ ~expired

\* The process can always take another step to its end that is not a client's.
Exiting == MustStop /\ main # "exited" => MainGoesOn \/ WorkerGoesOn \/ StopGoesOn

LEMMA ProbeType == Spec => [](probe \in {"idle", "probing", "reporting"})
<1> DEFINE I == probe \in {"idle", "probing", "reporting"}
<1>1. Init => I
  BY DEF Init
<1>2. I /\ [Next]_vars => I'
  <2> SUFFICES ASSUME I, [Next]_vars PROVE I'
    OBVIOUS
  <2> USE DEF storage, clients, work, stopping
  <2>1. CASE ProbeTarget \/ ProbeReport \/ ProbeDone
    BY <2>1 DEF ProbeTarget, ProbeReport, ProbeDone
  <2>2. CASE \E w \in Workers : Returns(w) \/ Sends(w)
    BY <2>2 DEF Returns, Sends
  <2>3. CASE Main
    BY <2>3 DEF Main, Load, Open, OpenFails, ListenHTTP, ListenGRPC, StartWorkers, Select,
                WaitGRPC, WaitHTTP, Join, Release, Close
  <2>4. CASE \/ Signal \/ Scan \/ ScanDone \/ StartRPC \/ EndRPC \/ StartRequest \/ EndRequest
             \/ EndOrphan \/ Expire \/ GracefulStop \/ GracefullyStopped \/ Shutdown
             \/ ShutdownReturns \/ UNCHANGED vars
    BY <2>4 DEF Signal, Scan, ScanDone, StartRPC, EndRPC, StartRequest, EndRequest, EndOrphan,
                Expire, GracefulStop, GracefullyStopped, Shutdown, ShutdownReturns, vars
  <2> QED
    BY <2>1, <2>2, <2>3, <2>4 DEF Next
<1> QED
  BY <1>1, <1>2, PTL DEF Spec

\* What ServerExits rests on besides fairness: however many streams agents and browsers
\* keep open, serve never waits for one of them only, nor for a worker that was not told
\* to stop or cannot say that it has.
THEOREM StoppingGoesOn == Spec => []Exiting
<1>1. Inv /\ Results /\ Told /\ RoomForResults /\ probe \in {"idle", "probing", "reporting"} => Exiting
  <2> SUFFICES ASSUME Inv, Results, Told, RoomForResults, MustStop, main # "exited",
                      probe \in {"idle", "probing", "reporting"}
               PROVE  MainGoesOn \/ WorkerGoesOn \/ StopGoesOn
    BY DEF Exiting
  <2>1. CASE main \in Early \cup Late
    BY <2>1 DEF MainGoesOn, Late
  <2>2. CASE main = "select"
    <3>1. CASE signalled
      BY <2>2, <3>1 DEF MainGoesOn
    <3>2. CASE \E w \in Workers : worker[w] \in {"nil", "err"}
      BY <3>2 DEF RoomForResults, WorkerGoesOn
    <3>3. CASE \E w \in Workers : worker[w] = "done"
      <4>1. Sent # 0
        <5>1. \A w : Done(w) \in {0, 1} /\ (worker[w] = "done" => Done(w) = 1)
          BY DEF Done
        <5> DEFINE a == Done("HTTP")
                   b == Done("gRPC")
                   c == Done("probe-worker")
                   d == Done("offline reconciler")
        <5>2. /\ a \in {0, 1} /\ b \in {0, 1} /\ c \in {0, 1} /\ d \in {0, 1}
              /\ a = 1 \/ b = 1 \/ c = 1 \/ d = 1
          BY <3>3, <5>1 DEF Workers
        <5>3. Sent = a + b + c + d
          BY DEF Sent
        <5> HIDE DEF a, b, c, d
        <5> QED
          BY <5>2, <5>3, SMT
      <4>2. Len(errCh) = Sent
        BY <2>2 DEF Results
      <4>3. Len(<<>>) = 0
        BY SMT
      <4>4. errCh # <<>>
        BY <4>1, <4>2, <4>3
      <4> QED
        BY <2>2, <4>4 DEF MainGoesOn
    <3> QED
      BY <3>1, <3>2, <3>3 DEF MustStop
  <2>3. CASE main = "wait gRPC"
    BY <2>3 DEF MainGoesOn, StopGoesOn
  <2>4. CASE main = "wait HTTP"
    <3>1. shutdown \in {"asked", "waiting", "stopped", "failed"}
      BY <2>4 DEF Told, Waits
    <3> QED
      BY <2>4, <3>1 DEF MainGoesOn, StopGoesOn
  <2>5. CASE main = "wait workers"
    <3>1. CASE \A w \in Workers : worker[w] = "done"
      BY <2>5, <3>1 DEF MainGoesOn
    <3>2. ASSUME NEW w \in Workers, worker[w] # "done"
          PROVE  WorkerGoesOn
      <4>1. worker[w] \in {"running", "nil", "err"}
        BY <2>5, <3>2 DEF Told, Waits, Inv, TypeInv
      <4>2. CASE worker[w] \in {"nil", "err"}
        BY <4>2 DEF RoomForResults, WorkerGoesOn
      <4>3. CASE worker[w] = "running" /\ probe = "idle" /\ ~scanning
        <5>1. /\ graceful = "stopped" /\ shutdown \in {"stopped", "failed"} /\ workCtxDone
          BY <2>5 DEF Inv, Stopping, Told, Waits, workCtxDone
        <5>2. "err" \in Outcomes(w) \/ "nil" \in Outcomes(w)
          BY <4>3, <5>1 DEF Outcomes, Workers
        <5> QED
          BY <4>3, <5>1, <5>2 DEF WorkerGoesOn
      <4> QED
        BY <4>1, <4>2, <4>3 DEF WorkerGoesOn
    <3> QED
      BY <3>1, <3>2
  <2> QED
    BY <2>1, <2>2, <2>3, <2>4, <2>5 DEF Inv, TypeInv
<1> QED
  BY <1>1, SpecResults, NoWorkerBlocks, ProbeType, PTL
=============================================================================

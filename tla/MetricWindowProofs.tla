------------------------- MODULE MetricWindowProofs -------------------------
(***************************************************************************)
(* Proofs about MetricWindow, for any keys, any length of the windows and  *)
(* any number of reports and failures.                                     *)
(***************************************************************************)
EXTENDS MetricWindow, TLAPS

\* Every leaf that names no prover goes to Zenon; the arithmetic goes to SMT.
USE ZenonT(90)

Descending(s) == \A i, j \in DOMAIN s : i < j => s[j] < s[i]
Below(s, t) == \A i \in DOMAIN s : s[i] < t

\* LPUSH puts a point that is newer than all others first.
LEMMA Pushed ==
    ASSUME NEW c \in Nat, NEW s \in Seq(1..c), NEW t \in 1..c
    PROVE  LET w == <<t>> \o s
           IN  /\ w \in Seq(1..c)
               /\ w # <<>> /\ w[1] = t
               /\ Len(w) = Len(s) + 1
               /\ Descending(s) /\ Below(s, t) => Descending(w)
<1> DEFINE w == <<t>> \o s
<1>1. w \in Seq(1..c) /\ Len(w) = Len(s) + 1 /\ w[1] = t
  BY SMT
<1>2. \A i \in DOMAIN w : i # 1 => i - 1 \in DOMAIN s /\ w[i] = s[i - 1]
  BY SMT
<1>3. DOMAIN w = 1..(Len(s) + 1) /\ DOMAIN s = 1..Len(s) /\ Len(s) \in Nat
  BY SMT
<1>4. ASSUME Descending(s), Below(s, t) PROVE Descending(w)
  <2>1. SUFFICES ASSUME NEW i \in DOMAIN w, NEW j \in DOMAIN w, i < j PROVE w[j] < w[i]
    BY DEF Descending
  <2>2. j - 1 \in DOMAIN s /\ w[j] = s[j - 1]
    BY <2>1, <1>2, <1>3, SMT
  <2>3. CASE i = 1
    BY <2>2, <2>3, <1>1, <1>4 DEF Below
  <2>4. CASE i # 1
    <3>1. i - 1 \in DOMAIN s /\ w[i] = s[i - 1] /\ i - 1 < j - 1
      BY <2>1, <2>4, <1>2, <1>3, SMT
    <3> QED
      BY <3>1, <2>2, <1>4 DEF Descending
  <2> QED
    BY <2>3, <2>4
<1> QED
  BY <1>1, <1>4, SMT

\* LTRIM keeps the newest points, their order, and the first of them.
LEMMA Trimmed ==
    ASSUME NEW c \in Nat, NEW s \in Seq(1..c), NEW n \in Nat \ {0}
    PROVE  /\ Newest(s, n) \in Seq(1..c)
           /\ Len(Newest(s, n)) <= n
           /\ s # <<>> => Newest(s, n) # <<>> /\ Newest(s, n)[1] = s[1]
           /\ Descending(s) => Descending(Newest(s, n))
<1> DEFINE m == IF Len(s) < n THEN Len(s) ELSE n
<1>1. m \in 0..Len(s) /\ m <= n /\ (Len(s) # 0 => m # 0) /\ Len(s) \in Nat
  BY SMT
<1>2. /\ Newest(s, n) \in Seq(1..c) /\ Len(Newest(s, n)) = m
      /\ \A i \in 1..m : Newest(s, n)[i] = s[i]
  BY <1>1, SMT DEF Newest
<1>3. DOMAIN Newest(s, n) = 1..m /\ 1..m \subseteq DOMAIN s
  BY <1>1, <1>2, SMT
<1>4. s # <<>> => Newest(s, n) # <<>> /\ Newest(s, n)[1] = s[1]
  BY <1>1, <1>2, SMT
<1>5. Descending(s) => Descending(Newest(s, n))
  <2>1. SUFFICES ASSUME Descending(s), NEW i \in 1..m, NEW j \in 1..m, i < j
                 PROVE  Newest(s, n)[j] < Newest(s, n)[i]
    BY <1>3 DEF Descending
  <2>2. Newest(s, n)[i] = s[i] /\ Newest(s, n)[j] = s[j] /\ i \in DOMAIN s /\ j \in DOMAIN s
    BY <1>2, <1>3
  <2> QED
    BY <2>1, <2>2 DEF Descending
<1> QED
  BY <1>1, <1>2, <1>4, <1>5

\* A list that is stored newest first is returned in the order of time.
LEMMA Reversed ==
    ASSUME NEW c \in Nat, NEW s \in Seq(1..c)
    PROVE  /\ Decoded(s) \in Seq(1..c)
           /\ Len(Decoded(s)) = Len(s)
           /\ Descending(s) => Ascending(Decoded(s))
<1>1. DOMAIN s = 1..Len(s) /\ Len(s) \in Nat
  BY SMT
<1>2. \A i \in 1..Len(s) : Len(s) + 1 - i \in 1..Len(s)
  BY <1>1, SMT
<1>3. Decoded(s) \in Seq(1..c) /\ Len(Decoded(s)) = Len(s)
  BY <1>1, <1>2, SMT DEF Decoded
<1>4. \A i, j \in 1..Len(s) : i < j => Len(s) + 1 - j < Len(s) + 1 - i
  BY <1>1, SMT
<1>5. Descending(s) => Ascending(Decoded(s))
  BY <1>1, <1>2, <1>4 DEF Descending, Ascending, Decoded
<1> QED
  BY <1>3, <1>5

-----------------------------------------------------------------------------
(* The inductive invariant                                                 *)

\* Is the last command on list k an LPUSH whose LTRIM is still to come?
Untrimmed(k) == stage = "trim" /\ k = key

\* The handler works on the newest report, and its stage says how far it is: the lists
\* it has still to append to are older than the report, all others begin with it and
\* have been trimmed.
Progress ==
    stage # "idle" =>
      /\ at = clock /\ clock # 0
      /\ \A k \in todo : Below(window[k], at)
      /\ \A k \in Keys \ todo : /\ window[k] # <<>> /\ window[k][1] = at
                                /\ ~Untrimmed(k) => Len(window[k]) <= MaxPoints
      /\ stage = "trim" => key \notin todo
      /\ stage \in {"save", "publish"} => todo = {}
      /\ stage = "publish" => snapshot = at

\* Lists are newest first, and longer than their limit by at most one point for every
\* request that was cut off, and the one that is being appended.
Ordered ==
    \A k \in Keys : /\ Descending(window[k])
                    /\ Len(window[k]) <= MaxPoints + faults + (IF Untrimmed(k) THEN 1 ELSE 0)

Inv == TypeOK /\ Progress /\ Ordered /\ HistoryInOrder /\ DataPrecedesEvent

LEMMA InitInv == Init => Inv
<1> SUFFICES ASSUME Init PROVE Inv
  OBVIOUS
<1> USE DEF Init
<1>a. /\ <<>> \in Seq(1..0) /\ Len(<<>>) = 0
      /\ \A i \in DOMAIN <<>> : FALSE
  BY SMT
<1>b. /\ 0 \in Nat /\ 0 \in 0..0 /\ MaxPoints \in Nat
      /\ 0 <= MaxPoints + 0 + 0 /\ 0 <= MaxPoints + 1 + 0 /\ 0 >= 0
  BY WindowAssumption, SMT
<1>c. \A k \in Keys : window[k] = <<>> /\ history[k] = <<>>
  OBVIOUS
<1>1. TypeOK
  BY <1>a, <1>b DEF TypeOK
<1>2. Progress
  BY DEF Progress
<1>3. Ordered
  <2>1. ASSUME NEW k \in Keys
        PROVE  Len(window[k]) <= MaxPoints + faults + (IF Untrimmed(k) THEN 1 ELSE 0)
    <3>1. faults = 0 /\ Len(window[k]) = 0 /\ (IF Untrimmed(k) THEN 1 ELSE 0) = 0
      BY <1>a, <1>c DEF Untrimmed
    <3> QED
      BY <3>1, <1>b
  <2> QED
    BY <1>a, <1>c, <2>1 DEF Ordered, Descending
<1>4. HistoryInOrder
  BY <1>a, <1>b, <1>c DEF HistoryInOrder, Ascending
<1>5. DataPrecedesEvent
  BY <1>b DEF DataPrecedesEvent
<1> QED
  BY <1>1, <1>2, <1>3, <1>4, <1>5 DEF Inv

\* Every step keeps it.
LEMMA StepInv == Inv /\ [Next]_vars => Inv'
<1> SUFFICES ASSUME Inv, [Next]_vars PROVE Inv'
  OBVIOUS
<1> USE DEF Inv, Goto, work, reader
<1>t. /\ clock \in Nat /\ faults \in Nat /\ MaxPoints \in Nat \ {0} /\ at \in Nat
      /\ \A k \in Keys : /\ window[k] \in Seq(1..clock) /\ Len(window[k]) \in Nat
                         /\ history[k] \in Seq(1..clock) /\ Len(history[k]) \in Nat
  BY WindowAssumption, SMT DEF TypeOK
<1>f. Fault => faults' \in Nat /\ faults' = faults + 1
  BY <1>t, SMT DEF Fault
<1>1. CASE Report
  <2> USE <1>1 DEF Report
  <2>1. clock' \in Nat /\ at' = clock' /\ clock' # 0 /\ 0..clock \subseteq 0..clock' /\ at' \in 0..clock'
        /\ 1..clock \subseteq 1..clock'
    BY <1>t, SMT
  <2>2. \A s \in Seq(1..clock) : s \in Seq(1..clock') /\ Below(s, at')
    BY <1>t, SMT DEF Below
  <2>3. TypeOK'
    BY <2>1, <2>2, <1>t DEF TypeOK
  <2>4. Progress'
    BY <2>1, <2>2, <1>t DEF Progress
  <2>5. Ordered'
    BY DEF Ordered, Untrimmed
  <2> QED
    BY <2>3, <2>4, <2>5 DEF HistoryInOrder, DataPrecedesEvent
<1>2. ASSUME NEW k \in Keys, Push(k) PROVE Inv'
  <2> DEFINE w == <<at>> \o window[k]
  <2> USE <1>2 DEF Push
  <2>1. at \in 1..clock /\ at = clock /\ Below(window[k], at)
    <3>1. at = clock /\ clock # 0 /\ Below(window[k], at)
      BY DEF Progress
    <3> QED
      BY <3>1, <1>t, SMT
  <2>2. /\ w \in Seq(1..clock) /\ w # <<>> /\ w[1] = at
        /\ Len(w) = Len(window[k]) + 1 /\ Descending(w)
    BY <2>1, <1>t, Pushed DEF Ordered
  <2>3. window'[k] = w /\ \A j \in Keys \ {k} : window'[j] = window[j]
    BY DEF TypeOK
  <2> HIDE DEF w
  <2>4. TypeOK'
    BY <2>2 DEF TypeOK, w
  <2>5. Progress'
    <3>1. \A j \in todo' : Below(window'[j], at')
      BY <2>3 DEF Progress, TypeOK
    <3>2. \A j \in Keys \ todo' : /\ window'[j] # <<>> /\ window'[j][1] = at'
                                  /\ ~Untrimmed(j)' => Len(window'[j]) <= MaxPoints
      BY <2>2, <2>3 DEF Progress, Untrimmed
    <3> QED
      BY <3>1, <3>2, <2>1 DEF Progress
  <2>6. Ordered'
    <3>1. ASSUME NEW j \in Keys \ {k}
          PROVE  Len(window'[j]) <= MaxPoints + faults' + (IF Untrimmed(j)' THEN 1 ELSE 0)
      BY <2>3, SMT DEF Ordered, Untrimmed
    <3>2. Len(window'[k]) <= MaxPoints + faults' + (IF Untrimmed(k)' THEN 1 ELSE 0)
      <4>1. Len(window[k]) <= MaxPoints + faults + 0
        BY DEF Ordered, Untrimmed
      <4> QED
        BY <4>1, <2>2, <2>3, <1>t, SMT DEF Untrimmed
    <3> QED
      BY <3>1, <3>2, <2>2, <2>3 DEF Ordered
  <2>7. DataPrecedesEvent'
    <3>1. at >= published
      BY <2>1, <1>t, SMT DEF TypeOK
    <3> QED
      BY <3>1, <2>2, <2>3 DEF DataPrecedesEvent
  <2> QED
    BY <2>4, <2>5, <2>6, <2>7 DEF HistoryInOrder
<1>3. CASE Trim
  <2> DEFINE w == Newest(window[key], MaxPoints)
  <2> USE <1>3 DEF Trim
  <2>k. key \in Keys /\ key \notin todo /\ window[key] # <<>> /\ window[key][1] = at
    BY DEF TypeOK, Progress
  <2>2. /\ w \in Seq(1..clock) /\ w # <<>> /\ w[1] = at
        /\ Len(w) <= MaxPoints /\ Descending(w)
    BY <2>k, <1>t, Trimmed DEF Ordered
  <2>3. window'[key] = w /\ \A j \in Keys \ {key} : window'[j] = window[j]
    BY DEF TypeOK
  <2>s. stage' = (IF todo = {} THEN "save" ELSE "next") /\ stage' \in {"next", "save"}
    OBVIOUS
  <2> HIDE DEF w
  <2>4. TypeOK'
    BY <2>2, <2>s DEF TypeOK, w
  <2>5. Progress'
    <3>1. \A j \in todo' : Below(window'[j], at')
      BY <2>3, <2>k DEF Progress, TypeOK
    <3>2. \A j \in Keys \ todo' : /\ window'[j] # <<>> /\ window'[j][1] = at'
                                  /\ Len(window'[j]) <= MaxPoints
      BY <2>2, <2>3, <2>k DEF Progress, Untrimmed
    <3>3. stage' # "trim" /\ stage' # "publish" /\ (stage' = "save" => todo' = {})
      BY <2>s
    <3> QED
      BY <3>1, <3>2, <3>3 DEF Progress
  <2>6. Ordered'
    <3>0. \A j \in Keys : ~Untrimmed(j)'
      BY <2>s DEF Untrimmed
    <3>1. ASSUME NEW j \in Keys \ {key}
          PROVE  Len(window'[j]) <= MaxPoints + faults' + (IF Untrimmed(j)' THEN 1 ELSE 0)
      BY <2>3, <3>0, SMT DEF Ordered, Untrimmed
    <3>2. Len(window'[key]) <= MaxPoints + faults' + (IF Untrimmed(key)' THEN 1 ELSE 0)
      <4>1. Len(w) \in Nat
        BY <2>2, SMT
      <4> QED
        BY <4>1, <3>0, <2>k, <2>2, <2>3, <1>t, SMT
    <3> QED
      BY <3>1, <3>2, <2>2, <2>3, <2>k DEF Ordered
  <2>7. DataPrecedesEvent'
    BY <2>2, <2>3, <2>k DEF DataPrecedesEvent
  <2> QED
    BY <2>4, <2>5, <2>6, <2>7 DEF HistoryInOrder
<1>4. CASE SaveMetricSnapshot
  <2> USE <1>4 DEF SaveMetricSnapshot
  <2>1. at >= published /\ at \in 0..clock
    <3>1. at = clock /\ published \in 0..clock
      BY DEF Progress, TypeOK
    <3> QED
      BY <3>1, <1>t, SMT
  <2>2. TypeOK'
    BY <2>1 DEF TypeOK
  <2>3. Progress'
    BY DEF Progress, Untrimmed
  <2>4. Ordered'
    BY DEF Ordered, Untrimmed
  <2>5. DataPrecedesEvent'
    BY <2>1 DEF DataPrecedesEvent
  <2> QED
    BY <2>2, <2>3, <2>4, <2>5 DEF HistoryInOrder
<1>5. CASE Publish
  <2> USE <1>5 DEF Publish
  <2>1. /\ snapshot = at /\ at \in Nat /\ at \in 0..clock
        /\ \A k \in Keys : window[k] # <<>> /\ window[k][1] = at
    BY <1>t DEF Progress, TypeOK
  <2>2. at >= at
    BY <2>1, SMT
  <2>3. TypeOK'
    BY <2>1 DEF TypeOK
  <2>4. Ordered' /\ Progress'
    BY DEF Ordered, Untrimmed, Progress
  <2>5. DataPrecedesEvent'
    BY <2>1, <2>2 DEF DataPrecedesEvent
  <2> QED
    BY <2>3, <2>4, <2>5 DEF HistoryInOrder
<1>6. CASE Fail
  <2> USE <1>6 DEF Fail
  <2>1. faults' \in Nat /\ faults' = faults + 1
    BY <1>f
  <2>2. TypeOK'
    BY <2>1 DEF TypeOK
  <2>3. Progress'
    BY DEF Progress
  <2>4. Ordered'
    <3>1. ASSUME NEW k \in Keys
          PROVE  Len(window[k]) <= MaxPoints + faults' + (IF Untrimmed(k)' THEN 1 ELSE 0)
      <4>1. Len(window[k]) <= MaxPoints + faults + (IF Untrimmed(k) THEN 1 ELSE 0)
        BY DEF Ordered
      <4>2. (IF Untrimmed(k) THEN 1 ELSE 0) \in {0, 1} /\ (IF Untrimmed(k)' THEN 1 ELSE 0) = 0
        BY DEF Untrimmed
      <4> DEFINE d == IF Untrimmed(k) THEN 1 ELSE 0
      <4> HIDE DEF d
      <4>3. d \in {0, 1} /\ Len(window[k]) <= MaxPoints + faults + d
        BY <4>1, <4>2 DEF d
      <4>4. Len(window[k]) <= MaxPoints + faults' + 0
        BY <4>3, <2>1, <1>t, SMT
      <4> QED
        BY <4>2, <4>4
    <3> QED
      BY <3>1 DEF Ordered
  <2>5. HistoryInOrder'
    BY <2>1, <1>t, SMT DEF HistoryInOrder
  <2> QED
    BY <2>2, <2>3, <2>4, <2>5 DEF DataPrecedesEvent
<1>7. ASSUME NEW k \in Keys, Expire(k) PROVE Inv'
  <2> USE <1>7 DEF Expire
  <2>1. faults' \in Nat /\ faults' = faults + 1
    BY <1>f
  <2>2. /\ <<>> \in Seq(1..clock) /\ Len(<<>>) = 0 /\ \A i \in DOMAIN <<>> : FALSE
    BY <1>t, SMT
  <2>3. window'[k] = <<>> /\ \A j \in Keys \ {k} : window'[j] = window[j]
    BY DEF TypeOK
  <2>4. TypeOK'
    BY <2>1, <2>2 DEF TypeOK
  <2>5. Ordered'
    <3>1. ASSUME NEW j \in Keys
          PROVE  Len(window'[j]) <= MaxPoints + faults' + (IF Untrimmed(j)' THEN 1 ELSE 0)
      <4>1. Len(window'[j]) <= MaxPoints + faults /\ Len(window'[j]) \in Nat
        BY <2>2, <2>3, <1>t, SMT DEF Ordered, Untrimmed
      <4> QED
        BY <4>1, <2>1, <1>t, SMT
    <3>2. \A j \in Keys : Descending(window'[j])
      BY <2>2, <2>3 DEF Ordered, Descending
    <3> QED
      BY <3>1, <3>2 DEF Ordered
  <2>6. HistoryInOrder'
    BY <2>1, <1>t, SMT DEF HistoryInOrder
  <2> QED
    BY <2>4, <2>5, <2>6 DEF Progress, DataPrecedesEvent
<1>8. CASE ExpireSnapshot
  <2> USE <1>8 DEF ExpireSnapshot
  <2>1. faults' \in Nat /\ faults' = faults + 1 /\ 0 \in 0..clock
    BY <1>f, <1>t, SMT
  <2>2. TypeOK'
    BY <2>1 DEF TypeOK
  <2>3. Ordered'
    <3>1. ASSUME NEW k \in Keys
          PROVE  Len(window[k]) <= MaxPoints + faults' + (IF Untrimmed(k)' THEN 1 ELSE 0)
      <4>1. Len(window[k]) <= MaxPoints + faults + (IF Untrimmed(k) THEN 1 ELSE 0)
        BY DEF Ordered
      <4>2. (IF Untrimmed(k) THEN 1 ELSE 0) \in {0, 1} /\ (IF Untrimmed(k)' THEN 1 ELSE 0) = 0
        BY DEF Untrimmed
      <4> DEFINE d == IF Untrimmed(k) THEN 1 ELSE 0
      <4> HIDE DEF d
      <4>3. d \in {0, 1} /\ Len(window[k]) <= MaxPoints + faults + d
        BY <4>1, <4>2 DEF d
      <4>4. Len(window[k]) <= MaxPoints + faults' + 0
        BY <4>3, <2>1, <1>t, SMT
      <4> QED
        BY <4>2, <4>4
    <3> QED
      BY <3>1 DEF Ordered
  <2>4. HistoryInOrder'
    BY <2>1, <1>t, SMT DEF HistoryInOrder
  <2> QED
    BY <2>2, <2>3, <2>4 DEF Progress, DataPrecedesEvent
<1>9. CASE StartReading
  <2> USE <1>9 DEF StartReading
  <2>1. /\ <<>> \in Seq(1..clock) /\ Len(<<>>) = 0 /\ 0 <= MaxPoints + 1 + faults
        /\ \A i \in DOMAIN <<>> : FALSE
    BY <1>t, SMT
  <2>2. TypeOK'
    BY <2>1 DEF TypeOK
  <2>3. HistoryInOrder'
    BY <2>1 DEF HistoryInOrder, Ascending
  <2> QED
    BY <2>2, <2>3 DEF Progress, Ordered, Untrimmed, DataPrecedesEvent
<1>10. ASSUME NEW k \in Keys, Read(k) PROVE Inv'
  <2> DEFINE r == Decoded(window[k])
  <2> USE <1>10 DEF Read
  <2>1. r \in Seq(1..clock) /\ Len(r) = Len(window[k]) /\ Ascending(r)
    BY <1>t, Reversed DEF Ordered
  <2>2. history'[k] = r /\ \A j \in Keys \ {k} : history'[j] = history[j]
    BY DEF TypeOK
  <2> HIDE DEF r
  <2>3. TypeOK'
    BY <2>1 DEF TypeOK, r
  <2>4. Len(r) <= MaxPoints + 1 + faults
    BY <2>1, <1>t, SMT DEF Ordered
  <2>5. HistoryInOrder'
    BY <2>1, <2>2, <2>4 DEF HistoryInOrder
  <2> QED
    BY <2>3, <2>5 DEF Progress, Ordered, Untrimmed, DataPrecedesEvent
<1>11. CASE UNCHANGED vars
  BY <1>11 DEF vars, TypeOK, Progress, Ordered, Untrimmed, HistoryInOrder, DataPrecedesEvent
<1> QED
  BY <1>1, <1>2, <1>3, <1>4, <1>5, <1>6, <1>7, <1>8, <1>9, <1>10, <1>11 DEF Next

LEMMA SpecInv == Spec => []Inv
  BY InitInv, StepInv, PTL DEF Spec

\* Variables keep their types, and no time in Redis is ahead of the server's clock.
THEOREM Types == Spec => []TypeOK
<1>1. Inv => TypeOK
  BY DEF Inv
<1> QED
  BY <1>1, SpecInv, PTL

\* A reader gets every list in the order of time and within its limit, whenever it reads
\* and wherever earlier requests were cut off (GetHostMetricHistory).
THEOREM OrderedHistory == Spec => []HistoryInOrder
<1>1. Inv => HistoryInOrder
  BY DEF Inv
<1> QED
  BY <1>1, SpecInv, PTL

\* A request that has written its lists has written all of them, trimmed
\* (AppendHeartbeatMetrics).
THEOREM CompleteWindows == Spec => []WindowsComplete
<1>1. Inv => WindowsComplete
  BY DEF Inv, Progress, WindowsComplete, Untrimmed
<1> QED
  BY <1>1, SpecInv, PTL

\* What has been published can be read (processMetricBatch).
THEOREM DataFirst == Spec => []DataPrecedesEvent
<1>1. Inv => DataPrecedesEvent
  BY DEF Inv
<1> QED
  BY <1>1, SpecInv, PTL
=============================================================================

--------------------------- MODULE HostFeedProofs ---------------------------
(***************************************************************************)
(* Proofs about HostFeed, for any hosts, viewers, workers and scopes, and  *)
(* for queues of any length.                                               *)
(***************************************************************************)
EXTENDS HostFeed, TLAPS

\* Every leaf that names no prover goes to Zenon; the arithmetic goes to SMT.
USE ZenonT(90)

-----------------------------------------------------------------------------
(* Queues: x is the last member of T in s; s has no member of T            *)

Final(s, T, x) == \E i \in DOMAIN s : /\ s[i] = x /\ x \in T
                                      /\ \A j \in DOMAIN s : i < j => s[j] \notin T
None(s, T) == \A i \in DOMAIN s : s[i] \notin T

LEMMA Empty ==
    /\ \A S : <<>> \in Seq(S)
    /\ \A i \in DOMAIN <<>> : FALSE
    /\ \A T : None(<<>>, T)
    /\ \A T, x : ~Final(<<>>, T, x)
<1>1. \A i \in DOMAIN <<>> : FALSE
  BY SMT
<1>2. \A S : <<>> \in Seq(S)
  BY SMT
<1> QED
  BY <1>1, <1>2 DEF None, Final

\* A queue to which x is appended, and where its members are.
LEMMA Appended ==
    ASSUME NEW S, NEW s \in Seq(S), NEW x \in S
    PROVE  /\ Append(s, x) \in Seq(S) /\ Append(s, x) # <<>>
           /\ \A i \in DOMAIN Append(s, x) : Append(s, x)[i] = x \/ \E j \in DOMAIN s : Append(s, x)[i] = s[j]
           /\ \E n \in DOMAIN Append(s, x) :
                /\ Append(s, x)[n] = x
                /\ \A i \in DOMAIN s : i \in DOMAIN Append(s, x) /\ i < n /\ Append(s, x)[i] = s[i]
                /\ \A i \in DOMAIN Append(s, x) : i = n \/ i \in DOMAIN s
<1> DEFINE a == Append(s, x)
           n == Len(s) + 1
<1>1. a \in Seq(S) /\ a # <<>> /\ DOMAIN a = 1..n /\ a[n] = x /\ n \in Nat /\ n >= 1
  BY SMT
<1>2. DOMAIN s = 1..(n - 1) /\ \A i \in DOMAIN s : a[i] = s[i]
  BY SMT
<1> HIDE DEF a, n
<1>3. n \in DOMAIN a /\ (\A i \in DOMAIN s : i \in DOMAIN a /\ i < n)
      /\ \A i \in DOMAIN a : i = n \/ i \in DOMAIN s
  BY <1>1, <1>2, SMT
<1>4. \A i \in DOMAIN a : a[i] = x \/ \E j \in DOMAIN s : a[i] = s[j]
  BY <1>1, <1>2, <1>3
<1> QED
  BY <1>1, <1>2, <1>3, <1>4 DEF a

\* What is appended is the last of its kind and leaves other kinds alone.
LEMMA Appending ==
    ASSUME NEW S, NEW s \in Seq(S), NEW x \in S
    PROVE  /\ \A T : x \in T => /\ ~None(Append(s, x), T)
                                /\ \A y : Final(Append(s, x), T, y) => y = x
           /\ \A T : x \notin T => /\ None(Append(s, x), T) => None(s, T)
                                   /\ \A y : Final(Append(s, x), T, y) => Final(s, T, y)
<1> DEFINE a == Append(s, x)
<1>0. PICK n \in DOMAIN a : /\ a[n] = x
                            /\ \A i \in DOMAIN s : i \in DOMAIN a /\ i < n /\ a[i] = s[i]
                            /\ \A i \in DOMAIN a : i = n \/ i \in DOMAIN s
  BY Appended
<1> HIDE DEF a
<1>1. a[n] = x
  BY <1>0
<1>2. \A i \in DOMAIN s : a[i] = s[i]
  BY <1>0
<1>3. n \in DOMAIN a /\ (\A i \in DOMAIN s : i \in DOMAIN a /\ i < n)
      /\ \A i \in DOMAIN a : i = n \/ i \in DOMAIN s
  BY <1>0
<1>5. ASSUME NEW T, x \in T PROVE ~None(a, T) /\ \A y : Final(a, T, y) => y = x
  <2>1. ~None(a, T)
    BY <1>1, <1>3, <1>5 DEF None
  <2>2. ASSUME NEW y, Final(a, T, y) PROVE y = x
    <3>1. PICK i \in DOMAIN a : a[i] = y /\ \A j \in DOMAIN a : i < j => a[j] \notin T
      BY <2>2 DEF Final
    <3>2. i = n
      BY <3>1, <1>1, <1>3, <1>5
    <3> QED
      BY <3>1, <3>2, <1>1
  <2> QED
    BY <2>1, <2>2
<1>6. ASSUME NEW T, x \notin T
      PROVE  (None(a, T) => None(s, T)) /\ \A y : Final(a, T, y) => Final(s, T, y)
  <2>1. None(a, T) => None(s, T)
    BY <1>2, <1>3 DEF None
  <2>2. ASSUME NEW y, Final(a, T, y) PROVE Final(s, T, y)
    <3>1. PICK i \in DOMAIN a : /\ a[i] = y /\ y \in T
                                /\ \A j \in DOMAIN a : i < j => a[j] \notin T
      BY <2>2 DEF Final
    <3>2. i \in DOMAIN s
      BY <3>1, <1>1, <1>3, <1>6
    <3> QED
      BY <3>1, <3>2, <1>2, <1>3 DEF Final
  <2> QED
    BY <2>1, <2>2
<1> QED
  BY <1>5, <1>6 DEF a

\* What is taken from the front is the last of its kind if none follows.
LEMMA Taking ==
    ASSUME NEW S, NEW s \in Seq(S), s # <<>>
    PROVE  /\ Head(s) \in S /\ Tail(s) \in Seq(S)
           /\ \E i \in DOMAIN s : Head(s) = s[i]
           /\ \A i \in DOMAIN Tail(s) : \E j \in DOMAIN s : Tail(s)[i] = s[j]
           /\ \A T, y : Final(Tail(s), T, y) => Final(s, T, y)
           /\ \A T : None(Tail(s), T) /\ Head(s) \in T => Final(s, T, Head(s))
           /\ \A T : None(Tail(s), T) /\ Head(s) \notin T => None(s, T)
<1> DEFINE t == Tail(s)
           n == Len(s)
<1>1. /\ t \in Seq(S) /\ Head(s) \in S /\ Head(s) = s[1] /\ n \in Nat /\ n >= 1
      /\ DOMAIN s = 1..n /\ DOMAIN t = 1..(n - 1)
  BY SMT
<1>2. \A i \in 1..(n - 1) : t[i] = s[i + 1]
  BY SMT
<1> HIDE DEF t, n
<1>3. /\ 1 \in DOMAIN s
      /\ \A i \in DOMAIN t : i + 1 \in DOMAIN s /\ t[i] = s[i + 1]
      /\ \A i \in DOMAIN s : 1 < i => i - 1 \in DOMAIN t /\ t[i - 1] = s[i]
      /\ \A i \in DOMAIN s : i = 1 \/ 1 < i
  BY <1>1, <1>2, SMT
<1>4. \A i \in DOMAIN t, j \in DOMAIN s : i + 1 < j => 1 < j /\ i < j - 1
  BY <1>1, SMT
<1>5. ASSUME NEW T, NEW y, Final(t, T, y) PROVE Final(s, T, y)
  <2>1. PICK i \in DOMAIN t : /\ t[i] = y /\ y \in T
                              /\ \A j \in DOMAIN t : i < j => t[j] \notin T
    BY <1>5 DEF Final
  <2>2. s[i + 1] = y /\ i + 1 \in DOMAIN s
    BY <2>1, <1>3
  <2>3. ASSUME NEW j \in DOMAIN s, i + 1 < j PROVE s[j] \notin T
    <3>1. j - 1 \in DOMAIN t /\ t[j - 1] = s[j] /\ i < j - 1
      BY <2>3, <1>3, <1>4
    <3> QED
      BY <3>1, <2>1
  <2> QED
    BY <2>1, <2>2, <2>3 DEF Final
<1>6. ASSUME NEW T, None(t, T) PROVE \A j \in DOMAIN s : 1 < j => s[j] \notin T
  <2>1. ASSUME NEW j \in DOMAIN s, 1 < j PROVE s[j] \notin T
    <3>1. j - 1 \in DOMAIN t /\ t[j - 1] = s[j]
      BY <2>1, <1>3
    <3> QED
      BY <3>1, <1>6 DEF None
  <2> QED
    BY <2>1
<1>7. ASSUME NEW T, None(t, T), Head(s) \in T PROVE Final(s, T, Head(s))
  BY <1>7, <1>6, <1>1, <1>3 DEF Final
<1>8. ASSUME NEW T, None(t, T), Head(s) \notin T PROVE None(s, T)
  BY <1>8, <1>6, <1>1, <1>3 DEF None
<1> QED
  BY <1>1, <1>3, <1>5, <1>7, <1>8 DEF t

-----------------------------------------------------------------------------
(* The inductive invariant                                                 *)

\* Events that are in flight name a host and a change.
RealEvents == [host : Hosts, change : Nat \ {0}]

\* What is in flight in each stage of a request, a pass and a stream.
InFlight ==
    /\ \A w \in Workers : job[w] \in RealEvents \cup {NoEvent}
    /\ offline \subseteq RealEvents
    /\ inbox \in [Viewers -> Seq(RealEvents)]
    /\ \A v \in Viewers :
         /\ ~Subscribed(v) => inbox[v] = <<>>
         /\ stream[v] = "write" => event[v] \in RealEvents /\ event[v].host \in Scope[v]
         /\ stream[v] \in {"idle", "list", "subscribe", "recheck", "sync"} => wire[v] = <<>>

\* A message is written only by a handler that found its viewer entitled since the last.
Rechecked ==
    \A v \in Viewers : /\ granted[v] \/ stream[v] \in {"sync", "write"} => late[v] = 0
                       /\ late[v] <= 1

About(h) == {e \in RealEvents : e.host = h}
On(h) == {m \in Messages : m.full \/ m.state[h] # 0}

\* The last that Redis has delivered on a host is the last one in the handler's inbox;
\* if that has none, the one in its hands; if that is of another host, the last one on
\* the wire; and if there is none, it is shown.
Traced(v, h) ==
    /\ \A e \in RealEvents : Final(inbox[v], About(h), e) => due[v][h] = e.change
    /\ None(inbox[v], About(h)) =>
         /\ stream[v] \in {"subscribe", "recheck", "sync"} => listed[v][h] = due[v][h]
         /\ stream[v] = "write" /\ event[v].host = h => due[v][h] = event[v].change
         /\ stream[v] = "open" \/ (stream[v] = "write" /\ event[v].host # h) =>
              /\ \A m \in Messages : Final(wire[v], On(h), m) => m.state[h] = due[v][h]
              /\ None(wire[v], On(h)) /\ ~overtaken[v] => view[v][h] = due[v][h]

Tracing == \A v \in Viewers : \A h \in Scope[v] : Traced(v, h)

Inv == TypeOK /\ InFlight /\ Rechecked /\ Tracing

LEMMA InitInv == Init => Inv
<1> SUFFICES ASSUME Init PROVE Inv
  OBVIOUS
<1> USE DEF Init
<1>0. 0 \in Nat /\ 0 <= 1
  BY SMT
<1>1. TypeOK
  <2>1. Nothing \in States /\ NoEvent \in Events
    BY <1>0 DEF States, Nothing, Events, NoEvent
  <2>2. \A v \in Viewers : wire[v] = <<>> /\ \A h \in Hosts :
          listed[v][h] = 0 /\ view[v][h] = 0 /\ answer[v][h] = 0 /\ due[v][h] = 0
    BY DEF Nothing
  <2> QED
    BY <1>0, <2>1, <2>2, Empty DEF TypeOK
<1>2. InFlight
  BY Empty DEF InFlight, Subscribed
<1>3. Rechecked
  BY <1>0 DEF Rechecked
<1>4. Tracing
  BY Empty DEF Tracing, Traced
<1> QED
  BY <1>1, <1>2, <1>3, <1>4 DEF Inv

-----------------------------------------------------------------------------
(* Types and scopes                                                        *)

LEMMA Values ==
    /\ RealEvents \subseteq Events /\ NoEvent \in Events /\ NoEvent \notin RealEvents
    /\ Nothing \in States /\ \A h \in Hosts : Nothing[h] = 0
    /\ 0 \in Nat
<1>1. 0 \in Nat /\ Hosts \subseteq Nat \ {0} /\ 0 \notin Nat \ {0}
  BY HostsAssumption, SMT
<1>2. NoEvent.host = 0 /\ \A e \in RealEvents : e.host \in Hosts
  BY DEF NoEvent, RealEvents
<1> QED
  BY <1>1, <1>2 DEF RealEvents, Events, NoEvent, Nothing, States

\* A list of hosts has only those in scope.
LEMMA Listing ==
    ASSUME TypeOK, NEW v \in Viewers
    PROVE  /\ Visible(v) \in States
           /\ \A h \in Hosts : h \notin Scope[v] => Visible(v)[h] = 0
           /\ Scope[v] \subseteq Hosts
  BY Values, ScopeAssumption DEF Visible, TypeOK, States

\* An event reaches the inboxes of subscribers, and is due to those whose scope it is in.
LEMMA Delivering ==
    ASSUME TypeOK, InFlight, NEW e \in RealEvents, NEW lost, Deliver(e, lost)
    PROVE  /\ inbox' \in [Viewers -> Seq(Events)] /\ inbox' \in [Viewers -> Seq(RealEvents)]
           /\ due' \in [Viewers -> States] /\ faults' \in Nat
           /\ \A v \in Viewers : /\ ~Subscribed(v) => inbox'[v] = inbox[v]
                                 /\ \A h \in Hosts : h \notin Scope[v] => due'[v][h] = due[v][h]
                                 /\ \/ inbox'[v] = inbox[v] /\ due'[v] = due[v]
                                    \/ /\ inbox'[v] = Append(inbox[v], e)
                                       /\ \A h \in Hosts :
                                            due'[v][h] = IF h = e.host /\ h \in Scope[v]
                                                         THEN e.change ELSE due[v][h]
<1> USE DEF Deliver
<1>1. faults' \in Nat
  BY SMT DEF TypeOK, Fault
<1>2. e \in Events /\ e.host \in Hosts /\ e.change \in Nat
  BY Values DEF RealEvents
<1>3. inbox' \in [Viewers -> Seq(Events)] /\ inbox' \in [Viewers -> Seq(RealEvents)]
  BY <1>2, Appended DEF TypeOK, InFlight
<1>4. due' \in [Viewers -> States]
  BY <1>2 DEF TypeOK, States
<1>5. ASSUME NEW v \in Viewers
      PROVE  \/ inbox'[v] = inbox[v] /\ due'[v] = due[v]
             \/ /\ inbox'[v] = Append(inbox[v], e)
                /\ \A h \in Hosts : due'[v][h] = IF h = e.host /\ h \in Scope[v]
                                                 THEN e.change ELSE due[v][h]
  <2>1. due[v] \in [Hosts -> Nat]
    BY DEF TypeOK, States
  <2>2. inbox'[v] = (IF Subscribed(v) /\ v \notin lost THEN Append(inbox[v], e) ELSE inbox[v])
        /\ due'[v] = IF Subscribed(v) /\ v \notin lost /\ e.host \in Scope[v]
                     THEN [due[v] EXCEPT ![e.host] = e.change] ELSE due[v]
    OBVIOUS
  <2>3. CASE Subscribed(v) /\ v \notin lost /\ e.host \in Scope[v]
    <3>1. due'[v] = [due[v] EXCEPT ![e.host] = e.change]
      BY <2>2, <2>3
    <3> QED
      BY <2>1, <2>2, <2>3, <3>1, <1>2
  <2>4. CASE Subscribed(v) /\ v \notin lost /\ e.host \notin Scope[v]
    BY <2>2, <2>4
  <2>5. CASE ~(Subscribed(v) /\ v \notin lost)
    BY <2>2, <2>5
  <2> QED
    BY <2>3, <2>4, <2>5
<1>6. \A v \in Viewers : ~Subscribed(v) => inbox'[v] = inbox[v]
  OBVIOUS
<1>7. ASSUME NEW v \in Viewers, NEW h \in Hosts, h \notin Scope[v] PROVE due'[v][h] = due[v][h]
  <2>1. CASE due'[v] = due[v]
    BY <2>1
  <2>2. CASE due'[v][h] = IF h = e.host /\ h \in Scope[v] THEN e.change ELSE due[v][h]
    BY <2>2, <1>7
  <2> QED
    BY <2>1, <2>2, <1>5
<1> QED
  BY <1>1, <1>3, <1>4, <1>5, <1>6, <1>7

\* The part of TypeOK that is about scopes.
InScope ==
    \A v \in Viewers, h \in Hosts : h \notin Scope[v] =>
      /\ listed[v][h] = 0 /\ view[v][h] = 0 /\ answer[v][h] = 0 /\ due[v][h] = 0
      /\ \A i \in DOMAIN wire[v] : wire[v][i].state[h] = 0

\* A handler that returns leaves nothing behind, and other handlers alone.
LEMMA Ending ==
    ASSUME TypeOK, InFlight, NEW v \in Viewers, NEW s \in {"ended", "dead"}, End(v, s)
    PROVE  /\ stream' \in [Viewers -> {"idle", "list", "subscribe", "recheck", "sync",
                                      "open", "write", "ended", "dead"}]
           /\ listed' \in [Viewers -> States] /\ event' \in [Viewers -> Events]
           /\ inbox' \in [Viewers -> Seq(Events)] /\ inbox' \in [Viewers -> Seq(RealEvents)]
           /\ stream'[v] = s /\ listed'[v] = Nothing /\ inbox'[v] = <<>>
           /\ \A u \in Viewers \ {v} : /\ stream'[u] = stream[u] /\ listed'[u] = listed[u]
                                       /\ inbox'[u] = inbox[u] /\ event'[u] = event[u]
           /\ \A u \in Viewers, h \in Hosts : h \notin Scope[u] => listed'[u][h] = 0
<1> USE DEF End, At
<1>1. /\ stream'[v] = s /\ listed'[v] = Nothing /\ inbox'[v] = <<>>
      /\ \A u \in Viewers \ {v} : /\ stream'[u] = stream[u] /\ listed'[u] = listed[u]
                                  /\ inbox'[u] = inbox[u] /\ event'[u] = event[u]
  BY DEF TypeOK
<1>2. ASSUME NEW u \in Viewers, NEW h \in Hosts, h \notin Scope[u] PROVE listed'[u][h] = 0
  BY <1>1, <1>2, Values DEF TypeOK
<1>3. inbox' \in [Viewers -> Seq(Events)] /\ inbox' \in [Viewers -> Seq(RealEvents)]
  BY Empty DEF TypeOK, InFlight
<1>4. /\ stream' \in [Viewers -> {"idle", "list", "subscribe", "recheck", "sync",
                                  "open", "write", "ended", "dead"}]
      /\ listed' \in [Viewers -> States] /\ event' \in [Viewers -> Events]
  BY Values DEF TypeOK
<1> QED
  BY <1>1, <1>2, <1>3, <1>4

\* Every step keeps the types, the scopes and what is in flight.
LEMMA TypeStep == TypeOK /\ InFlight /\ [Next]_vars => TypeOK' /\ InFlight'
<1> SUFFICES ASSUME TypeOK, InFlight, [Next]_vars PROVE TypeOK' /\ InFlight'
  OBVIOUS
<1> USE DEF At, store, ingest, server, page, bounds
<1>f. Fault => faults' \in Nat
  BY SMT DEF TypeOK, Fault
<1>c. changes \in Nat /\ changes + 1 \in Nat \ {0} /\ passes + 1 \in Nat
  BY SMT DEF TypeOK
<1>s. InScope
  BY DEF TypeOK, InScope
<1>1. ASSUME NEW w \in Workers, NEW h \in Hosts, Commit(w, h) PROVE TypeOK' /\ InFlight'
  <2> USE <1>1 DEF Commit
  <2>1. [host |-> h, change |-> changes + 1] \in RealEvents
    BY <1>c DEF RealEvents
  <2>2. TypeOK'
    <3>1. committed' \in States /\ job' \in [Workers -> Events]
      BY <1>c, <2>1, Values DEF TypeOK, States
    <3> QED
      BY <1>c, <3>1 DEF TypeOK
  <2>3. InFlight'
    BY <2>1 DEF InFlight, TypeOK, Subscribed
  <2> QED
    BY <2>2, <2>3
<1>2. ASSUME NEW w \in Workers, NEW lost, Publish(w, lost) PROVE TypeOK' /\ InFlight'
  <2>1. job[w] \in RealEvents /\ Deliver(job[w], lost)
    BY <1>2 DEF Publish, InFlight
  <2>2. /\ inbox' \in [Viewers -> Seq(Events)] /\ inbox' \in [Viewers -> Seq(RealEvents)]
        /\ due' \in [Viewers -> States] /\ faults' \in Nat
        /\ \A v \in Viewers : /\ ~Subscribed(v) => inbox'[v] = inbox[v]
                              /\ \A h \in Hosts : h \notin Scope[v] => due'[v][h] = due[v][h]
    BY <2>1, Delivering
  <2>s. ASSUME NEW v \in Viewers, NEW h \in Hosts, h \notin Scope[v] PROVE due'[v][h] = 0
    <3>1. due'[v][h] = due[v][h] /\ due[v][h] = 0
      BY <2>s, <2>2, <1>s DEF InScope
    <3> QED
      BY <3>1
  <2> USE <1>2 DEF Publish
  <2>3. TypeOK'
    <3>1. InScope'
      <4>1. UNCHANGED <<listed, view, answer, wire>>
        OBVIOUS
      <4> QED
        BY <4>1, <2>s, <1>s, SMT DEF InScope
    <3>2. job' \in [Workers -> Events]
      BY Values DEF TypeOK
    <3> QED
      BY <2>2, <3>1, <3>2 DEF TypeOK, InScope
  <2>4. InFlight'
    BY <2>2 DEF InFlight, Subscribed, TypeOK
  <2> QED
    BY <2>3, <2>4
<1>3. ASSUME NEW e \in offline, NEW lost, PublishOffline(e, lost) PROVE TypeOK' /\ InFlight'
  <2>1. e \in RealEvents /\ Deliver(e, lost)
    BY <1>3 DEF PublishOffline, InFlight
  <2>2. /\ inbox' \in [Viewers -> Seq(Events)] /\ inbox' \in [Viewers -> Seq(RealEvents)]
        /\ due' \in [Viewers -> States] /\ faults' \in Nat
        /\ \A v \in Viewers : /\ ~Subscribed(v) => inbox'[v] = inbox[v]
                              /\ \A h \in Hosts : h \notin Scope[v] => due'[v][h] = due[v][h]
    BY <2>1, Delivering
  <2>s. ASSUME NEW v \in Viewers, NEW h \in Hosts, h \notin Scope[v] PROVE due'[v][h] = 0
    <3>1. due'[v][h] = due[v][h] /\ due[v][h] = 0
      BY <2>s, <2>2, <1>s DEF InScope
    <3> QED
      BY <3>1
  <2> USE <1>3 DEF PublishOffline
  <2>3. TypeOK'
    <3>1. InScope'
      <4>1. UNCHANGED <<listed, view, answer, wire>>
        OBVIOUS
      <4> QED
        BY <4>1, <2>s, <1>s, SMT DEF InScope
    <3> QED
      BY <2>2, <3>1 DEF TypeOK, InScope
  <2>4. InFlight'
    BY <2>2 DEF InFlight, Subscribed
  <2> QED
    BY <2>3, <2>4
<1>4. ASSUME NEW w \in Workers, FailRequest(w) PROVE TypeOK' /\ InFlight'
  BY <1>4, <1>f, Values DEF FailRequest, TypeOK, InFlight, Subscribed
<1>5. ASSUME NEW S \in SUBSET Hosts, Reconcile(S) PROVE TypeOK' /\ InFlight'
  <2> USE <1>5 DEF Reconcile
  <2>1. offline' \subseteq RealEvents /\ offline' \subseteq Events
    <3>1. \A h \in S : [host |-> h, change |-> changes + 1] \in RealEvents
      BY <1>c DEF RealEvents
    <3> QED
      BY <3>1, Values
  <2>2. committed' \in States /\ online' \subseteq Hosts
    BY <1>c DEF TypeOK, States
  <2>3. TypeOK'
    BY <2>1, <2>2, <1>c DEF TypeOK
  <2>4. InFlight'
    BY <2>1 DEF InFlight, Subscribed
  <2> QED
    BY <2>3, <2>4
<1>6. CASE FailReconcile
  BY <1>6, <1>f DEF FailReconcile, TypeOK, InFlight, Subscribed
<1>7. ASSUME NEW v \in Viewers, Open(v) PROVE TypeOK' /\ InFlight'
  BY <1>7 DEF Open, TypeOK, InFlight, Subscribed
<1>8. ASSUME NEW v \in Viewers, ReadHosts(v) PROVE TypeOK' /\ InFlight'
  <2> USE <1>8 DEF ReadHosts
  <2>1. InScope'
    <3>1. \A u \in Viewers, h \in Hosts : h \notin Scope[u] => listed'[u][h] = 0 /\ due'[u][h] = 0
      BY Listing DEF TypeOK
    <3>2. UNCHANGED <<view, answer, wire>>
      OBVIOUS
    <3> QED
      BY <3>1, <3>2, <1>s, SMT DEF InScope
  <2>2. listed' \in [Viewers -> States] /\ due' \in [Viewers -> States]
    BY Listing DEF TypeOK
  <2>3. TypeOK'
    BY <2>1, <2>2, SMT DEF TypeOK, InScope
  <2>4. InFlight'
    BY DEF TypeOK, InFlight, Subscribed
  <2> QED
    BY <2>3, <2>4
<1>9. ASSUME NEW v \in Viewers, Subscribe(v) PROVE TypeOK' /\ InFlight'
  <2> USE <1>9 DEF Subscribe
  <2>1. inbox' \in [Viewers -> Seq(Events)] /\ inbox' \in [Viewers -> Seq(RealEvents)]
    BY Empty DEF TypeOK, InFlight
  <2>2. TypeOK'
    BY <2>1, SMT DEF TypeOK
  <2>3. InFlight'
    BY <2>1 DEF TypeOK, InFlight, Subscribed
  <2> QED
    BY <2>2, <2>3
<1>e. ASSUME NEW v \in Viewers, NEW s \in {"ended", "dead"}, End(v, s),
             UNCHANGED <<store, ingest, granted, page, due, late, passes>>, faults' \in Nat,
             wire' = wire \/ wire' = [wire EXCEPT ![v] = <<>>]
      PROVE  TypeOK' /\ InFlight'
  <2>1. /\ stream' \in [Viewers -> {"idle", "list", "subscribe", "recheck", "sync",
                                      "open", "write", "ended", "dead"}]
        /\ listed' \in [Viewers -> States] /\ event' \in [Viewers -> Events]
        /\ inbox' \in [Viewers -> Seq(Events)] /\ inbox' \in [Viewers -> Seq(RealEvents)]
        /\ stream'[v] = s /\ inbox'[v] = <<>>
        /\ \A u \in Viewers \ {v} : /\ stream'[u] = stream[u]
                                    /\ inbox'[u] = inbox[u] /\ event'[u] = event[u]
        /\ \A u \in Viewers, h \in Hosts : h \notin Scope[u] => listed'[u][h] = 0
    BY <1>e, Ending
  <2>2. wire' \in [Viewers -> Seq(Messages)] /\ \A u \in Viewers : wire'[u] = wire[u] \/ wire'[u] = <<>>
    <3>1. wire \in [Viewers -> Seq(Messages)] /\ <<>> \in Seq(Messages)
      BY Empty DEF TypeOK
    <3>2. CASE wire' = wire
      BY <3>1, <3>2
    <3>3. CASE wire' = [wire EXCEPT ![v] = <<>>]
      BY <3>1, <3>3
    <3> QED
      BY <3>2, <3>3, <1>e
  <2>3. \A u \in Viewers \ {v} : wire'[u] = wire[u]
    BY <1>e DEF TypeOK
  <2>4. InScope'
    <3>1. UNCHANGED <<view, answer, due>>
      BY <1>e
    <3>2. ASSUME NEW u \in Viewers, NEW h \in Hosts, h \notin Scope[u], NEW i \in DOMAIN wire'[u]
          PROVE  wire'[u][i].state[h] = 0
      BY <3>2, <2>2, <1>s, Empty, SMT DEF InScope
    <3> QED
      BY <2>1, <3>1, <3>2, <1>s DEF InScope
  <2>5. TypeOK'
    BY <1>e, <2>1, <2>2, <2>4 DEF TypeOK, InScope
  <2>6. InFlight'
    <3>1. job' = job /\ offline' = offline
      BY <1>e
    <3> QED
      BY <2>1, <2>3, <3>1 DEF InFlight, Subscribed
  <2> QED
    BY <2>5, <2>6
<1>n. faults \in Nat
  BY DEF TypeOK
<1>10. ASSUME NEW v \in Viewers, FirstRecheck(v) PROVE TypeOK' /\ InFlight'
  <2> USE <1>10 DEF FirstRecheck
  <2>1. CASE granted[v]
    <3>1. stream' = [stream EXCEPT ![v] = "sync"] /\ UNCHANGED <<listed, inbox, event>>
      BY <2>1
    <3>2. TypeOK'
      BY <3>1 DEF TypeOK
    <3>3. InFlight'
      BY <3>1 DEF TypeOK, InFlight, Subscribed
    <3> QED
      BY <3>2, <3>3
  <2>2. CASE ~granted[v]
    BY <2>2, <1>e, <1>n
  <2> QED
    BY <2>1, <2>2
<1>11. ASSUME NEW v \in Viewers, OpenFails(v) PROVE TypeOK' /\ InFlight'
  BY <1>11, <1>e, <1>f DEF OpenFails
<1>12. ASSUME NEW v \in Viewers, RecheckTimer(v) PROVE TypeOK' /\ InFlight'
  BY <1>12, <1>e, <1>n DEF RecheckTimer
<1>13. ASSUME NEW v \in Viewers, Break(v) PROVE TypeOK' /\ InFlight'
  BY <1>13, <1>e, <1>f DEF Break
<1>14. ASSUME NEW v \in Viewers, Revoke(v) PROVE TypeOK' /\ InFlight'
  BY <1>14 DEF Revoke, TypeOK, InFlight, Subscribed
<1>15. ASSUME NEW v \in Viewers, Reconnect(v) PROVE TypeOK' /\ InFlight'
  BY <1>15 DEF Reconnect, TypeOK, InFlight, Subscribed
<1>16. ASSUME NEW v \in Viewers, Refresh(v) PROVE TypeOK' /\ InFlight'
  BY <1>16 DEF Refresh, TypeOK, InFlight, Subscribed
<1>17. ASSUME NEW v \in Viewers, Take(v) PROVE TypeOK' /\ InFlight'
  <2> DEFINE e == Head(inbox[v])
  <2>1. e \in RealEvents /\ Tail(inbox[v]) \in Seq(RealEvents) /\ Tail(inbox[v]) \in Seq(Events)
    <3>1. inbox[v] \in Seq(RealEvents) /\ inbox[v] \in Seq(Events) /\ inbox[v] # <<>>
      BY <1>17 DEF Take, InFlight, TypeOK
    <3> QED
      BY <3>1, Taking
  <2>2. CASE granted[v]
    <3>1. /\ stream' = [stream EXCEPT ![v] = IF e.host \in Scope[v] THEN "write" ELSE "open"]
          /\ event' = [event EXCEPT ![v] = IF e.host \in Scope[v] THEN e ELSE NoEvent]
          /\ inbox' = [inbox EXCEPT ![v] = Tail(inbox[v])]
          /\ UNCHANGED <<store, ingest, listed, granted, wire, page, due, late, bounds>>
          /\ stream[v] = "open"
      BY <1>17, <2>2 DEF Take
    <3> HIDE DEF e
    <3>2. inbox' \in [Viewers -> Seq(Events)] /\ inbox' \in [Viewers -> Seq(RealEvents)]
      BY <3>1, <2>1 DEF TypeOK, InFlight
    <3>3. event' \in [Viewers -> Events]
      BY <3>1, <2>1, Values DEF TypeOK
    <3>4. TypeOK'
      BY <3>1, <3>2, <3>3, SMT DEF TypeOK
    <3>5. InFlight'
      BY <3>1, <3>2, <2>1 DEF InFlight, Subscribed, TypeOK
    <3> QED
      BY <3>4, <3>5
  <2>3. CASE ~granted[v]
    <3>1. End(v, "ended") /\ UNCHANGED <<store, ingest, granted, wire, page, due, late, bounds>>
      BY <1>17, <2>3 DEF Take
    <3> QED
      BY <3>1, <1>e, <1>n
  <2> QED
    BY <2>2, <2>3
<1>w. ASSUME NEW v \in Viewers, NEW m \in Messages,
             \A h \in Hosts : h \notin Scope[v] => m.state[h] = 0,
             wire' = [wire EXCEPT ![v] = Append(wire[v], m)]
      PROVE  /\ wire' \in [Viewers -> Seq(Messages)]
             /\ \A u \in Viewers, h \in Hosts : h \notin Scope[u] =>
                  \A i \in DOMAIN wire'[u] : wire'[u][i].state[h] = 0
  <2>1. wire \in [Viewers -> Seq(Messages)] /\ wire[v] \in Seq(Messages)
    BY DEF TypeOK
  <2>2. Append(wire[v], m) \in Seq(Messages)
    BY <2>1, SMT
  <2>a. \A i \in DOMAIN Append(wire[v], m) :
          Append(wire[v], m)[i] = m \/ \E j \in DOMAIN wire[v] : Append(wire[v], m)[i] = wire[v][j]
    BY <2>1, SMT
  <2>3. ASSUME NEW u \in Viewers, NEW h \in Hosts, h \notin Scope[u], NEW i \in DOMAIN wire'[u]
        PROVE  wire'[u][i].state[h] = 0
    <3>1. CASE u = v
      <4>1. wire'[u] = Append(wire[v], m)
        BY <3>1, <1>w, <2>1
      <4>2. wire'[u][i] = m \/ \E j \in DOMAIN wire[v] : wire'[u][i] = wire[v][j]
        BY <4>1, <2>a, <2>3
      <4>3. CASE wire'[u][i] = m
        BY <4>3, <3>1, <2>3, <1>w
      <4>4. ASSUME NEW j \in DOMAIN wire[v], wire'[u][i] = wire[v][j] PROVE wire'[u][i].state[h] = 0
        BY <4>4, <3>1, <2>3, <1>s DEF InScope
      <4> QED
        BY <4>2, <4>3, <4>4
    <3>2. CASE u # v
      <4>1. wire'[u] = wire[u]
        BY <3>2, <1>w, <2>1
      <4> QED
        BY <4>1, <2>3, <1>s DEF InScope
    <3> QED
      BY <3>1, <3>2
  <2> QED
    BY <1>w, <2>1, <2>2, <2>3
<1>l. late \in [Viewers -> Nat] /\ \A v \in Viewers : (IF granted[v] THEN 0 ELSE late[v] + 1) \in Nat
  BY SMT DEF TypeOK
<1>18. ASSUME NEW v \in Viewers, WriteSync(v) PROVE TypeOK' /\ InFlight'
  <2> DEFINE m == [full |-> TRUE, state |-> listed[v]]
  <2>1. m \in Messages /\ \A h \in Hosts : h \notin Scope[v] => m.state[h] = 0
    BY <1>s DEF TypeOK, Messages, InScope
  <2>2. /\ wire' = [wire EXCEPT ![v] = Append(wire[v], m)]
        /\ late' = [late EXCEPT ![v] = IF granted[v] THEN 0 ELSE late[v] + 1]
        /\ stream' = [stream EXCEPT ![v] = "open"] /\ stream[v] = "sync"
        /\ listed' = [listed EXCEPT ![v] = Nothing]
        /\ UNCHANGED <<store, ingest, inbox, event, granted, page, due, bounds>>
    BY <1>18 DEF WriteSync, Write
  <2> HIDE DEF m
  <2>3. /\ wire' \in [Viewers -> Seq(Messages)]
        /\ \A u \in Viewers, h \in Hosts : h \notin Scope[u] =>
             \A i \in DOMAIN wire'[u] : wire'[u][i].state[h] = 0
    BY <2>1, <2>2, <1>w
  <2>4. /\ listed' \in [Viewers -> States]
        /\ \A u \in Viewers, h \in Hosts : h \notin Scope[u] => listed'[u][h] = 0
    BY <2>2, <1>s, Values DEF TypeOK, InScope
  <2>5. InScope'
    BY <2>2, <2>3, <2>4, <1>s, SMT DEF InScope
  <2>6. late' \in [Viewers -> Nat]
    BY <2>2, <1>l
  <2>7. TypeOK'
    BY <2>2, <2>3, <2>4, <2>5, <2>6, SMT DEF TypeOK, InScope
  <2>8. InFlight'
    BY <2>2 DEF TypeOK, InFlight, Subscribed
  <2> QED
    BY <2>7, <2>8
<1>19. ASSUME NEW v \in Viewers, WriteEvent(v) PROVE TypeOK' /\ InFlight'
  <2> DEFINE m == [full |-> FALSE, state |-> [Nothing EXCEPT ![event[v].host] = event[v].change]]
  <2>1. m \in Messages /\ \A h \in Hosts : h \notin Scope[v] => m.state[h] = 0
    <3>1. event[v].host \in Scope[v] /\ event[v].host \in Hosts /\ event[v].change \in Nat
      BY <1>19 DEF WriteEvent, InFlight, RealEvents
    <3> QED
      BY <3>1, Values DEF Messages, States
  <2>2. /\ wire' = [wire EXCEPT ![v] = Append(wire[v], m)]
        /\ late' = [late EXCEPT ![v] = IF granted[v] THEN 0 ELSE late[v] + 1]
        /\ stream' = [stream EXCEPT ![v] = "open"] /\ stream[v] = "write"
        /\ event' = [event EXCEPT ![v] = NoEvent]
        /\ UNCHANGED <<store, ingest, listed, inbox, granted, page, due, bounds>>
    BY <1>19 DEF WriteEvent, Write
  <2> HIDE DEF m
  <2>3. /\ wire' \in [Viewers -> Seq(Messages)]
        /\ \A u \in Viewers, h \in Hosts : h \notin Scope[u] =>
             \A i \in DOMAIN wire'[u] : wire'[u][i].state[h] = 0
    BY <2>1, <2>2, <1>w
  <2>5. InScope'
    BY <2>2, <2>3, <1>s, SMT DEF InScope
  <2>6. late' \in [Viewers -> Nat] /\ event' \in [Viewers -> Events]
    BY <2>2, <1>l, Values DEF TypeOK
  <2>7. TypeOK'
    BY <2>2, <2>3, <2>5, <2>6, SMT DEF TypeOK, InScope
  <2>8. InFlight'
    BY <2>2 DEF TypeOK, InFlight, Subscribed
  <2> QED
    BY <2>7, <2>8
<1>20. ASSUME NEW v \in Viewers, Receive(v) PROVE TypeOK' /\ InFlight'
  <2> DEFINE m == Head(wire[v])
             new == Applied(view[v], m)
  <2>1. /\ wire' = [wire EXCEPT ![v] = Tail(wire[v])] /\ wire[v] # <<>>
        /\ view' = [view EXCEPT ![v] = new]
        /\ overtaken' = [overtaken EXCEPT ![v] = overtaken[v] /\ ~m.full]
        /\ UNCHANGED <<store, ingest, server, inbox, granted, fetch, answer, due, late, bounds>>
    BY <1>20 DEF Receive
  <2>2. wire[v] \in Seq(Messages) /\ view[v] \in States
    BY DEF TypeOK
  <2>3. /\ m \in Messages /\ Tail(wire[v]) \in Seq(Messages)
        /\ \E i \in DOMAIN wire[v] : m = wire[v][i]
        /\ \A i \in DOMAIN Tail(wire[v]) : \E j \in DOMAIN wire[v] : Tail(wire[v])[i] = wire[v][j]
    BY <2>1, <2>2, SMT
  <2> HIDE DEF m
  <2>4. /\ new \in States
        /\ \A h \in Hosts : h \notin Scope[v] => m.state[h] = 0
    <3>1. m.state \in States /\ \A h \in Hosts : view[v][h] \in Nat /\ m.state[h] \in Nat
      BY <2>2, <2>3 DEF Messages, States
    <3>2. new \in States
      BY <3>1 DEF Applied, States
    <3>3. \A h \in Hosts : h \notin Scope[v] => m.state[h] = 0
      BY <2>3, <1>s DEF InScope
    <3> QED
      BY <3>2, <3>3
  <2>5. ASSUME NEW h \in Hosts, h \notin Scope[v] PROVE new[h] = 0
    <3>1. view[v][h] = 0 /\ m.state[h] = 0
      BY <2>4, <2>5, <1>s DEF InScope
    <3>2. CASE m.full
      BY <3>1, <3>2 DEF Applied
    <3>3. CASE ~m.full
      BY <3>1, <3>3 DEF Applied
    <3> QED
      BY <3>2, <3>3
  <2> HIDE DEF new
  <2>6. /\ wire' \in [Viewers -> Seq(Messages)] /\ view' \in [Viewers -> States]
        /\ overtaken' \in [Viewers -> BOOLEAN]
    BY <2>1, <2>3, <2>4 DEF TypeOK
  <2>7. InScope'
    <3>1. ASSUME NEW u \in Viewers, NEW h \in Hosts, h \notin Scope[u] PROVE view'[u][h] = 0
      BY <3>1, <2>1, <2>5, <1>s DEF InScope, TypeOK
    <3>2. ASSUME NEW u \in Viewers, NEW h \in Hosts, h \notin Scope[u], NEW i \in DOMAIN wire'[u]
          PROVE  wire'[u][i].state[h] = 0
      <4>1. \E j \in DOMAIN wire[u] : wire'[u][i] = wire[u][j]
        <5>1. wire \in [Viewers -> Seq(Messages)]
          BY DEF TypeOK
        <5>2. CASE u = v
          <6>1. wire'[u] = Tail(wire[v])
            BY <5>1, <5>2, <2>1
          <6> QED
            BY <5>2, <6>1, <3>2, <2>3
        <5>3. CASE u # v
          <6>1. wire'[u] = wire[u]
            BY <5>1, <5>3, <2>1
          <6> QED
            BY <6>1, <3>2
        <5> QED
          BY <5>2, <5>3
      <4> QED
        BY <4>1, <3>2, <1>s DEF InScope
    <3>3. UNCHANGED <<listed, answer, due>>
      BY <2>1
    <3> QED
      BY <3>1, <3>2, <3>3, <1>s, SMT DEF InScope
  <2>8. TypeOK'
    BY <2>1, <2>6, <2>7, SMT DEF TypeOK, InScope
  <2>9. InFlight'
    <3>1. \A u \in Viewers : wire[u] = <<>> => wire'[u] = <<>>
      BY <2>1 DEF TypeOK
    <3>2. UNCHANGED <<job, offline, inbox, stream, event>>
      BY <2>1
    <3> QED
      BY <3>1, <3>2 DEF InFlight, Subscribed
  <2> QED
    BY <2>8, <2>9
<1>21. ASSUME NEW v \in Viewers, Fetch(v) PROVE TypeOK' /\ InFlight'
  <2> USE <1>21 DEF Fetch
  <2>1. /\ answer' \in [Viewers -> States]
        /\ \A u \in Viewers, h \in Hosts : h \notin Scope[u] => answer'[u][h] = 0
    <3> DEFINE a == IF granted[v] THEN Visible(v) ELSE Nothing
    <3>1. a \in States /\ \A h \in Hosts : h \notin Scope[v] => a[h] = 0
      BY Listing, Values
    <3>2. answer' = [answer EXCEPT ![v] = a] /\ answer \in [Viewers -> States]
      BY DEF TypeOK
    <3> HIDE DEF a
    <3> QED
      BY <3>1, <3>2, <1>s DEF InScope
  <2>2. InScope'
    BY <2>1, <1>s, SMT DEF InScope
  <2>3. TypeOK'
    BY <2>1, <2>2, SMT DEF TypeOK, InScope
  <2>4. InFlight'
    BY DEF InFlight, Subscribed
  <2> QED
    BY <2>3, <2>4
<1>22. ASSUME NEW v \in Viewers, Fetched(v) PROVE TypeOK' /\ InFlight'
  <2> USE <1>22 DEF Fetched
  <2>1. /\ answer' \in [Viewers -> States] /\ view' \in [Viewers -> States]
        /\ \A u \in Viewers, h \in Hosts : h \notin Scope[u] => answer'[u][h] = 0 /\ view'[u][h] = 0
    BY Values, <1>s, SMT DEF InScope, TypeOK
  <2>2. InScope'
    BY <2>1, <1>s, SMT DEF InScope
  <2>3. TypeOK'
    BY <2>1, <2>2, SMT DEF TypeOK, InScope
  <2>4. InFlight'
    BY DEF InFlight, Subscribed
  <2> QED
    BY <2>3, <2>4
<1>23. CASE UNCHANGED vars
  BY <1>23 DEF vars, TypeOK, InFlight, Subscribed
<1> QED
  BY <1>1, <1>2, <1>3, <1>4, <1>5, <1>6, <1>7, <1>8, <1>9, <1>10, <1>11, <1>12, <1>13, <1>14,
     <1>15, <1>16, <1>17, <1>18, <1>19, <1>20, <1>21, <1>22, <1>23
  DEF Next, Serve, Follow, Reload

-----------------------------------------------------------------------------
(* Access                                                                  *)

LEMMA RecheckStep == TypeOK /\ Rechecked /\ [Next]_vars => Rechecked'
<1> SUFFICES ASSUME TypeOK, Rechecked, [Next]_vars PROVE Rechecked'
  OBVIOUS
<1> USE DEF At, store, ingest, server, page, bounds
<1>0. 0 <= 1 /\ 0 + 1 <= 1 /\ 0 + 1 = 1 /\ 1 <= 1
  BY SMT
<1>1. CASE UNCHANGED <<granted, stream, late>>
  BY <1>1 DEF Rechecked
<1>2. ASSUME NEW v \in Viewers, Revoke(v) PROVE Rechecked'
  BY <1>2 DEF Revoke, Rechecked, TypeOK
<1>3. ASSUME NEW v \in Viewers, NEW s, s \notin {"sync", "write"} \/ granted[v],
             stream' = [stream EXCEPT ![v] = s], UNCHANGED <<granted, late>>
      PROVE  Rechecked'
  BY <1>3 DEF Rechecked, TypeOK
<1>4. ASSUME NEW v \in Viewers, stream[v] \in {"sync", "write"}, UNCHANGED granted,
             late' = [late EXCEPT ![v] = IF granted[v] THEN 0 ELSE @ + 1],
             stream' = [stream EXCEPT ![v] = "open"]
      PROVE  Rechecked'
  <2>1. late[v] = 0
    BY <1>4 DEF Rechecked
  <2>2. late'[v] = (IF granted[v] THEN 0 ELSE 1) /\ \A u \in Viewers \ {v} : late'[u] = late[u]
    BY <1>4, <2>1, <1>0 DEF TypeOK
  <2>3. stream'[v] = "open" /\ \A u \in Viewers \ {v} : stream'[u] = stream[u]
    BY <1>4 DEF TypeOK
  <2> QED
    BY <1>4, <2>2, <2>3, <1>0 DEF Rechecked
<1>5. ASSUME NEW v \in Viewers, WriteSync(v) \/ WriteEvent(v) PROVE Rechecked'
  BY <1>5, <1>4 DEF WriteSync, WriteEvent, Write
<1>6. ASSUME NEW v \in Viewers, Take(v) \/ FirstRecheck(v) PROVE Rechecked'
  BY <1>6, <1>3 DEF Take, FirstRecheck, End
<1>7. ASSUME NEW v \in Viewers,
             Open(v) \/ ReadHosts(v) \/ Subscribe(v) \/ RecheckTimer(v) \/ OpenFails(v)
               \/ Break(v) \/ Reconnect(v)
      PROVE  Rechecked'
  BY <1>7, <1>3 DEF Open, ReadHosts, Subscribe, RecheckTimer, OpenFails, Break, Reconnect, End
<1>8. ASSUME NEW v \in Viewers, Receive(v) \/ Reload(v) \/ Refresh(v) PROVE Rechecked'
  BY <1>8, <1>1 DEF Receive, Reload, Fetch, Fetched, Refresh
<1>9. ASSUME NEW w \in Workers, NEW h, NEW lost, Commit(w, h) \/ Publish(w, lost) \/ FailRequest(w)
      PROVE  Rechecked'
  BY <1>9, <1>1 DEF Commit, Publish, FailRequest
<1>10. ASSUME NEW S, NEW e, NEW lost, Reconcile(S) \/ PublishOffline(e, lost) \/ FailReconcile
       PROVE  Rechecked'
  BY <1>10, <1>1 DEF Reconcile, PublishOffline, FailReconcile
<1>11. CASE UNCHANGED vars
  BY <1>11, <1>1 DEF vars
<1> QED
  BY <1>2, <1>5, <1>6, <1>7, <1>8, <1>9, <1>10, <1>11 DEF Next, Serve, Follow

-----------------------------------------------------------------------------
(* What is shown                                                           *)

LEMMA TraceStep == TypeOK /\ InFlight /\ Tracing /\ [Next]_vars => Tracing'
<1> SUFFICES ASSUME TypeOK, InFlight, Tracing, [Next]_vars PROVE Tracing'
  OBVIOUS
<1> USE DEF At, store, ingest, server, page, bounds
<1>t. /\ inbox \in [Viewers -> Seq(RealEvents)] /\ wire \in [Viewers -> Seq(Messages)]
      /\ stream = [v \in Viewers |-> stream[v]] /\ event = [v \in Viewers |-> event[v]]
      /\ listed = [v \in Viewers |-> listed[v]] /\ due = [v \in Viewers |-> due[v]]
      /\ view = [v \in Viewers |-> view[v]] /\ overtaken = [v \in Viewers |-> overtaken[v]]
      /\ inbox = [v \in Viewers |-> inbox[v]] /\ wire = [v \in Viewers |-> wire[v]]
  BY DEF TypeOK, InFlight
<1>h. \A v \in Viewers : \A h \in Scope[v] : h \in Hosts
  BY ScopeAssumption
<1>u. ASSUME NEW u \in Viewers, NEW h \in Scope[u],
             stream'[u] = stream[u], event'[u] = event[u], listed'[u] = listed[u],
             due'[u] = due[u], view'[u] = view[u], overtaken'[u] = overtaken[u],
             inbox'[u] = inbox[u], wire'[u] = wire[u]
      PROVE  Traced(u, h)'
  <2>1. Traced(u, h)
    BY DEF Tracing
  <2> QED
    BY <2>1, <1>u DEF Traced
<1>1. ASSUME UNCHANGED <<stream, event, listed, due, view, overtaken, inbox, wire>> PROVE Tracing'
  BY <1>1, <1>u DEF Tracing
<1>2. ASSUME NEW v \in Viewers, inbox'[v] = <<>>,
             stream'[v] \in {"idle", "list", "ended", "dead"},
             \A u \in Viewers \ {v} :
               /\ stream'[u] = stream[u] /\ event'[u] = event[u] /\ listed'[u] = listed[u]
               /\ inbox'[u] = inbox[u] /\ wire'[u] = wire[u],
             UNCHANGED <<due, view, overtaken>>
      PROVE  Tracing'
  <2>1. \A h \in Scope[v] : Traced(v, h)'
    BY <1>2, Empty DEF Traced
  <2> QED
    BY <2>1, <1>2, <1>u DEF Tracing
<1>3. ASSUME NEW w \in Workers, NEW h, Commit(w, h) \/ FailRequest(w) PROVE Tracing'
  BY <1>3, <1>1 DEF Commit, FailRequest
<1>4. ASSUME NEW S, Reconcile(S) \/ FailReconcile PROVE Tracing'
  BY <1>4, <1>1 DEF Reconcile, FailReconcile
<1>5. ASSUME NEW v \in Viewers, Revoke(v) \/ Refresh(v) \/ Fetch(v) PROVE Tracing'
  BY <1>5, <1>1 DEF Revoke, Refresh, Fetch
<1>d. ASSUME NEW e \in RealEvents, NEW lost, Deliver(e, lost),
             UNCHANGED <<stream, event, listed, view, overtaken, wire>>
      PROVE  Tracing'
  <2>1. SUFFICES ASSUME NEW v \in Viewers, NEW h \in Scope[v] PROVE Traced(v, h)'
    BY DEF Tracing
  <2>2. \/ inbox'[v] = inbox[v] /\ due'[v] = due[v]
        \/ /\ inbox'[v] = Append(inbox[v], e)
           /\ due'[v][h] = IF h = e.host THEN e.change ELSE due[v][h]
    BY <1>d, <1>h, Delivering
  <2>3. CASE inbox'[v] = inbox[v] /\ due'[v] = due[v]
    BY <2>3, <1>d, <1>u
  <2>4. CASE /\ inbox'[v] = Append(inbox[v], e)
             /\ due'[v][h] = IF h = e.host THEN e.change ELSE due[v][h]
    <3>1. inbox[v] \in Seq(RealEvents)
      BY <1>t
    <3>a. /\ \A T : e \in T => /\ ~None(Append(inbox[v], e), T)
                              /\ \A y : Final(Append(inbox[v], e), T, y) => y = e
          /\ \A T : e \notin T => /\ None(Append(inbox[v], e), T) => None(inbox[v], T)
                                 /\ \A y : Final(Append(inbox[v], e), T, y) => Final(inbox[v], T, y)
      BY <3>1, Appending
    <3>2. CASE h = e.host
      <4>1. e \in About(h)
        BY <3>2 DEF About
      <4>2. ~None(inbox'[v], About(h)) /\ \A y : Final(inbox'[v], About(h), y) => y = e
        BY <2>4, <3>a, <4>1
      <4> QED
        BY <2>4, <3>2, <4>2 DEF Traced
    <3>3. CASE h # e.host
      <4>1. e \notin About(h)
        BY <3>3 DEF About
      <4>2. /\ None(inbox'[v], About(h)) => None(inbox[v], About(h))
            /\ \A y : Final(inbox'[v], About(h), y) => Final(inbox[v], About(h), y)
        BY <2>4, <3>a, <4>1
      <4>3. due'[v][h] = due[v][h] /\ Traced(v, h)
        BY <2>4, <3>3 DEF Tracing
      <4> QED
        BY <1>d, <4>2, <4>3 DEF Traced
    <3> QED
      BY <3>2, <3>3
  <2> QED
    BY <2>2, <2>3, <2>4
<1>6. ASSUME NEW w \in Workers, NEW lost, Publish(w, lost) PROVE Tracing'
  <2>1. job[w] \in RealEvents
    BY <1>6 DEF Publish, InFlight
  <2> QED
    BY <1>6, <2>1, <1>d DEF Publish
<1>7. ASSUME NEW e \in offline, NEW lost, PublishOffline(e, lost) PROVE Tracing'
  <2>1. e \in RealEvents
    BY DEF InFlight
  <2> QED
    BY <1>7, <2>1, <1>d DEF PublishOffline
<1>8. ASSUME NEW v \in Viewers, Open(v) \/ Reconnect(v) PROVE Tracing'
  <2>1. inbox[v] = <<>> /\ stream'[v] \in {"idle", "list", "dead"}
    BY <1>8, <1>t DEF Open, Reconnect, InFlight, Subscribed
  <2>2. \A u \in Viewers \ {v} : stream'[u] = stream[u]
    BY <1>8, <1>t DEF Open, Reconnect
  <2>3. UNCHANGED <<event, listed, due, view, overtaken, inbox, wire>>
    BY <1>8 DEF Open, Reconnect
  <2> QED
    BY <2>1, <2>2, <2>3, <1>2
<1>e. ASSUME NEW v \in Viewers, NEW s \in {"ended", "dead"}, End(v, s),
             UNCHANGED <<due, view, overtaken>>,
             wire' = wire \/ wire' = [wire EXCEPT ![v] = <<>>]
      PROVE  Tracing'
  <2>1. \A u \in Viewers \ {v} : wire'[u] = wire[u]
    BY <1>e, <1>t
  <2>2. /\ inbox'[v] = <<>> /\ stream'[v] = s
        /\ \A u \in Viewers \ {v} : /\ stream'[u] = stream[u] /\ listed'[u] = listed[u]
                                    /\ inbox'[u] = inbox[u] /\ event'[u] = event[u]
    BY <1>e, Ending
  <2> QED
    BY <2>1, <2>2, <1>e, <1>2
<1>9. ASSUME NEW v \in Viewers, OpenFails(v) \/ RecheckTimer(v) \/ Break(v) PROVE Tracing'
  BY <1>9, <1>e DEF OpenFails, RecheckTimer, Break
<1>v. ASSUME NEW v \in Viewers, \A h \in Scope[v] : Traced(v, h)',
             \A u \in Viewers \ {v} :
               /\ stream'[u] = stream[u] /\ event'[u] = event[u] /\ listed'[u] = listed[u]
               /\ due'[u] = due[u] /\ view'[u] = view[u] /\ overtaken'[u] = overtaken[u]
               /\ inbox'[u] = inbox[u] /\ wire'[u] = wire[u]
      PROVE  Tracing'
  BY <1>v, <1>u DEF Tracing
<1>10. ASSUME NEW v \in Viewers, ReadHosts(v) PROVE Tracing'
  <2>1. /\ stream' = [stream EXCEPT ![v] = "subscribe"] /\ inbox[v] = <<>>
        /\ listed' = [listed EXCEPT ![v] = Visible(v)] /\ due' = [due EXCEPT ![v] = Visible(v)]
        /\ UNCHANGED <<event, view, overtaken, inbox, wire>>
    BY <1>10 DEF ReadHosts, InFlight, Subscribed
  <2>2. stream'[v] = "subscribe" /\ listed'[v] = due'[v] /\ inbox'[v] = <<>>
    BY <2>1, <1>t
  <2>3. \A h \in Scope[v] : Traced(v, h)'
    BY <2>2, Empty DEF Traced
  <2> QED
    BY <2>1, <2>3, <1>v, <1>t
<1>11. ASSUME NEW v \in Viewers, Subscribe(v) PROVE Tracing'
  <2>1. /\ stream' = [stream EXCEPT ![v] = "recheck"] /\ inbox[v] = <<>> /\ stream[v] = "subscribe"
        /\ inbox' = [inbox EXCEPT ![v] = <<>>]
        /\ UNCHANGED <<event, listed, due, view, overtaken, wire>>
    BY <1>11 DEF Subscribe, InFlight, Subscribed
  <2>2. stream'[v] = "recheck" /\ inbox'[v] = <<>>
    BY <2>1, <1>t
  <2>3. ASSUME NEW h \in Scope[v] PROVE Traced(v, h)'
    <3>1. listed[v][h] = due[v][h]
      BY <2>1, Empty DEF Tracing, Traced
    <3> QED
      BY <2>1, <2>2, <3>1, Empty DEF Traced
  <2> QED
    BY <2>1, <2>3, <1>v, <1>t
<1>12. ASSUME NEW v \in Viewers, FirstRecheck(v) PROVE Tracing'
  <2>1. CASE granted[v]
    <3>1. /\ stream' = [stream EXCEPT ![v] = "sync"] /\ stream[v] = "recheck"
          /\ UNCHANGED <<event, listed, due, view, overtaken, inbox, wire>>
      BY <1>12, <2>1 DEF FirstRecheck
    <3>2. stream'[v] = "sync"
      BY <3>1, <1>t
    <3>3. ASSUME NEW h \in Scope[v] PROVE Traced(v, h)'
      <4>1. Traced(v, h)
        BY DEF Tracing
      <4> QED
        BY <3>1, <3>2, <4>1 DEF Traced
    <3> QED
      BY <3>1, <3>3, <1>v, <1>t
  <2>2. CASE ~granted[v]
    BY <1>12, <2>2, <1>e DEF FirstRecheck
  <2> QED
    BY <2>1, <2>2
<1>13. ASSUME NEW v \in Viewers, Fetched(v) PROVE Tracing'
  <2>1. /\ view' = [view EXCEPT ![v] = answer[v]]
        /\ overtaken' = [overtaken EXCEPT ![v] = TRUE]
        /\ UNCHANGED <<stream, event, listed, due, inbox, wire>>
    BY <1>13 DEF Fetched
  <2>2. overtaken'[v] = TRUE
    BY <2>1, <1>t
  <2>3. ASSUME NEW h \in Scope[v] PROVE Traced(v, h)'
    <3>1. Traced(v, h)
      BY DEF Tracing
    <3> QED
      BY <2>1, <2>2, <3>1 DEF Traced
  <2> QED
    BY <2>1, <2>3, <1>v, <1>t
<1>14. ASSUME NEW v \in Viewers, WriteSync(v) PROVE Tracing'
  <2> DEFINE m == [full |-> TRUE, state |-> listed[v]]
  <2>1. /\ wire' = [wire EXCEPT ![v] = Append(wire[v], m)]
        /\ stream' = [stream EXCEPT ![v] = "open"] /\ stream[v] = "sync"
        /\ listed' = [listed EXCEPT ![v] = Nothing]
        /\ UNCHANGED <<inbox, event, due, view, overtaken>>
    BY <1>14 DEF WriteSync, Write
  <2>m. m \in Messages /\ m.full /\ m.state = listed[v]
    BY DEF TypeOK, Messages
  <2> HIDE DEF m
  <2>2. wire'[v] = Append(wire[v], m) /\ stream'[v] = "open" /\ wire[v] \in Seq(Messages)
    BY <2>1, <1>t
  <2>a. /\ \A T : m \in T => /\ ~None(Append(wire[v], m), T)
                             /\ \A y : Final(Append(wire[v], m), T, y) => y = m
        /\ \A T : m \notin T => /\ None(Append(wire[v], m), T) => None(wire[v], T)
                                /\ \A y : Final(Append(wire[v], m), T, y) => Final(wire[v], T, y)
    BY <2>2, <2>m, Appending
  <2>3. ASSUME NEW h \in Scope[v] PROVE Traced(v, h)'
    <3>1. m \in On(h)
      BY <2>m DEF On
    <3>2. ~None(wire'[v], On(h)) /\ \A y : Final(wire'[v], On(h), y) => y = m
      BY <2>2, <3>1, <2>a
    <3>3. Traced(v, h)
      BY DEF Tracing
    <3> QED
      BY <2>1, <2>2, <2>m, <3>2, <3>3 DEF Traced
  <2> QED
    BY <2>1, <2>3, <1>v, <1>t
<1>15. ASSUME NEW v \in Viewers, WriteEvent(v) PROVE Tracing'
  <2> DEFINE m == [full |-> FALSE, state |-> [Nothing EXCEPT ![event[v].host] = event[v].change]]
  <2>1. /\ wire' = [wire EXCEPT ![v] = Append(wire[v], m)]
        /\ stream' = [stream EXCEPT ![v] = "open"] /\ stream[v] = "write"
        /\ event' = [event EXCEPT ![v] = NoEvent]
        /\ UNCHANGED <<listed, inbox, due, view, overtaken>>
    BY <1>15 DEF WriteEvent, Write
  <2>e. event[v].host \in Hosts /\ event[v].change \in Nat /\ event[v].change # 0
    BY <2>1 DEF InFlight, RealEvents
  <2>m. /\ m \in Messages /\ ~m.full
        /\ \A h \in Hosts : m.state[h] = IF h = event[v].host THEN event[v].change ELSE 0
    BY <2>e, Values DEF Messages, States
  <2> HIDE DEF m
  <2>2. wire'[v] = Append(wire[v], m) /\ stream'[v] = "open" /\ wire[v] \in Seq(Messages)
    BY <2>1, <1>t
  <2>a. /\ \A T : m \in T => /\ ~None(Append(wire[v], m), T)
                             /\ \A y : Final(Append(wire[v], m), T, y) => y = m
        /\ \A T : m \notin T => /\ None(Append(wire[v], m), T) => None(wire[v], T)
                                /\ \A y : Final(Append(wire[v], m), T, y) => Final(wire[v], T, y)
    BY <2>2, <2>m, Appending
  <2>3. ASSUME NEW h \in Scope[v] PROVE Traced(v, h)'
    <3>0. h \in Hosts
      BY <1>h
    <3>1. Traced(v, h)
      BY DEF Tracing
    <3>2. CASE h = event[v].host
      <4>1. m.state[h] = event[v].change /\ m \in On(h)
        BY <2>m, <2>e, <3>0, <3>2 DEF On
      <4>2. ~None(wire'[v], On(h)) /\ \A y : Final(wire'[v], On(h), y) => y = m
        BY <2>2, <4>1, <2>a
      <4> QED
        BY <2>1, <2>2, <3>1, <3>2, <4>1, <4>2 DEF Traced
    <3>3. CASE h # event[v].host
      <4>1. m \notin On(h)
        BY <2>m, <3>0, <3>3 DEF On
      <4>2. /\ None(wire'[v], On(h)) => None(wire[v], On(h))
            /\ \A y : Final(wire'[v], On(h), y) => Final(wire[v], On(h), y)
        BY <2>2, <4>1, <2>a
      <4> QED
        BY <2>1, <2>2, <3>1, <3>3, <4>2 DEF Traced
    <3> QED
      BY <3>2, <3>3
  <2> QED
    BY <2>1, <2>3, <1>v, <1>t
<1>16. ASSUME NEW v \in Viewers, Take(v) PROVE Tracing'
  <2> DEFINE e == Head(inbox[v])
  <2>0. inbox[v] \in Seq(RealEvents) /\ inbox[v] # <<>> /\ stream[v] = "open"
    BY <1>16, <1>t DEF Take
  <2>1. e \in RealEvents
    BY <2>0, Taking
  <2>a. /\ \A T, y : Final(Tail(inbox[v]), T, y) => Final(inbox[v], T, y)
        /\ \A T : None(Tail(inbox[v]), T) /\ e \in T => Final(inbox[v], T, e)
        /\ \A T : None(Tail(inbox[v]), T) /\ e \notin T => None(inbox[v], T)
    BY <2>0, Taking
  <2>2. CASE granted[v]
    <3>1. /\ stream' = [stream EXCEPT ![v] = IF e.host \in Scope[v] THEN "write" ELSE "open"]
          /\ event' = [event EXCEPT ![v] = IF e.host \in Scope[v] THEN e ELSE NoEvent]
          /\ inbox' = [inbox EXCEPT ![v] = Tail(inbox[v])]
          /\ UNCHANGED <<listed, due, view, overtaken, wire>>
      BY <1>16, <2>2 DEF Take
    <3> HIDE DEF e
    <3>2. /\ stream'[v] = (IF e.host \in Scope[v] THEN "write" ELSE "open")
          /\ event'[v] = (IF e.host \in Scope[v] THEN e ELSE NoEvent)
          /\ inbox'[v] = Tail(inbox[v])
      BY <3>1, <1>t
    <3>3. ASSUME NEW h \in Scope[v] PROVE Traced(v, h)'
      <4>1. Traced(v, h)
        BY DEF Tracing
      <4>2. \A x \in RealEvents : Final(inbox'[v], About(h), x) => due'[v][h] = x.change
        BY <3>1, <3>2, <4>1, <2>a DEF Traced
      <4>3. CASE e.host = h
        <5>1. stream'[v] = "write" /\ event'[v] = e /\ e \in About(h)
          BY <3>2, <4>3, <2>1 DEF About
        <5>2. None(inbox'[v], About(h)) => due'[v][h] = e.change
          BY <5>1, <3>1, <3>2, <4>1, <2>1, <2>a DEF Traced
        <5> QED
          BY <4>2, <4>3, <5>1, <5>2 DEF Traced
      <4>4. CASE e.host # h
        <5>1. e \notin About(h)
          BY <4>4 DEF About
        <5>2. None(inbox'[v], About(h)) => None(inbox[v], About(h))
          BY <5>1, <3>2, <2>a
        <5>3. stream'[v] = "open" \/ (stream'[v] = "write" /\ event'[v].host # h)
          BY <3>2, <4>4
        <5> QED
          BY <4>1, <4>2, <5>2, <5>3, <3>1, <2>0 DEF Traced
      <4> QED
        BY <4>3, <4>4
    <3> QED
      BY <3>1, <3>3, <1>v, <1>t
  <2>3. CASE ~granted[v]
    BY <1>16, <2>3, <1>e DEF Take
  <2> QED
    BY <2>2, <2>3
<1>17. ASSUME NEW v \in Viewers, Receive(v) PROVE Tracing'
  <2> DEFINE m == Head(wire[v])
  <2>1. /\ wire' = [wire EXCEPT ![v] = Tail(wire[v])] /\ wire[v] # <<>>
        /\ view' = [view EXCEPT ![v] = Applied(view[v], m)]
        /\ overtaken' = [overtaken EXCEPT ![v] = overtaken[v] /\ ~m.full]
        /\ UNCHANGED <<stream, event, listed, due, inbox>>
    BY <1>17 DEF Receive
  <2>0. wire[v] \in Seq(Messages)
    BY <1>t
  <2>m. m \in Messages
    BY <2>0, <2>1, Taking
  <2>a. /\ \A T, y : Final(Tail(wire[v]), T, y) => Final(wire[v], T, y)
        /\ \A T : None(Tail(wire[v]), T) /\ m \in T => Final(wire[v], T, m)
        /\ \A T : None(Tail(wire[v]), T) /\ m \notin T => None(wire[v], T)
    BY <2>0, <2>1, Taking
  <2> HIDE DEF m
  <2>2. /\ wire'[v] = Tail(wire[v]) /\ view'[v] = Applied(view[v], m)
        /\ overtaken'[v] = (overtaken[v] /\ ~m.full)
    BY <2>1, <1>t
  <2>3. ASSUME NEW h \in Scope[v] PROVE Traced(v, h)'
    <3>0. h \in Hosts
      BY <1>h
    <3>1. Traced(v, h)
      BY DEF Tracing
    <3>2. ASSUME None(inbox[v], About(h)),
                 stream[v] = "open" \/ (stream[v] = "write" /\ event[v].host # h)
          PROVE  /\ \A y \in Messages : Final(wire'[v], On(h), y) => y.state[h] = due[v][h]
                 /\ None(wire'[v], On(h)) /\ ~overtaken'[v] => view'[v][h] = due[v][h]
      <4>1. /\ \A y \in Messages : Final(wire[v], On(h), y) => y.state[h] = due[v][h]
            /\ None(wire[v], On(h)) /\ ~overtaken[v] => view[v][h] = due[v][h]
        BY <3>1, <3>2 DEF Traced
      <4>2. CASE m \in On(h)
        <5>1. view'[v][h] = m.state[h]
          BY <2>2, <3>0, <4>2 DEF On, Applied
        <5> QED
          BY <4>1, <4>2, <5>1, <2>2, <2>a, <2>m
      <4>3. CASE m \notin On(h)
        <5>1. ~m.full /\ m.state[h] = 0
          BY <2>m, <4>3 DEF On
        <5>2. view'[v][h] = view[v][h] /\ (~overtaken'[v] => ~overtaken[v])
          BY <2>2, <3>0, <5>1 DEF Applied
        <5> QED
          BY <4>1, <4>3, <5>2, <2>2, <2>a
      <4> QED
        BY <4>2, <4>3
    <3> QED
      BY <2>1, <3>1, <3>2 DEF Traced
  <2> QED
    BY <2>1, <2>3, <1>v, <1>t
<1>18. CASE UNCHANGED vars
  BY <1>18, <1>1 DEF vars
<1> QED
  BY <1>3, <1>4, <1>5, <1>6, <1>7, <1>8, <1>9, <1>10, <1>11, <1>12, <1>13, <1>14, <1>15, <1>16,
     <1>17, <1>18 DEF Next, Serve, Follow, Reload

-----------------------------------------------------------------------------

LEMMA SpecInv == Spec => []Inv
<1>1. Inv /\ [Next]_vars => Inv'
  BY TypeStep, RecheckStep, TraceStep DEF Inv
<1> QED
  BY <1>1, InitInv, PTL DEF Spec

\* Nothing out of a viewer's scope is ever listed for it, sent to it or shown to it.
THEOREM Types == Spec => []TypeOK
<1>1. Inv => TypeOK
  BY DEF Inv
<1> QED
  BY <1>1, SpecInv, PTL

\* A stream writes at most one message after access has been revoked
\* (handleHostsStream).
THEOREM AtMostOneLate == Spec => []OneLateWrite
<1>1. Inv => OneLateWrite
  BY DEF Inv, Rechecked, OneLateWrite
<1> QED
  BY <1>1, SpecInv, PTL

\* An open stream with nothing left to send shows the last state it was given of every
\* host, whatever the order of the events (handleHostsStream, useLiveHostsData).
THEOREM ShowsLastEvents == Spec => []ViewFollowsEvents
<1>1. Inv => ViewFollowsEvents
  <2>1. SUFFICES ASSUME Inv, NEW v \in Viewers, stream[v] = "open", inbox[v] = <<>>,
                        wire[v] = <<>>, ~overtaken[v]
                 PROVE  view[v] = due[v]
    BY DEF ViewFollowsEvents
  <2>2. view[v] \in [Hosts -> Nat] /\ due[v] \in [Hosts -> Nat]
    BY <2>1 DEF Inv, TypeOK, States
  <2>3. ASSUME NEW h \in Hosts PROVE view[v][h] = due[v][h]
    <3>1. CASE h \in Scope[v]
      BY <2>1, <3>1, Empty DEF Inv, Tracing, Traced
    <3>2. CASE h \notin Scope[v]
      BY <2>1, <3>2 DEF Inv, TypeOK
    <3> QED
      BY <3>1, <3>2
  <2> QED
    BY <2>2, <2>3, SMT
<1> QED
  BY <1>1, SpecInv, PTL
=============================================================================

------------------------------ MODULE HostFeed ------------------------------
(***************************************************************************)
(* How a change of a host reaches the dashboards: the ingest service       *)
(* commits it (one atomic step, see HostStore) and publishes it on a Redis *)
(* channel; each dashboard has a stream handler in master-api that lists   *)
(* the hosts, subscribes, sends the list and forwards what it receives,    *)
(* and a browser that applies what it is sent.                             *)
(*                                                                         *)
(* A host's state is the number of the change that made it, 0 when there   *)
(* is none.  What a viewer sees is such a number for every host.           *)
(***************************************************************************)
EXTENDS Integers, Sequences

CONSTANTS
    Hosts, Viewers,
    Workers,      \* request handlers of the ingest service
    Scope,        \* the hosts each viewer may see (its tenant, or its share)
    MaxChanges,   \* bound: changes committed
    MaxPasses,    \* bound: offline passes that find something
    MaxFaults     \* bound: failed calls, broken connections, lost messages

ASSUME HostsAssumption == Hosts \subseteq Nat \ {0}
ASSUME ScopeAssumption == Scope \in [Viewers -> SUBSET Hosts]
ASSUME BoundsAssumption ==
    MaxChanges \in Nat /\ MaxPasses \in Nat /\ MaxFaults \in Nat

VARIABLES
    committed,  \* PostgreSQL: the last change of each host
    online,     \* PostgreSQL: hosts that are not offline
    changes,    \* the number of changes so far
    job,        \* the change each worker has committed and not yet published
    offline,    \* those that ReconcileOfflineHosts has still to publish
    stream,     \* where each viewer's stream handler is
    listed,     \* the host list it has read
    inbox,      \* the events it has received from Redis and not yet handled
    event,      \* the event it is handling
    granted,    \* is the viewer still allowed to read?
    wire,       \* what has been written to the browser and not yet applied
    view,       \* what the browser shows
    fetch,      \* the browser's GET /hosts: "todo", "sent" or "done"
    answer,     \* the response to it
    due,        \* history: the last state of each host that the stream was given
    overtaken,  \* history: the GET was answered later than the stream's list
    late,       \* history: writes to the stream since access was revoked
    passes, faults

store  == <<committed, online, changes>>
ingest == <<job, offline>>
server == <<stream, listed, event>>
page   == <<view, fetch, answer, overtaken>>
bounds == <<passes, faults>>
vars == <<committed, online, changes, job, offline, stream, listed, inbox, event,
          granted, wire, view, fetch, answer, due, overtaken, late, passes, faults>>

-----------------------------------------------------------------------------
(* The ingest service                                                      *)

Nothing == [h \in Hosts |-> 0]
Events  == [host : Hosts \cup {0}, change : Nat]
NoEvent == [host |-> 0, change |-> 0]

Fault == faults < MaxFaults /\ faults' = faults + 1

\* RegisterAgent and processMetricBatch: hostStore.RegisterAgent or
\* hostStore.ReportMetrics commits a new state of the host ...
Commit(w, h) ==
    /\ job[w] = NoEvent
    /\ changes < MaxChanges
    /\ changes' = changes + 1
    /\ committed' = [committed EXCEPT ![h] = changes + 1]
    /\ online' = online \cup {h}
    /\ job' = [job EXCEPT ![w] = [host |-> h, change |-> changes + 1]]
    /\ UNCHANGED <<offline, server, inbox, granted, wire, page, due, late, bounds>>

\* Handlers that are subscribed to the Redis channel.
Subscribed(v) == stream[v] \in {"recheck", "sync", "open", "write"}

\* Every subscriber gets the event, except those whose Redis connection is down
\* at that moment or whose go-redis buffer is full.
Deliver(e, lost) ==
    /\ \A v \in lost : Subscribed(v)
    /\ inbox' = [v \in Viewers |-> IF Subscribed(v) /\ v \notin lost
                                   THEN Append(inbox[v], e) ELSE inbox[v]]
    /\ due' = [v \in Viewers |->
         IF Subscribed(v) /\ v \notin lost /\ e.host \in Scope[v]
         THEN [due[v] EXCEPT ![e.host] = e.change] ELSE due[v]]
    /\ IF lost = {} THEN faults' = faults ELSE Fault

\* ... and PublishHostUpsert sends it, after the calls that store the metrics.
Publish(w, lost) ==
    /\ job[w] # NoEvent
    /\ Deliver(job[w], lost)
    /\ job' = [job EXCEPT ![w] = NoEvent]
    /\ UNCHANGED <<store, offline, server, granted, wire, page, late,
                   passes>>

\* A call to Redis fails: the request ends with an error, the change stays
\* committed and is not published.
FailRequest(w) ==
    /\ job[w] # NoEvent
    /\ Fault
    /\ job' = [job EXCEPT ![w] = NoEvent]
    /\ UNCHANGED <<store, offline, server, inbox, granted, wire, page, due,
                   late, passes>>

\* ReconcileOfflineHosts: one transaction marks silent hosts offline ...
Reconcile(S) ==
    /\ offline = {} /\ S # {} /\ S \subseteq online
    /\ passes < MaxPasses
    /\ passes' = passes + 1
    /\ changes' = changes + 1
    /\ committed' = [h \in Hosts |-> IF h \in S THEN changes + 1 ELSE committed[h]]
    /\ online' = online \ S
    /\ offline' = {[host |-> h, change |-> changes + 1] : h \in S}
    /\ UNCHANGED <<job, server, inbox, granted, wire, page, due, late,
                   faults>>

\* ... whose snapshots are then published one by one, in host_id order ...
PublishOffline(e, lost) ==
    /\ e \in offline
    /\ \A f \in offline : e.host <= f.host
    /\ offline' = offline \ {e}
    /\ Deliver(e, lost)
    /\ UNCHANGED <<store, job, server, granted, wire, page, late,
                   passes>>

\* ... until a publication fails: the rest is not published.
FailReconcile ==
    /\ offline # {}
    /\ Fault
    /\ offline' = {}
    /\ UNCHANGED <<store, job, server, inbox, granted, wire, page, due,
                   late, passes>>

-----------------------------------------------------------------------------
(* A stream handler                                                        *)

At(v, s) == stream' = [stream EXCEPT ![v] = s]

\* The handler returns, and with its context the subscription is closed.
End(v, s) ==
    /\ At(v, s)
    /\ listed' = [listed EXCEPT ![v] = Nothing]
    /\ inbox' = [inbox EXCEPT ![v] = <<>>]
    /\ event' = [event EXCEPT ![v] = NoEvent]

\* The hosts a viewer may see, as they are committed.
Visible(v) == [h \in Hosts |-> IF h \in Scope[v] THEN committed[h] ELSE 0]

\* The browser connects; the middleware lets nobody in who is not allowed to
\* read, and a browser that is refused does not try again.
Open(v) ==
    /\ stream[v] = "idle"
    /\ At(v, IF granted[v] THEN "list" ELSE "dead")
    /\ UNCHANGED <<store, ingest, listed, inbox, event, granted, wire, page,
                   due, late, bounds>>

\* ReadHosts, and the histories of these hosts.
ReadHosts(v) ==
    /\ stream[v] = "list"
    /\ At(v, "subscribe")
    /\ listed' = [listed EXCEPT ![v] = Visible(v)]
    /\ due' = [due EXCEPT ![v] = Visible(v)]
    /\ UNCHANGED <<store, ingest, inbox, event, granted, wire, page, late,
                   bounds>>

\* SubscribeHostEvents returns when Redis has confirmed the subscription.
Subscribe(v) ==
    /\ stream[v] = "subscribe"
    /\ At(v, "recheck")
    /\ inbox' = [inbox EXCEPT ![v] = <<>>]
    /\ UNCHANGED <<store, ingest, listed, event, granted, wire, page, due,
                   late, bounds>>

\* Access is checked again before the first byte is sent (401 otherwise).
FirstRecheck(v) ==
    /\ stream[v] = "recheck"
    /\ IF granted[v] THEN At(v, "sync") /\ UNCHANGED <<listed, inbox, event>>
                     ELSE End(v, "dead")
    /\ UNCHANGED <<store, ingest, granted, wire, page, due, late, bounds>>

\* A failure before the first byte is an HTTP error, after which an EventSource
\* does not reconnect.
OpenFails(v) ==
    /\ stream[v] \in {"list", "subscribe", "recheck"}
    /\ Fault
    /\ End(v, "dead")
    /\ UNCHANGED <<store, ingest, granted, wire, page, due, late, passes>>

\* Writes to the browser.  full: the whole list; otherwise one host.
Write(v, full, state) ==
    /\ wire' = [wire EXCEPT ![v] = Append(@, [full |-> full, state |-> state])]
    /\ late' = [late EXCEPT ![v] = IF granted[v] THEN 0 ELSE @ + 1]

WriteSync(v) ==
    /\ stream[v] = "sync"
    /\ At(v, "open")
    /\ Write(v, TRUE, listed[v])
    /\ listed' = [listed EXCEPT ![v] = Nothing]
    /\ UNCHANGED <<store, ingest, inbox, event, granted, page, due, bounds>>

\* Fault variants of Take: only the newest event is handled; access is left to
\* the timer; every event is forwarded.
TakeNewest(v) ==
    /\ stream[v] = "open" /\ inbox[v] # <<>>
    /\ LET e == inbox[v][Len(inbox[v])]
       IN  \/ /\ granted[v]
              /\ At(v, IF e.host \in Scope[v] THEN "write" ELSE "open")
              /\ event' = [event EXCEPT ![v] = IF e.host \in Scope[v] THEN e ELSE NoEvent]
              /\ inbox' = [inbox EXCEPT ![v] = <<>>]
              /\ UNCHANGED listed
           \/ ~granted[v] /\ End(v, "ended")
    /\ UNCHANGED <<store, ingest, granted, wire, page, due, late, bounds>>

TakeUnchecked(v) ==
    /\ stream[v] = "open" /\ inbox[v] # <<>>
    /\ LET e == Head(inbox[v])
       IN  /\ At(v, IF e.host \in Scope[v] THEN "write" ELSE "open")
           /\ event' = [event EXCEPT ![v] = IF e.host \in Scope[v] THEN e ELSE NoEvent]
    /\ inbox' = [inbox EXCEPT ![v] = Tail(@)]
    /\ UNCHANGED <<store, ingest, listed, granted, wire, page, due, late, bounds>>

TakeAny(v) ==
    /\ stream[v] = "open" /\ inbox[v] # <<>>
    /\ \/ /\ granted[v]
          /\ At(v, "write")
          /\ event' = [event EXCEPT ![v] = Head(inbox[v])]
          /\ inbox' = [inbox EXCEPT ![v] = Tail(@)]
          /\ UNCHANGED listed
       \/ ~granted[v] /\ End(v, "ended")
    /\ UNCHANGED <<store, ingest, granted, wire, page, due, late, bounds>>

\* The loop takes the next event and checks access again: the stream ends, or
\* goes on with an event whose host is in scope and drops any other ...
Take(v) ==
    /\ stream[v] = "open" /\ inbox[v] # <<>>
    /\ LET e == Head(inbox[v])
       IN  \/ /\ granted[v]
              /\ At(v, IF e.host \in Scope[v] THEN "write" ELSE "open")
              /\ event' = [event EXCEPT ![v] = IF e.host \in Scope[v] THEN e ELSE NoEvent]
              /\ inbox' = [inbox EXCEPT ![v] = Tail(@)]
              /\ UNCHANGED listed
           \/ ~granted[v] /\ End(v, "ended")
    /\ UNCHANGED <<store, ingest, granted, wire, page, due, late, bounds>>

\* ... and forwards it.
WriteEvent(v) ==
    /\ stream[v] = "write"
    /\ At(v, "open")
    /\ Write(v, FALSE, [Nothing EXCEPT ![event[v].host] = event[v].change])
    /\ event' = [event EXCEPT ![v] = NoEvent]
    /\ UNCHANGED <<store, ingest, listed, inbox, granted, page, due, bounds>>

\* Fault variant: access is only checked again when there is something to send.
RecheckTimerBusy(v) ==
    /\ stream[v] = "open" /\ ~granted[v] /\ inbox[v] # <<>>
    /\ End(v, "ended")
    /\ UNCHANGED <<store, ingest, granted, wire, page, due, late, bounds>>

\* The recheck timer ends the stream of a viewer who has lost access.
RecheckTimer(v) ==
    /\ stream[v] = "open" /\ ~granted[v]
    /\ End(v, "ended")
    /\ UNCHANGED <<store, ingest, granted, wire, page, due, late, bounds>>

\* A write fails or times out, a recheck fails, the network or a process goes
\* away: the stream ends and what was on the wire is lost.
Break(v) ==
    /\ stream[v] \in {"sync", "open", "write"}
    /\ Fault
    /\ End(v, "ended")
    /\ wire' = [wire EXCEPT ![v] = <<>>]
    /\ UNCHANGED <<store, ingest, granted, page, due, late, passes>>

\* The session ends, the share is revoked or expires, the user is disabled.
Revoke(v) ==
    /\ granted[v]
    /\ granted' = [granted EXCEPT ![v] = FALSE]
    /\ UNCHANGED <<store, ingest, server, inbox, wire, page, due, late,
                   bounds>>
-----------------------------------------------------------------------------
(* A browser                                                               *)

\* What the page shows after a message: the list replaces everything, an event
\* replaces its host whatever was shown before.
Applied(old, m) ==
    IF m.full THEN m.state
    ELSE [h \in Hosts |-> IF m.state[h] # 0 THEN m.state[h] ELSE old[h]]

Receive(v) ==
    /\ wire[v] # <<>>
    /\ wire' = [wire EXCEPT ![v] = Tail(@)]
    /\ view' = [view EXCEPT ![v] = Applied(@, Head(wire[v]))]
    /\ overtaken' = [overtaken EXCEPT ![v] = @ /\ ~Head(wire[v]).full]
    /\ UNCHANGED <<store, ingest, server, inbox, granted, fetch, answer, due,
                   late, bounds>>

\* The EventSource reconnects when the stream has ended.
Reconnect(v) ==
    /\ stream[v] = "ended" /\ wire[v] = <<>>
    /\ At(v, "idle")
    /\ UNCHANGED <<store, ingest, listed, inbox, event, granted, wire, page,
                   due, late, bounds>>

\* reloadHosts: when it is mounted the page also asks for the list itself; the
\* server reads it ...
Fetch(v) ==
    /\ fetch[v] = "todo"
    /\ fetch' = [fetch EXCEPT ![v] = IF granted[v] THEN "sent" ELSE "done"]
    /\ answer' = [answer EXCEPT ![v] = IF granted[v] THEN Visible(v) ELSE Nothing]
    /\ UNCHANGED <<store, ingest, server, inbox, granted, wire, view,
                   overtaken, due, late, bounds>>

\* ... and the response, whenever it comes, replaces what is shown.
Fetched(v) ==
    /\ fetch[v] = "sent"
    /\ fetch' = [fetch EXCEPT ![v] = "done"]
    /\ answer' = [answer EXCEPT ![v] = Nothing]
    /\ view' = [view EXCEPT ![v] = answer[v]]
    /\ overtaken' = [overtaken EXCEPT ![v] = TRUE]
    /\ UNCHANGED <<store, ingest, server, inbox, granted, wire, due, late,
                   bounds>>

-----------------------------------------------------------------------------

Init ==
    /\ committed = Nothing /\ online = {} /\ changes = 0
    /\ job = [w \in Workers |-> NoEvent] /\ offline = {}
    /\ stream = [v \in Viewers |-> "idle"]
    /\ listed = [v \in Viewers |-> Nothing]
    /\ inbox = [v \in Viewers |-> <<>>]
    /\ event = [v \in Viewers |-> NoEvent]
    /\ granted = [v \in Viewers |-> TRUE]
    /\ wire = [v \in Viewers |-> <<>>]
    /\ view = [v \in Viewers |-> Nothing]
    /\ fetch = [v \in Viewers |-> "todo"] /\ answer = [v \in Viewers |-> Nothing]
    /\ due = [v \in Viewers |-> Nothing]
    /\ overtaken = [v \in Viewers |-> FALSE]
    /\ late = [v \in Viewers |-> 0]
    /\ passes = 0 /\ faults = 0

\* The next step of a stream handler.
Serve(v) ==
    \/ Open(v) \/ ReadHosts(v) \/ Subscribe(v) \/ FirstRecheck(v) \/ WriteSync(v)
    \/ Take(v) \/ WriteEvent(v)

\* The user asks for the list again.
Refresh(v) ==
    /\ fetch[v] = "done"
    /\ fetch' = [fetch EXCEPT ![v] = "todo"]
    /\ UNCHANGED <<store, ingest, server, inbox, granted, wire, view, answer,
                   overtaken, due, late, bounds>>

Follow(v) == Receive(v) \/ Reconnect(v)
Reload(v) == Fetch(v) \/ Fetched(v)

Next ==
    \/ \E w \in Workers : \/ \E h \in Hosts : Commit(w, h)
                          \/ \E lost \in SUBSET Viewers : Publish(w, lost)
                          \/ FailRequest(w)
    \/ \E S \in SUBSET Hosts : Reconcile(S)
    \/ \E e \in offline, lost \in SUBSET Viewers : PublishOffline(e, lost)
    \/ FailReconcile
    \/ \E v \in Viewers : \/ Serve(v) \/ RecheckTimer(v) \/ OpenFails(v) \/ Break(v)
                          \/ Revoke(v) \/ Follow(v) \/ Reload(v) \/ Refresh(v)

Spec == Init /\ [][Next]_vars

\* Requests are processed, handlers and browsers run, and the recheck timer
\* fires while the handler waits.
Fairness ==
    /\ \A w \in Workers : WF_vars(Publish(w, {}))
    /\ WF_vars(\E e \in offline : PublishOffline(e, {}))
    /\ \A v \in Viewers : /\ WF_vars(Serve(v)) /\ WF_vars(RecheckTimer(v))
                          /\ WF_vars(Follow(v)) /\ WF_vars(Reload(v))

FairSpec == Spec /\ Fairness

-----------------------------------------------------------------------------
(* Properties                                                              *)

States   == [Hosts -> Nat]
Messages == [full : BOOLEAN, state : States]

\* Variables have their types, and nothing out of a viewer's scope is ever
\* listed, sent or shown.
TypeOK ==
    /\ committed \in States /\ online \subseteq Hosts /\ changes \in Nat
    /\ job \in [Workers -> Events] /\ offline \subseteq Events
    /\ stream \in [Viewers -> {"idle", "list", "subscribe", "recheck", "sync",
                               "open", "write", "ended", "dead"}]
    /\ inbox \in [Viewers -> Seq(Events)] /\ event \in [Viewers -> Events]
    /\ granted \in [Viewers -> BOOLEAN]
    /\ wire \in [Viewers -> Seq(Messages)]
    /\ fetch \in [Viewers -> {"todo", "sent", "done"}]
    /\ overtaken \in [Viewers -> BOOLEAN] /\ late \in [Viewers -> Nat]
    /\ passes \in Nat /\ faults \in Nat
    /\ \A f \in {listed, view, answer, due} : f \in [Viewers -> States]
    /\ \A v \in Viewers, h \in Hosts : h \notin Scope[v] =>
         /\ listed[v][h] = 0 /\ view[v][h] = 0 /\ answer[v][h] = 0 /\ due[v][h] = 0
         /\ \A i \in DOMAIN wire[v] : wire[v][i].state[h] = 0

\* After access is revoked at most one message is still written to a stream:
\* the one whose recheck came just before.
OneLateWrite == \A v \in Viewers : late[v] <= 1

\* An open stream that has nothing left to send shows the list it began with
\* and, for every host, the last event Redis has delivered, in order and
\* without gaps, unless the answer to the page's own request came later.
ViewFollowsEvents ==
    \A v \in Viewers :
      stream[v] = "open" /\ inbox[v] = <<>> /\ wire[v] = <<>> /\ ~overtaken[v]
        => view[v] = due[v]

\* The stream of a viewer who has lost access ends and is not opened again,
\* even when no event comes.
RevokedStreamsEnd == \A v \in Viewers : ~granted[v] ~> stream[v] = "dead"

\* When changes come to an end, an open stream shows the committed hosts
\* (unless the answer to the page's own request came later than the list).
Converges ==
    \A v \in Viewers : <>[](stream[v] = "open" /\ ~overtaken[v] => view[v] = Visible(v))
=============================================================================

---------------------------- MODULE MetricWindow ----------------------------
(***************************************************************************)
(* The Redis side of a metric report: after the report is committed, the   *)
(* ingest service appends one point to the list of every metric, replaces  *)
(* the latest snapshot and publishes the host.  The lists are written by   *)
(* a pipeline, not a transaction: other clients see every command, and the *)
(* connection may be lost after any of them.  Lists of different hosts     *)
(* have different keys, so this is the part of one host.                   *)
(***************************************************************************)
EXTENDS Integers, Sequences

CONSTANTS
    Keys,        \* metrics that have a window
    MaxPoints,   \* the length of a window (60 in the server)
    MaxReports,  \* bound: reports
    MaxFaults    \* bound: failed calls and keys that expire

ASSUME WindowAssumption ==
    /\ Keys # {} /\ MaxPoints \in Nat \ {0}
    /\ MaxReports \in Nat /\ MaxFaults \in Nat

VARIABLES
    clock,      \* the time of the last report
    stage,      \* where the handler is in processMetricBatch
    at,         \* the time of the report in hand
    todo,       \* keys its pipeline has still to append to
    key,        \* the key it is at
    window,     \* Redis: the times in each list, newest first
    snapshot,   \* Redis: the time of the report in the latest snapshot, or 0
    published,  \* the time of the last report that was published
    expired,    \* history: has a key expired?
    unread,     \* keys that a reader of the history has still to read
    history,    \* what it has read so far, as it returns it
    faults

work   == <<stage, at, todo, key>>
reader == <<unread, history>>
vars == <<clock, stage, at, todo, key, window, snapshot, published, expired, unread,
          history, faults>>

Fault == faults < MaxFaults /\ faults' = faults + 1

Goto(s) == stage' = s

\* Fault variant: the report keeps a time of the agent's, whose clock is ahead.
ReportAhead ==
    /\ stage = "idle"
    /\ clock < MaxReports
    /\ clock' = clock + 1
    /\ Goto("next")
    /\ at' = clock + 2
    /\ todo' = Keys
    /\ UNCHANGED <<key, window, snapshot, published, expired, reader, faults>>

\* The handler reads the clock and commits the report.  An agent sends a report
\* when the one before has been answered.
Report ==
    /\ stage = "idle"
    /\ clock < MaxReports
    /\ clock' = clock + 1
    /\ Goto("next")
    /\ at' = clock + 1
    /\ todo' = Keys
    /\ UNCHANGED <<key, window, snapshot, published, expired, reader, faults>>

\* Fault variant: the point is appended at the old end (RPUSH).
PushOld(k) ==
    /\ stage = "next" /\ k \in todo
    /\ window' = [window EXCEPT ![k] = Append(@, at)]
    /\ key' = k
    /\ todo' = todo \ {k}
    /\ Goto("trim")
    /\ UNCHANGED <<clock, at, snapshot, published, expired, reader, faults>>

\* AppendHeartbeatMetrics, for each key in any order: LPUSH ...
Push(k) ==
    /\ stage = "next" /\ k \in todo
    /\ window' = [window EXCEPT ![k] = <<at>> \o @]
    /\ key' = k
    /\ todo' = todo \ {k}
    /\ Goto("trim")
    /\ UNCHANGED <<clock, at, snapshot, published, expired, reader, faults>>

\* The first n points.
Newest(s, n) == SubSeq(s, 1, IF Len(s) < n THEN Len(s) ELSE n)

\* Fault variant: LTRIM 0 maxPoints keeps one point too many.
TrimOneMore ==
    /\ stage = "trim"
    /\ window' = [window EXCEPT ![key] = Newest(@, MaxPoints + 1)]
    /\ Goto(IF todo = {} THEN "save" ELSE "next")
    /\ UNCHANGED <<clock, at, todo, key, snapshot, published, expired, reader, faults>>

\* Fault variant: the request goes on to its snapshot when one key is done.
TrimFirst ==
    /\ stage = "trim"
    /\ window' = [window EXCEPT ![key] = Newest(@, MaxPoints)]
    /\ Goto("save")
    /\ UNCHANGED <<clock, at, todo, key, snapshot, published, expired, reader, faults>>

\* ... and LTRIM 0 maxPoints-1 (EXPIRE renews the key's lifetime).
Trim ==
    /\ stage = "trim"
    /\ window' = [window EXCEPT ![key] = Newest(@, MaxPoints)]
    /\ Goto(IF todo = {} THEN "save" ELSE "next")
    /\ UNCHANGED <<clock, at, todo, key, snapshot, published, expired, reader, faults>>

\* SaveMetricSnapshot.
SaveMetricSnapshot ==
    /\ stage = "save"
    /\ snapshot' = at
    /\ Goto("publish")
    /\ UNCHANGED <<clock, at, todo, key, window, published, expired, reader, faults>>

\* PublishHostUpsert; the report is acknowledged.
Publish ==
    /\ stage = "publish"
    /\ published' = at
    /\ Goto("idle")
    /\ UNCHANGED <<clock, at, todo, key, window, snapshot, expired, reader, faults>>

\* A call fails: the request ends there, what Redis has executed stays.
Fail ==
    /\ stage # "idle"
    /\ Fault
    /\ Goto("idle")
    /\ UNCHANGED <<clock, at, todo, key, window, snapshot, published, expired, reader>>

\* Redis drops a key of a host that has not reported for windowTTL.
Expire(k) ==
    /\ stage = "idle"
    /\ window[k] # <<>>
    /\ Fault
    /\ window' = [window EXCEPT ![k] = <<>>]
    /\ expired' = TRUE
    /\ UNCHANGED <<clock, work, snapshot, published, reader>>

ExpireSnapshot ==
    /\ stage = "idle"
    /\ snapshot # 0
    /\ Fault
    /\ snapshot' = 0
    /\ expired' = TRUE
    /\ UNCHANGED <<clock, work, window, published, reader>>

\* decodeMetricPoints: a list is stored newest first and returned oldest first.
Decoded(s) == [i \in 1..Len(s) |-> s[Len(s) + 1 - i]]

\* GetHostMetricHistory: a pipeline reads the list of every key.
StartReading ==
    /\ unread = {}
    /\ unread' = Keys
    /\ history' = [k \in Keys |-> <<>>]
    /\ UNCHANGED <<clock, work, window, snapshot, published, expired, faults>>

Read(k) ==
    /\ k \in unread
    /\ unread' = unread \ {k}
    /\ history' = [history EXCEPT ![k] = Decoded(window[k])]
    /\ UNCHANGED <<clock, work, window, snapshot, published, expired, faults>>

-----------------------------------------------------------------------------

Init ==
    /\ clock = 0
    /\ stage = "idle"
    /\ at = 0
    /\ todo = {}
    /\ key \in Keys
    /\ window = [k \in Keys |-> <<>>]
    /\ snapshot = 0 /\ published = 0
    /\ expired = FALSE
    /\ unread = {}
    /\ history = [k \in Keys |-> <<>>]
    /\ faults = 0

Next ==
    \/ Report \/ Trim \/ SaveMetricSnapshot \/ Publish \/ Fail
    \/ \E k \in Keys : Push(k) \/ Expire(k) \/ Read(k)
    \/ ExpireSnapshot \/ StartReading

Spec == Init /\ [][Next]_vars

-----------------------------------------------------------------------------
(* Properties                                                              *)

\* Variables have their types, and no time is later than the server's clock.
TypeOK ==
    /\ clock \in Nat /\ faults \in Nat
    /\ snapshot \in 0..clock /\ published \in 0..clock
    /\ stage \in {"idle", "next", "trim", "save", "publish"}
    /\ at \in 0..clock
    /\ todo \subseteq Keys /\ key \in Keys
    /\ window \in [Keys -> Seq(1..clock)] /\ history \in [Keys -> Seq(1..clock)]
    /\ expired \in BOOLEAN /\ unread \subseteq Keys

Ascending(s) == \A i, j \in DOMAIN s : i < j => s[i] < s[j]

\* A reader gets every list in the order of time, whenever it reads and however
\* often appending has been cut off, and above the limit only by the point being
\* appended and one for each call that failed.
HistoryInOrder ==
    \A k \in Keys : Ascending(history[k]) /\ Len(history[k]) <= MaxPoints + 1 + faults

\* When the lists have been written, every one of them ends with the report
\* in hand and is within its limit, although an earlier request may have
\* been cut off between LPUSH and LTRIM or between two keys.
WindowsComplete ==
    stage \in {"save", "publish"} =>
      \A k \in Keys : /\ window[k] # <<>> /\ window[k][1] = at
                      /\ Len(window[k]) <= MaxPoints

\* What a published report announces is in Redis: the snapshot and the newest
\* point of every list are not older than it, unless a key has expired.
DataPrecedesEvent ==
    expired \/ /\ snapshot >= published
               /\ \A k \in Keys : published # 0 =>
                    window[k] # <<>> /\ window[k][1] >= published
=============================================================================

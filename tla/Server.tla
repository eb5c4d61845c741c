------------------------------- MODULE Server -------------------------------
(***************************************************************************)
(* The life of the server process: it loads its configuration, opens its   *)
(* storage, binds two listeners, runs four workers, and stops all of them  *)
(* within one deadline when it is told to or when one of them fails.       *)
(***************************************************************************)
EXTENDS Naturals, Sequences

CONSTANTS
    MaxRPCs,      \* bound: concurrent RPC handlers
    MaxRequests   \* bound: concurrent HTTP handlers

VARIABLES
    cfg,        \* the configuration: is it readable, are its parts valid, is there a Web directory
    main,       \* where the main goroutine is
    opened,     \* storage and directories that are open
    listeners,  \* the bound ports
    worker,     \* the four workers; "nil" and "err" are results about to be sent
    probe,      \* what the probe worker is doing
    scanning,   \* the reconciler is in the middle of a scan
    errCh,      \* the results of the workers
    signalled,  \* ctx is cancelled: SIGINT or SIGTERM
    cancelled,  \* workCtx is cancelled by serve
    graceful,   \* GracefulStop of the gRPC server
    shutdown,   \* Shutdown of the HTTP server
    expired,    \* shutdownCtx has reached its deadline
    rpcs,       \* gRPC handlers, each of them on an open connection
    requests,   \* HTTP handlers, each of them on an open connection
    orphans,    \* handlers that go on after their connection was closed
    result,     \* what serve took from errCh
    exit        \* how the process ended

storage == <<opened, listeners>>
clients == <<rpcs, requests, orphans>>
work == <<worker, probe, scanning, errCh>>
stopping == <<cancelled, graceful, shutdown, expired>>
vars == <<cfg, main, storage, work, signalled, stopping, clients, result, exit>>

Workers == {"HTTP", "gRPC", "probe-worker", "offline reconciler"}
Stages == <<"postgres", "redis", "store", "admin", "web">>

Init ==
    /\ cfg \in [readable : BOOLEAN, master : BOOLEAN, unified : BOOLEAN, web : BOOLEAN]
    /\ main = "load"
    /\ opened = {}
    /\ listeners = {}
    /\ worker = [w \in Workers |-> "none"]
    /\ probe = "idle"
    /\ scanning = FALSE
    /\ errCh = <<>>
    /\ signalled = FALSE
    /\ cancelled = FALSE
    /\ graceful = "serving"
    /\ shutdown = "serving"
    /\ expired = FALSE
    /\ rpcs = 0
    /\ requests = 0
    /\ orphans = 0
    /\ result = "none"
    /\ exit = "none"

\* A signal cancels ctx, at any time.
Signal ==
    /\ main # "exited"
    /\ ~signalled
    /\ signalled' = TRUE
    /\ UNCHANGED <<cfg, main, storage, work, stopping, clients, result, exit>>

-----------------------------------------------------------------------------
(* Start                                                                   *)

\* The configuration is read and its older part validated; Validate asks for that part
\* again and for what only the unified server has.
masterValidate(c) == c.master
LoadFromFile(c) == c.readable /\ masterValidate(c)
Validate(c) == masterValidate(c) /\ c.unified
LoadConfig(c) == LoadFromFile(c) /\ Validate(c)

\* main.run: without a valid configuration the process ends.
Load ==
    /\ main = "load"
    /\ IF LoadConfig(cfg)
       THEN main' = Stages[1] /\ UNCHANGED exit
       ELSE main' = "exited" /\ exit' = "error"
    /\ UNCHANGED <<cfg, storage, work, signalled, stopping, clients, result>>

\* What a stage of New opens: a pool and a client before they are tried, the directory
\* only when it has an index.html.
Opens(stage) == {stage} \cap {"postgres", "redis", "web"}

After(i) == IF i = Len(Stages) \/ (i + 1 = Len(Stages) /\ ~cfg.web) THEN "listen HTTP" ELSE Stages[i + 1]

\* One stage of New succeeds.  The first four use a context derived from ctx.
Open ==
    /\ \E i \in DOMAIN Stages :
         /\ main = Stages[i]
         /\ ~signalled \/ main = "web"
         /\ opened' = opened \cup Opens(main)
         /\ main' = After(i)
    /\ UNCHANGED <<cfg, listeners, work, signalled, stopping, clients, result, exit>>

\* A stage fails: New closes what it has opened and the process ends.
OpenFails ==
    /\ \E i \in DOMAIN Stages : main = Stages[i]
    /\ opened' = {}
    /\ main' = "exited"
    /\ exit' = "error"
    /\ UNCHANGED <<cfg, listeners, work, signalled, stopping, clients, result>>

\* Run binds the two ports, unless ctx is already cancelled.
ListenHTTP ==
    /\ main = "listen HTTP"
    /\ \/ signalled /\ main' = "release" /\ exit' = "ok" /\ UNCHANGED listeners
       \/ ~signalled /\ main' = "listen gRPC" /\ listeners' = {"http"} /\ UNCHANGED exit
       \/ ~signalled /\ main' = "release" /\ exit' = "error" /\ UNCHANGED listeners
    /\ UNCHANGED <<cfg, opened, work, signalled, stopping, clients, result>>

ListenGRPC ==
    /\ main = "listen gRPC"
    /\ \/ main' = "start" /\ listeners' = listeners \cup {"grpc"} /\ UNCHANGED exit
       \/ main' = "release" /\ exit' = "error" /\ UNCHANGED listeners
    /\ UNCHANGED <<cfg, opened, work, signalled, stopping, clients, result>>

\* serve starts the workers.
StartWorkers ==
    /\ main = "start"
    /\ main' = "select"
    /\ worker' = [w \in Workers |-> "running"]
    /\ UNCHANGED <<cfg, storage, probe, scanning, errCh, signalled, stopping, clients, result, exit>>

-----------------------------------------------------------------------------
(* The workers                                                             *)

workCtxDone == signalled \/ cancelled

\* The probe worker asks its target, with a timeout and workCtx, then reports what it
\* found in the same way, and waits for its ticker or for workCtx.
ProbeTarget ==
    /\ worker["probe-worker"] = "running"
    /\ probe = "idle"
    /\ probe' = "probing"
    /\ UNCHANGED <<cfg, main, storage, worker, scanning, errCh, signalled, stopping, clients, result, exit>>

ProbeReport ==
    /\ probe = "probing"
    /\ probe' = "reporting"
    /\ UNCHANGED <<cfg, main, storage, worker, scanning, errCh, signalled, stopping, clients, result, exit>>

ProbeDone ==
    /\ probe = "reporting"
    /\ probe' = "idle"
    /\ UNCHANGED <<cfg, main, storage, worker, scanning, errCh, signalled, stopping, clients, result, exit>>

\* The reconciler scans at a tick; an error of a scan is only logged.
Scan ==
    /\ worker["offline reconciler"] = "running"
    /\ ~scanning
    /\ scanning' = TRUE
    /\ UNCHANGED <<cfg, main, storage, worker, probe, errCh, signalled, stopping, clients, result, exit>>

ScanDone ==
    /\ scanning
    /\ scanning' = FALSE
    /\ UNCHANGED <<cfg, main, storage, worker, probe, errCh, signalled, stopping, clients, result, exit>>

\* What a worker may return now: HTTP's Serve ends with an error, when Shutdown begins or
\* its listener fails; gRPC's ends with nil once the server has stopped, or when its
\* listener fails; the loops return nil when workCtx is done and they are waiting.
Outcomes(w) ==
    CASE w = "HTTP"         -> {"err"}
      [] w = "gRPC"         -> CASE graceful = "stopped" -> {"nil"}
                                 [] graceful = "waiting" -> {}
                                 [] OTHER                -> {"err"}
      [] w = "probe-worker" -> IF workCtxDone /\ probe = "idle" THEN {"nil"} ELSE {}
      [] OTHER              -> IF workCtxDone /\ ~scanning THEN {"nil"} ELSE {}

Returns(w) ==
    /\ worker[w] = "running"
    /\ \E o \in Outcomes(w) : worker' = [worker EXCEPT ![w] = o]
    /\ UNCHANGED <<cfg, main, storage, probe, scanning, errCh, signalled, stopping, clients, result, exit>>

\* Fault variant: room for one result.
CapacityOne == 1

\* The capacity of errCh.
Capacity == 4

Sends(w) ==
    /\ worker[w] \in {"nil", "err"}
    /\ Len(errCh) < Capacity
    /\ errCh' = Append(errCh, worker[w])
    /\ worker' = [worker EXCEPT ![w] = "done"]
    /\ UNCHANGED <<cfg, main, storage, probe, scanning, signalled, stopping, clients, result, exit>>

-----------------------------------------------------------------------------
(* Handlers: streams of agents, streams to browsers, requests              *)

StartRPC ==
    /\ worker["gRPC"] = "running" /\ graceful \in {"serving", "asked"}
    /\ rpcs < MaxRPCs
    /\ rpcs' = rpcs + 1
    /\ UNCHANGED <<cfg, main, storage, work, signalled, stopping, requests, orphans, result, exit>>

EndRPC ==
    /\ rpcs > 0
    /\ rpcs' = rpcs - 1
    /\ UNCHANGED <<cfg, main, storage, work, signalled, stopping, requests, orphans, result, exit>>

StartRequest ==
    /\ worker["HTTP"] = "running" /\ shutdown \in {"serving", "asked"}
    /\ requests < MaxRequests
    /\ requests' = requests + 1
    /\ UNCHANGED <<cfg, main, storage, work, signalled, stopping, rpcs, orphans, result, exit>>

EndRequest ==
    /\ requests > 0
    /\ requests' = requests - 1
    /\ UNCHANGED <<cfg, main, storage, work, signalled, stopping, rpcs, orphans, result, exit>>

\* A handler without a connection notices that its context is done.
EndOrphan ==
    /\ orphans > 0
    /\ orphans' = orphans - 1
    /\ UNCHANGED <<cfg, main, storage, work, signalled, stopping, rpcs, requests, result, exit>>

-----------------------------------------------------------------------------
(* Stop                                                                    *)

\* serve goes on when ctx is done or when a worker has returned.
Select ==
    /\ main = "select"
    /\ \/ signalled /\ UNCHANGED <<errCh, result>>
       \/ /\ errCh # <<>>
          /\ errCh' = Tail(errCh)
          /\ result' = IF ~signalled /\ Head(errCh) = "nil" THEN "err" ELSE Head(errCh)
    /\ main' = "wait gRPC"
    /\ cancelled' = TRUE
    /\ graceful' = "asked"
    /\ shutdown' = "asked"
    /\ UNCHANGED <<cfg, storage, worker, probe, scanning, signalled, expired, clients, exit>>

\* The goroutine of GracefulStop closes the listener and waits for the RPCs.
GracefulStop ==
    /\ graceful = "asked"
    /\ graceful' = "waiting"
    /\ listeners' = listeners \ {"grpc"}
    /\ UNCHANGED <<cfg, main, opened, work, signalled, cancelled, shutdown, expired, clients, result, exit>>

GracefullyStopped ==
    /\ graceful = "waiting"
    /\ rpcs = 0
    /\ graceful' = "stopped"
    /\ UNCHANGED <<cfg, main, storage, work, signalled, cancelled, shutdown, expired, clients, result, exit>>

\* The goroutine of Shutdown does the same for HTTP, and gives up at the deadline.
Shutdown ==
    /\ shutdown = "asked"
    /\ shutdown' = "waiting"
    /\ listeners' = listeners \ {"http"}
    /\ UNCHANGED <<cfg, main, opened, work, signalled, cancelled, graceful, expired, clients, result, exit>>

ShutdownReturns ==
    /\ shutdown = "waiting"
    /\ \/ requests = 0 /\ shutdown' = "stopped"
       \/ expired /\ shutdown' = "failed"
    /\ UNCHANGED <<cfg, main, storage, work, signalled, cancelled, graceful, expired, clients, result, exit>>

\* Five seconds have passed since serve began to stop.
Expire ==
    /\ main \in {"wait gRPC", "wait HTTP"}
    /\ ~expired
    /\ expired' = TRUE
    /\ UNCHANGED <<cfg, main, storage, work, signalled, cancelled, graceful, shutdown, clients, result, exit>>

\* serve waits for GracefulStop, or closes the connections at the deadline.
WaitGRPC ==
    /\ main = "wait gRPC"
    /\ \/ graceful = "stopped" /\ UNCHANGED <<listeners, graceful, rpcs, orphans>>
       \/ /\ expired
          /\ graceful' = "stopped"
          /\ listeners' = listeners \ {"grpc"}
          /\ rpcs' = 0
          /\ orphans' = orphans + rpcs
    /\ main' = "wait HTTP"
    /\ UNCHANGED <<cfg, opened, work, signalled, cancelled, shutdown, expired, requests, result, exit>>

\* Then for Shutdown; connections that are left are closed.
WaitHTTP ==
    /\ main = "wait HTTP"
    /\ \/ shutdown = "stopped" /\ UNCHANGED <<requests, orphans>>
       \/ shutdown = "failed" /\ requests' = 0 /\ orphans' = orphans + requests
    /\ main' = "wait workers"
    /\ UNCHANGED <<cfg, storage, work, signalled, stopping, rpcs, result, exit>>

\* Fault variant: nobody waits for the workers.
JoinAtOnce ==
    /\ main = "wait workers"
    /\ main' = "release"
    /\ exit' = IF signalled \/ result \in {"none", "nil"} THEN "ok" ELSE "error"
    /\ UNCHANGED <<cfg, storage, work, signalled, stopping, clients, result>>

\* workers.Wait, and what serve returns.
Join ==
    /\ main = "wait workers"
    /\ \A w \in Workers : worker[w] = "done"
    /\ main' = "release"
    /\ exit' = IF signalled \/ result \in {"none", "nil"} THEN "ok" ELSE "error"
    /\ UNCHANGED <<cfg, storage, work, signalled, stopping, clients, result>>

\* The deferred calls of Run: first the listeners, then Close.
Release ==
    /\ main = "release"
    /\ listeners' = {}
    /\ main' = "close"
    /\ UNCHANGED <<cfg, opened, work, signalled, stopping, clients, result, exit>>

Close ==
    /\ main = "close"
    /\ opened' = {}
    /\ main' = "exited"
    /\ UNCHANGED <<cfg, listeners, work, signalled, stopping, clients, result, exit>>

-----------------------------------------------------------------------------
Main ==
    \/ Load \/ Open \/ OpenFails \/ ListenHTTP \/ ListenGRPC \/ StartWorkers
    \/ Select \/ WaitGRPC \/ WaitHTTP \/ Join \/ Release \/ Close

Next ==
    \/ Signal
    \/ Main
    \/ ProbeTarget \/ ProbeReport \/ ProbeDone \/ Scan \/ ScanDone
    \/ \E w \in Workers : Returns(w) \/ Sends(w)
    \/ StartRPC \/ EndRPC \/ StartRequest \/ EndRequest \/ EndOrphan
    \/ GracefulStop \/ GracefullyStopped \/ Shutdown \/ ShutdownReturns \/ Expire

Spec == Init /\ [][Next]_vars

\* Goroutines go on and timers fire; requests of the probe worker and scans end, for they
\* have a timeout or a context; a loop whose context is done returns, and Serve returns
\* from a server that is being stopped.  Nothing is assumed of clients, their handlers
\* or signals.
FairSpec ==
    /\ Spec
    /\ WF_vars(Main)
    /\ WF_vars(ProbeReport) /\ WF_vars(ProbeDone) /\ WF_vars(ScanDone)
    /\ \A w \in {"probe-worker", "offline reconciler"} : SF_vars(Returns(w))
    /\ WF_vars(shutdown \notin {"serving", "asked"} /\ Returns("HTTP"))
    /\ WF_vars(graceful = "stopped" /\ Returns("gRPC"))
    /\ \A w \in Workers : WF_vars(Sends(w))
    /\ WF_vars(GracefulStop) /\ WF_vars(GracefullyStopped)
    /\ WF_vars(Shutdown) /\ WF_vars(ShutdownReturns) /\ WF_vars(Expire)

-----------------------------------------------------------------------------
(* Properties                                                              *)

\* Storage is open as long as a worker, or a handler with a connection, may use it, and a
\* process that has ended, at whatever point of its start or stop, has left nothing open
\* and nothing running (New, Run, serve, Close; the comment at
\* server/internal/app/app.go, line 102).
OrderlyExit ==
    /\ (\E w \in Workers : worker[w] = "running") \/ rpcs > 0 \/ requests > 0
         => {"postgres", "redis"} \subseteq opened
    /\ main = "exited" => /\ opened = {}
                          /\ listeners = {}
                          /\ \A w \in Workers : worker[w] \in {"none", "done"}

\* A process that is told to stop, or in which a worker has ended, exits, however long
\* agents and browsers keep their streams (serve; docs/superpowers/specs/
\* 2026-10-11-unified-backend.md, line 14).
ServerExits ==
    signalled \/ (\E w \in Workers : worker[w] \in {"nil", "err", "done"}) ~> main = "exited"

=============================================================================

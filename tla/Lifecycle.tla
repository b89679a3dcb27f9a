----------------------------- MODULE Lifecycle -----------------------------
(***************************************************************************)
(* The daemon from Run to the end of Shutdown (internal/daemon/daemon.go): *)
(* the periodic scanner, the replication loop, the idle tracker, the gRPC  *)
(* and the HTTP server with the requests they serve, and the catalog that  *)
(* all of them use.  Scans are those of module Scans.                      *)
(*                                                                         *)
(* Shutdown ends them one after the other before it closes the catalog.    *)
(* The ten seconds it gives the HTTP server run from before the gRPC       *)
(* server is stopped, which waits for its calls without a limit.           *)
(***************************************************************************)
EXTENDS Scans

CONSTANTS
  Calls,      \* calls of the gRPC server
  Replicates  \* replicator.enabled

ASSUME LifecycleAssumption == Calls \cap Requests = {}

Servers == {"grpc", "http"}

VARIABLES
  phase,    \* the step of Run and Shutdown
  ctxScan,  \* the scanner's context is cancelled
  ctxLoop,  \* the replication loop's
  scanner,  \* runPeriodicScanner
  loop,     \* runPeriodicReplicator
  tracker,  \* Tracker.loop
  expired,  \* the ten seconds are over
  server,   \* per server: not started, up, stopped, or up although Shutdown was through with it
  inFlight, \* calls and requests being served, but for scans
  catalog   \* open or closed

vars == <<disk, entry, scanMu, stopped, scan, phase, ctxScan, ctxLoop, scanner, loop,
          tracker, expired, server, inFlight, catalog>>

Phases == <<"run", "scanner", "loop", "tracker", "grpc", "lock", "http", "catalog", "exit">>

Passed(p) == \E i, j \in DOMAIN Phases : Phases[i] = p /\ Phases[j] = phase /\ i < j

Handling(r) == r \in inFlight \/ (r \in Requests /\ scan[r].pc # "none")

Init ==
  /\ ScansInit
  /\ phase = "run"
  /\ ctxScan = FALSE /\ ctxLoop = FALSE
  /\ scanner = "scan" /\ tracker = "tick"
  /\ loop = IF Replicates THEN "sync" ELSE "done"
  /\ expired = FALSE
  /\ server = [s \in Servers |-> "new"]
  /\ inFlight = {}
  /\ catalog = "open"

ServersIdle == UNCHANGED <<phase, expired, server, inFlight, catalog>>
LoopsIdle   == UNCHANGED <<ctxScan, ctxLoop, scanner, loop, tracker>>

-----------------------------------------------------------------------------
\* The periodic scanner: a scan at once, then at each tick until the context
\* is cancelled.  The context is the scan's.
BeginScan ==
  /\ scanner = "scan"
  /\ IF scanMu = Free THEN Enter(Scanner, Files) /\ scanner' = "scanning"
                      ELSE scanner' = "wait" /\ UNCHANGED scanVars
  /\ ServersIdle /\ UNCHANGED <<ctxScan, ctxLoop, loop, tracker>>

EndScan ==
  /\ scanner = "scanning" /\ scan[Scanner] = NoScan
  /\ scanner' = "wait"
  /\ ServersIdle /\ UNCHANGED <<ctxScan, ctxLoop, loop, tracker, scanVars>>

\* Mistake: a tick wins over the cancelled context.
ScanTickOnly ==
  /\ scanner = "wait"
  /\ scanner' = "scan"
  /\ ServersIdle /\ UNCHANGED <<ctxScan, ctxLoop, loop, tracker, scanVars>>

ScanTick ==
  /\ scanner = "wait"
  /\ scanner' = IF ctxScan THEN "done" ELSE "scan"
  /\ ServersIdle /\ UNCHANGED <<ctxScan, ctxLoop, loop, tracker, scanVars>>

\* The replication loop.  A sync that finds its context cancelled returns.
EndSync ==
  /\ loop = "sync"
  /\ loop' = "wait"
  /\ ServersIdle /\ UNCHANGED <<ctxScan, ctxLoop, scanner, tracker, scanVars>>

LoopTick ==
  /\ loop = "wait"
  /\ loop' = IF ctxLoop THEN "done" ELSE "sync"
  /\ ServersIdle /\ UNCHANGED <<ctxScan, ctxLoop, scanner, tracker, scanVars>>

ScannerStep == BeginScan \/ EndScan \/ ScanTick

LoopStep == EndSync \/ LoopTick

-----------------------------------------------------------------------------
\* The servers start in goroutines of their own, which may be late.
StartServer(s) ==
  /\ server[s] = "new"
  /\ phase # "exit"
  /\ server' = [server EXCEPT ![s] = IF Passed(IF s = "grpc" THEN "grpc" ELSE "http")
                                     THEN "late" ELSE "up"]
  /\ LoopsIdle /\ UNCHANGED <<phase, expired, inFlight, catalog, scanVars>>

Serving(s) == server[s] \in {"up", "late"} /\ phase # "exit"

Receive(r) ==
  /\ ~Handling(r)
  /\ Serving(IF r \in Calls THEN "grpc" ELSE "http")
  /\ inFlight' = inFlight \cup {r}
  /\ LoopsIdle /\ UNCHANGED <<phase, expired, server, catalog, scanVars>>

Answer(r) ==
  /\ r \in inFlight
  /\ inFlight' = inFlight \ {r}
  /\ LoopsIdle /\ UNCHANGED <<phase, expired, server, catalog, scanVars>>

\* POST /api/scan
ReceiveScan(r, root) ==
  /\ ~Handling(r)
  /\ Serving("http")
  /\ Enter(r, root)
  /\ LoopsIdle /\ ServersIdle

\* A scan's context ends with its caller, or with the server's.
ContextEnds(p) ==
  /\ IF p = Scanner THEN ctxScan \/ stopped ELSE TRUE
  /\ Cancel(p)
  /\ LoopsIdle /\ ServersIdle

-----------------------------------------------------------------------------
\* A signal, or a server that could not start.
Shutdown ==
  /\ phase = "run"
  /\ phase' = "scanner"
  /\ ctxScan' = TRUE
  /\ UNCHANGED <<ctxLoop, scanner, loop, tracker, expired, server, inFlight, catalog, scanVars>>

\* <-scanDone, then replCancel
AwaitScanner ==
  /\ phase = "scanner" /\ scanner = "done"
  /\ phase' = "loop"
  /\ ctxLoop' = TRUE
  /\ UNCHANGED <<ctxScan, scanner, loop, tracker, expired, server, inFlight, catalog, scanVars>>

\* Mistake: the loop is told to end and not waited for.
LeaveLoop ==
  /\ phase = "loop"
  /\ phase' = "tracker"
  /\ LoopsIdle /\ UNCHANGED <<expired, server, inFlight, catalog, scanVars>>

\* <-replDone
AwaitLoop ==
  /\ phase = "loop" /\ loop = "done"
  /\ phase' = "tracker"
  /\ LoopsIdle /\ UNCHANGED <<expired, server, inFlight, catalog, scanVars>>

\* Tracker.Stop waits for its goroutine.
StopTracker ==
  /\ phase = "tracker"
  /\ tracker' = "done"
  /\ phase' = "grpc"
  /\ UNCHANGED <<ctxScan, ctxLoop, scanner, loop, expired, server, inFlight, catalog, scanVars>>

Expire ==
  /\ phase \in {"grpc", "lock", "http"} /\ ~expired
  /\ expired' = TRUE
  /\ LoopsIdle /\ UNCHANGED <<phase, server, inFlight, catalog, scanVars>>

\* A server that is up stops taking requests; one that is not is left alone.
StopServing(s) ==
  /\ server[s] = "up"
  /\ server' = [server EXCEPT ![s] = "down"]
  /\ UNCHANGED phase

\* GracefulStop; the next step cancels scanCtx.
StopGrpc ==
  /\ phase = "grpc"
  /\ \/ StopServing("grpc") /\ UNCHANGED stopped
     \/ /\ \/ server["grpc"] = "new"
           \/ server["grpc"] = "down" /\ inFlight \cap Calls = {}
        /\ phase' = "lock"
        /\ stopped' = TRUE
        /\ UNCHANGED server
  /\ LoopsIdle /\ UNCHANGED <<expired, inFlight, catalog, disk, entry, scanMu, scan>>

\* scanMu.Lock and Unlock: a scan in progress ends first.
AwaitScan ==
  /\ phase = "lock" /\ scanMu = Free
  /\ phase' = "http"
  /\ LoopsIdle /\ UNCHANGED <<expired, server, inFlight, catalog, scanVars>>

\* http.Server.Shutdown, until its context expires.
StopHttp ==
  /\ phase = "http"
  /\ \/ StopServing("http")
     \/ /\ \/ server["http"] = "new"
           \/ server["http"] = "down" /\ (expired \/ \A r \in Requests : ~Handling(r))
        /\ phase' = "catalog"
        /\ UNCHANGED server
  /\ LoopsIdle /\ UNCHANGED <<expired, inFlight, catalog, scanVars>>

\* catalog.Close and CloseAll, and Run returns.
CloseCatalog ==
  /\ phase = "catalog"
  /\ catalog' = "closed"
  /\ phase' = "exit"
  /\ LoopsIdle /\ UNCHANGED <<expired, server, inFlight, scanVars>>

ShutdownStep ==
  AwaitScanner \/ AwaitLoop \/ StopTracker \/ StopGrpc \/ StopHttp \/ CloseCatalog

-----------------------------------------------------------------------------
Next ==
  \/ ScannerStep \/ LoopStep
  \/ \E s \in Servers : StartServer(s)
  \/ \E r \in Calls \cup Requests : Receive(r) \/ Answer(r)
  \/ \E r \in Requests, root \in Roots : ReceiveScan(r, root)
  \/ \E p \in Scanning : ContextEnds(p) \/ (ScanStep(p) /\ LoopsIdle /\ ServersIdle)
  \/ \E f \in Files : (ChangeFile(f) \/ RemoveEntry(f)) /\ LoopsIdle /\ ServersIdle
  \/ Shutdown \/ ShutdownStep \/ AwaitScan \/ Expire

Spec == Init /\ [][Next]_vars

\* Goroutines go on, a scan has the rest of a finite walk to do, calls are
\* answered and time passes.  A goroutine that waits for a mutex gets it in the
\* end though others keep trying it.
Fairness ==
  /\ WF_vars(ScannerStep) /\ WF_vars(LoopStep)
  /\ \A p \in Scanning : WF_vars(ScanStep(p) /\ LoopsIdle /\ ServersIdle)
  /\ \A r \in Calls : WF_vars(Answer(r))
  /\ WF_vars(ShutdownStep) /\ SF_vars(AwaitScan) /\ WF_vars(Expire)

FairSpec == Spec /\ Fairness
-----------------------------------------------------------------------------
TypeOK ==
  /\ ScansTypeOK
  /\ \E i \in DOMAIN Phases : phase = Phases[i]
  /\ ctxScan \in BOOLEAN /\ ctxLoop \in BOOLEAN /\ expired \in BOOLEAN
  /\ scanner \in {"scan", "scanning", "wait", "done"}
  /\ loop \in {"sync", "wait", "done"}
  /\ tracker \in {"tick", "done"}
  /\ server \in [Servers -> {"new", "up", "down", "late"}]
  /\ inFlight \subseteq Calls \cup Requests
  /\ catalog \in {"open", "closed"}

\* The catalog is closed when nobody works with it any more: no scan, no sync,
\* no call and no request.  Left out are requests that outlast the ten seconds,
\* and a server that came up only after Shutdown had been through with it.
ClosedWhenUnused ==
  catalog = "closed" =>
    /\ scanner = "done" /\ loop = "done"
    /\ \A c \in Calls : c \in inFlight => server["grpc"] = "late"
    /\ \A r \in Requests : Handling(r) => expired \/ server["http"] = "late"

\* Once HTTPServer.Stop has had the lock no scan works again, though requests
\* for scans still come in: what follows need not reckon with one.
NoScanAfterStop == Passed("lock") => Working = {}

\* A shutdown comes to its end, however long the scans and requests that it
\* meets would have gone on.
ShutdownEnds == phase # "run" ~> phase = "exit"
=============================================================================

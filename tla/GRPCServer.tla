----------------------------- MODULE GRPCServer -----------------------------
(***************************************************************************)
(* The driver's process: Driver.Run, the server of pkg/csi-common/server.go*)
(* with its goroutine serve, and the interceptors of pkg/csi-common/       *)
(* utils.go that every request goes through on its way to a service and    *)
(* back.  What the services do is the subject of NodeServer.               *)
(*                                                                         *)
(* Outside the program: grpc.Server (v1.59), which runs each request in a  *)
(* goroutine of its own, closes its listener when it is stopped, which     *)
(* removes a Unix socket, and does not recover panics; the file system     *)
(* that keeps the socket of a process that just ended; kubelet, which      *)
(* starts the container again.  Nothing in the repository calls Stop or    *)
(* ForceStop: they are modelled as the interface offers them.              *)
(***************************************************************************)
EXTENDS Naturals, Sequences

CONSTANTS
  Requests,       \* requests that are sent to the driver
  Endpoints,      \* what the flag --endpoint may be, see EndpointKinds
  Stops,          \* which of "graceful" (Stop) and "force" (ForceStop)
                  \*   somebody may call
  Faults          \* what may go wrong in the environment, see FaultKinds

(***************************************************************************)
(* "unix" and "tcp" in lower case; "upper", one of them in another case;   *)
(* "invalid", everything else.                                             *)
(***************************************************************************)
EndpointKinds == {"unix", "tcp", "upper", "invalid"}

(***************************************************************************)
(* "io": a directory, a file or a socket cannot be made or removed, or     *)
(* accepting connections fails; "signal": the process is killed.           *)
(***************************************************************************)
FaultKinds == {"io", "signal"}

ASSUME ServerAssumption ==
  /\ Endpoints \subseteq EndpointKinds
  /\ Stops \subseteq {"graceful", "force"}
  /\ Faults \subseteq FaultKinds

VARIABLES
  endpoint,       \* the flag --endpoint, the same in every process
  names,          \* --nodeid and --drivername: "given", or "missing" if one
                  \*   of them is empty
  main,           \* main goroutine: "setup", "start", "wait", or "dead" when
                  \*   the process has ended
  serve,          \* where goroutine serve is, "none" before Start
  wg,             \* counter of the WaitGroup
  server,         \* s.server: "nil", or the state of the grpc.Server
  socket,         \* whether the file of the Unix socket exists
  cause,          \* history: how the process ended, "none" while it runs
  id,             \* the package's request counter
  phase,          \* each request on its way through the chain
  depth,          \* the interceptor it is at
  ctxID,          \* log.CtxKey in its context, 0 before it is set
  result,         \* what its handler came to
  logged,         \* history: the lines logGRPC wrote for it
  earlier         \* history: the requests of this process that had their id
                  \*   when this one arrived

flags    == <<endpoint, names>>
process  == <<flags, main, serve, wg, server, socket, cause>>
requests == <<id, phase, depth, ctxID, result, logged, earlier>>
vars     == <<process, requests>>

ServeStages  == {"none", "parse", "remove", "listen", "new", "register",
                 "serving", "done"}
ServerStates == {"nil", "made", "serving", "draining", "stopped"}
Causes       == {"none", "fatal", "panic", "signal"}
Phases       == {"new", "in", "counted", "out", "answered", "lost"}
Results      == {"ok", "error", "panic"}

Up          == main # "dead"
InFlight(r) == phase[r] \in {"in", "counted", "out"}

-----------------------------------------------------------------------------
(* The process *)

(* Every goroutine ends with the process, and every request in flight. *)
Die(how) ==
  /\ main' = "dead"
  /\ cause' = how
  /\ phase' = [r \in Requests |-> IF InFlight(r) THEN "lost" ELSE phase[r]]
  /\ UNCHANGED <<flags, serve, wg, server>>
  /\ UNCHANGED <<id, depth, ctxID, result, logged, earlier>>

(* klog.Fatal and FatalLogMsg log and exit; no listener is closed. *)
Fatal == Die("fatal") /\ UNCHANGED socket

(* NewCSIDriver returns no driver without a name and a node. *)
NewCSIDriver == names = "given"

(* Driver.Run up to Start; NewServers makes the output directory. *)
NewServers ==
  /\ main = "setup"
  /\ NewCSIDriver
  /\ main' = "start"
  /\ UNCHANGED <<flags, serve, wg, server, socket, cause, requests>>

(* A slip in Start and serve: both call wg.Add. *)
StartAddingTwice ==
  /\ main = "start"
  /\ main' = "wait"
  /\ wg' = wg + 2
  /\ serve' = "parse"
  /\ UNCHANGED <<flags, server, socket, cause, requests>>

(* Start, then Run calls Wait, which returns when wg is 0. *)
Start ==
  /\ main = "start"
  /\ main' = "wait"
  /\ wg' = wg + 1
  /\ serve' = "parse"
  /\ UNCHANGED <<flags, server, socket, cause, requests>>

-----------------------------------------------------------------------------
(* Goroutine serve *)

(* It stands before a stage and goes on to the next. *)
ServeFrom(stage, next) ==
  /\ Up
  /\ serve = stage
  /\ serve' = next
  /\ UNCHANGED <<flags, main, wg, cause, requests>>

(* parseEndpoint ignores the case of the scheme; only "unix" has a socket  *)
(* file to remove.                                                         *)
ParseEndpoint ==
  /\ endpoint # "invalid"
  /\ ServeFrom("parse", IF endpoint = "unix" THEN "remove" ELSE "listen")
  /\ UNCHANGED <<server, socket>>

(* A slip in serve: the socket of an earlier process is left alone. *)
RemoveSocketNever ==
  /\ ServeFrom("remove", "listen")
  /\ UNCHANGED <<server, socket>>

(* os.Remove, whose os.IsNotExist is no error. *)
RemoveSocket ==
  /\ ServeFrom("remove", "listen")
  /\ socket' = FALSE
  /\ UNCHANGED server

(* net.Listen takes the scheme as it is written, and makes the socket file *)
(* of a Unix socket, which must not exist.                                 *)
CanListen == endpoint = "tcp" \/ (endpoint = "unix" /\ ~ socket)

Listen ==
  /\ CanListen
  /\ ServeFrom("listen", "new")
  /\ socket' = (socket \/ endpoint = "unix")
  /\ UNCHANGED server

(* grpc.NewServer with the interceptors, and the assignment to s.server. *)
NewServer ==
  /\ ServeFrom("new", "register")
  /\ server' = "made"
  /\ UNCHANGED socket

(* The services are registered and server.Serve accepts connections. *)
Serve ==
  /\ server = "made"
  /\ ServeFrom("register", "serving")
  /\ server' = "serving"
  /\ UNCHANGED socket

(* Serve returns nil after a stop, and the goroutine ends. *)
ServeReturns ==
  /\ server = "stopped"
  /\ ServeFrom("serving", "done")
  /\ UNCHANGED <<server, socket>>

(* The calls of klog.Fatal: in Run and NewServers, after parseEndpoint,    *)
(* os.Remove, net.Listen and Serve.                                        *)
StartupFails ==
  /\ Up
  /\ \/ main = "setup" /\ ~ NewCSIDriver
     \/ serve = "parse" /\ endpoint = "invalid"
     \/ serve = "listen" /\ ~ CanListen
     \/ /\ "io" \in Faults
        /\ \/ main = "setup" /\ NewCSIDriver
           \/ serve \in {"remove", "listen"}
           \/ serve = "serving" /\ server = "serving"
  /\ Fatal

(* Serve of a stopped server closes the listener and returns an error. *)
ServeStopped ==
  /\ Up
  /\ serve = "register"
  /\ server = "stopped"
  /\ socket' = FALSE
  /\ Die("fatal")

(* Stop and ForceStop by another goroutine.  Without s.server both         *)
(* dereference nil.                                                        *)
Stop(how) ==
  /\ main = "wait"
  /\ \/ /\ server = "nil"
        /\ Die("panic")
        /\ UNCHANGED socket
     \/ /\ \/ server = "made"
           \/ server = "serving"
           \/ server = "draining" /\ how = "force"
        /\ server' = IF server = "serving" /\ how = "graceful"
                       THEN "draining" ELSE "stopped"
        /\ socket' = (socket /\ server = "made")
        /\ UNCHANGED <<flags, main, serve, wg, cause, requests>>

(* GracefulStop waits for the requests in flight. *)
Drained ==
  /\ Up
  /\ server = "draining"
  /\ \A r \in Requests : ~ InFlight(r)
  /\ server' = "stopped"
  /\ UNCHANGED <<flags, main, serve, wg, socket, cause, requests>>

(* The process is killed. *)
Kill ==
  /\ "signal" \in Faults
  /\ Up
  /\ Die("signal")
  /\ UNCHANGED socket

(* kubelet starts the next process. *)
Restart ==
  /\ main = "dead"
  /\ main' = "setup"
  /\ serve' = "none"
  /\ wg' = 0
  /\ server' = "nil"
  /\ cause' = "none"
  /\ id' = 0
  /\ ctxID' = [r \in Requests |-> 0]
  /\ earlier' = [r \in Requests |-> {}]
  /\ UNCHANGED <<flags, socket, phase, depth, result, logged>>

-----------------------------------------------------------------------------
(* Requests *)

(* A slip in NewMiddlewareServerOption: panicHandler is not in the chain. *)
MiddlewareWithoutPanicHandler == <<"contextIDInjector", "logGRPC">>

(* A slip in NewMiddlewareServerOption: panicHandler comes before logGRPC. *)
MiddlewarePanicHandlerFirst == <<"contextIDInjector", "panicHandler", "logGRPC">>

Middleware == <<"contextIDInjector", "logGRPC", "panicHandler">>

Arrive(r) ==
  /\ Up
  /\ server = "serving"
  /\ phase[r] = "new"
  /\ phase' = [phase EXCEPT ![r] = "in"]
  /\ depth' = [depth EXCEPT ![r] = 1]
  /\ earlier' = [earlier EXCEPT ![r] = {q \in Requests : ctxID[q] # 0}]
  /\ UNCHANGED <<process, id, ctxID, result, logged>>

(* The request is at an interceptor, on its way to the handler or back. *)
At(r, way, interceptor) ==
  /\ Up
  /\ phase[r] = way
  /\ depth[r] \in DOMAIN Middleware
  /\ Middleware[depth[r]] = interceptor

Inward(r)  == depth' = [depth EXCEPT ![r] = depth[r] + 1]
Outward(r) == depth' = [depth EXCEPT ![r] = depth[r] - 1]

(* A slip in contextIDInjector: id++, which a concurrent one may undo. *)
AddRequestIDPlainly(r) ==
  /\ At(r, "in", "contextIDInjector")
  /\ id' \in {id, id + 1}
  /\ phase' = [phase EXCEPT ![r] = "counted"]
  /\ UNCHANGED <<process, depth, ctxID, result, logged, earlier>>

(* contextIDInjector: atomic.AddUint64(&id, 1), then id is read, after     *)
(* whatever other requests have added meanwhile.                           *)
AddRequestID(r) ==
  /\ At(r, "in", "contextIDInjector")
  /\ id' = id + 1
  /\ phase' = [phase EXCEPT ![r] = "counted"]
  /\ UNCHANGED <<process, depth, ctxID, result, logged, earlier>>

ReadRequestID(r) ==
  /\ At(r, "counted", "contextIDInjector")
  /\ ctxID' = [ctxID EXCEPT ![r] = id]
  /\ phase' = [phase EXCEPT ![r] = "in"]
  /\ Inward(r)
  /\ UNCHANGED <<process, id, result, logged, earlier>>

(* logGRPC before it calls the next handler. *)
LogCall(r) ==
  /\ At(r, "in", "logGRPC")
  /\ logged' = [logged EXCEPT ![r] = logged[r] \cup {"call"}]
  /\ Inward(r)
  /\ UNCHANGED <<process, id, phase, ctxID, result, earlier>>

EnterPanicHandler(r) ==
  /\ At(r, "in", "panicHandler")
  /\ Inward(r)
  /\ UNCHANGED <<process, id, phase, ctxID, result, logged, earlier>>

(* The service's method returns or panics. *)
Handle(r) ==
  /\ Up
  /\ phase[r] = "in"
  /\ depth[r] = Len(Middleware) + 1
  /\ phase' = [phase EXCEPT ![r] = "out"]
  /\ \E end \in Results : result' = [result EXCEPT ![r] = end]
  /\ Outward(r)
  /\ UNCHANGED <<process, id, ctxID, logged, earlier>>

(* panicHandler recovers, and answers with codes.Internal. *)
Recover(r) ==
  /\ At(r, "out", "panicHandler")
  /\ result' = [result EXCEPT ![r] = IF @ = "panic" THEN "error" ELSE @]
  /\ Outward(r)
  /\ UNCHANGED <<process, id, phase, ctxID, logged, earlier>>

(* logGRPC after the handler, unless a panic goes through. *)
LogOutcome(r) ==
  /\ At(r, "out", "logGRPC")
  /\ logged' = [logged EXCEPT ![r] =
                  logged[r] \cup ({"ok", "error"} \cap {result[r]})]
  /\ Outward(r)
  /\ UNCHANGED <<process, id, phase, ctxID, result, earlier>>

(* contextIDInjector is the last to return.  Nobody recovers above it. *)
Answer(r) ==
  /\ At(r, "out", "contextIDInjector")
  /\ IF result[r] = "panic"
       THEN Die("panic") /\ UNCHANGED socket
       ELSE /\ phase' = [phase EXCEPT ![r] = "answered"]
            /\ Outward(r)
            /\ UNCHANGED <<process, id, ctxID, result, logged, earlier>>

-----------------------------------------------------------------------------
Init ==
  /\ endpoint \in Endpoints
  /\ names \in {"given", "missing"}
  /\ main = "setup"
  /\ serve = "none"
  /\ wg = 0
  /\ server = "nil"
  /\ socket = FALSE
  /\ cause = "none"
  /\ id = 0
  /\ phase = [r \in Requests |-> "new"]
  /\ depth = [r \in Requests |-> 0]
  /\ ctxID = [r \in Requests |-> 0]
  /\ result = [r \in Requests |-> "none"]
  /\ logged = [r \in Requests |-> {}]
  /\ earlier = [r \in Requests |-> {}]

(* What the driver's main goroutine and serve do by themselves. *)
ProcessStep ==
  \/ NewServers
  \/ Start
  \/ ParseEndpoint
  \/ RemoveSocket
  \/ Listen
  \/ NewServer
  \/ Serve
  \/ ServeReturns
  \/ StartupFails
  \/ ServeStopped

(* A request that has arrived goes on. *)
RequestStep(r) ==
  \/ AddRequestID(r)
  \/ ReadRequestID(r)
  \/ LogCall(r)
  \/ EnterPanicHandler(r)
  \/ Handle(r)
  \/ Recover(r)
  \/ LogOutcome(r)
  \/ Answer(r)

(* What ends the process, or its serving, from outside. *)
Interruption == Kill \/ \E how \in Stops : Stop(how)

Next ==
  \/ ProcessStep
  \/ Interruption
  \/ Drained
  \/ Restart
  \/ \E r \in Requests : Arrive(r) \/ RequestStep(r)

Spec == Init /\ [][Next]_vars

(* Goroutines run; handlers return; kubelet restarts its containers. *)
Fairness ==
  /\ WF_vars(ProcessStep)
  /\ WF_vars(Drained)
  /\ WF_vars(Restart)
  /\ \A r \in Requests : WF_vars(RequestStep(r))

FairSpec == Spec /\ Fairness

-----------------------------------------------------------------------------
(* Properties *)

(* Every variable has the values the code can give it: in particular the   *)
(* WaitGroup counts one goroutine, in every process.                       *)
TypeOK ==
  /\ endpoint \in Endpoints
  /\ names \in {"given", "missing"}
  /\ main \in {"setup", "start", "wait", "dead"}
  /\ serve \in ServeStages
  /\ wg \in {0, 1}
  /\ server \in ServerStates
  /\ socket \in BOOLEAN
  /\ cause \in Causes
  /\ id \in Nat
  /\ phase \in [Requests -> Phases]
  /\ depth \in [Requests -> 0 .. Len(Middleware) + 1]
  /\ ctxID \in [Requests -> Nat]
  /\ result \in [Requests -> Results \cup {"none"}]
  /\ logged \in [Requests -> SUBSET {"call", "ok", "error"}]
  /\ earlier \in [Requests -> SUBSET Requests]

(* The ids in the log order the requests of a process: although the        *)
(* counter is incremented and read in two steps, only requests that        *)
(* overlap can get the same id, and a request that arrived when another    *)
(* already had its id gets a greater one.                                  *)
RequestIDsOrdered ==
  \A r \in Requests : ctxID[r] # 0 =>
    \A q \in earlier[r] : ctxID[q] < ctxID[r]

(* Whatever a handler does, its request is answered, not panicking, and    *)
(* logGRPC has written two lines for it: the call, and how it ended.       *)
AnswersLogged ==
  \A r \in Requests : phase[r] = "answered" =>
    result[r] \in {"ok", "error"} /\ logged[r] = {"call", result[r]}

(* A panic ends the process only when Stop or ForceStop came before serve  *)
(* assigned s.server: neither a request nor a later Stop panics it.        *)
PanicOnlyBeforeServer == cause = "panic" => server = "nil"

(* Directories, sockets and listeners fail only finitely often in a row. *)
EnvironmentRecovers ==
  SF_vars(NewServers) /\ SF_vars(RemoveSocket) /\ SF_vars(Listen)

(* However often the process was killed, stopped or ended itself, and      *)
(* whatever it left on disk, a process that is no longer interrupted comes *)
(* to serve an endpoint it can listen on, or has been stopped in order,    *)
(* provided that it is told its names.                                     *)
DriverComesBack ==
  /\ endpoint \in {"unix", "tcp"}
  /\ names = "given"
  /\ EnvironmentRecovers
  /\ <>[][~ Interruption]_vars
  => []<>(Up /\ server \in {"serving", "draining", "stopped"})

(* Wait returns after the service has been stopped: the counter it waits   *)
(* for goes back to zero.                                                  *)
WaitReturns == Up /\ server = "stopped" ~> ~ Up \/ wg = 0

=============================================================================

-------------------------- MODULE GRPCServerProofs --------------------------
(***************************************************************************)
(* Theorems about GRPCServer, for every number of requests, whatever fails *)
(* and whoever stops the server: requests are logged under ids that order  *)
(* them, and no handler's panic ends the process.                          *)
(***************************************************************************)
EXTENDS GRPCServer, TLAPS

(* The interceptors in the order of the chain. *)
LEMMA Chain ==
  /\ Len(Middleware) = 3
  /\ DOMAIN Middleware = 1 .. 3
  /\ Middleware[1] = "contextIDInjector"
  /\ Middleware[2] = "logGRPC"
  /\ Middleware[3] = "panicHandler"
  BY DEF Middleware

LEMMA AtInjector ==
  ASSUME NEW r, NEW way, At(r, way, "contextIDInjector")
  PROVE  Up /\ phase[r] = way /\ depth[r] = 1
  BY Chain DEF At

LEMMA AtLog ==
  ASSUME NEW r, NEW way, At(r, way, "logGRPC")
  PROVE  Up /\ phase[r] = way /\ depth[r] = 2
  BY Chain DEF At

LEMMA AtPanicHandler ==
  ASSUME NEW r, NEW way, At(r, way, "panicHandler")
  PROVE  Up /\ phase[r] = way /\ depth[r] = 3
  BY Chain DEF At

-----------------------------------------------------------------------------
(* The process *)

(* The steps of a process that runs and goes on running. *)
Quiet ==
  \/ NewServers
  \/ Start
  \/ ParseEndpoint
  \/ RemoveSocket
  \/ Listen
  \/ NewServer
  \/ Serve
  \/ ServeReturns
  \/ Drained
  \/ \E how \in Stops : Stop(how) /\ server # "nil"

(* A process that ends; of all requests, only one whose panic nobody       *)
(* recovered can be the reason.                                            *)
Ends(how) ==
  /\ Up
  /\ Die(how)
  /\ socket' \in {socket, FALSE}
  /\ how = "panic" =>
       \/ server = "nil"
       \/ \E r \in Requests : At(r, "out", "contextIDInjector") /\ result[r] = "panic"

(* A step of a request's goroutine, which the process outlives. *)
Act(r) ==
  \/ Arrive(r)
  \/ AddRequestID(r)
  \/ ReadRequestID(r)
  \/ LogCall(r)
  \/ EnterPanicHandler(r)
  \/ Handle(r)
  \/ Recover(r)
  \/ LogOutcome(r)
  \/ Answer(r) /\ result[r] # "panic"

LEMMA NextParts ==
  ASSUME [Next]_vars
  PROVE  \/ Quiet
         \/ \E how \in {"fatal", "panic", "signal"} : Ends(how)
         \/ Restart
         \/ \E r \in Requests : Act(r)
         \/ UNCHANGED vars
<1>1. CASE StartupFails \/ ServeStopped
  BY <1>1 DEF StartupFails, ServeStopped, Fatal, Ends
<1>2. CASE Kill
  BY <1>2 DEF Kill, Ends
<1>3. ASSUME NEW how \in Stops, Stop(how), server = "nil" PROVE Ends("panic")
  BY <1>3 DEF Stop, Ends, Up
<1>4. ASSUME NEW r \in Requests, Answer(r), result[r] = "panic" PROVE Ends("panic")
  BY <1>4 DEF Answer, Ends, At
<1> QED BY <1>1, <1>2, <1>3, <1>4 DEF Next, ProcessStep, Interruption, RequestStep, Quiet, Act

(* Before Start there is neither goroutine nor server; a process ends in a *)
(* panic only then, and takes its requests with it.                        *)
ProcessInv ==
  /\ main \in {"setup", "start"} => wg = 0 /\ serve = "none" /\ server = "nil"
  /\ Up <=> cause = "none"
  /\ ~ Up => \A r \in Requests : ~ InFlight(r)
  /\ PanicOnlyBeforeServer

(* A quiet step concerns the process only. *)
LEMMA QuietStep ==
  ASSUME TypeOK, ProcessInv, Quiet
  PROVE  /\ TypeOK'
         /\ ProcessInv'
         /\ UNCHANGED requests
<1> USE DEF TypeOK, ProcessInv, PanicOnlyBeforeServer, Up, InFlight, requests, flags,
            ServeStages, ServerStates, Causes
<1>1. CASE NewServers
  BY <1>1 DEF NewServers
<1>2. CASE Start
  BY <1>2 DEF Start
<1>3. CASE ParseEndpoint
  BY <1>3 DEF ParseEndpoint, ServeFrom
<1>4. CASE RemoveSocket
  BY <1>4 DEF RemoveSocket, ServeFrom
<1>5. CASE Listen
  BY <1>5 DEF Listen, ServeFrom
<1>6. CASE NewServer
  BY <1>6 DEF NewServer, ServeFrom
<1>7. CASE Serve
  BY <1>7 DEF Serve, ServeFrom
<1>8. CASE ServeReturns
  BY <1>8 DEF ServeReturns, ServeFrom
<1>9. CASE Drained
  BY <1>9 DEF Drained
<1>10. ASSUME NEW how \in Stops, Stop(how), server # "nil"
       PROVE  TypeOK' /\ ProcessInv' /\ UNCHANGED requests
  BY <1>10 DEF Stop
<1> QED BY <1>1, <1>2, <1>3, <1>4, <1>5, <1>6, <1>7, <1>8, <1>9, <1>10 DEF Quiet

-----------------------------------------------------------------------------
(* The chain *)

(* What is known of a request by how far it has come: its id, its log and  *)
(* that a panic has not got past panicHandler.                             *)
ChainInv ==
  \A r \in Requests :
    /\ phase[r] = "new" => ctxID[r] = 0 /\ logged[r] = {}
    /\ phase[r] = "counted" => depth[r] = 1
    /\ phase[r] \in {"in", "counted"} =>
         /\ depth[r] >= 1
         /\ depth[r] = 1 => ctxID[r] = 0
         /\ depth[r] <= 2 => logged[r] = {}
         /\ depth[r] > 2 => logged[r] = {"call"}
    /\ phase[r] = "out" =>
         /\ depth[r] \in 1 .. 3
         /\ result[r] \in Results
         /\ result[r] = "panic" => depth[r] = 3
         /\ depth[r] = 1 => logged[r] = {"call", result[r]}
         /\ depth[r] # 1 => logged[r] = {"call"}
    /\ phase[r] = "answered" =>
         result[r] \in {"ok", "error"} /\ logged[r] = {"call", result[r]}

LEMMA LogLines ==
  /\ {"call"} \in SUBSET {"call", "ok", "error"}
  /\ {} \cup {"call"} = {"call"}
  /\ \A end \in {"ok", "error"} :
       /\ {"call", end} \in SUBSET {"call", "ok", "error"}
       /\ {"call"} \cup ({"ok", "error"} \cap {end}) = {"call", end}
<1>1. {"call"} \in SUBSET {"call", "ok", "error"}
  OBVIOUS
<1>2. ASSUME NEW end \in {"ok", "error"}
      PROVE  {"call", end} \in SUBSET {"call", "ok", "error"}
  OBVIOUS
<1>3. ASSUME NEW end \in {"ok", "error"}
      PROVE  {"call"} \cup ({"ok", "error"} \cap {end}) = {"call", end}
  OBVIOUS
<1>4. {} \cup {"call"} = {"call"}
  OBVIOUS
<1> QED BY <1>1, <1>2, <1>3, <1>4

(* A request's step concerns the requests only. *)
LEMMA ActStep ==
  ASSUME TypeOK, ChainInv, NEW r \in Requests, Act(r)
  PROVE  /\ TypeOK'
         /\ ChainInv'
         /\ UNCHANGED process
         /\ Up
<1> USE DEF TypeOK, ChainInv, Phases, Results, Inward, Outward, flags
<1>1. CASE Arrive(r)
  BY <1>1, Chain DEF Arrive, process
<1>2. CASE AddRequestID(r)
  BY <1>2, AtInjector, Chain DEF AddRequestID, process
<1>3. CASE ReadRequestID(r)
  BY <1>3, AtInjector, Chain DEF ReadRequestID, process
<1>4. CASE LogCall(r)
  <2>1. phase[r] = "in" /\ depth[r] = 2 /\ Up
    BY <1>4, AtLog DEF LogCall
  <2>2. logged' = [logged EXCEPT ![r] = {"call"}]
    <3>1. logged[r] = {}
      BY <2>1, Chain
    <3> QED BY <1>4, <3>1, LogLines DEF LogCall
  <2> QED BY <1>4, <2>1, <2>2, LogLines, Chain DEF LogCall, process
<1>5. CASE EnterPanicHandler(r)
  BY <1>5, AtPanicHandler, Chain DEF EnterPanicHandler, process
<1>6. CASE Handle(r)
  BY <1>6, Chain DEF Handle, process
<1>7. CASE Recover(r)
  BY <1>7, AtPanicHandler, Chain DEF Recover, process
<1>8. CASE LogOutcome(r)
  <2>1. phase[r] = "out" /\ depth[r] = 2 /\ Up
    BY <1>8, AtLog DEF LogOutcome
  <2>2. result[r] \in {"ok", "error"} /\ logged[r] = {"call"}
    BY <2>1, Chain
  <2>3. logged' = [logged EXCEPT ![r] = {"call", result[r]}]
    BY <1>8, <2>2, LogLines DEF LogOutcome
  <2> QED BY <1>8, <2>1, <2>2, <2>3, LogLines, Chain DEF LogOutcome, process
<1>9. CASE Answer(r) /\ result[r] # "panic"
  BY <1>9, AtInjector, Chain DEF Answer, process
<1> QED BY <1>1, <1>2, <1>3, <1>4, <1>5, <1>6, <1>7, <1>8, <1>9 DEF Act

(* A request that ends with its process has left the chain. *)
LEMMA EndStep ==
  ASSUME TypeOK, ProcessInv, ChainInv, NEW how \in {"fatal", "panic", "signal"},
         Ends(how)
  PROVE  TypeOK' /\ ProcessInv' /\ ChainInv'
<1> USE DEF Ends, Die, flags
<1>1. how = "panic" => server = "nil"
  <2> SUFFICES ASSUME NEW r \in Requests, At(r, "out", "contextIDInjector"),
                      result[r] = "panic"
               PROVE  FALSE
    OBVIOUS
  <2> QED BY AtInjector DEF ChainInv
<1>2. TypeOK'
  BY DEF TypeOK, InFlight, Phases, Causes
<1>3. ProcessInv'
  BY <1>1 DEF TypeOK, ProcessInv, PanicOnlyBeforeServer, Up, InFlight
<1>4. ChainInv'
  BY DEF TypeOK, ChainInv, InFlight
<1> QED BY <1>2, <1>3, <1>4

(* The next process starts without ids; the requests it may find are new,  *)
(* answered or lost.                                                       *)
LEMMA RestartStep ==
  ASSUME TypeOK, ProcessInv, ChainInv, Restart
  PROVE  TypeOK' /\ ProcessInv' /\ ChainInv'
<1> USE DEF Restart, ProcessInv, Up, flags
<1>1. TypeOK'
  BY DEF TypeOK, ServeStages, ServerStates, Causes
<1>2. ProcessInv'
  BY DEF PanicOnlyBeforeServer
<1>3. ChainInv'
  BY DEF TypeOK, ChainInv, InFlight
<1> QED BY <1>1, <1>2, <1>3

ControlInv == TypeOK /\ ProcessInv /\ ChainInv

LEMMA ControlInit == Init => ControlInv
<1> SUFFICES ASSUME Init PROVE ControlInv
  OBVIOUS
<1> USE DEF Init
<1>1. TypeOK
  <2>1. depth \in [Requests -> 0 .. Len(Middleware) + 1]
    BY Chain
  <2>2. logged \in [Requests -> SUBSET {"call", "ok", "error"}]
    OBVIOUS
  <2>3. earlier \in [Requests -> SUBSET Requests]
    OBVIOUS
  <2>4. result \in [Requests -> Results \cup {"none"}]
    OBVIOUS
  <2> QED BY <2>1, <2>2, <2>3, <2>4 DEF TypeOK, ServeStages, ServerStates, Causes, Phases
<1>2. ProcessInv
  BY DEF ProcessInv, PanicOnlyBeforeServer, Up
<1>3. ChainInv
  BY DEF ChainInv
<1> QED BY <1>1, <1>2, <1>3 DEF ControlInv

LEMMA ControlStep == ControlInv /\ [Next]_vars => ControlInv'
<1> SUFFICES ASSUME ControlInv, [Next]_vars PROVE ControlInv'
  OBVIOUS
<1> USE DEF ControlInv
<1>1. CASE Quiet
  <2>1. TypeOK' /\ ProcessInv' /\ UNCHANGED requests
    BY <1>1, QuietStep
  <2>2. ChainInv'
    BY <2>1 DEF ChainInv, requests
  <2> QED BY <2>1, <2>2
<1>2. ASSUME NEW how \in {"fatal", "panic", "signal"}, Ends(how) PROVE ControlInv'
  BY <1>2, EndStep
<1>3. CASE Restart
  BY <1>3, RestartStep
<1>4. ASSUME NEW r \in Requests, Act(r) PROVE ControlInv'
  <2>1. TypeOK' /\ ChainInv' /\ UNCHANGED process /\ Up
    BY <1>4, ActStep
  <2>2. ProcessInv'
    BY <2>1 DEF ProcessInv, PanicOnlyBeforeServer, Up, process
  <2> QED BY <2>1, <2>2
<1>5. CASE UNCHANGED vars
  BY <1>5 DEF TypeOK, ProcessInv, ChainInv, PanicOnlyBeforeServer, Up, InFlight,
              vars, process, requests, flags
<1> QED BY <1>1, <1>2, <1>3, <1>4, <1>5, NextParts

LEMMA ControlCorrect == Spec => []ControlInv
BY ControlInit, ControlStep, PTL DEF Spec

(* TypeOK holds of every reachable state. *)
THEOREM TypeCorrect == Spec => []TypeOK
BY ControlCorrect, PTL DEF ControlInv

(* No request's panic gets past panicHandler, and none but an early Stop   *)
(* or ForceStop ends the process in one.                                   *)
THEOREM PanicOnlyBeforeServerHolds == Spec => []PanicOnlyBeforeServer
BY ControlCorrect, PTL DEF ControlInv, ProcessInv

(* Every answered request has its call and its outcome in the log.         *)
THEOREM AnswersLoggedHolds == Spec => []AnswersLogged
<1>1. ControlInv => AnswersLogged
  BY DEF ControlInv, ChainInv, AnswersLogged
<1> QED BY <1>1, ControlCorrect, PTL

-----------------------------------------------------------------------------
(* Request ids *)

(* No id is greater than the counter, and once a request has counted       *)
(* itself, the ids of those before it are smaller than the counter.        *)
IDInv ==
  \A r \in Requests :
    /\ ctxID[r] <= id
    /\ \A q \in earlier[r] :
         /\ ctxID[q] # 0
         /\ phase[r] = "counted" => ctxID[q] < id
         /\ ctxID[r] # 0 => ctxID[q] < ctxID[r]

LEMMA IDStep == ControlInv /\ IDInv /\ [Next]_vars => IDInv'
<1> SUFFICES ASSUME ControlInv, IDInv, [Next]_vars PROVE IDInv'
  OBVIOUS
<1>1. TypeOK /\ ProcessInv /\ ChainInv
  BY DEF ControlInv
<1>2. CASE Quiet
  BY <1>1, <1>2, QuietStep DEF IDInv, requests
<1>3. ASSUME NEW how \in {"fatal", "panic", "signal"}, Ends(how) PROVE IDInv'
  BY <1>1, <1>3 DEF Ends, Die, InFlight, IDInv, TypeOK
<1>4. CASE Restart
  BY <1>1, <1>4 DEF Restart, IDInv, TypeOK
<1>5. ASSUME NEW r \in Requests, Act(r) PROVE IDInv'
  <2> USE <1>1 DEF IDInv, TypeOK
  <2>1. CASE Arrive(r)
    BY <2>1 DEF Arrive, ChainInv
  <2>2. CASE AddRequestID(r)
    BY <2>2, AtInjector DEF AddRequestID
  <2>3. CASE ReadRequestID(r)
    <3>1. phase[r] = "counted" /\ ctxID[r] = 0
      BY <2>3, AtInjector DEF ReadRequestID, ChainInv
    <3>2. \A p \in Requests : r \notin earlier[p]
      BY <3>1
    <3> QED BY <2>3, <3>1, <3>2 DEF ReadRequestID
  <2>4. CASE LogCall(r)
    BY <2>4 DEF LogCall
  <2>5. CASE EnterPanicHandler(r)
    BY <2>5 DEF EnterPanicHandler
  <2>6. CASE Handle(r)
    BY <2>6 DEF Handle
  <2>7. CASE Recover(r)
    BY <2>7 DEF Recover
  <2>8. CASE LogOutcome(r)
    BY <2>8 DEF LogOutcome
  <2>9. CASE Answer(r) /\ result[r] # "panic"
    BY <2>9 DEF Answer
  <2> QED BY <1>5, <2>1, <2>2, <2>3, <2>4, <2>5, <2>6, <2>7, <2>8, <2>9 DEF Act
<1>6. CASE UNCHANGED vars
  BY <1>6 DEF IDInv, vars, requests
<1> QED BY <1>2, <1>3, <1>4, <1>5, <1>6, NextParts

(* Ids order the requests that do not overlap, however the increments and  *)
(* reads of the others interleave.                                         *)
THEOREM RequestIDsOrderedHolds == Spec => []RequestIDsOrdered
<1>1. Init => IDInv
  <2> SUFFICES ASSUME Init, NEW r \in Requests
               PROVE  ctxID[r] <= id /\ earlier[r] = {}
    BY DEF IDInv
  <2> QED BY DEF Init
<1>2. IDInv => RequestIDsOrdered
  BY DEF IDInv, RequestIDsOrdered
<1> QED BY <1>1, <1>2, IDStep, ControlCorrect, PTL DEF Spec

-----------------------------------------------------------------------------
(* The course of a process: what serve has done so far, whether requests   *)
(* can be there, and what Wait waits for.                                  *)
CourseInv ==
  /\ main = "wait" => wg = 1
  /\ serve \in {"none", "parse", "remove", "listen", "new"} => server = "nil"
  /\ serve = "listen" /\ endpoint = "unix" => ~ socket
  /\ server \in {"nil", "made"} => \A r \in Requests : ~ InFlight(r)

LEMMA QuietCourse ==
  ASSUME ControlInv, CourseInv, Quiet PROVE CourseInv'
<1> USE DEF ControlInv, ProcessInv, CourseInv, InFlight, requests, flags
<1>1. CASE NewServers \/ Start
  BY <1>1 DEF NewServers, Start
<1>2. CASE ParseEndpoint \/ RemoveSocket \/ Listen
  BY <1>2 DEF ParseEndpoint, RemoveSocket, Listen, ServeFrom
<1>3. CASE NewServer \/ Serve \/ ServeReturns
  BY <1>3 DEF NewServer, Serve, ServeReturns, ServeFrom
<1>4. CASE Drained
  BY <1>4 DEF Drained
<1>5. ASSUME NEW how \in Stops, Stop(how), server # "nil" PROVE CourseInv'
  BY <1>5 DEF Stop
<1> QED BY <1>1, <1>2, <1>3, <1>4, <1>5 DEF Quiet

LEMMA CourseStep == ControlInv /\ CourseInv /\ [Next]_vars => CourseInv'
<1> SUFFICES ASSUME ControlInv, CourseInv, [Next]_vars PROVE CourseInv'
  OBVIOUS
<1>1. ASSUME NEW how, Ends(how) PROVE CourseInv'
  <2>1. main' = "dead" /\ UNCHANGED <<serve, server, endpoint>>
    BY <1>1 DEF Ends, Die, flags
  <2>2. \A r \in Requests : ~ InFlight(r)'
    BY <1>1 DEF Ends, Die, InFlight
  <2>3. ~ socket => ~ socket'
    BY <1>1, Zenon DEF Ends
  <2> QED BY <2>1, <2>2, <2>3 DEF CourseInv
<1>2. CASE Restart
  BY <1>2 DEF Restart, ControlInv, ProcessInv, Up, CourseInv, InFlight
<1>3. ASSUME NEW r \in Requests, Act(r) PROVE CourseInv'
  <2>1. UNCHANGED process /\ ControlInv
    BY <1>3, ActStep DEF ControlInv
  <2>2. \A q \in Requests : InFlight(q)' => InFlight(q) \/ server = "serving"
    BY <1>3, <2>1
       DEF Act, Arrive, AddRequestID, ReadRequestID, LogCall, EnterPanicHandler,
           Handle, Recover, LogOutcome, Answer, At, InFlight, ControlInv, TypeOK
  <2> QED BY <2>1, <2>2 DEF process, flags, CourseInv
<1>4. CASE UNCHANGED vars
  BY <1>4 DEF vars, process, flags, requests, CourseInv, InFlight
<1> QED BY <1>1, <1>2, <1>3, <1>4, QuietCourse, NextParts

LEMMA CourseCorrect == Spec => []CourseInv
<1>1. Init => CourseInv
  BY DEF Init, CourseInv, InFlight
<1> QED BY <1>1, CourseStep, ControlCorrect, PTL DEF Spec

(* From Start on the wait group counts serve until the process ends,       *)
(* whether or not serve does: Wait of no process ever returns.             *)
THEOREM WaitNeverReturns == Spec => [](main = "wait" => wg = 1)
BY CourseCorrect, PTL DEF CourseInv

(* A socket that an earlier process left behind, however that one ended,   *)
(* is gone when serve comes to listen.                                     *)
THEOREM SocketRemoved ==
  Spec => [](serve = "listen" /\ endpoint = "unix" => CanListen)
<1>1. CourseInv => (serve = "listen" /\ endpoint = "unix" => CanListen)
  BY DEF CourseInv, CanListen
<1> QED BY <1>1, CourseCorrect, PTL

(* No request is lost to a panic: not to that of a handler, which is       *)
(* recovered, nor to that of an early Stop, which comes before the first   *)
(* request.                                                                *)
THEOREM PanicLosesNothing ==
  Spec => [][cause = "none" /\ cause' = "panic" => UNCHANGED phase]_vars
<1>1. ControlInv /\ ControlInv' /\ CourseInv /\ [Next]_vars
        => [cause = "none" /\ cause' = "panic" => UNCHANGED phase]_vars
  <2> SUFFICES ASSUME ControlInv, ControlInv', CourseInv, [Next]_vars,
                      cause = "none", cause' = "panic"
               PROVE  UNCHANGED phase
    OBVIOUS
  <2>1. server' = "nil"
    BY DEF ControlInv, ProcessInv, PanicOnlyBeforeServer
  <2>2. PICK how \in {"fatal", "panic", "signal"} : Ends(how)
    <3>1. Quiet => UNCHANGED cause
      BY DEF Quiet, NewServers, Start, ParseEndpoint, RemoveSocket, Listen, NewServer,
             Serve, ServeReturns, ServeFrom, Drained, Stop
    <3>2. \A r \in Requests : Act(r) => UNCHANGED cause
      BY ActStep DEF ControlInv, process
    <3> QED BY <3>1, <3>2, NextParts DEF Restart, vars, process
  <2>3. \A r \in Requests : ~ InFlight(r)
    BY <2>1, <2>2 DEF Ends, Die, CourseInv
  <2> QED BY <2>2, <2>3 DEF Ends, Die, ControlInv, TypeOK
<1> QED BY <1>1, ControlCorrect, CourseCorrect, PTL DEF Spec

=============================================================================

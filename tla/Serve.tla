-------------------------------- MODULE Serve --------------------------------
(***************************************************************************)
(* "linkd serve", from src/src/main.cpp: the order in which serve() builds *)
(* the controller and the threads that use it, and how they come down,     *)
(* when a later one cannot be built and after Ctrl-C.  What the threads do *)
(* with the controller is the matter of the other modules; here it counts  *)
(* that they use it.                                                       *)
(*                                                                         *)
(* httplib and gRPC are external.  httplib's stop() closes the listener;   *)
(* the thread in listen_after_bind() returns when the requests being       *)
(* served are answered.  gRPC's Shutdown() without a deadline refuses new  *)
(* calls and waits for the ones being served, streams included.            *)
(***************************************************************************)
CONSTANTS
    Requests,   \* HTTP requests and unary calls that may be served
    Streams     \* Subscribe calls that may be served

ASSUME CallsAssumption == Requests \cap Streams = {}

VARIABLES
    main,        \* where the main thread is
    failed,      \* an exception is on its way out of serve()
    stopAsked,   \* stop_requested of main.cpp
    controller,  \* "none", "alive" or "gone"
    motion,      \* the thread of the controller: "none", "running", "ended"
    motionStop,  \* its stop_requested_
    pad,         \* the gamepad thread
    padStop,     \* its stop_requested_
    http,        \* the thread in listen_after_bind()
    httpOpen,    \* the listener accepts requests
    httpCalls,   \* requests being served
    rpc,         \* the thread in Server::Wait()
    rpcOpen,     \* the server accepts calls
    rpcCalls,    \* unary calls and streams being served
    hungUp       \* streams whose client is gone: context->IsCancelled()

controllerVars == <<controller, motion, motionStop>>
padThread == <<pad, padStop>>
httpVars  == <<http, httpOpen, httpCalls>>
rpcVars   == <<rpc, rpcOpen, rpcCalls, hungUp>>
serveVars == <<main, failed, stopAsked, controllerVars, padThread, httpVars, rpcVars>>

ServeInit ==
    /\ main = "connect" /\ failed = FALSE /\ stopAsked = FALSE
    /\ controller = "none" /\ motion = "none" /\ motionStop = FALSE
    /\ pad = "none" /\ padStop = FALSE
    /\ http = "none" /\ httpOpen = FALSE /\ httpCalls = {}
    /\ rpc = "none" /\ rpcOpen = FALSE /\ rpcCalls = {} /\ hungUp = {}

\* A thread that was started and joined, or never started, may be destroyed.
Joined(thread) == thread \in {"none", "ended"}

----------------------------------------------------------------------------
\* The way up.  An exception unwinds what is there, the last first.

Throw(where) == main' = where /\ failed' = TRUE

\* connect_camera and the controller, whose constructor reads the camera
\* before it starts the motion thread.
Connect ==
    /\ main = "connect"
    /\ \/ /\ Throw("exit")
          /\ UNCHANGED controllerVars
       \/ /\ main' = "gamepad"
          /\ controller' = "alive" /\ motion' = "running"
          /\ UNCHANGED <<failed, motionStop>>
    /\ UNCHANGED <<stopAsked, padThread, httpVars, rpcVars>>

\* If the command line asks for it.
StartGamepad ==
    /\ main = "gamepad"
    /\ main' = "http"
    /\ pad' \in {"none", "running"}
    /\ UNCHANGED <<failed, stopAsked, controllerVars, padStop, httpVars, rpcVars>>

\* ApiServer::start: bind, then the listening thread.
StartHttp ==
    /\ main = "http"
    /\ \/ /\ Throw("~gamepad")
          /\ UNCHANGED httpVars
       \/ /\ main' = "grpc"
          /\ http' = "running" /\ httpOpen' = TRUE
          /\ UNCHANGED <<failed, httpCalls>>
    /\ UNCHANGED <<stopAsked, controllerVars, padThread, rpcVars>>

\* Mutant: what is there already is left running when gRPC cannot start.
StartGrpc_leaks ==
    /\ main = "grpc"
    /\ \/ Throw("exit") /\ UNCHANGED rpcVars
       \/ main' = "wait" /\ UNCHANGED <<failed, rpcVars>>
       \/ /\ main' = "wait"
          /\ rpc' = "running" /\ rpcOpen' = TRUE
          /\ UNCHANGED <<failed, rpcCalls, hungUp>>
    /\ UNCHANGED <<stopAsked, controllerVars, padThread, httpVars>>

\* GrpcServer::start, unless the command line or the build leaves gRPC out:
\* when it throws, HTTP requests are being served already.
StartGrpc ==
    /\ main = "grpc"
    /\ \/ Throw("~http") /\ UNCHANGED rpcVars
       \/ main' = "wait" /\ UNCHANGED <<failed, rpcVars>>
       \/ /\ main' = "wait"
          /\ rpc' = "running" /\ rpcOpen' = TRUE
          /\ UNCHANGED <<failed, rpcCalls, hungUp>>
    /\ UNCHANGED <<stopAsked, controllerVars, padThread, httpVars>>

----------------------------------------------------------------------------
\* The way down.

\* Ctrl-C: request_stop runs once its handler is installed.  Before, and that
\* is at any point of the way up, the signal ends the process.
Interrupt ==
    /\ ~stopAsked /\ main # "exit"
    /\ IF main \in {"connect", "gamepad", "http", "grpc"} \/ failed
         THEN /\ main' = "exit"
              /\ controller' = "gone"
              /\ motion' = "ended" /\ pad' = "ended" /\ http' = "ended" /\ rpc' = "ended"
              /\ httpOpen' = FALSE /\ httpCalls' = {}
              /\ rpcOpen' = FALSE /\ rpcCalls' = {}
              /\ UNCHANGED <<stopAsked, hungUp>>
         ELSE /\ stopAsked' = TRUE
              /\ UNCHANGED <<main, controller, motion, pad, httpVars, rpcVars>>
    /\ UNCHANGED <<failed, motionStop, padStop>>

\* The loop that waits for it looks every 100 ms.
NoticeStop ==
    /\ main = "wait" /\ stopAsked
    /\ main' = "stop grpc"
    /\ UNCHANGED <<failed, stopAsked, controllerVars, padThread, httpVars, rpcVars>>

\* Mutant: the thread is joined, and the server goes on.
ShutdownGrpc_joins_only ==
    /\ main = "stop grpc"
    /\ main' = "join grpc"
    /\ UNCHANGED <<failed, stopAsked, controllerVars, padThread, httpVars, rpcVars>>

\* GrpcServer::stop, where there is a server: Shutdown(), ...
ShutdownGrpc ==
    /\ main = "stop grpc"
    /\ main' = "join grpc"
    /\ rpcOpen' = FALSE
    /\ UNCHANGED <<failed, stopAsked, controllerVars, padThread, httpVars, rpc, rpcCalls, hungUp>>

\* Mutant: the server is destroyed without joining its thread.
JoinGrpc_unjoined ==
    /\ main = "join grpc"
    /\ main' = "~http"
    /\ UNCHANGED <<failed, stopAsked, controllerVars, padThread, httpVars, rpcVars>>

\* ... which returns when no call is served any more, and join.
JoinGrpc ==
    /\ main = "join grpc" /\ rpcCalls = {} /\ Joined(rpc)
    /\ main' = "~http"
    /\ UNCHANGED <<failed, stopAsked, controllerVars, padThread, httpVars, rpcVars>>

\* Mutant: the thread is joined, and the listener left open.
StopHttp_joins_only ==
    /\ main = "~http"
    /\ main' = "join http"
    /\ UNCHANGED <<failed, stopAsked, controllerVars, padThread, httpVars, rpcVars>>

\* ApiServer::stop, called by serve() or, while unwinding, by the destructor.
StopHttp ==
    /\ main = "~http"
    /\ main' = "join http"
    /\ httpOpen' = FALSE
    /\ UNCHANGED <<failed, stopAsked, controllerVars, padThread, http, httpCalls, rpcVars>>

JoinHttp ==
    /\ main = "join http" /\ Joined(http)
    /\ main' = "~gamepad"
    /\ UNCHANGED <<failed, stopAsked, controllerVars, padThread, httpVars, rpcVars>>

\* ~GamepadInput.
StopGamepad ==
    /\ main = "~gamepad"
    /\ main' = "join gamepad"
    /\ padStop' = TRUE
    /\ UNCHANGED <<failed, stopAsked, controllerVars, pad, httpVars, rpcVars>>

\* Mutant: the thread is told to stop and not waited for.
JoinGamepad_unjoined ==
    /\ main = "join gamepad"
    /\ main' = "~controller"
    /\ UNCHANGED <<failed, stopAsked, controllerVars, padThread, httpVars, rpcVars>>

JoinGamepad ==
    /\ main = "join gamepad" /\ Joined(pad)
    /\ main' = "~controller"
    /\ UNCHANGED <<failed, stopAsked, controllerVars, padThread, httpVars, rpcVars>>

\* ~CameraController.
StopMotionThread ==
    /\ main = "~controller"
    /\ main' = "join motion"
    /\ motionStop' = TRUE
    /\ UNCHANGED <<failed, stopAsked, controller, motion, padThread, httpVars, rpcVars>>

JoinMotion ==
    /\ main = "join motion" /\ Joined(motion)
    /\ main' = "exit"
    /\ controller' = "gone"
    /\ UNCHANGED <<failed, stopAsked, motion, motionStop, padThread, httpVars, rpcVars>>

Main ==
    \/ Connect \/ StartGamepad \/ StartHttp \/ StartGrpc \/ NoticeStop
    \/ ShutdownGrpc \/ JoinGrpc \/ StopHttp \/ JoinHttp
    \/ StopGamepad \/ JoinGamepad \/ StopMotionThread \/ JoinMotion

----------------------------------------------------------------------------
\* The threads.

\* The loops of the motion and gamepad threads end when told to.
MotionEnds ==
    /\ motion = "running" /\ motionStop
    /\ motion' = "ended"
    /\ UNCHANGED <<main, failed, stopAsked, controller, motionStop, padThread, httpVars, rpcVars>>

\* The gamepad thread also ends when SDL cannot be initialised.
PadEnds ==
    /\ pad = "running"
    /\ pad' = "ended"
    /\ UNCHANGED <<main, failed, stopAsked, controllerVars, padStop, httpVars, rpcVars>>

\* External: httplib starts and answers requests.
HttpRequest ==
    /\ httpOpen
    /\ \E r \in Requests \ (httpCalls \cup rpcCalls) : httpCalls' = httpCalls \cup {r}
    /\ UNCHANGED <<main, failed, stopAsked, controllerVars, padThread, http, httpOpen, rpcVars>>

HttpReply(r) ==
    /\ r \in httpCalls
    /\ httpCalls' = httpCalls \ {r}
    /\ UNCHANGED <<main, failed, stopAsked, controllerVars, padThread, http, httpOpen, rpcVars>>

\* External: listen_after_bind() returns.
HttpEnds ==
    /\ http = "running" /\ ~httpOpen /\ httpCalls = {}
    /\ http' = "ended"
    /\ UNCHANGED <<main, failed, stopAsked, controllerVars, padThread, httpOpen, httpCalls, rpcVars>>

\* External: gRPC accepts and serves calls.
RpcCall ==
    /\ rpcOpen
    /\ \E c \in (Requests \cup Streams) \ (httpCalls \cup rpcCalls) :
          /\ rpcCalls' = rpcCalls \cup {c}
          /\ hungUp' = hungUp \ {c}
    /\ UNCHANGED <<main, failed, stopAsked, controllerVars, padThread, httpVars, rpc, rpcOpen>>

\* A handler returns: that of a stream only once its client hung up.
RpcReturn(c) ==
    /\ c \in rpcCalls /\ (c \in Streams => c \in hungUp)
    /\ rpcCalls' = rpcCalls \ {c}
    /\ UNCHANGED <<main, failed, stopAsked, controllerVars, padThread, httpVars, rpc, rpcOpen, hungUp>>

HangUp(c) ==
    /\ c \in rpcCalls \ hungUp
    /\ hungUp' = hungUp \cup {c}
    /\ UNCHANGED <<main, failed, stopAsked, controllerVars, padThread, httpVars, rpc, rpcOpen, rpcCalls>>

\* External: Server::Wait() returns.
RpcEnds ==
    /\ rpc = "running" /\ ~rpcOpen /\ rpcCalls = {}
    /\ rpc' = "ended"
    /\ UNCHANGED <<main, failed, stopAsked, controllerVars, padThread, httpVars, rpcOpen, rpcCalls, hungUp>>

ServeNext ==
    \/ Main \/ Interrupt \/ MotionEnds \/ PadEnds
    \/ HttpRequest \/ HttpEnds \/ RpcCall \/ RpcEnds
    \/ \E r \in Requests : HttpReply(r)
    \/ \E c \in Requests \cup Streams : RpcReturn(c)
    \/ \E c \in Streams : HangUp(c)

ServeSpec == ServeInit /\ [][ServeNext]_serveVars

\* Every thread is scheduled and every handler returns that may; nobody is
\* obliged to press Ctrl-C, to send a request or to hang up.
ServeFairSpec ==
    /\ ServeSpec
    /\ WF_serveVars(Main) /\ WF_serveVars(MotionEnds) /\ WF_serveVars(PadEnds /\ padStop)
    /\ WF_serveVars(HttpEnds) /\ WF_serveVars(RpcEnds)
    /\ \A r \in Requests : WF_serveVars(HttpReply(r))
    /\ \A c \in Requests \cup Streams : WF_serveVars(RpcReturn(c))

----------------------------------------------------------------------------
\* Properties.

\* Nobody uses a controller that is gone: the handlers, the gamepad thread and
\* the motion thread hold references to it.
ControllerOutlivesUsers ==
    (httpCalls # {} \/ rpcCalls # {} \/ pad = "running" \/ motion = "running")
        => controller = "alive"

\* However serve() ends, no thread is left: a std::thread that still runs when
\* it is destroyed ends the process with std::terminate.
CleanExit ==
    main = "exit" =>
        /\ \A thread \in {motion, pad, http, rpc} : Joined(thread)
        /\ httpCalls = {} /\ rpcCalls = {}

\* A start that fails comes to an end, with requests being served already.
FailedStartEnds == failed ~> main = "exit"

\* Ctrl-C ends serve() once the clients of the streams hang up.
CtrlCStops ==
    (\A c \in Streams : []<>(c \notin rpcCalls \/ c \in hungUp))
        => (stopAsked ~> main = "exit")

\* The message of serve(): "press Ctrl-C to stop".  It does not, as long as a
\* client keeps a Subscribe open: Shutdown() has no deadline and the handler
\* ends only when its client does.
CtrlCAlwaysStops == stopAsked ~> main = "exit"
=============================================================================

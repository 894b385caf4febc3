---------------------------- MODULE Serve_proofs ----------------------------
(***************************************************************************)
(* What holds of "linkd serve" however it ends, for any number of requests *)
(* and streams.  The argument places every thread: it runs only between    *)
(* the step of the main thread that starts it and the one that joins it.   *)
(***************************************************************************)
EXTENDS Serve, TLAPS

Threads == {"none", "running", "ended"}

WayDown == {"~gamepad", "join gamepad", "~controller", "join motion", "exit"}
MainPlaces ==
    {"connect", "gamepad", "http", "grpc", "wait", "stop grpc", "join grpc", "~http", "join http"}
        \cup WayDown

\* The type of the places of the threads.
PlacesOK ==
    /\ main \in MainPlaces
    /\ motion \in Threads /\ pad \in Threads /\ http \in Threads /\ rpc \in Threads

\* Between which steps of the main thread the controller and its thread live.
ControllerInv ==
    /\ main \notin {"connect", "exit"} => controller = "alive"
    /\ motion = "running" => main \notin {"connect", "exit"}

PadInv == pad = "running" =>
    main \in {"http", "grpc", "wait", "stop grpc", "join grpc", "~http", "join http",
              "~gamepad", "join gamepad"}

\* Requests are served only while the listening thread runs, and it runs on
\* until no more can come.
HttpInv ==
    /\ httpCalls # {} => http = "running"
    /\ httpOpen => http = "running" /\ main # "join http"
    /\ http = "running" =>
          main \in {"grpc", "wait", "stop grpc", "join grpc", "~http", "join http"}

\* Likewise calls, streams among them.
RpcInv ==
    /\ rpcCalls # {} => rpc = "running"
    /\ rpcOpen => rpc = "running"
    /\ rpc = "running" => main \in {"wait", "stop grpc", "join grpc"}

ServeInv == PlacesOK /\ ControllerInv /\ PadInv /\ HttpInv /\ RpcInv

\* A step that changes nothing keeps the invariant.
LEMMA StaysPut ==
    ASSUME ServeInv, UNCHANGED serveVars
    PROVE  ServeInv'
BY DEF ServeInv, PlacesOK, ControllerInv, PadInv, HttpInv, RpcInv, serveVars, controllerVars,
       padThread, httpVars, rpcVars

\* Nothing runs before serve() starts it.
LEMMA InitServeInv == ServeInit => ServeInv
BY DEF ServeInit, ServeInv, PlacesOK, ControllerInv, PadInv, HttpInv, RpcInv, Threads,
       MainPlaces, WayDown

\* The main thread keeps the invariant on its way up, ...
LEMMA WayUpKeeps ==
    ASSUME ServeInv, Connect \/ StartGamepad \/ StartHttp \/ StartGrpc
    PROVE  ServeInv'
<1> USE DEF ServeInv, PlacesOK, ControllerInv, PadInv, HttpInv, RpcInv, Threads, MainPlaces,
            WayDown, controllerVars, padThread, httpVars, rpcVars, Throw
<1>1. CASE Connect       BY <1>1 DEF Connect
<1>2. CASE StartGamepad  BY <1>2 DEF StartGamepad
<1>3. CASE StartHttp
  <2>1. PlacesOK'       BY <1>3 DEF StartHttp
  <2>2. ControllerInv'  BY <1>3 DEF StartHttp
  <2>3. PadInv'         BY <1>3 DEF StartHttp
  <2>4. HttpInv'
    <3>1. httpCalls = {} /\ httpCalls' = httpCalls
      BY <1>3 DEF StartHttp
    <3>2. CASE http' = "running" /\ main' = "grpc"
      BY <3>1, <3>2
    <3>3. CASE UNCHANGED httpVars /\ ~httpOpen /\ http # "running"
      BY <3>1, <3>3
    <3> QED
      BY <1>3, <3>2, <3>3 DEF StartHttp
  <2>5. RpcInv'         BY <1>3 DEF StartHttp
  <2> QED BY <2>1, <2>2, <2>3, <2>4, <2>5 DEF ServeInv
<1>4. CASE StartGrpc
  <2>1. PlacesOK'       BY <1>4 DEF StartGrpc
  <2>2. ControllerInv'  BY <1>4 DEF StartGrpc
  <2>3. PadInv'         BY <1>4 DEF StartGrpc
  <2>4. HttpInv'        BY <1>4 DEF StartGrpc
  <2>5. RpcInv'
    <3>1. rpcCalls = {} /\ rpcCalls' = rpcCalls
      BY <1>4 DEF StartGrpc
    <3>2. CASE rpc' = "running" /\ main' = "wait"
      BY <3>1, <3>2
    <3>3. CASE UNCHANGED rpcVars /\ ~rpcOpen /\ rpc # "running"
      BY <3>1, <3>3
    <3> QED
      BY <1>4, <3>2, <3>3 DEF StartGrpc
  <2> QED BY <2>1, <2>2, <2>3, <2>4, <2>5 DEF ServeInv
<1> QED BY <1>1, <1>2, <1>3, <1>4

\* ... and on its way down.
LEMMA WayDownKeeps ==
    ASSUME ServeInv,
           \/ NoticeStop \/ ShutdownGrpc \/ JoinGrpc \/ StopHttp \/ JoinHttp
           \/ StopGamepad \/ JoinGamepad \/ StopMotionThread \/ JoinMotion
    PROVE  ServeInv'
<1> USE DEF ServeInv, PlacesOK, ControllerInv, PadInv, HttpInv, RpcInv, Threads, MainPlaces,
            WayDown, controllerVars, padThread, httpVars, rpcVars, Joined
<1>1. CASE NoticeStop        BY <1>1 DEF NoticeStop
<1>2. CASE ShutdownGrpc      BY <1>2 DEF ShutdownGrpc
<1>3. CASE JoinGrpc          BY <1>3 DEF JoinGrpc
<1>4. CASE StopHttp          BY <1>4 DEF StopHttp
<1>5. CASE JoinHttp          BY <1>5 DEF JoinHttp
<1>6. CASE StopGamepad       BY <1>6 DEF StopGamepad
<1>7. CASE JoinGamepad       BY <1>7 DEF JoinGamepad
<1>8. CASE StopMotionThread  BY <1>8 DEF StopMotionThread
<1>9. CASE JoinMotion        BY <1>9 DEF JoinMotion
<1> QED BY <1>1, <1>2, <1>3, <1>4, <1>5, <1>6, <1>7, <1>8, <1>9

\* The signal and the other threads.
LEMMA ThreadsKeep ==
    ASSUME ServeInv,
           \/ Interrupt \/ MotionEnds \/ PadEnds
           \/ HttpRequest \/ HttpEnds \/ RpcCall \/ RpcEnds
           \/ \E r \in Requests : HttpReply(r)
           \/ \E c \in Requests \cup Streams : RpcReturn(c)
           \/ \E c \in Streams : HangUp(c)
    PROVE  ServeInv'
<1> USE DEF ServeInv, PlacesOK, ControllerInv, PadInv, HttpInv, RpcInv, Threads, MainPlaces,
            WayDown, controllerVars, padThread, httpVars, rpcVars
<1>1. CASE Interrupt    BY <1>1 DEF Interrupt
<1>2. CASE MotionEnds   BY <1>2 DEF MotionEnds
<1>3. CASE PadEnds      BY <1>3 DEF PadEnds
<1>4. CASE HttpRequest  BY <1>4 DEF HttpRequest
<1>5. CASE HttpEnds     BY <1>5 DEF HttpEnds
<1>6. CASE RpcCall      BY <1>6 DEF RpcCall
<1>7. CASE RpcEnds      BY <1>7 DEF RpcEnds
<1>8. ASSUME NEW r \in Requests, HttpReply(r)                PROVE ServeInv'
  BY <1>8 DEF HttpReply
<1>9. ASSUME NEW c \in Requests \cup Streams, RpcReturn(c)   PROVE ServeInv'
  BY <1>9 DEF RpcReturn
<1>10. ASSUME NEW c \in Streams, HangUp(c)                   PROVE ServeInv'
  BY <1>10 DEF HangUp
<1> QED BY <1>1, <1>2, <1>3, <1>4, <1>5, <1>6, <1>7, <1>8, <1>9, <1>10

\* Every thread is where the main thread's place says it is.
THEOREM ThreadsPlaced == ServeSpec => []ServeInv
<1>1. ServeInv /\ [ServeNext]_serveVars => ServeInv'
  <2> SUFFICES ASSUME ServeInv, [ServeNext]_serveVars PROVE ServeInv'
    OBVIOUS
  <2>1. CASE ServeNext
    BY <2>1, WayUpKeeps, WayDownKeeps, ThreadsKeep DEF ServeNext, Main
  <2>2. CASE UNCHANGED serveVars
    BY <2>2, StaysPut
  <2> QED BY <2>1, <2>2
<1> QED BY <1>1, InitServeInv, PTL DEF ServeSpec

\* No handler and no thread of serve() uses a controller that is gone.
THEOREM ControllerOutlivesUsersHolds == ServeSpec => []ControllerOutlivesUsers
<1>1. ServeInv => ControllerOutlivesUsers
  BY DEF ServeInv, PlacesOK, ControllerInv, PadInv, HttpInv, RpcInv, ControllerOutlivesUsers
<1> QED BY <1>1, ThreadsPlaced, PTL

\* However serve() ends, every thread was joined and no request is abandoned.
THEOREM CleanExitHolds == ServeSpec => []CleanExit
<1>1. ServeInv => CleanExit
  BY DEF ServeInv, PlacesOK, ControllerInv, PadInv, HttpInv, RpcInv, CleanExit, Joined, Threads
<1> QED BY <1>1, ThreadsPlaced, PTL
=============================================================================

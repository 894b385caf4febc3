------------------------------- MODULE Service -------------------------------
(***************************************************************************)
(* The request handlers of the two network interfaces: the HTTP routes of  *)
(* src/src/server.cpp and the service of src/src/grpc_server.cpp.  A       *)
(* worker thread validates a request, makes its call, reads the state the  *)
(* reply shows and then whether a background error is pending.  Each of    *)
(* these is a critical section of its own, and every other caller, the     *)
(* motion thread and the camera may come in between: they are the          *)
(* environment CoreNext, so one worker stands for any number.              *)
(*                                                                         *)
(* An HTTP reply shows what the camera says after the command; the reply   *)
(* to Publish and the stream of Subscribe show the controller's copy.      *)
(* GetCapabilities and its route answer with constants and are left out.   *)
(***************************************************************************)
EXTENDS ControllerCore

CONSTANTS
    Workers,           \* threads that serve requests
    Subscribers,       \* threads that serve Subscribe
    AskedPositions,    \* what a request may ask for, in range or not
    AskedVelocities,
    AskedZooms,
    AskedIntervals,    \* interval_ms of a SubscribeRequest
    MaxSpeed,          \* 180 degrees per second
    MinZoom,           \* capabilities().zoom
    MaxZoom,
    SupportsTracking,  \* capabilities().supports_tracking
    Interval           \* [default, minimum, maximum] of a subscription, in ms

ASSUME AskedAssumption ==
    /\ AskedPositions \subseteq [Axes -> Int]
    /\ AskedVelocities \subseteq [Axes -> Int]
    /\ AskedZooms \subseteq Int
    /\ AskedIntervals \subseteq Nat
ASSUME LimitsAssumption ==
    /\ MaxSpeed \in Nat
    /\ SupportsTracking \in BOOLEAN
    /\ MinZoom \in Int /\ MaxZoom \in Int /\ Zooms = MinZoom .. MaxZoom
    /\ \A v \in AskedVelocities : (\A a \in Axes : Abs(v[a]) <= MaxSpeed) => v \in Velocities
ASSUME IntervalAssumption ==
    /\ Interval \in [default : Nat, minimum : Nat, maximum : Nat]
    /\ Interval.default \in Interval.minimum .. Interval.maximum

\* "malformed" stands for every request that is refused for its form: no JSON,
\* a field missing or of another type, a number that is not finite, no action.
Commands ==
         [action : {"position"}, position : AskedPositions]
    \cup [action : {"velocity"}, velocity : AskedVelocities]
    \cup [action : {"zoom"}, zoom : AskedZooms]
    \cup [action : {"tracking"}, tracking : BOOLEAN]
    \cup [action : {"center", "malformed"}]

Requests == [interface : {"http", "grpc"}, command : Commands \cup [action : {"status"}]]

None == [action |-> "none"]

VARIABLES
    wpc,        \* where a worker is; "idle" between two requests
    request,    \* the request it serves
    reply,      \* the state its reply is to show, once it is known
    answer,     \* history: its last answer, as HTTP or gRPC status
    disturbed,  \* history: someone else changed what the command set, since
    spc,        \* where a subscription's handler is
    interval,   \* its local interval_ms
    cancelled,  \* context->IsCancelled()
    snapshot,   \* its local response
    sent        \* history: what the client received last

workers == <<wpc, request, reply, answer, disturbed>>
streams == <<spc, interval, cancelled, snapshot, sent>>
serviceVars == <<core, workers, streams>>

ServiceInit ==
    /\ CoreInit
    /\ wpc = [w \in Workers |-> "idle"]
    /\ request = [w \in Workers |-> None]
    /\ reply = [w \in Workers |-> None]
    /\ answer = [w \in Workers |-> "none"]
    /\ disturbed = [w \in Workers |-> FALSE]
    /\ spc = [s \in Subscribers |-> "off"]
    /\ interval = [s \in Subscribers |-> Interval.default]
    /\ cancelled = [s \in Subscribers |-> FALSE]
    /\ snapshot = [s \in Subscribers |-> None]
    /\ sent = [s \in Subscribers |-> None]

----------------------------------------------------------------------------
\* Validation.  It reads constants only.

\* Mutant: a field is compared with the upper limit only.
InRange_upper_only(value, minimum, maximum) == value <= maximum

\* require_in_range and require_range.
InRange(value, minimum, maximum) == minimum <= value /\ value <= maximum

Valid(c) ==
    CASE c.action = "position" ->
            \A a \in Axes : InRange(c.position[a], Ranges[a].minimum, Ranges[a].maximum)
      [] c.action = "velocity" -> \A a \in Axes : InRange(c.velocity[a], -MaxSpeed, MaxSpeed)
      [] c.action = "zoom"     -> InRange(c.zoom, MinZoom, MaxZoom)
      [] c.action = "tracking" -> SupportsTracking
      [] OTHER                 -> c.action # "malformed"

\* The call that a valid command makes.
Perform(c, ok) ==
    CASE c.action = "position" -> CallSetPosition(c.position, ok)
      [] c.action = "velocity" -> ok /\ CallSetVelocity(c.velocity)
      [] c.action = "zoom"     -> CallSetZoom(c.zoom, ok)
      [] c.action = "tracking" -> CallSetTracking(c.tracking, ok)
      [] c.action = "center"   -> CallCenter(ok)

\* What a command sets, and to what; a velocity is no field of the state.
Sets(c) == CASE c.action = "position" -> {<<"position", c.position>>}
             [] c.action = "center"   -> {<<"position", Center>>}
             [] c.action = "zoom"     -> {<<"zoom", c.zoom>>}
             [] c.action = "tracking" -> {<<"tracking", c.tracking>>}
             [] OTHER                 -> {}

\* A step of anybody else changes what the reply of w is to show.
Disturbs(w) ==
    \/ \E set \in Sets(request[w].command) :
          \/ camera'[set[1]] # camera[set[1]]
          \/ state'[set[1]] # state[set[1]]
    \/ backgroundError' # backgroundError

Noticed(others) ==
    disturbed' = [w \in Workers |->
                     disturbed[w] \/ (w \in others /\ wpc[w] \in {"read", "error"} /\ Disturbs(w))]

Answer(w, status) ==
    /\ wpc' = [wpc EXCEPT ![w] = "idle"]
    /\ request' = [request EXCEPT ![w] = None]
    /\ reply' = [reply EXCEPT ![w] = None]
    /\ answer' = [answer EXCEPT ![w] = status]

Proceed(w, step, shown) ==
    /\ wpc' = [wpc EXCEPT ![w] = step]
    /\ reply' = [reply EXCEPT ![w] = shown]
    /\ UNCHANGED <<request, answer>>

----------------------------------------------------------------------------
\* The workers.

\* A request arrives and is validated: a refused one makes no call.
Receive(w) ==
    /\ wpc[w] = "idle"
    /\ \E r \in Requests :
          IF Valid(r.command)
            THEN /\ request' = [request EXCEPT ![w] = r]
                 /\ wpc' = [wpc EXCEPT ![w] =
                               IF r.command.action = "status" THEN "read" ELSE "call"]
                 /\ answer' = [answer EXCEPT ![w] = "none"]
                 /\ UNCHANGED reply
            ELSE Answer(w, "refused")
    /\ disturbed' = [disturbed EXCEPT ![w] = FALSE]
    /\ UNCHANGED <<core, streams>>

\* Mutant: a failed command is answered like one that was carried out.
Command_unchecked(w) ==
    /\ wpc[w] = "call"
    /\ \E ok \in BOOLEAN :
          /\ Perform(request[w].command, ok)
          /\ IF request[w].interface = "http" /\ request[w].command.action = "velocity"
               THEN Answer(w, "accepted")
               ELSE Proceed(w, "read", None)
    /\ Noticed(Workers \ {w})
    /\ UNCHANGED streams

\* The command: what the controller throws becomes the answer.  The HTTP reply
\* to a velocity shows no state.
Command(w) ==
    /\ wpc[w] = "call"
    /\ \E ok \in BOOLEAN :
          /\ Perform(request[w].command, ok)
          /\ IF ~ok
               THEN Answer(w, "unavailable")
               ELSE IF request[w].interface = "http" /\ request[w].command.action = "velocity"
               THEN Answer(w, "accepted")
               ELSE Proceed(w, "read", None)
    /\ Noticed(Workers \ {w})
    /\ UNCHANGED streams

\* Mutant: a command whose status cannot be read is carried out again.
ReadStatus_retries(w) ==
    /\ wpc[w] = "read"
    /\ request[w].interface = "http" \/ request[w].command.action = "status"
    /\ \E ok \in BOOLEAN :
          /\ CallStatus(ok)
          /\ IF ok THEN Proceed(w, "error", camera)
             ELSE IF request[w].command.action = "status" THEN Answer(w, "unavailable")
             ELSE Proceed(w, "call", None)
    /\ Noticed(Workers \ {w})
    /\ UNCHANGED streams

\* The state the reply shows: status() for HTTP and for GetStatus, whose
\* failure is the answer even though the command was carried out, ...
ReadStatus(w) ==
    /\ wpc[w] = "read"
    /\ request[w].interface = "http" \/ request[w].command.action = "status"
    /\ \E ok \in BOOLEAN :
          /\ CallStatus(ok)
          /\ IF ok THEN Proceed(w, "error", camera) ELSE Answer(w, "unavailable")
    /\ Noticed(Workers \ {w})
    /\ UNCHANGED streams

\* ... and cached_status() for Publish.
ReadCached(w) ==
    /\ wpc[w] = "read"
    /\ request[w].interface = "grpc" /\ request[w].command.action # "status"
    /\ Proceed(w, "error", state)
    /\ UNCHANGED <<core, disturbed, streams>>

\* background_error(), and the reply is complete.
ReadError(w) ==
    /\ wpc[w] = "error"
    /\ Answer(w, IF backgroundError THEN "ok, with an error" ELSE "ok")
    /\ UNCHANGED <<core, disturbed, streams>>

Handle(w) == Command(w) \/ ReadStatus(w) \/ ReadCached(w) \/ ReadError(w)

----------------------------------------------------------------------------
\* Subscriptions.

\* interval_ms is replaced when it is zero and then checked.
Subscribe(s) ==
    /\ spc[s] = "off"
    /\ \E ms \in AskedIntervals :
          LET asked == IF ms = 0 THEN Interval.default ELSE ms IN
          /\ InRange(asked, Interval.minimum, Interval.maximum)
          /\ interval' = [interval EXCEPT ![s] = asked]
    /\ spc' = [spc EXCEPT ![s] = "top"]
    /\ UNCHANGED <<core, workers, cancelled, snapshot, sent>>

\* Mutant: the state is copied when the stream opens only.
StreamSnapshot_once(s) ==
    /\ spc[s] = "top" /\ ~cancelled[s]
    /\ spc' = [spc EXCEPT ![s] = "error"]
    /\ snapshot' = [snapshot EXCEPT ![s] =
                       [state |-> IF sent[s] = None THEN state ELSE sent[s].state]]
    /\ UNCHANGED <<core, workers, interval, cancelled, sent>>

\* The head of the loop: the copy of the state, ...
StreamSnapshot(s) ==
    /\ spc[s] = "top" /\ ~cancelled[s]
    /\ spc' = [spc EXCEPT ![s] = "error"]
    /\ snapshot' = [snapshot EXCEPT ![s] = [state |-> state]]
    /\ UNCHANGED <<core, workers, interval, cancelled, sent>>

\* ... the background error, the write and the sleep.  A write fails only when
\* the client is gone.
StreamWrite(s) ==
    /\ spc[s] = "error"
    /\ IF cancelled[s]
         THEN spc' = [spc EXCEPT ![s] = "ended"] /\ UNCHANGED sent
         ELSE /\ spc' = [spc EXCEPT ![s] = "top"]
              /\ sent' = [sent EXCEPT ![s] =
                             [state |-> snapshot[s].state, error |-> backgroundError]]
    /\ snapshot' = [snapshot EXCEPT ![s] = None]
    /\ UNCHANGED <<core, workers, interval, cancelled>>

StreamEnd(s) ==
    /\ spc[s] = "top" /\ cancelled[s]
    /\ spc' = [spc EXCEPT ![s] = "ended"]
    /\ UNCHANGED <<core, workers, interval, cancelled, snapshot, sent>>

Stream(s) == StreamSnapshot(s) \/ StreamWrite(s) \/ StreamEnd(s)

\* The client hangs up.
Cancel(s) ==
    /\ spc[s] # "off" /\ ~cancelled[s]
    /\ cancelled' = [cancelled EXCEPT ![s] = TRUE]
    /\ UNCHANGED <<core, workers, spc, interval, snapshot, sent>>

\* The gamepad, the other workers, the motion thread and the camera.
Others ==
    /\ CoreNext
    /\ Noticed(Workers)
    /\ UNCHANGED <<wpc, request, reply, answer, streams>>

ServiceNext ==
    \/ \E w \in Workers : Receive(w) \/ Handle(w)
    \/ \E s \in Subscribers : Subscribe(s) \/ Stream(s) \/ Cancel(s)
    \/ Others

ServiceSpec == ServiceInit /\ [][ServiceNext]_serviceVars

\* The scheduler runs the handlers and the mutex is handed on.
ServiceFairSpec ==
    /\ ServiceSpec
    /\ \A w \in Workers : WF_serviceVars(Handle(w))
    /\ \A s \in Subscribers : WF_serviceVars(Stream(s))

----------------------------------------------------------------------------
\* Properties.

\* Every variable has its type; in particular a reply shows a state the camera
\* can be in, and the interval of a stream is one that may be asked for.
ServiceTypeOK ==
    /\ \A w \in Workers :
          /\ wpc[w] \in {"idle", "call", "read", "error"}
          /\ request[w] = None <=> wpc[w] = "idle"
          /\ request[w] # None => request[w] \in Requests
          /\ reply[w] = None <=> wpc[w] # "error"
          /\ reply[w] # None => reply[w] \in CameraStates
          /\ answer[w] \in {"none", "refused", "unavailable", "accepted", "ok", "ok, with an error"}
    /\ \A s \in Subscribers :
          /\ spc[s] \in {"off", "top", "error", "ended"}
          /\ interval[s] \in Interval.minimum .. Interval.maximum
          /\ sent[s] = None \/ sent[s].state \in CameraStates

\* Whatever the requests ask for, the handlers make only calls that
\* ControllerCore allows: the theorems about it hold of the served controller.
LegalService == CoreSpec

\* A reply that reports success to a command shows the value commanded and no
\* error of a motion that the command ended, unless somebody else changed the
\* field, or a motion failed, between the command and the reply.
ReplyShowsCommand ==
    \A w \in Workers :
        (wpc[w] = "error" /\ ~disturbed[w]) =>
            \A set \in Sets(request[w].command) :
                reply[w][set[1]] = set[2] /\ ~backgroundError

\* Every request is answered, whether or not the camera answers.
RequestsAnswered == \A w \in Workers : wpc[w] # "idle" ~> wpc[w] = "idle"

\* A stream catches up: when the controller's state comes to rest, its client
\* has been sent that state and that error, or has hung up.
StreamCatchesUp ==
    \A s \in Subscribers :
        \/ []<>(sent[s] = [state |-> state, error |-> backgroundError])
        \/ []<><<<<state, backgroundError>>' # <<state, backgroundError>>>>_serviceVars
        \/ <>[](spc[s] \in {"off", "ended"})
=============================================================================

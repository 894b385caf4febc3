--------------------------- MODULE Service_proofs ---------------------------
(***************************************************************************)
(* Proofs about the HTTP and gRPC handlers, for any number of workers and  *)
(* streams and whatever the requests ask for.                              *)
(***************************************************************************)
EXTENDS Service, ControllerCore_proofs

(***************************************************************************)
(* Commands.                                                               *)
(***************************************************************************)

\* What a command is, by its action.
LEMMA CommandShapes ==
    ASSUME NEW c \in Commands
    PROVE  /\ c.action \in {"position", "velocity", "zoom", "tracking", "center", "malformed"}
           /\ c.action = "position" => c.position \in [Axes -> Int]
           /\ c.action = "velocity" => c.velocity \in AskedVelocities
           /\ c.action = "zoom" => c.zoom \in Int
           /\ c.action = "tracking" => c.tracking \in BOOLEAN
<1>1. CASE c \in [action : {"position"}, position : AskedPositions]
  BY <1>1, AskedAssumption
<1>2. CASE c \in [action : {"velocity"}, velocity : AskedVelocities]
  BY <1>2
<1>3. CASE c \in [action : {"zoom"}, zoom : AskedZooms]
  BY <1>3, AskedAssumption
<1>4. CASE c \in [action : {"tracking"}, tracking : BOOLEAN]
  BY <1>4
<1>5. CASE c \in [action : {"center", "malformed"}]
  BY <1>5
<1> QED
  BY <1>1, <1>2, <1>3, <1>4, <1>5 DEF Commands

\* What a command sets.
LEMMA SetsCases ==
    ASSUME NEW c
    PROVE  /\ c.action = "position" => Sets(c) = {<<"position", c.position>>}
           /\ c.action = "center" => Sets(c) = {<<"position", Center>>}
           /\ c.action = "zoom" => Sets(c) = {<<"zoom", c.zoom>>}
           /\ c.action = "tracking" => Sets(c) = {<<"tracking", c.tracking>>}
           /\ c.action \notin {"position", "center", "zoom", "tracking"} => Sets(c) = {}
  BY DEF Sets

\* What the validation leaves of a command.
LEMMA ValidCases ==
    ASSUME NEW c \in Commands, Valid(c)
    PROVE  /\ c.action = "position" => c.position \in Positions
           /\ c.action = "velocity" => c.velocity \in Velocities
           /\ c.action = "zoom" => c.zoom \in Zooms
           /\ c.action # "malformed"
<1>1. ASSUME c.action = "position" PROVE c.position \in Positions
  <2>1. \A a \in Axes : InRange(c.position[a], Ranges[a].minimum, Ranges[a].maximum)
    BY <1>1 DEF Valid
  <2>2. c.position \in [Axes -> Int]
    BY <1>1, CommandShapes
  <2> QED
    BY <2>1, <2>2, PositionsCharacterised DEF InRange
<1>2. ASSUME c.action = "velocity" PROVE c.velocity \in Velocities
  <2>1. \A a \in Axes : InRange(c.velocity[a], -MaxSpeed, MaxSpeed)
    BY <1>2 DEF Valid
  <2>2. c.velocity \in AskedVelocities /\ c.velocity \in [Axes -> Int]
    BY <1>2, CommandShapes, AskedAssumption
  <2>3. \A a \in Axes : Abs(c.velocity[a]) <= MaxSpeed
    BY <2>1, <2>2, LimitsAssumption DEF InRange, Abs
  <2> QED
    BY <2>2, <2>3, LimitsAssumption
<1>3. ASSUME c.action = "zoom" PROVE c.zoom \in Zooms
  <2>1. InRange(c.zoom, MinZoom, MaxZoom)
    BY <1>3 DEF Valid
  <2>2. c.zoom \in Int
    BY <1>3, CommandShapes
  <2> QED
    BY <2>1, <2>2, LimitsAssumption DEF InRange
<1>4. c.action # "malformed"
  BY DEF Valid
<1> QED
  BY <1>1, <1>2, <1>3, <1>4

\* A valid command makes a call that ControllerCore allows.
LEMMA PerformIsCore ==
    ASSUME NEW c \in Commands, Valid(c), NEW ok \in BOOLEAN, Perform(c, ok)
    PROVE  CoreNext
<1>1. CASE c.action = "position"
  BY <1>1, ValidCases DEF Perform, CoreNext, Call
<1>2. CASE c.action = "velocity"
  BY <1>2, ValidCases DEF Perform, CoreNext, Call
<1>3. CASE c.action = "zoom"
  BY <1>3, ValidCases DEF Perform, CoreNext, Call
<1>4. CASE c.action = "tracking"
  BY <1>4, CommandShapes DEF Perform, CoreNext, Call
<1>5. CASE c.action = "center"
  BY <1>5 DEF Perform, CoreNext, Call
<1> QED
  BY <1>1, <1>2, <1>3, <1>4, <1>5, CommandShapes, ValidCases

\* What a command that succeeds leaves in the camera, in its copy and of an
\* error.
Shows(shown, c) == \A set \in Sets(c) : shown[set[1]] = set[2]

\* A command that succeeds is in the camera and in the copy, and clears an error.
LEMMA PerformSets ==
    ASSUME CoreTypeOK, NEW c \in Commands, Valid(c), Perform(c, TRUE)
    PROVE  /\ Shows(camera', c) /\ Shows(state', c)
           /\ Sets(c) # {} => ~backgroundError'
<1> USE SetsCases, CommandShapes DEF Shows
<1>0. camera \in CameraStates /\ state \in CameraStates
  BY DEF CoreTypeOK, CameraStates
<1>1. ASSUME NEW p, CallSetPosition(p, TRUE)
      PROVE  camera'["position"] = p /\ state'["position"] = p /\ ~backgroundError'
  BY <1>0, <1>1 DEF CallSetPosition, PositionSet, CameraStates
<1>2. CASE c.action = "position"
  <2>1. CallSetPosition(c.position, TRUE)
    BY <1>2 DEF Perform
  <2>2. camera'["position"] = c.position /\ state'["position"] = c.position /\ ~backgroundError'
    BY <1>1, <2>1
  <2> QED
    BY <1>2, <2>2
<1>3. CASE c.action = "center"
  <2>1. CallSetPosition(Center, TRUE)
    BY <1>3 DEF Perform, CallCenter
  <2>2. camera'["position"] = Center /\ state'["position"] = Center /\ ~backgroundError'
    BY <1>1, <2>1
  <2> QED
    BY <1>3, <2>2
<1>4. CASE c.action = "zoom"
  <2>1. CallSetZoom(c.zoom, TRUE)
    BY <1>4 DEF Perform
  <2>2. camera'["zoom"] = c.zoom /\ state'["zoom"] = c.zoom /\ ~backgroundError'
    BY <1>0, <2>1 DEF CallSetZoom, CameraStates
  <2> QED
    BY <1>4, <2>2
<1>5. CASE c.action = "tracking"
  <2>1. CallSetTracking(c.tracking, TRUE)
    BY <1>5 DEF Perform
  <2>2. camera'["tracking"] = c.tracking /\ state'["tracking"] = c.tracking /\ ~backgroundError'
    BY <1>0, <2>1 DEF CallSetTracking, CameraStates
  <2> QED
    BY <1>5, <2>2
<1>6. CASE c.action \in {"velocity", "malformed"}
  BY <1>6
<1> QED
  BY <1>2, <1>3, <1>4, <1>5, <1>6

(***************************************************************************)
(* The invariant of the handlers.                                          *)
(***************************************************************************)

\* A request that is served is valid, and only a command is carried out.
Served(w) ==
    request[w] # None =>
        /\ request[w] \in Requests
        /\ request[w].command.action = "status" => wpc[w] # "call"
        /\ request[w].command.action # "status" =>
              request[w].command \in Commands /\ Valid(request[w].command)

\* A command that was carried out shows in the camera and in the copy until
\* somebody disturbs it.
CarriedOut(w) ==
    wpc[w] \in {"read", "error"} /\ ~disturbed[w] =>
        /\ Shows(camera, request[w].command) /\ Shows(state, request[w].command)
        /\ Sets(request[w].command) # {} => ~backgroundError
        /\ wpc[w] = "error" => Shows(reply[w], request[w].command)

WorkerOK(w) ==
    /\ wpc[w] \in {"idle", "call", "read", "error"}
    /\ request[w] = None <=> wpc[w] = "idle"
    /\ reply[w] = None <=> wpc[w] # "error"
    /\ reply[w] # None => reply[w] \in CameraStates
    /\ answer[w] \in {"none", "refused", "unavailable", "accepted", "ok", "ok, with an error"}
    /\ Served(w)

WorkersOK ==
    /\ DOMAIN wpc = Workers /\ DOMAIN request = Workers
    /\ DOMAIN reply = Workers /\ DOMAIN answer = Workers
    /\ disturbed \in [Workers -> BOOLEAN]
    /\ \A w \in Workers : WorkerOK(w)

StreamsOK ==
    /\ spc \in [Subscribers -> {"off", "top", "error", "ended"}]
    /\ interval \in [Subscribers -> Interval.minimum .. Interval.maximum]
    /\ DOMAIN snapshot = Subscribers /\ DOMAIN sent = Subscribers
    /\ \A s \in Subscribers :
          /\ spc[s] = "error" => snapshot[s].state \in CameraStates
          /\ sent[s] = None \/ sent[s].state \in CameraStates

ServiceInv ==
    /\ CoreTypeOK /\ WorkersOK /\ StreamsOK
    /\ \A w \in Workers : CarriedOut(w)

\* A request and a state are something.
LEMMA SomethingIsNotNone ==
    /\ \A r \in Requests : r # None
    /\ \A s \in CameraStates : s # None
<1>1. ASSUME NEW r \in Requests PROVE r # None
  <2>1. "interface" \in DOMAIN r BY DEF Requests
  <2>2. "interface" \notin DOMAIN None BY DEF None
  <2> QED BY <2>1, <2>2
<1>2. ASSUME NEW s \in CameraStates PROVE s # None
  <2>1. "zoom" \in DOMAIN s BY DEF CameraStates
  <2>2. "zoom" \notin DOMAIN None BY DEF None
  <2> QED BY <2>1, <2>2
<1> QED BY <1>1, <1>2

\* What a step of a worker leaves of the others, and what it makes of its own.
Steps(w) ==
    /\ \A v \in Workers \ {w} : wpc'[v] = wpc[v] /\ request'[v] = request[v] /\ reply'[v] = reply[v]
                                /\ answer'[v] = answer[v]
    /\ DOMAIN wpc' = Workers /\ DOMAIN request' = Workers /\ DOMAIN reply' = Workers
    /\ DOMAIN answer' = Workers

\* An answer touches no other worker and leaves this one idle.
LEMMA AnswerEffect ==
    ASSUME WorkersOK, NEW w \in Workers, NEW status, Answer(w, status)
    PROVE  /\ Steps(w)
           /\ wpc'[w] = "idle" /\ request'[w] = None /\ reply'[w] = None /\ answer'[w] = status
  BY DEF Answer, WorkersOK, Steps

\* Going on to the next critical section touches no other worker.
LEMMA ProceedEffect ==
    ASSUME WorkersOK, NEW w \in Workers, NEW step, NEW shown, Proceed(w, step, shown)
    PROVE  /\ Steps(w)
           /\ wpc'[w] = step /\ request'[w] = request[w] /\ reply'[w] = shown
           /\ answer'[w] = answer[w]
  BY DEF Proceed, WorkersOK, Steps

\* A step that changes no worker but w, and changes what the others rely on
\* only noticeably, keeps what they did.
LEMMA OthersNotice ==
    ASSUME WorkersOK, NEW group \in SUBSET Workers, Noticed(group), NEW w \in group, CarriedOut(w),
           wpc'[w] = wpc[w], request'[w] = request[w], reply'[w] = reply[w]
    PROVE  CarriedOut(w)'
<1>1. disturbed'[w] = (disturbed[w] \/ (w \in group /\ wpc[w] \in {"read", "error"} /\ Disturbs(w)))
  BY DEF Noticed
<1>2. SUFFICES ASSUME wpc[w] \in {"read", "error"}, ~disturbed'[w] PROVE CarriedOut(w)'
  BY DEF CarriedOut
<1>3. ~disturbed[w] /\ ~Disturbs(w)
  BY <1>1, <1>2
<1>4. /\ \A set \in Sets(request[w].command) :
            camera'[set[1]] = camera[set[1]] /\ state'[set[1]] = state[set[1]]
      /\ backgroundError' = backgroundError
  BY <1>3 DEF Disturbs
<1> QED
  BY <1>2, <1>3, <1>4 DEF CarriedOut, Shows

\* It is enough to look at the worker that steps.
LEMMA OneWorkerSteps ==
    ASSUME WorkersOK, NEW w \in Workers, Steps(w), disturbed' \in [Workers -> BOOLEAN], WorkerOK(w)'
    PROVE  WorkersOK'
<1>1. \A v \in Workers \ {w} : WorkerOK(v)'
  BY DEF WorkersOK, WorkerOK, Served, Steps
<1> QED
  BY <1>1 DEF WorkersOK, Steps

\* The history of disturbances keeps its type.
LEMMA NoticedTypes ==
    ASSUME WorkersOK, NEW group, Noticed(group) PROVE disturbed' \in [Workers -> BOOLEAN]
  BY DEF WorkersOK, Noticed

(***************************************************************************)
(* Each step of a worker.                                                  *)
(***************************************************************************)

\* A step of w is fine when it is a step of ControllerCore and leaves w, the
\* others and the streams fine.
Fine == [CoreNext]_core /\ WorkersOK' /\ StreamsOK' /\ (\A v \in Workers : CarriedOut(v)')

\* A step that leaves the streams alone keeps them fine.
LEMMA StreamsUntouched == ASSUME StreamsOK, UNCHANGED streams PROVE StreamsOK'
  BY DEF StreamsOK, streams

\* Accepting or refusing a request.
LEMMA ReceiveFine ==
    ASSUME ServiceInv, NEW w \in Workers, Receive(w) PROVE Fine
<1>1. PICK r \in Requests :
          IF Valid(r.command)
            THEN /\ request' = [request EXCEPT ![w] = r]
                 /\ wpc' = [wpc EXCEPT ![w] = IF r.command.action = "status" THEN "read" ELSE "call"]
                 /\ answer' = [answer EXCEPT ![w] = "none"]
                 /\ UNCHANGED reply
            ELSE Answer(w, "refused")
  BY DEF Receive
<1>2. /\ wpc[w] = "idle" /\ disturbed' = [disturbed EXCEPT ![w] = FALSE]
      /\ UNCHANGED core /\ UNCHANGED streams
  BY DEF Receive
<1>3. disturbed' \in [Workers -> BOOLEAN] /\ \A v \in Workers \ {w} : disturbed'[v] = disturbed[v]
  BY <1>2 DEF ServiceInv, WorkersOK
<1>4. r # None /\ r.command \in Commands \cup [action : {"status"}]
  BY SomethingIsNotNone DEF Requests
<1>5. Steps(w) /\ WorkerOK(w)' /\ wpc'[w] # "error"
      /\ (wpc'[w] = "read" => request'[w].command.action = "status")
  <2>1. CASE Valid(r.command)
    <3>1. Steps(w)
      BY <1>1, <2>1 DEF ServiceInv, WorkersOK, Steps
    <3>2. /\ request'[w] = r /\ answer'[w] = "none" /\ reply'[w] = reply[w]
          /\ wpc'[w] = IF r.command.action = "status" THEN "read" ELSE "call"
      BY <1>1, <2>1 DEF ServiceInv, WorkersOK
    <3>3. reply[w] = None
      BY <1>2 DEF ServiceInv, WorkersOK, WorkerOK
    <3>4. r.command.action # "status" => r.command \in Commands
      BY <1>4
    <3>5. Served(w)'
      BY <2>1, <3>2, <3>4 DEF Served
    <3> QED
      BY <1>4, <3>1, <3>2, <3>3, <3>5 DEF WorkerOK
  <2>2. CASE ~Valid(r.command)
    <3>1. /\ Steps(w)
          /\ wpc'[w] = "idle" /\ request'[w] = None /\ reply'[w] = None /\ answer'[w] = "refused"
      BY <1>1, <2>2, AnswerEffect DEF ServiceInv
    <3> QED
      BY <3>1 DEF WorkerOK, Served
  <2> QED
    BY <2>1, <2>2
<1>6. CarriedOut(w)'
  <2>1. wpc'[w] = "read" => Sets(request'[w].command) = {}
    BY <1>5, SetsCases
  <2> QED
    BY <1>5, <2>1 DEF CarriedOut, Shows
<1>7. \A v \in Workers \ {w} : CarriedOut(v)'
  BY <1>2, <1>3, <1>5 DEF Steps, CarriedOut, Shows, ServiceInv, core
<1> QED
  BY <1>2, <1>3, <1>5, <1>6, <1>7, OneWorkerSteps, StreamsUntouched DEF Fine, ServiceInv

\* What a command that was valid leaves to do.
LEMMA CommandFine ==
    ASSUME ServiceInv, NEW w \in Workers, Command(w) PROVE Fine
<1>1. PICK ok \in BOOLEAN :
          /\ Perform(request[w].command, ok)
          /\ IF ~ok
               THEN Answer(w, "unavailable")
               ELSE IF request[w].interface = "http" /\ request[w].command.action = "velocity"
               THEN Answer(w, "accepted")
               ELSE Proceed(w, "read", None)
  BY DEF Command
<1>2. wpc[w] = "call" /\ Noticed(Workers \ {w}) /\ UNCHANGED streams
  BY DEF Command
<1>3. /\ request[w] \in Requests /\ request[w].command \in Commands /\ Valid(request[w].command)
      /\ request[w].command.action # "status" /\ request[w] # None
  BY <1>2 DEF ServiceInv, WorkersOK, WorkerOK, Served
<1>4. [CoreNext]_core
  BY <1>1, <1>3, PerformIsCore
<1>5. disturbed' \in [Workers -> BOOLEAN] /\ disturbed'[w] = disturbed[w]
  BY <1>2, NoticedTypes DEF ServiceInv, WorkersOK, Noticed
<1>6. Steps(w) /\ WorkerOK(w)' /\ (wpc'[w] = "idle" \/ (ok /\ wpc'[w] = "read" /\ request'[w] = request[w]))
  <2>1. CASE Answer(w, "unavailable") \/ Answer(w, "accepted")
    <3>1. PICK status \in {"unavailable", "accepted"} : Answer(w, status)
      BY <2>1
    <3>2. /\ Steps(w)
          /\ wpc'[w] = "idle" /\ request'[w] = None /\ reply'[w] = None /\ answer'[w] = status
      BY <3>1, AnswerEffect DEF ServiceInv
    <3> QED
      BY <3>2 DEF WorkerOK, Served
  <2>2. CASE ok /\ Proceed(w, "read", None)
    <3>1. /\ Steps(w)
          /\ wpc'[w] = "read" /\ request'[w] = request[w] /\ reply'[w] = None
          /\ answer'[w] = answer[w]
      BY <2>2, ProceedEffect DEF ServiceInv
    <3>2. WorkerOK(w)
      BY DEF ServiceInv, WorkersOK
    <3> QED
      BY <1>3, <2>2, <3>1, <3>2 DEF WorkerOK, Served
  <2> QED
    BY <1>1, <2>1, <2>2
<1>7. CarriedOut(w)'
  <2>1. CASE wpc'[w] = "idle"
    BY <2>1 DEF CarriedOut
  <2>2. CASE ok /\ wpc'[w] = "read" /\ request'[w] = request[w]
    <3>1. /\ Shows(camera', request[w].command) /\ Shows(state', request[w].command)
          /\ Sets(request[w].command) # {} => ~backgroundError'
      BY <1>1, <1>3, <2>2, PerformSets DEF ServiceInv
    <3> QED
      BY <2>2, <3>1 DEF CarriedOut, Shows
  <2> QED
    BY <1>6, <2>1, <2>2
<1>8. \A v \in Workers \ {w} : CarriedOut(v)'
  BY <1>2, <1>6, OthersNotice DEF Steps, ServiceInv
<1> QED
  BY <1>2, <1>4, <1>5, <1>6, <1>7, <1>8, OneWorkerSteps, StreamsUntouched DEF Fine, ServiceInv

\* The controller answers a status with the state of the camera.
LEMMA StatusIsCore ==
    ASSUME NEW ok \in BOOLEAN, CallStatus(ok)
    PROVE  /\ [CoreNext]_core /\ camera' = camera /\ backgroundError' = backgroundError
           /\ state' = IF ok THEN camera ELSE state
<1>1. CASE ok = TRUE
  BY <1>1 DEF CallStatus, CoreNext, Call
<1>2. CASE ok = FALSE
  BY <1>2 DEF CallStatus, core
<1> QED
  BY <1>1, <1>2

\* Reading the state from the camera for a reply.
LEMMA ReadStatusFine ==
    ASSUME ServiceInv, NEW w \in Workers, ReadStatus(w) PROVE Fine
<1>1. PICK ok \in BOOLEAN :
          /\ CallStatus(ok)
          /\ IF ok THEN Proceed(w, "error", camera) ELSE Answer(w, "unavailable")
  BY DEF ReadStatus
<1>2. wpc[w] = "read" /\ Noticed(Workers \ {w}) /\ UNCHANGED streams
  BY DEF ReadStatus
<1>3. WorkerOK(w) /\ CarriedOut(w) /\ camera \in CameraStates
  BY DEF ServiceInv, WorkersOK, CoreTypeOK
<1>4. /\ [CoreNext]_core /\ camera' = camera /\ backgroundError' = backgroundError
      /\ state' = IF ok THEN camera ELSE state
  BY <1>1, StatusIsCore
<1>5. disturbed' \in [Workers -> BOOLEAN] /\ disturbed'[w] = disturbed[w]
  BY <1>2, NoticedTypes DEF ServiceInv, WorkersOK, Noticed
<1>6. Steps(w) /\ WorkerOK(w)' /\ CarriedOut(w)'
  <2>1. CASE Proceed(w, "error", camera) /\ ok
    <3>1. /\ Steps(w)
          /\ wpc'[w] = "error" /\ request'[w] = request[w] /\ reply'[w] = camera
          /\ answer'[w] = answer[w]
      BY <2>1, ProceedEffect DEF ServiceInv
    <3>2. WorkerOK(w)'
      BY <1>2, <1>3, <3>1, SomethingIsNotNone DEF WorkerOK, Served
    <3>3. CarriedOut(w)'
      BY <1>2, <1>3, <1>4, <1>5, <2>1, <3>1 DEF CarriedOut, Shows
    <3> QED
      BY <3>1, <3>2, <3>3
  <2>2. CASE Answer(w, "unavailable")
    <3>1. /\ Steps(w)
          /\ wpc'[w] = "idle" /\ request'[w] = None /\ reply'[w] = None
          /\ answer'[w] = "unavailable"
      BY <2>2, AnswerEffect DEF ServiceInv
    <3> QED
      BY <3>1 DEF WorkerOK, Served, CarriedOut
  <2> QED
    BY <1>1, <2>1, <2>2
<1>7. \A v \in Workers \ {w} : CarriedOut(v)'
  BY <1>2, <1>6, OthersNotice DEF Steps, ServiceInv
<1> QED
  BY <1>2, <1>4, <1>5, <1>6, <1>7, OneWorkerSteps, StreamsUntouched DEF Fine, ServiceInv

\* Taking the controller's copy for a reply.
LEMMA ReadCachedFine ==
    ASSUME ServiceInv, NEW w \in Workers, ReadCached(w) PROVE Fine
<1>1. /\ wpc[w] = "read" /\ Proceed(w, "error", state)
      /\ UNCHANGED core /\ UNCHANGED disturbed /\ UNCHANGED streams
  BY DEF ReadCached
<1>2. WorkerOK(w) /\ CarriedOut(w) /\ state \in CameraStates /\ disturbed \in [Workers -> BOOLEAN]
  BY DEF ServiceInv, WorkersOK, CoreTypeOK
<1>3. /\ Steps(w)
      /\ wpc'[w] = "error" /\ request'[w] = request[w] /\ reply'[w] = state
      /\ answer'[w] = answer[w]
  BY <1>1, ProceedEffect DEF ServiceInv
<1>4. WorkerOK(w)'
  BY <1>1, <1>2, <1>3, SomethingIsNotNone DEF WorkerOK, Served
<1>5. CarriedOut(w)'
  BY <1>1, <1>2, <1>3 DEF CarriedOut, Shows, core
<1>6. \A v \in Workers \ {w} : CarriedOut(v)'
  BY <1>1, <1>3 DEF Steps, CarriedOut, Shows, ServiceInv, core
<1> QED
  BY <1>1, <1>2, <1>3, <1>4, <1>5, <1>6, OneWorkerSteps, StreamsUntouched DEF Fine, ServiceInv

\* Taking the background error for a reply, and answering.
LEMMA ReadErrorFine ==
    ASSUME ServiceInv, NEW w \in Workers, ReadError(w) PROVE Fine
<1>1. /\ UNCHANGED core /\ UNCHANGED disturbed /\ UNCHANGED streams
      /\ \E status \in {"ok, with an error", "ok"} : Answer(w, status)
  BY DEF ReadError
<1>2. disturbed \in [Workers -> BOOLEAN]
  BY DEF ServiceInv, WorkersOK
<1>3. PICK status \in {"ok, with an error", "ok"} : Answer(w, status)
  BY <1>1
<1>4. /\ Steps(w)
      /\ wpc'[w] = "idle" /\ request'[w] = None /\ reply'[w] = None /\ answer'[w] = status
  BY <1>3, AnswerEffect DEF ServiceInv
<1>5. WorkerOK(w)' /\ CarriedOut(w)'
  BY <1>4 DEF WorkerOK, Served, CarriedOut
<1>6. \A v \in Workers \ {w} : CarriedOut(v)'
  <2> TAKE v \in Workers \ {w}
  <2>1. wpc'[v] = wpc[v] /\ request'[v] = request[v] /\ reply'[v] = reply[v]
    BY <1>4 DEF Steps
  <2>2. CarriedOut(v)
    BY DEF ServiceInv
  <2> QED
    BY ONLY <1>1, <2>1, <2>2 DEF CarriedOut, Shows, core
<1> QED
  BY <1>1, <1>2, <1>4, <1>5, <1>6, OneWorkerSteps, StreamsUntouched DEF Fine, ServiceInv

(***************************************************************************)
(* Streams, and everybody else.                                            *)
(***************************************************************************)

\* A step that touches neither the guarded state nor a worker.
LEMMA WorkersUntouched ==
    ASSUME ServiceInv, UNCHANGED core, UNCHANGED workers
    PROVE  [CoreNext]_core /\ WorkersOK' /\ \A w \in Workers : CarriedOut(w)'
<1>1. WorkersOK'
  BY DEF ServiceInv, WorkersOK, WorkerOK, Served, workers
<1>2. \A w \in Workers : CarriedOut(w)'
  BY DEF ServiceInv, CarriedOut, Shows, workers, core
<1> QED
  BY <1>1, <1>2

\* A stream begins, with an interval that was validated.
LEMMA SubscribeFine ==
    ASSUME ServiceInv, NEW s \in Subscribers, Subscribe(s) PROVE Fine
<1>1. PICK asked \in Nat : InRange(asked, Interval.minimum, Interval.maximum)
                           /\ interval' = [interval EXCEPT ![s] = asked]
  <2>1. PICK ms \in AskedIntervals :
           /\ InRange(IF ms = 0 THEN Interval.default ELSE ms, Interval.minimum, Interval.maximum)
           /\ interval' = [interval EXCEPT ![s] = IF ms = 0 THEN Interval.default ELSE ms]
    BY DEF Subscribe
  <2>2. (IF ms = 0 THEN Interval.default ELSE ms) \in Nat
    BY AskedAssumption, IntervalAssumption
  <2> QED
    BY <2>1, <2>2
<1>2. asked \in Interval.minimum .. Interval.maximum
  BY <1>1, IntervalAssumption DEF InRange
<1>3. StreamsOK'
  BY <1>1, <1>2 DEF Subscribe, ServiceInv, StreamsOK
<1> QED
  BY <1>3, WorkersUntouched DEF Subscribe, Fine

\* A stream goes on or ends.
LEMMA StreamFine ==
    ASSUME ServiceInv, NEW s \in Subscribers, Stream(s) \/ Cancel(s) PROVE Fine
<1>1. UNCHANGED core /\ UNCHANGED workers /\ UNCHANGED interval
  BY DEF Stream, Cancel, StreamSnapshot, StreamWrite, StreamEnd
<1>2. StreamsOK'
  <2> USE DEF ServiceInv, StreamsOK
  <2>1. CASE StreamSnapshot(s)
    <3>1. state \in CameraStates
      BY DEF CoreTypeOK
    <3> QED
      BY <2>1, <3>1 DEF StreamSnapshot
  <2>2. CASE StreamWrite(s)
    BY <2>2 DEF StreamWrite
  <2>3. CASE StreamEnd(s)
    BY <2>3 DEF StreamEnd
  <2>4. CASE Cancel(s)
    BY <2>4 DEF Cancel
  <2> QED
    BY <2>1, <2>2, <2>3, <2>4 DEF Stream
<1> QED
  BY <1>1, <1>2, WorkersUntouched DEF Fine

\* A step of the other callers, the motion thread or the camera.
LEMMA OthersFine == ASSUME ServiceInv, Others PROVE Fine
<1>1. /\ CoreNext /\ Noticed(Workers) /\ UNCHANGED streams
      /\ wpc' = wpc /\ request' = request /\ reply' = reply /\ answer' = answer
  BY DEF Others
<1>2. disturbed' \in [Workers -> BOOLEAN]
  BY <1>1, NoticedTypes DEF ServiceInv
<1>3. WorkersOK'
  BY <1>1, <1>2 DEF ServiceInv, WorkersOK, WorkerOK, Served
<1>4. \A v \in Workers : CarriedOut(v)'
  BY <1>1, OthersNotice DEF ServiceInv
<1> QED
  BY <1>1, <1>3, <1>4, StreamsUntouched DEF Fine, ServiceInv

\* Every step is fine.
LEMMA StepFine == ASSUME ServiceInv, [ServiceNext]_serviceVars PROVE Fine
<1>1. CASE UNCHANGED serviceVars
  BY <1>1, WorkersUntouched, StreamsUntouched DEF serviceVars, Fine, ServiceInv
<1>2. CASE \E w \in Workers : Receive(w) \/ Handle(w)
  BY <1>2, ReceiveFine, CommandFine, ReadStatusFine, ReadCachedFine, ReadErrorFine DEF Handle
<1>3. CASE \E s \in Subscribers : Subscribe(s) \/ Stream(s) \/ Cancel(s)
  BY <1>3, SubscribeFine, StreamFine
<1>4. CASE Others
  BY <1>4, OthersFine
<1> QED
  BY <1>1, <1>2, <1>3, <1>4 DEF ServiceNext

(***************************************************************************)
(* Results.                                                                *)
(***************************************************************************)

\* The invariant holds before the first request.
LEMMA ServiceInitially == ServiceInit => ServiceInv
<1> SUFFICES ASSUME ServiceInit PROVE ServiceInv
  OBVIOUS
<1>1. CoreTypeOK
  BY CoreInitTypes DEF ServiceInit
<1>2. WorkersOK /\ \A w \in Workers : CarriedOut(w)
  BY DEF ServiceInit, WorkersOK, WorkerOK, Served, CarriedOut
<1>3. StreamsOK
  BY IntervalAssumption DEF ServiceInit, StreamsOK
<1> QED
  BY <1>1, <1>2, <1>3 DEF ServiceInv

\* The invariant of the handlers, and of the controller they share.
THEOREM ServiceCorrect == ServiceSpec => []ServiceInv
<1>1. ServiceInv /\ [ServiceNext]_serviceVars => ServiceInv'
  <2> SUFFICES ASSUME ServiceInv, [ServiceNext]_serviceVars PROVE ServiceInv'
    OBVIOUS
  <2>1. Fine
    BY StepFine
  <2>2. CoreTypeOK'
    BY <2>1, CoreStepsKeepTypes DEF Fine, ServiceInv
  <2> QED
    BY <2>1, <2>2 DEF Fine, ServiceInv
<1> QED
  BY <1>1, ServiceInitially, PTL DEF ServiceSpec

\* Whatever is asked for, by however many clients, no handler's variable leaves
\* its type, and every state that is sent is one the camera can be in.
THEOREM ServiceTypeCorrect == ServiceSpec => []ServiceTypeOK
<1>1. ServiceInv => ServiceTypeOK
  BY DEF ServiceInv, WorkersOK, WorkerOK, Served, StreamsOK, ServiceTypeOK
<1> QED
  BY <1>1, ServiceCorrect, PTL

\* The handlers only make calls that ControllerCore allows: their validation
\* refuses every other request.
THEOREM ServiceIsLegal == ServiceSpec => LegalService
<1>1. ServiceInit => CoreInit
  BY DEF ServiceInit
<1>2. ServiceInv /\ [ServiceNext]_serviceVars => [CoreNext]_core
  BY StepFine DEF Fine
<1> QED
  BY <1>1, <1>2, ServiceCorrect, PTL DEF ServiceSpec, CoreSpec, LegalService

\* A reply shows what the command set, unless somebody else came in between,
\* with any number of clients at work.
THEOREM ReplyShowsCommandHolds == ServiceSpec => []ReplyShowsCommand
<1>1. ServiceInv => ReplyShowsCommand
  <2> SUFFICES ASSUME ServiceInv, NEW w \in Workers, wpc[w] = "error", ~disturbed[w],
                      NEW set \in Sets(request[w].command)
               PROVE  reply[w][set[1]] = set[2] /\ ~backgroundError
    BY DEF ReplyShowsCommand
  <2> QED
    BY DEF ServiceInv, CarriedOut, Shows
<1> QED
  BY <1>1, ServiceCorrect, PTL
=============================================================================

--------------------------- MODULE Backend_proofs ---------------------------
(***************************************************************************)
(* Proofs about Backend, for every camera, every set of inputs and any     *)
(* number of calls, on both platforms.                                     *)
(***************************************************************************)
EXTENDS Backend, Wire_proofs

(***************************************************************************)
(* Values on their way to the camera and back.                             *)
(***************************************************************************)

\* The raw values that a control takes.
RawValues(c) == IF c \in Axes THEN RawPositions(c)
                ELSE IF c = "zoom" THEN RawZooms ELSE {0, 1}

RawDevice(raw) == /\ DOMAIN raw = Controls
                  /\ \A c \in Controls : raw[c] \in RawValues(c)

\* The names of the controls are different ones.
LEMMA Names ==
    /\ \A c \in Controls : c \in Axes \/ c = "zoom" \/ c = "tracking"
    /\ "pan" \in Axes /\ "tilt" \in Axes /\ "zoom" \notin Axes /\ "tracking" \notin Axes
    /\ \A a \in Axes : a = "pan" \/ a = "tilt"
    /\ \A a \in Axes : a \in Controls /\ a # "zoom" /\ a # "tracking"
    /\ "zoom" \in Controls /\ "tracking" \in Controls
    /\ RawValues("zoom") = RawZooms /\ RawValues("tracking") = {0, 1}
    /\ \A a \in Axes : RawValues(a) = RawPositions(a)
  BY DEF Controls, Axes, RawValues

\* The ranges that a camera advertises, and what it holds at their ends.
LEMMA RangeEnds ==
    ASSUME NEW a \in Axes
    PROVE  /\ Ranges[a].minimum \in Int /\ Ranges[a].maximum \in Int
           /\ Raw(Ranges[a].minimum) \in Int /\ Raw(Ranges[a].maximum) \in Int
           /\ FromRaw(Raw(Ranges[a].minimum)) = Ranges[a].minimum
           /\ FromRaw(Raw(Ranges[a].maximum)) = Ranges[a].maximum
  BY RangesAssumption, RoundsToNearest DEF Held

\* A position inside the ranges is sent as raw values inside them.
LEMMA PositionSent ==
    ASSUME NEW p \in [Axes -> Int], Inside(p), NEW a \in Axes
    PROVE  Raw(p[a]) \in RawValues(a)
<1>1. /\ p[a] \in Int /\ Ranges[a].minimum <= p[a] /\ p[a] <= Ranges[a].maximum
  BY DEF Inside
<1>2. /\ Raw(Ranges[a].minimum) <= Raw(p[a]) /\ Raw(p[a]) <= Raw(Ranges[a].maximum)
      /\ Raw(p[a]) \in Int
  BY <1>1, RangeEnds, RawKeepsOrder, RoundsToNearest
<1> QED
  BY <1>2, RangeEnds, Names DEF RawPositions

\* A raw value inside the raw range is read as a position inside the range.
LEMMA PositionRead ==
    ASSUME NEW a \in Axes, NEW r \in RawValues(a)
    PROVE  /\ r \in Int /\ FromRaw(r) \in Int
           /\ Ranges[a].minimum <= FromRaw(r) /\ FromRaw(r) <= Ranges[a].maximum
<1>1. PICK low \in Int, high \in Int :
          /\ low = Raw(Ranges[a].minimum) /\ high = Raw(Ranges[a].maximum)
          /\ FromRaw(low) = Ranges[a].minimum /\ FromRaw(high) = Ranges[a].maximum
  BY RangeEnds
<1>2. r \in Int /\ low <= r /\ r <= high
  BY <1>1, Names DEF RawPositions
<1>3. PICK s \in Nat : s = Scale
  BY ScaleAssumption
<1>4. low * s <= r * s /\ r * s <= high * s /\ r * s \in Int
  BY ONLY <1>2, low \in Int, high \in Int, s \in Nat
<1> QED
  BY <1>1, <1>2, <1>3, <1>4 DEF FromRaw

\* So is a zoom.
LEMMA ZoomSent ==
    ASSUME NEW z \in Zooms
    PROVE  /\ Raw(z) \in RawValues("zoom") /\ Raw(z) \in Nat /\ Raw(z) < Word
           /\ FromRaw(Raw(z)) \in Zooms
<1>1. z \in Nat /\ Held(z) \in Zooms /\ Raw(z) < Word
  BY RangesAssumption
<1>2. Raw(z) \in Int /\ Raw(0) = 0
  <2>1. FromRaw(0) = 0
    BY ScaleAssumption DEF FromRaw
  <2> QED
    BY <1>1, <2>1, RoundsToNearest, RawIsExact
<1>3. Raw(z) >= 0
  BY <1>1, <1>2, RawKeepsOrder
<1> QED
  BY <1>1, <1>2, <1>3, Names DEF RawZooms, Held

\* Raw values are whole numbers.
LEMMA RawValuesAreInt ==
    ASSUME NEW c \in Controls, NEW r \in RawValues(c) PROVE r \in Int
<1>1. CASE c \in Axes
  BY <1>1, PositionRead
<1>2. CASE c = "zoom"
  BY <1>2, ZoomSent, Names DEF RawZooms
<1>3. CASE c = "tracking"
  BY <1>3, Names
<1> QED
  BY <1>1, <1>2, <1>3, Names

\* The bytes of a UVC request hold every raw value that a control takes.
LEMMA CarriedUnchanged ==
    ASSUME platform \in {"linux", "macos"}, NEW c \in Controls, NEW r \in RawValues(c)
    PROVE  Carried(c, r) = r
<1>1. CASE platform = "linux" \/ c = "tracking"
  BY <1>1, Names DEF Carried
<1>2. CASE platform = "macos" /\ c \in Axes
  <2>1. PICK low \in Int, high \in Int :
            /\ low = Raw(Ranges[c].minimum) /\ high = Raw(Ranges[c].maximum)
            /\ -DoubleWord <= 2 * low /\ 2 * high < DoubleWord
    BY <1>2, RangeEnds, RangesAssumption
  <2>2. r \in Int /\ low <= r /\ r <= high
    BY <1>2, <2>1, Names DEF RawPositions
  <2>3. DoubleWord \in Nat
    BY Sizes
  <2>4. -DoubleWord <= 2 * r /\ 2 * r < DoubleWord
    BY <2>1, <2>2, <2>3
  <2>5. ReadI32(WriteI32(r)) = r
    BY <2>2, <2>4, I32RoundTrip
  <2> QED
    BY <1>2, <2>5, Names DEF Carried
<1>3. CASE platform = "macos" /\ c = "zoom"
  <2>1. r \in Nat /\ r < Word
    BY <1>3, ZoomSent, Names DEF RawZooms
  <2> QED
    BY <1>3, <2>1, U16RoundTrip, Names DEF Carried
<1> QED
  BY <1>1, <1>2, <1>3, Names

\* A camera that holds legal raw values is read as a legal state.
LEMMA StateRead ==
    ASSUME NEW raw, RawDevice(raw)
    PROVE  /\ StateOf(raw) = [position |-> [a \in Axes |-> FromRaw(raw[a])],
                              zoom |-> FromRaw(raw["zoom"]), tracking |-> raw["tracking"] # 0]
           /\ StateOf(raw).position \in [Axes -> Int] /\ Inside(StateOf(raw).position)
           /\ StateOf(raw).zoom \in Zooms
           /\ StateOf(raw).tracking \in BOOLEAN
<1>1. \A a \in Axes : /\ FromRaw(raw[a]) \in Int
                      /\ Ranges[a].minimum <= FromRaw(raw[a]) /\ FromRaw(raw[a]) <= Ranges[a].maximum
  BY PositionRead, Names DEF RawDevice
<1>2. FromRaw(raw["zoom"]) \in Zooms
  BY ZoomSent, Names DEF RawDevice, RawZooms
<1> QED
  BY <1>1, <1>2 DEF StateOf, Inside

(***************************************************************************)
(* Chains of requests.                                                     *)
(***************************************************************************)

Members(todo) == {todo[i] : i \in DOMAIN todo}

\* The controls that a chain of requests still writes and still reads.
Writes(todo) == UNION {DOMAIN r.writes : r \in Members(todo)}
Reads(todo) == UNION {r.reads : r \in Members(todo)}

\* Requests carry a value for some of the controls.
Partial == UNION {[given -> Int] : given \in SUBSET Controls}
DeviceRequests == [reads : SUBSET Controls, writes : Partial]
Methods == [method : {"read", "position", "zoom", "tracking"}, todo : Seq(DeviceRequests),
            got : Partial, threw : BOOLEAN]

\* The controls that a method writes.
Scope(name) ==
    CASE name = "position" -> Axes
      [] name = "zoom"     -> {"zoom"}
      [] name = "tracking" -> {"tracking"}
      [] OTHER             -> {}

\* The chain writes nothing but these values, or reads.
Sends(todo, name, sent) ==
    \A r \in Members(todo) : /\ DOMAIN r.writes \subseteq Scope(name)
                             /\ \A c \in DOMAIN r.writes : r.writes[c] = sent[c]
                             /\ DOMAIN r.writes = {} <=> name = "read"
                             /\ r.reads = {} \/ name = "read"

\* The method before its first request: it writes all of these values, or
\* reads everything.
Starts(m, name, sent) ==
    /\ m \in Methods /\ m.method = name /\ DOMAIN m.got = {} /\ m.threw = FALSE
    /\ Sends(m.todo, name, sent)
    /\ Scope(name) \subseteq Writes(m.todo)
    /\ name = "read" => Controls \subseteq Reads(m.todo)

\* A chain is its first request and the rest.
LEMMA HeadAndTail ==
    ASSUME NEW S, NEW todo \in Seq(S), todo # <<>>
    PROVE  /\ Head(todo) \in S /\ Tail(todo) \in Seq(S)
           /\ Members(todo) = {Head(todo)} \cup Members(Tail(todo))
<1>1. Len(todo) \in Nat /\ Len(todo) >= 1 /\ DOMAIN todo = 1 .. Len(todo)
  OBVIOUS
<1>2. /\ Head(todo) = todo[1] /\ Tail(todo) \in Seq(S) /\ Len(Tail(todo)) = Len(todo) - 1
      /\ \A i \in 1 .. Len(todo) - 1 : Tail(todo)[i] = todo[i + 1]
  OBVIOUS
<1>3. DOMAIN Tail(todo) = 1 .. Len(todo) - 1
  BY <1>2
<1> DEFINE rest == Tail(todo)
           n == Len(todo)
<1> HIDE DEF rest, n
<1>4. ASSUME NEW i \in 1 .. n PROVE todo[i] = Head(todo) \/ todo[i] \in Members(rest)
  <2>1. CASE i = 1
    BY <1>2, <2>1
  <2>2. CASE i # 1
    <3>1. i - 1 \in 1 .. n - 1 /\ rest[i - 1] = todo[(i - 1) + 1] /\ (i - 1) + 1 = i
      BY <1>1, <1>2, <2>2 DEF rest, n
    <3> QED
      BY <1>3, <3>1 DEF Members, rest, n
  <2> QED
    BY <2>1, <2>2
<1>5. ASSUME NEW i \in 1 .. n - 1 PROVE rest[i] \in Members(todo)
  <2>1. i + 1 \in 1 .. n /\ rest[i] = todo[i + 1]
    BY <1>1, <1>2 DEF rest, n
  <2> QED
    BY <1>1, <2>1 DEF Members, n
<1>6. Head(todo) \in Members(todo) /\ Head(todo) \in S
  BY <1>1, <1>2 DEF Members
<1>7. Members(todo) \subseteq {Head(todo)} \cup Members(rest)
  BY <1>1, <1>4 DEF Members, n
<1>8. Members(rest) \subseteq Members(todo)
  BY <1>3, <1>5 DEF Members, rest, n
<1> QED
  BY <1>2, <1>6, <1>7, <1>8 DEF rest

\* The empty chain and the short ones.
LEMMA ShortChains ==
    /\ Members(<<>>) = {}
    /\ \A r : Members(<<r>>) = {r}
    /\ \A r, s : Members(<<r, s>>) = {r, s}
<1>1. Members(<<>>) = {}
  BY DEF Members
<1>2. ASSUME NEW r PROVE Members(<<r>>) = {r}
  <2>1. DOMAIN <<r>> = {1} /\ <<r>>[1] = r
    OBVIOUS
  <2> HIDE DEF Members
  <2> QED
    BY <2>1 DEF Members
<1>3. ASSUME NEW r, NEW s PROVE Members(<<r, s>>) = {r, s}
  <2>1. DOMAIN <<r, s>> = {1, 2} /\ <<r, s>>[1] = r /\ <<r, s>>[2] = s
    OBVIOUS
  <2> QED
    BY <2>1 DEF Members
<1> QED
  BY <1>1, <1>2, <1>3

\* Two chains in a row.
LEMMA JoinedChains ==
    ASSUME NEW S, NEW s \in Seq(S), NEW t \in Seq(S)
    PROVE  s \o t \in Seq(S) /\ Members(s \o t) = Members(s) \cup Members(t)
<1> DEFINE u == s \o t
<1>1. /\ u \in Seq(S) /\ Len(u) = Len(s) + Len(t)
      /\ \A i \in 1 .. Len(s) + Len(t) : u[i] = IF i <= Len(s) THEN s[i] ELSE t[i - Len(s)]
  BY ConcatProperties
<1> HIDE DEF u
<1>2. PICK m \in Nat, n \in Nat : m = Len(s) /\ n = Len(t)
  OBVIOUS
<1>3. DOMAIN u = 1 .. m + n /\ DOMAIN s = 1 .. m /\ DOMAIN t = 1 .. n
  BY <1>1, <1>2
<1>4. \A i \in 1 .. m + n : u[i] = IF i <= m THEN s[i] ELSE t[i - m]
  BY <1>1, <1>2
<1>5. ASSUME NEW i \in 1 .. m + n PROVE u[i] \in Members(s) \cup Members(t)
  <2>1. CASE i <= m
    <3>1. i \in 1 .. m /\ u[i] = s[i]
      BY <1>4, <2>1
    <3> QED
      BY <1>3, <3>1 DEF Members
  <2>2. CASE ~(i <= m)
    <3>1. i - m \in 1 .. n /\ u[i] = t[i - m]
      BY <1>4, <2>2
    <3> QED
      BY <1>3, <3>1 DEF Members
  <2> QED
    BY <2>1, <2>2
<1>6. ASSUME NEW i \in 1 .. m PROVE s[i] \in Members(u)
  <2>1. i \in 1 .. m + n /\ u[i] = s[i]
    BY <1>4
  <2> QED
    BY <1>3, <2>1 DEF Members
<1>7. ASSUME NEW i \in 1 .. n PROVE t[i] \in Members(u)
  <2>1. i + m \in 1 .. m + n /\ ~(i + m <= m) /\ (i + m) - m = i
    OBVIOUS
  <2>2. u[i + m] = t[i]
    BY <1>4, <2>1
  <2> QED
    BY <1>3, <2>1, <2>2 DEF Members
<1>8. Members(u) \subseteq Members(s) \cup Members(t)
  BY <1>3, <1>5 DEF Members
<1>9. Members(s) \subseteq Members(u) /\ Members(t) \subseteq Members(u)
  BY <1>3, <1>6, <1>7 DEF Members
<1> QED
  BY <1>1, <1>8, <1>9 DEF u

\* What the requests of the methods are.
LEMMA ReadingIs ==
    ASSUME NEW controls \in SUBSET Controls
    PROVE  /\ Reading(controls) \in DeviceRequests
           /\ Reading(controls).reads = controls /\ DOMAIN Reading(controls).writes = {}
<1>1. <<>> \in [{} -> Int] /\ DOMAIN <<>> = {}
  OBVIOUS
<1>2. <<>> \in Partial
  BY <1>1 DEF Partial
<1> QED
  BY <1>1, <1>2 DEF Reading, DeviceRequests

\* A request that writes legal values writes them as they are.
LEMMA WritingIs ==
    ASSUME platform \in {"linux", "macos"}, NEW given \in SUBSET Controls,
           NEW values, DOMAIN values = given, \A c \in given : values[c] \in RawValues(c)
    PROVE  /\ Writing(values) \in DeviceRequests
           /\ Writing(values).reads = {} /\ DOMAIN Writing(values).writes = given
           /\ \A c \in given : Writing(values).writes[c] = values[c]
<1> DEFINE carried == [c \in given |-> Carried(c, values[c])]
<1>1. \A c \in given : carried[c] = values[c] /\ carried[c] \in Int
  BY CarriedUnchanged, RawValuesAreInt
<1>2. carried \in [given -> Int]
  BY <1>1
<1>3. carried \in Partial /\ DOMAIN carried = given
  BY <1>2 DEF Partial
<1>4. Writing(values) = [reads |-> {}, writes |-> carried]
  BY DEF Writing
<1> HIDE DEF carried
<1> QED
  BY <1>1, <1>3, <1>4 DEF DeviceRequests

\* The scopes, method by method.
LEMMA Scopes ==
    /\ Scope("read") = {} /\ Scope("position") = Axes
    /\ Scope("zoom") = {"zoom"} /\ Scope("tracking") = {"tracking"} /\ Scope("none") = {}
    /\ \A name : Scope(name) \subseteq Controls
  BY Names DEF Scope

\* A chain that reads.
LEMMA ReadingChain ==
    ASSUME NEW todo \in Seq(DeviceRequests),
           \A r \in Members(todo) : \E controls \in SUBSET Controls : r = Reading(controls)
    PROVE  \A sent : Sends(todo, "read", sent)
  BY ReadingIs, Scopes DEF Sends

\* read_state reads every control and writes none.
LEMMA ReadStarts ==
    ASSUME NEW sent PROVE Starts(ReadState, "read", sent)
<1> DEFINE first == IF platform = "linux" THEN <<Reading({"pan"}), Reading({"tilt"})>>
                                          ELSE <<Reading(Axes)>>
           rest == <<Reading({"zoom"}), Reading({"tracking"})>>
<1>1. /\ Axes \in SUBSET Controls
      /\ {"pan"} \in SUBSET Controls /\ {"tilt"} \in SUBSET Controls
      /\ {"zoom"} \in SUBSET Controls /\ {"tracking"} \in SUBSET Controls
  BY Names
<1>2. /\ Reading(Axes) \in DeviceRequests
      /\ Reading({"pan"}) \in DeviceRequests /\ Reading({"tilt"}) \in DeviceRequests
      /\ Reading({"zoom"}) \in DeviceRequests /\ Reading({"tracking"}) \in DeviceRequests
      /\ Reading(Axes).reads = Axes
      /\ Reading({"pan"}).reads = {"pan"} /\ Reading({"tilt"}).reads = {"tilt"}
      /\ Reading({"zoom"}).reads = {"zoom"} /\ Reading({"tracking"}).reads = {"tracking"}
  BY <1>1, ReadingIs
<1>3. first \in Seq(DeviceRequests) /\ rest \in Seq(DeviceRequests)
  BY <1>2
<1>4. /\ Members(first) = IF platform = "linux" THEN {Reading({"pan"}), Reading({"tilt"})}
                                                ELSE {Reading(Axes)}
      /\ Members(rest) = {Reading({"zoom"}), Reading({"tracking"})}
  BY ShortChains
<1>5. ReadState = Method("read", first \o rest)
  BY DEF ReadState
<1> HIDE DEF first, rest
<1> DEFINE todo == first \o rest
<1>6. todo \in Seq(DeviceRequests) /\ Members(todo) = Members(first) \cup Members(rest)
  BY <1>3, JoinedChains
<1> HIDE DEF todo
<1>7. \A r \in Members(todo) : \E controls \in SUBSET Controls : r = Reading(controls)
  BY <1>1, <1>4, <1>6
<1>8. Sends(todo, "read", sent)
  BY <1>6, <1>7, ReadingChain
<1>9. Controls \subseteq Reads(todo)
  <2>1. \A a \in Axes : \E r \in Members(first) : a \in r.reads
    BY <1>2, <1>4, Names
  <2>2. \A c \in {"zoom", "tracking"} : \E r \in Members(rest) : c \in r.reads
    BY <1>2, <1>4
  <2> QED
    BY <1>6, <2>1, <2>2, Names DEF Reads
<1>10. ReadState = [method |-> "read", todo |-> todo, got |-> <<>>, threw |-> FALSE]
  BY <1>5 DEF Method, todo
<1>11. <<>> \in [{} -> Int] /\ DOMAIN <<>> = {}
  OBVIOUS
<1>12. <<>> \in Partial
  BY <1>11 DEF Partial
<1>13. ReadState \in Methods /\ ReadState.method = "read" /\ DOMAIN ReadState.got = {}
       /\ ReadState.threw = FALSE /\ ReadState.todo = todo
  BY <1>6, <1>10, <1>11, <1>12 DEF Methods
<1> QED
  BY <1>8, <1>9, <1>13, Scopes DEF Starts

\* A method that writes, given its chain.
LEMMA WritingStarts ==
    ASSUME NEW name \in {"position", "zoom", "tracking"}, NEW sent,
           NEW todo \in Seq(DeviceRequests),
           Sends(todo, name, sent), Scope(name) \subseteq Writes(todo)
    PROVE  Starts(Method(name, todo), name, sent)
<1>1. <<>> \in [{} -> Int] /\ DOMAIN <<>> = {}
  OBVIOUS
<1>2. <<>> \in Partial
  BY <1>1 DEF Partial
<1>3. Method(name, todo) = [method |-> name, todo |-> todo, got |-> <<>>, threw |-> FALSE]
  BY DEF Method
<1> DEFINE m == Method(name, todo)
<1>4. m \in Methods /\ m.method = name /\ DOMAIN m.got = {} /\ m.threw = FALSE /\ m.todo = todo
  BY <1>1, <1>2, <1>3 DEF Methods
<1> QED
  BY <1>4 DEF Starts

\* set_zoom and set_tracking are one request.
LEMMA SingleStarts ==
    ASSUME platform \in {"linux", "macos"}, NEW c \in {"zoom", "tracking"}, NEW r \in RawValues(c),
           NEW sent, sent[c] = r
    PROVE  Starts(Method(c, << Writing([k \in {c} |-> r]) >>), c, sent)
<1> DEFINE request == Writing([k \in {c} |-> r])
<1>1. c \in Controls /\ Scope(c) = {c}
  BY Names, Scopes
<1>2. /\ request \in DeviceRequests /\ DOMAIN request.writes = {c} /\ request.writes[c] = r
      /\ request.reads = {}
  BY <1>1, WritingIs
<1> HIDE DEF request
<1>3. <<request>> \in Seq(DeviceRequests) /\ Members(<<request>>) = {request}
  BY <1>2, ShortChains
<1> DEFINE todo == <<request>>
<1> HIDE DEF todo
<1>4. Sends(todo, c, sent) /\ Scope(c) \subseteq Writes(todo)
  BY <1>1, <1>2, <1>3 DEF Sends, Writes, todo
<1> QED
  BY <1>3, <1>4, WritingStarts DEF todo, request

\* set_zoom writes the zoom.
LEMMA ZoomStarts ==
    ASSUME platform \in {"linux", "macos"}, NEW z \in Zooms, NEW sent, sent["zoom"] = Raw(z)
    PROVE  Starts(SetZoom(z), "zoom", sent)
<1>1. Raw(z) \in RawValues("zoom")
  BY ZoomSent
<1> QED
  BY <1>1, SingleStarts DEF SetZoom

Bit(enabled) == IF enabled THEN 1 ELSE 0

\* set_tracking writes the flag.
LEMMA TrackingStarts ==
    ASSUME platform \in {"linux", "macos"}, NEW enabled \in BOOLEAN, NEW sent,
           sent["tracking"] = Bit(enabled)
    PROVE  Starts(SetTracking(enabled), "tracking", sent)
<1>1. Bit(enabled) \in RawValues("tracking")
  BY Names DEF Bit
<1>2. SetTracking(enabled) = Method("tracking", << Writing([c \in {"tracking"} |-> Bit(enabled)]) >>)
  BY DEF SetTracking, Bit
<1> HIDE DEF Bit
<1> QED
  BY <1>1, <1>2, SingleStarts

\* set_position writes both axes, one by one or together.
LEMMA PositionStarts ==
    ASSUME platform \in {"linux", "macos"}, NEW p \in [Axes -> Int], Inside(p), NEW sent,
           \A a \in Axes : sent[a] = Raw(p[a])
    PROVE  Starts(SetPosition(p), "position", sent)
<1> DEFINE pan == Writing([c \in {"pan"} |-> Raw(p[c])])
           tilt == Writing([c \in {"tilt"} |-> Raw(p[c])])
           both == Writing([c \in Axes |-> Raw(p[c])])
<1>1. \A a \in Axes : Raw(p[a]) \in RawValues(a)
  BY PositionSent
<1>2. /\ pan \in DeviceRequests /\ DOMAIN pan.writes = {"pan"} /\ pan.writes["pan"] = Raw(p["pan"])
      /\ tilt \in DeviceRequests /\ DOMAIN tilt.writes = {"tilt"}
      /\ tilt.writes["tilt"] = Raw(p["tilt"])
      /\ both \in DeviceRequests /\ DOMAIN both.writes = Axes
      /\ \A a \in Axes : both.writes[a] = Raw(p[a])
      /\ pan.reads = {} /\ tilt.reads = {} /\ both.reads = {}
  <2>1. ASSUME NEW given \in SUBSET Axes
        PROVE  LET request == Writing([c \in given |-> Raw(p[c])])
               IN  /\ request \in DeviceRequests /\ DOMAIN request.writes = given
                   /\ request.reads = {}
                   /\ \A a \in given : request.writes[a] = Raw(p[a])
    <3>1. given \in SUBSET Controls /\ \A c \in given : Raw(p[c]) \in RawValues(c)
      BY <1>1, Names
    <3>2. PICK values : values = [c \in given |-> Raw(p[c])]
      OBVIOUS
    <3>3. DOMAIN values = given /\ \A c \in given : values[c] = Raw(p[c])
      BY <3>2
    <3>4. /\ Writing(values) \in DeviceRequests /\ Writing(values).reads = {}
          /\ DOMAIN Writing(values).writes = given
          /\ \A c \in given : Writing(values).writes[c] = Raw(p[c])
      BY <3>1, <3>3, WritingIs
    <3> QED
      BY ONLY <3>2, <3>4
  <2>2. {"pan"} \in SUBSET Axes /\ {"tilt"} \in SUBSET Axes /\ Axes \in SUBSET Axes
    BY Names
  <2> QED
    BY <2>1, <2>2
<1>3. SetPosition(p) = Method("position", IF platform = "linux" THEN <<pan, tilt>> ELSE <<both>>)
  BY DEF SetPosition
<1> HIDE DEF pan, tilt, both
<1> DEFINE todo == IF platform = "linux" THEN <<pan, tilt>> ELSE <<both>>
<1>4. todo \in Seq(DeviceRequests)
      /\ Members(todo) = IF platform = "linux" THEN {pan, tilt} ELSE {both}
  <2>1. <<pan, tilt>> \in Seq(DeviceRequests) /\ <<both>> \in Seq(DeviceRequests)
    BY <1>2
  <2>2. Members(<<pan, tilt>>) = {pan, tilt} /\ Members(<<both>>) = {both}
    BY ShortChains
  <2> QED
    BY <2>1, <2>2
<1> HIDE DEF todo
<1>5. Sends(todo, "position", sent)
  BY <1>2, <1>4, Names, Scopes DEF Sends
<1>6. Scope("position") \subseteq Writes(todo)
  BY <1>2, <1>4, Names, Scopes DEF Writes
<1> QED
  BY <1>3, <1>4, <1>5, <1>6, WritingStarts DEF todo

(***************************************************************************)
(* The invariant: types.                                                   *)
(***************************************************************************)

Sections ==      [call : {"status"}]
            \cup [call : {"position", "pass"}, position : Targets]
            \cup [call : {"zoom"}, zoom : Zooms]
            \cup [call : {"tracking"}, tracking : BOOLEAN]
GivenShots == {s \in Shots : Accepted(s)}

\* What the section or the command in progress sends to a control that it
\* writes.
SectionAim(s) == [c \in Controls |-> IF c \in Axes THEN Raw(s.position[c])
                                     ELSE IF c = "zoom" THEN Raw(s.zoom)
                                     ELSE Bit(s.call = "tracking" /\ s.tracking)]
ShotAim(s) == [c \in Controls |-> IF c \in Axes THEN Raw(Target(s)[c])
                                  ELSE IF c = "zoom" THEN Raw(s.zoom)
                                  ELSE Bit(s.command = "tracking" /\ s.tracking)]
Aim(p) == IF p = "serve" THEN SectionAim(section) ELSE ShotAim(shot)

\* A process in the middle of a method.
Working(p) ==
    /\ work[p] \in Methods
    /\ Sends(work[p].todo, work[p].method, Aim(p))
    /\ \A c \in Scope(work[p].method) : Aim(p)[c] \in RawValues(c)
    /\ \A c \in DOMAIN work[p].got : work[p].got[c] \in RawValues(c)
    /\ work[p].threw => work[p].todo = <<>>
    /\ ~work[p].threw /\ work[p].method = "read" =>
          Controls \subseteq Reads(work[p].todo) \cup DOMAIN work[p].got

\* Which methods a section and a command use.
ServePlace(call, method) ==
    \/ call = "status" /\ method = "read"
    \/ call = "position" /\ method \in {"tracking", "position"}
    \/ call = "zoom" /\ method = "zoom"
    \/ call = "tracking" /\ method = "tracking"
    \/ call = "pass" /\ method \in {"read", "tracking", "position"}
ShotPlace(command, method) ==
    \/ command = "status" /\ method = "read"
    \/ command \in {"center", "position"} /\ method \in {"tracking", "position", "read"}
    \/ command = "zoom" /\ method \in {"zoom", "read"}
    \/ command = "tracking" /\ method \in {"tracking", "read"}

ServePlaced ==
    IF section = NoSection THEN work["serve"] = Idle /\ fresh = {} /\ interfered = FALSE
    ELSE section \in Sections /\ Working("serve") /\ ServePlace(section.call, work["serve"].method)
ShotPlaced ==
    IF shot = NoShot THEN work["shot"] = Idle
    ELSE shot \in GivenShots /\ Working("shot") /\ ShotPlace(shot.command, work["shot"].method)

Types ==
    /\ BackendTypeOK
    /\ device = [c \in Controls |-> device[c]]
    /\ work = [p \in Processes |-> work[p]]
    /\ state \in [position : [Axes -> Int], zoom : Zooms, tracking : BOOLEAN]

TypeInv == Types /\ ServePlaced /\ ShotPlaced

\* Nothing is in progress under the names of something.
LEMMA Nothing ==
    /\ \A s \in Sections : s # NoSection
    /\ \A s \in GivenShots : s # NoShot
    /\ \A m \in Methods : m # Idle
    /\ Idle.method = "none" /\ NoSection.call = "none" /\ NoShot.command = "none"
<1>1. NoSection.call = "none" /\ NoShot.command = "none" /\ Idle.method = "none"
  BY DEF NoSection, NoShot, Idle
<1>2. \A s \in Sections : s.call # "none"
  BY DEF Sections
<1>3. \A s \in GivenShots : s.command # "none"
  BY ShotsAssumption DEF GivenShots
<1>4. \A m \in Methods : m.method # "none"
  BY DEF Methods
<1> QED
  BY <1>1, <1>2, <1>3, <1>4

\* The device holds legal raw values.
LEMMA DeviceLegal ==
    ASSUME Types
    PROVE  RawDevice(device) /\ \A c \in Controls : device[c] \in RawValues(c) /\ device[c] \in Int
<1>1. \A c \in Controls : device[c] \in RawValues(c)
  BY Names DEF Types, BackendTypeOK
<1> QED
  BY <1>1, RawValuesAreInt DEF RawDevice, Types, BackendTypeOK

\* ... and is so when it holds legal raw values.
LEMMA LegalDevice ==
    ASSUME NEW d, DOMAIN d = Controls, \A c \in Controls : d[c] \in RawValues(c)
    PROVE  (\A a \in Axes : d[a] \in RawPositions(a)) /\ d["zoom"] \in RawZooms
           /\ d["tracking"] \in {0, 1}
  BY Names

\* A process works, or it is idle.
LEMMA WorkingOrIdle ==
    ASSUME TypeInv, NEW p \in Processes
    PROVE  (work[p] = Idle \/ Working(p))
           /\ (Working(p) <=> IF p = "serve" THEN section # NoSection ELSE shot # NoShot)
<1>1. Working(p) => work[p] # Idle
  BY Nothing DEF Working
<1> QED
  BY <1>1, Nothing DEF TypeInv, ServePlaced, ShotPlaced, Processes

(***************************************************************************)
(* What a request does.                                                    *)
(***************************************************************************)

\* The controls in W were written, some perhaps without effect.
Written(p, W) ==
    /\ device' = [c \in Controls |-> device'[c]]
    /\ \A c \in Controls \ W : device'[c] = device[c]
    /\ \A c \in W : device'[c] = device[c] \/ device'[c] = Aim(p)[c]

Alone(p) ==
    /\ work' = [q \in Processes |-> work'[q]]
    /\ \A q \in Processes \ {p} : work'[q] = work[q]

\* The request read R and wrote W.
AnsweredWith(p, R, W) ==
    /\ \A c \in W : device'[c] = Aim(p)[c]
    /\ work'[p] \in Methods
    /\ work'[p].method = work[p].method /\ work'[p].threw = FALSE
    /\ Sends(work'[p].todo, work[p].method, Aim(p))
    /\ Writes(work[p].todo) = W \cup Writes(work'[p].todo)
    /\ Reads(work[p].todo) = R \cup Reads(work'[p].todo)
    /\ DOMAIN work'[p].got = DOMAIN work[p].got \cup R
    /\ \A c \in DOMAIN work'[p].got :
          work'[p].got[c] = IF c \in R THEN device[c] ELSE work[p].got[c]
    /\ Note(p, R \cup W, W)

RefusedWith(p, W) ==
    /\ work'[p] \in Methods
    /\ work'[p].method = work[p].method /\ work'[p].threw = TRUE
    /\ work'[p].todo = <<>> /\ DOMAIN work'[p].got = {}
    /\ Note(p, {}, W)

RepeatedWith(p, W) == work'[p] = work[p] /\ W \subseteq Writes(work[p].todo) /\ Note(p, {}, W)

\* Every request of a working process is one of the three.
LEMMA RequestIs ==
    ASSUME Types, NEW p \in Processes, Working(p), Complete(p) \/ Interruption(p)
    PROVE  \E R \in SUBSET Controls, W \in SUBSET Scope(work[p].method) :
              /\ W = {} <=> work[p].method = "read"
              /\ R = {} \/ work[p].method = "read"
              /\ Alone(p) /\ Written(p, W)
              /\ ~work[p].threw
              /\ AnsweredWith(p, R, W) \/ RefusedWith(p, W) \/ RepeatedWith(p, W)
<1> DEFINE m == work[p]
           r == Head(m.todo)
           R == r.reads
           W == DOMAIN r.writes
<1>1. m.todo \in Seq(DeviceRequests) /\ m.todo # <<>> /\ m.got \in Partial
      /\ m.method \in {"read", "position", "zoom", "tracking"} /\ m \in Methods /\ Request(p) = r
  BY DEF Working, Methods, Complete, Interruption, Pending, Request
<1>2. /\ r \in DeviceRequests /\ Tail(m.todo) \in Seq(DeviceRequests)
      /\ Members(m.todo) = {r} \cup Members(Tail(m.todo))
  BY <1>1, HeadAndTail
<1>3. R \in SUBSET Controls /\ W \in SUBSET Scope(m.method) /\ (W = {} <=> m.method = "read")
      /\ (R = {} \/ m.method = "read")
      /\ \A c \in W : r.writes[c] = Aim(p)[c]
  BY <1>1, <1>2, Scopes DEF Working, Sends, DeviceRequests
<1>4. ~m.threw
  BY <1>1 DEF Working
<1>5. W \subseteq Controls /\ W \subseteq Writes(m.todo)
  BY <1>2, <1>3, Scopes DEF Writes
<1> HIDE DEF m, r, R, W
<1>6. ASSUME NEW values, DOMAIN values \subseteq W, Overwrite(values),
             \A c \in DOMAIN values : values[c] = Aim(p)[c]
      PROVE  Written(p, W)
  <2>1. device' = [c \in Controls |-> IF c \in DOMAIN values THEN values[c] ELSE device[c]]
    BY <1>6 DEF Overwrite
  <2> QED
    BY <1>5, <1>6, <2>1 DEF Written
<1>7. ASSUME NEW values \in (IF plugged THEN Partly(r.writes) ELSE {<<>>}), Overwrite(values)
      PROVE  Written(p, W)
  <2>1. CASE values \in Partly(r.writes)
    <3>1. PICK written \in SUBSET W : values = [c \in written |-> r.writes[c]]
      BY <2>1 DEF Partly, W
    <3> QED
      BY <1>3, <1>6, <1>7, <3>1
  <2>2. CASE values = <<>>
    <3>1. DOMAIN values = {}
      BY <2>2
    <3> QED
      BY <1>6, <1>7, <3>1
  <2> QED
    BY <1>7, <2>1, <2>2
<1>8. CASE Answered(p)
  <2>1. /\ work' = [work EXCEPT ![p].todo = Tail(@),
                                ![p].got = [c \in DOMAIN @ \cup R |->
                                   IF c \in R THEN Carried(c, device[c]) ELSE @[c]]]
        /\ Overwrite(r.writes) /\ Note(p, R \cup W, W)
    BY <1>1, <1>8 DEF Answered, R, W, m, r
  <2>2. Written(p, W) /\ \A c \in W : device'[c] = Aim(p)[c]
    <3>1. device' = [c \in Controls |-> IF c \in W THEN r.writes[c] ELSE device[c]]
      BY <2>1 DEF Overwrite, W
    <3> QED
      BY <1>3, <1>5, <3>1 DEF Written
  <2> DEFINE read == [c \in DOMAIN m.got \cup R |-> IF c \in R THEN device[c] ELSE m.got[c]]
  <2>3. \A c \in R : Carried(c, device[c]) = device[c]
    BY <1>3, DeviceLegal, CarriedUnchanged DEF Types, BackendTypeOK
  <2>4. work' = [work EXCEPT ![p] = [m EXCEPT !.todo = Tail(m.todo), !.got = read]]
    BY <2>1, <2>3 DEF m
  <2>5. read \in Partial /\ DOMAIN read = DOMAIN m.got \cup R
    <3>1. DOMAIN m.got \in SUBSET Controls /\ \A c \in DOMAIN m.got : m.got[c] \in Int
      BY <1>1 DEF Partial
    <3>2. read \in [DOMAIN m.got \cup R -> Int]
      BY <1>3, <3>1, DeviceLegal
    <3> QED
      BY <1>3, <3>1, <3>2 DEF Partial
  <2> HIDE DEF read
  <2>6. Alone(p) /\ work'[p] = [m EXCEPT !.todo = Tail(m.todo), !.got = read]
    BY <2>4 DEF Types, Alone
  <2>7. /\ work'[p] \in Methods /\ work'[p].method = m.method /\ work'[p].threw = m.threw
        /\ work'[p].todo = Tail(m.todo) /\ work'[p].got = read
    BY <1>1, <1>2, <2>5, <2>6 DEF Methods
  <2>8. /\ Sends(Tail(m.todo), m.method, Aim(p))
        /\ Writes(m.todo) = W \cup Writes(Tail(m.todo))
        /\ Reads(m.todo) = R \cup Reads(Tail(m.todo))
    BY <1>2 DEF Working, Sends, Writes, Reads, W, R, m
  <2>9. \A c \in DOMAIN read : read[c] = IF c \in R THEN device[c] ELSE m.got[c]
    BY DEF read
  <2>10. m.threw = FALSE
    BY <1>1, <1>4 DEF Methods
  <2>11. AnsweredWith(p, R, W)
    BY <2>1, <2>2, <2>5, <2>7, <2>8, <2>9, <2>10 DEF AnsweredWith, m
  <2> QED
    BY <1>3, <1>4, <2>2, <2>6, <2>11 DEF m
<1>9. CASE Refused(p)
  <2>1. PICK values \in (IF plugged THEN Partly(r.writes) ELSE {<<>>}) : Overwrite(values)
    BY <1>1, <1>9 DEF Refused
  <2>2. Written(p, W)
    BY <1>7, <2>1
  <2>3. Note(p, {}, W)
        /\ work' = [work EXCEPT ![p] = [m EXCEPT !.todo = <<>>, !.got = <<>>, !.threw = TRUE]]
    BY <1>1, <1>9 DEF Refused, W, m
  <2>4. Alone(p) /\ work'[p] = [m EXCEPT !.todo = <<>>, !.got = <<>>, !.threw = TRUE]
    BY <2>3 DEF Types, Alone
  <2>5. <<>> \in Partial /\ DOMAIN <<>> = {} /\ <<>> \in Seq(DeviceRequests)
    <3>1. <<>> \in [{} -> Int]
      OBVIOUS
    <3> QED
      BY <3>1 DEF Partial
  <2>6. PICK none : none = <<>> /\ none \in Partial /\ DOMAIN none = {} /\ none \in Seq(DeviceRequests)
    BY <2>5
  <2>7. /\ work'[p] \in Methods /\ work'[p].method = m.method /\ work'[p].threw = TRUE
        /\ work'[p].todo = none /\ work'[p].got = none
    BY <1>1, <2>4, <2>6 DEF Methods
  <2>8. RefusedWith(p, W)
    BY <2>3, <2>6, <2>7 DEF RefusedWith, m
  <2> QED
    BY <1>3, <1>4, <2>2, <2>4, <2>8 DEF m
<1>10. CASE Interrupted(p)
  <2>1. PICK values \in Partly(r.writes) : Overwrite(values)
    BY <1>1, <1>10 DEF Interrupted
  <2>2. Written(p, W)
    BY <1>7, <1>10, <2>1 DEF Interrupted
  <2>3. Note(p, {}, W) /\ UNCHANGED work
    BY <1>1, <1>10 DEF Interrupted, W
  <2>4. Alone(p)
    BY <2>3 DEF Types, Alone
  <2>5. RepeatedWith(p, W)
    BY <1>5, <2>3 DEF RepeatedWith, m
  <2> QED
    BY <1>3, <1>4, <2>2, <2>4, <2>5 DEF m
<1> QED
  BY <1>8, <1>9, <1>10 DEF Complete, Interruption

(***************************************************************************)
(* Types are kept.                                                         *)
(***************************************************************************)

\* What the sections are and send.
LEMMA SectionsSend ==
    ASSUME NEW s \in Sections
    PROVE  /\ s.call \in {"status", "position", "pass", "zoom", "tracking"}
           /\ s.call \in {"position", "pass"} =>
                 /\ s.position \in Targets /\ s.position \in [Axes -> Int] /\ Inside(s.position)
                 /\ \A a \in Axes : SectionAim(s)[a] = Raw(s.position[a])
                                    /\ SectionAim(s)[a] \in RawValues(a)
           /\ s.call = "zoom" => /\ s.zoom \in Zooms
                                 /\ SectionAim(s)["zoom"] = Raw(s.zoom)
                                 /\ SectionAim(s)["zoom"] \in RawValues("zoom")
           /\ SectionAim(s)["tracking"] \in RawValues("tracking")
           /\ s.call = "tracking" => /\ s.tracking \in BOOLEAN
                                     /\ SectionAim(s)["tracking"] = Bit(s.tracking)
           /\ s.call # "tracking" => SectionAim(s)["tracking"] = Bit(FALSE)
<1>1. /\ s.call \in {"status", "position", "pass", "zoom", "tracking"}
      /\ s.call \in {"position", "pass"} => s.position \in Targets
      /\ s.call = "zoom" => s.zoom \in Zooms
      /\ s.call = "tracking" => s.tracking \in BOOLEAN
  BY DEF Sections
<1>2. \A t \in Targets : t \in [Axes -> Int] /\ Inside(t)
  BY InputsAssumption
<1>3. /\ \A a \in Axes : SectionAim(s)[a] = Raw(s.position[a])
      /\ SectionAim(s)["zoom"] = Raw(s.zoom)
      /\ SectionAim(s)["tracking"] = Bit(s.call = "tracking" /\ s.tracking)
  BY Names DEF SectionAim
<1>4. Bit(s.call = "tracking" /\ s.tracking) \in RawValues("tracking")
  BY Names DEF Bit
<1>5. s.call = "tracking" => Bit(s.call = "tracking" /\ s.tracking) = Bit(s.tracking)
  BY <1>1 DEF Bit
<1>6. s.call # "tracking" => Bit(s.call = "tracking" /\ s.tracking) = Bit(FALSE)
  BY DEF Bit
<1>7. s.call \in {"position", "pass"} => \A a \in Axes : Raw(s.position[a]) \in RawValues(a)
  BY <1>1, <1>2, PositionSent
<1>8. s.call = "zoom" => Raw(s.zoom) \in RawValues("zoom")
  BY <1>1, ZoomSent
<1> QED
  BY <1>1, <1>2, <1>3, <1>4, <1>5, <1>6, <1>7, <1>8

\* What the one-shot commands are and send.
LEMMA ShotsSend ==
    ASSUME NEW s \in GivenShots
    PROVE  /\ s.command \in {"status", "center", "position", "zoom", "tracking"}
           /\ s.command \in {"center", "position"} =>
                 /\ Target(s) \in [Axes -> Int] /\ Inside(Target(s))
                 /\ \A a \in Axes : ShotAim(s)[a] = Raw(Target(s)[a])
                                    /\ ShotAim(s)[a] \in RawValues(a)
           /\ s.command = "zoom" => /\ s.zoom \in Zooms
                                    /\ ShotAim(s)["zoom"] = Raw(s.zoom)
                                    /\ ShotAim(s)["zoom"] \in RawValues("zoom")
           /\ ShotAim(s)["tracking"] \in RawValues("tracking")
           /\ s.command = "tracking" => /\ s.tracking \in BOOLEAN
                                        /\ ShotAim(s)["tracking"] = Bit(s.tracking)
           /\ s.command # "tracking" => ShotAim(s)["tracking"] = Bit(FALSE)
<1>1. s \in Shots /\ Accepted(s)
  BY DEF GivenShots
<1>2. /\ s.command \in {"status", "center", "position", "zoom", "tracking"}
      /\ s.command = "position" => s.position \in [Axes -> Int]
      /\ s.command = "tracking" => s.tracking \in BOOLEAN
  BY <1>1, ShotsAssumption
<1>3. /\ s.command = "position" => Inside(s.position)
      /\ s.command = "zoom" => s.zoom \in Zooms
  BY <1>1 DEF Accepted
<1>4. s.command \in {"center", "position"} => Target(s) \in [Axes -> Int] /\ Inside(Target(s))
  <2>1. Center \in [Axes -> Int] /\ Inside(Center)
    BY RangesAssumption DEF Center
  <2> QED
    BY <1>2, <1>3, <2>1 DEF Target
<1>5. /\ \A a \in Axes : ShotAim(s)[a] = Raw(Target(s)[a])
      /\ ShotAim(s)["zoom"] = Raw(s.zoom)
      /\ ShotAim(s)["tracking"] = Bit(s.command = "tracking" /\ s.tracking)
  BY Names DEF ShotAim
<1>6. Bit(s.command = "tracking" /\ s.tracking) \in RawValues("tracking")
  BY Names DEF Bit
<1>7. s.command = "tracking" => Bit(s.command = "tracking" /\ s.tracking) = Bit(s.tracking)
  BY <1>2 DEF Bit
<1>8. s.command # "tracking" => Bit(s.command = "tracking" /\ s.tracking) = Bit(FALSE)
  BY DEF Bit
<1>9. s.command \in {"center", "position"} =>
          \A a \in Axes : Raw(Target(s)[a]) \in RawValues(a)
  BY <1>4, PositionSent
<1>10. s.command = "zoom" => Raw(s.zoom) \in RawValues("zoom")
  BY <1>3, ZoomSent
<1> QED
  BY <1>2, <1>3, <1>4, <1>5, <1>6, <1>7, <1>8, <1>9, <1>10

\* A process that begins a method works.
LEMMA StartsWork ==
    ASSUME NEW p \in Processes, NEW m, NEW name, work'[p] = m, Starts(m, name, Aim(p)'),
           \A c \in Scope(name) : Aim(p)'[c] \in RawValues(c)
    PROVE  Working(p)' /\ work'[p].method = name /\ work'[p].threw = FALSE
           /\ DOMAIN work'[p].got = {} /\ Scope(name) \subseteq Writes(work'[p].todo)
  BY DEF Starts, Working

\* A process stays as it is in a step of the other one or of the camera.
LEMMA WorkingKept ==
    ASSUME NEW p \in Processes, Working(p), work'[p] = work[p], Aim(p)' = Aim(p) PROVE Working(p)'
  BY DEF Working

\* The command in progress stays as it is in a step of serve or of the camera.
LEMMA ShotKept ==
    ASSUME ShotPlaced, shot' = shot, work'["shot"] = work["shot"] PROVE ShotPlaced'
<1>1. Aim("shot")' = Aim("shot")
  BY DEF Aim
<1>2. Working("shot") => Working("shot")'
  BY <1>1, WorkingKept DEF Processes
<1> QED
  BY <1>2 DEF ShotPlaced

\* So does the section, in a step of a command or of the camera.
LEMMA ServeKept ==
    ASSUME ServePlaced, section' = section, work'["serve"] = work["serve"],
           section = NoSection => fresh' = {} /\ interfered' = FALSE
    PROVE  ServePlaced'
<1>1. Aim("serve")' = Aim("serve")
  BY DEF Aim
<1>2. Working("serve") => Working("serve")'
  BY <1>1, WorkingKept DEF Processes
<1> QED
  BY <1>2 DEF ServePlaced

\* The history keeps its types.
LEMMA NoteKeeps ==
    ASSUME BackendTypeOK, NEW p \in Processes, NEW A \in SUBSET Controls,
           NEW W \in SUBSET Controls, Note(p, A, W)
    PROVE  /\ fresh' \subseteq Controls /\ disturbed' \subseteq Controls
           /\ stale' \subseteq {"position", "zoom", "tracking"} /\ interfered' \in BOOLEAN
           /\ section = NoSection /\ fresh = {} /\ interfered = FALSE /\ p # "serve"
                 => fresh' = {} /\ interfered' = FALSE
           /\ UNCHANGED <<platform, plugged, begun, section, state, velocity, backgroundError, before,
                          shot>>
<1> USE DEF Note, BackendTypeOK
<1>1. FieldsOf(W) \subseteq {"position", "zoom", "tracking"}
  BY Names DEF FieldsOf, Field
<1>2. disturbed' \subseteq Controls
  BY DEF Disturbing
<1>3. interfered' \in BOOLEAN
  BY DEF Interfering
<1>4. section = NoSection /\ interfered = FALSE /\ p # "serve" => interfered' = FALSE
  BY DEF Interfering
<1> QED
  BY <1>1, <1>2, <1>3, <1>4 DEF guarded

\* Requests keep the types.
LEMMA RequestKeepsTypes ==
    ASSUME TypeInv, NEW p \in Processes, Complete(p) \/ Interruption(p) PROVE TypeInv'
<1>1. Types /\ Working(p)
  <2>1. work[p] # Idle
    BY DEF Complete, Interruption, Pending
  <2> QED
    BY <2>1, WorkingOrIdle DEF TypeInv
<1>2. PICK R \in SUBSET Controls, W \in SUBSET Scope(work[p].method) :
         /\ Alone(p) /\ Written(p, W)
         /\ AnsweredWith(p, R, W) \/ RefusedWith(p, W) \/ RepeatedWith(p, W)
  BY <1>1, RequestIs
<1>3. W \subseteq Controls
  BY Scopes
<1>4. PICK A \in SUBSET Controls : Note(p, A, W)
  BY <1>2, <1>3 DEF AnsweredWith, RefusedWith, RepeatedWith
<1>5. UNCHANGED <<platform, plugged, begun, section, state, velocity, backgroundError, before, shot>>
  BY <1>1, <1>3, <1>4, NoteKeeps DEF Types
<1>6. Aim(p)' = Aim(p)
  BY <1>5 DEF Aim
<1>7. \A c \in Controls : device'[c] \in RawValues(c)
  BY <1>1, <1>2, DeviceLegal DEF Written, Working
<1>8. Types'
  <2>1. DOMAIN device' = Controls /\ device' = [c \in Controls |-> device'[c]]
    BY <1>2 DEF Written
  <2>2. /\ \A a \in Axes : device'[a] \in RawPositions(a)
        /\ device'["zoom"] \in RawZooms /\ device'["tracking"] \in {0, 1}
    BY <1>7, <2>1, LegalDevice
  <2>3. /\ fresh' \subseteq Controls /\ disturbed' \subseteq Controls
        /\ stale' \subseteq {"position", "zoom", "tracking"} /\ interfered' \in BOOLEAN
    BY <1>1, <1>3, <1>4, NoteKeeps DEF Types
  <2>4. BackendTypeOK'
    BY <1>1, <1>5, <2>1, <2>2, <2>3 DEF Types, BackendTypeOK
  <2>5. work' = [q \in Processes |-> work'[q]]
    BY <1>2 DEF Alone
  <2> QED
    BY <1>1, <1>5, <2>1, <2>4, <2>5 DEF Types
<1>9. Working(p)'
  <2>1. CASE AnsweredWith(p, R, W)
    <3>1. \A c \in DOMAIN work'[p].got : work'[p].got[c] \in RawValues(c)
      BY <1>1, <2>1, DeviceLegal DEF AnsweredWith, Working
    <3>2. work[p].threw = FALSE \/ work[p].todo = <<>>
      BY <1>1 DEF Working, Methods
    <3>3. work[p].method = "read" => Controls \subseteq Reads(work'[p].todo) \cup DOMAIN work'[p].got
      <4>1. ~work[p].threw
        BY <1>1, RequestIs
      <4> QED
        BY <1>1, <2>1, <4>1 DEF AnsweredWith, Working
    <3> QED
      BY <1>1, <1>6, <2>1, <3>1, <3>3 DEF AnsweredWith, Working
  <2>2. CASE RefusedWith(p, W)
    <3>1. \A name, sent : Sends(<<>>, name, sent)
      BY ShortChains DEF Sends
    <3> QED
      BY <1>1, <1>6, <2>2, <3>1 DEF RefusedWith, Working
  <2>3. CASE RepeatedWith(p, W)
    BY <1>1, <1>6, <2>3 DEF RepeatedWith, Working
  <2> QED
    BY <1>2, <2>1, <2>2, <2>3
<1>10. work'[p].method = work[p].method
  BY <1>2 DEF AnsweredWith, RefusedWith, RepeatedWith
<1>11. CASE p = "serve"
  <2>1. ShotPlaced'
    BY <1>2, <1>5, <1>11, ShotKept DEF TypeInv, Alone, Processes
  <2>2. section # NoSection
    BY <1>1, <1>11, WorkingOrIdle
  <2>3. ServePlaced'
    BY <1>5, <1>9, <1>10, <1>11, <2>2 DEF TypeInv, ServePlaced
  <2> QED
    BY <1>8, <2>1, <2>3 DEF TypeInv
<1>12. CASE p = "shot"
  <2>1. ServePlaced'
    <3>1. section = NoSection => fresh' = {} /\ interfered' = FALSE
      BY <1>1, <1>3, <1>4, <1>12, NoteKeeps DEF TypeInv, Types, ServePlaced
    <3> QED
      BY <1>2, <1>5, <1>12, <3>1, ServeKept DEF TypeInv, Alone, Processes
  <2>2. shot # NoShot
    BY <1>1, <1>12, WorkingOrIdle
  <2>3. ShotPlaced'
    BY <1>5, <1>9, <1>10, <1>12, <2>2 DEF TypeInv, ShotPlaced
  <2> QED
    BY <1>8, <2>1, <2>3 DEF TypeInv
<1> QED
  BY <1>11, <1>12 DEF Processes

\* A read that returned has read everything.
LEMMA ReturnedRead ==
    ASSUME NEW p \in Processes, Working(p), Returned(p, "read")
    PROVE  RawDevice(work[p].got)
           /\ StateOf(work[p].got) \in [position : [Axes -> Int], zoom : Zooms, tracking : BOOLEAN]
           /\ Inside(StateOf(work[p].got).position)
<1>1. work[p].method = "read" /\ work[p].todo = <<>> /\ ~work[p].threw /\ work[p] \in Methods
  BY DEF Returned, Working
<1>2. Reads(<<>>) = {}
  BY ShortChains DEF Reads
<1>3. DOMAIN work[p].got \subseteq Controls
  BY <1>1 DEF Methods, Partial
<1>4. RawDevice(work[p].got)
  BY <1>1, <1>2, <1>3 DEF Working, RawDevice
<1> DEFINE s == StateOf(work[p].got)
<1>5. /\ s = [position |-> s.position, zoom |-> s.zoom, tracking |-> s.tracking]
      /\ s.position \in [Axes -> Int] /\ s.zoom \in Zooms /\ s.tracking \in BOOLEAN
      /\ Inside(s.position)
  BY <1>4, StateRead
<1> QED
  BY <1>4, <1>5

\* A critical section begins.
LEMMA LockKeepsTypes ==
    ASSUME TypeInv, NEW s \in Sections, NEW m, NEW name, Lock(s, m),
           Starts(m, name, SectionAim(s)), ServePlace(s.call, name),
           \A c \in Scope(name) : SectionAim(s)[c] \in RawValues(c),
           velocity' \in Velocities \cup {Stopped}
    PROVE  TypeInv'
<1>1. /\ section = NoSection /\ section' = s /\ begun < Limit /\ begun' = begun + 1
      /\ work' = [work EXCEPT !["serve"] = m]
      /\ UNCHANGED <<platform, plugged, device, state, backgroundError, fresh, stale, interfered>>
      /\ UNCHANGED <<shot, disturbed>>
  BY DEF Lock, Bounded, Begin, camera, shooting
<1>2. work'["serve"] = m /\ work'["shot"] = work["shot"] /\ work' = [p \in Processes |-> work'[p]]
  BY <1>1 DEF TypeInv, Types, Processes
<1>3. Aim("serve")' = SectionAim(s)
  BY <1>1 DEF Aim
<1>4. Working("serve")' /\ work'["serve"].method = name
  BY <1>2, <1>3, StartsWork DEF Processes
<1>5. ServePlaced'
  BY <1>1, <1>4, Nothing DEF ServePlaced
<1>6. ShotPlaced'
  BY <1>1, <1>2, ShotKept DEF TypeInv
<1>7. begun' \in 0 .. Limit
  BY <1>1, InputsAssumption DEF TypeInv, Types, BackendTypeOK
<1>8. Types'
  BY <1>1, <1>2, <1>7 DEF TypeInv, Types, BackendTypeOK
<1> QED
  BY <1>5, <1>6, <1>8 DEF TypeInv

\* A critical section goes on to another method.
LEMMA ProceedKeepsTypes ==
    ASSUME TypeInv, NEW s \in Sections, section = s, NEW m, NEW name, Proceed(m),
           Starts(m, name, SectionAim(s)), ServePlace(s.call, name),
           \A c \in Scope(name) : SectionAim(s)[c] \in RawValues(c),
           UNCHANGED <<velocity, backgroundError>>, stale' \subseteq stale,
           state' \in [position : [Axes -> Int], zoom : Zooms, tracking : BOOLEAN],
           Inside(state'.position)
    PROVE  TypeInv'
<1>1. /\ section' = s /\ work' = [work EXCEPT !["serve"] = m]
      /\ UNCHANGED <<platform, plugged, device, begun, fresh, interfered>>
      /\ UNCHANGED <<shot, disturbed>>
  BY DEF Proceed, Begin, camera, shooting
<1>2. work'["serve"] = m /\ work'["shot"] = work["shot"] /\ work' = [p \in Processes |-> work'[p]]
  BY <1>1 DEF TypeInv, Types, Processes
<1>3. Aim("serve")' = SectionAim(s)
  BY <1>1 DEF Aim
<1>4. Working("serve")' /\ work'["serve"].method = name
  <2>1. Starts(m, name, Aim("serve")')
    BY ONLY <1>3, Starts(m, name, SectionAim(s))
  <2>2. \A c \in Scope(name) : Aim("serve")'[c] \in RawValues(c)
    BY ONLY <1>3, \A c \in Scope(name) : SectionAim(s)[c] \in RawValues(c)
  <2>3. "serve" \in Processes
    BY DEF Processes
  <2> QED
    BY ONLY <1>2, <2>1, <2>2, <2>3, StartsWork
<1>5. ServePlaced'
  BY <1>1, <1>4, Nothing DEF ServePlaced
<1>6. ShotPlaced'
  BY <1>1, <1>2, ShotKept DEF TypeInv
<1>7. Types'
  BY <1>1, <1>2 DEF TypeInv, Types, BackendTypeOK
<1> QED
  BY <1>5, <1>6, <1>7 DEF TypeInv

\* A critical section ends.
LEMMA LeaveKeepsTypes ==
    ASSUME TypeInv, Leave, stale' \subseteq stale,
           velocity' \in Velocities \cup {Stopped}, backgroundError' \in BOOLEAN,
           state' \in [position : [Axes -> Int], zoom : Zooms, tracking : BOOLEAN],
           Inside(state'.position)
    PROVE  TypeInv'
<1>1. /\ section' = NoSection /\ work' = [work EXCEPT !["serve"] = Idle]
      /\ fresh' = {} /\ interfered' = FALSE
      /\ UNCHANGED <<platform, plugged, device, begun>>
      /\ UNCHANGED <<shot, disturbed>>
  BY DEF Leave, End, Begin, camera, shooting
<1>2. work'["serve"] = Idle /\ work'["shot"] = work["shot"] /\ work' = [p \in Processes |-> work'[p]]
  BY <1>1 DEF TypeInv, Types, Processes
<1>3. ServePlaced'
  BY <1>1, <1>2 DEF ServePlaced
<1>4. ShotPlaced'
  BY <1>1, <1>2, ShotKept DEF TypeInv
<1>5. Types'
  BY <1>1, <1>2 DEF TypeInv, Types, BackendTypeOK
<1> QED
  BY <1>3, <1>4, <1>5 DEF TypeInv

\* What each section begins with.
LEMMA SectionsStart ==
    ASSUME platform \in {"linux", "macos"}, NEW s \in Sections
    PROVE  /\ Starts(ReadState, "read", SectionAim(s))
           /\ s.call \in {"position", "pass"} =>
                 Starts(SetPosition(s.position), "position", SectionAim(s))
           /\ s.call = "zoom" => Starts(SetZoom(s.zoom), "zoom", SectionAim(s))
           /\ s.call = "tracking" => Starts(SetTracking(s.tracking), "tracking", SectionAim(s))
           /\ s.call # "tracking" => Starts(SetTracking(FALSE), "tracking", SectionAim(s))
           /\ \A c \in Scope("read") : SectionAim(s)[c] \in RawValues(c)
           /\ \A c \in Scope("tracking") : SectionAim(s)[c] \in RawValues(c)
           /\ s.call \in {"position", "pass"} =>
                 \A c \in Scope("position") : SectionAim(s)[c] \in RawValues(c)
           /\ s.call = "zoom" => \A c \in Scope("zoom") : SectionAim(s)[c] \in RawValues(c)
<1>1. Starts(ReadState, "read", SectionAim(s))
  BY ReadStarts
<1>2. s.call \in {"position", "pass"} =>
          Starts(SetPosition(s.position), "position", SectionAim(s))
  BY SectionsSend, PositionStarts
<1>3. s.call = "zoom" => Starts(SetZoom(s.zoom), "zoom", SectionAim(s))
  BY SectionsSend, ZoomStarts
<1>4. s.call = "tracking" => Starts(SetTracking(s.tracking), "tracking", SectionAim(s))
  BY SectionsSend, TrackingStarts
<1>5. s.call # "tracking" => Starts(SetTracking(FALSE), "tracking", SectionAim(s))
  BY SectionsSend, TrackingStarts
<1> QED
  BY <1>1, <1>2, <1>3, <1>4, <1>5, SectionsSend, Scopes

\* What each call locks for.
LEMMA EnterIs ==
    ASSUME TypeInv, Enter
    PROVE  \/ \E s \in Sections : \E m, name :
                 /\ Lock(s, m) /\ Starts(m, name, SectionAim(s)) /\ ServePlace(s.call, name)
                 /\ \A c \in Scope(name) : SectionAim(s)[c] \in RawValues(c)
                 /\ velocity' = IF s.call \in {"position", "tracking"} THEN Stopped ELSE velocity
                 /\ s.call = "pass" => IsMoving(velocity)
                 /\ s.call = "position" =>
                       name = IF state.tracking THEN "tracking" ELSE "position"
                 /\ ~(s.call = "pass" /\ name = "tracking")
           \/ \E v \in Velocities : RequestVelocity(v)
<1>0. platform \in {"linux", "macos"}
  BY DEF TypeInv, Types, BackendTypeOK
<1>1. CASE LockStatus
  <2> DEFINE s == [call |-> "status"]
  <2>1. s \in Sections /\ s.call = "status"
    BY DEF Sections
  <2>2. Lock(s, ReadState) /\ UNCHANGED velocity
    BY <1>1 DEF LockStatus
  <2> HIDE DEF s
  <2> QED
    BY <1>0, <2>1, <2>2, SectionsStart DEF ServePlace
<1>2. ASSUME NEW p \in Targets, LockPosition(p)
      PROVE  \E s \in Sections : \E m, name :
                 /\ Lock(s, m) /\ Starts(m, name, SectionAim(s)) /\ ServePlace(s.call, name)
                 /\ \A c \in Scope(name) : SectionAim(s)[c] \in RawValues(c)
                 /\ velocity' = Stopped /\ s.call = "position"
                 /\ name = IF state.tracking THEN "tracking" ELSE "position"
  <2> DEFINE s == [call |-> "position", position |-> p]
  <2>1. s \in Sections /\ s.call = "position" /\ s.position = p
    BY DEF Sections
  <2>2. /\ Lock(s, IF state.tracking THEN SetTracking(FALSE) ELSE SetPosition(p))
        /\ velocity' = Stopped
    BY <1>2 DEF LockPosition
  <2> HIDE DEF s
  <2>3. CASE state.tracking
    <3>1. Lock(s, SetTracking(FALSE))
      BY <2>2, <2>3
    <3>2. /\ Starts(SetTracking(FALSE), "tracking", SectionAim(s))
          /\ \A c \in Scope("tracking") : SectionAim(s)[c] \in RawValues(c)
          /\ ServePlace(s.call, "tracking")
      BY <1>0, <2>1, SectionsStart DEF ServePlace
    <3>3. /\ velocity' = Stopped /\ s.call = "position"
          /\ "tracking" = IF state.tracking THEN "tracking" ELSE "position"
      BY <2>1, <2>2, <2>3
    <3> QED
      BY ONLY <2>1, <3>1, <3>2, <3>3
  <2>4. CASE ~state.tracking
    <3>1. Lock(s, SetPosition(p))
      BY <2>2, <2>4
    <3> QED
      BY <1>0, <2>1, <2>2, <2>4, <3>1, SectionsStart DEF ServePlace
  <2> QED
    BY <2>3, <2>4
<1>3. ASSUME NEW z \in Zooms, LockZoom(z)
      PROVE  \E s \in Sections : \E m, name :
                 /\ Lock(s, m) /\ Starts(m, name, SectionAim(s)) /\ ServePlace(s.call, name)
                 /\ \A c \in Scope(name) : SectionAim(s)[c] \in RawValues(c)
                 /\ velocity' = velocity /\ s.call = "zoom"
  <2> DEFINE s == [call |-> "zoom", zoom |-> z]
  <2>1. s \in Sections /\ s.call = "zoom" /\ s.zoom = z
    BY DEF Sections
  <2>2. Lock(s, SetZoom(z)) /\ UNCHANGED velocity
    BY <1>3 DEF LockZoom
  <2> HIDE DEF s
  <2> QED
    BY <1>0, <2>1, <2>2, SectionsStart DEF ServePlace
<1>4. ASSUME NEW enabled \in BOOLEAN, LockTracking(enabled)
      PROVE  \E s \in Sections : \E m, name :
                 /\ Lock(s, m) /\ Starts(m, name, SectionAim(s)) /\ ServePlace(s.call, name)
                 /\ \A c \in Scope(name) : SectionAim(s)[c] \in RawValues(c)
                 /\ velocity' = Stopped /\ s.call = "tracking"
  <2> DEFINE s == [call |-> "tracking", tracking |-> enabled]
  <2>1. s \in Sections /\ s.call = "tracking" /\ s.tracking = enabled
    BY DEF Sections
  <2>2. Lock(s, SetTracking(enabled)) /\ velocity' = Stopped
    BY <1>4 DEF LockTracking
  <2> HIDE DEF s
  <2> QED
    BY <1>0, <2>1, <2>2, SectionsStart DEF ServePlace
<1>5. ASSUME NEW next \in Targets, NEW starting \in BOOLEAN, LockPass(next, starting)
      PROVE  \E s \in Sections : \E m, name :
                 /\ Lock(s, m) /\ Starts(m, name, SectionAim(s)) /\ ServePlace(s.call, name)
                 /\ \A c \in Scope(name) : SectionAim(s)[c] \in RawValues(c)
                 /\ velocity' = velocity /\ IsMoving(velocity) /\ s.call = "pass"
                 /\ name # "tracking"
  <2> DEFINE s == [call |-> "pass", position |-> next]
  <2>1. s \in Sections /\ s.call = "pass" /\ s.position = next
    BY DEF Sections
  <2>2. /\ Lock(s, IF starting THEN ReadState ELSE SetPosition(next))
        /\ UNCHANGED velocity /\ IsMoving(velocity)
    BY <1>5 DEF LockPass
  <2> HIDE DEF s
  <2>3. CASE starting
    <3>1. Lock(s, ReadState)
      BY <2>2, <2>3
    <3> QED
      BY <1>0, <2>1, <2>2, <3>1, SectionsStart DEF ServePlace
  <2>4. CASE ~starting
    <3>1. Lock(s, SetPosition(next))
      BY <2>2, <2>4
    <3> QED
      BY <1>0, <2>1, <2>2, <3>1, SectionsStart DEF ServePlace
  <2> QED
    BY <2>3, <2>4
<1>6. CASE \E p \in Targets : LockPosition(p)
  BY <1>2, <1>6
<1>7. CASE \E z \in Zooms : LockZoom(z)
  BY <1>3, <1>7
<1>8. CASE \E enabled \in BOOLEAN : LockTracking(enabled)
  BY <1>4, <1>8
<1>9. CASE \E next \in Targets, starting \in BOOLEAN : LockPass(next, starting)
  BY <1>5, <1>9
<1> QED
  BY <1>1, <1>6, <1>7, <1>8, <1>9 DEF Enter

\* The section that is in progress, by the name of its call.
LEMMA InSection ==
    ASSUME TypeInv, section.call # "none"
    PROVE  /\ section \in Sections /\ section # NoSection /\ Working("serve")
           /\ ServePlace(section.call, work["serve"].method)
           /\ platform \in {"linux", "macos"}
  BY Nothing DEF TypeInv, Types, BackendTypeOK, ServePlaced

\* The guarded state has its types, and after an assignment too.
LEMMA CopyTyped ==
    ASSUME Types
    PROVE  /\ Inside(state.position)
           /\ state = [position |-> state.position, zoom |-> state.zoom, tracking |-> state.tracking]
           /\ velocity \in Velocities \cup {Stopped} /\ backgroundError \in BOOLEAN
           /\ \A p : [state EXCEPT !.position = p]
                 = [position |-> p, zoom |-> state.zoom, tracking |-> state.tracking]
           /\ \A p, t : [state EXCEPT !.position = p, !.tracking = t]
                 = [position |-> p, zoom |-> state.zoom, tracking |-> t]
           /\ \A z : [state EXCEPT !.zoom = z]
                 = [position |-> state.position, zoom |-> z, tracking |-> state.tracking]
           /\ \A t : [state EXCEPT !.tracking = t]
                 = [position |-> state.position, zoom |-> state.zoom, tracking |-> t]
<1>1. /\ state \in [position : [Axes -> Int], zoom : Zooms, tracking : BOOLEAN]
      /\ Inside(state.position)
      /\ velocity \in Velocities \cup {Stopped} /\ backgroundError \in BOOLEAN
  BY DEF Types, BackendTypeOK
<1>2. PICK p0, z0, t0 : state = [position |-> p0, zoom |-> z0, tracking |-> t0]
  BY <1>1
<1>3. state.position = p0 /\ state.zoom = z0 /\ state.tracking = t0
  BY <1>2
<1>4. ASSUME NEW p, NEW t
      PROVE  /\ [state EXCEPT !.position = p] = [position |-> p, zoom |-> z0, tracking |-> t0]
             /\ [state EXCEPT !.position = p, !.tracking = t]
                   = [position |-> p, zoom |-> z0, tracking |-> t]
  <2>1. [state EXCEPT !.position = p] = [position |-> p, zoom |-> z0, tracking |-> t0]
    BY ONLY <1>2
  <2>2. [state EXCEPT !.position = p, !.tracking = t]
           = [[state EXCEPT !.position = p] EXCEPT !.tracking = t]
    OBVIOUS
  <2>3. PICK r : r = [state EXCEPT !.position = p]
    OBVIOUS
  <2>4. r = [position |-> p, zoom |-> z0, tracking |-> t0]
    BY ONLY <2>1, <2>3
  <2>5. [r EXCEPT !.tracking = t] = [position |-> p, zoom |-> z0, tracking |-> t]
    BY ONLY <2>4
  <2> QED
    BY ONLY <2>1, <2>2, <2>3, <2>5
<1>5. ASSUME NEW z
      PROVE  [state EXCEPT !.zoom = z] = [position |-> p0, zoom |-> z, tracking |-> t0]
  BY ONLY <1>2
<1>6. ASSUME NEW t
      PROVE  [state EXCEPT !.tracking = t] = [position |-> p0, zoom |-> z0, tracking |-> t]
  BY ONLY <1>2
<1> QED
  BY ONLY <1>1, <1>2, <1>3, <1>4, <1>5, <1>6

\* An exception was thrown in a section.
LEMMA ThrewInSection ==
    ASSUME TypeInv, Threw("serve")
    PROVE  section \in Sections /\ section # NoSection /\ Working("serve")
  BY Nothing DEF Threw, TypeInv, ServePlaced

\* The steps of a critical section keep the types.
LEMMA ContinueKeepsTypes ==
    ASSUME TypeInv, Continue PROVE TypeInv'
<1> DEFINE Copies == [position : [Axes -> Int], zoom : Zooms, tracking : BOOLEAN]
<1>0. /\ Types /\ state \in Copies /\ Inside(state.position)
      /\ Stopped \in Velocities \cup {Stopped}
  BY DEF TypeInv, Types, BackendTypeOK
<1>1. CASE StatusRead
  <2>1. /\ section.call = "status" /\ Returned("serve", "read") /\ Leave
        /\ state' = StateOf(work["serve"].got) /\ stale' \subseteq stale
        /\ UNCHANGED <<velocity, backgroundError>>
    BY <1>1 DEF StatusRead, Assigned
  <2>2. state' \in Copies /\ Inside(state'.position)
    BY <2>1, InSection, ReturnedRead DEF Processes
  <2> QED
    BY <1>0, <2>1, <2>2, CopyTyped, LeaveKeepsTypes
<1>2. CASE PassRead
  <2>1. /\ section.call = "pass" /\ Returned("serve", "read")
        /\ state' = StateOf(work["serve"].got) /\ stale' \subseteq stale
        /\ UNCHANGED <<velocity, backgroundError>>
        /\ Proceed(IF state'.tracking THEN SetTracking(FALSE) ELSE SetPosition(section.position))
    BY <1>2 DEF PassRead, Assigned
  <2>2. state' \in Copies /\ Inside(state'.position)
    BY <2>1, InSection, ReturnedRead DEF Processes
  <2>3. CASE state'.tracking
    <3>1. Proceed(SetTracking(FALSE))
      BY <2>1, <2>3
    <3>2. /\ Starts(SetTracking(FALSE), "tracking", SectionAim(section))
          /\ \A c \in Scope("tracking") : SectionAim(section)[c] \in RawValues(c)
          /\ ServePlace(section.call, "tracking") /\ section \in Sections
      BY <2>1, InSection, SectionsStart DEF ServePlace
    <3> QED
      BY <2>1, <2>2, <3>1, <3>2, ProceedKeepsTypes
  <2>4. CASE ~state'.tracking
    <3>1. Proceed(SetPosition(section.position))
      BY <2>1, <2>4
    <3>2. /\ Starts(SetPosition(section.position), "position", SectionAim(section))
          /\ \A c \in Scope("position") : SectionAim(section)[c] \in RawValues(c)
          /\ ServePlace(section.call, "position") /\ section \in Sections
      BY <2>1, InSection, SectionsStart DEF ServePlace
    <3> QED
      BY <2>1, <2>2, <3>1, <3>2, ProceedKeepsTypes
  <2> QED
    BY <2>3, <2>4
<1>3. CASE PassUntracked \/ PositionUntracked
  <2>1. /\ section.call \in {"pass", "position"} /\ Proceed(SetPosition(section.position))
        /\ state' = state \/ state' = [state EXCEPT !.tracking = FALSE]
        /\ stale' \subseteq stale /\ UNCHANGED <<velocity, backgroundError>>
    BY <1>3 DEF PassUntracked, PositionUntracked, Assigned, guarded
  <2>2. state' \in Copies /\ Inside(state'.position)
    BY <1>0, <2>1, CopyTyped
  <2>3. /\ Starts(SetPosition(section.position), "position", SectionAim(section))
        /\ \A c \in Scope("position") : SectionAim(section)[c] \in RawValues(c)
        /\ ServePlace(section.call, "position") /\ section \in Sections
    BY <2>1, InSection, SectionsStart DEF ServePlace
  <2> QED
    BY <2>1, <2>2, <2>3, ProceedKeepsTypes
<1>4. CASE PassMoved \/ PositionMoved
  <2>1. /\ section.call \in {"pass", "position"} /\ Leave
        /\ \/ state' = [state EXCEPT !.position = section.position]
           \/ state' = [state EXCEPT !.position = section.position, !.tracking = FALSE]
        /\ stale' \subseteq stale /\ UNCHANGED velocity /\ backgroundError' = FALSE
    BY <1>4 DEF PassMoved, PositionMoved, Assigned
  <2>2. section.position \in [Axes -> Int] /\ Inside(section.position)
    BY <2>1, InSection, SectionsSend
  <2>3. state' \in Copies /\ Inside(state'.position)
    BY <1>0, <2>1, <2>2, CopyTyped
  <2> QED
    BY <1>0, <2>1, <2>3, CopyTyped, LeaveKeepsTypes
<1>5. CASE Zoomed
  <2>1. /\ section.call = "zoom" /\ Leave /\ state' = [state EXCEPT !.zoom = section.zoom]
        /\ stale' \subseteq stale /\ UNCHANGED velocity /\ backgroundError' = FALSE
    BY <1>5 DEF Zoomed, Assigned
  <2>2. section.zoom \in Zooms
    BY <2>1, InSection, SectionsSend
  <2>3. state' \in Copies /\ Inside(state'.position)
    BY <1>0, <2>1, <2>2, CopyTyped
  <2> QED
    BY <1>0, <2>1, <2>3, CopyTyped, LeaveKeepsTypes
<1>6. CASE TrackingSet
  <2>1. /\ section.call = "tracking" /\ Leave
        /\ state' = [state EXCEPT !.tracking = section.tracking]
        /\ stale' \subseteq stale /\ UNCHANGED velocity /\ backgroundError' = FALSE
    BY <1>6 DEF TrackingSet, Assigned
  <2>2. section.tracking \in BOOLEAN
    BY <2>1, InSection, SectionsSend
  <2>3. state' \in Copies /\ Inside(state'.position)
    BY <1>0, <2>1, <2>2, CopyTyped
  <2> QED
    BY <1>0, <2>1, <2>3, CopyTyped, LeaveKeepsTypes
<1>7. CASE SectionThrows
  <2>1. /\ Leave /\ UNCHANGED <<state, stale>>
        /\ velocity' \in {velocity, Stopped} /\ backgroundError' \in {backgroundError, TRUE}
    BY <1>7 DEF SectionThrows
  <2> QED
    BY <1>0, <2>1, CopyTyped, LeaveKeepsTypes
<1> QED
  BY <1>1, <1>2, <1>3, <1>4, <1>5, <1>6, <1>7 DEF Continue

\* What each one-shot command begins with and goes on with.
LEMMA ShotsStart ==
    ASSUME platform \in {"linux", "macos"}, NEW s \in GivenShots
    PROVE  /\ Starts(ReadState, "read", ShotAim(s))
           /\ s.command \in {"center", "position"} =>
                 /\ Starts(SetTracking(FALSE), "tracking", ShotAim(s))
                 /\ Starts(SetPosition(Target(s)), "position", ShotAim(s))
                 /\ \A c \in Scope("position") : ShotAim(s)[c] \in RawValues(c)
           /\ s.command = "zoom" => /\ Starts(SetZoom(s.zoom), "zoom", ShotAim(s))
                                    /\ \A c \in Scope("zoom") : ShotAim(s)[c] \in RawValues(c)
           /\ s.command = "tracking" => Starts(SetTracking(s.tracking), "tracking", ShotAim(s))
           /\ \A c \in Scope("read") : ShotAim(s)[c] \in RawValues(c)
           /\ \A c \in Scope("tracking") : ShotAim(s)[c] \in RawValues(c)
<1>1. Starts(ReadState, "read", ShotAim(s))
  BY ReadStarts
<1>2. s.command \in {"center", "position"} =>
         /\ Starts(SetTracking(FALSE), "tracking", ShotAim(s))
         /\ Starts(SetPosition(Target(s)), "position", ShotAim(s))
  BY ShotsSend, TrackingStarts, PositionStarts
<1>3. s.command = "zoom" => Starts(SetZoom(s.zoom), "zoom", ShotAim(s))
  BY ShotsSend, ZoomStarts
<1>4. s.command = "tracking" => Starts(SetTracking(s.tracking), "tracking", ShotAim(s))
  BY ShotsSend, TrackingStarts
<1> QED
  BY <1>1, <1>2, <1>3, <1>4, ShotsSend, Scopes

\* A one-shot command begins, or goes on to another method.
LEMMA ShotGoesOn ==
    ASSUME TypeInv, NEW s \in GivenShots, shot' = s, NEW m, NEW name, Begin("shot", m),
           Starts(m, name, ShotAim(s)), ShotPlace(s.command, name),
           \A c \in Scope(name) : ShotAim(s)[c] \in RawValues(c),
           begun' \in 0 .. Limit, disturbed' \subseteq Controls,
           UNCHANGED <<platform, camera, serving>>
    PROVE  TypeInv'
<1>1. /\ UNCHANGED <<platform, plugged, device, section, state, velocity, backgroundError>>
      /\ UNCHANGED <<fresh, stale, interfered>> /\ work' = [work EXCEPT !["shot"] = m]
  BY DEF camera, serving, guarded, serveHistory, Begin
<1>2. work'["shot"] = m /\ work'["serve"] = work["serve"] /\ work' = [p \in Processes |-> work'[p]]
  BY <1>1 DEF TypeInv, Types, Processes
<1>3. Aim("shot")' = ShotAim(s)
  BY DEF Aim
<1>4. Working("shot")' /\ work'["shot"].method = name
  <2>1. Starts(m, name, Aim("shot")')
    BY ONLY <1>3, Starts(m, name, ShotAim(s))
  <2>2. \A c \in Scope(name) : Aim("shot")'[c] \in RawValues(c)
    BY ONLY <1>3, \A c \in Scope(name) : ShotAim(s)[c] \in RawValues(c)
  <2>3. "shot" \in Processes
    BY DEF Processes
  <2> QED
    BY ONLY <1>2, <2>1, <2>2, <2>3, StartsWork
<1>5. ShotPlaced'
  BY <1>4, Nothing DEF ShotPlaced
<1>6. ServePlaced'
  <2>1. section = NoSection => fresh' = {} /\ interfered' = FALSE
    BY <1>1 DEF TypeInv, ServePlaced
  <2> QED
    BY <1>1, <1>2, <2>1, ServeKept DEF TypeInv
<1>7. Types'
  BY <1>1, <1>2 DEF TypeInv, Types, BackendTypeOK
<1> QED
  BY <1>5, <1>6, <1>7 DEF TypeInv

\* The one-shot command that is in progress.
LEMMA InShot ==
    ASSUME TypeInv, work["shot"] # Idle
    PROVE  /\ shot \in GivenShots /\ shot # NoShot /\ Working("shot")
           /\ ShotPlace(shot.command, work["shot"].method)
           /\ platform \in {"linux", "macos"} /\ disturbed \subseteq Controls
           /\ begun \in 0 .. Limit
  BY Nothing DEF TypeInv, Types, BackendTypeOK, ShotPlaced

\* A method that returned was one.
LEMMA ReturnedWorks ==
    ASSUME NEW p, NEW name \in {"read", "position", "zoom", "tracking"}, Returned(p, name)
    PROVE  work[p] # Idle /\ work[p].method = name /\ work[p].todo = <<>> /\ ~work[p].threw
  BY Nothing DEF Returned

\* The steps of a one-shot command keep the types.
LEMMA OneShotKeepsTypes ==
    ASSUME TypeInv, OneShot PROVE TypeInv'
<1>0. /\ Types /\ platform \in {"linux", "macos"} /\ disturbed \subseteq Controls
      /\ begun \in 0 .. Limit
  BY DEF TypeInv, Types, BackendTypeOK
<1>1. ASSUME NEW s \in Shots, ShotStart(s) PROVE TypeInv'
  <2>1. /\ s \in GivenShots /\ shot' = s /\ Begin("shot", FirstMethod(s))
        /\ disturbed' = {} /\ begun' \in 0 .. Limit /\ UNCHANGED <<platform, camera, serving>>
    BY <1>0, <1>1, InputsAssumption DEF ShotStart, Bounded, GivenShots
  <2>2. s.command \in {"status", "center", "position", "zoom", "tracking"}
    BY <2>1, ShotsSend
  <2>3. CASE s.command = "status"
    <3>1. FirstMethod(s) = ReadState /\ ShotPlace(s.command, "read")
      BY <2>3 DEF FirstMethod, ShotPlace
    <3>2. Begin("shot", ReadState)
      BY <2>1, <3>1
    <3> QED
      BY <1>0, <2>1, <3>1, <3>2, ShotsStart, ShotGoesOn
  <2>4. CASE s.command \in {"center", "position"}
    <3>1. FirstMethod(s) = SetTracking(FALSE) /\ ShotPlace(s.command, "tracking")
      BY <2>4 DEF FirstMethod, ShotPlace
    <3>2. Begin("shot", SetTracking(FALSE))
      BY <2>1, <3>1
    <3> QED
      BY <1>0, <2>1, <2>4, <3>1, <3>2, ShotsStart, ShotGoesOn
  <2>5. CASE s.command = "zoom"
    <3>1. FirstMethod(s) = SetZoom(s.zoom) /\ ShotPlace(s.command, "zoom")
      BY <2>5 DEF FirstMethod, ShotPlace
    <3>2. Begin("shot", SetZoom(s.zoom))
      BY <2>1, <3>1
    <3> QED
      BY <1>0, <2>1, <2>5, <3>1, <3>2, ShotsStart, ShotGoesOn
  <2>6. CASE s.command = "tracking"
    <3>1. FirstMethod(s) = SetTracking(s.tracking) /\ ShotPlace(s.command, "tracking")
      BY <2>6 DEF FirstMethod, ShotPlace
    <3>2. Begin("shot", SetTracking(s.tracking))
      BY <2>1, <3>1
    <3> QED
      BY <1>0, <2>1, <2>6, <3>1, <3>2, ShotsStart, ShotGoesOn
  <2> QED
    BY <2>2, <2>3, <2>4, <2>5, <2>6
<1>2. CASE ShotUntracked
  <2>1. /\ shot.command \in {"center", "position"} /\ work["shot"] # Idle
        /\ Begin("shot", SetPosition(Target(shot))) /\ UNCHANGED <<platform, camera, serving>>
        /\ shot' = shot /\ disturbed' = disturbed /\ begun' = begun
    BY <1>2, ReturnedWorks DEF ShotUntracked, shooting
  <2>2. shot \in GivenShots /\ ShotPlace(shot.command, "position")
    BY <2>1, InShot DEF ShotPlace
  <2> QED
    BY <1>0, <2>1, <2>2, ShotsStart, ShotGoesOn
<1>3. CASE ShotWritten
  <2>1. /\ work["shot"] # Idle
        /\ Begin("shot", ReadState) /\ UNCHANGED <<platform, camera, serving>>
        /\ shot' = shot /\ disturbed' = disturbed /\ begun' = begun
    BY <1>3, ReturnedWorks DEF ShotWritten, shooting
  <2>2. shot \in GivenShots /\ ShotPlace(shot.command, "read")
    <3>1. shot \in GivenShots
      BY <2>1, InShot
    <3>2. shot.command \in {"status", "center", "position", "zoom", "tracking"}
      BY <3>1, ShotsSend
    <3> QED
      BY <3>1, <3>2 DEF ShotPlace
  <2> QED
    BY <1>0, <2>1, <2>2, ShotsStart, ShotGoesOn
<1>4. CASE ShotEnds
  <2>1. /\ UNCHANGED <<platform, plugged, device, section, state, velocity, backgroundError>>
        /\ UNCHANGED <<begun, fresh, stale, interfered>> /\ work' = [work EXCEPT !["shot"] = Idle]
        /\ shot' = NoShot /\ disturbed' = {}
    BY <1>4 DEF ShotEnds, End, camera, serving, guarded, serveHistory, Begin
  <2>2. work'["shot"] = Idle /\ work'["serve"] = work["serve"]
        /\ work' = [p \in Processes |-> work'[p]]
    BY <2>1 DEF TypeInv, Types, Processes
  <2>3. ShotPlaced'
    BY <2>1, <2>2 DEF ShotPlaced
  <2>4. ServePlaced'
    <3>1. section = NoSection => fresh' = {} /\ interfered' = FALSE
      BY <2>1 DEF TypeInv, ServePlaced
    <3> QED
      BY <2>1, <2>2, <3>1, ServeKept DEF TypeInv
  <2>5. Types'
    BY <2>1, <2>2 DEF TypeInv, Types, BackendTypeOK
  <2> QED
    BY <2>3, <2>4, <2>5 DEF TypeInv
<1> QED
  BY <1>1, <1>2, <1>3, <1>4 DEF OneShot, ShotPrints, ShotThrows

\* What the camera does on its own, as raw values.
LEMMA WorldIs ==
    ASSUME Types, World
    PROVE  \/ \E values : /\ CameraChanges(values) /\ DOMAIN values \subseteq Controls
                          /\ \A c \in DOMAIN values : values[c] \in RawValues(c)
                          /\ \/ DOMAIN values = Axes /\ device["tracking"] # 0
                                /\ \E p \in Targets : values = [a \in Axes |-> Raw(p[a])]
                             \/ DOMAIN values = {"tracking"}
                                /\ values["tracking"] = IF device["tracking"] = 0 THEN 1 ELSE 0
           \/ Unplugged
<1>1. CASE CameraTracks
  <2>1. PICK p \in Targets : CameraChanges([a \in Axes |-> Raw(p[a])]) /\ device["tracking"] # 0
    BY <1>1 DEF CameraTracks
  <2>2. p \in [Axes -> Int] /\ Inside(p)
    BY InputsAssumption
  <2> DEFINE values == [a \in Axes |-> Raw(p[a])]
  <2>3. DOMAIN values = Axes /\ \A a \in Axes : values[a] \in RawValues(a)
    BY <2>2, PositionSent
  <2>4. \E q \in Targets : values = [a \in Axes |-> Raw(q[a])]
    OBVIOUS
  <2> HIDE DEF values
  <2>5. Axes \subseteq Controls
    BY Names
  <2>6. CameraChanges(values)
    BY <2>1 DEF values
  <2> QED
    BY <2>1, <2>3, <2>4, <2>5, <2>6
<1>2. CASE TrackingSwitched
  <2> DEFINE values == [c \in {"tracking"} |-> IF device["tracking"] = 0 THEN 1 ELSE 0]
  <2>1. CameraChanges(values)
    BY <1>2 DEF TrackingSwitched
  <2>2. DOMAIN values = {"tracking"} /\ values["tracking"] = IF device["tracking"] = 0 THEN 1 ELSE 0
    OBVIOUS
  <2> HIDE DEF values
  <2>3. "tracking" \in Controls /\ values["tracking"] \in RawValues("tracking")
    BY <2>2, Names
  <2> QED
    BY <2>1, <2>2, <2>3
<1> QED
  BY <1>1, <1>2 DEF World

\* The camera on its own keeps the types.
LEMMA WorldKeepsTypes ==
    ASSUME TypeInv, World PROVE TypeInv'
<1>0. Types
  BY DEF TypeInv
<1>1. ASSUME NEW values, CameraChanges(values), DOMAIN values \subseteq Controls,
             \A c \in DOMAIN values : values[c] \in RawValues(c)
      PROVE  TypeInv'
  <2>1. /\ device' = [c \in Controls |-> IF c \in DOMAIN values THEN values[c] ELSE device[c]]
        /\ stale' = stale \cup FieldsOf(DOMAIN values) /\ fresh' = fresh \ DOMAIN values
        /\ disturbed' = Disturbing(DOMAIN values) /\ interfered' = Interfering(DOMAIN values)
        /\ begun < Limit /\ begun' = begun + 1
        /\ UNCHANGED <<platform, plugged, work, section, state, velocity, backgroundError, shot>>
    BY <1>1 DEF CameraChanges, Overwrite, Bounded, guarded
  <2>2. \A c \in Controls : device'[c] \in RawValues(c)
    BY <1>0, <1>1, <2>1, DeviceLegal
  <2>3. DOMAIN device' = Controls /\ device' = [c \in Controls |-> device'[c]]
    BY <2>1
  <2>4. /\ \A a \in Axes : device'[a] \in RawPositions(a)
        /\ device'["zoom"] \in RawZooms /\ device'["tracking"] \in {0, 1}
    BY <2>2, <2>3, LegalDevice
  <2>5. FieldsOf(DOMAIN values) \subseteq {"position", "zoom", "tracking"}
    BY <1>1, Names DEF FieldsOf, Field
  <2>6. disturbed' \subseteq Controls /\ interfered' \in BOOLEAN
    BY <1>0, <1>1, <2>1 DEF Disturbing, Interfering, Types, BackendTypeOK
  <2>7. begun' \in 0 .. Limit
    BY <1>0, <2>1, InputsAssumption DEF Types, BackendTypeOK
  <2>8. BackendTypeOK'
    BY <1>0, <2>1, <2>3, <2>4, <2>5, <2>6, <2>7 DEF Types, BackendTypeOK
  <2>9. Types'
    BY <1>0, <2>1, <2>3, <2>8 DEF Types
  <2>10. ShotPlaced'
    BY <2>1, ShotKept DEF TypeInv
  <2>11. ServePlaced'
    <3>1. section = NoSection => fresh' = {} /\ interfered' = FALSE
      BY <2>1 DEF TypeInv, ServePlaced, Interfering
    <3> QED
      BY <2>1, <3>1, ServeKept DEF TypeInv
  <2> QED
    BY <2>9, <2>10, <2>11 DEF TypeInv
<1>2. CASE Unplugged
  <2>1. /\ plugged' = FALSE /\ begun < Limit /\ begun' = begun + 1
        /\ UNCHANGED <<platform, device, work, section, state, velocity, backgroundError>>
        /\ UNCHANGED <<fresh, stale, interfered, shot, disturbed>>
    BY <1>2 DEF Unplugged, Bounded, serving, guarded, serveHistory, shooting
  <2>2. begun' \in 0 .. Limit
    BY <1>0, <2>1, InputsAssumption DEF Types, BackendTypeOK
  <2>3. Types'
    BY <1>0, <2>1, <2>2 DEF Types, BackendTypeOK
  <2>4. ShotPlaced'
    BY <2>1, ShotKept DEF TypeInv
  <2>5. ServePlaced'
    <3>1. section = NoSection => fresh' = {} /\ interfered' = FALSE
      BY <2>1 DEF TypeInv, ServePlaced
    <3> QED
      BY <2>1, <3>1, ServeKept DEF TypeInv
  <2> QED
    BY <2>3, <2>4, <2>5 DEF TypeInv
<1> QED
  BY <1>0, <1>1, <1>2, WorldIs

\* The calls of serve keep the types.
LEMMA EnterKeepsTypes ==
    ASSUME TypeInv, Enter PROVE TypeInv'
<1>0. velocity \in Velocities \cup {Stopped}
  BY DEF TypeInv, Types, BackendTypeOK
<1>1. ASSUME NEW s \in Sections, NEW m, NEW name, Lock(s, m), Starts(m, name, SectionAim(s)),
             ServePlace(s.call, name), \A c \in Scope(name) : SectionAim(s)[c] \in RawValues(c),
             velocity' = IF s.call \in {"position", "tracking"} THEN Stopped ELSE velocity
      PROVE  TypeInv'
  <2>1. velocity' \in Velocities \cup {Stopped}
    BY <1>0, <1>1
  <2> QED
    BY ONLY TypeInv, <1>1, <2>1, LockKeepsTypes
<1>2. ASSUME NEW v \in Velocities, RequestVelocity(v) PROVE TypeInv'
  <2>1. /\ velocity' = v
        /\ UNCHANGED <<platform, plugged, device, begun, work, section, state, backgroundError>>
        /\ UNCHANGED <<fresh, stale, interfered, shot, disturbed>>
    BY <1>2 DEF RequestVelocity, camera, serveHistory, shooting
  <2>2. Types'
    BY <2>1 DEF TypeInv, Types, BackendTypeOK
  <2>3. ShotPlaced'
    BY <2>1, ShotKept DEF TypeInv
  <2>4. ServePlaced'
    <3>1. section = NoSection => fresh' = {} /\ interfered' = FALSE
      BY <2>1 DEF TypeInv, ServePlaced
    <3> QED
      BY <2>1, <3>1, ServeKept DEF TypeInv
  <2> QED
    BY <2>2, <2>3, <2>4 DEF TypeInv
<1> QED
  BY <1>1, <1>2, EnterIs

\* serve begins idle, with what it read.
LEMMA InitTypes ==
    ASSUME BackendInit PROVE TypeInv
<1>1. PICK z \in Zooms, t \in {0, 1} :
         device = [c \in Controls |-> IF c = "zoom" THEN Raw(z) ELSE IF c = "tracking" THEN t ELSE 0]
  BY DEF BackendInit
<1>2. device["zoom"] = Raw(z) /\ device["tracking"] = t /\ \A a \in Axes : device[a] = 0
  BY <1>1, Names
<1>3. Raw(0) = 0 /\ \A a \in Axes : Raw(0) \in RawValues(a)
  <2>1. FromRaw(0) = 0
    BY ScaleAssumption DEF FromRaw
  <2>2. Center \in [Axes -> Int] /\ Inside(Center) /\ \A a \in Axes : Center[a] = 0
    BY RangesAssumption DEF Center
  <2> QED
    BY <2>1, <2>2, RawIsExact, PositionSent
<1>4. \A c \in Controls : device[c] \in RawValues(c)
  BY <1>2, <1>3, ZoomSent, Names
<1>5. RawDevice(device) /\ DOMAIN device = Controls /\ device = [c \in Controls |-> device[c]]
  BY <1>1, <1>4 DEF RawDevice
<1>6. /\ \A a \in Axes : device[a] \in RawPositions(a)
      /\ device["zoom"] \in RawZooms /\ device["tracking"] \in {0, 1}
  BY <1>4, <1>5, LegalDevice
<1>7. /\ state = StateOf(device) /\ Inside(state.position)
      /\ state \in [position : [Axes -> Int], zoom : Zooms, tracking : BOOLEAN]
  BY <1>5, StateRead DEF BackendInit
<1>8. Types
  <2>1. /\ begun \in 0 .. Limit /\ velocity \in Velocities \cup {Stopped}
        /\ backgroundError \in BOOLEAN /\ plugged \in BOOLEAN /\ interfered \in BOOLEAN
        /\ fresh = {} /\ stale = {} /\ disturbed = {} /\ platform \in {"linux", "macos"}
        /\ work = [p \in Processes |-> work[p]]
    <3>1. 0 \in 0 .. Limit
      BY InputsAssumption
    <3>2. begun = 0 /\ velocity = Stopped /\ backgroundError = FALSE /\ plugged = TRUE
      BY DEF BackendInit
    <3>3. /\ fresh = {} /\ stale = {} /\ disturbed = {} /\ platform \in {"linux", "macos"}
          /\ interfered = FALSE /\ work = [p \in Processes |-> Idle]
      BY DEF BackendInit
    <3>4. work = [p \in Processes |-> work[p]]
      BY <3>3
    <3> QED
      BY <3>1, <3>2, <3>3, <3>4
  <2>2. state.zoom \in Zooms /\ state.tracking \in BOOLEAN
    BY <1>7
  <2>3. BackendTypeOK
    BY <1>5, <1>6, <1>7, <2>1, <2>2 DEF BackendTypeOK
  <2> QED
    BY <1>5, <1>7, <2>1, <2>3 DEF Types
<1>9. ServePlaced /\ ShotPlaced
  BY DEF BackendInit, ServePlaced, ShotPlaced, Processes
<1> QED
  BY <1>8, <1>9 DEF TypeInv

\* Every step keeps the types.
LEMMA StepKeepsTypes ==
    ASSUME TypeInv, [BackendNext]_vars PROVE TypeInv'
<1>1. CASE BackendNext
  BY <1>1, RequestKeepsTypes, EnterKeepsTypes, ContinueKeepsTypes, OneShotKeepsTypes,
     WorldKeepsTypes DEF BackendNext
<1>2. CASE UNCHANGED vars
  <2>1. /\ UNCHANGED <<platform, plugged, device, begun, work, section, state, velocity>>
        /\ UNCHANGED <<backgroundError, fresh, stale, interfered, shot, disturbed>>
    BY <1>2 DEF vars, camera, serving, guarded, serveHistory, shooting
  <2>2. Types'
    BY <2>1 DEF TypeInv, Types, BackendTypeOK
  <2>3. ShotPlaced'
    BY <2>1, ShotKept DEF TypeInv
  <2>4. ServePlaced'
    <3>1. section = NoSection => fresh' = {} /\ interfered' = FALSE
      BY <2>1 DEF TypeInv, ServePlaced
    <3> QED
      BY <2>1, <3>1, ServeKept DEF TypeInv
  <2> QED
    BY <2>2, <2>3, <2>4 DEF TypeInv
<1> QED
  BY <1>1, <1>2

\* Every reachable state has the types, and each process is at a place that
\* its call or command has.
THEOREM BackendPlaced == BackendSpec => []TypeInv
<1>1. BackendInit => TypeInv
  BY InitTypes
<1>2. TypeInv /\ [BackendNext]_vars => TypeInv'
  BY StepKeepsTypes
<1> QED
  BY <1>1, <1>2, PTL DEF BackendSpec

\* Type correctness: in particular a raw value that reaches the camera lies in
\* the range it advertises, through the rounding, the bytes of a UVC request,
\* requests that fail half way and two processes that know nothing of each other.
THEOREM BackendTypeCorrect == BackendSpec => []BackendTypeOK
<1>1. TypeInv => BackendTypeOK
  BY DEF TypeInv, Types
<1> QED
  BY <1>1, BackendPlaced, PTL

(***************************************************************************)
(* The invariant: one-shot commands.                                       *)
(***************************************************************************)

\* The controls that a command sets, and those that it has still to write.
Commanded(s) ==
    CASE s.command \in {"center", "position"} -> Axes \cup {"tracking"}
      [] s.command = "zoom"     -> {"zoom"}
      [] s.command = "tracking" -> {"tracking"}
      [] OTHER                  -> {}
Ahead(s, m) ==
    Writes(m.todo) \cup IF s.command \in {"center", "position"} /\ m.method = "tracking"
                          THEN Axes ELSE {}

\* A command that has not failed has left in the camera what it wrote, and
\* reads that back, in every control that nobody else changed.
ShotInv ==
    shot # NoShot /\ ~work["shot"].threw =>
        \A c \in Commanded(shot) \ (disturbed \cup Ahead(shot, work["shot"])) :
            /\ device[c] = Aim("shot")[c]
            /\ work["shot"].method = "read" /\ c \in DOMAIN work["shot"].got
                  => work["shot"].got[c] = Aim("shot")[c]

\* The commands, one by one.
LEMMA CommandedControls ==
    /\ \A s : s.command \in {"center", "position"} => Commanded(s) = Axes \cup {"tracking"}
    /\ \A s : s.command = "zoom" => Commanded(s) = {"zoom"}
    /\ \A s : s.command = "tracking" => Commanded(s) = {"tracking"}
    /\ \A s : s.command = "status" => Commanded(s) = {}
    /\ \A s : Commanded(s) \subseteq Controls
  BY Names DEF Commanded

\* Steps that leave the command alone keep the invariant.
LEMMA ShotInvKept ==
    ASSUME ShotInv, shot' = shot, work'["shot"] = work["shot"], disturbed \subseteq disturbed',
           \A c \in Controls \ disturbed' : device'[c] = device[c]
    PROVE  ShotInv'
<1>1. Aim("shot")' = Aim("shot")
  BY DEF Aim
<1>2. SUFFICES ASSUME shot # NoShot, ~work["shot"].threw,
                      NEW c \in Commanded(shot) \ (disturbed' \cup Ahead(shot, work["shot"]))
               PROVE  /\ device'[c] = Aim("shot")[c]
                      /\ work["shot"].method = "read" /\ c \in DOMAIN work["shot"].got
                            => work["shot"].got[c] = Aim("shot")[c]
  BY <1>1 DEF ShotInv
<1>3. c \in Controls \ disturbed' /\ c \notin disturbed \cup Ahead(shot, work["shot"])
  BY CommandedControls
<1> QED
  BY <1>2, <1>3 DEF ShotInv

\* Requests of the command.
LEMMA ShotRequestKeeps ==
    ASSUME TypeInv, ShotInv, Complete("shot") \/ Interruption("shot") PROVE ShotInv'
<1>1. Types /\ Working("shot") /\ "shot" \in Processes /\ shot # NoShot
  <2>1. work["shot"] # Idle /\ "shot" \in Processes
    BY DEF Complete, Interruption, Pending, Processes
  <2> QED
    BY <2>1, InShot DEF TypeInv
<1>2. PICK R \in SUBSET Controls, W \in SUBSET Scope(work["shot"].method) :
         /\ W = {} <=> work["shot"].method = "read"
         /\ Written("shot", W) /\ ~work["shot"].threw
         /\ AnsweredWith("shot", R, W) \/ RefusedWith("shot", W) \/ RepeatedWith("shot", W)
  BY <1>1, RequestIs
<1>3. shot' = shot /\ disturbed' = disturbed
  <2>1. PICK A : Note("shot", A, W)
    BY <1>2 DEF AnsweredWith, RefusedWith, RepeatedWith
  <2> QED
    BY <2>1 DEF Note
<1>4. Aim("shot")' = Aim("shot")
  BY <1>3 DEF Aim
<1>5. CASE AnsweredWith("shot", R, W)
  <2>1. SUFFICES ASSUME NEW c \in Commanded(shot) \ (disturbed \cup Ahead(shot, work'["shot"]))
                 PROVE  /\ device'[c] = Aim("shot")[c]
                        /\ work'["shot"].method = "read" /\ c \in DOMAIN work'["shot"].got
                              => work'["shot"].got[c] = Aim("shot")[c]
    BY <1>3, <1>4 DEF ShotInv
  <2>2. c \in Controls
    BY CommandedControls
  <2>3. work'["shot"].method = work["shot"].method
        /\ Writes(work["shot"].todo) = W \cup Writes(work'["shot"].todo)
    BY <1>5 DEF AnsweredWith
  <2>4. CASE c \in W
    BY <1>2, <1>5, <2>3, <2>4 DEF AnsweredWith
  <2>5. CASE c \notin W
    <3>1. c \notin disturbed \cup Ahead(shot, work["shot"])
      BY <2>1, <2>3, <2>5 DEF Ahead
    <3>2. device[c] = Aim("shot")[c] /\ device'[c] = device[c]
          /\ (work["shot"].method = "read" /\ c \in DOMAIN work["shot"].got
                => work["shot"].got[c] = Aim("shot")[c])
      BY <1>1, <1>2, <2>2, <2>5, <3>1 DEF ShotInv, Written
    <3> QED
      BY <1>5, <2>3, <3>2 DEF AnsweredWith
  <2> QED
    BY <2>4, <2>5
<1>6. CASE RefusedWith("shot", W)
  BY <1>6 DEF RefusedWith, ShotInv
<1>7. CASE RepeatedWith("shot", W)
  <2>1. SUFFICES ASSUME NEW c \in Commanded(shot) \ (disturbed \cup Ahead(shot, work["shot"]))
                 PROVE  /\ device'[c] = Aim("shot")[c]
                        /\ work["shot"].method = "read" /\ c \in DOMAIN work["shot"].got
                              => work["shot"].got[c] = Aim("shot")[c]
    BY <1>3, <1>4, <1>7 DEF ShotInv, RepeatedWith
  <2>2. c \in Controls /\ c \notin W
    BY <1>7, CommandedControls DEF RepeatedWith, Ahead
  <2> QED
    BY <1>1, <1>2, <2>2 DEF ShotInv, Written
<1> QED
  BY <1>2, <1>5, <1>6, <1>7

\* Requests of serve, which the command counts among the disturbances.
LEMMA ServeRequestDisturbs ==
    ASSUME TypeInv, Complete("serve") \/ Interruption("serve")
    PROVE  /\ shot' = shot /\ work'["shot"] = work["shot"]
           /\ shot # NoShot => /\ disturbed \subseteq disturbed'
                               /\ \A c \in Controls \ disturbed' : device'[c] = device[c]
<1>1. Types /\ Working("serve") /\ "serve" \in Processes
  <2>1. work["serve"] # Idle /\ "serve" \in Processes
    BY DEF Complete, Interruption, Pending, Processes
  <2> QED
    BY <2>1, WorkingOrIdle DEF TypeInv
<1>2. PICK R \in SUBSET Controls, W \in SUBSET Scope(work["serve"].method) :
         /\ Written("serve", W) /\ Alone("serve")
         /\ AnsweredWith("serve", R, W) \/ RefusedWith("serve", W) \/ RepeatedWith("serve", W)
  BY <1>1, RequestIs
<1>3. PICK A : Note("serve", A, W)
  BY <1>2 DEF AnsweredWith, RefusedWith, RepeatedWith
<1>4. shot' = shot /\ disturbed' = Disturbing(W)
  BY <1>3 DEF Note
<1>5. shot # NoShot => disturbed' = disturbed \cup W
  BY <1>4 DEF Disturbing
<1> QED
  BY <1>2, <1>4, <1>5 DEF Written, Alone, Processes

\* A step of a command into another method: nothing that was written is lost.
LEMMA ShotStepKeeps ==
    ASSUME TypeInv, ShotInv, OneShot PROVE ShotInv'
<1>1. ASSUME NEW s \in Shots, ShotStart(s) PROVE ShotInv'
  <2>1. /\ TypeInv' /\ shot' = s /\ work'["shot"] = FirstMethod(s) /\ s \in GivenShots
        /\ platform \in {"linux", "macos"}
    <3>1. OneShot
      BY <1>1 DEF OneShot
    <3>2. work' = [work EXCEPT !["shot"] = FirstMethod(s)]
      BY <1>1 DEF ShotStart, Begin
    <3> QED
      BY <1>1, <3>1, <3>2, OneShotKeepsTypes
         DEF ShotStart, GivenShots, TypeInv, Types, BackendTypeOK, Processes
  <2>2. s.command \in {"status", "center", "position", "zoom", "tracking"}
    BY <2>1, ShotsSend
  <2>3. Commanded(s) \subseteq Ahead(s, FirstMethod(s))
    <3>1. CASE s.command = "status"
      BY <3>1, CommandedControls
    <3>2. CASE s.command \in {"center", "position"}
      <4>1. Starts(FirstMethod(s), "tracking", ShotAim(s))
        BY <2>1, <3>2, ShotsStart DEF FirstMethod
      <4> QED
        BY <3>2, <4>1, CommandedControls, Scopes DEF Starts, Ahead
    <3>3. CASE s.command = "zoom"
      <4>1. Starts(FirstMethod(s), "zoom", ShotAim(s))
        BY <2>1, <3>3, ShotsStart DEF FirstMethod
      <4> QED
        BY <3>3, <4>1, CommandedControls, Scopes DEF Starts, Ahead
    <3>4. CASE s.command = "tracking"
      <4>1. Starts(FirstMethod(s), "tracking", ShotAim(s))
        BY <2>1, <3>4, ShotsStart DEF FirstMethod
      <4> QED
        BY <3>4, <4>1, CommandedControls, Scopes DEF Starts, Ahead
    <3> QED
      BY <2>2, <3>1, <3>2, <3>3, <3>4
  <2> QED
    BY <2>1, <2>3 DEF ShotInv
<1>2. ASSUME NEW m, Begin("shot", m), DOMAIN m.got = {}, work["shot"] # Idle,
             ~work["shot"].threw, work["shot"].todo = <<>>,
             UNCHANGED <<shot, disturbed, device>>,
             \A c \in Commanded(shot) \ Ahead(shot, m) : c \notin Ahead(shot, work["shot"])
      PROVE  ShotInv'
  <2>1. work'["shot"] = m
    BY <1>2 DEF Begin, TypeInv, Types, Processes
  <2>2. Aim("shot")' = Aim("shot")
    BY <1>2 DEF Aim
  <2>3. shot # NoShot
    BY <1>2, InShot
  <2>4. \A c \in Commanded(shot) \ (disturbed \cup Ahead(shot, m)) : device[c] = Aim("shot")[c]
    BY <1>2, <2>3 DEF ShotInv
  <2> QED
    BY <1>2, <2>1, <2>2, <2>4 DEF ShotInv
<1>3. Writes(<<>>) = {}
  BY ShortChains DEF Writes
<1>4. CASE ShotUntracked
  <2>1. /\ shot.command \in {"center", "position"} /\ work["shot"] # Idle
        /\ work["shot"].todo = <<>> /\ ~work["shot"].threw
        /\ Begin("shot", SetPosition(Target(shot))) /\ UNCHANGED <<shot, disturbed, device>>
    BY <1>4, ReturnedWorks DEF ShotUntracked, shooting, camera
  <2>2. Starts(SetPosition(Target(shot)), "position", ShotAim(shot))
    BY <2>1, InShot, ShotsStart
  <2>3. /\ DOMAIN SetPosition(Target(shot)).got = {}
        /\ Axes \subseteq Ahead(shot, SetPosition(Target(shot)))
    BY <2>2, Scopes DEF Starts, Ahead
  <2>4. Ahead(shot, work["shot"]) \subseteq Axes
    BY <1>3, <2>1 DEF Ahead
  <2> QED
    BY <1>2, <2>1, <2>3, <2>4
<1>5. CASE ShotWritten
  <2>1. /\ work["shot"] # Idle /\ work["shot"].todo = <<>> /\ ~work["shot"].threw
        /\ \/ work["shot"].method \in {"position", "zoom"}
           \/ shot.command = "tracking"
        /\ Begin("shot", ReadState) /\ UNCHANGED <<shot, disturbed, device>>
    BY <1>5, ReturnedWorks DEF ShotWritten, shooting, camera
  <2>2. DOMAIN ReadState.got = {}
    BY ReadStarts DEF Starts
  <2>3. Ahead(shot, work["shot"]) = {}
    BY <1>3, <2>1 DEF Ahead
  <2> QED
    BY <1>2, <2>1, <2>2, <2>3
<1>6. CASE ShotEnds
  BY <1>6 DEF ShotEnds, ShotInv
<1> QED
  BY <1>1, <1>4, <1>5, <1>6 DEF OneShot, ShotPrints, ShotThrows

\* The calls and the sections of serve make no request themselves.
LEMMA SectionStepsMakeNoRequest ==
    ASSUME TypeInv, Enter \/ Continue
    PROVE  /\ UNCHANGED <<platform, plugged, device, shot, disturbed>>
           /\ work'["shot"] = work["shot"]
<1>1. UNCHANGED <<camera, shooting, platform>> /\ (UNCHANGED work \/ \E m : Begin("serve", m))
  <2>1. CASE Enter
    BY <2>1 DEF Enter, LockStatus, LockPosition, LockZoom, LockTracking, LockPass,
                RequestVelocity, Lock
  <2>2. CASE Continue
    BY <2>2 DEF Continue, StatusRead, PassRead, PassUntracked, PassMoved, PositionUntracked,
                PositionMoved, Zoomed, TrackingSet, SectionThrows, Proceed, Leave, End
  <2> QED
    BY <2>1, <2>2
<1> QED
  BY <1>1 DEF camera, shooting, Begin, TypeInv, Types, Processes

\* Every step keeps the invariant of the one-shot commands.
LEMMA StepKeepsShotInv ==
    ASSUME TypeInv, ShotInv, [BackendNext]_vars PROVE ShotInv'
<1>1. CASE Complete("serve") \/ Interruption("serve")
  <2>1. CASE shot = NoShot
    BY <1>1, <2>1, ServeRequestDisturbs DEF ShotInv
  <2>2. CASE shot # NoShot
    BY <1>1, <2>2, ServeRequestDisturbs, ShotInvKept
  <2> QED
    BY <2>1, <2>2
<1>2. CASE Complete("shot") \/ Interruption("shot")
  BY <1>2, ShotRequestKeeps
<1>3. CASE Enter \/ Continue
  BY <1>3, SectionStepsMakeNoRequest, ShotInvKept
<1>4. CASE OneShot
  BY <1>4, ShotStepKeeps
<1>5. CASE World
  <2>1. ASSUME NEW values, CameraChanges(values) PROVE ShotInv'
    <3>1. /\ UNCHANGED <<work, shot>> /\ disturbed' = Disturbing(DOMAIN values)
          /\ \A c \in Controls \ DOMAIN values : device'[c] = device[c]
      BY <2>1 DEF CameraChanges, Overwrite
    <3>2. CASE shot = NoShot
      BY <3>1, <3>2 DEF ShotInv
    <3>3. CASE shot # NoShot
      <4>1. disturbed' = disturbed \cup DOMAIN values
        BY <3>1, <3>3 DEF Disturbing
      <4> QED
        BY <3>1, <4>1, ShotInvKept
    <3> QED
      BY <3>2, <3>3
  <2>2. CASE Unplugged
    BY <2>2, ShotInvKept DEF Unplugged, shooting
  <2> QED
    BY <1>5, <2>1, <2>2, WorldIs DEF TypeInv
<1>6. CASE UNCHANGED vars
  BY <1>6, ShotInvKept DEF vars, camera, shooting
<1> QED
  BY <1>1, <1>2, <1>3, <1>4, <1>5, <1>6 DEF BackendNext, Processes

\* The invariant of the one-shot commands.
THEOREM CommandsTakeHold == BackendSpec => []ShotInv
<1>1. BackendInit => ShotInv
  BY DEF BackendInit, ShotInv
<1>2. TypeInv /\ ShotInv /\ [BackendNext]_vars => ShotInv'
  BY StepKeepsShotInv
<1> QED
  BY <1>1, <1>2, BackendPlaced, PTL DEF BackendSpec

\* A one-shot command moves the camera only after it stopped the tracking,
\* unless somebody else switched it on again meanwhile.
THEOREM OneShotMovesUntracked == BackendSpec => MovesUntracked
<1> DEFINE Moves == \A a \in Axes :
                       (Pending("shot") /\ a \in DOMAIN Request("shot").writes
                           /\ device'[a] # device[a])
                         => device["tracking"] = 0 \/ "tracking" \in disturbed
<1>1. TypeInv /\ ShotInv => [Moves]_vars
  <2>1. SUFFICES ASSUME TypeInv, ShotInv, NEW a \in Axes, Pending("shot"),
                        a \in DOMAIN Request("shot").writes, "tracking" \notin disturbed
                 PROVE  device["tracking"] = 0
    OBVIOUS
  <2> DEFINE m == work["shot"]
  <2>2. /\ m # Idle /\ m.todo # <<>> /\ shot \in GivenShots /\ shot # NoShot /\ Working("shot")
        /\ ShotPlace(shot.command, m.method)
    BY <2>1, InShot DEF Pending
  <2>3. ~m.threw /\ m.todo \in Seq(DeviceRequests)
    BY <2>2 DEF Working, Methods
  <2>4. a \in Scope(m.method) /\ Writes(m.todo) \subseteq Scope(m.method)
    <3>1. Request("shot") \in Members(m.todo)
      BY <2>2, <2>3, HeadAndTail DEF Request
    <3> QED
      BY <2>1, <2>2, <3>1 DEF Working, Sends, Writes
  <2>5. m.method = "position" /\ Writes(m.todo) \subseteq Axes
    <3>1. m.method \in {"read", "position", "zoom", "tracking"}
      BY <2>2 DEF Working, Methods
    <3> QED
      BY <2>4, <3>1, Names, Scopes
  <2>6. shot.command \in {"center", "position"}
    BY <2>2, <2>5 DEF ShotPlace
  <2>7. "tracking" \in Commanded(shot) \ (disturbed \cup Ahead(shot, m))
    BY <2>1, <2>5, <2>6, Names, CommandedControls DEF Ahead
  <2>8. device["tracking"] = Aim("shot")["tracking"]
    BY <2>1, <2>2, <2>3, <2>7 DEF ShotInv
  <2>9. Aim("shot")["tracking"] = 0
    BY <2>2, <2>6, ShotsSend DEF Aim, Bit
  <2> QED
    BY <2>8, <2>9
<1> QED
  BY <1>1, BackendPlaced, CommandsTakeHold, PTL DEF MovesUntracked

\* A one-shot command prints what it commanded, as the camera holds it, in
\* every control that nobody else changed meanwhile.
THEOREM OneShotPrintsItsCommand == BackendSpec => []PrintsItsCommand
<1>1. TypeInv /\ ShotInv => PrintsItsCommand
  <2> SUFFICES ASSUME TypeInv, ShotInv, Returned("shot", "read") PROVE PrintsItsCommand
    BY DEF PrintsItsCommand
  <2> DEFINE m == work["shot"]
  <2>1. /\ m.todo = <<>> /\ ~m.threw /\ m.method = "read" /\ shot \in GivenShots /\ shot # NoShot
        /\ Working("shot")
    BY InShot, ReturnedWorks
  <2>2. RawDevice(m.got)
    BY <2>1, ReturnedRead DEF Processes
  <2>3. Ahead(shot, m) = {}
    BY <2>1, ShortChains DEF Ahead, Writes
  <2>4. \A c \in Commanded(shot) \ disturbed : m.got[c] = ShotAim(shot)[c]
    BY <2>1, <2>2, <2>3, CommandedControls DEF ShotInv, RawDevice, Aim
  <2>5. /\ \A a \in Axes : Output.position[a] = FromRaw(m.got[a])
        /\ Output.zoom = FromRaw(m.got["zoom"]) /\ Output.tracking = (m.got["tracking"] # 0)
    BY DEF Output, StateOf
  <2>6. ASSUME shot.command \in {"center", "position"}
        PROVE  /\ \A a \in Axes \ disturbed : Output.position[a] = Held(Target(shot)[a])
               /\ Output.tracking => "tracking" \in disturbed
    <3>1. \A a \in Axes \ disturbed : m.got[a] = Raw(Target(shot)[a])
      <4>1. \A a \in Axes : ShotAim(shot)[a] = Raw(Target(shot)[a])
        BY <2>1, <2>6, ShotsSend
      <4>2. \A a \in Axes \ disturbed : m.got[a] = ShotAim(shot)[a]
        BY <2>4, <2>6, CommandedControls
      <4> QED
        BY <4>1, <4>2
    <3>2. "tracking" \notin disturbed => m.got["tracking"] = 0
      BY <2>1, <2>4, <2>6, CommandedControls, ShotsSend DEF Bit
    <3> QED
      BY <2>5, <3>1, <3>2 DEF Held
  <2>7. ASSUME shot.command = "zoom" PROVE Output.zoom = Held(shot.zoom) \/ "zoom" \in disturbed
    BY <2>1, <2>4, <2>5, <2>7, CommandedControls, ShotsSend DEF Held
  <2>8. ASSUME shot.command = "tracking"
        PROVE  Output.tracking = shot.tracking \/ "tracking" \in disturbed
    <3>1. shot.tracking \in BOOLEAN
          /\ ("tracking" \notin disturbed => m.got["tracking"] = Bit(shot.tracking))
      BY <2>1, <2>4, <2>8, CommandedControls, ShotsSend
    <3> QED
      BY <2>5, <3>1 DEF Bit
  <2> QED
    BY <2>6, <2>7, <2>8 DEF PrintsItsCommand
<1> QED
  BY <1>1, BackendPlaced, CommandsTakeHold, PTL

(***************************************************************************)
(* The invariant: the copy that serve keeps.                               *)
(***************************************************************************)

\* The raw values that a camera holds which was sent the state s.
Sent(s) == [c \in Controls |-> IF c \in Axes THEN Raw(s.position[c])
                               ELSE IF c = "zoom" THEN Raw(s.zoom) ELSE Bit(s.tracking)]

\* The copy stands for what the camera holds, where it is not stale.
CopyInv == \A c \in Controls : Field(c) \notin stale => device[c] = Sent(state)[c]

\* What a section that has not failed knows of the camera.
FreshRead ==
    /\ \A c \in fresh : c \in DOMAIN work["serve"].got /\ work["serve"].got[c] = device[c]
    /\ \A c \in DOMAIN work["serve"].got \ fresh : Field(c) \in stale
FreshWritten ==
    \A c \in Scope(work["serve"].method) \ Writes(work["serve"].todo) :
        Field(c) \in stale /\ (c \in fresh => device[c] = Aim("serve")[c])
FreshUntracked ==
    IF state.tracking
      THEN "tracking" \in stale /\ ("tracking" \in fresh => device["tracking"] = 0)
      ELSE "tracking" \notin fresh
FreshInv ==
    section # NoSection /\ ~work["serve"].threw =>
        /\ work["serve"].method = "read" => FreshRead
        /\ FreshWritten
        /\ section.call = "position" /\ work["serve"].method = "position" => FreshUntracked
        /\ section.call = "position" /\ work["serve"].method = "tracking" => state.tracking

CopyKept == CopyInv /\ FreshInv

\* A field and its controls.
LEMMA FieldNames ==
    /\ \A a \in Axes : Field(a) = "position"
    /\ Field("zoom") = "zoom" /\ Field("tracking") = "tracking"
    /\ ControlsOf("position") = Axes /\ ControlsOf("zoom") = {"zoom"}
    /\ ControlsOf("tracking") = {"tracking"}
    /\ \A c \in Controls : c \in ControlsOf(Field(c))
                           /\ Field(c) \in {"position", "zoom", "tracking"}
    /\ \A W : \A c \in W : Field(c) \in FieldsOf(W)
  BY Names DEF Field, ControlsOf, FieldsOf

\* What a state that was read stands for is what was read.
LEMMA SentIsRead ==
    ASSUME NEW raw, RawDevice(raw) PROVE \A c \in Controls : Sent(StateOf(raw))[c] = raw[c]
<1>1. /\ \A a \in Axes : StateOf(raw).position[a] = FromRaw(raw[a])
      /\ StateOf(raw).zoom = FromRaw(raw["zoom"])
      /\ StateOf(raw).tracking = (raw["tracking"] # 0)
  BY DEF StateOf
<1>2. \A c \in Controls : raw[c] \in Int /\ Raw(FromRaw(raw[c])) = raw[c]
  BY RawValuesAreInt, RawIsExact DEF RawDevice
<1>3. Bit(raw["tracking"] # 0) = raw["tracking"]
  BY Names DEF RawDevice, Bit
<1>4. ASSUME NEW a \in Axes PROVE Sent(StateOf(raw))[a] = raw[a]
  BY <1>1, <1>2, Names DEF Sent
<1>5. Sent(StateOf(raw))["zoom"] = raw["zoom"]
  BY <1>1, <1>2, Names DEF Sent
<1>6. Sent(StateOf(raw))["tracking"] = raw["tracking"]
  BY <1>1, <1>3, Names DEF Sent
<1> QED
  BY <1>4, <1>5, <1>6, Names

\* Changes that somebody else made to the controls W keep the invariant.
LEMMA CopyDisturbed ==
    ASSUME TypeInv, CopyKept, NEW W \in SUBSET Controls,
           UNCHANGED <<section, state>>, work'["serve"] = work["serve"],
           fresh' = fresh \ W, stale' = stale \cup FieldsOf(W),
           \A c \in Controls \ W : device'[c] = device[c]
    PROVE  CopyKept'
<1>1. \A c \in Controls : Field(c) \notin stale' => Field(c) \notin stale /\ device'[c] = device[c]
  BY FieldNames
<1>2. CopyInv'
  BY <1>1 DEF CopyKept, CopyInv
<1>3. Aim("serve")' = Aim("serve")
  BY DEF Aim
<1>4. fresh \subseteq Controls
  BY DEF TypeInv, Types, BackendTypeOK
<1>5. ASSUME section # NoSection, ~work["serve"].threw, work["serve"].method = "read", FreshRead
      PROVE  FreshRead'
  BY <1>4, <1>5, FieldNames DEF FreshRead
<1>6. ASSUME FreshWritten PROVE FreshWritten'
  BY <1>3, <1>4, <1>6, FieldNames DEF FreshWritten
<1>7. ASSUME FreshUntracked PROVE FreshUntracked'
  <2>1. "tracking" \in fresh' => "tracking" \in fresh /\ device'["tracking"] = device["tracking"]
    BY <1>4
  <2> QED
    BY <1>7, <2>1 DEF FreshUntracked
<1>8. FreshInv'
  BY <1>5, <1>6, <1>7 DEF CopyKept, FreshInv
<1> QED
  BY <1>2, <1>8 DEF CopyKept

\* Requests of serve.
LEMMA ServeRequestKeepsCopy ==
    ASSUME TypeInv, CopyKept, Complete("serve") \/ Interruption("serve") PROVE CopyKept'
<1>1. /\ Types /\ Working("serve") /\ "serve" \in Processes
      /\ section \in Sections /\ section # NoSection
  <2>1. work["serve"] # Idle /\ "serve" \in Processes
    BY DEF Complete, Interruption, Pending, Processes
  <2> QED
    BY <2>1 DEF TypeInv, ServePlaced
<1>2. PICK R \in SUBSET Controls, W \in SUBSET Scope(work["serve"].method) :
         /\ W = {} <=> work["serve"].method = "read"
         /\ R = {} \/ work["serve"].method = "read"
         /\ Written("serve", W) /\ Alone("serve") /\ ~work["serve"].threw
         /\ AnsweredWith("serve", R, W) \/ RefusedWith("serve", W) \/ RepeatedWith("serve", W)
  BY <1>1, RequestIs
<1>3. W \subseteq Controls /\ \A c \in Controls \ W : device'[c] = device[c]
  BY <1>2, Scopes DEF Written
<1>4. CASE RepeatedWith("serve", W)
  <2>1. /\ UNCHANGED <<section, state>> /\ work'["serve"] = work["serve"]
        /\ fresh' = (fresh \ W) \cup {} /\ stale' = stale \cup FieldsOf(W)
    BY <1>4 DEF RepeatedWith, Note, guarded
  <2> QED
    BY <1>3, <2>1, CopyDisturbed
<1>5. PICK A : /\ Note("serve", A, W)
               /\ AnsweredWith("serve", R, W) => A = R \cup W
  BY <1>2 DEF AnsweredWith, RefusedWith, RepeatedWith
<1>6. /\ UNCHANGED <<section, state>> /\ fresh' = (fresh \ W) \cup A
      /\ stale' = stale \cup FieldsOf(W)
  BY <1>5 DEF Note, guarded
<1>7. \A c \in Controls : Field(c) \notin stale' => Field(c) \notin stale /\ device'[c] = device[c]
  BY <1>3, <1>6, FieldNames
<1>8. CopyInv'
  BY <1>6, <1>7 DEF CopyKept, CopyInv
<1>9. CASE RefusedWith("serve", W)
  BY <1>8, <1>9 DEF RefusedWith, CopyKept, FreshInv
<1>10. CASE AnsweredWith("serve", R, W)
  <2>1. /\ work'["serve"].method = work["serve"].method
        /\ Writes(work["serve"].todo) = W \cup Writes(work'["serve"].todo)
        /\ DOMAIN work'["serve"].got = DOMAIN work["serve"].got \cup R
        /\ \A c \in DOMAIN work'["serve"].got :
              work'["serve"].got[c] = IF c \in R THEN device[c] ELSE work["serve"].got[c]
        /\ \A c \in W : device'[c] = Aim("serve")[c]
    BY <1>10 DEF AnsweredWith
  <2>2. fresh' = fresh \cup R \cup W /\ Aim("serve")' = Aim("serve") /\ fresh \subseteq Controls
    <3>1. A = R \cup W
      BY ONLY <1>5, <1>10
    <3>2. fresh' = fresh \cup R \cup W
      BY ONLY <1>6, <3>1
    <3>3. Aim("serve")' = Aim("serve")
      BY <1>6 DEF Aim
    <3>4. fresh \subseteq Controls
      BY <1>1 DEF Types, BackendTypeOK
    <3> QED
      BY ONLY <3>2, <3>3, <3>4
  <2>3. ASSUME work["serve"].method = "read", FreshRead PROVE FreshRead'
    <3>1. W = {} /\ \A c \in Controls : device'[c] = device[c]
      BY <1>2, <1>3, <2>3
    <3>2. stale \subseteq stale'
      BY <1>6
    <3> QED
      BY <2>1, <2>2, <2>3, <3>1, <3>2 DEF FreshRead
  <2>4. ASSUME FreshWritten PROVE FreshWritten'
    <3>1. SUFFICES ASSUME NEW c \in Scope(work["serve"].method) \ Writes(work'["serve"].todo)
                   PROVE  Field(c) \in stale' /\ (c \in fresh' => device'[c] = Aim("serve")[c])
      BY <2>1, <2>2 DEF FreshWritten
    <3>2. CASE c \in W
      BY <1>6, <2>1, <3>2, FieldNames
    <3>3. CASE c \notin W
      <4>1. Field(c) \in stale /\ (c \in fresh => device[c] = Aim("serve")[c])
        BY <2>1, <2>4, <3>1, <3>3 DEF FreshWritten
      <4>2. R = {} /\ c \in Controls
        BY <1>2, <3>1, Scopes
      <4> QED
        BY <1>3, <1>6, <2>2, <3>3, <4>1, <4>2
    <3> QED
      BY <3>2, <3>3
  <2>5. ASSUME work["serve"].method = "position", FreshUntracked PROVE FreshUntracked'
    <3>1. "tracking" \notin W /\ "tracking" \in Controls /\ R = {}
      BY <1>2, <2>5, Names, Scopes
    <3>2. device'["tracking"] = device["tracking"] /\ ("tracking" \in fresh' <=> "tracking" \in fresh)
      BY <1>3, <2>2, <3>1
    <3>3. state' = state /\ stale \subseteq stale'
      BY <1>6
    <3> QED
      BY <2>5, <3>2, <3>3 DEF FreshUntracked
  <2>6. FreshInv'
    BY <1>1, <1>2, <1>6, <2>1, <2>3, <2>4, <2>5 DEF CopyKept, FreshInv
  <2> QED
    BY <1>8, <2>6 DEF CopyKept
<1> QED
  BY <1>2, <1>4, <1>9, <1>10

\* Assigned clears a field only when all its controls are fresh.
LEMMA AssignedIs ==
    ASSUME NEW fields, Assigned(fields)
    PROVE  /\ stale' \subseteq stale
           /\ \A c \in Controls : Field(c) \notin stale'
                 => Field(c) \notin stale \/ (Field(c) \in fields /\ c \in fresh)
  BY FieldNames DEF Assigned

\* A section begins: nothing is fresh.
LEMMA LockKeepsCopy ==
    ASSUME TypeInv, CopyKept, Enter PROVE CopyKept'
<1>1. ASSUME NEW s \in Sections, NEW m, NEW name, Lock(s, m), Starts(m, name, SectionAim(s)),
             s.call = "position" => name = IF state.tracking THEN "tracking" ELSE "position"
      PROVE  CopyKept'
  <2>1. /\ section = NoSection /\ section' = s /\ work' = [work EXCEPT !["serve"] = m]
        /\ UNCHANGED <<device, state, fresh, stale>>
    BY <1>1 DEF Lock, Begin, camera
  <2>2. work'["serve"] = m /\ fresh' = {}
    BY <2>1 DEF TypeInv, Types, Processes, ServePlaced
  <2>3. /\ m.method = name /\ DOMAIN m.got = {} /\ Scope(name) \subseteq Writes(m.todo)
    BY <1>1 DEF Starts
  <2>4. CopyInv'
    BY <2>1 DEF CopyKept, CopyInv
  <2>5. FreshRead' /\ FreshWritten'
    BY <2>2, <2>3 DEF FreshRead, FreshWritten
  <2>6. s.call = "position" /\ name = "position" => FreshUntracked'
    <3>1. s.call = "position" /\ name = "position" => ~state.tracking
      BY <1>1
    <3> QED
      BY <2>1, <2>2, <3>1 DEF FreshUntracked
  <2>7. s.call = "position" /\ name = "tracking" => state'.tracking
    BY <1>1, <2>1
  <2>8. FreshInv'
    BY <2>1, <2>2, <2>3, <2>5, <2>6, <2>7 DEF FreshInv
  <2> QED
    BY <2>4, <2>8 DEF CopyKept
<1>2. ASSUME NEW v \in Velocities, RequestVelocity(v) PROVE CopyKept'
  <2>1. section = NoSection /\ UNCHANGED <<device, section, state, stale>>
    BY <1>2 DEF RequestVelocity, camera, serveHistory
  <2> QED
    BY <2>1 DEF CopyKept, CopyInv, FreshInv
<1> QED
  BY <1>1, <1>2, EnterIs

\* A section goes on to another method, or ends, with an assignment that
\* keeps the copy.
LEMMA ProceedKeepsCopy ==
    ASSUME TypeInv, CopyKept, CopyInv', NEW m, NEW name, NEW sent, Proceed(m),
           Starts(m, name, sent), name # "read",
           section.call = "position" => name = "position" /\ FreshUntracked',
           section # NoSection
    PROVE  CopyKept'
<1>1. /\ section' = section /\ work' = [work EXCEPT !["serve"] = m]
  BY DEF Proceed, Begin
<1>2. work'["serve"] = m
  BY <1>1 DEF TypeInv, Types, Processes
<1>3. m.method = name /\ Scope(name) \subseteq Writes(m.todo)
  BY DEF Starts
<1>4. FreshWritten'
  BY <1>2, <1>3 DEF FreshWritten
<1>5. FreshInv'
  BY <1>1, <1>2, <1>3, <1>4 DEF FreshInv
<1> QED
  BY <1>5 DEF CopyKept

\* The values that a section has written, when the method returned.
LEMMA ReturnedWrote ==
    ASSUME TypeInv, CopyKept, section.call # "none",
           NEW name \in {"position", "zoom", "tracking"}, Returned("serve", name)
    PROVE  /\ section # NoSection /\ ~work["serve"].threw /\ work["serve"].method = name
           /\ Scope(name) \ Writes(work["serve"].todo) = Scope(name)
           /\ \A c \in Scope(name) : /\ Field(c) \in stale
                                     /\ c \in fresh => device[c] = SectionAim(section)[c]
<1>1. Writes(<<>>) = {}
  BY ShortChains DEF Writes
<1>2. section # NoSection /\ ~work["serve"].threw /\ work["serve"].method = name
      /\ work["serve"].todo = <<>>
  BY InSection, ReturnedWorks
<1> QED
  BY <1>1, <1>2 DEF CopyKept, FreshInv, FreshWritten, Aim

\* ... section by section.
LEMMA ReturnedAims ==
    ASSUME TypeInv, CopyKept, section \in Sections
    PROVE  /\ section.call \in {"position", "pass"} /\ Returned("serve", "position") =>
                 \A a \in Axes : /\ "position" \in stale
                                 /\ a \in fresh => device[a] = Raw(section.position[a])
           /\ section.call \in {"position", "pass"} /\ Returned("serve", "tracking") =>
                 "tracking" \in stale /\ ("tracking" \in fresh => device["tracking"] = 0)
           /\ section.call = "zoom" /\ Returned("serve", "zoom") =>
                 "zoom" \in stale /\ ("zoom" \in fresh => device["zoom"] = Raw(section.zoom))
           /\ section.call = "tracking" /\ Returned("serve", "tracking") =>
                 /\ "tracking" \in stale
                 /\ "tracking" \in fresh => device["tracking"] = Bit(section.tracking)
<1>1. section.call # "none"
  BY SectionsSend
<1>2. Returned("serve", "position") =>
         \A a \in Axes : "position" \in stale /\ (a \in fresh => device[a] = SectionAim(section)[a])
  BY <1>1, ReturnedWrote, Scopes, FieldNames
<1>3. Returned("serve", "zoom") =>
         "zoom" \in stale /\ ("zoom" \in fresh => device["zoom"] = SectionAim(section)["zoom"])
  BY <1>1, ReturnedWrote, Scopes, FieldNames
<1>4. Returned("serve", "tracking") =>
         /\ "tracking" \in stale
         /\ "tracking" \in fresh => device["tracking"] = SectionAim(section)["tracking"]
  BY <1>1, ReturnedWrote, Scopes, FieldNames
<1>5. section.call \in {"position", "pass"} =>
         /\ \A a \in Axes : SectionAim(section)[a] = Raw(section.position[a])
         /\ SectionAim(section)["tracking"] = 0
  BY SectionsSend DEF Bit
<1>6. /\ section.call = "zoom" => SectionAim(section)["zoom"] = Raw(section.zoom)
      /\ section.call = "tracking" => SectionAim(section)["tracking"] = Bit(section.tracking)
  BY SectionsSend
<1> QED
  BY <1>2, <1>3, <1>4, <1>5, <1>6

\* An assignment to fields that a returned method wrote or read keeps the copy.
LEMMA AssignmentKeepsCopy ==
    ASSUME CopyInv, NEW fields, Assigned(fields), device' = device,
           \A c \in Controls : Field(c) \notin fields => Sent(state')[c] = Sent(state)[c],
           \A c \in Controls : Field(c) \in fields /\ (c \in fresh \/ Field(c) \notin stale)
                                  => device[c] = Sent(state')[c]
    PROVE  CopyInv'
<1>1. SUFFICES ASSUME NEW c \in Controls, Field(c) \notin stale'
               PROVE  device[c] = Sent(state')[c]
  BY DEF CopyInv
<1>2. Field(c) \notin stale \/ (Field(c) \in fields /\ c \in fresh)
  BY <1>1, AssignedIs
<1>3. Field(c) \notin stale => device[c] = Sent(state)[c]
  BY DEF CopyInv
<1> QED
  BY <1>2, <1>3

\* What the copy stands for after an assignment.
LEMMA SentAssigned ==
    ASSUME Types
    PROVE  /\ \A p : /\ \A a \in Axes : Sent([state EXCEPT !.position = p])[a] = Raw(p[a])
                     /\ \A c \in Controls \ Axes :
                           Sent([state EXCEPT !.position = p])[c] = Sent(state)[c]
           /\ \A p, t :
                 /\ \A a \in Axes :
                       Sent([state EXCEPT !.position = p, !.tracking = t])[a] = Raw(p[a])
                 /\ Sent([state EXCEPT !.position = p, !.tracking = t])["tracking"] = Bit(t)
                 /\ Sent([state EXCEPT !.position = p, !.tracking = t])["zoom"] = Sent(state)["zoom"]
           /\ \A z : /\ Sent([state EXCEPT !.zoom = z])["zoom"] = Raw(z)
                     /\ \A c \in Controls \ {"zoom"} :
                           Sent([state EXCEPT !.zoom = z])[c] = Sent(state)[c]
           /\ \A t : /\ Sent([state EXCEPT !.tracking = t])["tracking"] = Bit(t)
                     /\ \A c \in Controls \ {"tracking"} :
                           Sent([state EXCEPT !.tracking = t])[c] = Sent(state)[c]
<1>1. /\ \A s : \A a \in Axes : Sent(s)[a] = Raw(s.position[a])
      /\ \A s : Sent(s)["zoom"] = Raw(s.zoom) /\ Sent(s)["tracking"] = Bit(s.tracking)
  BY Names DEF Sent
<1> HIDE DEF Sent
<1>2. ASSUME NEW p
      PROVE  /\ \A a \in Axes : Sent([state EXCEPT !.position = p])[a] = Raw(p[a])
             /\ \A c \in Controls \ Axes : Sent([state EXCEPT !.position = p])[c] = Sent(state)[c]
  <2>1. PICK s : s = [state EXCEPT !.position = p]
    OBVIOUS
  <2>2. s = [position |-> p, zoom |-> state.zoom, tracking |-> state.tracking]
    BY ONLY Types, <2>1, CopyTyped
  <2>3. s.position = p /\ s.zoom = state.zoom /\ s.tracking = state.tracking
    BY ONLY <2>2
  <2>4. (\A a \in Axes : Sent(s)[a] = Raw(p[a]))
        /\ Sent(s)["zoom"] = Sent(state)["zoom"] /\ Sent(s)["tracking"] = Sent(state)["tracking"]
    BY ONLY <1>1, <2>3
  <2> QED
    BY <2>1, <2>4, Names
<1>3. ASSUME NEW p, NEW t
      PROVE  /\ \A a \in Axes : Sent([state EXCEPT !.position = p, !.tracking = t])[a] = Raw(p[a])
             /\ Sent([state EXCEPT !.position = p, !.tracking = t])["tracking"] = Bit(t)
             /\ Sent([state EXCEPT !.position = p, !.tracking = t])["zoom"] = Sent(state)["zoom"]
  <2>1. PICK s : s = [state EXCEPT !.position = p, !.tracking = t]
    OBVIOUS
  <2>2. s = [position |-> p, zoom |-> state.zoom, tracking |-> t]
    BY ONLY Types, <2>1, CopyTyped
  <2>3. s.position = p /\ s.zoom = state.zoom /\ s.tracking = t
    BY ONLY <2>2
  <2>4. (\A a \in Axes : Sent(s)[a] = Raw(p[a]))
        /\ Sent(s)["zoom"] = Sent(state)["zoom"] /\ Sent(s)["tracking"] = Bit(t)
    BY ONLY <1>1, <2>3
  <2> QED
    BY ONLY <2>1, <2>4
<1>4. ASSUME NEW z
      PROVE  /\ Sent([state EXCEPT !.zoom = z])["zoom"] = Raw(z)
             /\ \A c \in Controls \ {"zoom"} : Sent([state EXCEPT !.zoom = z])[c] = Sent(state)[c]
  <2>1. PICK s : s = [state EXCEPT !.zoom = z]
    OBVIOUS
  <2>2. s = [position |-> state.position, zoom |-> z, tracking |-> state.tracking]
    BY ONLY Types, <2>1, CopyTyped
  <2>3. s.position = state.position /\ s.zoom = z /\ s.tracking = state.tracking
    BY ONLY <2>2
  <2>4. (\A a \in Axes : Sent(s)[a] = Sent(state)[a])
        /\ Sent(s)["zoom"] = Raw(z) /\ Sent(s)["tracking"] = Sent(state)["tracking"]
    BY ONLY <1>1, <2>3
  <2> QED
    BY <2>1, <2>4, Names
<1>5. ASSUME NEW t
      PROVE  /\ Sent([state EXCEPT !.tracking = t])["tracking"] = Bit(t)
             /\ \A c \in Controls \ {"tracking"} :
                   Sent([state EXCEPT !.tracking = t])[c] = Sent(state)[c]
  <2>1. PICK s : s = [state EXCEPT !.tracking = t]
    OBVIOUS
  <2>2. s = [position |-> state.position, zoom |-> state.zoom, tracking |-> t]
    BY ONLY Types, <2>1, CopyTyped
  <2>3. s.position = state.position /\ s.zoom = state.zoom /\ s.tracking = t
    BY ONLY <2>2
  <2>4. (\A a \in Axes : Sent(s)[a] = Sent(state)[a])
        /\ Sent(s)["zoom"] = Sent(state)["zoom"] /\ Sent(s)["tracking"] = Bit(t)
    BY ONLY <1>1, <2>3
  <2> QED
    BY <2>1, <2>4, Names
<1> QED
  BY ONLY <1>2, <1>3, <1>4, <1>5

\* A read that returned renews the whole copy.
LEMMA ReadRenewsCopy ==
    ASSUME TypeInv, CopyKept, section.call # "none", Returned("serve", "read"),
           state' = StateOf(work["serve"].got), Assigned({"position", "zoom", "tracking"}),
           device' = device
    PROVE  CopyInv'
<1>1. /\ section # NoSection /\ ~work["serve"].threw /\ work["serve"].method = "read"
      /\ Working("serve")
  BY InSection, ReturnedWorks
<1>2. RawDevice(work["serve"].got) /\ DOMAIN work["serve"].got = Controls
  BY <1>1, ReturnedRead DEF Processes, RawDevice
<1>3. FreshRead
  BY <1>1 DEF CopyKept, FreshInv
<1>4. \A c \in Controls : Sent(state')[c] = work["serve"].got[c]
  BY <1>2, SentIsRead
<1>5. \A c \in Controls : c \in fresh \/ Field(c) \notin stale => work["serve"].got[c] = device[c]
  BY <1>2, <1>3 DEF FreshRead
<1>6. \A c \in Controls : Field(c) \in {"position", "zoom", "tracking"}
  BY FieldNames
<1> QED
  BY <1>4, <1>5, <1>6, AssignmentKeepsCopy DEF CopyKept

\* The steps of a section keep the copy.
LEMMA ContinueKeepsCopy ==
    ASSUME TypeInv, CopyKept, Continue PROVE CopyKept'
<1>0. Types /\ CopyInv
  BY DEF TypeInv, CopyKept
<1>1. ASSUME Leave, CopyInv' PROVE CopyKept'
  BY <1>1 DEF Leave, CopyKept, FreshInv
<1>2. CASE StatusRead
  <2>1. CopyInv'
    BY <1>2, ReadRenewsCopy DEF StatusRead, Leave, camera
  <2> QED
    BY <1>1, <1>2, <2>1 DEF StatusRead
<1>3. CASE PassRead
  <2>1. CopyInv'
    BY <1>3, ReadRenewsCopy DEF PassRead, Proceed, camera
  <2>2. section.call = "pass" /\ section \in Sections /\ section # NoSection
        /\ platform \in {"linux", "macos"}
    BY <1>3, InSection DEF PassRead
  <2>3. Proceed(IF state'.tracking THEN SetTracking(FALSE) ELSE SetPosition(section.position))
    BY <1>3 DEF PassRead
  <2>4. /\ Starts(SetTracking(FALSE), "tracking", SectionAim(section))
        /\ Starts(SetPosition(section.position), "position", SectionAim(section))
    BY <2>2, SectionsStart
  <2>5. CASE state'.tracking
    <3>1. Proceed(SetTracking(FALSE))
      BY <2>3, <2>5
    <3> QED
      BY <2>1, <2>2, <2>4, <3>1, ProceedKeepsCopy
  <2>6. CASE ~state'.tracking
    <3>1. Proceed(SetPosition(section.position))
      BY <2>3, <2>6
    <3> QED
      BY <2>1, <2>2, <2>4, <3>1, ProceedKeepsCopy
  <2> QED
    BY <2>5, <2>6
<1>4. CASE PassUntracked
  <2>1. /\ section.call = "pass" /\ Returned("serve", "tracking")
        /\ state' = [state EXCEPT !.tracking = FALSE] /\ Assigned({"tracking"})
        /\ device' = device /\ Proceed(SetPosition(section.position))
    BY <1>4 DEF PassUntracked, Proceed, camera
  <2>2. section \in Sections /\ section # NoSection /\ platform \in {"linux", "macos"}
    BY <2>1, InSection
  <2>3. Sent(state')["tracking"] = Bit(FALSE)
        /\ \A c \in Controls \ {"tracking"} : Sent(state')[c] = Sent(state)[c]
    BY <1>0, <2>1, SentAssigned
  <2>4. "tracking" \in stale /\ ("tracking" \in fresh => device["tracking"] = Bit(FALSE))
    BY <2>1, <2>2, ReturnedAims DEF Bit
  <2>5. CopyInv'
    <3>1. \A c \in Controls : Field(c) = "tracking" <=> c = "tracking"
      BY FieldNames, Names
    <3>2. \A c \in Controls : Field(c) \notin {"tracking"} => Sent(state')[c] = Sent(state)[c]
      BY <2>3, <3>1
    <3>3. \A c \in Controls : Field(c) \in {"tracking"} /\ (c \in fresh \/ Field(c) \notin stale)
                               => device[c] = Sent(state')[c]
      BY <2>3, <2>4, <3>1
    <3> QED
      BY <1>0, <2>1, <3>2, <3>3, AssignmentKeepsCopy
  <2>6. Starts(SetPosition(section.position), "position", SectionAim(section))
    BY <2>1, <2>2, SectionsStart
  <2> QED
    BY <2>1, <2>2, <2>5, <2>6, ProceedKeepsCopy
<1>5. CASE PassMoved
  <2>1. /\ section.call = "pass" /\ Returned("serve", "position")
        /\ state' = [state EXCEPT !.position = section.position] /\ Assigned({"position"})
        /\ device' = device /\ Leave
    BY <1>5 DEF PassMoved, Leave, camera
  <2>2. section \in Sections
    BY <2>1, InSection
  <2>3. /\ \A a \in Axes : Sent(state')[a] = Raw(section.position[a])
        /\ \A c \in Controls \ Axes : Sent(state')[c] = Sent(state)[c]
    BY <1>0, <2>1, SentAssigned
  <2>4. \A a \in Axes : "position" \in stale /\ (a \in fresh => device[a] = Raw(section.position[a]))
    BY <2>1, <2>2, ReturnedAims
  <2>5. CopyInv'
    <3>1. \A c \in Controls : Field(c) = "position" <=> c \in Axes
      BY FieldNames, Names
    <3>2. \A c \in Controls : Field(c) \notin {"position"} => Sent(state')[c] = Sent(state)[c]
      BY <2>3, <3>1
    <3>3. \A c \in Controls : Field(c) \in {"position"} /\ (c \in fresh \/ Field(c) \notin stale)
                               => device[c] = Sent(state')[c]
      BY <2>3, <2>4, <3>1
    <3> QED
      BY <1>0, <2>1, <3>2, <3>3, AssignmentKeepsCopy
  <2> QED
    BY <1>1, <2>1, <2>5
<1>6. CASE PositionUntracked
  <2>1. /\ section.call = "position" /\ Returned("serve", "tracking")
        /\ UNCHANGED <<state, stale, device, fresh>> /\ Proceed(SetPosition(section.position))
    BY <1>6 DEF PositionUntracked, Proceed, camera, guarded
  <2>2. section \in Sections /\ section # NoSection /\ platform \in {"linux", "macos"}
    BY <2>1, InSection
  <2>3. "tracking" \in stale /\ ("tracking" \in fresh => device["tracking"] = 0)
    BY <2>1, <2>2, ReturnedAims
  <2>4. state.tracking
    BY <2>1, <2>2, ReturnedWrote DEF CopyKept, FreshInv
  <2>5. FreshUntracked'
    BY <2>1, <2>3, <2>4 DEF FreshUntracked
  <2>6. CopyInv'
    BY <1>0, <2>1 DEF CopyInv
  <2>7. Starts(SetPosition(section.position), "position", SectionAim(section))
    BY <2>1, <2>2, SectionsStart
  <2> QED
    BY <2>1, <2>2, <2>5, <2>6, <2>7, ProceedKeepsCopy
<1>7. CASE PositionMoved
  <2>1. /\ section.call = "position" /\ Returned("serve", "position")
        /\ state' = [state EXCEPT !.position = section.position, !.tracking = FALSE]
        /\ Assigned({"position", "tracking"})
        /\ device' = device /\ Leave
    BY <1>7 DEF PositionMoved, Leave, camera
  <2>2. section \in Sections
    BY <2>1, InSection
  <2>3. /\ \A a \in Axes : Sent(state')[a] = Raw(section.position[a])
        /\ Sent(state')["tracking"] = Bit(FALSE) /\ Sent(state')["zoom"] = Sent(state)["zoom"]
    <3>1. PICK off : off = FALSE
      OBVIOUS
    <3>2. state' = [state EXCEPT !.position = section.position, !.tracking = off]
      BY <2>1, <3>1
    <3>3. /\ \A a \in Axes : Sent([state EXCEPT !.position = section.position, !.tracking = off])[a]
                              = Raw(section.position[a])
          /\ Sent([state EXCEPT !.position = section.position, !.tracking = off])["tracking"] = Bit(off)
          /\ Sent([state EXCEPT !.position = section.position, !.tracking = off])["zoom"]
                = Sent(state)["zoom"]
      BY ONLY <1>0, SentAssigned
    <3> QED
      BY ONLY <3>1, <3>2, <3>3
  <2>4. \A a \in Axes : "position" \in stale /\ (a \in fresh => device[a] = Raw(section.position[a]))
    BY <2>1, <2>2, ReturnedAims
  <2>5. "tracking" \in fresh \/ "tracking" \notin stale => device["tracking"] = Bit(FALSE)
    <3>1. FreshUntracked
      BY <2>1, ReturnedWrote DEF CopyKept, FreshInv
    <3>2. CASE state.tracking
      BY <3>1, <3>2 DEF FreshUntracked, Bit
    <3>3. CASE ~state.tracking
      <4>1. "tracking" \notin fresh
        BY <3>1, <3>3 DEF FreshUntracked
      <4>2. "tracking" \notin stale => device["tracking"] = Bit(state.tracking)
        BY <1>0, Names, FieldNames DEF CopyInv, Sent
      <4> QED
        BY <3>3, <4>1, <4>2 DEF Bit
    <3> QED
      BY <3>2, <3>3
  <2>6. CopyInv'
    <3>1. \A c \in Controls : Field(c) \notin {"position", "tracking"} => c = "zoom"
      BY FieldNames, Names
    <3>2. \A c \in Controls : Field(c) \in {"position", "tracking"} => c \in Axes \/ c = "tracking"
      BY FieldNames, Names
    <3>3. \A c \in Controls :
             Field(c) \notin {"position", "tracking"} => Sent(state')[c] = Sent(state)[c]
      BY <2>3, <3>1
    <3>4. \A c \in Controls :
             Field(c) \in {"position", "tracking"} /\ (c \in fresh \/ Field(c) \notin stale)
                => device[c] = Sent(state')[c]
      <4>1. \A a \in Axes : a \in fresh \/ Field(a) \notin stale => device[a] = Sent(state')[a]
        BY <2>3, <2>4, FieldNames
      <4>2. "tracking" \in fresh \/ Field("tracking") \notin stale
               => device["tracking"] = Sent(state')["tracking"]
        BY <2>3, <2>5, FieldNames
      <4> QED
        BY ONLY <3>2, <4>1, <4>2
    <3> QED
      BY <1>0, <2>1, <3>3, <3>4, AssignmentKeepsCopy
  <2> QED
    BY <1>1, <2>1, <2>6
<1>8. CASE Zoomed
  <2>1. /\ section.call = "zoom" /\ Returned("serve", "zoom")
        /\ state' = [state EXCEPT !.zoom = section.zoom] /\ Assigned({"zoom"})
        /\ device' = device /\ Leave
    BY <1>8 DEF Zoomed, Leave, camera
  <2>2. section \in Sections
    BY <2>1, InSection
  <2>3. /\ Sent(state')["zoom"] = Raw(section.zoom)
        /\ \A c \in Controls \ {"zoom"} : Sent(state')[c] = Sent(state)[c]
    BY <1>0, <2>1, SentAssigned
  <2>4. "zoom" \in stale /\ ("zoom" \in fresh => device["zoom"] = Raw(section.zoom))
    BY <2>1, <2>2, ReturnedAims
  <2>5. CopyInv'
    BY <1>0, <2>1, <2>3, <2>4, Names, FieldNames, AssignmentKeepsCopy
  <2> QED
    BY <1>1, <2>1, <2>5
<1>9. CASE TrackingSet
  <2>1. /\ section.call = "tracking" /\ Returned("serve", "tracking")
        /\ state' = [state EXCEPT !.tracking = section.tracking] /\ Assigned({"tracking"})
        /\ device' = device /\ Leave
    BY <1>9 DEF TrackingSet, Leave, camera
  <2>2. section \in Sections
    BY <2>1, InSection
  <2>3. /\ Sent(state')["tracking"] = Bit(section.tracking)
        /\ \A c \in Controls \ {"tracking"} : Sent(state')[c] = Sent(state)[c]
    BY <1>0, <2>1, SentAssigned
  <2>4. "tracking" \in stale /\ ("tracking" \in fresh => device["tracking"] = Bit(section.tracking))
    BY <2>1, <2>2, ReturnedAims
  <2>5. CopyInv'
    BY <1>0, <2>1, <2>3, <2>4, Names, FieldNames, AssignmentKeepsCopy
  <2> QED
    BY <1>1, <2>1, <2>5
<1>10. CASE SectionThrows
  <2>1. CopyInv' /\ Leave
    BY <1>0, <1>10 DEF SectionThrows, Leave, camera, CopyInv
  <2> QED
    BY <1>1, <2>1
<1> QED
  BY <1>2, <1>3, <1>4, <1>5, <1>6, <1>7, <1>8, <1>9, <1>10 DEF Continue

\* Every step keeps the invariant of the copy.
LEMMA StepKeepsCopy ==
    ASSUME TypeInv, CopyKept, [BackendNext]_vars PROVE CopyKept'
<1>1. CASE Complete("serve") \/ Interruption("serve")
  BY <1>1, ServeRequestKeepsCopy
<1>2. CASE Complete("shot") \/ Interruption("shot")
  <2>1. Types /\ Working("shot") /\ "shot" \in Processes
    <3>1. work["shot"] # Idle /\ "shot" \in Processes
      BY <1>2 DEF Complete, Interruption, Pending, Processes
    <3> QED
      BY <3>1, InShot DEF TypeInv
  <2>2. PICK R \in SUBSET Controls, W \in SUBSET Scope(work["shot"].method) :
           /\ Written("shot", W) /\ Alone("shot")
           /\ AnsweredWith("shot", R, W) \/ RefusedWith("shot", W) \/ RepeatedWith("shot", W)
    BY <1>2, <2>1, RequestIs
  <2>3. PICK A : Note("shot", A, W)
    BY <2>2 DEF AnsweredWith, RefusedWith, RepeatedWith
  <2>4. UNCHANGED <<section, state>> /\ fresh' = fresh \ W /\ stale' = stale \cup FieldsOf(W)
    BY <2>3 DEF Note, guarded
  <2>5. W \in SUBSET Controls /\ (\A c \in Controls \ W : device'[c] = device[c])
        /\ work'["serve"] = work["serve"]
    BY <2>2, Scopes DEF Written, Alone, Processes
  <2> QED
    BY <2>4, <2>5, CopyDisturbed
<1>3. CASE Enter
  BY <1>3, LockKeepsCopy
<1>4. CASE Continue
  BY <1>4, ContinueKeepsCopy
<1>5. ASSUME UNCHANGED <<section, state, device, fresh, stale>>, work'["serve"] = work["serve"]
      PROVE  CopyKept'
  <2>1. FieldsOf({}) = {} /\ {} \in SUBSET Controls
    BY DEF FieldsOf
  <2> QED
    BY <1>5, <2>1, CopyDisturbed
<1>6. CASE OneShot
  <2>1. UNCHANGED <<camera, serving>> /\ (\E m : Begin("shot", m))
    BY <1>6 DEF OneShot, ShotStart, ShotUntracked, ShotWritten, ShotPrints, ShotThrows, ShotEnds, End
  <2>2. work'["serve"] = work["serve"]
    BY <2>1 DEF Begin, TypeInv, Types, Processes
  <2> QED
    BY <1>5, <2>1, <2>2 DEF camera, serving, guarded, serveHistory
<1>7. CASE World
  <2>1. ASSUME NEW values, CameraChanges(values), DOMAIN values \subseteq Controls PROVE CopyKept'
    <3>1. /\ UNCHANGED <<section, state, work>> /\ fresh' = fresh \ DOMAIN values
          /\ stale' = stale \cup FieldsOf(DOMAIN values)
          /\ \A c \in Controls \ DOMAIN values : device'[c] = device[c]
      BY <2>1 DEF CameraChanges, Overwrite, guarded
    <3> QED
      BY <2>1, <3>1, CopyDisturbed
  <2>2. CASE Unplugged
    BY <1>5, <2>2 DEF Unplugged, serving, guarded, serveHistory
  <2> QED
    BY <1>7, <2>1, <2>2, WorldIs DEF TypeInv
<1>8. CASE UNCHANGED vars
  BY <1>5, <1>8 DEF vars, camera, serving, guarded, serveHistory
<1> QED
  BY <1>1, <1>2, <1>3, <1>4, <1>6, <1>7, <1>8 DEF BackendNext, Processes

\* The invariant of the copy.
THEOREM CopyStandsForTheCamera == BackendSpec => []CopyKept
<1>1. BackendInit => CopyKept
  <2> SUFFICES ASSUME BackendInit PROVE CopyKept
    OBVIOUS
  <2>1. TypeInv /\ state = StateOf(device) /\ section = NoSection
    BY InitTypes DEF BackendInit
  <2>2. RawDevice(device)
    BY <2>1, DeviceLegal DEF TypeInv
  <2> QED
    BY <2>1, <2>2, SentIsRead DEF CopyKept, CopyInv, FreshInv
<1>2. TypeInv /\ CopyKept /\ [BackendNext]_vars => CopyKept'
  BY StepKeepsCopy
<1> QED
  BY <1>1, <1>2, BackendPlaced, PTL DEF BackendSpec

\* The copy that serve keeps agrees with the camera, to half a raw unit, in
\* every field that nobody else touched, and no request failed on, since it
\* was last read or written as a whole.
THEOREM CopyStaysWithinHalfUnit == BackendSpec => []CopyWithinHalfUnit
<1>1. TypeInv /\ CopyKept => CopyWithinHalfUnit
  <2> SUFFICES ASSUME TypeInv, CopyKept PROVE CopyWithinHalfUnit
    OBVIOUS
  <2>1. ASSUME "position" \notin stale, NEW a \in Axes
        PROVE  2 * Abs(state.position[a] - FromRaw(device[a])) <= Scale
    <3>1. device[a] = Raw(state.position[a]) /\ state.position[a] \in Int
      BY <2>1, Names, FieldNames DEF CopyKept, CopyInv, Sent, TypeInv, Types
    <3> QED
      BY <3>1, RoundsToNearest DEF Held
  <2>2. ASSUME "zoom" \notin stale PROVE 2 * Abs(state.zoom - FromRaw(device["zoom"])) <= Scale
    <3>1. device["zoom"] = Raw(state.zoom) /\ state.zoom \in Zooms
      BY <2>2, Names, FieldNames DEF CopyKept, CopyInv, Sent, TypeInv, Types, BackendTypeOK
    <3>2. state.zoom \in Int
      <4>1. PICK z \in Zooms : z = state.zoom
        BY <3>1
      <4>2. z \in Int
        BY RangesAssumption
      <4> QED
        BY ONLY <4>1, <4>2
    <3> QED
      BY <3>1, <3>2, RoundsToNearest DEF Held
  <2>3. ASSUME "tracking" \notin stale PROVE state.tracking = (device["tracking"] # 0)
    <3>1. device["tracking"] = Bit(state.tracking) /\ state.tracking \in BOOLEAN
      BY <2>3, Names, FieldNames DEF CopyKept, CopyInv, Sent, TypeInv, Types, BackendTypeOK
    <3> QED
      BY <3>1 DEF Bit
  <2> QED
    BY <2>1, <2>2, <2>3 DEF CopyWithinHalfUnit
<1> QED
  BY <1>1, BackendPlaced, CopyStandsForTheCamera, PTL

(***************************************************************************)
(* The invariant: critical sections.                                       *)
(***************************************************************************)

\* The raw values of the camera and of the copy when the section began.
Found == Sent(before.camera)
Known == Sent(before.state)
Untracked(raw) == [c \in Controls |-> IF c = "tracking" THEN 0 ELSE raw[c]]

Snapshot ==
    /\ before = [camera |-> StateOf(Found), state |-> StateOf(Known), velocity |-> before.velocity,
                 backgroundError |-> before.backgroundError, stale |-> before.stale]
    /\ RawDevice(Found) /\ RawDevice(Known)
    /\ backgroundError = before.backgroundError
    /\ velocity = IF section.call \in {"position", "tracking"} THEN Stopped ELSE before.velocity
    /\ section.call = "pass" => IsMoving(before.velocity)

\* The method began with raw values D in the camera, a copy that stands for K,
\* and stale fields O, and has done no more than part of what it does.
Since(D, K, O) ==
    /\ Sent(state) = K
    /\ \A c \in Controls : \/ device[c] = D[c]
                           \/ c \in Scope(work["serve"].method) /\ device[c] = Aim("serve")[c]
    /\ O \subseteq stale /\ stale \subseteq O \cup FieldsOf(Scope(work["serve"].method))
    /\ work["serve"].threw /\ work["serve"].method # "read"
          => stale = O \cup FieldsOf(Scope(work["serve"].method))

\* The four stages of the sections: the first method; a position after
\* tracking was switched off; and, in a pass that read the state, tracking
\* being switched off and the position.
FirstMethodRuns ==
    /\ ~(section.call = "pass" /\ work["serve"].method = "tracking")
    /\ section.call = "position" => (Known["tracking"] # 0 <=> work["serve"].method = "tracking")
    /\ Since(Found, Known, before.stale)
PositionFollows ==
    /\ section.call = "position" /\ work["serve"].method = "position"
    /\ Known["tracking"] # 0
    /\ ~work["serve"].threw => "tracking" \in fresh
    /\ Since(Untracked(Found), Known, before.stale \cup {"tracking"})
PassUntracks ==
    /\ section.call = "pass" /\ work["serve"].method = "tracking"
    /\ Found["tracking"] # 0
    /\ Since(Found, Found, {})
PassDrives ==
    /\ section.call = "pass" /\ work["serve"].method = "position"
    /\ Since(Untracked(Found), Untracked(Found), {})

\* What the method read or wrote, nobody has changed since.
Owned ==
    ~work["serve"].threw =>
        /\ Scope(work["serve"].method) \ Writes(work["serve"].todo) \subseteq fresh
        /\ work["serve"].method = "read" => DOMAIN work["serve"].got \subseteq fresh

SectionInv ==
    section # NoSection /\ ~interfered =>
        /\ Snapshot /\ Owned
        /\ FirstMethodRuns \/ PositionFollows \/ PassUntracks \/ PassDrives

\* The snapshot and the stages do not depend on a variable that steps of
\* others leave alone.
LEMMA SectionKept ==
    ASSUME SectionInv, UNCHANGED <<section, state, velocity, backgroundError, before>>,
           UNCHANGED <<device, fresh, stale, interfered>>, work'["serve"] = work["serve"]
    PROVE  SectionInv'
<1>1. Aim("serve")' = Aim("serve")
  BY DEF Aim
<1>2. Found' = Found /\ Known' = Known
  BY DEF Found, Known
<1>3. Snapshot => Snapshot'
  BY <1>2 DEF Snapshot
<1>4. ASSUME NEW D, NEW K, NEW O PROVE Since(D, K, O) => Since(D, K, O)'
  BY <1>1 DEF Since
<1>5. PICK found, known, old : found = Found /\ known = Known /\ old = before.stale
  OBVIOUS
<1>6. FirstMethodRuns => FirstMethodRuns'
  <2>1. Since(found, known, old) => Since(found, known, old)'
    BY <1>4
  <2> QED
    BY <1>2, <1>5, <2>1 DEF FirstMethodRuns
<1>7. PositionFollows => PositionFollows'
  <2>1. Since(Untracked(found), known, old \cup {"tracking"})
           => Since(Untracked(found), known, old \cup {"tracking"})'
    BY <1>4
  <2> QED
    BY <1>2, <1>5, <2>1 DEF PositionFollows
<1>8. PassUntracks => PassUntracks'
  <2>1. Since(found, found, {}) => Since(found, found, {})'
    BY <1>4
  <2> QED
    BY <1>2, <1>5, <2>1 DEF PassUntracks
<1>9. PassDrives => PassDrives'
  <2>1. Since(Untracked(found), Untracked(found), {})
           => Since(Untracked(found), Untracked(found), {})'
    BY <1>4
  <2> QED
    BY <1>2, <1>5, <2>1 DEF PassDrives
<1>10. Owned => Owned'
  BY DEF Owned
<1> QED
  BY <1>3, <1>6, <1>7, <1>8, <1>9, <1>10 DEF SectionInv

\* The controls of one method make up one field.
LEMMA ScopeIsOneField ==
    ASSUME NEW name \in {"position", "zoom", "tracking"}, NEW W \in SUBSET Scope(name), W # {}
    PROVE  FieldsOf(W) = {name} /\ FieldsOf(Scope(name)) = {name}
<1>1. \A c \in Scope(name) : Field(c) = name
  BY FieldNames, Scopes
<1> QED
  BY <1>1 DEF FieldsOf

\* A request of serve does part of what its method does.
LEMMA RequestKeepsSince ==
    ASSUME TypeInv, Complete("serve") \/ Interruption("serve"), NEW D, NEW K, NEW O,
           Since(D, K, O), Owned
    PROVE  /\ Since(D, K, O)' /\ Owned'
           /\ UNCHANGED <<section, state, velocity, backgroundError, before, interfered>>
           /\ work'["serve"].method = work["serve"].method
           /\ ~work["serve"].threw
           /\ work["serve"].method = "position" => ("tracking" \in fresh => "tracking" \in fresh')
<1>1. Types /\ Working("serve") /\ "serve" \in Processes /\ section # NoSection
  <2>1. work["serve"] # Idle /\ "serve" \in Processes
    BY DEF Complete, Interruption, Pending, Processes
  <2> QED
    BY <2>1 DEF TypeInv, ServePlaced
<1> DEFINE m == work["serve"].method
<1>2. PICK R \in SUBSET Controls, W \in SUBSET Scope(m) :
         /\ W = {} <=> m = "read"
         /\ Written("serve", W) /\ ~work["serve"].threw
         /\ AnsweredWith("serve", R, W) \/ RefusedWith("serve", W) \/ RepeatedWith("serve", W)
  BY <1>1, RequestIs
<1>3. PICK A : /\ Note("serve", A, W)
               /\ AnsweredWith("serve", R, W) => A = R \cup W
  BY <1>2 DEF AnsweredWith, RefusedWith, RepeatedWith
<1>4. /\ UNCHANGED <<section, state, velocity, backgroundError, before, interfered>>
      /\ fresh' = (fresh \ W) \cup A /\ stale' = stale \cup FieldsOf(W)
  BY <1>3 DEF Note, guarded
<1>5. Aim("serve")' = Aim("serve") /\ work'["serve"].method = m
  BY <1>2, <1>4 DEF Aim, AnsweredWith, RefusedWith, RepeatedWith
<1>6. m \in {"read", "position", "zoom", "tracking"}
  BY <1>1 DEF Working, Methods
<1>7. FieldsOf(W) \subseteq FieldsOf(Scope(m)) /\ (m # "read" => FieldsOf(W) = FieldsOf(Scope(m)))
  <2>1. FieldsOf(W) \subseteq FieldsOf(Scope(m))
    BY <1>2 DEF FieldsOf
  <2>2. m # "read" => FieldsOf(W) = FieldsOf(Scope(m))
    BY <1>2, <1>6, ScopeIsOneField
  <2> QED
    BY <2>1, <2>2
<1>8. Since(D, K, O)'
  <2>1. Sent(state)' = K
    BY <1>4 DEF Since
  <2>2. \A c \in Controls : \/ device'[c] = D[c]
                            \/ c \in Scope(m) /\ device'[c] = Aim("serve")[c]
    BY <1>2 DEF Since, Written
  <2>3. O \subseteq stale' /\ stale' \subseteq O \cup FieldsOf(Scope(m))
    BY <1>4, <1>7 DEF Since
  <2>4. m # "read" => stale' = O \cup FieldsOf(Scope(m))
    BY <1>4, <1>7, <2>3 DEF Since
  <2> QED
    BY <1>5, <2>1, <2>2, <2>3, <2>4 DEF Since
<1>9. Owned'
  <2>1. CASE AnsweredWith("serve", R, W)
    <3>1. /\ Writes(work["serve"].todo) = W \cup Writes(work'["serve"].todo)
          /\ DOMAIN work'["serve"].got = DOMAIN work["serve"].got \cup R
          /\ fresh' = (fresh \ W) \cup R \cup W
      BY <1>3, <1>4, <2>1 DEF AnsweredWith
    <3> QED
      BY <1>2, <1>5, <3>1 DEF Owned
  <2>2. CASE RefusedWith("serve", W)
    BY <2>2 DEF Owned, RefusedWith
  <2>3. CASE RepeatedWith("serve", W)
    <3>1. work'["serve"] = work["serve"] /\ W \subseteq Writes(work["serve"].todo)
      BY <2>3 DEF RepeatedWith
    <3> QED
      BY <1>2, <1>4, <3>1 DEF Owned
  <2> QED
    BY <1>2, <2>1, <2>2, <2>3
<1>10. m = "position" => ("tracking" \in fresh => "tracking" \in fresh')
  <2>1. m = "position" => "tracking" \notin W
    BY <1>2, Names, Scopes
  <2> QED
    BY <1>4, <2>1
<1> QED
  BY <1>2, <1>4, <1>5, <1>8, <1>9, <1>10

\* Requests of serve keep the invariant of the sections.
LEMMA ServeRequestKeepsSection ==
    ASSUME TypeInv, SectionInv, Complete("serve") \/ Interruption("serve") PROVE SectionInv'
<1>1. PICK found, known, old : found = Found /\ known = Known /\ old = before.stale
  OBVIOUS
<1>2. SUFFICES ASSUME section # NoSection, ~interfered
               PROVE  SectionInv'
  <2>1. UNCHANGED <<section, interfered>>
    <3>1. Types /\ Working("serve") /\ "serve" \in Processes
      <4>1. work["serve"] # Idle /\ "serve" \in Processes
        BY DEF Complete, Interruption, Pending, Processes
      <4> QED
        BY <4>1, WorkingOrIdle DEF TypeInv
    <3>2. \E A, W : Note("serve", A, W)
      BY <3>1, RequestIs DEF AnsweredWith, RefusedWith, RepeatedWith
    <3> QED
      BY <3>2 DEF Note
  <2> QED
    BY <2>1 DEF SectionInv
<1>3. Snapshot /\ Owned /\ (FirstMethodRuns \/ PositionFollows \/ PassUntracks \/ PassDrives)
  BY <1>2 DEF SectionInv
<1>4. ASSUME NEW D, NEW K, NEW O, Since(D, K, O)
      PROVE  /\ Since(D, K, O)' /\ Owned'
             /\ UNCHANGED <<section, state, velocity, backgroundError, before, interfered>>
             /\ work'["serve"].method = work["serve"].method
             /\ ~work["serve"].threw
             /\ work["serve"].method = "position" => ("tracking" \in fresh => "tracking" \in fresh')
  BY <1>3, <1>4, RequestKeepsSince
<1>5. /\ before' = before => Found' = found /\ Known' = known /\ before'.stale = old
      /\ UNCHANGED <<section, velocity, backgroundError, before>> => Snapshot'
  BY <1>1, <1>3 DEF Snapshot, Found, Known
<1>6. CASE FirstMethodRuns
  <2>1. Since(found, known, old)
    BY <1>1, <1>6 DEF FirstMethodRuns
  <2>2. /\ Since(found, known, old)' /\ Owned' /\ Snapshot'
        /\ UNCHANGED <<section, before>> /\ work'["serve"].method = work["serve"].method
    BY <1>4, <1>5, <2>1
  <2>3. FirstMethodRuns'
    BY <1>1, <1>5, <1>6, <2>2 DEF FirstMethodRuns
  <2> QED
    BY <2>2, <2>3 DEF SectionInv
<1>7. CASE PositionFollows
  <2>1. Since(Untracked(found), known, old \cup {"tracking"})
    BY <1>1, <1>7 DEF PositionFollows
  <2>2. /\ Since(Untracked(found), known, old \cup {"tracking"})' /\ Owned' /\ Snapshot'
        /\ UNCHANGED <<section, before>> /\ work'["serve"].method = work["serve"].method
        /\ ~work["serve"].threw
        /\ work["serve"].method = "position" => ("tracking" \in fresh => "tracking" \in fresh')
    BY <1>4, <1>5, <2>1
  <2>3. PositionFollows'
    BY <1>1, <1>5, <1>7, <2>2 DEF PositionFollows
  <2> QED
    BY <2>2, <2>3 DEF SectionInv
<1>8. CASE PassUntracks
  <2>1. Since(found, found, {})
    BY <1>1, <1>8 DEF PassUntracks
  <2>2. /\ Since(found, found, {})' /\ Owned' /\ Snapshot'
        /\ UNCHANGED <<section, before>> /\ work'["serve"].method = work["serve"].method
    BY <1>4, <1>5, <2>1
  <2>3. PassUntracks'
    BY <1>1, <1>5, <1>8, <2>2 DEF PassUntracks
  <2> QED
    BY <2>2, <2>3 DEF SectionInv
<1>9. CASE PassDrives
  <2>1. Since(Untracked(found), Untracked(found), {})
    BY <1>1, <1>9 DEF PassDrives
  <2>2. /\ Since(Untracked(found), Untracked(found), {})' /\ Owned' /\ Snapshot'
        /\ UNCHANGED <<section, before>> /\ work'["serve"].method = work["serve"].method
    BY <1>4, <1>5, <2>1
  <2>3. PassDrives'
    BY <1>1, <1>5, <1>9, <2>2 DEF PassDrives
  <2> QED
    BY <2>2, <2>3 DEF SectionInv
<1> QED
  BY <1>3, <1>6, <1>7, <1>8, <1>9

\* A change by somebody else is an interference.
LEMMA OthersInterfere ==
    ASSUME TypeInv, SectionInv, World \/ Complete("shot") \/ Interruption("shot") PROVE SectionInv'
<1>1. ASSUME NEW W \in SUBSET Controls, fresh' = fresh \ W, stale' = stale \cup FieldsOf(W),
             \A c \in Controls \ W : device'[c] = device[c],
             device' = [c \in Controls |-> device'[c]],
             interfered' = Interfering(W), work'["serve"] = work["serve"],
             UNCHANGED <<section, state, velocity, backgroundError, before>>
      PROVE  SectionInv'
  <2>1. CASE W = {}
    <3>1. FieldsOf(W) = {}
      BY <2>1 DEF FieldsOf
    <3>2. device' = device
      BY <1>1, <2>1 DEF TypeInv, Types
    <3>3. interfered' = interfered
      BY <1>1, <2>1 DEF Interfering, TypeInv, Types, BackendTypeOK
    <3> QED
      BY <1>1, <2>1, <3>1, <3>2, <3>3, SectionKept
  <2>2. CASE W # {}
    BY <1>1, <2>2 DEF Interfering, SectionInv
  <2> QED
    BY <2>1, <2>2
<1>2. CASE World
  <2>1. ASSUME NEW values, CameraChanges(values), DOMAIN values \subseteq Controls
        PROVE  SectionInv'
    <3>1. /\ UNCHANGED <<section, state, velocity, backgroundError, before, work>>
          /\ fresh' = fresh \ DOMAIN values /\ stale' = stale \cup FieldsOf(DOMAIN values)
          /\ device' = [c \in Controls |-> IF c \in DOMAIN values THEN values[c] ELSE device[c]]
          /\ interfered' = Interfering(DOMAIN values)
      BY <2>1 DEF CameraChanges, Overwrite, guarded
    <3>2. /\ device' = [c \in Controls |-> device'[c]]
          /\ \A c \in Controls \ DOMAIN values : device'[c] = device[c]
      BY <3>1
    <3> QED
      BY <1>1, <2>1, <3>1, <3>2
  <2>2. CASE Unplugged
    BY <2>2, SectionKept DEF Unplugged, serving, guarded, serveHistory
  <2> QED
    BY <1>2, <2>1, <2>2, WorldIs DEF TypeInv
<1>3. CASE Complete("shot") \/ Interruption("shot")
  <2>1. Types /\ Working("shot") /\ "shot" \in Processes
    <3>1. work["shot"] # Idle /\ "shot" \in Processes
      BY <1>3 DEF Complete, Interruption, Pending, Processes
    <3> QED
      BY <3>1, InShot DEF TypeInv
  <2>2. PICK R \in SUBSET Controls, W \in SUBSET Scope(work["shot"].method) :
           /\ Written("shot", W) /\ Alone("shot")
           /\ AnsweredWith("shot", R, W) \/ RefusedWith("shot", W) \/ RepeatedWith("shot", W)
    BY <1>3, <2>1, RequestIs
  <2>3. PICK A : Note("shot", A, W)
    BY <2>2 DEF AnsweredWith, RefusedWith, RepeatedWith
  <2>4. /\ UNCHANGED <<section, state, velocity, backgroundError, before>>
        /\ fresh' = fresh \ W /\ stale' = stale \cup FieldsOf(W) /\ interfered' = Interfering(W)
    BY <2>3 DEF Note, guarded
  <2>5. /\ W \in SUBSET Controls /\ (\A c \in Controls \ W : device'[c] = device[c])
        /\ device' = [c \in Controls |-> device'[c]] /\ work'["serve"] = work["serve"]
    BY <2>2, Scopes DEF Written, Alone, Processes
  <2> QED
    BY <1>1, <2>4, <2>5
<1> QED
  BY <1>2, <1>3

\* The copy as a camera would hold it is what its raw values are read as.
LEMMA SentIsRaw ==
    ASSUME Types
    PROVE  /\ RawDevice(Sent(state))
           /\ StateOf(Sent(state)) = [position |-> [a \in Axes |-> Held(state.position[a])],
                                      zoom |-> Held(state.zoom), tracking |-> state.tracking]
<1> DEFINE raw == Sent(state)
<1>1. /\ state.position \in [Axes -> Int] /\ Inside(state.position) /\ state.zoom \in Zooms
      /\ state.tracking \in BOOLEAN
  BY DEF Types, BackendTypeOK
<1>2. /\ DOMAIN raw = Controls /\ \A a \in Axes : raw[a] = Raw(state.position[a])
      /\ raw["zoom"] = Raw(state.zoom) /\ raw["tracking"] = Bit(state.tracking)
  BY Names DEF Sent
<1> HIDE DEF raw
<1>3. \A a \in Axes : raw[a] \in RawValues(a)
  BY <1>1, <1>2, PositionSent
<1>4. raw["zoom"] \in RawValues("zoom") /\ raw["tracking"] \in RawValues("tracking")
  BY <1>1, <1>2, ZoomSent, Names DEF Bit
<1>5. RawDevice(raw)
  BY <1>2, <1>3, <1>4, Names DEF RawDevice
<1>6. (raw["tracking"] # 0) = state.tracking
  BY <1>1, <1>2 DEF Bit
<1>7. /\ [a \in Axes |-> FromRaw(raw[a])] = [a \in Axes |-> Held(state.position[a])]
      /\ FromRaw(raw["zoom"]) = Held(state.zoom)
  BY <1>2 DEF Held
<1> QED
  BY <1>5, <1>6, <1>7 DEF StateOf, raw

\* A device is determined by what it is read as.
LEMMA ReadDetermines ==
    ASSUME NEW raw, RawDevice(raw), raw = [c \in Controls |-> raw[c]]
    PROVE  Sent(StateOf(raw)) = raw
<1>1. Sent(StateOf(raw)) = [c \in Controls |-> Sent(StateOf(raw))[c]]
  BY DEF Sent
<1>2. \A c \in Controls : Sent(StateOf(raw))[c] = raw[c]
  BY SentIsRead
<1> HIDE DEF Sent
<1> QED
  BY ONLY <1>1, <1>2, raw = [c \in Controls |-> raw[c]]

\* A section begins with the first method and a snapshot of what is.
LEMMA LockKeepsSection ==
    ASSUME TypeInv, SectionInv, Enter PROVE SectionInv'
<1>1. ASSUME NEW s \in Sections, NEW m, NEW name, Lock(s, m), Starts(m, name, SectionAim(s)),
             velocity' = IF s.call \in {"position", "tracking"} THEN Stopped ELSE velocity,
             s.call = "pass" => IsMoving(velocity),
             s.call = "position" => name = IF state.tracking THEN "tracking" ELSE "position",
             ~(s.call = "pass" /\ name = "tracking")
      PROVE  SectionInv'
  <2>0. Types
    BY DEF TypeInv
  <2>1. /\ section' = s /\ work' = [work EXCEPT !["serve"] = m] /\ before' = Actual
        /\ UNCHANGED <<device, state, backgroundError, fresh, stale, interfered>>
    BY <1>1 DEF Lock, Begin, camera
  <2>2. work'["serve"] = m
    BY <2>1 DEF TypeInv, Types, Processes
  <2>3. /\ m.method = name /\ m.threw = FALSE /\ DOMAIN m.got = {}
        /\ Scope(name) \subseteq Writes(m.todo)
    BY <1>1 DEF Starts
  <2>4. PICK known : known = Sent(state) /\ RawDevice(known) /\ known = [c \in Controls |-> known[c]]
    BY <2>0, SentIsRaw DEF Sent
  <2>5. before' = [camera |-> StateOf(device), state |-> StateOf(known), velocity |-> velocity,
                   backgroundError |-> backgroundError, stale |-> stale]
    BY <2>0, <2>1, <2>4, SentIsRaw DEF Actual
  <2>6. Found' = device /\ Known' = known
    <3>1. Found' = Sent(StateOf(device)) /\ Known' = Sent(StateOf(known))
      BY <2>5 DEF Found, Known
    <3>2. RawDevice(device) /\ device = [c \in Controls |-> device[c]]
      BY <2>0, DeviceLegal DEF Types
    <3> QED
      BY ONLY <2>4, <3>1, <3>2, ReadDetermines
  <2>7. Snapshot'
    <3>1. RawDevice(device) /\ RawDevice(known)
      BY <2>0, <2>4, DeviceLegal
    <3>2. /\ before'.velocity = velocity /\ before'.backgroundError = backgroundError
          /\ before'.stale = stale
      BY <2>5
    <3>3. before' = [camera |-> StateOf(Found'), state |-> StateOf(Known'),
                     velocity |-> before'.velocity,
                     backgroundError |-> before'.backgroundError, stale |-> before'.stale]
      BY ONLY <2>5, <2>6, <3>2
    <3>4. RawDevice(Found)' /\ RawDevice(Known)' /\ StateOf(Found)' = StateOf(Found')
          /\ StateOf(Known)' = StateOf(Known')
      BY <2>6, <3>1 DEF RawDevice, RawValues, StateOf
    <3> QED
      BY <1>1, <2>1, <3>2, <3>3, <3>4 DEF Snapshot
  <2>8. Owned'
    BY <2>2, <2>3 DEF Owned
  <2>9. FirstMethodRuns'
    <3>1. Since(Found, Known, before.stale)'
      BY <2>1, <2>2, <2>3, <2>4, <2>5, <2>6 DEF Since
    <3>2. known["tracking"] # 0 <=> state.tracking
      BY <2>0, <2>4, Names DEF Sent, Bit, Types
    <3>3. s.call = "position" => (Known'["tracking"] # 0 <=> name = "tracking")
      BY <1>1, <2>6, <3>2
    <3> QED
      BY <1>1, <2>1, <2>2, <2>3, <3>1, <3>3 DEF FirstMethodRuns
  <2> QED
    BY <2>7, <2>8, <2>9 DEF SectionInv
<1>2. ASSUME NEW v \in Velocities, RequestVelocity(v) PROVE SectionInv'
  BY <1>2 DEF RequestVelocity, SectionInv
<1> QED
  BY <1>1, <1>2, EnterIs

\* A section goes on with another method.
LEMMA ProceedBegins ==
    ASSUME TypeInv, NEW m, NEW name, Proceed(m), Starts(m, name, SectionAim(section)), Snapshot,
           UNCHANGED <<velocity, backgroundError>>,
           NEW D, NEW K, NEW O, \A c \in Controls : device[c] = D[c], Sent(state') = K, stale' = O
    PROVE  /\ Since(D, K, O)' /\ Snapshot' /\ Owned' /\ work'["serve"].method = name
           /\ UNCHANGED <<section, before, fresh, interfered>> /\ Found' = Found /\ Known' = Known
<1>1. /\ work' = [work EXCEPT !["serve"] = m] /\ UNCHANGED <<section, before, fresh, interfered, device>>
  BY DEF Proceed, Begin, camera
<1>2. work'["serve"] = m
  BY <1>1 DEF TypeInv, Types, Processes
<1>3. /\ m.method = name /\ m.threw = FALSE /\ DOMAIN m.got = {}
      /\ Scope(name) \subseteq Writes(m.todo)
  BY DEF Starts
<1>4. Found' = Found /\ Known' = Known
  BY <1>1 DEF Found, Known
<1>5. Snapshot'
  BY <1>1, <1>4 DEF Snapshot
<1>6. Owned'
  BY <1>2, <1>3 DEF Owned
<1>7. Sent(state)' = K
  BY DEF Sent
<1>8. Since(D, K, O)'
  BY <1>1, <1>2, <1>3, <1>7 DEF Since
<1> QED
  BY <1>1, <1>2, <1>3, <1>4, <1>5, <1>6, <1>8

\* A method that returned owns what it wrote or read.
LEMMA ReturnedOwns ==
    ASSUME TypeInv, SectionInv, section # NoSection, ~interfered,
           NEW name \in {"read", "position", "zoom", "tracking"}, Returned("serve", name)
    PROVE  /\ Snapshot /\ Owned /\ work["serve"].method = name /\ ~work["serve"].threw
           /\ Scope(name) \subseteq fresh /\ fresh \subseteq Controls
           /\ name = "read" => DOMAIN work["serve"].got = Controls /\ fresh = Controls
           /\ FirstMethodRuns \/ PositionFollows \/ PassUntracks \/ PassDrives
<1>1. Snapshot /\ Owned /\ (FirstMethodRuns \/ PositionFollows \/ PassUntracks \/ PassDrives)
  BY DEF SectionInv
<1>2. work["serve"].method = name /\ ~work["serve"].threw /\ work["serve"].todo = <<>>
  BY ReturnedWorks
<1>3. Writes(<<>>) = {}
  BY ShortChains DEF Writes
<1>4. fresh \subseteq Controls
  BY DEF TypeInv, Types, BackendTypeOK
<1>5. Scope(name) \subseteq fresh /\ (name = "read" => DOMAIN work["serve"].got \subseteq fresh)
  BY <1>1, <1>2, <1>3 DEF Owned
<1>6. name = "read" => DOMAIN work["serve"].got = Controls
  <2>1. Working("serve")
    BY DEF TypeInv, ServePlaced
  <2> QED
    BY <2>1, ReturnedRead DEF Processes, RawDevice
<1> QED
  BY <1>1, <1>2, <1>4, <1>5, <1>6

\* Two sets of raw values are the same when they agree in every control.
LEMMA SameRaw ==
    /\ \A s, t : (\A c \in Controls : Sent(s)[c] = Sent(t)[c]) => Sent(s) = Sent(t)
    /\ \A s, t : (\A c \in Controls : Sent(s)[c] = Untracked(Sent(t))[c]) => Sent(s) = Untracked(Sent(t))
    /\ \A raw : Untracked(raw)["tracking"] = 0
                /\ \A c \in Controls \ {"tracking"} : Untracked(raw)[c] = raw[c]
<1>1. \A s : Sent(s) = [c \in Controls |-> Sent(s)[c]]
  BY DEF Sent
<1>2. \A raw : Untracked(raw) = [c \in Controls |-> Untracked(raw)[c]]
  BY DEF Untracked
<1>3. \A raw : Untracked(raw)["tracking"] = 0
               /\ \A c \in Controls \ {"tracking"} : Untracked(raw)[c] = raw[c]
  BY Names DEF Untracked
<1> HIDE DEF Sent, Untracked
<1>4. ASSUME NEW s, NEW t, \A c \in Controls : Sent(s)[c] = Sent(t)[c] PROVE Sent(s) = Sent(t)
  BY ONLY <1>1, <1>4
<1>5. ASSUME NEW s, NEW t, \A c \in Controls : Sent(s)[c] = Untracked(Sent(t))[c]
      PROVE  Sent(s) = Untracked(Sent(t))
  BY ONLY <1>1, <1>2, <1>5
<1> QED
  BY <1>3, <1>4, <1>5

\* The steps of a section keep its invariant.
LEMMA ContinueKeepsSection ==
    ASSUME TypeInv, CopyKept, SectionInv, Continue PROVE SectionInv'
<1>0. Types
  BY DEF TypeInv
<1>1. CASE Leave
  BY <1>1 DEF Leave, SectionInv
<1>2. CASE PassRead
  <2>1. /\ section.call = "pass" /\ Returned("serve", "read")
        /\ state' = StateOf(work["serve"].got) /\ Assigned({"position", "zoom", "tracking"})
        /\ UNCHANGED <<velocity, backgroundError>>
        /\ Proceed(IF state'.tracking THEN SetTracking(FALSE) ELSE SetPosition(section.position))
    BY <1>2 DEF PassRead
  <2>2. section \in Sections /\ section # NoSection /\ platform \in {"linux", "macos"}
        /\ Working("serve")
    BY <2>1, InSection
  <2>3. SUFFICES ASSUME ~interfered PROVE SectionInv'
    BY <2>1 DEF SectionInv, Proceed
  <2>4. /\ Snapshot /\ work["serve"].method = "read" /\ ~work["serve"].threw
        /\ DOMAIN work["serve"].got = Controls /\ fresh = Controls
        /\ FirstMethodRuns \/ PositionFollows \/ PassUntracks \/ PassDrives
    BY <2>1, <2>2, <2>3, ReturnedOwns
  <2>5. Since(Found, Known, before.stale)
    BY <2>4 DEF FirstMethodRuns, PositionFollows, PassUntracks, PassDrives
  <2>6. PICK found : found = Found
    OBVIOUS
  <2>7. \A c \in Controls : device[c] = found[c] /\ work["serve"].got[c] = found[c]
    <3>1. \A c \in Controls : device[c] = found[c]
      BY <2>4, <2>5, <2>6, Scopes DEF Since
    <3>2. \A c \in Controls : work["serve"].got[c] = device[c]
      BY <2>2, <2>4 DEF CopyKept, FreshInv, FreshRead
    <3> QED
      BY <3>1, <3>2
  <2>8. \A c \in Controls : Sent(state')[c] = found[c]
    <3>1. RawDevice(work["serve"].got)
      BY <2>1, <2>2, ReturnedRead DEF Processes
    <3> QED
      BY <2>1, <2>7, <3>1, SentIsRead
  <2>9. stale' = {}
    <3>1. stale \subseteq {"position", "zoom", "tracking"}
      BY DEF TypeInv, Types, BackendTypeOK
    <3>2. \A f \in {"position", "zoom", "tracking"} : ControlsOf(f) \subseteq fresh
      BY <2>4, FieldNames, Names
    <3> QED
      BY <2>1, <3>1, <3>2 DEF Assigned
  <2>10. state'.tracking <=> found["tracking"] # 0
    BY <2>1, <2>7, Names DEF StateOf
  <2>11. Sent(state') = found
    BY <2>6, <2>8, SameRaw DEF Found
  <2>12. /\ Starts(SetTracking(FALSE), "tracking", SectionAim(section))
         /\ Starts(SetPosition(section.position), "position", SectionAim(section))
    BY <2>1, <2>2, SectionsStart
  <2>13. CASE state'.tracking
    <3>1. Proceed(SetTracking(FALSE))
      BY <2>1, <2>13
    <3>2. /\ Since(found, found, {})' /\ Snapshot' /\ Owned' /\ work'["serve"].method = "tracking"
          /\ section' = section /\ Found' = found
      BY <2>1, <2>4, <2>6, <2>7, <2>9, <2>11, <2>12, <3>1, ProceedBegins
    <3>3. PassUntracks'
      BY <2>1, <2>10, <2>13, <3>2 DEF PassUntracks
    <3> QED
      BY <3>2, <3>3 DEF SectionInv
  <2>14. CASE ~state'.tracking
    <3>1. Proceed(SetPosition(section.position))
      BY <2>1, <2>14
    <3>2. PICK calm : calm = Untracked(found)
      OBVIOUS
    <3>3. \A c \in Controls : calm[c] = found[c]
      BY <2>10, <2>14, <3>2, SameRaw
    <3>4. (\A c \in Controls : device[c] = calm[c]) /\ Sent(state') = calm
      BY <2>6, <2>7, <2>8, <3>2, <3>3, SameRaw DEF Found
    <3>5. /\ Since(calm, calm, {})' /\ Snapshot' /\ Owned' /\ work'["serve"].method = "position"
          /\ section' = section /\ Found' = found
      BY <2>1, <2>4, <2>6, <2>9, <2>12, <3>1, <3>4, ProceedBegins
    <3>6. PassDrives'
      BY <2>1, <3>2, <3>5 DEF PassDrives, Untracked
    <3> QED
      BY <3>5, <3>6 DEF SectionInv
  <2> QED
    BY <2>13, <2>14
<1>3. CASE PassUntracked
  <2>1. /\ section.call = "pass" /\ Returned("serve", "tracking")
        /\ state' = [state EXCEPT !.tracking = FALSE] /\ Assigned({"tracking"})
        /\ UNCHANGED <<velocity, backgroundError>> /\ Proceed(SetPosition(section.position))
    BY <1>3 DEF PassUntracked
  <2>2. section \in Sections /\ section # NoSection /\ platform \in {"linux", "macos"}
    BY <2>1, InSection
  <2>3. SUFFICES ASSUME ~interfered PROVE SectionInv'
    BY <2>1 DEF SectionInv, Proceed
  <2>4. /\ Snapshot /\ work["serve"].method = "tracking" /\ "tracking" \in fresh
        /\ FirstMethodRuns \/ PositionFollows \/ PassUntracks \/ PassDrives
    BY <2>1, <2>2, <2>3, ReturnedOwns, Scopes
  <2>5. Since(Found, Found, {})
    BY <2>1, <2>4 DEF FirstMethodRuns, PositionFollows, PassUntracks, PassDrives
  <2>6. PICK found, calm : found = Found /\ calm = Untracked(found)
    OBVIOUS
  <2>7. \A c \in Controls : device[c] = calm[c]
    <3>1. device["tracking"] = 0
      BY <2>1, <2>2, <2>4, ReturnedAims
    <3>2. \A c \in Controls \ {"tracking"} : device[c] = found[c]
      BY <2>4, <2>5, <2>6, Scopes DEF Since
    <3> QED
      BY <2>6, <3>1, <3>2, SameRaw
  <2>8. Sent(state') = calm
    <3>1. /\ Sent(state')["tracking"] = 0
          /\ \A c \in Controls \ {"tracking"} : Sent(state')[c] = Sent(state)[c]
      BY <1>0, <2>1, SentAssigned DEF Bit
    <3>2. Sent(state) = found
      BY <2>5, <2>6 DEF Since
    <3>3. \A c \in Controls : Sent(state')[c] = calm[c]
      BY <2>6, <3>1, <3>2, SameRaw
    <3> QED
      BY <2>6, <3>3, SameRaw DEF Found
  <2>9. stale' = {}
    <3>1. stale \subseteq {"tracking"}
      BY <2>4, <2>5, Scopes, FieldNames DEF Since, FieldsOf
    <3>2. ControlsOf("tracking") \subseteq fresh
      BY <2>4, FieldNames
    <3> QED
      BY <2>1, <3>1, <3>2 DEF Assigned
  <2>10. Starts(SetPosition(section.position), "position", SectionAim(section))
    BY <2>1, <2>2, SectionsStart
  <2>11. /\ Since(calm, calm, {})' /\ Snapshot' /\ Owned' /\ work'["serve"].method = "position"
         /\ section' = section /\ Found' = found
    BY <2>1, <2>4, <2>6, <2>7, <2>8, <2>9, <2>10, ProceedBegins
  <2>12. PassDrives'
    BY <2>1, <2>6, <2>11 DEF PassDrives, Untracked
  <2> QED
    BY <2>11, <2>12 DEF SectionInv
<1>4. CASE PositionUntracked
  <2>1. /\ section.call = "position" /\ Returned("serve", "tracking")
        /\ UNCHANGED <<state, stale, velocity, backgroundError>>
        /\ Proceed(SetPosition(section.position))
    BY <1>4 DEF PositionUntracked, guarded
  <2>2. section \in Sections /\ section # NoSection /\ platform \in {"linux", "macos"}
    BY <2>1, InSection
  <2>3. SUFFICES ASSUME ~interfered PROVE SectionInv'
    BY <2>1 DEF SectionInv, Proceed
  <2>4. /\ Snapshot /\ work["serve"].method = "tracking" /\ "tracking" \in fresh
        /\ FirstMethodRuns \/ PositionFollows \/ PassUntracks \/ PassDrives
    BY <2>1, <2>2, <2>3, ReturnedOwns, Scopes
  <2>5. Known["tracking"] # 0 /\ Since(Found, Known, before.stale)
    BY <2>1, <2>4 DEF FirstMethodRuns, PositionFollows, PassUntracks, PassDrives
  <2>6. PICK found, calm, known, old :
           /\ found = Found /\ calm = Untracked(found) /\ known = Known
           /\ old = before.stale \cup {"tracking"}
    OBVIOUS
  <2>7. "tracking" \in stale /\ device["tracking"] = 0
    BY <2>1, <2>2, <2>4, ReturnedAims
  <2>8. \A c \in Controls : device[c] = calm[c]
    <3>1. \A c \in Controls \ {"tracking"} : device[c] = found[c]
      BY <2>4, <2>5, <2>6, Scopes DEF Since
    <3> QED
      BY <2>6, <2>7, <3>1, SameRaw
  <2>9. Sent(state') = known
    BY <2>1, <2>5, <2>6 DEF Since
  <2>10. stale' = old
    <3>1. before.stale \subseteq stale /\ stale \subseteq before.stale \cup {"tracking"}
      BY <2>4, <2>5, Scopes, FieldNames DEF Since, FieldsOf
    <3> QED
      BY <2>1, <2>6, <2>7, <3>1
  <2>11. Starts(SetPosition(section.position), "position", SectionAim(section))
    BY <2>1, <2>2, SectionsStart
  <2>12. /\ Since(calm, known, old)' /\ Snapshot' /\ Owned' /\ work'["serve"].method = "position"
         /\ UNCHANGED <<section, before, fresh>> /\ Found' = found /\ Known' = known
    BY <2>1, <2>4, <2>6, <2>8, <2>9, <2>10, <2>11, ProceedBegins
  <2>13. PositionFollows'
    BY <2>1, <2>4, <2>5, <2>6, <2>12 DEF PositionFollows, Untracked
  <2> QED
    BY <2>12, <2>13 DEF SectionInv
<1> QED
  BY <1>1, <1>2, <1>3, <1>4 DEF Continue, StatusRead, PassMoved, PositionMoved, Zoomed, TrackingSet,
                                SectionThrows

\* Every step keeps the invariant of the sections.
LEMMA StepKeepsSection ==
    ASSUME TypeInv, CopyKept, SectionInv, [BackendNext]_vars PROVE SectionInv'
<1>1. CASE Complete("serve") \/ Interruption("serve")
  BY <1>1, ServeRequestKeepsSection
<1>2. CASE World \/ Complete("shot") \/ Interruption("shot")
  BY <1>2, OthersInterfere
<1>3. CASE Enter
  BY <1>3, LockKeepsSection
<1>4. CASE Continue
  BY <1>4, ContinueKeepsSection
<1>5. CASE OneShot
  <2>1. UNCHANGED <<camera, serving>> /\ (\E m : Begin("shot", m))
    BY <1>5 DEF OneShot, ShotStart, ShotUntracked, ShotWritten, ShotPrints, ShotThrows, ShotEnds, End
  <2>2. work'["serve"] = work["serve"]
    BY <2>1 DEF Begin, TypeInv, Types, Processes
  <2> QED
    BY <2>1, <2>2, SectionKept DEF camera, serving, guarded, serveHistory
<1>6. CASE UNCHANGED vars
  BY <1>6, SectionKept DEF vars, camera, serving, guarded, serveHistory
<1> QED
  BY <1>1, <1>2, <1>3, <1>4, <1>5, <1>6 DEF BackendNext, Processes

\* The invariant of the sections.
THEOREM SectionsAreInStages == BackendSpec => []SectionInv
<1>1. BackendInit => SectionInv
  BY DEF BackendInit, SectionInv
<1>2. TypeInv /\ CopyKept /\ SectionInv /\ [BackendNext]_vars => SectionInv'
  BY StepKeepsSection
<1> QED
  BY <1>1, <1>2, BackendPlaced, CopyStandsForTheCamera, PTL DEF BackendSpec

(***************************************************************************)
(* The critical sections implement ControllerCore: what its actions mean   *)
(* for raw values.                                                         *)
(***************************************************************************)

\* States that were read from raw values which differ in one field, or in
\* position and tracking.
LEMMA StateChanged ==
    ASSUME NEW d, NEW e
    PROVE  /\ StateOf(e).zoom = StateOf(d).zoom /\ StateOf(e).tracking = StateOf(d).tracking
                 => StateOf(e) = [StateOf(d) EXCEPT !.position = StateOf(e).position]
           /\ StateOf(e).zoom = StateOf(d).zoom
                 => StateOf(e) = [StateOf(d) EXCEPT !.position = StateOf(e).position,
                                                    !.tracking = StateOf(e).tracking]
           /\ StateOf(e).position = StateOf(d).position /\ StateOf(e).tracking = StateOf(d).tracking
                 => StateOf(e) = [StateOf(d) EXCEPT !.zoom = StateOf(e).zoom]
           /\ StateOf(e).position = StateOf(d).position /\ StateOf(e).zoom = StateOf(d).zoom
                 => StateOf(e) = [StateOf(d) EXCEPT !.tracking = StateOf(e).tracking]
<1>1. PICK p, z, t : StateOf(d) = [position |-> p, zoom |-> z, tracking |-> t]
  BY DEF StateOf
<1>2. PICK q, y, u : StateOf(e) = [position |-> q, zoom |-> y, tracking |-> u]
  BY DEF StateOf
<1>3. /\ StateOf(e).position = q /\ StateOf(e).zoom = y /\ StateOf(e).tracking = u
      /\ StateOf(d).position = p /\ StateOf(d).zoom = z /\ StateOf(d).tracking = t
  BY ONLY <1>1, <1>2
<1>4. PICK s : s = StateOf(d)
  OBVIOUS
<1>5. /\ [s EXCEPT !.position = q] = [position |-> q, zoom |-> z, tracking |-> t]
      /\ [s EXCEPT !.zoom = y] = [position |-> p, zoom |-> y, tracking |-> t]
      /\ [s EXCEPT !.tracking = u] = [position |-> p, zoom |-> z, tracking |-> u]
  BY ONLY <1>1, <1>4
<1>6. [s EXCEPT !.position = q, !.tracking = u] = [position |-> q, zoom |-> z, tracking |-> u]
  <2>1. PICK r : r = [s EXCEPT !.position = q]
    OBVIOUS
  <2>2. r = [position |-> q, zoom |-> z, tracking |-> t]
    BY ONLY <1>5, <2>1
  <2>3. [r EXCEPT !.tracking = u] = [position |-> q, zoom |-> z, tracking |-> u]
    BY ONLY <2>2
  <2>4. [s EXCEPT !.position = q, !.tracking = u] = [[s EXCEPT !.position = q] EXCEPT !.tracking = u]
    OBVIOUS
  <2> QED
    BY ONLY <2>1, <2>3, <2>4
<1> QED
  BY ONLY <1>2, <1>3, <1>4, <1>5, <1>6

\* What the fields of a state are read from.
LEMMA StateAlike ==
    ASSUME NEW d, NEW e
    PROVE  /\ (\A a \in Axes : e[a] = d[a]) => StateOf(e).position = StateOf(d).position
           /\ e["zoom"] = d["zoom"] => StateOf(e).zoom = StateOf(d).zoom
           /\ e["tracking"] = d["tracking"] => StateOf(e).tracking = StateOf(d).tracking
           /\ StateOf(d).tracking \in BOOLEAN
           /\ d["tracking"] # 0 => StateOf(d).tracking = TRUE
           /\ d["tracking"] = 0 => StateOf(d).tracking = FALSE
  BY DEF StateOf

\* What is read from legal raw values is a position of the core; so is any
\* target.
LEMMA CorePositions ==
    /\ \A raw : RawDevice(raw) => StateOf(raw).position \in Core!Positions
    /\ \A p : p \in [Axes -> Int] /\ Inside(p) => p \in Core!Positions
<1>1. \A a \in Axes : Ranges[a].minimum \in Int /\ Ranges[a].maximum \in Int
  BY RangeEnds
<1>2. DOMAIN Ranges = Axes
  BY RangesAssumption
<1>3. ASSUME NEW p \in [Axes -> Int], Inside(p) PROVE p \in Core!Positions
  <2>1. \A a \in Axes : p[a] \in Ranges[a].minimum .. Ranges[a].maximum
    BY <1>1, <1>3 DEF Inside
  <2>2. p \in [Axes -> UNION {Ranges[a].minimum .. Ranges[a].maximum : a \in Axes}]
    BY <2>1
  <2> QED
    BY <1>2, <2>1, <2>2 DEF Core!Positions, Core!PositionsIn
<1> QED
  BY <1>3, StateRead

\* Between what was read from d and the position of a, axis by axis.
LEMMA CoreTorn ==
    ASSUME NEW d, NEW e, NEW p, \A a \in Axes : e[a] = d[a] \/ FromRaw(e[a]) = p[a]
    PROVE  StateOf(e).position \in Core!TornPositions(StateOf(d).position, p)
<1> DEFINE written == {a \in Axes : FromRaw(e[a]) = p[a]}
<1>1. StateOf(e).position = [a \in Axes |-> FromRaw(e[a])]
      /\ \A a \in Axes : StateOf(d).position[a] = FromRaw(d[a])
  BY DEF StateOf
<1>2. StateOf(e).position
        = [a \in Axes |-> IF a \in written THEN p[a] ELSE StateOf(d).position[a]]
  BY <1>1
<1>3. written \in SUBSET Axes
  OBVIOUS
<1> QED
  BY <1>2, <1>3 DEF Core!TornPositions

(***************************************************************************)
(* ... one lemma per action, on the raw values D of the camera and K of    *)
(* the copy before it, and E and Q after it.                               *)
(***************************************************************************)

\* What the core sees: raw values of the camera and the copy.
Shows(seen, d, q) == seen.camera = StateOf(d) /\ seen.state = StateOf(q)

\* status() that read the camera.
LEMMA CoreReads ==
    ASSUME NEW D, NEW K, Shows(Seen, D, K), Shows(Seen', D, D),
           Seen'.velocity = Seen.velocity, Seen'.backgroundError = Seen.backgroundError,
           Seen'.stale = {}
    PROVE  Core!CoreNext
<1>1. Core!CallStatus(TRUE)
  BY DEF Core!CallStatus, Shows
<1> QED
  BY <1>1 DEF Core!CoreNext, Core!Call

\* set_zoom that succeeds.
LEMMA CoreZoomSet ==
    ASSUME NEW D, NEW K, NEW E, NEW Q, Shows(Seen, D, K), Shows(Seen', E, Q),
           NEW z \in Zooms, StateOf(E).zoom = z, StateOf(Q).zoom = z,
           StateOf(E).position = StateOf(D).position, StateOf(Q).position = StateOf(K).position,
           StateOf(E).tracking = StateOf(D).tracking, StateOf(Q).tracking = StateOf(K).tracking,
           Seen'.velocity = Seen.velocity, Seen'.backgroundError = FALSE,
           Seen'.stale = Seen.stale \ {"zoom"}
    PROVE  Core!CoreNext
<1>1. /\ StateOf(E) = [StateOf(D) EXCEPT !.zoom = z]
      /\ StateOf(Q) = [StateOf(K) EXCEPT !.zoom = z]
  <2>1. StateOf(E) = [StateOf(D) EXCEPT !.zoom = StateOf(E).zoom]
    BY StateChanged
  <2>2. StateOf(Q) = [StateOf(K) EXCEPT !.zoom = StateOf(Q).zoom]
    BY StateChanged
  <2> QED
    BY <2>1, <2>2
<1>2. Core!CallSetZoom(z, TRUE)
  BY <1>1 DEF Core!CallSetZoom, Shows
<1> QED
  BY <1>2 DEF Core!CoreNext, Core!Call

\* ... and that throws.
LEMMA CoreZoomFails ==
    ASSUME NEW D, NEW K, NEW E, Shows(Seen, D, K), Shows(Seen', E, K),
           NEW z \in Zooms, StateOf(E).zoom = z \/ StateOf(E).zoom = StateOf(D).zoom,
           StateOf(E).position = StateOf(D).position, StateOf(E).tracking = StateOf(D).tracking,
           Seen'.velocity = Seen.velocity, Seen'.backgroundError = Seen.backgroundError,
           Seen'.stale = Seen.stale \cup {"zoom"}
    PROVE  Core!CoreNext
<1>1. StateOf(E) = [StateOf(D) EXCEPT !.zoom = StateOf(E).zoom]
  BY StateChanged
<1>2. StateOf(E).zoom \in {z, StateOf(D).zoom}
  BY DEF StateOf
<1>3. Core!CallSetZoom(z, FALSE)
  BY <1>1, <1>2 DEF Core!CallSetZoom, Shows
<1> QED
  BY <1>3 DEF Core!CoreNext, Core!Call

\* set_tracking that succeeds.
LEMMA CoreTrackingSet ==
    ASSUME NEW D, NEW K, NEW E, NEW Q, Shows(Seen, D, K), Shows(Seen', E, Q),
           NEW t \in BOOLEAN, StateOf(E).tracking = t, StateOf(Q).tracking = t,
           StateOf(E).position = StateOf(D).position, StateOf(Q).position = StateOf(K).position,
           StateOf(E).zoom = StateOf(D).zoom, StateOf(Q).zoom = StateOf(K).zoom,
           Seen'.velocity = Stopped, Seen'.backgroundError = FALSE,
           Seen'.stale = Seen.stale \ {"tracking"}
    PROVE  Core!CoreNext
<1>1. /\ StateOf(E) = [StateOf(D) EXCEPT !.tracking = t]
      /\ StateOf(Q) = [StateOf(K) EXCEPT !.tracking = t]
  <2>1. StateOf(E) = [StateOf(D) EXCEPT !.tracking = StateOf(E).tracking]
    BY StateChanged
  <2>2. StateOf(Q) = [StateOf(K) EXCEPT !.tracking = StateOf(Q).tracking]
    BY StateChanged
  <2> QED
    BY <2>1, <2>2
<1>2. Core!StopMotion
  BY DEF Core!StopMotion, Core!Stopped, Stopped
<1>3. Core!CallSetTracking(t, TRUE)
  BY <1>1, <1>2 DEF Core!CallSetTracking, Shows
<1> QED
  BY <1>3 DEF Core!CoreNext, Core!Call

\* ... and that throws.
LEMMA CoreTrackingFails ==
    ASSUME NEW D, NEW K, NEW E, Shows(Seen, D, K), Shows(Seen', E, K),
           NEW t \in BOOLEAN, StateOf(E).tracking = t \/ StateOf(E).tracking = StateOf(D).tracking,
           StateOf(E).position = StateOf(D).position, StateOf(E).zoom = StateOf(D).zoom,
           Seen'.velocity = Stopped, Seen'.backgroundError = Seen.backgroundError,
           Seen'.stale = Seen.stale \cup {"tracking"}
    PROVE  Core!CoreNext
<1>1. StateOf(E) = [StateOf(D) EXCEPT !.tracking = StateOf(E).tracking]
  BY StateChanged
<1>2. Core!StopMotion
  BY DEF Core!StopMotion, Core!Stopped, Stopped
<1>3. StateOf(E).tracking \in {t, StateOf(D).tracking}
  BY DEF StateOf
<1>4. Core!CallSetTracking(t, FALSE)
  BY <1>1, <1>2, <1>3 DEF Core!CallSetTracking, Shows
<1> QED
  BY <1>4 DEF Core!CoreNext, Core!Call

\* set_velocity.
LEMMA CoreVelocity ==
    ASSUME NEW v \in Velocities, Seen'.velocity = v, Seen'.camera = Seen.camera,
           Seen'.state = Seen.state, Seen'.backgroundError = Seen.backgroundError,
           Seen'.stale = Seen.stale
    PROVE  Core!CoreNext
<1>1. Core!CallSetVelocity(v)
  BY DEF Core!CallSetVelocity
<1> QED
  BY <1>1 DEF Core!CoreNext, Core!Call

\* The camera turns.
LEMMA CoreCameraTracks ==
    ASSUME NEW D, NEW K, NEW E, Shows(Seen, D, K), Shows(Seen', E, K), RawDevice(E),
           StateOf(D).tracking, StateOf(E).zoom = StateOf(D).zoom,
           StateOf(E).tracking = StateOf(D).tracking,
           Seen'.velocity = Seen.velocity, Seen'.backgroundError = Seen.backgroundError,
           Seen'.stale = Seen.stale \cup {"position"}
    PROVE  Core!CoreNext
<1>1. StateOf(E) = [StateOf(D) EXCEPT !.position = StateOf(E).position]
  BY StateChanged
<1>2. StateOf(E).position \in Core!Positions
  BY CorePositions
<1>3. Core!CameraTracks
  BY <1>1, <1>2 DEF Core!CameraTracks, Shows
<1> QED
  BY <1>3 DEF Core!CoreNext, Core!CameraChanges

\* A gesture switches tracking.
LEMMA CoreTrackingSwitched ==
    ASSUME NEW D, NEW K, NEW E, Shows(Seen, D, K), Shows(Seen', E, K),
           StateOf(E).tracking = ~StateOf(D).tracking, StateOf(E).zoom = StateOf(D).zoom,
           StateOf(E).position = StateOf(D).position,
           Seen'.velocity = Seen.velocity, Seen'.backgroundError = Seen.backgroundError,
           Seen'.stale = Seen.stale \cup {"tracking"}
    PROVE  Core!CoreNext
<1>1. StateOf(E) = [StateOf(D) EXCEPT !.tracking = StateOf(E).tracking]
  BY StateChanged
<1>2. StateOf(E) = [StateOf(D) EXCEPT !.tracking = ~StateOf(D).tracking]
  BY <1>1
<1>3. Core!TrackingSwitched
  BY <1>2 DEF Core!TrackingSwitched, Shows
<1> QED
  BY <1>3 DEF Core!CoreNext, Core!CameraChanges

\* set_position that succeeds.  Tracking is switched off when the copy says
\* it is on.
LEMMA CorePositionSet ==
    ASSUME NEW D, NEW K, NEW E, NEW Q, Shows(Seen, D, K), Shows(Seen', E, Q), RawDevice(E),
           StateOf(E).zoom = StateOf(D).zoom, StateOf(Q).zoom = StateOf(K).zoom,
           StateOf(E).tracking = IF StateOf(K).tracking THEN FALSE ELSE StateOf(D).tracking,
           StateOf(Q).tracking = FALSE, StateOf(Q).position = StateOf(E).position,
           Seen'.velocity = Stopped, Seen'.backgroundError = FALSE,
           Seen'.stale = Seen.stale \ (IF StateOf(K).tracking THEN {"position", "tracking"}
                                                              ELSE {"position"})
    PROVE  Core!CoreNext
<1>1. PICK p, u, off : /\ p = StateOf(E).position /\ off = FALSE
                       /\ u = (IF StateOf(K).tracking THEN FALSE ELSE StateOf(D).tracking)
  OBVIOUS
<1>2. /\ StateOf(E).position = p /\ StateOf(E).tracking = u
      /\ StateOf(Q).position = p /\ StateOf(Q).tracking = off
  BY <1>1
<1>3. StateOf(E) = [StateOf(D) EXCEPT !.position = StateOf(E).position,
                                      !.tracking = StateOf(E).tracking]
  BY StateChanged
<1>4. StateOf(Q) = [StateOf(K) EXCEPT !.position = StateOf(Q).position,
                                      !.tracking = StateOf(Q).tracking]
  BY StateChanged
<1>5. /\ StateOf(E) = [StateOf(D) EXCEPT !.position = p, !.tracking = u]
      /\ StateOf(Q) = [StateOf(K) EXCEPT !.position = p, !.tracking = off]
  BY <1>2, <1>3, <1>4
<1>6. Core!StopMotion
  BY DEF Core!StopMotion, Core!Stopped, Stopped
<1>7. Core!PositionSet(p)
  BY <1>1, <1>5 DEF Core!PositionSet, Shows
<1>8. Core!CallSetPosition(p, TRUE)
  BY <1>6, <1>7 DEF Core!CallSetPosition
<1>9. p \in Core!Positions
  BY <1>1, CorePositions
<1> QED
  BY <1>8, <1>9 DEF Core!CoreNext, Core!Call

\* set_position that throws while it switches tracking off.
LEMMA CorePositionTrackingFails ==
    ASSUME NEW D, NEW K, NEW E, Shows(Seen, D, K), Shows(Seen', E, K), StateOf(K).tracking,
           StateOf(E).position = StateOf(D).position, StateOf(E).zoom = StateOf(D).zoom,
           StateOf(E).tracking = FALSE \/ StateOf(E).tracking = StateOf(D).tracking,
           Seen'.velocity = Stopped, Seen'.backgroundError = Seen.backgroundError,
           Seen'.stale = Seen.stale \cup {"tracking"}
    PROVE  Core!CoreNext
<1>1. StateOf(E) = [StateOf(D) EXCEPT !.tracking = StateOf(E).tracking]
  BY StateChanged
<1>2. Core!StopMotion
  BY DEF Core!StopMotion, Core!Stopped, Stopped
<1>3. Core!PositionTrackingFails
  BY <1>1 DEF Core!PositionTrackingFails, Shows
<1>4. Core!CallSetPosition(Center, FALSE)
  BY <1>2, <1>3 DEF Core!CallSetPosition
<1>5. Center \in Core!Positions
  BY CorePositions, RangesAssumption DEF Center
<1> QED
  BY <1>4, <1>5 DEF Core!CoreNext, Core!Call

\* set_position that throws while it writes the position.
LEMMA CorePositionWriteFails ==
    ASSUME NEW D, NEW K, NEW E, Shows(Seen, D, K), Shows(Seen', E, K), NEW p \in Core!Positions,
           StateOf(E).position \in Core!TornPositions(StateOf(D).position, p),
           StateOf(E).zoom = StateOf(D).zoom,
           StateOf(E).tracking = IF StateOf(K).tracking THEN FALSE ELSE StateOf(D).tracking,
           Seen'.velocity = Stopped, Seen'.backgroundError = Seen.backgroundError,
           Seen'.stale = Seen.stale \cup (IF StateOf(K).tracking THEN {"position", "tracking"}
                                                                 ELSE {"position"})
    PROVE  Core!CoreNext
<1>1. PICK u : u = (IF StateOf(K).tracking THEN FALSE ELSE StateOf(D).tracking)
  OBVIOUS
<1>2. StateOf(E) = [StateOf(D) EXCEPT !.position = StateOf(E).position,
                                      !.tracking = StateOf(E).tracking]
  BY StateChanged
<1>3. StateOf(E) = [StateOf(D) EXCEPT !.position = StateOf(E).position, !.tracking = u]
  BY <1>1, <1>2
<1>4. Core!StopMotion
  BY DEF Core!StopMotion, Core!Stopped, Stopped
<1>5. Core!PositionWriteFails(p)
  BY <1>1, <1>3 DEF Core!PositionWriteFails, Shows
<1>6. Core!CallSetPosition(p, FALSE)
  BY <1>4, <1>5 DEF Core!CallSetPosition
<1> QED
  BY <1>6 DEF Core!CoreNext, Core!Call

\* A pass that starts the motion has read the camera and switched tracking
\* off: the copy stands for B before the position is written.
LEMMA CoreBase ==
    ASSUME NEW D, NEW K, NEW B, Shows(Seen, D, K), NEW starting \in BOOLEAN,
           B = IF starting THEN Untracked(D) ELSE K
    PROVE  Core!Base(starting) = StateOf(B)
<1>1. CASE starting = TRUE
  <2>1. /\ \A a \in Axes : B[a] = D[a]
        /\ B["zoom"] = D["zoom"] /\ B["tracking"] = 0
    BY <1>1, Names DEF Untracked
  <2>2. PICK off : off = FALSE
    OBVIOUS
  <2>3. StateOf(B).tracking = off
    BY <2>1, <2>2, StateAlike
  <2>4. StateOf(B) = [StateOf(D) EXCEPT !.tracking = StateOf(B).tracking]
    <3>1. StateOf(B).position = StateOf(D).position
      BY <2>1 DEF StateOf
    <3>2. StateOf(B).zoom = StateOf(D).zoom
      BY <2>1 DEF StateOf
    <3> QED
      BY <3>1, <3>2, StateChanged
  <2>5. StateOf(B) = [StateOf(D) EXCEPT !.tracking = off]
    BY <2>3, <2>4
  <2> QED
    BY <1>1, <2>2, <2>5 DEF Core!Base, Shows
<1>2. CASE starting = FALSE
  BY <1>2 DEF Core!Base, Shows
<1> QED
  BY <1>1, <1>2

\* What is left of the tracking flag when the position is written.
LEMMA CoreTrackingLeft ==
    ASSUME NEW D, NEW K, NEW E, Shows(Seen, D, K), NEW starting \in BOOLEAN,
           StateOf(E).tracking = IF starting THEN FALSE ELSE StateOf(D).tracking
    PROVE  StateOf(E).tracking = Core!TrackingLeft(starting)
<1>1. StateOf(E).tracking = (StateOf(D).tracking /\ ~starting)
  BY StateAlike
<1> QED
  BY <1>1 DEF Core!TrackingLeft, Shows

\* A pass that reaches its position.
LEMMA CoreDrives ==
    ASSUME NEW D, NEW K, NEW B, NEW E, NEW Q, Shows(Seen, D, K), Shows(Seen', E, Q),
           RawDevice(E), NEW starting \in BOOLEAN, IsMoving(Seen.velocity),
           Core!Base(starting) = StateOf(B), StateOf(E).zoom = StateOf(D).zoom,
           StateOf(E).tracking = Core!TrackingLeft(starting),
           StateOf(Q).zoom = StateOf(B).zoom, StateOf(Q).tracking = StateOf(B).tracking,
           StateOf(Q).position = StateOf(E).position,
           Seen'.velocity = Seen.velocity, Seen'.backgroundError = FALSE,
           Seen'.stale = IF starting THEN {} ELSE Seen.stale \ {"position"}
    PROVE  Core!CoreNext
<1>1. PICK p, u : p = StateOf(E).position /\ u = Core!TrackingLeft(starting)
  OBVIOUS
<1>2. StateOf(E) = [StateOf(D) EXCEPT !.position = StateOf(E).position,
                                      !.tracking = StateOf(E).tracking]
  BY StateChanged
<1>3. StateOf(Q) = [StateOf(B) EXCEPT !.position = StateOf(Q).position]
  BY StateChanged
<1>4. /\ StateOf(E) = [StateOf(D) EXCEPT !.position = p, !.tracking = u]
      /\ StateOf(Q) = [StateOf(B) EXCEPT !.position = p]
  BY <1>1, <1>2, <1>3
<1>5. Core!DriveTo(p, starting)
  BY <1>1, <1>4 DEF Core!DriveTo, Shows
<1>6. Core!IsMoving(Seen.velocity) /\ p \in Core!Positions
  BY <1>1, CorePositions DEF IsMoving, Core!IsMoving
<1> QED
  BY <1>5, <1>6 DEF Core!CoreNext, Core!Drive

\* A pass whose read throws.
LEMMA CoreDriveReadFails ==
    ASSUME Seen'.camera = Seen.camera, Seen'.state = Seen.state, Seen'.stale = Seen.stale,
           IsMoving(Seen.velocity), Seen'.velocity = Stopped, Seen'.backgroundError = TRUE
    PROVE  Core!CoreNext
<1>1. Core!DriveReadFails
  BY DEF Core!DriveReadFails, Core!DriveFails, Core!StopMotion, Core!Stopped, Stopped
<1>2. Core!IsMoving(Seen.velocity)
  BY DEF IsMoving, Core!IsMoving
<1> QED
  BY <1>1, <1>2 DEF Core!CoreNext, Core!Drive

\* A pass that throws while it switches tracking off.
LEMMA CoreDriveTrackingFails ==
    ASSUME NEW D, NEW K, NEW E, Shows(Seen, D, K), Shows(Seen', E, D), StateOf(D).tracking,
           StateOf(E).zoom = StateOf(D).zoom, StateOf(E).position = StateOf(D).position,
           Seen'.stale = {"tracking"},
           IsMoving(Seen.velocity), Seen'.velocity = Stopped, Seen'.backgroundError = TRUE
    PROVE  Core!CoreNext
<1>1. StateOf(E) = [StateOf(D) EXCEPT !.tracking = StateOf(E).tracking]
  BY StateChanged
<1>2. StateOf(E).tracking \in BOOLEAN
  BY StateAlike
<1>3. Core!DriveFails
  BY DEF Core!DriveFails, Core!StopMotion, Core!Stopped, Stopped
<1>4. Core!DriveTrackingFails
  BY <1>1, <1>2, <1>3 DEF Core!DriveTrackingFails, Shows
<1>5. Core!IsMoving(Seen.velocity)
  BY DEF IsMoving, Core!IsMoving
<1> QED
  BY <1>4, <1>5 DEF Core!CoreNext, Core!Drive

\* A pass that throws while it writes the position.
LEMMA CoreDriveWriteFails ==
    ASSUME NEW D, NEW K, NEW E, NEW Q, Shows(Seen, D, K), Shows(Seen', E, Q),
           NEW starting \in BOOLEAN, IsMoving(Seen.velocity), NEW p \in Core!Positions,
           StateOf(E).position \in Core!TornPositions(StateOf(D).position, p),
           Core!Base(starting) = StateOf(Q), StateOf(E).zoom = StateOf(D).zoom,
           StateOf(E).tracking = Core!TrackingLeft(starting),
           Seen'.velocity = Stopped, Seen'.backgroundError = TRUE,
           Seen'.stale = IF starting THEN {"position"} ELSE Seen.stale \cup {"position"}
    PROVE  Core!CoreNext
<1>1. PICK u : u = Core!TrackingLeft(starting)
  OBVIOUS
<1>2. StateOf(E) = [StateOf(D) EXCEPT !.position = StateOf(E).position,
                                      !.tracking = StateOf(E).tracking]
  BY StateChanged
<1>3. StateOf(E) = [StateOf(D) EXCEPT !.position = StateOf(E).position, !.tracking = u]
  BY <1>1, <1>2
<1>4. Core!DriveFails
  BY DEF Core!DriveFails, Core!StopMotion, Core!Stopped, Stopped
<1>5. Core!DriveWriteFails(p, starting)
  BY <1>1, <1>3, <1>4 DEF Core!DriveWriteFails, Shows
<1>6. Core!IsMoving(Seen.velocity)
  BY DEF IsMoving, Core!IsMoving
<1> QED
  BY <1>5, <1>6 DEF Core!CoreNext, Core!Drive

(***************************************************************************)
(* ... and every step of serve and of the camera is one of them.           *)
(***************************************************************************)

\* What the core sees while no section is in progress.
LEMMA SeenIdle ==
    ASSUME TypeInv, section = NoSection
    PROVE  /\ Seen = [camera |-> StateOf(device), state |-> StateOf(Sent(state)),
                      velocity |-> velocity, backgroundError |-> backgroundError, stale |-> stale]
           /\ Shows(Seen, device, Sent(state)) /\ Seen.velocity = velocity
           /\ Seen.backgroundError = backgroundError /\ Seen.stale = stale
           /\ RawDevice(device)
<1>1. Types
  BY DEF TypeInv
<1>2. /\ Seen = [camera |-> StateOf(device), state |-> StateOf(Sent(state)),
                 velocity |-> velocity, backgroundError |-> backgroundError, stale |-> stale]
  BY <1>1, SentIsRaw DEF Seen, Actual
<1>3. RawDevice(device)
  BY <1>1, DeviceLegal
<1> QED
  BY ONLY <1>2, <1>3 DEF Shows

\* ... and after a step that leaves none in progress.
LEMMA SeenIdleNext ==
    ASSUME TypeInv', section' = NoSection
    PROVE  /\ Seen' = [camera |-> StateOf(device'), state |-> StateOf(Sent(state')),
                       velocity |-> velocity', backgroundError |-> backgroundError', stale |-> stale']
           /\ Shows(Seen', device', Sent(state')) /\ Seen'.velocity = velocity'
           /\ Seen'.backgroundError = backgroundError' /\ Seen'.stale = stale'
           /\ RawDevice(device')
<1>1. (TypeInv => /\ section = NoSection =>
                        /\ Seen = [camera |-> StateOf(device), state |-> StateOf(Sent(state)),
                                   velocity |-> velocity, backgroundError |-> backgroundError,
                                   stale |-> stale]
                        /\ RawDevice(device))'
  BY SeenIdle, PTL
<1>2. /\ StateOf(device)' = StateOf(device') /\ StateOf(Sent(state))' = StateOf(Sent(state'))
      /\ RawDevice(device)' <=> RawDevice(device')
  BY DEF StateOf, Sent, RawDevice, RawValues
<1>3. /\ Seen' = [camera |-> StateOf(device'), state |-> StateOf(Sent(state')),
                  velocity |-> velocity', backgroundError |-> backgroundError', stale |-> stale']
      /\ RawDevice(device')
  BY <1>1, <1>2
<1> QED
  BY ONLY <1>3 DEF Shows

\* A section without interference ends: what the core saw is the snapshot.
LEMMA SectionEnds ==
    ASSUME TypeInv, TypeInv', SectionInv, section # NoSection, ~interfered, Leave
    PROVE  /\ Seen = before /\ Seen = [camera |-> StateOf(Found), state |-> StateOf(Known),
                                       velocity |-> before.velocity,
                                       backgroundError |-> before.backgroundError,
                                       stale |-> before.stale]
           /\ Shows(Seen, Found, Known) /\ RawDevice(Found) /\ RawDevice(Known)
           /\ Shows(Seen', device, Sent(state')) /\ RawDevice(device)
           /\ Seen' = [camera |-> StateOf(device), state |-> StateOf(Sent(state')),
                       velocity |-> velocity', backgroundError |-> backgroundError', stale |-> stale']
           /\ Seen.velocity = before.velocity /\ Seen.backgroundError = backgroundError
           /\ Seen.stale = before.stale
           /\ Seen'.velocity = velocity' /\ Seen'.backgroundError = backgroundError'
           /\ Seen'.stale = stale'
           /\ velocity = IF section.call \in {"position", "tracking"} THEN Stopped ELSE Seen.velocity
           /\ section.call = "pass" => IsMoving(Seen.velocity)
<1>1. Snapshot
  BY DEF SectionInv
<1>2. Seen = before /\ Seen.velocity = before.velocity /\ Seen.backgroundError = backgroundError
      /\ Seen.stale = before.stale
  BY <1>1 DEF Seen, Snapshot
<1>3. section' = NoSection /\ device' = device
  BY DEF Leave, camera
<1>4. /\ Seen' = [camera |-> StateOf(device), state |-> StateOf(Sent(state')),
                  velocity |-> velocity', backgroundError |-> backgroundError', stale |-> stale']
      /\ Shows(Seen', device, Sent(state')) /\ Seen'.velocity = velocity'
      /\ Seen'.backgroundError = backgroundError' /\ Seen'.stale = stale' /\ RawDevice(device)
  BY <1>3, SeenIdleNext
<1>5. /\ before = [camera |-> StateOf(Found), state |-> StateOf(Known), velocity |-> before.velocity,
                   backgroundError |-> before.backgroundError, stale |-> before.stale]
      /\ RawDevice(Found) /\ RawDevice(Known)
      /\ velocity = IF section.call \in {"position", "tracking"} THEN Stopped ELSE before.velocity
      /\ section.call = "pass" => IsMoving(before.velocity)
  BY <1>1 DEF Snapshot
<1>6. Shows(Seen, Found, Known)
  BY ONLY <1>2, <1>5 DEF Shows
<1> QED
  BY ONLY <1>2, <1>4, <1>5, <1>6

\* status() ends.
LEMMA StatusImplements ==
    ASSUME TypeInv, TypeInv', CopyKept, SectionInv, ~interfered, StatusRead PROVE Core!CoreNext
<1>1. /\ section.call = "status" /\ Returned("serve", "read")
      /\ state' = StateOf(work["serve"].got) /\ Assigned({"position", "zoom", "tracking"})
      /\ UNCHANGED <<velocity, backgroundError>> /\ Leave
  BY DEF StatusRead
<1>2. section \in Sections /\ section # NoSection /\ Working("serve")
  BY <1>1, InSection
<1>3. /\ work["serve"].method = "read" /\ ~work["serve"].threw /\ fresh = Controls
      /\ DOMAIN work["serve"].got = Controls
      /\ FirstMethodRuns \/ PositionFollows \/ PassUntracks \/ PassDrives
  BY <1>1, <1>2, ReturnedOwns
<1>4. PICK found, known : found = Found /\ known = Known
  OBVIOUS
<1>5. /\ Shows(Seen, found, known) /\ Shows(Seen', device, Sent(state'))
      /\ Seen'.velocity = Seen.velocity /\ Seen'.backgroundError = Seen.backgroundError
      /\ Seen'.stale = stale'
  BY <1>1, <1>2, <1>4, SectionEnds
<1>6. Sent(state') = found
  <2>1. \A c \in Controls : device[c] = found[c]
    BY <1>1, <1>3, <1>4, Scopes DEF FirstMethodRuns, PositionFollows, PassUntracks, PassDrives, Since
  <2>2. \A c \in Controls : work["serve"].got[c] = device[c]
    BY <1>2, <1>3 DEF CopyKept, FreshInv, FreshRead
  <2>3. RawDevice(work["serve"].got)
    BY <1>1, <1>2, ReturnedRead DEF Processes
  <2>4. \A c \in Controls : Sent(state')[c] = found[c]
    BY <1>1, <2>1, <2>2, <2>3, SentIsRead
  <2> QED
    BY <1>4, <2>4, SameRaw DEF Found
<1>7. StateOf(device) = StateOf(found)
  <2>1. \A c \in Controls : device[c] = found[c]
    BY <1>1, <1>3, <1>4, Scopes DEF FirstMethodRuns, PositionFollows, PassUntracks, PassDrives, Since
  <2> QED
    BY <2>1, Names DEF StateOf
<1>8. stale' = {}
  <2>1. stale \subseteq {"position", "zoom", "tracking"}
    BY DEF TypeInv, Types, BackendTypeOK
  <2>2. \A f \in {"position", "zoom", "tracking"} : ControlsOf(f) \subseteq fresh
    BY <1>3, FieldNames, Names
  <2> QED
    BY <1>1, <2>1, <2>2 DEF Assigned
<1>9. Shows(Seen', found, found)
  BY <1>5, <1>6, <1>7 DEF Shows
<1> QED
  BY <1>5, <1>8, <1>9, CoreReads

\* set_zoom ends.
LEMMA ZoomImplements ==
    ASSUME TypeInv, TypeInv', CopyKept, SectionInv, ~interfered, Zoomed PROVE Core!CoreNext
<1>1. /\ section.call = "zoom" /\ Returned("serve", "zoom")
      /\ state' = [state EXCEPT !.zoom = section.zoom] /\ Assigned({"zoom"})
      /\ backgroundError' = FALSE /\ UNCHANGED velocity /\ Leave
  BY DEF Zoomed
<1>2. section \in Sections /\ section # NoSection
  BY <1>1, InSection
<1>3. /\ work["serve"].method = "zoom" /\ "zoom" \in fresh
      /\ FirstMethodRuns \/ PositionFollows \/ PassUntracks \/ PassDrives
  BY <1>1, <1>2, ReturnedOwns, Scopes
<1>4. PICK found, known, after : found = Found /\ known = Known /\ after = Sent(state')
  OBVIOUS
<1>5. /\ Shows(Seen, found, known) /\ Shows(Seen', device, after) /\ RawDevice(device)
      /\ Seen'.velocity = Seen.velocity /\ Seen'.backgroundError = FALSE
      /\ Seen'.stale = stale' /\ Seen.stale = before.stale
  BY <1>1, <1>2, <1>4, SectionEnds
<1>6. Since(found, known, before.stale)
  BY <1>1, <1>3, <1>4 DEF FirstMethodRuns, PositionFollows, PassUntracks, PassDrives
<1>7. \A c \in Controls \ {"zoom"} : device[c] = found[c]
  BY <1>3, <1>6, Scopes DEF Since
<1>8. device["zoom"] = Raw(section.zoom) /\ "zoom" \in stale
  BY <1>1, <1>2, <1>3, ReturnedAims
<1>9. after["zoom"] = device["zoom"] /\ \A c \in Controls \ {"zoom"} : after[c] = known[c]
  <2>1. Types /\ Sent(state) = known
    BY <1>6 DEF TypeInv, Since
  <2> QED
    BY <1>1, <1>4, <1>8, <2>1, SentAssigned
<1>10. stale' = before.stale \ {"zoom"}
  <2>1. before.stale \subseteq stale /\ stale \subseteq before.stale \cup {"zoom"}
    BY <1>3, <1>6, Scopes, FieldNames DEF Since, FieldsOf
  <2>2. ControlsOf("zoom") \subseteq fresh
    BY <1>3, FieldNames
  <2> QED
    BY <1>1, <2>1, <2>2 DEF Assigned
<1>11. /\ StateOf(device).position = StateOf(found).position
       /\ StateOf(device).tracking = StateOf(found).tracking
       /\ StateOf(after).position = StateOf(known).position
       /\ StateOf(after).tracking = StateOf(known).tracking
       /\ StateOf(after).zoom = StateOf(device).zoom /\ StateOf(device).zoom \in Zooms
  <2>1. \A a \in Axes : device[a] = found[a] /\ after[a] = known[a]
    BY <1>7, <1>9, Names
  <2>2. device["tracking"] = found["tracking"] /\ after["tracking"] = known["tracking"]
    BY <1>7, <1>9, Names
  <2>3. StateOf(device).position = StateOf(found).position
        /\ StateOf(after).position = StateOf(known).position
    BY <2>1 DEF StateOf
  <2>4. StateOf(device).tracking = StateOf(found).tracking /\ StateOf(after).tracking = StateOf(known).tracking
    BY <2>2 DEF StateOf
  <2>5. StateOf(after).zoom = StateOf(device).zoom
    BY <1>9 DEF StateOf
  <2>6. StateOf(device).zoom \in Zooms
    BY <1>5, StateRead
  <2> QED
    BY <2>3, <2>4, <2>5, <2>6
<1> QED
  BY <1>5, <1>10, <1>11, CoreZoomSet

\* set_tracking ends.
LEMMA TrackingImplements ==
    ASSUME TypeInv, TypeInv', CopyKept, SectionInv, ~interfered, TrackingSet PROVE Core!CoreNext
<1>1. /\ section.call = "tracking" /\ Returned("serve", "tracking")
      /\ state' = [state EXCEPT !.tracking = section.tracking] /\ Assigned({"tracking"})
      /\ backgroundError' = FALSE /\ UNCHANGED velocity /\ Leave
  BY DEF TrackingSet
<1>2. section \in Sections /\ section # NoSection
  BY <1>1, InSection
<1>3. /\ work["serve"].method = "tracking" /\ "tracking" \in fresh
      /\ FirstMethodRuns \/ PositionFollows \/ PassUntracks \/ PassDrives
  BY <1>1, <1>2, ReturnedOwns, Scopes
<1>4. PICK found, known, after : found = Found /\ known = Known /\ after = Sent(state')
  OBVIOUS
<1>5. /\ Shows(Seen, found, known) /\ Shows(Seen', device, after) /\ RawDevice(device)
      /\ Seen'.velocity = Stopped /\ Seen'.backgroundError = FALSE
      /\ Seen'.stale = stale' /\ Seen.stale = before.stale
  BY <1>1, <1>2, <1>4, SectionEnds
<1>6. Since(found, known, before.stale)
  BY <1>1, <1>3, <1>4 DEF FirstMethodRuns, PositionFollows, PassUntracks, PassDrives
<1>7. \A c \in Controls \ {"tracking"} : device[c] = found[c]
  BY <1>3, <1>6, Scopes DEF Since
<1>8. device["tracking"] = Bit(section.tracking) /\ "tracking" \in stale
  BY <1>1, <1>2, <1>3, ReturnedAims
<1>9. after["tracking"] = device["tracking"] /\ \A c \in Controls \ {"tracking"} : after[c] = known[c]
  <2>1. Types /\ Sent(state) = known
    BY <1>6 DEF TypeInv, Since
  <2> QED
    BY <1>1, <1>4, <1>8, <2>1, SentAssigned
<1>10. stale' = before.stale \ {"tracking"}
  <2>1. before.stale \subseteq stale /\ stale \subseteq before.stale \cup {"tracking"}
    BY <1>3, <1>6, Scopes, FieldNames DEF Since, FieldsOf
  <2>2. ControlsOf("tracking") \subseteq fresh
    BY <1>3, FieldNames
  <2> QED
    BY <1>1, <2>1, <2>2 DEF Assigned
<1>11. /\ StateOf(device).position = StateOf(found).position
       /\ StateOf(device).zoom = StateOf(found).zoom
       /\ StateOf(after).position = StateOf(known).position
       /\ StateOf(after).zoom = StateOf(known).zoom
       /\ StateOf(after).tracking = StateOf(device).tracking /\ StateOf(device).tracking \in BOOLEAN
  <2>1. \A a \in Axes : device[a] = found[a] /\ after[a] = known[a]
    BY <1>7, <1>9, Names
  <2>2. device["zoom"] = found["zoom"] /\ after["zoom"] = known["zoom"]
    BY <1>7, <1>9, Names
  <2>3. StateOf(device).position = StateOf(found).position
        /\ StateOf(after).position = StateOf(known).position
    BY <2>1 DEF StateOf
  <2>4. StateOf(device).zoom = StateOf(found).zoom /\ StateOf(after).zoom = StateOf(known).zoom
    BY <2>2 DEF StateOf
  <2>5. StateOf(after).tracking = StateOf(device).tracking
    BY <1>9 DEF StateOf
  <2>6. StateOf(device).tracking \in BOOLEAN
    BY <1>5, StateRead
  <2> QED
    BY <2>3, <2>4, <2>5, <2>6
<1> QED
  BY <1>5, <1>10, <1>11, CoreTrackingSet

\* What a section that returned from set_position has done to the camera: D
\* but for the axes, which hold the position; and the copy has it too.
LEMMA PositionReturned ==
    ASSUME TypeInv, TypeInv', CopyKept, SectionInv, section # NoSection, ~interfered,
           section.call \in {"position", "pass"}, Returned("serve", "position"), Leave,
           NEW D, NEW K, NEW O, Since(D, K, O), NEW t, NEW after, after = Sent(state'),
           \/ state' = [state EXCEPT !.position = section.position] /\ t = K["tracking"]
           \/ /\ state' = [state EXCEPT !.position = section.position, !.tracking = FALSE]
              /\ t = 0
    PROVE  /\ StateOf(device).zoom = StateOf(D).zoom /\ StateOf(device).tracking = StateOf(D).tracking
           /\ StateOf(after).zoom = StateOf(K).zoom /\ after["tracking"] = t
           /\ StateOf(after).position = StateOf(device).position
           /\ "position" \in stale /\ Axes \subseteq fresh
           /\ O \subseteq stale /\ stale \subseteq O \cup {"position"}
<1>0. Types
  BY DEF TypeInv
<1>1. Types /\ section \in Sections /\ work["serve"].method = "position" /\ Axes \subseteq fresh
  BY ReturnedOwns, Scopes DEF TypeInv, ServePlaced
<1>2. \A c \in Controls \ Axes : device[c] = D[c]
  BY <1>1, Scopes DEF Since
<1>3. \A a \in Axes : device[a] = Raw(section.position[a]) /\ "position" \in stale
  BY <1>1, ReturnedAims
<1>4. Sent(state) = K
  BY DEF Since
<1>5. /\ \A a \in Axes : after[a] = Raw(section.position[a])
      /\ after["zoom"] = K["zoom"] /\ after["tracking"] = t
  <2>1. CASE state' = [state EXCEPT !.position = section.position] /\ t = K["tracking"]
    <3>1. PICK p : p = section.position
      OBVIOUS
    <3>2. after = Sent([state EXCEPT !.position = p])
      BY <2>1, <3>1
    <3>3. \A a \in Axes : Sent([state EXCEPT !.position = p])[a] = Raw(p[a])
      BY <1>1, SentAssigned
    <3>4. \A c \in Controls \ Axes : Sent([state EXCEPT !.position = p])[c] = Sent(state)[c]
      BY <1>1, SentAssigned
    <3> QED
      BY <1>4, <2>1, <3>1, <3>2, <3>3, <3>4, Names
  <2>2. CASE /\ state' = [state EXCEPT !.position = section.position, !.tracking = FALSE]
             /\ t = 0
    <3>1. PICK p, off : p = section.position /\ off = FALSE
      OBVIOUS
    <3>2. after = Sent([state EXCEPT !.position = p, !.tracking = off])
      BY <2>2, <3>1
    <3>3. /\ \A a \in Axes : Sent([state EXCEPT !.position = p, !.tracking = off])[a] = Raw(p[a])
          /\ Sent([state EXCEPT !.position = p, !.tracking = off])["tracking"] = Bit(off)
          /\ Sent([state EXCEPT !.position = p, !.tracking = off])["zoom"] = Sent(state)["zoom"]
      BY ONLY <1>0, SentAssigned
    <3>4. Bit(off) = 0
      BY <3>1 DEF Bit
    <3> QED
      BY ONLY <1>4, <2>2, <3>1, <3>2, <3>3, <3>4
  <2> QED
    BY <2>1, <2>2
<1>6. \A a \in Axes : after[a] = device[a]
  BY <1>3, <1>5
<1>7. device["zoom"] = D["zoom"] /\ device["tracking"] = D["tracking"]
  BY <1>2, Names
<1>8. StateOf(device).zoom = StateOf(D).zoom /\ StateOf(device).tracking = StateOf(D).tracking
  BY <1>7 DEF StateOf
<1>9. StateOf(after).zoom = StateOf(K).zoom
  BY <1>5 DEF StateOf
<1>10. StateOf(after).position = StateOf(device).position
  BY <1>6 DEF StateOf
<1>11. O \subseteq stale /\ stale \subseteq O \cup {"position"}
  BY <1>1, Scopes, FieldNames DEF Since, FieldsOf
<1>12. "position" \in stale
  BY <1>3, Names
<1> QED
  BY <1>1, <1>5, <1>8, <1>9, <1>10, <1>11, <1>12

\* set_position ends.
LEMMA PositionImplements ==
    ASSUME TypeInv, TypeInv', CopyKept, SectionInv, ~interfered, PositionMoved PROVE Core!CoreNext
<1>1. /\ section.call = "position" /\ Returned("serve", "position")
      /\ state' = [state EXCEPT !.position = section.position, !.tracking = FALSE]
      /\ Assigned({"position", "tracking"})
      /\ backgroundError' = FALSE /\ UNCHANGED velocity /\ Leave
  BY DEF PositionMoved
<1>2. section \in Sections /\ section # NoSection
  BY <1>1, InSection
<1>3. /\ work["serve"].method = "position" /\ ~work["serve"].threw
      /\ FirstMethodRuns \/ PositionFollows \/ PassUntracks \/ PassDrives
  BY <1>1, <1>2, ReturnedOwns
<1>4. PICK found, known, after : found = Found /\ known = Known /\ after = Sent(state')
  OBVIOUS
<1>5. /\ Shows(Seen, found, known) /\ Shows(Seen', device, after) /\ RawDevice(device)
      /\ Seen'.velocity = Stopped /\ Seen'.backgroundError = FALSE
      /\ Seen'.stale = stale' /\ Seen.stale = before.stale
  BY <1>1, <1>2, <1>4, SectionEnds
<1>6. FreshUntracked
  BY <1>1, <1>2, <1>3 DEF CopyKept, FreshInv
<1>7. ASSUME NEW D, Since(D, known, before.stale) \/ Since(D, known, before.stale \cup {"tracking"})
      PROVE  /\ StateOf(device).zoom = StateOf(D).zoom
             /\ StateOf(device).tracking = StateOf(D).tracking
             /\ StateOf(after).zoom = StateOf(known).zoom
             /\ StateOf(after).tracking = FALSE
             /\ StateOf(after).position = StateOf(device).position
             /\ "position" \in stale /\ Axes \subseteq fresh
             /\ before.stale \subseteq stale
             /\ stale \subseteq before.stale \cup {"tracking", "position"}
             /\ state.tracking <=> known["tracking"] # 0
  <2>1. PICK O : /\ Since(D, known, O) /\ before.stale \subseteq O
                 /\ O \subseteq before.stale \cup {"tracking"}
    BY <1>7
  <2>2. /\ StateOf(device).zoom = StateOf(D).zoom
        /\ StateOf(device).tracking = StateOf(D).tracking
        /\ StateOf(after).zoom = StateOf(known).zoom /\ after["tracking"] = 0
        /\ StateOf(after).position = StateOf(device).position
        /\ "position" \in stale /\ Axes \subseteq fresh
        /\ O \subseteq stale /\ stale \subseteq O \cup {"position"}
    BY <1>1, <1>2, <1>4, <2>1, PositionReturned
  <2>3. StateOf(after).tracking = FALSE
    BY <2>2, StateAlike
  <2>4. state.tracking <=> known["tracking"] # 0
    <3>1. Sent(state)["tracking"] = Bit(state.tracking) /\ state.tracking \in BOOLEAN
      BY Names DEF Sent, TypeInv, Types, BackendTypeOK
    <3> QED
      BY <2>1, <3>1 DEF Since, Bit
  <2> QED
    BY <2>1, <2>2, <2>3, <2>4
<1>8. CASE FirstMethodRuns
  <2>1. known["tracking"] = 0 /\ Since(found, known, before.stale)
    BY <1>1, <1>3, <1>4, <1>8 DEF FirstMethodRuns
  <2>2. /\ StateOf(device).zoom = StateOf(found).zoom
        /\ StateOf(device).tracking = StateOf(found).tracking
        /\ StateOf(after).zoom = StateOf(known).zoom
        /\ StateOf(after).tracking = FALSE
        /\ StateOf(after).position = StateOf(device).position
        /\ "position" \in stale /\ Axes \subseteq fresh
        /\ before.stale \subseteq stale /\ ~state.tracking
    BY <1>7, <2>1
  <2>3. stale \subseteq before.stale \cup {"position"}
    BY <1>3, <2>1, Scopes, FieldNames DEF Since, FieldsOf
  <2>4. "tracking" \notin fresh
    BY <1>6, <2>2 DEF FreshUntracked
  <2>5. stale' = before.stale \ {"position"}
    <3>1. ControlsOf("position") \subseteq fresh /\ ~(ControlsOf("tracking") \subseteq fresh)
      BY <2>2, <2>4, FieldNames
    <3> QED
      BY <1>1, <2>2, <2>3, <3>1 DEF Assigned
  <2>6. StateOf(known).tracking = FALSE
    BY <2>1, StateAlike
  <2> QED
    BY <1>5, <2>2, <2>5, <2>6, CorePositionSet
<1>9. CASE PositionFollows
  <2>1. PICK calm : calm = Untracked(found)
    OBVIOUS
  <2>2. /\ known["tracking"] # 0 /\ "tracking" \in fresh
        /\ Since(calm, known, before.stale \cup {"tracking"})
    BY <1>1, <1>3, <1>4, <1>9, <2>1 DEF PositionFollows
  <2>3. /\ StateOf(device).zoom = StateOf(calm).zoom
        /\ StateOf(device).tracking = StateOf(calm).tracking
        /\ StateOf(after).zoom = StateOf(known).zoom
        /\ StateOf(after).tracking = FALSE
        /\ StateOf(after).position = StateOf(device).position
        /\ "position" \in stale /\ Axes \subseteq fresh
        /\ before.stale \subseteq stale
        /\ stale \subseteq before.stale \cup {"tracking", "position"}
    BY <1>7, <2>2
  <2>4. stale' = before.stale \ {"position", "tracking"}
    <3>1. ControlsOf("position") \subseteq fresh /\ ControlsOf("tracking") \subseteq fresh
      BY <2>2, <2>3, FieldNames
    <3> QED
      BY <1>1, <2>3, <3>1 DEF Assigned
  <2>5. StateOf(known).tracking = TRUE
    BY <2>2, StateAlike
  <2>6. StateOf(device).zoom = StateOf(found).zoom /\ StateOf(device).tracking = FALSE
    <3>1. calm["zoom"] = found["zoom"] /\ calm["tracking"] = 0
      BY <2>1, SameRaw, Names
    <3>2. StateOf(calm).zoom = StateOf(found).zoom /\ StateOf(calm).tracking = FALSE
      BY <3>1 DEF StateOf
    <3> QED
      BY <2>3, <3>2
  <2> QED
    BY <1>5, <2>3, <2>4, <2>5, <2>6, CorePositionSet
<1>10. ~PassUntracks /\ ~PassDrives
  BY <1>1 DEF PassUntracks, PassDrives
<1> QED
  BY <1>3, <1>8, <1>9, <1>10

\* A pass ends.
LEMMA PassImplements ==
    ASSUME TypeInv, TypeInv', CopyKept, SectionInv, ~interfered, PassMoved PROVE Core!CoreNext
<1>1. /\ section.call = "pass" /\ Returned("serve", "position")
      /\ state' = [state EXCEPT !.position = section.position] /\ Assigned({"position"})
      /\ backgroundError' = FALSE /\ UNCHANGED velocity /\ Leave
  BY DEF PassMoved
<1>2. section \in Sections /\ section # NoSection
  BY <1>1, InSection
<1>3. /\ work["serve"].method = "position" /\ ~work["serve"].threw
      /\ FirstMethodRuns \/ PositionFollows \/ PassUntracks \/ PassDrives
  BY <1>1, <1>2, ReturnedOwns
<1>4. PICK found, known, after : found = Found /\ known = Known /\ after = Sent(state')
  OBVIOUS
<1>5. /\ Shows(Seen, found, known) /\ Shows(Seen', device, after) /\ RawDevice(device)
      /\ Seen'.velocity = Seen.velocity /\ Seen'.backgroundError = FALSE
      /\ Seen'.stale = stale' /\ Seen.stale = before.stale /\ IsMoving(Seen.velocity)
  BY <1>1, <1>2, <1>4, SectionEnds
<1>6. ASSUME NEW D, NEW K, NEW O, Since(D, K, O)
      PROVE  /\ StateOf(device).zoom = StateOf(D).zoom
             /\ StateOf(device).tracking = StateOf(D).tracking
             /\ StateOf(after).zoom = StateOf(K).zoom
             /\ StateOf(after).tracking = StateOf(K).tracking
             /\ StateOf(after).position = StateOf(device).position
             /\ stale' = O \ {"position"}
  <2>1. PICK t : t = K["tracking"]
    OBVIOUS
  <2>2. /\ StateOf(device).zoom = StateOf(D).zoom
        /\ StateOf(device).tracking = StateOf(D).tracking
        /\ StateOf(after).zoom = StateOf(K).zoom /\ after["tracking"] = t
        /\ StateOf(after).position = StateOf(device).position
        /\ "position" \in stale /\ Axes \subseteq fresh
        /\ O \subseteq stale /\ stale \subseteq O \cup {"position"}
    BY <1>1, <1>2, <1>4, <1>6, <2>1, PositionReturned
  <2>3. StateOf(after).tracking = StateOf(K).tracking
    BY <2>1, <2>2 DEF StateOf
  <2>4. stale' = O \ {"position"}
    <3>1. ControlsOf("position") \subseteq fresh
      BY <2>2, FieldNames
    <3> QED
      BY <1>1, <2>2, <3>1 DEF Assigned
  <2> QED
    BY <2>2, <2>3, <2>4
<1>7. CASE FirstMethodRuns
  <2>1. Since(found, known, before.stale)
    BY <1>4, <1>7 DEF FirstMethodRuns
  <2>2. PICK starting \in BOOLEAN : starting = FALSE
    OBVIOUS
  <2>3. Core!Base(starting) = StateOf(known)
    BY <1>5, <2>2, CoreBase
  <2>4. StateOf(device).tracking = Core!TrackingLeft(starting)
    <3>1. StateOf(device).tracking = IF starting THEN FALSE ELSE StateOf(found).tracking
      BY <1>6, <2>1, <2>2
    <3> QED
      BY <1>5, <3>1, CoreTrackingLeft
  <2>5. /\ StateOf(device).zoom = StateOf(found).zoom
        /\ StateOf(after).zoom = StateOf(known).zoom
        /\ StateOf(after).tracking = StateOf(known).tracking
        /\ StateOf(after).position = StateOf(device).position
        /\ stale' = IF starting THEN {} ELSE before.stale \ {"position"}
    BY <1>6, <2>1, <2>2
  <2> QED
    BY <1>5, <2>3, <2>4, <2>5, CoreDrives
<1>8. CASE PassDrives
  <2>0. PICK starting \in BOOLEAN : starting = TRUE
    OBVIOUS
  <2>1. PICK calm : calm = Untracked(found) /\ starting = TRUE
    BY <2>0
  <2>2. Since(calm, calm, {})
    BY <1>4, <1>8, <2>1 DEF PassDrives
  <2>3. Core!Base(starting) = StateOf(calm)
    BY <1>5, <2>1, CoreBase
  <2>4. calm["zoom"] = found["zoom"] /\ calm["tracking"] = 0
    BY <2>1, SameRaw, Names
  <2>5. StateOf(calm).zoom = StateOf(found).zoom /\ StateOf(calm).tracking = FALSE
    BY <2>4 DEF StateOf
  <2>6. /\ StateOf(device).zoom = StateOf(found).zoom
        /\ StateOf(device).tracking = FALSE
        /\ StateOf(after).zoom = StateOf(calm).zoom /\ StateOf(after).tracking = StateOf(calm).tracking
        /\ StateOf(after).position = StateOf(device).position
        /\ stale' = IF starting THEN {} ELSE before.stale \ {"position"}
    BY <1>6, <2>1, <2>2, <2>5
  <2>7. StateOf(device).tracking = Core!TrackingLeft(starting)
    BY <1>5, <2>1, <2>6, CoreTrackingLeft
  <2> QED
    BY <1>5, <2>3, <2>6, <2>7, CoreDrives
<1>9. ~PositionFollows /\ ~PassUntracks
  BY <1>1, <1>3 DEF PositionFollows, PassUntracks
<1> QED
  BY <1>3, <1>7, <1>8, <1>9

\* What a section has done whose method threw: part of the method.
LEMMA ThrownSince ==
    ASSUME TypeInv, SectionInv, ~interfered, SectionThrows, NEW D, NEW K, NEW O, Since(D, K, O)
    PROVE  /\ Sent(state') = K
           /\ work["serve"].method = "read" => StateOf(device) = StateOf(D) /\ stale' = O
           /\ work["serve"].method = "zoom" =>
                 /\ StateOf(device).position = StateOf(D).position
                 /\ StateOf(device).tracking = StateOf(D).tracking
                 /\ \E z \in Zooms :
                       StateOf(device).zoom = z \/ StateOf(device).zoom = StateOf(D).zoom
                 /\ stale' = O \cup {"zoom"}
           /\ work["serve"].method = "tracking" =>
                 /\ StateOf(device).position = StateOf(D).position
                 /\ StateOf(device).zoom = StateOf(D).zoom
                 /\ \/ StateOf(device).tracking = (section.call = "tracking" /\ section.tracking)
                    \/ StateOf(device).tracking = StateOf(D).tracking
                 /\ stale' = O \cup {"tracking"}
           /\ work["serve"].method = "position" =>
                 /\ StateOf(device).zoom = StateOf(D).zoom
                 /\ StateOf(device).tracking = StateOf(D).tracking
                 /\ \E p \in Core!Positions :
                       StateOf(device).position \in Core!TornPositions(StateOf(D).position, p)
                 /\ stale' = O \cup {"position"}
<1>1. /\ section \in Sections /\ section # NoSection /\ Working("serve") /\ work["serve"].threw
      /\ UNCHANGED <<state, stale>>
  BY ThrewInSection DEF SectionThrows, Threw
<1>2. PICK name : name = work["serve"].method
  OBVIOUS
<1>3. Sent(state') = K
  BY <1>1 DEF Since
<1>4. \A c \in Controls : \/ device[c] = D[c]
                          \/ c \in Scope(name) /\ device[c] = SectionAim(section)[c]
  BY <1>2 DEF Since, Aim
<1>5. name \in {"zoom", "tracking", "position"} => stale' = O \cup {name}
  <2>1. ASSUME name \in {"zoom", "tracking", "position"} PROVE stale' = O \cup {name}
    <3>1. FieldsOf(Scope(name)) = {name}
      BY <2>1, ScopeIsOneField, Scopes, Names
    <3> QED
      BY <1>1, <1>2, <2>1, <3>1 DEF Since
  <2> QED
    BY <2>1
<1>6. ASSUME name = "read" PROVE StateOf(device) = StateOf(D) /\ stale' = O
  <2>1. \A c \in Controls : device[c] = D[c]
    BY <1>4, <1>6, Scopes
  <2>2. StateOf(device) = StateOf(D)
    BY <2>1, Names DEF StateOf
  <2>3. stale' = O
    BY <1>1, <1>2, <1>6, Scopes DEF Since, FieldsOf
  <2> QED
    BY <2>2, <2>3
<1>7. ASSUME name = "zoom"
      PROVE  /\ StateOf(device).position = StateOf(D).position
             /\ StateOf(device).tracking = StateOf(D).tracking
             /\ \E z \in Zooms : StateOf(device).zoom = z \/ StateOf(device).zoom = StateOf(D).zoom
  <2>1. /\ \A a \in Axes : device[a] = D[a]
        /\ device["tracking"] = D["tracking"]
    BY <1>4, <1>7, Scopes, Names
  <2>2. StateOf(device).zoom \in Zooms
    BY StateRead, DeviceLegal DEF TypeInv
  <2> QED
    BY <2>1, <2>2, StateAlike
<1>8. ASSUME name = "tracking"
      PROVE  /\ StateOf(device).position = StateOf(D).position
             /\ StateOf(device).zoom = StateOf(D).zoom
             /\ \/ StateOf(device).tracking = (section.call = "tracking" /\ section.tracking)
                \/ StateOf(device).tracking = StateOf(D).tracking
  <2>1. /\ \A a \in Axes : device[a] = D[a]
        /\ device["zoom"] = D["zoom"]
    BY <1>4, <1>8, Scopes, Names
  <2>2. \/ device["tracking"] = D["tracking"]
        \/ device["tracking"] = Bit(section.call = "tracking" /\ section.tracking)
    BY <1>4, Names DEF SectionAim
  <2>3. ASSUME device["tracking"] = Bit(section.call = "tracking" /\ section.tracking)
        PROVE  StateOf(device).tracking = (section.call = "tracking" /\ section.tracking)
    <3>1. CASE section.call = "tracking" /\ section.tracking
      <4>1. device["tracking"] # 0
        BY <2>3, <3>1 DEF Bit
      <4> QED
        BY <3>1, <4>1, StateAlike
    <3>2. CASE ~(section.call = "tracking" /\ section.tracking)
      <4>1. device["tracking"] = 0
        BY <2>3, <3>2 DEF Bit
      <4> QED
        BY <3>2, <4>1, StateAlike
    <3> QED
      BY <3>1, <3>2
  <2> QED
    BY <2>1, <2>2, <2>3, StateAlike
<1>9. ASSUME name = "position"
      PROVE  /\ StateOf(device).zoom = StateOf(D).zoom
             /\ StateOf(device).tracking = StateOf(D).tracking
             /\ \E p \in Core!Positions :
                   StateOf(device).position \in Core!TornPositions(StateOf(D).position, p)
  <2>1. device["zoom"] = D["zoom"] /\ device["tracking"] = D["tracking"]
    BY <1>4, <1>9, Scopes, Names
  <2>2. StateOf(device).position \in Core!Positions
    BY CorePositions, DeviceLegal DEF TypeInv
  <2>3. StateOf(device).position
           \in Core!TornPositions(StateOf(D).position, StateOf(device).position)
    <3>1. \A a \in Axes : StateOf(device).position[a] = FromRaw(device[a])
      BY DEF StateOf
    <3> QED
      BY <3>1, CoreTorn
  <2> QED
    BY <2>1, <2>2, <2>3, StateAlike
<1> QED
  BY <1>2, <1>3, <1>5, <1>6, <1>7, <1>8, <1>9

\* A section that fails does what a call of the core does that fails, or a
\* pass; a status() that fails leaves everything as it was.
LEMMA ThrowImplements ==
    ASSUME TypeInv, TypeInv', SectionInv, ~interfered, SectionThrows
    PROVE  Core!CoreNext \/ Seen' = Seen
<1>1. /\ section \in Sections /\ section # NoSection /\ work["serve"].threw
      /\ ServePlace(section.call, work["serve"].method) /\ Leave
      /\ IF section.call = "pass" THEN velocity' = Stopped /\ backgroundError' = TRUE
                                  ELSE UNCHANGED <<velocity, backgroundError>>
  BY ThrewInSection DEF SectionThrows, Threw, TypeInv, ServePlaced
<1>2. PICK found, known, after, old :
          found = Found /\ known = Known /\ after = Sent(state') /\ old = before.stale
  OBVIOUS
<1>3. /\ Shows(Seen, found, known) /\ Shows(Seen', device, after) /\ RawDevice(device)
      /\ Seen.backgroundError = backgroundError /\ Seen.stale = old
      /\ Seen'.velocity = velocity' /\ Seen'.backgroundError = backgroundError'
      /\ Seen'.stale = stale'
      /\ velocity = IF section.call \in {"position", "tracking"} THEN Stopped ELSE Seen.velocity
      /\ section.call = "pass" => IsMoving(Seen.velocity)
  BY <1>1, <1>2, SectionEnds
<1>4. FirstMethodRuns \/ PositionFollows \/ PassUntracks \/ PassDrives
  BY <1>1 DEF SectionInv
<1>5. section.call \in {"position", "tracking"} =>
         Seen'.velocity = Stopped /\ Seen'.backgroundError = Seen.backgroundError
  BY <1>1, <1>3
<1>6. section.call \in {"status", "zoom"} =>
         Seen'.velocity = Seen.velocity /\ Seen'.backgroundError = Seen.backgroundError
  BY <1>1, <1>3
<1>7. section.call = "pass" =>
         Seen'.velocity = Stopped /\ Seen'.backgroundError = TRUE /\ IsMoving(Seen.velocity)
  BY <1>1, <1>3
<1>8. FirstMethodRuns => Since(found, known, old)
  BY <1>2 DEF FirstMethodRuns
<1>9. CASE section.call = "status"
  <2>1. Since(found, known, old) /\ work["serve"].method = "read"
    BY <1>1, <1>4, <1>8, <1>9 DEF PositionFollows, PassUntracks, PassDrives, ServePlace
  <2>2. after = known /\ StateOf(device) = StateOf(found) /\ stale' = old
    BY <1>2, <2>1, ThrownSince
  <2>3. UNCHANGED <<velocity, backgroundError>>
    BY <1>1, <1>9
  <2>4. Seen = [camera |-> StateOf(found), state |-> StateOf(known),
                velocity |-> before.velocity, backgroundError |-> before.backgroundError,
                stale |-> old]
    BY <1>1, <1>2, SectionEnds
  <2>5. Seen' = [camera |-> StateOf(device), state |-> StateOf(after), velocity |-> velocity',
                 backgroundError |-> backgroundError', stale |-> stale']
    BY <1>1, <1>2, SectionEnds
  <2>6. before.velocity = velocity /\ before.backgroundError = backgroundError
    BY <1>1, <1>9 DEF SectionInv, Snapshot
  <2>7. Seen' = Seen
    BY ONLY <2>2, <2>3, <2>4, <2>5, <2>6
  <2> QED
    BY <2>7
<1>10. CASE section.call = "zoom"
  <2>1. Since(found, known, old) /\ work["serve"].method = "zoom"
    BY <1>1, <1>4, <1>8, <1>10 DEF PositionFollows, PassUntracks, PassDrives, ServePlace
  <2>2. /\ after = known /\ StateOf(device).position = StateOf(found).position
        /\ StateOf(device).tracking = StateOf(found).tracking
        /\ \E z \in Zooms : StateOf(device).zoom = z \/ StateOf(device).zoom = StateOf(found).zoom
        /\ stale' = old \cup {"zoom"}
    BY <1>2, <2>1, ThrownSince
  <2>3. Shows(Seen', device, known) /\ Seen'.stale = Seen.stale \cup {"zoom"}
    BY <1>3, <2>2
  <2> QED
    BY <1>3, <1>6, <1>10, <2>2, <2>3, CoreZoomFails
<1>11. CASE section.call = "tracking"
  <2>1. Since(found, known, old) /\ work["serve"].method = "tracking"
    BY <1>1, <1>4, <1>8, <1>11 DEF PositionFollows, PassUntracks, PassDrives, ServePlace
  <2>2. PICK t \in BOOLEAN : t = (section.call = "tracking" /\ section.tracking)
    OBVIOUS
  <2>3. /\ after = known /\ StateOf(device).position = StateOf(found).position
        /\ StateOf(device).zoom = StateOf(found).zoom
        /\ StateOf(device).tracking = t \/ StateOf(device).tracking = StateOf(found).tracking
        /\ stale' = old \cup {"tracking"}
    BY <1>2, <2>1, <2>2, ThrownSince
  <2>4. Shows(Seen', device, known) /\ Seen'.stale = Seen.stale \cup {"tracking"}
    BY <1>3, <2>3
  <2> QED
    BY <1>3, <1>5, <1>11, <2>3, <2>4, CoreTrackingFails
<1>12. CASE section.call = "position"
  <2>1. ~PassUntracks /\ ~PassDrives
    BY <1>12 DEF PassUntracks, PassDrives
  <2>2. CASE FirstMethodRuns /\ work["serve"].method = "tracking"
    <3>1. known["tracking"] # 0 /\ Since(found, known, old)
      BY <1>2, <1>8, <1>12, <2>2 DEF FirstMethodRuns
    <3>2. PICK t : t = (section.call = "tracking" /\ section.tracking)
      OBVIOUS
    <3>3. /\ after = known /\ StateOf(device).position = StateOf(found).position
          /\ StateOf(device).zoom = StateOf(found).zoom
          /\ StateOf(device).tracking = t \/ StateOf(device).tracking = StateOf(found).tracking
          /\ stale' = old \cup {"tracking"}
      BY <1>2, <2>2, <3>1, <3>2, ThrownSince
    <3>4. t = FALSE
      BY <1>12, <3>2
    <3>5. /\ Shows(Seen', device, known) /\ Seen'.stale = Seen.stale \cup {"tracking"}
          /\ StateOf(device).tracking = FALSE \/ StateOf(device).tracking = StateOf(found).tracking
      BY <1>3, <3>3, <3>4
    <3>6. StateOf(known).tracking
      BY <3>1, StateAlike
    <3> QED
      BY <1>3, <1>5, <1>12, <3>3, <3>5, <3>6, CorePositionTrackingFails
  <2>3. CASE FirstMethodRuns /\ work["serve"].method = "position"
    <3>1. known["tracking"] = 0 /\ Since(found, known, old)
      BY <1>2, <1>8, <1>12, <2>3 DEF FirstMethodRuns
    <3>2. /\ after = known /\ StateOf(device).zoom = StateOf(found).zoom
          /\ StateOf(device).tracking = StateOf(found).tracking
          /\ stale' = old \cup {"position"}
      BY <1>2, <2>3, <3>1, ThrownSince
    <3>3. PICK p \in Core!Positions :
              StateOf(device).position \in Core!TornPositions(StateOf(found).position, p)
      BY <2>3, <3>1, ThrownSince
    <3>4. StateOf(known).tracking = FALSE
      BY <3>1, StateAlike
    <3>5. Shows(Seen', device, known) /\ Seen'.stale = Seen.stale \cup {"position"}
      BY <1>3, <3>2
    <3> QED
      BY <1>3, <1>5, <1>12, <3>2, <3>3, <3>4, <3>5, CorePositionWriteFails
  <2>4. CASE PositionFollows
    <3>1. PICK calm, stained : calm = Untracked(found) /\ stained = old \cup {"tracking"}
      OBVIOUS
    <3>2. /\ known["tracking"] # 0 /\ Since(calm, known, stained)
          /\ work["serve"].method = "position"
      BY <1>2, <2>4, <3>1 DEF PositionFollows
    <3>3. /\ after = known /\ StateOf(device).zoom = StateOf(calm).zoom
          /\ StateOf(device).tracking = StateOf(calm).tracking
          /\ stale' = stained \cup {"position"}
      BY <1>2, <3>2, ThrownSince
    <3>4. PICK p \in Core!Positions :
              StateOf(device).position \in Core!TornPositions(StateOf(calm).position, p)
      BY <3>2, ThrownSince
    <3>5. StateOf(known).tracking = TRUE
      BY <3>2, StateAlike
    <3>6. /\ StateOf(calm).zoom = StateOf(found).zoom /\ StateOf(calm).tracking = FALSE
          /\ StateOf(calm).position = StateOf(found).position
      <4>1. /\ calm["zoom"] = found["zoom"] /\ calm["tracking"] = 0
            /\ \A a \in Axes : calm[a] = found[a]
        BY <3>1, SameRaw, Names
      <4>2. StateOf(calm).position = StateOf(found).position
        BY <4>1 DEF StateOf
      <4> QED
        BY <4>1, <4>2, StateAlike
    <3>7. /\ Shows(Seen', device, known)
          /\ Seen'.stale = Seen.stale \cup {"position", "tracking"}
      BY <1>3, <3>1, <3>3
    <3> QED
      BY <1>3, <1>5, <1>12, <3>3, <3>4, <3>5, <3>6, <3>7, CorePositionWriteFails
  <2> QED
    BY <1>1, <1>4, <1>12, <2>1, <2>2, <2>3, <2>4 DEF ServePlace
<1>13. CASE section.call = "pass"
  <2>1. ~PositionFollows
    BY <1>13 DEF PositionFollows
  <2>2. CASE FirstMethodRuns /\ work["serve"].method = "read"
    <3>1. after = known /\ StateOf(device) = StateOf(found) /\ stale' = old
      BY <1>2, <1>8, <2>2, ThrownSince
    <3>2. Seen'.camera = Seen.camera /\ Seen'.state = Seen.state /\ Seen'.stale = Seen.stale
      BY <1>3, <3>1 DEF Shows
    <3> QED
      BY <1>7, <1>13, <3>2, CoreDriveReadFails
  <2>3. CASE FirstMethodRuns /\ work["serve"].method = "position"
    <3>1. Since(found, known, old)
      BY <1>8, <2>3
    <3>2. PICK starting \in BOOLEAN : starting = FALSE
      OBVIOUS
    <3>3. /\ after = known /\ StateOf(device).zoom = StateOf(found).zoom
          /\ StateOf(device).tracking = StateOf(found).tracking
          /\ stale' = old \cup {"position"}
      BY <1>2, <2>3, <3>1, ThrownSince
    <3>4. PICK p \in Core!Positions :
              StateOf(device).position \in Core!TornPositions(StateOf(found).position, p)
      BY <2>3, <3>1, ThrownSince
    <3>5. Core!Base(starting) = StateOf(after)
      BY <1>3, <3>2, <3>3, CoreBase
    <3>6. StateOf(device).tracking = Core!TrackingLeft(starting)
      <4>1. StateOf(device).tracking = IF starting THEN FALSE ELSE StateOf(found).tracking
        BY <3>2, <3>3
      <4> QED
        BY <1>3, <4>1, CoreTrackingLeft
    <3>7. Seen'.stale = IF starting THEN {"position"} ELSE Seen.stale \cup {"position"}
      BY <1>3, <3>2, <3>3
    <3> QED
      BY <1>3, <1>7, <1>13, <3>3, <3>4, <3>5, <3>6, <3>7, CoreDriveWriteFails
  <2>4. CASE PassUntracks
    <3>1. /\ found["tracking"] # 0 /\ Since(found, found, {})
          /\ work["serve"].method = "tracking"
      BY <1>2, <2>4 DEF PassUntracks
    <3>2. /\ after = found /\ StateOf(device).position = StateOf(found).position
          /\ StateOf(device).zoom = StateOf(found).zoom
          /\ stale' = {} \cup {"tracking"}
      BY <1>2, <3>1, ThrownSince
    <3>3. Shows(Seen', device, found) /\ Seen'.stale = {"tracking"}
      BY <1>3, <3>2
    <3>4. StateOf(found).tracking
      BY <3>1, StateAlike
    <3> QED
      BY <1>3, <1>7, <1>13, <3>2, <3>3, <3>4, CoreDriveTrackingFails
  <2>5. CASE PassDrives
    <3>0. PICK starting \in BOOLEAN : starting = TRUE
      OBVIOUS
    <3>1. PICK calm : calm = Untracked(found) /\ starting = TRUE
      BY <3>0
    <3>2. Since(calm, calm, {}) /\ work["serve"].method = "position"
      BY <1>2, <2>5, <3>1 DEF PassDrives
    <3>3. /\ after = calm /\ StateOf(device).zoom = StateOf(calm).zoom
          /\ StateOf(device).tracking = StateOf(calm).tracking
          /\ stale' = {} \cup {"position"}
      BY <1>2, <3>2, ThrownSince
    <3>4. PICK p \in Core!Positions :
              StateOf(device).position \in Core!TornPositions(StateOf(calm).position, p)
      BY <3>2, ThrownSince
    <3>5. Core!Base(starting) = StateOf(after)
      BY <1>3, <3>1, <3>3, CoreBase
    <3>6. /\ StateOf(calm).zoom = StateOf(found).zoom /\ StateOf(calm).tracking = FALSE
          /\ StateOf(calm).position = StateOf(found).position
      <4>1. /\ calm["zoom"] = found["zoom"] /\ calm["tracking"] = 0
            /\ \A a \in Axes : calm[a] = found[a]
        BY <3>1, SameRaw, Names
      <4>2. StateOf(calm).position = StateOf(found).position
        BY <4>1 DEF StateOf
      <4> QED
        BY <4>1, <4>2, StateAlike
    <3>7. StateOf(device).tracking = Core!TrackingLeft(starting)
      <4>1. StateOf(device).tracking = IF starting THEN FALSE ELSE StateOf(found).tracking
        BY <3>1, <3>3, <3>6
      <4> QED
        BY <1>3, <4>1, CoreTrackingLeft
    <3>8. Seen'.stale = IF starting THEN {"position"} ELSE Seen.stale \cup {"position"}
      BY <1>3, <3>1, <3>3
    <3>9. /\ StateOf(device).zoom = StateOf(found).zoom
          /\ StateOf(device).position \in Core!TornPositions(StateOf(found).position, p)
      BY <3>3, <3>4, <3>6
    <3> QED
      BY <1>3, <1>7, <1>13, <3>4, <3>5, <3>7, <3>8, <3>9, CoreDriveWriteFails
  <2> QED
    BY <1>1, <1>4, <1>13, <2>1, <2>2, <2>3, <2>4, <2>5 DEF ServePlace, FirstMethodRuns
<1> QED
  BY <1>1, <1>9, <1>10, <1>11, <1>12, <1>13, SectionsSend

\* What the core sees depends on these variables.
LEMMA SeenKept ==
    /\ UNCHANGED <<device, section, state, velocity, backgroundError, before, stale>> => Seen' = Seen
    /\ section # NoSection /\ UNCHANGED <<section, before>> => Seen' = Seen
<1>1. ASSUME UNCHANGED <<device, section, state, velocity, backgroundError, before, stale>>
      PROVE  Seen' = Seen
  <2>1. Actual' = Actual
    BY <1>1 DEF Actual
  <2> QED
    BY <1>1, <2>1 DEF Seen
<1>2. ASSUME section # NoSection, UNCHANGED <<section, before>> PROVE Seen' = Seen
  BY <1>2 DEF Seen
<1> QED
  BY <1>1, <1>2

\* The steps of a section: only its last one shows.
LEMMA ContinueImplements ==
    ASSUME TypeInv, TypeInv', CopyKept, SectionInv, ~interfered, Continue
    PROVE  Core!CoreNext \/ Seen' = Seen
<1>1. CASE PassRead \/ PassUntracked \/ PositionUntracked
  <2>1. section.call # "none" /\ UNCHANGED <<section, before>>
    BY <1>1 DEF PassRead, PassUntracked, PositionUntracked, Proceed
  <2> QED
    BY <2>1, InSection, SeenKept
<1> QED
  BY <1>1, StatusImplements, PassImplements, PositionImplements, ZoomImplements,
     TrackingImplements, ThrowImplements DEF Continue

\* A call that locks changes nothing yet; set_velocity does at once.
LEMMA EnterImplements ==
    ASSUME TypeInv, TypeInv', Enter PROVE Core!CoreNext \/ Seen' = Seen
<1>1. ASSUME NEW s \in Sections, NEW m, Lock(s, m) PROVE Seen' = Seen
  <2>1. section = NoSection /\ section' = s /\ before' = Actual
    BY <1>1 DEF Lock
  <2>2. s # NoSection
    BY Nothing
  <2>3. Seen' = before' /\ Seen = Actual
    BY <2>1, <2>2 DEF Seen
  <2> QED
    BY <2>1, <2>3
<1>2. ASSUME NEW v \in Velocities, RequestVelocity(v) PROVE Core!CoreNext
  <2>1. /\ section = NoSection /\ velocity' = v
        /\ UNCHANGED <<device, section, state, backgroundError, stale>>
    BY <1>2 DEF RequestVelocity, camera, serveHistory
  <2>2. /\ Shows(Seen, device, Sent(state)) /\ Seen.backgroundError = backgroundError
        /\ Seen.stale = stale
    BY <2>1, SeenIdle
  <2>3. /\ Shows(Seen', device', Sent(state')) /\ Seen'.velocity = velocity'
        /\ Seen'.backgroundError = backgroundError' /\ Seen'.stale = stale'
    BY <2>1, SeenIdleNext
  <2>4. Seen'.camera = Seen.camera /\ Seen'.state = Seen.state
    BY <2>1, <2>2, <2>3 DEF Shows
  <2> QED
    BY <2>1, <2>2, <2>3, <2>4, CoreVelocity
<1> QED
  BY <1>1, <1>2, EnterIs

\* What the camera does on its own shows when no section is in progress.
LEMMA WorldImplements ==
    ASSUME TypeInv, TypeInv', World PROVE Core!CoreNext \/ Seen' = Seen
<1>1. CASE Unplugged
  <2>1. UNCHANGED <<device, section, state, velocity, backgroundError, before, stale>>
    BY <1>1 DEF Unplugged, serving, guarded, serveHistory
  <2> QED
    BY <2>1, SeenKept
<1>2. ASSUME NEW values, CameraChanges(values), section # NoSection PROVE Seen' = Seen
  <2>1. UNCHANGED <<section, before>>
    BY <1>2 DEF CameraChanges
  <2> QED
    BY <1>2, <2>1, SeenKept
<1>3. ASSUME NEW values, CameraChanges(values), section = NoSection,
             \/ DOMAIN values = Axes /\ device["tracking"] # 0
             \/ DOMAIN values = {"tracking"}
                /\ values["tracking"] = IF device["tracking"] = 0 THEN 1 ELSE 0
      PROVE  Core!CoreNext
  <2>1. /\ device' = [c \in Controls |-> IF c \in DOMAIN values THEN values[c] ELSE device[c]]
        /\ UNCHANGED <<section, state, velocity, backgroundError>>
        /\ stale' = stale \cup FieldsOf(DOMAIN values)
    BY <1>3 DEF CameraChanges, Overwrite, guarded
  <2>2. PICK held, now, known : held = device /\ now = device' /\ known = Sent(state)
    OBVIOUS
  <2>3. /\ Shows(Seen, held, known) /\ Seen.velocity = velocity
        /\ Seen.backgroundError = backgroundError /\ Seen.stale = stale
    BY <1>3, <2>2, SeenIdle
  <2>4. /\ Shows(Seen', now, known) /\ Seen'.velocity = velocity
        /\ Seen'.backgroundError = backgroundError /\ Seen'.stale = stale' /\ RawDevice(now)
    <3>1. section' = NoSection
      BY <1>3, <2>1
    <3> QED
      BY <2>1, <2>2, <3>1, SeenIdleNext
  <2>5. now["zoom"] = held["zoom"]
    BY <1>3, <2>1, <2>2, Names
  <2>6. CASE DOMAIN values = Axes /\ device["tracking"] # 0
    <3>1. now["tracking"] = held["tracking"]
      BY <2>1, <2>2, <2>6, Names
    <3>2. FieldsOf(DOMAIN values) = {"position"}
      BY <2>6, ScopeIsOneField, Scopes, Names
    <3>3. /\ StateOf(held).tracking /\ StateOf(now).tracking = StateOf(held).tracking
          /\ StateOf(now).zoom = StateOf(held).zoom
      BY <2>2, <2>5, <2>6, <3>1, StateAlike
    <3>4. Seen'.stale = Seen.stale \cup {"position"}
      BY <2>1, <2>3, <2>4, <3>2
    <3> QED
      BY <2>3, <2>4, <3>3, <3>4, CoreCameraTracks
  <2>7. CASE DOMAIN values = {"tracking"}
             /\ values["tracking"] = IF device["tracking"] = 0 THEN 1 ELSE 0
    <3>1. \A a \in Axes : now[a] = held[a]
      BY <2>1, <2>2, <2>7, Names
    <3>2. FieldsOf(DOMAIN values) = {"tracking"}
      BY <2>7, ScopeIsOneField, Scopes, Names
    <3>3. now["tracking"] = IF held["tracking"] = 0 THEN 1 ELSE 0
      BY <2>1, <2>2, <2>7, Names
    <3>4. StateOf(now).position = StateOf(held).position
      BY <3>1 DEF StateOf
    <3>5. StateOf(now).zoom = StateOf(held).zoom
      BY <2>5 DEF StateOf
    <3>6. StateOf(now).tracking = ~StateOf(held).tracking
      <4>1. CASE held["tracking"] = 0
        <5>1. now["tracking"] # 0
          BY <3>3, <4>1
        <5>2. StateOf(now).tracking = TRUE /\ StateOf(held).tracking = FALSE
          BY <4>1, <5>1, StateAlike
        <5> QED
          BY <5>2
      <4>2. CASE held["tracking"] # 0
        <5>1. StateOf(now).tracking = FALSE /\ StateOf(held).tracking = TRUE
          BY <3>3, <4>2, StateAlike
        <5> QED
          BY <5>1
      <4> QED
        BY <4>1, <4>2
    <3>7. Seen'.stale = Seen.stale \cup {"tracking"}
      BY <2>1, <2>3, <2>4, <3>2
    <3> QED
      BY <2>3, <2>4, <3>4, <3>5, <3>6, <3>7, CoreTrackingSwitched
  <2> QED
    BY <1>3, <2>6, <2>7
<1> QED
  BY <1>1, <1>2, <1>3, WorldIs DEF TypeInv

\* Every step maps to a step of the core, or to none.
LEMMA StepImplements ==
    ASSUME TypeInv, TypeInv', CopyKept, SectionInv, [BackendNext]_vars
    PROVE  [interfered \/ (Pending("shot") /\ UNCHANGED <<section, velocity>>) \/ Core!CoreNext]_Seen
<1>1. CASE Complete("serve") \/ Interruption("serve")
  <2>1. Pending("serve")
    BY <1>1 DEF Complete, Interruption
  <2>2. section # NoSection
    BY <2>1, WorkingOrIdle DEF Processes, Pending
  <2>3. UNCHANGED <<section, before>>
    BY <1>1 DEF Complete, Interruption, Answered, Refused, Interrupted, Note
  <2> QED
    BY <2>2, <2>3, SeenKept
<1>2. CASE Complete("shot") \/ Interruption("shot")
  <2>1. Pending("shot")
    BY <1>2 DEF Complete, Interruption
  <2>2. UNCHANGED <<section, velocity>>
    BY <1>2 DEF Complete, Interruption, Answered, Refused, Interrupted, Note, guarded
  <2> QED
    BY <2>1, <2>2
<1>3. CASE Enter
  BY <1>3, EnterImplements
<1>4. CASE Continue
  BY <1>4, ContinueImplements
<1>5. CASE OneShot
  <2>1. UNCHANGED <<camera, serving>>
    BY <1>5 DEF OneShot, ShotStart, ShotUntracked, ShotWritten, ShotPrints, ShotThrows, ShotEnds
  <2> QED
    BY <2>1, SeenKept DEF camera, serving, guarded, serveHistory
<1>6. CASE World
  BY <1>6, WorldImplements
<1>7. CASE UNCHANGED vars
  BY <1>7, SeenKept DEF vars, camera, serving, guarded, serveHistory
<1> QED
  BY <1>1, <1>2, <1>3, <1>4, <1>5, <1>6, <1>7 DEF BackendNext, Processes

\* The critical sections, request by request and on both platforms, do what
\* ControllerCore says that a call does in one step, however many requests
\* fail or are repeated, unless another process changed the camera meanwhile.
THEOREM SectionsRefineCore == BackendSpec => SectionsImplementCore
<1>1. TypeInv /\ TypeInv' /\ CopyKept /\ SectionInv /\ [BackendNext]_vars
         => [interfered \/ (Pending("shot") /\ UNCHANGED <<section, velocity>>) \/ Core!CoreNext]_Seen
  BY StepImplements
<1> QED
  BY <1>1, BackendPlaced, CopyStandsForTheCamera, SectionsAreInStages, PTL
     DEF BackendSpec, SectionsImplementCore

\* serve begins where the core begins: with a copy that it has just read.
THEOREM SectionsStartAsCore == BackendSpec => Core!CoreInit
<1>1. ASSUME BackendInit PROVE Core!CoreInit
  <2>1. /\ section = NoSection /\ TypeInv /\ state = StateOf(device) /\ velocity = Stopped
        /\ backgroundError = FALSE /\ stale = {}
    BY <1>1, InitTypes DEF BackendInit
  <2>2. /\ Shows(Seen, device, Sent(state)) /\ Seen.velocity = Stopped
        /\ Seen.backgroundError = FALSE /\ Seen.stale = {} /\ RawDevice(device)
    BY <2>1, SeenIdle
  <2>3. Seen.state = Seen.camera /\ Seen.camera = StateOf(device)
    <3>1. device = [c \in Controls |-> device[c]]
      BY <2>1 DEF TypeInv, Types
    <3>2. Sent(state) = device
      BY <2>1, <2>2, <3>1, ReadDetermines
    <3> QED
      BY <2>2, <3>2 DEF Shows
  <2>4. StateOf(device).position = Center
    <3>1. \A a \in Axes : device[a] = 0
      BY <1>1, Names DEF BackendInit
    <3>2. FromRaw(0) = 0
      BY ScaleAssumption DEF FromRaw
    <3>3. StateOf(device).position = [a \in Axes |-> FromRaw(device[a])]
      BY DEF StateOf
    <3> QED
      BY <3>1, <3>2, <3>3 DEF Center
  <2>5. StateOf(device) \in [position : {Core!Center}, zoom : Zooms, tracking : BOOLEAN]
    <3>1. StateOf(device).zoom \in Zooms /\ StateOf(device).tracking \in BOOLEAN
      BY <2>2, StateRead
    <3>2. StateOf(device) = [position |-> StateOf(device).position, zoom |-> StateOf(device).zoom,
                             tracking |-> StateOf(device).tracking]
      BY DEF StateOf
    <3>3. Core!Center = Center
      BY DEF Core!Center, Center
    <3> QED
      BY <2>4, <3>1, <3>2, <3>3
  <2> QED
    BY <2>2, <2>3, <2>5 DEF Core!CoreInit, Core!Stopped, Stopped
<1> QED
  BY <1>1 DEF BackendSpec
=============================================================================

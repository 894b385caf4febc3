----------------------------- MODULE Discovery -----------------------------
(***************************************************************************)
(* connect_camera of src/src/platform: how linkd finds a camera and what   *)
(* it holds of the operating system meanwhile and afterwards.              *)
(*                                                                         *)
(* Linux: the nodes /dev/video0 and following are tried in order; a node   *)
(* that is not usable is passed over, but one of ours that may not be      *)
(* opened ends the scan.                                                   *)
(*                                                                         *)
(* macOS: the supported products are looked up in order; the first that is *)
(* there is taken, and a failure of any step on the way to its interface   *)
(* is final.  Every step acquires a reference to something and releases    *)
(* the one that it used.                                                   *)
(***************************************************************************)
EXTENDS Integers, FiniteSets

CONSTANTS
    LastNode,     \* the last device node of the scan: 63
    Products      \* the number of supported products: 2

ASSUME DiscoveryAssumption == LastNode \in Nat /\ Products \in Nat

\* What becomes of an attempt to use a node.
NodeKinds ==
    { "absent",          \* there is no such node
      "foreign",         \* it is not a supported Insta360 camera
      "denied",          \* open: EACCES
      "unopenable",      \* open: another error
      "no_capability",   \* VIDIOC_QUERYCAP fails
      "no_control",      \* a control cannot be queried or is disabled
      "usable" }

\* The ten steps of the constructor of MacUvcCamera: the registry properties,
\* open_control_interface (2 to 8, the interface number last), ensure_open
\* and the capabilities.  A step acquires a reference and releases the one
\* that it uses, that of the step before it.
StepCount == 10
Opening == 9

Reference(s) ==
    CASE s = 2 -> "device plug-in"
      [] s = 3 -> "device interface"
      [] s = 4 -> "iterator"
      [] s = 5 -> "control service"
      [] s = 6 -> "interface plug-in"
      [] s = 7 -> "interface"

Acquires(s) == IF s \in 2 .. 7 THEN {Reference(s)} ELSE {}

Uses(s) == IF s \in 3 .. 7 THEN Acquires(s - 1) ELSE {}

VARIABLES
    platform,     \* "linux" or "macos"
    kind,         \* what the nodes are
    present,      \* which products are plugged in
    pc,           \* where the search is: "scan", "opened", "constructing", "connected",
                  \* "failed", "no_query" or "released"
    candidate,    \* the node or product that is tried
    constructed,  \* steps of the constructor that succeeded
    held          \* what the process holds: node numbers, or references
dvars == <<platform, kind, present, pc, candidate, constructed, held>>

world == <<platform, kind, present>>

DiscoveryInit ==
    /\ platform \in {"linux", "macos"}
    /\ kind \in IF platform = "linux" THEN [0 .. LastNode -> NodeKinds]
                                      ELSE {[n \in 0 .. LastNode |-> "absent"]}
    /\ present \in IF platform = "macos" THEN SUBSET (1 .. Products) ELSE {{}}
    /\ pc = "scan"
    /\ candidate = IF platform = "linux" THEN 0 ELSE 1
    /\ constructed = 0
    /\ held = {}

Scanning(os) == platform = os /\ pc = "scan"

----------------------------------------------------------------------------
\* Linux.

PassOver == pc' = "scan" /\ candidate' = candidate + 1

LinuxExhausted ==
    /\ Scanning("linux") /\ candidate > LastNode
    /\ pc' = "failed"
    /\ UNCHANGED <<world, candidate, constructed, held>>

\* The node does not exist, or usb_identity_for says that it is not ours.
SkipNode ==
    /\ Scanning("linux") /\ candidate <= LastNode
    /\ kind[candidate] \in {"absent", "foreign"}
    /\ PassOver
    /\ UNCHANGED <<world, constructed, held>>

\* Mutant: a node that may not be opened is passed over like any other.
OpenNode_skips_denied ==
    /\ Scanning("linux") /\ candidate <= LastNode
    /\ kind[candidate] \notin {"absent", "foreign"}
    /\ IF kind[candidate] \in {"denied", "unopenable"}
         THEN PassOver /\ UNCHANGED held
         ELSE pc' = "opened" /\ held' = held \cup {candidate} /\ UNCHANGED candidate
    /\ UNCHANGED <<world, constructed>>

OpenNode ==
    /\ Scanning("linux") /\ candidate <= LastNode
    /\ kind[candidate] \notin {"absent", "foreign"}
    /\ \/ /\ kind[candidate] = "denied"
          /\ pc' = "failed"
          /\ UNCHANGED <<candidate, held>>
       \/ /\ kind[candidate] = "unopenable"
          /\ PassOver
          /\ UNCHANGED held
       \/ /\ kind[candidate] \notin {"denied", "unopenable"}
          /\ pc' = "opened"
          /\ held' = held \cup {candidate}
          /\ UNCHANGED candidate
    /\ UNCHANGED <<world, constructed>>

\* Mutant: only the exception handler closes the descriptor.
QueryNode_leaks ==
    /\ platform = "linux" /\ pc = "opened"
    /\ IF kind[candidate] = "usable"
         THEN pc' = "connected" /\ UNCHANGED <<candidate, held>>
         ELSE PassOver /\ held' = IF kind[candidate] = "no_control" THEN held \ {candidate} ELSE held
    /\ UNCHANGED <<world, constructed>>

\* QUERYCAP and the three query_control; the camera takes the descriptor over.
QueryNode ==
    /\ platform = "linux" /\ pc = "opened"
    /\ IF kind[candidate] = "usable"
         THEN pc' = "connected" /\ UNCHANGED <<candidate, held>>
         ELSE PassOver /\ held' = held \ {candidate}
    /\ UNCHANGED <<world, constructed>>

----------------------------------------------------------------------------
\* macOS.

MacExhausted ==
    /\ Scanning("macos") /\ candidate > Products
    /\ pc' = "failed"
    /\ UNCHANGED <<world, candidate, constructed, held>>

MatchProduct ==
    /\ Scanning("macos") /\ candidate <= Products
    /\ IF candidate \in present
         THEN pc' = "constructing" /\ held' = held \cup {"device"} /\ UNCHANGED candidate
         ELSE PassOver /\ UNCHANGED held
    /\ UNCHANGED <<world, constructed>>

\* IOServiceMatching returns nothing.
QueryFails ==
    /\ Scanning("macos") /\ candidate <= Products
    /\ pc' = "no_query"
    /\ UNCHANGED <<world, candidate, constructed, held>>

Current == constructed + 1

\* The step succeeds.  An interface that another process has open is used
\* without being owned.
StepSucceeds ==
    /\ pc = "constructing" /\ constructed < StepCount
    /\ \/ held' = (held \cup Acquires(Current)) \ Uses(Current)
       \/ Current = Opening /\ held' = held \cup {"open interface"}
    /\ constructed' = Current
    /\ UNCHANGED <<world, pc, candidate>>

\* The step fails: the constructor throws, and so does connect_camera.  No
\* destructor runs, and the device stays referenced, as does the interface.
StepFails ==
    /\ pc = "constructing" /\ constructed < StepCount
    /\ held' = held \ Uses(Current)
    /\ pc' = "failed"
    /\ UNCHANGED <<world, candidate, constructed>>

Constructed ==
    /\ pc = "constructing" /\ constructed = StepCount
    /\ pc' = "connected"
    /\ held' = held \ {"device"}
    /\ UNCHANGED <<world, candidate, constructed>>

----------------------------------------------------------------------------
\* The destructor of either backend: the descriptor, or the interface, which
\* is closed first when it is owned.
Release ==
    /\ pc = "connected"
    /\ pc' = "released"
    /\ held' = IF platform = "linux" THEN held \ {candidate}
                                     ELSE held \ {"open interface", "interface"}
    /\ UNCHANGED <<world, candidate, constructed>>

DiscoveryNext ==
    \/ LinuxExhausted \/ SkipNode \/ OpenNode \/ QueryNode
    \/ MacExhausted \/ QueryFails \/ MatchProduct
    \/ StepSucceeds \/ StepFails \/ Constructed
    \/ Release

DiscoverySpec == DiscoveryInit /\ [][DiscoveryNext]_dvars

----------------------------------------------------------------------------
\* Properties.

\* What the search must find, without a search.  On Linux the first node that
\* is usable or denied decides; on macOS the first product that is there.
Deciding == IF platform = "linux" THEN {n \in 0 .. LastNode : kind[n] \in {"usable", "denied"}}
                                  ELSE present
First(n) == n \in Deciding /\ \A k \in Deciding : n <= k

\* linkd controls the first usable camera, gives up at the first one of ours
\* that it may not open, and says that there is none only when there is none.
FindsTheFirst ==
    /\ pc \in {"opened", "constructing", "connected"} /\ candidate \in Deciding => First(candidate)
    /\ pc = "connected" => candidate \in Deciding
    /\ pc = "connected" /\ platform = "linux" => kind[candidate] = "usable"
    /\ pc = "failed" /\ platform = "linux" =>
          Deciding = {} \/ (First(candidate) /\ kind[candidate] = "denied")
    /\ pc = "failed" /\ platform = "macos" => Deciding = {} \/ First(candidate)

\* What a constructor of macOS that throws leaves to the process, after n steps
\* that succeeded: no destructor runs, so the device, and the interface once
\* there is one, stay referenced, perhaps open.
LeftByThrowing(n) ==
    /\ held \ {"open interface"} = {"device"} \cup IF n >= 7 THEN {"interface"} ELSE {}
    /\ "open interface" \in held => n >= Opening

\* What is held whenever the search has ended: by a connected camera its
\* descriptor, or its interface, and nothing that was needed on the way to it;
\* by a released one, and by a search that failed, nothing, unless it was a
\* constructor of macOS that threw: then just what it leaves.
HeldAtTheEnd ==
    /\ pc \in {"scan", "released", "no_query"} => held = {}
    /\ pc = "connected" => IF platform = "linux" THEN held = {candidate}
                           ELSE /\ "interface" \in held
                                /\ held \subseteq {"interface", "open interface"}
    /\ pc = "failed" => IF platform = "macos" /\ present # {} THEN LeftByThrowing(constructed)
                                                            ELSE held = {}
=============================================================================

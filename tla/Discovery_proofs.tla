-------------------------- MODULE Discovery_proofs --------------------------
(***************************************************************************)
(* Proofs about Discovery, for any number of device nodes and products.    *)
(* The invariant says what has been passed over so far and what exactly is *)
(* held at every point of the search.                                      *)
(***************************************************************************)
EXTENDS Discovery, TLAPS

\* What the constructor of macOS holds after n steps, besides the interface
\* being open: what the last step acquired, and what lasts.
Kept(n) == {"device"} \cup IF n >= 7 THEN {"interface"} ELSE Acquires(n)
HoldsAfter(n, H) == /\ H \ {"open interface"} = Kept(n)
                    /\ "open interface" \in H => n >= Opening

SearchTypeOK ==
    /\ platform \in {"linux", "macos"}
    /\ kind \in [0 .. LastNode -> NodeKinds]
    /\ present \in SUBSET (1 .. Products)
    /\ pc \in {"scan", "opened", "constructing", "connected", "failed", "no_query", "released"}
    /\ candidate \in Nat
    /\ platform = "macos" => candidate >= 1
    /\ constructed \in 0 .. StepCount

\* Nothing before the candidate decides the search.
PassedOver == \A n \in Deciding : candidate <= n

Place ==
    /\ pc \in {"scan", "released", "no_query"} => held = {}
    /\ pc \in {"scan", "opened"} => constructed = 0
    /\ pc = "opened" =>
          /\ platform = "linux" /\ held = {candidate} /\ candidate <= LastNode
          /\ kind[candidate] \in {"no_capability", "no_control", "usable"}
    /\ pc = "constructing" =>
          /\ platform = "macos" /\ candidate \in present
          /\ HoldsAfter(constructed, held)
    /\ pc = "connected" /\ platform = "linux" =>
          held = {candidate} /\ candidate <= LastNode /\ kind[candidate] = "usable"
    /\ pc = "connected" /\ platform = "macos" =>
          /\ candidate \in present
          /\ "interface" \in held
          /\ held \subseteq {"interface", "open interface"}
    /\ pc = "failed" /\ platform = "linux" =>
          /\ held = {}
          /\ \/ candidate > LastNode
             \/ candidate <= LastNode /\ kind[candidate] = "denied"
    /\ pc = "failed" /\ platform = "macos" =>
          \/ candidate > Products /\ held = {}
          \/ candidate \in present /\ LeftByThrowing(constructed)

SearchInv == SearchTypeOK /\ PassedOver /\ Place

----------------------------------------------------------------------------
\* The references, one by one.
LEMMA References ==
    /\ Acquires(2) = {"device plug-in"} /\ Acquires(3) = {"device interface"}
    /\ Acquires(4) = {"iterator"} /\ Acquires(5) = {"control service"}
    /\ Acquires(6) = {"interface plug-in"} /\ Acquires(7) = {"interface"}
    /\ \A n \in {0, 1, 8, 9, 10} : Acquires(n) = {}
<1>1. \A n \in {0, 1, 8, 9, 10} : Acquires(n) = {}
  BY DEF Acquires
<1> QED
  BY <1>1 DEF Acquires, Reference

\* What the steps acquire and use.
LEMMA Steps ==
    ASSUME NEW k \in 0 .. 9
    PROVE  /\ k \in {0, 1, 8, 9} => Acquires(k) = {}
           /\ k \in {0, 7, 8, 9} => Acquires(k + 1) = {}
           /\ k = 6 => Acquires(k + 1) = {"interface"}
           /\ "device" \notin Acquires(k) /\ "open interface" \notin Acquires(k + 1)
           /\ Acquires(k) \cap Acquires(k + 1) = {}
           /\ Uses(k + 1) = IF k \in 2 .. 6 THEN Acquires(k) ELSE {}
<1>1. Uses(k + 1) = IF k \in 2 .. 6 THEN Acquires(k) ELSE {}
  <2>1. k + 1 - 1 = k /\ (k + 1 \in 3 .. 7 <=> k \in 2 .. 6)
    BY ONLY k \in 0 .. 9
  <2> QED
    BY ONLY <2>1 DEF Uses
<1>2. \/ k = 0 /\ k + 1 = 1
      \/ k = 1 /\ k + 1 = 2
      \/ k = 2 /\ k + 1 = 3
      \/ k = 3 /\ k + 1 = 4
      \/ k = 4 /\ k + 1 = 5
      \/ k = 5 /\ k + 1 = 6
      \/ k = 6 /\ k + 1 = 7
      \/ k = 7 /\ k + 1 = 8
      \/ k = 8 /\ k + 1 = 9
      \/ k = 9 /\ k + 1 = 10
  BY ONLY k \in 0 .. 9
<1>3. /\ k \in {0, 1, 8, 9} => Acquires(k) = {}
      /\ k \in {0, 7, 8, 9} => Acquires(k + 1) = {}
      /\ k = 6 => Acquires(k + 1) = {"interface"}
  BY ONLY <1>2, References
<1>4. "device" \notin Acquires(k)
  <2> USE ONLY References
  <2> DEFINE Clear(j) == "device" \notin Acquires(j)
  <2>1. k \in {0, 1, 8, 9} => Clear(k)
    BY ONLY <1>3
  <2>2. Clear(2) OBVIOUS
  <2>3. Clear(3) OBVIOUS
  <2>4. Clear(4) OBVIOUS
  <2>5. Clear(5) OBVIOUS
  <2>6. Clear(6) OBVIOUS
  <2>7. Clear(7) OBVIOUS
  <2> HIDE DEF Clear
  <2>8. Clear(k)
    BY ONLY <1>2, <2>1, <2>2, <2>3, <2>4, <2>5, <2>6, <2>7
  <2> QED
    BY ONLY <2>8 DEF Clear
<1>5. "open interface" \notin Acquires(k + 1) /\ Acquires(k) \cap Acquires(k + 1) = {}
  <2> USE ONLY References
  <2> DEFINE Apart(j, n) == "open interface" \notin Acquires(n) /\ Acquires(j) \cap Acquires(n) = {}
  <2>1. k \in {0, 7, 8, 9} => Apart(k, k + 1)
    BY ONLY <1>3
  <2>2. Apart(1, 2) OBVIOUS
  <2>3. Apart(2, 3) OBVIOUS
  <2>4. Apart(3, 4) OBVIOUS
  <2>5. Apart(4, 5) OBVIOUS
  <2>6. Apart(5, 6) OBVIOUS
  <2>7. Apart(6, 7) OBVIOUS
  <2> HIDE DEF Apart
  <2>8. Apart(k, k + 1)
    BY ONLY <1>2, <2>1, <2>2, <2>3, <2>4, <2>5, <2>6, <2>7
  <2> QED
    BY ONLY <2>8 DEF Apart
<1> QED
  BY ONLY <1>1, <1>3, <1>4, <1>5

\* The last of them lasts.
LEMMA KeptIs ==
    ASSUME NEW k \in 0 .. 9
    PROVE  /\ k \in 0 .. 6 => Kept(k) = {"device"} \cup Acquires(k)
           /\ k \in 7 .. 9 => Kept(k) = {"device", "interface"}
           /\ k \in 0 .. 6 => Kept(k + 1) = {"device"} \cup Acquires(k + 1)
           /\ k \in 7 .. 9 => Kept(k + 1) = {"device", "interface"}
<1>1. k \in 0 .. 5 => ~(k + 1 >= 7)
  OBVIOUS
<1>2. k \in 6 .. 9 => k + 1 >= 7
  OBVIOUS
<1>3. k \in 0 .. 6 => ~(k >= 7)
  OBVIOUS
<1>4. k \in 7 .. 9 => k >= 7
  OBVIOUS
<1>5. k \in 0 .. 6 => k \in 0 .. 5 \/ (k = 6 /\ k \in 6 .. 9)
  OBVIOUS
<1>6. k \in 7 .. 9 => k \in 6 .. 9
  OBVIOUS
<1>7. k = 6 => Acquires(k + 1) = {"interface"}
  BY Steps
<1> QED
  BY <1>1, <1>2, <1>3, <1>4, <1>5, <1>6, <1>7 DEF Kept

\* Where the interface is when the constructor starts and ends.
LEMMA Ends == ~(0 >= 7) /\ 10 >= 7
OBVIOUS

\* A step that succeeds acquires what it is for and releases what it used.
LEMMA StepKeeps ==
    ASSUME NEW k \in 0 .. 9, NEW H, NEW G, HoldsAfter(k, H),
           \/ G = (H \cup Acquires(k + 1)) \ Uses(k + 1)
           \/ k = 8 /\ G = H \cup {"open interface"}
    PROVE  HoldsAfter(k + 1, G)
<1> DEFINE this == Acquires(k)
           next == Acquires(k + 1)
<1>1. /\ H \ {"open interface"} = Kept(k) /\ ("open interface" \in H => k >= 9)
      /\ "device" \notin this /\ "open interface" \notin next /\ this \cap next = {}
  BY Steps DEF HoldsAfter, Opening
<1>2. k >= 9 => k + 1 >= Opening
  BY ONLY k \in 0 .. 9 DEF Opening
<1>3. k = 8 => k + 1 >= Opening
  BY ONLY k \in 0 .. 9 DEF Opening
<1>4. CASE k \in 0 .. 6
  <2>1. Kept(k) = {"device"} \cup this /\ Kept(k + 1) = {"device"} \cup next
    BY <1>4, KeptIs
  <2>2. G = (H \cup next) \ this
    <3>1. k # 8 /\ (k \in 2 .. 6 \/ k \in {0, 1, 8, 9})
      BY ONLY <1>4
    <3>2. Uses(k + 1) = this
      BY <3>1, Steps
    <3> QED
      BY <3>1, <3>2
  <2>3. "open interface" \notin H
    <3>1. ~(k >= 9)
      BY ONLY <1>4
    <3> QED
      BY ONLY <1>1, <3>1
  <2> HIDE DEF this, next
  <2> QED
    BY <1>1, <2>1, <2>2, <2>3 DEF HoldsAfter
<1>5. CASE k \in 7 .. 9
  <2>1. Kept(k) = {"device", "interface"} /\ Kept(k + 1) = {"device", "interface"}
    BY <1>5, KeptIs
  <2>2. next = {} /\ Uses(k + 1) = {}
    <3>1. k \in {0, 7, 8, 9} /\ k \notin 2 .. 6
      BY ONLY <1>5
    <3> QED
      BY <3>1, Steps
  <2>3. G = H \/ (k = 8 /\ G = H \cup {"open interface"})
    BY <2>2
  <2> HIDE DEF this, next
  <2> QED
    BY <1>1, <1>2, <1>3, <2>1, <2>3 DEF HoldsAfter
<1>6. k \in 0 .. 6 \/ k \in 7 .. 9
  BY ONLY k \in 0 .. 9
<1> QED
  BY ONLY <1>4, <1>5, <1>6

\* A step that fails releases what it used, and leaves the rest.
LEMMA FailureLeaves ==
    ASSUME NEW k \in 0 .. 9, HoldsAfter(k, held), held' = held \ Uses(k + 1),
           constructed' = k
    PROVE  LeftByThrowing(constructed)'
<1> DEFINE this == Acquires(k)
<1>1. /\ held \ {"open interface"} = Kept(k) /\ ("open interface" \in held => k >= Opening)
      /\ "device" \notin this
  BY Steps DEF HoldsAfter
<1>2. CASE k \in 0 .. 6
  <2>1. Kept(k) = {"device"} \cup this
    BY <1>2, KeptIs
  <2>2. held' = held \ this /\ ~(k >= 7)
    <3>1. ~(k >= 7) /\ (k \in 2 .. 6 \/ k \in {0, 1, 8, 9})
      BY ONLY <1>2
    <3>2. Uses(k + 1) = this
      BY <3>1, Steps
    <3> QED
      BY <3>1, <3>2
  <2> HIDE DEF this
  <2> QED
    BY <1>1, <2>1, <2>2 DEF LeftByThrowing
<1>3. CASE k \in 7 .. 9
  <2>1. Kept(k) = {"device", "interface"}
    BY <1>3, KeptIs
  <2>2. held' = held /\ k >= 7
    <3>1. k \notin 2 .. 6 /\ k >= 7
      BY ONLY <1>3
    <3>2. Uses(k + 1) = {}
      BY <3>1, Steps
    <3> QED
      BY <3>1, <3>2
  <2> HIDE DEF this
  <2> QED
    BY <1>1, <2>1, <2>2 DEF LeftByThrowing
<1>4. k \in 0 .. 6 \/ k \in 7 .. 9
  BY ONLY k \in 0 .. 9
<1> QED
  BY ONLY <1>2, <1>3, <1>4

----------------------------------------------------------------------------
\* The invariant holds initially.
LEMMA SearchInitially == DiscoveryInit => SearchInv
BY DiscoveryAssumption DEF DiscoveryInit, SearchInv, SearchTypeOK, PassedOver, Place, NodeKinds,
                           Deciding, StepCount

\* Every step of the search keeps the invariant.
LEMMA SearchSteps == SearchInv /\ [DiscoveryNext]_dvars => SearchInv'
<1> SUFFICES ASSUME SearchInv, [DiscoveryNext]_dvars PROVE SearchInv'
    OBVIOUS
<1> USE DiscoveryAssumption DEF SearchInv, SearchTypeOK, PassedOver, Place, Deciding, world
<1>1. CASE LinuxExhausted
  BY <1>1 DEF LinuxExhausted, Scanning
<1>2. CASE SkipNode
  BY <1>2 DEF SkipNode, Scanning, PassOver
<1>3. CASE OpenNode
  BY <1>3 DEF OpenNode, Scanning, PassOver, NodeKinds
<1>4. CASE QueryNode
  <2>1. /\ pc = "opened" /\ platform = "linux" /\ held = {candidate} /\ candidate <= LastNode
        /\ UNCHANGED <<platform, kind, present, constructed>>
        /\ candidate \in 0 .. LastNode
    BY <1>4 DEF QueryNode
  <2>2. CASE kind[candidate] = "usable"
    BY <1>4, <2>1, <2>2 DEF QueryNode
  <2>3. CASE kind[candidate] # "usable"
    <3>1. candidate \notin Deciding
      BY <2>1, <2>3
    <3>2. held' = {} /\ pc' = "scan" /\ candidate' = candidate + 1
      BY <1>4, <2>1, <2>3 DEF QueryNode, PassOver
    <3>3. PassedOver'
      <4>1. Deciding' = Deciding
        BY ONLY <2>1 DEF Deciding
      <4>2. candidate \in Nat /\ Deciding \subseteq Nat /\ PassedOver
        <5>1. PassedOver /\ candidate \in Nat BY DEF SearchInv
        <5>2. Deciding \subseteq Nat BY ONLY <2>1, DiscoveryAssumption DEF Deciding
        <5> QED BY ONLY <5>1, <5>2
      <4> QED
        BY ONLY <3>1, <3>2, <4>1, <4>2 DEF PassedOver
    <3>4. SearchTypeOK'
      BY <2>1, <3>2
    <3>5. constructed = 0
      BY <2>1
    <3>6. Place'
      BY ONLY <2>1, <3>2, <3>5 DEF Place
    <3> QED
      BY ONLY <3>3, <3>4, <3>6 DEF SearchInv
  <2> QED
    BY <2>2, <2>3
<1>5. CASE MacExhausted
  BY <1>5 DEF MacExhausted, Scanning
<1>6. CASE QueryFails
  BY <1>6 DEF QueryFails, Scanning
<1>7. CASE MatchProduct
  <2>1. /\ platform = "macos" /\ pc = "scan" /\ held = {} /\ constructed = 0
        /\ UNCHANGED <<platform, kind, present, constructed>>
    BY <1>7 DEF MatchProduct, Scanning
  <2>2. CASE candidate \in present
    <3>1. pc' = "constructing" /\ held' = {"device"} /\ candidate' = candidate
      BY <1>7, <2>1, <2>2 DEF MatchProduct
    <3>2. SearchTypeOK' /\ PassedOver'
      BY <2>1, <3>1
    <3>3. HoldsAfter(0, {"device"})
      <4>1. Acquires(0) = {}
        BY ONLY References
      <4> QED
        BY ONLY <4>1, Ends DEF HoldsAfter, Kept
    <3>4. Place'
      BY ONLY <2>1, <2>2, <3>1, <3>3 DEF Place
    <3> QED
      BY ONLY <3>2, <3>4 DEF SearchInv
  <2>3. CASE candidate \notin present
    <3>1. held' = {} /\ pc' = "scan" /\ candidate' = candidate + 1
      BY <1>7, <2>1, <2>3 DEF MatchProduct, PassOver
    <3>2. SearchTypeOK' /\ PassedOver'
      BY <2>1, <2>3, <3>1
    <3>3. Place'
      BY ONLY <2>1, <3>1 DEF Place
    <3> QED
      BY ONLY <3>2, <3>3 DEF SearchInv
  <2> QED
    BY <2>2, <2>3
<1>8. CASE StepSucceeds
  <2>1. /\ pc = "constructing" /\ constructed \in 0 .. 9 /\ platform = "macos"
        /\ candidate \in present
        /\ UNCHANGED <<platform, kind, present, pc, candidate>>
        /\ constructed' = constructed + 1
        /\ HoldsAfter(constructed, held)
    <3>1. SearchInv /\ StepSucceeds BY <1>8
    <3>2. pc = "constructing" /\ UNCHANGED <<platform, kind, present, pc, candidate>>
      BY ONLY <3>1 DEF StepSucceeds, world
    <3>3. constructed \in 0 .. 9 /\ constructed' = constructed + 1
      <4>1. constructed < StepCount /\ constructed' = Current
        BY ONLY <3>1 DEF StepSucceeds
      <4>2. constructed \in 0 .. StepCount
        BY ONLY <3>1 DEF SearchInv, SearchTypeOK
      <4> QED
        BY ONLY <4>1, <4>2 DEF StepCount, Current
    <3>4. /\ platform = "macos" /\ candidate \in present
          /\ HoldsAfter(constructed, held)
      BY ONLY <3>1, <3>2 DEF SearchInv, Place
    <3> QED BY ONLY <3>2, <3>3, <3>4
  <2>2. \/ held' = (held \cup Acquires(constructed + 1)) \ Uses(constructed + 1)
        \/ constructed = 8 /\ held' = held \cup {"open interface"}
    <3>1. \/ held' = (held \cup Acquires(Current)) \ Uses(Current)
          \/ Current = Opening /\ held' = held \cup {"open interface"}
      BY ONLY <1>8 DEF StepSucceeds
    <3>2. Current = Opening => constructed = 8
      BY ONLY <2>1 DEF Current, Opening
    <3> QED
      BY ONLY <3>1, <3>2 DEF Current
  <2>3. HoldsAfter(constructed + 1, held')
    BY ONLY <2>1, <2>2, StepKeeps
  <2>4. SearchTypeOK' /\ PassedOver'
    BY <2>1 DEF StepCount
  <2>5. Place'
    BY ONLY <2>1, <2>3 DEF Place
  <2> QED
    BY ONLY <2>4, <2>5 DEF SearchInv
<1>9. CASE StepFails
  <2>1. /\ pc = "constructing" /\ constructed \in 0 .. 9 /\ platform = "macos"
        /\ candidate \in present
        /\ UNCHANGED <<platform, kind, present, candidate, constructed>>
        /\ pc' = "failed" /\ held' = held \ Uses(constructed + 1)
        /\ HoldsAfter(constructed, held)
    BY <1>9 DEF StepFails, Current, StepCount
  <2>2. LeftByThrowing(constructed)'
    BY ONLY <2>1, FailureLeaves
  <2>3. SearchTypeOK' /\ PassedOver'
    BY <2>1 DEF StepCount
  <2>4. Place'
    BY ONLY <2>1, <2>2 DEF Place
  <2> QED
    BY ONLY <2>3, <2>4 DEF SearchInv
<1>10. CASE Constructed
  <2>1. /\ pc = "constructing" /\ constructed = 10 /\ platform = "macos"
        /\ candidate \in present
        /\ UNCHANGED <<platform, kind, present, candidate, constructed>>
        /\ pc' = "connected" /\ held' = held \ {"device"}
        /\ HoldsAfter(10, held)
    BY <1>10 DEF Constructed, StepCount
  <2>2. "interface" \in held' /\ held' \subseteq {"interface", "open interface"}
    <3>1. Kept(10) = {"device", "interface"}
      BY ONLY Ends DEF Kept
    <3> QED
      BY ONLY <2>1, <3>1 DEF HoldsAfter
  <2>3. SearchTypeOK' /\ PassedOver'
    BY <2>1 DEF StepCount
  <2>4. Place'
    BY ONLY <2>1, <2>2 DEF Place
  <2> QED
    BY ONLY <2>3, <2>4 DEF SearchInv
<1>11. CASE Release
  BY <1>11 DEF Release
<1>12. CASE UNCHANGED dvars
  <2>1. SearchTypeOK' /\ PassedOver'
    BY <1>12 DEF dvars
  <2>2. Place'
    <3>1. Place BY ONLY SearchInv DEF SearchInv
    <3> QED
      BY ONLY <1>12, <3>1 DEF dvars, Place, HoldsAfter, LeftByThrowing
  <2> QED
    BY ONLY <2>1, <2>2 DEF SearchInv
<1> QED
  BY <1>1, <1>2, <1>3, <1>4, <1>5, <1>6, <1>7, <1>8, <1>9, <1>10, <1>11, <1>12
     DEF DiscoveryNext

----------------------------------------------------------------------------
\* The invariant holds in every reachable state.
THEOREM SearchCorrect == DiscoverySpec => []SearchInv
<1>1. DiscoveryInit => SearchInv
  BY SearchInitially
<1>2. SearchInv /\ [DiscoveryNext]_dvars => SearchInv'
  BY SearchSteps
<1> QED
  BY <1>1, <1>2, PTL DEF DiscoverySpec

\* connect_camera controls the first usable camera, however many nodes or
\* products there are: it passes over nothing that decides the search, and
\* fails only at the first node it may not open, at a product that is there,
\* or with nothing left to try.
THEOREM FindsTheFirstHolds == DiscoverySpec => []FindsTheFirst
<1>1. SearchInv => FindsTheFirst
  <2> SUFFICES ASSUME SearchInv PROVE FindsTheFirst
      OBVIOUS
  <2>1. /\ platform \in {"linux", "macos"} /\ candidate \in Nat
        /\ \A n \in Deciding : candidate <= n
    BY DEF SearchInv, SearchTypeOK, PassedOver
  <2>2. candidate \in Deciding => First(candidate)
    BY ONLY <2>1 DEF First
  <2>3. platform = "linux" => Deciding \subseteq 0 .. LastNode
    BY DEF Deciding
  <2>4. platform = "macos" => Deciding \subseteq 1 .. Products /\ Deciding = present
    BY DEF Deciding, SearchInv, SearchTypeOK
  <2>5. /\ platform = "linux" /\ candidate > LastNode => Deciding = {}
        /\ platform = "macos" /\ candidate > Products => Deciding = {}
    BY ONLY <2>1, <2>3, <2>4, DiscoveryAssumption
  <2>6. platform = "linux" /\ candidate <= LastNode /\ kind[candidate] \in {"usable", "denied"}
           => candidate \in Deciding
    BY <2>1, DiscoveryAssumption DEF Deciding
  <2> QED
    BY <2>1, <2>2, <2>4, <2>5, <2>6 DEF FindsTheFirst, SearchInv, Place
<1> QED
  BY <1>1, SearchCorrect, PTL

\* Whatever fails on the way, connect_camera and the destructors leave just what
\* is in use, and what a constructor of macOS that throws is known to leave.
THEOREM HeldAtTheEndHolds == DiscoverySpec => []HeldAtTheEnd
<1>1. SearchInv => HeldAtTheEnd
  <2> SUFFICES ASSUME SearchInv PROVE HeldAtTheEnd
    OBVIOUS
  <2>1. platform \in {"linux", "macos"} /\ candidate \in Nat /\ present \in SUBSET (1 .. Products)
    BY DEF SearchInv, SearchTypeOK
  <2>2. platform = "macos" /\ candidate > Products => present = {}
    BY <2>1, DiscoveryAssumption DEF SearchInv, PassedOver, Deciding
  <2> QED
    BY <2>1, <2>2 DEF SearchInv, Place, HeldAtTheEnd
<1> QED
  BY <1>1, SearchCorrect, PTL
=============================================================================

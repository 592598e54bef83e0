--------------------------- MODULE CpusetPlanProofs ---------------------------
(***************************************************************************)
(* What the division of the cores guarantees on a node of any size.        *)
(***************************************************************************)
EXTENDS CpusetPlan, TLAPS

USE CoresAssumption

LEMMA MinBEType == MinBECores \in 1..Cores
  BY DEF MinBECores

\* The LC total never exceeds the node: the subtractions from Cores that
\* follow it are not below zero.
THEOREM LCCoresBounded == \A milli \in Nat : LCCores(milli) \in 0..Cores
<1> SUFFICES ASSUME NEW milli \in Nat PROVE LCCores(milli) \in 0..Cores
  OBVIOUS
<1>1. Lesser(milli, 1000 * Cores) \in 0..(1000 * Cores)
  BY DEF Lesser
<1>2. \A n \in 0..(1000 * Cores) : (n + 999) \div 1000 \in 0..Cores
  OBVIOUS
<1> QED BY <1>1, <1>2 DEF LCCores, WholeCores

\* Enough cores for the requests, unless they exceed the node.
THEOREM LCCoresSuffice ==
  \A milli \in Nat : LCCores(milli) = Cores \/ 1000 * LCCores(milli) >= milli
<1> SUFFICES ASSUME NEW milli \in Nat
             PROVE LCCores(milli) = Cores \/ 1000 * LCCores(milli) >= milli
  OBVIOUS
<1>1. CASE milli <= 1000 * Cores
  BY <1>1 DEF LCCores, WholeCores, Lesser
<1>2. CASE milli > 1000 * Cores
  BY <1>2 DEF LCCores, WholeCores, Lesser
<1> QED BY <1>1, <1>2

LEMMA BECoresValue ==
  ASSUME NEW lc \in 0..Cores
  PROVE /\ BECores(lc, 0) = Greater(Cores - lc, MinBECores)
        /\ MixCores(lc) = BECores(lc, 0)
        /\ BECores(lc, 0) \in MinBECores..Cores
  BY MinBEType DEF BECores, MixCores, Wrap, Greater

\* BE pods always have a region, of at least 3% of the cores: the uint64
\* arithmetic does not wrap, and UpdatePodCPUSetFromUpper is never asked for
\* more cores than there are.
THEOREM BERegionNotEmpty ==
  \A lc \in 0..Cores :
    /\ BERegion(lc, 0) = (Cores - BECores(lc, 0))..(Cores - 1)
    /\ BEMixRegion(lc) = BERegion(lc, 0)
    /\ BERegion(lc, 0) # {}
<1> SUFFICES ASSUME NEW lc \in 0..Cores
             PROVE /\ BERegion(lc, 0) = (Cores - BECores(lc, 0))..(Cores - 1)
                   /\ BEMixRegion(lc) = BERegion(lc, 0)
                   /\ BERegion(lc, 0) # {}
  OBVIOUS
<1>1. BERegion(lc, 0) = (Cores - BECores(lc, 0))..(Cores - 1)
  BY BECoresValue, MinBEType DEF BERegion, FromUpper
<1>2. BEMixRegion(lc) = BERegion(lc, 0)
  BY BECoresValue DEF BEMixRegion, BERegion
<1>3. Cores - 1 \in BERegion(lc, 0)
  BY <1>1, BECoresValue, MinBEType
<1> QED BY <1>1, <1>2, <1>3

\* As long as LC pods leave BE its 3%, the two regions share no core and
\* together are the whole node.
THEOREM RegionsPartition ==
  \A lc \in 0..Cores : Cores - lc >= MinBECores =>
    /\ LCRegion(lc) \cap BERegion(lc, 0) = {}
    /\ LCRegion(lc) \cup BERegion(lc, 0) = 0..(Cores - 1)
<1> SUFFICES ASSUME NEW lc \in 0..Cores, Cores - lc >= MinBECores
             PROVE /\ LCRegion(lc) \cap BERegion(lc, 0) = {}
                   /\ LCRegion(lc) \cup BERegion(lc, 0) = 0..(Cores - 1)
  OBVIOUS
<1>1. BECores(lc, 0) = Cores - lc
  BY BECoresValue, MinBEType DEF Greater
<1>2. BERegion(lc, 0) = lc..(Cores - 1)
  BY <1>1, BERegionNotEmpty
<1>3. LCRegion(lc) = 0..(lc - 1)
  BY DEF LCRegion, FromLower
<1> QED BY <1>2, <1>3

\* As no action for the mix cpuset carries a request, LC pods in it have the
\* region of the LC pods -- but for a total of zero, where the end of their region
\* wraps around and they have the whole node.  They are apart from the BE pods in
\* the mix cpuset exactly if LC pods request something and leave BE its 3%.
THEOREM MixRegionValue ==
  \A lc \in 0..Cores :
    /\ MixRegion(lc, 0) = IF lc = 0 THEN 0..(Cores - 1) ELSE LCRegion(lc)
    /\ MixRegion(lc, 0) \cap BEMixRegion(lc) = {} <=> lc > 0 /\ Cores - lc >= MinBECores
<1> SUFFICES ASSUME NEW lc \in 0..Cores
             PROVE /\ MixRegion(lc, 0) = IF lc = 0 THEN 0..(Cores - 1) ELSE LCRegion(lc)
                   /\ MixRegion(lc, 0) \cap BEMixRegion(lc) = {}
                        <=> lc > 0 /\ Cores - lc >= MinBECores
  OBVIOUS
<1>1. Cores - 1 \in BEMixRegion(lc)
  <2>1. BEMixRegion(lc) = (Cores - BECores(lc, 0))..(Cores - 1)
    BY BERegionNotEmpty
  <2>2. BECores(lc, 0) \in 1..Cores
    BY BECoresValue, MinBEType
  <2> QED BY <2>1, <2>2
<1>2. CASE lc = 0
  <2>1. MixEnd(lc, 0) = Cores - 1
    BY <1>2, CoresAssumption DEF MixEnd, Wrap, Lesser
  <2>2. MixRegion(lc, 0) = 0..(Cores - 1)
    BY <1>2, <2>1, CoresAssumption DEF MixRegion
  <2>3. Cores - 1 \in 0..(Cores - 1)
    BY CoresAssumption
  <2> QED BY <1>1, <1>2, <2>2, <2>3
<1>3. CASE lc > 0
  <2>1. MixEnd(lc, 0) = lc - 1
    BY <1>3, CoresAssumption DEF MixEnd, Wrap, Lesser
  <2>2. MixRegion(lc, 0) = LCRegion(lc)
    BY <1>3, <2>1, CoresAssumption DEF MixRegion, LCRegion
  <2>3. Cores - lc >= MinBECores => LCRegion(lc) \cap BEMixRegion(lc) = {}
    BY RegionsPartition, BERegionNotEmpty
  <2>4. ASSUME Cores - lc < MinBECores PROVE lc - 1 \in LCRegion(lc) \cap BEMixRegion(lc)
    <3>1. BEMixRegion(lc) = (Cores - MinBECores)..(Cores - 1)
      BY <2>4, BERegionNotEmpty, BECoresValue, MinBEType DEF Greater
    <3>2. lc - 1 \in LCRegion(lc)
      BY <1>3, CoresAssumption DEF LCRegion, FromLower
    <3> QED BY <2>4, <3>1, <3>2, MinBEType, CoresAssumption
  <2> QED BY <1>3, <2>2, <2>3, <2>4, MinBEType, CoresAssumption
<1> QED BY <1>2, <1>3, CoresAssumption

=============================================================================

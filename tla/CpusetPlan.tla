------------------------------ MODULE CpusetPlan ------------------------------
(***************************************************************************)
(* How a tick of the resource controller divides the cores 0..Cores-1 of   *)
(* the node (pkg/podmanager/resource_controller.go and resource.go): the   *)
(* LC cpuset grows from core 0, the BE cpuset takes the rest from the top  *)
(* and the mix cpuset was to lie between them.  Requests are millicores;   *)
(* a region is a set of cores, {} one that is not written.                 *)
(***************************************************************************)
EXTENDS Integers

CONSTANTS
  Cores,      \* runtime.NumCPU()
  W           \* uint64 wraps around here

ASSUME CoresAssumption == Cores \in Nat \ {0} /\ W \in Nat /\ Cores < W

Lesser(a, b) == IF a < b THEN a ELSE b
Greater(a, b) == IF a < b THEN b ELSE a

\* The difference of two uint64 that came out as x.
Wrap(x) == IF x < 0 THEN x + W ELSE x

\* math.Ceil of a number of millicores
WholeCores(milli) == (milli + 999) \div 1000

\* At least 3% of the cores are for BE.
MinBECores == (3 * Cores + 99) \div 100

\* Faulty variant of LCCores: the total is not cut off at the node's cores.
LCCoresUncut(milli) == WholeCores(milli)

\* totalRequestLCCoresInt
LCCores(milli) == WholeCores(Lesser(milli, 1000 * Cores))

\* beCores and mixCores
BECores(lc, mix) == Greater(Wrap(Wrap(Cores - lc) - mix), MinBECores)
MixCores(lc) == Greater(Wrap(Cores - lc), MinBECores)

\* UpdatePodCPUSetFromLower, UpdatePodCPUSetFromUpper: an error, and no write,
\* for more cores than there are; an empty list of cores is not written either.
FromLower(n) == IF n > Cores THEN {} ELSE 0..(n - 1)

\* Faulty variant of FromUpper: counts one core too many.
FromUpperOff(n) == IF n > Cores THEN {} ELSE (Cores - 1 - n)..(Cores - 1)

FromUpper(n) == IF n > Cores THEN {} ELSE (Cores - n)..(Cores - 1)

LCRegion(lc) == FromLower(lc)
BERegion(lc, mix) == FromUpper(BECores(lc, mix))

\* BE pods in the mix cpuset, and LC pods moved to the BE cpuset.
BEMixRegion(lc) == FromUpper(MixCores(lc))

\* LC pods in the mix cpuset.
MixEnd(lc, mix) == Lesser(Cores - 1, Wrap(lc + mix - 1))
MixRegion(lc, mix) ==
  IF MixEnd(lc, mix) >= lc THEN lc..MixEnd(lc, mix) ELSE FromLower(lc)

=============================================================================

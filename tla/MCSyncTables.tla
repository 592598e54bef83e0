----------------------------- MODULE MCSyncTables -----------------------------
\* SyncTables for TLC.  k1 names a pod of another node and then one of this node;
\* k2 names two pods of this node.  All share an IP (the network of the host).
EXTENDS SyncTables, TLC

CONSTANTS k1, k2

MCGroupPart == "a-b" :> "a_b" @@ "a_b" :> "a_b"
MCParts == {"kubepods", "burstable", "besteffort", "cri-containerd", "a_b", "c1", "c3"}
           \cup Uids
MCPodPart == [u \in Uids |-> u]

a1 == [ip |-> 1, port |-> 80]
a2 == [ip |-> 1, port |-> 81]

MCAddrs == {a1, a2}
MCWeightLabels == {NoLabel, Garbled, 2, 13, 20}

Remote == [key |-> k1, uid |-> "pod1", qos |-> "Burstable", group |-> NoGroup,
           local |-> FALSE, running |-> TRUE, ports |-> TRUE,
           addr |-> a1, weight |-> NoLabel, cid |-> "c1", map |-> "LC"]
Local == [Remote EXCEPT !.uid = "pod2", !.group = "a-b", !.local = TRUE, !.weight = 13]
Grouped == [key |-> k2, uid |-> "pod3", qos |-> "Burstable", group |-> "a-b",
            local |-> TRUE, running |-> TRUE, ports |-> TRUE,
            addr |-> a2, weight |-> NoLabel, cid |-> "c3", map |-> "LC"]
Portless == [Grouped EXCEPT !.uid = "pod4", !.qos = "Guaranteed", !.group = "a_b",
                            !.ports = FALSE, !.addr = NoAddr, !.map = "BE"]

\* With Word = 16, label 13 is negative to the kernel and label 20 becomes 4.
MCPods == {[Remote EXCEPT !.weight = 20]}
  \cup {Local, [Local EXCEPT !.weight = Garbled, !.cid = NoCid]}
  \cup {Grouped, [Grouped EXCEPT !.map = "Uncontrolled", !.weight = 2]}
  \cup {[Grouped EXCEPT !.running = FALSE, !.addr = NoAddr, !.cid = NoCid, !.weight = 2]}
  \cup {Portless, [Portless EXCEPT !.weight = 2]}

TableSymmetry == Permutations(Workers) \cup Permutations(Services)

=============================================================================

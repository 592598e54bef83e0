--------------------------- MODULE CgroupPathProofs ---------------------------
(***************************************************************************)
(* The paths of cgroups, for any labels, uids and container IDs.           *)
(***************************************************************************)
EXTENDS CgroupPath, SequenceTheorems, TLAPS

LEMMA Segments ==
  ASSUME NEW q \in QoSClasses, NEW g \in Groups \cup {NoGroup}
  PROVE  /\ QoSParts(q) \in Seq(Parts) /\ Len(QoSParts(q)) \in {0, 1}
         /\ GroupParts(g) \in Seq(Parts) /\ Len(GroupParts(g)) \in {0, 1}
         /\ QoSParts(q) \o GroupParts(g) \in Seq(Parts)
<1>1. QoSParts(q) \in Seq(Parts) /\ Len(QoSParts(q)) \in {0, 1}
  BY Named DEF QoSParts, QoSClasses
<1>2. GroupParts(g) \in Seq(Parts) /\ Len(GroupParts(g)) \in {0, 1}
  BY Named DEF GroupParts
<1> QED
  BY <1>1, <1>2, ConcatProperties

LEMMA SliceType ==
  ASSUME NEW parts \in Seq(Parts) PROVE Slice(parts) \in Seq(Parts)
<1>1. <<"kubepods">> \in Seq(Parts)
  BY Named
<1> QED
  BY <1>1, ConcatProperties DEF Slice

LEMMA GroupPathType ==
  ASSUME NEW q \in QoSClasses, NEW g \in Groups \cup {NoGroup}
  PROVE  GroupPath(q, g) \in Seq(Seq(Parts))
<1> DEFINE A == <<Slice(<<>>)>>
           B == IF QoSParts(q) = <<>> THEN <<>> ELSE <<Slice(QoSParts(q))>>
           C == IF g = NoGroup THEN <<>> ELSE <<Slice(QoSParts(q) \o GroupParts(g))>>
<1>1. /\ Slice(<<>>) \in Seq(Parts) /\ Slice(QoSParts(q)) \in Seq(Parts)
      /\ Slice(QoSParts(q) \o GroupParts(g)) \in Seq(Parts)
  <2>1. <<>> \in Seq(Parts)
    OBVIOUS
  <2> QED
    BY <2>1, Segments, SliceType
<1>2. A \in Seq(Seq(Parts)) /\ B \in Seq(Seq(Parts)) /\ C \in Seq(Seq(Parts))
  BY <1>1
<1>3. A \o B \in Seq(Seq(Parts))
  BY <1>2, ConcatProperties
<1>4. (A \o B) \o C \in Seq(Seq(Parts))
  BY <1>2, <1>3, ConcatProperties
<1> QED
  BY <1>4 DEF GroupPath

\* A pod's slice ends in the part that names the pod.
LEMMA PodSliceEnds ==
  ASSUME NEW q \in QoSClasses, NEW g \in Groups \cup {NoGroup}, NEW u \in Uids
  PROVE  /\ PodSlice(q, g, u) \in Seq(Parts)
         /\ Len(PodSlice(q, g, u)) \in Nat \ {0}
         /\ PodSlice(q, g, u)[Len(PodSlice(q, g, u))] = PodPart[u]
<1> DEFINE s == QoSParts(q) \o GroupParts(g)
           t == s \o <<PodPart[u]>>
           K == <<"kubepods">>
<1>1. /\ s \in Seq(Parts) /\ <<PodPart[u]>> \in Seq(Parts) /\ K \in Seq(Parts)
      /\ Len(s) \in Nat /\ Len(<<PodPart[u]>>) = 1 /\ Len(K) = 1
  BY Segments, Named
<1>2. t \in Seq(Parts) /\ Len(t) = Len(s) + 1 /\ t[Len(s) + 1] = PodPart[u]
  <2>1. /\ t \in Seq(Parts) /\ Len(t) = Len(s) + 1
        /\ \A i \in 1 .. Len(s) + 1 :
             t[i] = IF i <= Len(s) THEN s[i] ELSE <<PodPart[u]>>[i - Len(s)]
    BY <1>1, ConcatProperties
  <2> QED
    BY <1>1, <2>1
<1>3. /\ K \o t \in Seq(Parts) /\ Len(K \o t) = Len(s) + 2
      /\ (K \o t)[Len(s) + 2] = PodPart[u]
  <2>1. /\ K \o t \in Seq(Parts) /\ Len(K \o t) = Len(K) + Len(t)
        /\ \A i \in 1 .. Len(K) + Len(t) :
             (K \o t)[i] = IF i <= Len(K) THEN K[i] ELSE t[i - Len(K)]
    BY <1>1, <1>2, ConcatProperties
  <2> HIDE DEF K, t, s
  <2>2. Len(K \o t) = Len(s) + 2 /\ (K \o t)[Len(s) + 2] = t[Len(s) + 1]
    BY <1>1, <1>2, <2>1
  <2> QED
    BY <1>2, <2>1, <2>2
<1> QED
  BY <1>1, <1>3 DEF PodSlice, Slice

LEMMA PathTypes ==
  ASSUME NEW q \in QoSClasses, NEW g \in Groups \cup {NoGroup}, NEW u \in Uids
  PROVE  /\ PodPath(q, g, u) \in Seq(Seq(Parts))
         /\ \A c \in Cids : ContainerPath(q, g, u, c) \in Seq(Seq(Parts))
<1>1. PodPath(q, g, u) \in Seq(Seq(Parts))
  BY GroupPathType, PodSliceEnds, AppendProperties DEF PodPath
<1>2. ASSUME NEW c \in Cids PROVE Scope(c) \in Seq(Parts)
  BY Named DEF Scope
<1> QED
  BY <1>1, <1>2, AppendProperties DEF ContainerPath

\* Where cgroupPath finds the cgroup of a pod: no two pods share one, whatever
\* their QoS classes and groups, and whichever groups have names that meet.
THEOREM PodPathsDiffer ==
  ASSUME NEW q \in QoSClasses, NEW g \in Groups \cup {NoGroup}, NEW u \in Uids,
         NEW r \in QoSClasses, NEW h \in Groups \cup {NoGroup}, NEW v \in Uids,
         PodPath(q, g, u) = PodPath(r, h, v)
  PROVE  u = v
<1>1. PodSlice(q, g, u) = PodSlice(r, h, v)
  <2>1. /\ GroupPath(q, g) \in Seq(Seq(Parts)) /\ GroupPath(r, h) \in Seq(Seq(Parts))
        /\ PodSlice(q, g, u) \in Seq(Parts) /\ PodSlice(r, h, v) \in Seq(Parts)
    BY GroupPathType, PodSliceEnds
  <2> QED
    BY <2>1, AppendInjective DEF PodPath
<1>2. PodPart[u] = PodPart[v]
  <2>1. PodSlice(q, g, u)[Len(PodSlice(q, g, u))] = PodPart[u]
    BY PodSliceEnds
  <2>2. PodSlice(r, h, v)[Len(PodSlice(r, h, v))] = PodPart[v]
    BY PodSliceEnds
  <2> QED
    BY <1>1, <2>1, <2>2
<1> QED
  BY <1>2, Named

\* Nor do the containers of two pods.
THEOREM ContainerPathsDiffer ==
  ASSUME NEW q \in QoSClasses, NEW g \in Groups \cup {NoGroup}, NEW u \in Uids,
         NEW r \in QoSClasses, NEW h \in Groups \cup {NoGroup}, NEW v \in Uids,
         NEW c \in Cids, NEW d \in Cids,
         ContainerPath(q, g, u, c) = ContainerPath(r, h, v, d)
  PROVE  u = v /\ c = d
<1>1. /\ PodPath(q, g, u) \in Seq(Seq(Parts)) /\ PodPath(r, h, v) \in Seq(Seq(Parts))
      /\ Scope(c) \in Seq(Parts) /\ Scope(d) \in Seq(Parts)
  <2>1. PodPath(q, g, u) \in Seq(Seq(Parts))
    BY PathTypes
  <2>2. PodPath(r, h, v) \in Seq(Seq(Parts))
    BY PathTypes
  <2>3. Scope(c) \in Seq(Parts) /\ Scope(d) \in Seq(Parts)
    BY Named DEF Scope
  <2> QED
    BY <2>1, <2>2, <2>3
<1>2. PodPath(q, g, u) = PodPath(r, h, v) /\ Scope(c) = Scope(d)
  BY <1>1, AppendInjective DEF ContainerPath
<1>3. c = d
  BY <1>2 DEF Scope
<1> QED
  BY <1>2, <1>3, PodPathsDiffer

-----------------------------------------------------------------------------
(* systemd derives the parent of a slice from its name. *)

Extends(s, t) == \E x \in Parts : t = Append(s, x)

LEMMA SliceExtends ==
  ASSUME NEW parts \in Seq(Parts), NEW x \in Parts
  PROVE  Slice(parts \o <<x>>) = Append(Slice(parts), x)
<1> DEFINE K == <<"kubepods">>
<1>1. K \in Seq(Parts) /\ <<x>> \in Seq(Parts) /\ K \o parts \in Seq(Parts)
  <2>1. K \in Seq(Parts) /\ <<x>> \in Seq(Parts)
    BY Named
  <2> QED
    BY <2>1, ConcatProperties
<1>2. (K \o parts) \o <<x>> = K \o (parts \o <<x>>)
  BY <1>1, ConcatAssociative
<1>3. Append(K \o parts, x) = (K \o parts) \o <<x>>
  BY <1>1, AppendIsConcat
<1> QED
  BY <1>2, <1>3 DEF Slice

Nested(path) ==
  /\ path \in Seq(Seq(Parts)) /\ path # <<>>
  /\ path[1] = <<"kubepods">>
  /\ \A n \in 1 .. Len(path) - 1 : Extends(path[n], path[n + 1])

LEMMA OneElement ==
  ASSUME NEW S, NEW x \in S
  PROVE  <<x>> \in Seq(S) /\ <<x>> # <<>> /\ Len(<<x>>) = 1 /\ <<x>>[1] = x
OBVIOUS

LEMMA NestedAppend ==
  ASSUME NEW path, Nested(path),
         NEW slice \in Seq(Parts), Extends(path[Len(path)], slice)
  PROVE  /\ Nested(Append(path, slice))
         /\ Append(path, slice)[Len(Append(path, slice))] = slice
         /\ path \o <<slice>> = Append(path, slice)
<1> DEFINE longer == Append(path, slice)
<1>1. /\ longer \in Seq(Seq(Parts)) /\ longer # <<>>
      /\ Len(longer) = Len(path) + 1 /\ Len(path) \in Nat \ {0}
      /\ \A i \in 1 .. Len(path) : longer[i] = path[i]
      /\ longer[Len(path) + 1] = slice
  BY AppendProperties, EmptySeq DEF Nested
<1>2. ASSUME NEW n \in 1 .. Len(longer) - 1 PROVE Extends(longer[n], longer[n + 1])
  <2>1. CASE n = Len(path)
    BY <1>1, <2>1
  <2>2. CASE n # Len(path)
    BY <1>1, <2>2 DEF Nested
  <2> QED
    BY <2>1, <2>2
<1>3. path \o <<slice>> = longer
  BY AppendIsConcat DEF Nested
<1> QED
  BY <1>1, <1>2, <1>3 DEF Nested

\* What cgroupPath builds is what systemd expects, with and without QoS class and
\* group: a path begins at kubepods.slice, and each slice, down to the pod's, has
\* the name of the one around it and one part more.
THEOREM SlicesNest ==
  ASSUME NEW q \in QoSClasses, NEW g \in Groups \cup {NoGroup}, NEW u \in Uids
  PROVE  Nested(PodPath(q, g, u))
<1> DEFINE Q == QoSParts(q)
           G == GroupParts(g)
           A == <<Slice(<<>>)>>
           B == IF Q = <<>> THEN <<>> ELSE <<Slice(Q)>>
           C == IF g = NoGroup THEN <<>> ELSE <<Slice(Q \o G)>>
           Ends(path, slice) == Nested(path) /\ path[Len(path)] = slice
<1>1. /\ <<>> \in Seq(Parts) /\ Q \in Seq(Parts) /\ G \in Seq(Parts)
      /\ Q \o G \in Seq(Parts) /\ PodPart[u] \in Parts
  BY Segments, Named
<1>2. Ends(A, Slice(<<>>))
  <2>1. <<"kubepods">> \in Seq(Parts)
    BY Named
  <2>2. Slice(<<>>) = <<"kubepods">>
    BY <2>1, ConcatEmptySeq DEF Slice
  <2>3. A \in Seq(Seq(Parts)) /\ A # <<>> /\ Len(A) = 1 /\ A[1] = Slice(<<>>)
    BY <1>1, SliceType, OneElement
  <2> QED
    BY <2>2, <2>3 DEF Nested
<1>3. Ends(A \o B, Slice(Q))
  <2>1. CASE Q = <<>>
    <3>1. A \o B = A
      BY <1>2, <2>1, ConcatEmptySeq DEF Nested
    <3> QED
      BY <1>2, <2>1, <3>1
  <2>2. CASE Q # <<>>
    <3>1. PICK x \in Parts : Q = <<x>>
      BY <2>2, Named DEF QoSParts, QoSClasses
    <3>2. Q = <<>> \o <<x>>
      BY <1>1, <3>1, ConcatEmptySeq
    <3>3. Extends(Slice(<<>>), Slice(Q))
      BY <1>1, <3>2, SliceExtends DEF Extends
    <3>4. Slice(Q) \in Seq(Parts) /\ A \o B = A \o <<Slice(Q)>>
      BY <1>1, <2>2, SliceType
    <3> HIDE DEF A, B, Q
    <3> QED
      BY <1>2, <3>3, <3>4, NestedAppend
  <2> QED
    BY <2>1, <2>2
<1>4. Ends(A \o B \o C, Slice(Q \o G))
  <2>1. CASE g = NoGroup
    <3>1. A \o B \o C = A \o B /\ Q \o G = Q
      BY <1>1, <1>3, <2>1, ConcatEmptySeq DEF Nested, GroupParts
    <3> QED
      BY <1>3, <3>1
  <2>2. CASE g # NoGroup
    <3>1. PICK x \in Parts : G = <<x>>
      BY <2>2, Named DEF GroupParts
    <3>2. Extends(Slice(Q), Slice(Q \o G))
      BY <1>1, <3>1, SliceExtends DEF Extends
    <3>3. Slice(Q \o G) \in Seq(Parts) /\ A \o B \o C = A \o B \o <<Slice(Q \o G)>>
      BY <1>1, <2>2, SliceType
    <3> HIDE DEF A, B, C, Q, G
    <3> QED
      BY <1>3, <3>2, <3>3, NestedAppend
  <2> QED
    BY <2>1, <2>2
<1>5. Extends(Slice(Q \o G), PodSlice(q, g, u))
  BY <1>1, SliceExtends DEF Extends, PodSlice
<1>6. GroupPath(q, g) = A \o B \o C
  BY DEF GroupPath
<1> HIDE DEF A, B, C
<1> QED
  BY <1>4, <1>5, <1>6, NestedAppend, PodSliceEnds DEF PodPath

=============================================================================

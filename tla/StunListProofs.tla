--------------------------- MODULE StunListProofs ---------------------------
(***************************************************************************)
(* Proofs about StunList: what the counting in pick() guarantees for every *)
(* list, with hosts named once or more often, and for every host that      *)
(* WEBRTC_STUN_FIRST may name.                                             *)
(***************************************************************************)
EXTENDS StunList, FiniteSetTheorems, TLAPS

LEMMA ServersType ==
    ASSUME servers \in Lists
    PROVE  /\ Len(servers) \in Nat \ {0}
           /\ DOMAIN servers = 1 .. Len(servers)
           /\ servers \in [1 .. Len(servers) -> Listed]
           /\ Listed \subseteq Host
           /\ Listed # {}
           /\ NoHost \notin Listed
<1>1. servers \in Seq(Host) /\ servers # <<>> /\ NoHost \notin Host
  BY ListAssumption DEF ListAssumption
<1>2. servers[1] \in Listed
  BY <1>1 DEF Listed
<1> QED BY <1>1, <1>2 DEF Listed

\* A list has at most as many hosts as lines.
LEMMA ListedCardinality ==
    ASSUME servers \in Lists
    PROVE  /\ IsFiniteSet(Listed)
           /\ Cardinality(Listed) \in Nat
           /\ Cardinality(Listed) <= Len(servers)
<1>1. IsFiniteSet(1 .. Len(servers)) /\ Cardinality(1 .. Len(servers)) = Len(servers)
  BY FS_Interval, ServersType
<1>2. servers \in Surjection(1 .. Len(servers), Listed)
  BY ServersType DEF Listed, Surjection
<1> QED BY <1>1, <1>2, FS_Surjection, FS_CardinalityType

----------------------------------------------------------------------------
LEMMA InitType == Init => TypeOK
BY ListAssumption, FS_EmptySet DEF Init, TypeOK, ListAssumption

LEMMA NextType ==
    ASSUME TypeOK, [Next]_vars
    PROVE  TypeOK'
<1> USE DEF TypeOK
<1>1. CASE PickFirst
  BY <1>1 DEF PickFirst
<1>2. CASE PickListed
  <2>1. failed' \subseteq Host /\ IsFiniteSet(failed')
    BY <1>2, FS_EmptySet DEF PickListed, Forgive
  <2>2. broken' \in BOOLEAN
    BY <1>2 DEF PickListed
  <2>3. inUse' \in Host \cup {NoHost}
    BY <1>2, ServersType DEF PickListed
  <2> QED BY <1>2, <2>1, <2>2, <2>3 DEF PickListed
<1>3. CASE MarkFailed
  BY <1>3, FS_AddElement DEF MarkFailed
<1>4. CASE UNCHANGED vars
  BY <1>4 DEF vars
<1> QED BY <1>1, <1>2, <1>3, <1>4 DEF Next, Pick

\* The variables keep their types, for every list of servers.
THEOREM TypeCorrect == Spec => []TypeOK
<1>1. Init => TypeOK
  BY InitType
<1>2. TypeOK /\ [Next]_vars => TypeOK'
  BY NextType
<1> QED BY <1>1, <1>2, PTL DEF Spec

----------------------------------------------------------------------------
\* pick() runs out of candidates only when every host of the list has failed
\* and they are fewer than its lines, for every list and whatever fails.
THEOREM RunsDryHolds == Spec => []RunsDry
<1>1. Init => RunsDry
  BY DEF Init, RunsDry
<1>2. TypeOK /\ RunsDry /\ [Next]_vars => RunsDry'
  <2> SUFFICES ASSUME TypeOK, RunsDry, [Next]_vars PROVE RunsDry'
    OBVIOUS
  <2>1. CASE PickListed
    <3> SUFFICES ASSUME broken' PROVE Listed' \subseteq failed' /\ Cardinality(failed') < Len(servers')
      BY DEF RunsDry
    <3>1. servers' = servers /\ Listed' = Listed /\ failed' = Forgive(failed) /\ Listed \subseteq failed'
      BY <2>1 DEF PickListed, Listed
    <3>2. failed' # {}
      BY <3>1, ServersType DEF TypeOK
    <3>3. failed' = failed /\ ~(Cardinality(failed) >= Len(servers))
      BY <3>1, <3>2 DEF Forgive
    <3>4. Cardinality(failed) \in Nat /\ Len(servers) \in Nat
      BY FS_CardinalityType, ServersType DEF TypeOK
    <3> QED BY <3>1, <3>3, <3>4
  <2>2. CASE PickFirst
    BY <2>2 DEF PickFirst, RunsDry
  <2>3. CASE MarkFailed
    BY <2>3 DEF MarkFailed, RunsDry
  <2>4. CASE UNCHANGED vars
    BY <2>4 DEF vars, RunsDry, Listed
  <2> QED BY <2>1, <2>2, <2>3, <2>4 DEF Next, Pick
<1> QED BY <1>1, <1>2, TypeCorrect, PTL DEF Spec

\* A list that names each host once never runs dry: so many failed servers
\* make the set as large as the list.
THEOREM OnlyRepeatsRunDry ==
    Spec => [](broken => Cardinality(Listed) < Len(servers))
<1>1. TypeOK /\ RunsDry => (broken => Cardinality(Listed) < Len(servers))
  <2> SUFFICES ASSUME TypeOK, RunsDry, broken PROVE Cardinality(Listed) < Len(servers)
    OBVIOUS
  <2>1. Cardinality(Listed) <= Cardinality(failed) /\ Cardinality(failed) < Len(servers)
    BY FS_Subset DEF RunsDry, TypeOK
  <2> QED BY <2>1, FS_CardinalityType, ListedCardinality, ServersType DEF TypeOK
<1> QED BY <1>1, TypeCorrect, RunsDryHolds, PTL

----------------------------------------------------------------------------
\* At most one host that is not listed is ever used or marked: the first one.
OneUnlisted ==
    ~broken => \A u, v \in (failed \cup {first, inUse}) \ (Listed \cup {NoHost}) : u = v

LEMMA NextOneUnlisted ==
    ASSUME TypeOK, OneUnlisted, [Next]_vars
    PROVE  OneUnlisted'
<1> SUFFICES ASSUME ~broken',
                    NEW u \in (failed' \cup {first', inUse'}) \ (Listed' \cup {NoHost}),
                    NEW v \in (failed' \cup {first', inUse'}) \ (Listed' \cup {NoHost})
             PROVE  u = v
  BY DEF OneUnlisted
<1> DEFINE Hosts == (failed \cup {first, inUse}) \ (Listed \cup {NoHost})
<1>1. ~broken => \A x, y \in Hosts : x = y
  BY DEF OneUnlisted
<1>2. CASE PickFirst
  <2>1. u \in Hosts /\ v \in Hosts /\ ~broken
    BY <1>2 DEF PickFirst, Listed
  <2> QED BY <2>1, <1>1
<1>3. CASE PickListed
  <2>1. inUse' \in Listed \ failed' /\ failed' \subseteq failed /\ ~broken /\ first' = first
    BY <1>3 DEF PickListed, Forgive
  <2>2. Listed' = Listed
    BY <1>3 DEF PickListed, Listed
  <2>3. u \in Hosts /\ v \in Hosts
    BY <2>1, <2>2
  <2> QED BY <2>1, <2>3, <1>1
<1>4. CASE MarkFailed
  <2>1. u \in Hosts /\ v \in Hosts /\ ~broken
    BY <1>4 DEF MarkFailed, Listed
  <2> QED BY <2>1, <1>1
<1>5. CASE UNCHANGED vars
  <2>1. u \in Hosts /\ v \in Hosts /\ ~broken
    BY <1>5 DEF vars, Listed
  <2> QED BY <2>1, <1>1
<1> QED BY <1>2, <1>3, <1>4, <1>5 DEF Next, Pick

\* As many failed hosts as hosts in the list, at most one of them not listed,
\* leave at most one of the list.
LEMMA AllButOne ==
    ASSUME TypeOK, OneUnlisted, ~broken, Cardinality(failed) >= Len(servers)
    PROVE  \/ Listed \subseteq failed
           \/ /\ failed \ Listed # {}
              /\ \E s \in Listed : Listed \ {s} \subseteq failed
<1>1. IsFiniteSet(failed) /\ Cardinality(failed) \in Nat /\ NoHost \notin failed
  BY FS_CardinalityType, ListAssumption DEF TypeOK, ListAssumption
<1>2. /\ IsFiniteSet(Listed) /\ Cardinality(Listed) \in Nat
      /\ Cardinality(Listed) <= Cardinality(failed)
  BY ListedCardinality, ServersType, <1>1 DEF TypeOK
<1>3. SUFFICES ASSUME ~(Listed \subseteq failed)
               PROVE  /\ failed \ Listed # {}
                      /\ \E s \in Listed : Listed \ {s} \subseteq failed
  OBVIOUS
<1>4. PICK s \in Listed : s \notin failed
  BY <1>3
<1>5. /\ IsFiniteSet(Listed \ {s})
      /\ Cardinality(Listed \ {s}) = Cardinality(Listed) - 1
  BY <1>2, <1>4, FS_RemoveElement
<1>6. failed \ Listed # {}
  <2> SUFFICES ASSUME failed \subseteq Listed PROVE FALSE
    OBVIOUS
  <2>1. failed \subseteq Listed \ {s}
    BY <1>4
  <2>2. Cardinality(failed) <= Cardinality(Listed \ {s})
    BY <2>1, <1>5, FS_Subset
  <2> QED BY <2>2, <1>5, <1>1, <1>2
<1>7. PICK u \in failed : u \notin Listed
  BY <1>6
<1>8. failed \ {u} \subseteq Listed \ {s}
  BY <1>1, <1>4, <1>7 DEF OneUnlisted
<1>9. /\ IsFiniteSet(failed \ {u})
      /\ Cardinality(failed \ {u}) = Cardinality(failed) - 1
  BY <1>1, <1>7, FS_RemoveElement
<1>10. Cardinality(failed \ {u}) <= Cardinality(Listed \ {s})
  BY <1>5, <1>8, FS_Subset
<1>11. Cardinality(failed \ {u}) = Cardinality(Listed \ {s})
  BY <1>10, <1>9, <1>5, <1>1, <1>2
<1>12. failed \ {u} = Listed \ {s}
  BY <1>8, <1>11, <1>5, FS_Subset
<1> QED BY <1>6, <1>12

\* pick() returns no failed server before all of the list has failed, or all
\* but one when the first server was not of the list: for every list and every
\* first server.
THEOREM SkipsFailedHolds == Spec => SkipsFailed
<1>1. Init => OneUnlisted
  BY DEF Init, OneUnlisted
<1>2. TypeOK /\ OneUnlisted /\ [Next]_vars => OneUnlisted'
  BY NextOneUnlisted
<1> DEFINE Enough == \/ Listed \subseteq failed
                     \/ /\ failed \ Listed # {}
                        /\ \E s \in Listed : Listed \ {s} \subseteq failed
           Skips == \A h \in Host : (PickListed /\ inUse' = h /\ h \in failed) => Enough
<1>3. TypeOK /\ OneUnlisted /\ [Next]_vars => [Skips]_vars
  <2> SUFFICES ASSUME TypeOK, OneUnlisted, NEW h \in Host,
                      PickListed, inUse' = h, h \in failed
               PROVE  Enough
    OBVIOUS
  <2>1. ~broken /\ failed' = Forgive(failed) /\ broken' = (Listed \subseteq failed')
    BY DEF PickListed
  <2>2. CASE Cardinality(failed) >= Len(servers)
    BY <2>1, <2>2, AllButOne
  <2>3. CASE ~(Cardinality(failed) >= Len(servers))
    <3>1. failed' = failed
      BY <2>1, <2>3 DEF Forgive
    <3>2. broken'
      BY <3>1 DEF PickListed
    <3> QED BY <3>1, <3>2, <2>1
  <2> QED BY <2>2, <2>3
<1> QED BY <1>1, <1>2, <1>3, TypeCorrect, PTL DEF Spec, SkipsFailed
=============================================================================

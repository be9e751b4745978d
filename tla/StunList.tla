------------------------------ MODULE StunList ------------------------------
(***************************************************************************)
(* prototype-webrtc-stun/src/stunlist.cpp: which STUN server the next      *)
(* PeerLink uses.  The list is a resource file, copied verbatim, so a host *)
(* may stand in it twice; servers that gave no public address are kept in  *)
(* a set.  Connector::startLink picks, Connector::onLocalReady reports.    *)
(***************************************************************************)
EXTENDS Integers, Sequences, FiniteSets

CONSTANTS
    Host,       \* "host:port" strings
    NoHost,     \* the empty string
    Lists,      \* what stun-servers.txt may hold: sequences of hosts, never
                \* empty since the list is compiled into the program
    Firsts      \* what WEBRTC_STUN_FIRST may be: any host, listed or not, or
                \* NoHost

ASSUME ListAssumption ==
    /\ NoHost \notin Host
    /\ Lists \subseteq Seq(Host) \ {<<>>}
    /\ Firsts \subseteq Host \cup {NoHost}

VARIABLES
    servers,    \* m_servers
    failed,     \* m_failed
    first,      \* m_first
    inUse,      \* server of the link at hand
    broken      \* pick() has indexed an empty list

vars == <<servers, failed, first, inUse, broken>>

Listed == {servers[i] : i \in DOMAIN servers}

Init ==
    /\ servers \in Lists
    /\ failed = {}
    /\ first \in Firsts
    /\ inUse = NoHost
    /\ broken = FALSE

\* Mutant: the set of failed servers is never emptied.
ForgiveNobody(f) == f

\* Mutant: one failed server short of the whole list counts as all.
ForgiveEarly(f) == IF Cardinality(f) >= Len(servers) - 1 THEN {} ELSE f

\* All failed once: every server gets another chance.
Forgive(f) == IF Cardinality(f) >= Len(servers) THEN {} ELSE f

PickFirst ==
    /\ ~broken
    /\ first # NoHost
    /\ inUse' = first
    /\ first' = NoHost
    /\ UNCHANGED <<servers, failed, broken>>

\* A random candidate.  Without any, candidates.at() reads past the end of an
\* empty list: the program stops, or goes on with whatever is there.
PickListed ==
    /\ ~broken
    /\ first = NoHost
    /\ failed' = Forgive(failed)
    /\ broken' = (Listed \subseteq failed')
    /\ inUse' \in IF broken' THEN Host \cup {NoHost} ELSE Listed \ failed'
    /\ UNCHANGED <<servers, first>>

Pick == PickFirst \/ PickListed

\* Gathering with the server of the link at hand found no public address.
MarkFailed ==
    /\ ~broken
    /\ inUse # NoHost
    /\ failed' = failed \cup {inUse}
    /\ UNCHANGED <<servers, first, inUse, broken>>

Next == Pick \/ MarkFailed

Spec == Init /\ [][Next]_vars

----------------------------------------------------------------------------
TypeOK ==
    /\ servers \in Lists
    /\ failed \subseteq Host /\ IsFiniteSet(failed)
    /\ first \in Host \cup {NoHost}
    /\ inUse \in Host \cup {NoHost}
    /\ broken \in BOOLEAN

\* pick() always finds a candidate: when all servers have failed once they all
\* get another chance (the comment in stunlist.cpp), so a long session without
\* network does not run out of servers.
AnotherChance == ~broken

\* What the code does keep, for every list: pick() runs out of candidates only
\* when every host of the list has failed and the failed hosts are still fewer
\* than the list has lines, so never with a list that names each host once.
RunsDry ==
    broken => /\ Listed \subseteq failed
              /\ Cardinality(failed) < Len(servers)

\* pick() hands out a server that failed only after all of the list failed; or
\* all but one of it, when WEBRTC_STUN_FIRST named a host that is not listed and
\* that failed, since it counts like one of the list.
SkipsFailed ==
    [][\A h \in Host : (PickListed /\ inUse' = h /\ h \in failed) =>
          \/ Listed \subseteq failed
          \/ /\ failed \ Listed # {}
             /\ \E s \in Listed : Listed \ {s} \subseteq failed]_vars
=============================================================================

----------------------------- MODULE TopicRegistry -----------------------------
(***************************************************************************)
(* What the registration promises to whoever reads its tables: a registry   *)
(* of who asks for which topic, who is on it, how many it takes and which   *)
(* topics are offered.  Every change is one of six moves, and none of them  *)
(* takes a student off a topic.                                             *)
(*                                                                          *)
(* A move is a relation between the registry before and after it, so that   *)
(* it can be said of a step and of what a transaction has yet to commit.    *)
(***************************************************************************)
EXTENDS Naturals, FiniteSets

CONSTANTS Student, Topic, MaxTopicLimit

VARIABLES
    registry,   \* asking, members and limit of each topic, and the offered topics
    count       \* how many members each topic is said to have

-----------------------------------------------------------------------------
KeepsMembers(g, h) == h.members = g.members
KeepsAsking(g, h)  == h.asking = g.asking
KeepsOffer(g, h)   == h.limit = g.limit /\ h.offered = g.offered

\* Nobody of `who` is on a topic.
Free(g, who) == \A t \in Topic : who \cap g.members[t] = {}

\* The requests of `who` end, and `who` joins topic t.
Joins(g, h, t, who) ==
    h.members = [u \in Topic |-> IF u = t THEN g.members[u] \cup who ELSE g.members[u]]

\* A student asks for an offered topic with a free place; another request he has ends.
Asks(g, h, s, t) ==
    /\ t \in g.offered /\ Cardinality(g.members[t]) < g.limit[t]
    /\ Free(g, {s})
    /\ h.asking = [u \in Topic |-> IF u = t THEN g.asking[u] \cup {s} ELSE g.asking[u] \ {s}]
    /\ KeepsMembers(g, h) /\ KeepsOffer(g, h)

\* A request is withdrawn or turned down.
Leaves(g, h, s) ==
    /\ h.asking = [u \in Topic |-> g.asking[u] \ {s}]
    /\ KeepsMembers(g, h) /\ KeepsOffer(g, h)

\* A request is accepted within the limit.  Others are turned down with it only if the
\* topic is then full, counting who still asks.
Accepts(g, h, s, t, others) ==
    /\ s \in g.asking[t] /\ s \notin others
    /\ Joins(g, h, t, {s})
    /\ Cardinality(h.members[t]) <= h.limit[t]
    /\ h.asking = [u \in Topic |-> IF u = t THEN g.asking[u] \ ({s} \cup others) ELSE g.asking[u]]
    /\ others # {} => Cardinality(h.members[t] \cup h.asking[t]) >= h.limit[t]
    /\ KeepsOffer(g, h)

\* Students are put on an offered topic, whether they asked or not.
Assigns(g, h, t, who) ==
    /\ t \in g.offered
    /\ Free(g, who)
    /\ Joins(g, h, t, who)
    /\ Cardinality(h.members[t]) <= h.limit[t]
    /\ h.asking = [u \in Topic |-> g.asking[u] \ who]
    /\ KeepsOffer(g, h)

\* The limit of a topic changes; that of an offered one not below its members.
Limits(g, h, t) ==
    /\ \A u \in Topic \ {t} : h.limit[u] = g.limit[u]
    /\ t \in g.offered => Cardinality(g.members[t]) <= h.limit[t]
    /\ h.offered = g.offered
    /\ KeepsAsking(g, h) /\ KeepsMembers(g, h)

\* Topics are offered or withdrawn; requests end only on topics that are not offered then.
Offers(g, h, others) ==
    /\ h.asking = [u \in Topic |-> IF u \in h.offered THEN g.asking[u] ELSE g.asking[u] \ others]
    /\ h.limit = g.limit
    /\ KeepsMembers(g, h)

Move(g, h) ==
    \/ \E others \in SUBSET Student : Offers(g, h, others)
    \/ \E s \in Student : Leaves(g, h, s)
    \/ \E s \in Student, t \in Topic : Asks(g, h, s, t)
    \/ \E t \in Topic : Limits(g, h, t)
    \/ \E t \in Topic, who \in SUBSET Student : Assigns(g, h, t, who)
    \/ \E s \in Student, t \in Topic, others \in SUBSET Student : Accepts(g, h, s, t, others)

-----------------------------------------------------------------------------
NobodyOn == [t \in Topic |-> {}]

RegistryInit ==
    /\ registry \in [asking : {NobodyOn}, members : {NobodyOn},
                     limit : [Topic -> 1 .. MaxTopicLimit], offered : {Topic}]
    /\ count = [t \in Topic |-> 0]

\* Whatever the move, the count that is stored is that of the members.
RegistryNext ==
    /\ Move(registry, registry')
    /\ count' = [t \in Topic |-> Cardinality(registry'.members[t])]

RegistrySpec == RegistryInit /\ [][RegistryNext]_<<registry, count>>

=============================================================================

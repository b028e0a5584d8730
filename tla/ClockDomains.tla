---------------------------- MODULE ClockDomains ----------------------------
(***************************************************************************)
(* The tree of clock domains.  A source has performance points and a       *)
(* level; a domain derived from another, at any depth, keeps its own copy  *)
(* of its period, which every change of the source's level has to renew.   *)
(* Snapshots hold levels and dividers and no derived period.               *)
(***************************************************************************)
EXTENDS Naturals

CONSTANTS
    ClockDomainIds,      \* a set of naturals
    PerformancePoints,   \* what sources are built with: sorted sequences of periods
    ClockDividers,
    MaxPeriod            \* the largest period, u64::MAX in the program

ASSUME ClockAssumption ==
    /\ ClockDomainIds \subseteq Nat
    /\ ClockDividers \subseteq Nat \ {0}
    /\ \A points \in PerformancePoints : \A i \in DOMAIN points : points[i] \in 1..MaxPeriod

VARIABLES
    domains,       \* id -> [source, points, level, period] or [source, parent, divider, period]
    domainsSaved   \* the last snapshot of the tree

clockVars == <<domains, domainsSaved>>

NoDomains == [id \in {} |-> 0]

ClockDomainsInit == domains = NoDomains /\ domainsSaved = NoDomains

With(tree, id, node) == [d \in DOMAIN tree \union {id} |-> IF d = id THEN node ELSE tree[d]]

InsertSource(id, points, level) ==
    /\ id \notin DOMAIN domains
    /\ domains' = With(domains, id, [source |-> TRUE, points |-> points, level |-> level,
                                     period |-> points[level]])
    /\ UNCHANGED domainsSaved

\* refused with DerivedClockOverflow where the period does not fit
InsertDerived(id, parent, divider) ==
    /\ id \notin DOMAIN domains /\ parent \in DOMAIN domains
    /\ domains[parent].period * divider <= MaxPeriod
    /\ domains' = With(domains, id, [source |-> FALSE, parent |-> parent, divider |-> divider,
                                     period |-> domains[parent].period * divider])
    /\ UNCHANGED domainsSaved

\* mutant: the children of the source are renewed and not theirs
MutantDerivedPeriods(tree, root, period) ==
    [id \in DOMAIN tree |->
        CASE id = root -> period
          [] id # root /\ ~tree[id].source ->
                 IF tree[id].parent = root THEN period * tree[id].divider ELSE tree[id].period
          [] id # root /\ tree[id].source -> tree[id].period]

\* collect_derived_updates: the periods below root once its own is the one given
DerivedPeriods(tree, root, period) ==
    LET periods[id \in DOMAIN tree] ==
            CASE id = root -> period
              [] id # root /\ ~tree[id].source -> periods[tree[id].parent] * tree[id].divider
              [] id # root /\ tree[id].source -> tree[id].period
    IN  periods

\* set_source_performance_level: all the periods are computed, and one that does not fit refuses
\* the change, before any of them is stored
SetSourcePerformanceLevel(id, level) ==
    /\ domains[id].source /\ level \in DOMAIN domains[id].points
    /\ LET periods == DerivedPeriods(domains, id, domains[id].points[level])
           renewed == [d \in DOMAIN domains |-> [domains[d] EXCEPT !.period = periods[d]]]
       IN  /\ \A d \in DOMAIN domains : periods[d] <= MaxPeriod
           /\ domains' = [renewed EXCEPT ![id].level = level]
    /\ UNCHANGED domainsSaved

\* snapshot; what it does not hold is not looked at by Rebuilt
TakeClockSnapshot == domainsSaved' = domains /\ UNCHANGED domains

\* ClockDomainTree::restore: the sources at their levels, then each derived domain once its
\* parent is there
Rebuilt(tree) ==
    LET periods[id \in DOMAIN tree] ==
            IF tree[id].source THEN tree[id].points[tree[id].level]
                               ELSE periods[tree[id].parent] * tree[id].divider
    IN  [id \in DOMAIN tree |-> [tree[id] EXCEPT !.period = periods[id]]]

RestoreClocks == domains' = Rebuilt(domainsSaved) /\ UNCHANGED domainsSaved

ClockNext ==
    \/ \E id \in ClockDomainIds, points \in PerformancePoints :
           \E level \in DOMAIN points : InsertSource(id, points, level)
    \/ \E id, parent \in ClockDomainIds, divider \in ClockDividers :
           InsertDerived(id, parent, divider)
    \/ \E id \in DOMAIN domains : \E level \in 1..2 : SetSourcePerformanceLevel(id, level)
    \/ TakeClockSnapshot
    \/ RestoreClocks

-----------------------------------------------------------------------------
\* The tree always shows what its sources say: every derived domain has the period of its
\* parent times its divider, whatever levels were set, refused or restored and however deep it
\* is (set_source_performance_level renews a cached period; restore recomputes it).
DerivedFollowSource ==
    \A id \in DOMAIN domains :
        LET node == domains[id]
        IN  /\ node.period \in 1..MaxPeriod
            /\ node.period = IF node.source THEN node.points[node.level]
                                            ELSE domains[node.parent].period * node.divider
=============================================================================

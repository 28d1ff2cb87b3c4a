--------------------------- MODULE RoutingProofs ---------------------------
(***************************************************************************)
(* Routing for every set of models, profiles, rules and requests.  The     *)
(* order of candidates is total, so that a best one exists in every finite *)
(* set; the choice is therefore one of the eligible models, whose class is *)
(* at least the demanded one, which is a maximum.                          *)
(***************************************************************************)
EXTENDS Routing, FiniteSetTheorems, TLAPS, WellFoundedInduction

-----------------------------------------------------------------------------
\* Every non-empty set of naturals has a least member.
LEMMA LeastMember ==
    ASSUME NEW T, T \subseteq Nat, T # {}
    PROVE  \E x \in T : \A y \in T : x <= y
<1> DEFINE Less == OpToRel(<, Nat)
<1>1. IsWellFoundedOn(Less, Nat)
  BY NatLessThanWellFounded, Zenon
<1>2. \A x, y \in Nat : y < x => <<y, x>> \in Less
  BY DEF OpToRel
<1> HIDE DEF Less
<1>3. PICK x \in T : \A y \in T : ~(<<y, x>> \in Less)
  BY <1>1, WFMin, Zenon
<1>4. \A y \in T : ~(y < x)
  BY <1>2, <1>3, Zenon
<1>5. x \in Nat /\ \A y \in T : y \in Nat
  OBVIOUS
<1>6. \A y \in T : x <= y
  BY <1>4, <1>5, SMT
<1> QED
  BY <1>6, Zenon

\* A set of classes that is not empty has a highest one.
LEMMA HighestClass ==
    ASSUME NEW S \in SUBSET Classes, S # {}
    PROVE  Highest(S) \in S /\ \A c \in S : Highest(S) >= c
<1>1. \E c \in S : \A d \in S : c >= d
  <2>1. \A d \in S : d \in Int /\ d \in {0, 1, 2}
    BY DEF Classes
  <2>2. CASE 2 \in S
    BY <2>1, <2>2
  <2>3. CASE 2 \notin S /\ 1 \in S
    BY <2>1, <2>3
  <2>4. CASE 2 \notin S /\ 1 \notin S
    BY <2>1, <2>4
  <2> QED
    BY <2>2, <2>3, <2>4
<1> QED
  BY <1>1 DEF Highest

\* The nearest type is one of those asked for, or there is none.
LEMMA NearestIsMember ==
    ASSUME NEW type, NEW S
    PROVE  Nearest(type, S) \in S \cup {None}
<1> DEFINE up == CHOOSE up : up = [n \in 0..Cardinality(Types) |->
                    IF n = 0 THEN type
                    ELSE IF up[n - 1] \in DOMAIN Parents THEN Parents[up[n - 1]] ELSE General]
           at == {n \in 0..Cardinality(Types) : up[n] \in S}
<1>1. Nearest(type, S) = IF at = {} THEN None
                         ELSE up[CHOOSE n \in at : \A k \in at : n <= k]
  BY DEF Nearest
<1>2. at \subseteq Nat /\ \A n \in at : up[n] \in S
  OBVIOUS
<1> HIDE DEF at, up
<1>3. CASE at # {}
  <2>1. \E n \in at : \A k \in at : n <= k
    BY <1>2, <1>3, LeastMember, Zenon
  <2>2. (CHOOSE n \in at : \A k \in at : n <= k) \in at
    BY <2>1, Zenon
  <2> QED
    BY <1>1, <1>2, <1>3, <2>2
<1> QED
  BY <1>1, <1>3

\* A posterior is a probability.
LEMMA PosteriorBounded ==
    ASSUME NEW prior \in 0..Unit, NEW weight \in Nat \ {0},
           NEW samples \in Nat, NEW accepted \in 0..samples
    PROVE  Posterior(prior, weight, accepted, samples) \in 0..Unit
<1> DEFINE a == weight * prior + Unit * accepted
           b == weight + samples
<1>1. Unit \in Nat
  BY ModelsAssumption
<1>2. weight * prior \in Nat /\ weight * prior <= weight * Unit
  BY <1>1, SMT
<1>3. Unit * accepted \in Nat /\ Unit * accepted <= Unit * samples
  BY <1>1, SMT
<1>4. Unit * b = weight * Unit + Unit * samples
  BY <1>1, SMT
<1>5. a \in Nat /\ b \in Nat \ {0} /\ a <= Unit * b
  BY <1>1, <1>2, <1>3, <1>4, SMT
<1> HIDE DEF a, b
<1>6. a \div b \in 0..Unit
  BY <1>1, <1>5, SMT
<1> QED
  BY <1>6 DEF Posterior, a, b

-----------------------------------------------------------------------------
(***************************************************************************)
(* The order of the candidates.                                            *)
(***************************************************************************)
Keys4 == Int \X Int \X Int \X Int

\* Above, spelled out.
LEMMA AboveUnfolded ==
    ASSUME NEW a \in Keys4, NEW b \in Keys4
    PROVE  Above(a, b) <=> \/ a[1] > b[1]
                           \/ a[1] = b[1] /\ a[2] > b[2]
                           \/ a[1] = b[1] /\ a[2] = b[2] /\ a[3] > b[3]
                           \/ a[1] = b[1] /\ a[2] = b[2] /\ a[3] = b[3] /\ a[4] > b[4]
<1>1. 1..4 = {1, 2, 3, 4}
  BY SMT
<1>2. 1..1 - 1 = {} /\ 1..2 - 1 = {1} /\ 1..3 - 1 = {1, 2} /\ 1..4 - 1 = {1, 2, 3}
  BY SMT
<1> DEFINE Decides(i) == a[i] > b[i] /\ \A j \in 1..i - 1 : a[j] = b[j]
<1>3. Above(a, b) <=> Decides(1) \/ Decides(2) \/ Decides(3) \/ Decides(4)
  BY <1>1 DEF Above
<1> QED
  BY <1>2, <1>3

\* The order is transitive and, between different keys, total.
LEMMA AboveIsTotal ==
    ASSUME NEW a \in Keys4, NEW b \in Keys4, NEW c \in Keys4
    PROVE  /\ Above(a, b) /\ Above(b, c) => Above(a, c)
           /\ a # b => Above(a, b) \/ Above(b, a)
<1>1. /\ a[1] \in Int /\ a[2] \in Int /\ a[3] \in Int /\ a[4] \in Int
      /\ b[1] \in Int /\ b[2] \in Int /\ b[3] \in Int /\ b[4] \in Int
      /\ c[1] \in Int /\ c[2] \in Int /\ c[3] \in Int /\ c[4] \in Int
  BY DEF Keys4
<1>2. Above(a, b) /\ Above(b, c) => Above(a, c)
  BY <1>1, AboveUnfolded
<1>3. a # b => \/ a[1] # b[1] \/ a[2] # b[2] \/ a[3] # b[3] \/ a[4] # b[4]
  BY DEF Keys4
<1>4. a # b => Above(a, b) \/ Above(b, a)
  BY <1>1, <1>3, AboveUnfolded
<1> QED
  BY <1>2, <1>4

\* Of two keys only one is above the other, it is at least as great in the
\* first component, and it stays above with a greater first component.
LEMMA AboveIsStrict ==
    ASSUME NEW a \in Keys4, NEW b \in Keys4, Above(a, b)
    PROVE  /\ ~Above(b, a)
           /\ a[1] >= b[1]
           /\ \A c \in Keys4 : /\ c[1] >= a[1]
                               /\ c[2] = a[2] /\ c[3] = a[3] /\ c[4] = a[4]
                               => Above(c, b)
<1>1. /\ a[1] \in Int /\ a[2] \in Int /\ a[3] \in Int /\ a[4] \in Int
      /\ b[1] \in Int /\ b[2] \in Int /\ b[3] \in Int /\ b[4] \in Int
  BY DEF Keys4
<1>2. ~Above(b, a) /\ a[1] >= b[1]
  BY <1>1, AboveUnfolded
<1>3. ASSUME NEW c \in Keys4, c[1] >= a[1], c[2] = a[2], c[3] = a[3], c[4] = a[4]
      PROVE  Above(c, b)
  <2>1. c[1] \in Int
    BY DEF Keys4
  <2> QED
    BY <1>1, <1>3, <2>1, AboveUnfolded
<1> QED
  BY <1>2, <1>3

\* In a finite set whose members have different keys, one is above all others.
LEMMA BestExists ==
    ASSUME NEW D, IsFiniteSet(D), D # {},
           NEW f \in [D -> Keys4], \A m, n \in D : f[m] = f[n] => m = n
    PROVE  \E m \in D : \A n \in D \ {m} : Above(f[m], f[n])
<1> DEFINE Best(S, m) == \A n \in S \ {m} : Above(f[m], f[n])
           Bad(S) == IsFiniteSet(S) /\ S # {} /\ \A m \in S : ~Best(S, m)
           T == {k \in Nat : \E S \in SUBSET D : Bad(S) /\ Cardinality(S) = k}
<1>1. ASSUME NEW S \in SUBSET D, Bad(S), T # {},
             \A k \in T : Cardinality(S) <= k
      PROVE  FALSE
  <2>1. PICK x \in S : TRUE
    BY <1>1
  <2> DEFINE R == S \ {x}
  <2>2. R \in SUBSET D /\ IsFiniteSet(R) /\ ~(Cardinality(S) <= Cardinality(R)) /\ Cardinality(R) \in Nat
    <3>1. IsFiniteSet(R) /\ Cardinality(R) = Cardinality(S) - 1
      BY <1>1, <2>1, FS_RemoveElement, Zenon
    <3>2. Cardinality(S) \in Nat /\ Cardinality(R) \in Nat
      BY <1>1, <3>1, FS_CardinalityType, Zenon
    <3> QED
      BY <3>1, <3>2
  <2>3. CASE R = {}
    <3>1. Best(S, x)
      BY <2>3
    <3> QED
      BY <1>1, <2>1, <3>1
  <2>4. CASE R # {}
    <3>0. ~Bad(R)
      BY <1>1, <2>2
    <3>1. PICK y \in R : Best(R, y)
      BY <2>2, <2>4, <3>0
    <3>2. x \in D /\ y \in D /\ x # y /\ f[x] \in Keys4 /\ f[y] \in Keys4 /\ f[x] # f[y]
      BY <2>1, <3>1
    <3>3. CASE Above(f[y], f[x])
      <4>1. Best(S, y)
        BY <3>1, <3>3
      <4> QED
        BY <1>1, <3>1, <4>1
    <3>4. CASE Above(f[x], f[y])
      <4>1. ASSUME NEW n \in R
            PROVE  Above(f[x], f[n])
        <5>1. CASE n = y
          BY <3>4, <5>1
        <5>2. CASE n # y
          <6>1. Above(f[y], f[n]) /\ f[n] \in Keys4
            BY <3>1, <5>2
          <6> QED
            BY <3>2, <3>4, <6>1, AboveIsTotal
        <5> QED
          BY <5>1, <5>2
      <4>2. Best(S, x)
        BY <2>1, <4>1
      <4> QED
        BY <1>1, <2>1, <4>2
    <3> QED
      BY <3>2, <3>3, <3>4, AboveIsTotal
  <2> QED
    BY <2>3, <2>4
<1> HIDE DEF Best
<1>2. SUFFICES ASSUME Bad(D) PROVE FALSE
  BY Zenon DEF Best
<1>3. T \subseteq Nat /\ T # {}
  BY <1>2, FS_CardinalityType
<1>4. \E k \in T : \A j \in T : k <= j
  <2> HIDE DEF T
  <2> QED
    BY <1>3, LeastMember, Zenon
<1> QED
  BY <1>1, <1>3, <1>4, Zenon

-----------------------------------------------------------------------------
(***************************************************************************)
(* The choice.                                                             *)
(***************************************************************************)
\* A snapshot with qualities in Q.  A choice is made on any of them; what
\* is captured has probabilities.
Snapshots(Q) == [class   : Classes,
                 quality : [Nodes -> [Models -> Q]],
                 ranking : [Nodes -> [Models -> Nat]]]

SnapshotOK(s) == s \in Snapshots(Nat)

\* What is captured can be chosen on.
LEMMA CapturedIsSnapshot ==
    ASSUME NEW s \in Snapshots(0..Unit)
    PROVE  SnapshotOK(s)
<1>1. \A node \in Nodes : s.quality[node] \in [Models -> Nat]
  BY DEF Snapshots
<1>2. s.quality \in [Nodes -> [Models -> Nat]]
  BY <1>1 DEF Snapshots
<1> QED
  BY <1>2 DEF Snapshots, SnapshotOK

\* The sort key of an eligible model is a tuple of numbers and an id.
LEMMA PreferenceTyped ==
    ASSUME NEW s, SnapshotOK(s), NEW r \in Requests, NEW m \in Models
    PROVE  Preference(s, r, m) \in Keys4
<1> DEFINE q == s.quality[r.node][m]
           w == Weights[Nearest(RoleType[r.node], DOMAIN Weights \ {None})]
           v == IF r.node = "critic" THEN 10 * q ELSE QualityValue(q)
<1>1. r.node \in Nodes
  BY TaskAssumption
<1>2. q \in Int /\ Cost[m] \in Int /\ Id[m] \in Int /\ Merit[m] \in Int
  BY <1>1, ModelsAssumption DEF SnapshotOK, Snapshots
<1>3. CostShare(r, m) \in Int
  BY <1>1, <1>2, TaskAssumption DEF CostShare
<1>4. RankingOf(s, r.node, m) \in Int
  BY <1>1 DEF RankingOf, SnapshotOK, Snapshots
<1>5. w.quality \in Int /\ w.cost \in Int
  <2>1. Nearest(RoleType[r.node], DOMAIN Weights \ {None}) \in DOMAIN Weights
    BY NearestIsMember, EvidenceAssumption
  <2> QED
    BY <2>1, EvidenceAssumption
<1>6. v \in Int
  BY <1>2, TaskAssumption DEF QualityValue, Lesser, Excess
<1> HIDE DEF q, w, v
<1>7. w.quality * v + Merit[m] - w.cost * CostShare(r, m) \in Int
  BY <1>2, <1>3, <1>5, <1>6
<1>8. Score(s, r, m) \in Int
  BY <1>7 DEF Score, q, w, v
<1>9. -Cost[m] \in Int /\ -Id[m] \in Int
  BY <1>2
<1> QED
  BY <1>4, <1>8, <1>9 DEF Preference, Keys4

\* The choice is an eligible model, and no other eligible model is above it.
LEMMA ChoiceIsBest ==
    ASSUME NEW s, SnapshotOK(s), NEW r \in Requests, Eligible(s, r) # {}
    PROVE  /\ Choice(s, r) \in Eligible(s, r)
           /\ \A n \in Eligible(s, r) \ {Choice(s, r)} :
                 Above(Preference(s, r, Choice(s, r)), Preference(s, r, n))
<1> DEFINE D == Eligible(s, r)
           f == [m \in D |-> Preference(s, r, m)]
<1>1. D # {} /\ Choice(s, r) = CHOOSE m \in D : \A n \in D \ {m} :
                                   Above(Preference(s, r, m), Preference(s, r, n))
  BY DEF Choice
<1>2. D \in SUBSET Models
  BY TaskAssumption DEF Eligible
<1>3. IsFiniteSet(D)
  BY <1>2, ModelsAssumption, FS_Subset
<1>4. f \in [D -> Keys4]
  BY <1>2, PreferenceTyped
<1>5. \A m, n \in D : f[m] = f[n] => m = n
  <2> SUFFICES ASSUME NEW m \in D, NEW n \in D, f[m] = f[n]
               PROVE  m = n
    OBVIOUS
  <2>1. -Id[m] = -Id[n]
    BY DEF Preference
  <2>2. Id[m] = Id[n]
    BY <1>2, <2>1, ModelsAssumption
  <2> QED
    BY <1>2, <2>2, ModelsAssumption
<1>6. \E m \in D : \A n \in D \ {m} : Above(f[m], f[n])
  <2> HIDE DEF D, f
  <2> QED
    BY <1>1, <1>3, <1>4, <1>5, BestExists
<1>7. \E m \in D : \A n \in D \ {m} : Above(Preference(s, r, m), Preference(s, r, n))
  BY <1>6
<1> HIDE DEF D
<1> QED
  BY <1>1, <1>7 DEF D

\* What is chosen is eligible.
LEMMA ChosenIsEligible ==
    ASSUME NEW s, SnapshotOK(s), NEW r \in Requests, Choice(s, r) # None
    PROVE  Choice(s, r) \in Eligible(s, r)
<1>1. Eligible(s, r) # {}
  BY DEF Choice
<1> QED
  BY <1>1, ChoiceIsBest

\* It is a model, or there is none.
LEMMA ChoiceTyped ==
    ASSUME NEW s, SnapshotOK(s), NEW r \in Requests
    PROVE  Choice(s, r) \in Models \cup {None}
<1>1. r.node \in Nodes /\ Eligible(s, r) \subseteq Models
  BY TaskAssumption DEF Eligible
<1>2. Eligible(s, r) = {} => Choice(s, r) = None
  BY DEF Choice
<1> QED
  BY <1>1, <1>2, ChoiceIsBest

\* An eligible model above all the others is the one that is chosen.
LEMMA BestIsChosen ==
    ASSUME NEW s, SnapshotOK(s), NEW r \in Requests, NEW m \in Eligible(s, r),
           \A n \in Eligible(s, r) \ {m} : Above(Preference(s, r, m), Preference(s, r, n))
    PROVE  Choice(s, r) = m
<1> DEFINE c == Choice(s, r)
<1> SUFFICES ASSUME c # m
             PROVE  FALSE
  OBVIOUS
<1>1. c \in Eligible(s, r) /\ Above(Preference(s, r, c), Preference(s, r, m))
  BY ChoiceIsBest
<1>2. Above(Preference(s, r, m), Preference(s, r, c))
  BY <1>1
<1>3. c \in Models /\ m \in Models
  BY <1>1, TaskAssumption DEF Eligible
<1>4. Preference(s, r, c) \in Keys4 /\ Preference(s, r, m) \in Keys4
  BY <1>3, PreferenceTyped
<1> HIDE DEF c
<1> QED
  BY <1>1, <1>2, <1>4, AboveIsStrict

-----------------------------------------------------------------------------
(***************************************************************************)
(* Evidence and demand.                                                    *)
(***************************************************************************)
LiveOK == /\ live \in [Keys -> [accepted : Nat, samples : Nat]]
          /\ \A k \in Keys : live[k].accepted <= live[k].samples

\* Whatever evidence resolve() falls back to, the quality is a probability.
LEMMA QualityIsProbability ==
    ASSUME LiveOK, NEW m \in Models, NEW node \in Nodes
    PROVE  Quality(m, node) \in 0..Unit
<1> DEFINE configured(k) == {p \in Profiles : p.model = m /\ p.type = k /\ p.node = node}
           judged == {k \in Types : live[<<m, k, node>>].samples > 0}
           typed  == {t \in Types : configured(t) # {}}
           k      == Nearest(RoleType[node], judged \cup typed)
           fresh  == live[<<m, k, node>>]
           p      == CHOOSE p \in configured(k) : TRUE
<1>1. k \in judged \cup typed \cup {None}
  BY NearestIsMember
<1>2. CASE k = None
  BY <1>2, ModelsAssumption DEF Quality
<1>3. CASE k # None
  <2>1. k \in Types /\ <<m, k, node>> \in Keys
    BY <1>1, <1>3 DEF Keys
  <2>2. fresh.samples \in Nat /\ fresh.accepted \in 0..fresh.samples
    BY <2>1 DEF LiveOK
  <2>3. CASE configured(k) = {}
    <3>1. Quality(m, node) = Posterior(Acceptance[m], DefaultWeight, fresh.accepted,
                                       fresh.samples)
      BY <1>3, <2>3 DEF Quality
    <3>2. Acceptance[m] \in 0..Unit /\ DefaultWeight \in Nat \ {0}
      BY ModelsAssumption, EvidenceAssumption
    <3> HIDE DEF fresh
    <3> QED
      BY <2>2, <3>1, <3>2, PosteriorBounded
  <2>4. CASE configured(k) # {}
    <3>1. p \in Profiles
      BY <2>4
    <3>2. Quality(m, node) = IF k \in judged
                             THEN Posterior(p.prior, p.weight, fresh.accepted, fresh.samples)
                             ELSE Posterior(p.prior, p.weight, p.accepted, p.samples)
      BY <1>3, <2>4 DEF Quality
    <3>3. /\ p.prior \in 0..Unit /\ p.weight \in Nat \ {0}
          /\ p.samples \in Nat /\ p.accepted \in 0..p.samples
      BY <3>1, EvidenceAssumption
    <3> HIDE DEF fresh, p, judged, k
    <3> QED
      BY <2>2, <3>2, <3>3, PosteriorBounded
  <2> QED
    BY <2>3, <2>4
<1> QED
  BY <1>2, <1>3

\* A captured snapshot has its type.
LEMMA CaptureTyped ==
    ASSUME LiveOK, NEW class \in Classes
    PROVE  Capture(class) \in Snapshots(0..Unit)
<1>1. \A node \in Nodes, m \in Models : Quality(m, node) \in 0..Unit
  BY QualityIsProbability
<1>2. \A node \in Nodes, m \in Models : Contribution(m, node) \in Nat
  <2> SUFFICES ASSUME NEW node \in Nodes, NEW m \in Models
               PROVE  Contribution(m, node) \in Nat
    OBVIOUS
  <2> DEFINE exact == {e \in Entries :
                         e.model = m /\ e.type = RoleType[node] /\ e.node = node}
  <2>1. CASE exact = {}
    BY <2>1 DEF Contribution
  <2>2. CASE exact # {}
    <3>1. (CHOOSE e \in exact : TRUE) \in Entries
      BY <2>2
    <3> QED
      BY <3>1, EvidenceAssumption DEF Contribution
  <2> QED
    BY <2>1, <2>2
<1> QED
  BY <1>1, <1>2 DEF Capture, Snapshots

Demanded(submission, signals) ==
    {submission.minimum} \cup {rule.class : rule \in Matched(submission.facts)}
                         \cup {rule.class : rule \in Advised(signals)}

\* The demand is the highest of all that is demanded.
LEMMA DemandIsHighest ==
    ASSUME NEW submission \in Submissions, NEW signals
    PROVE  /\ Demand(submission, signals) \in Classes
           /\ \A c \in Demanded(submission, signals) : Demand(submission, signals) >= c
<1>1. Demanded(submission, signals) \in SUBSET Classes
  BY TaskAssumption DEF Demanded, Matched, Advised
<1>2. Demanded(submission, signals) # {}
  BY DEF Demanded
<1>3. Demand(submission, signals) = Highest(Demanded(submission, signals))
  BY DEF Demand, Demanded
<1> QED
  BY <1>1, <1>2, <1>3, HighestClass

-----------------------------------------------------------------------------
(***************************************************************************)
(* The inductive invariant: what was saved is what the snapshot gives, and *)
(* nothing is routed before there is a snapshot.                           *)
(***************************************************************************)
Planned == task \notin {None, Failed}

Prepared ==
    Planned => /\ task.submission \in Submissions
               /\ task.snapshot \in Snapshots(0..Unit)
               /\ task.snapshot.class = Demand(task.submission, task.signals)

Saved ==
    /\ routes # {} => Planned
    /\ \A d \in routes : /\ d.request \in Requests
                          /\ d.model = Choice(task.snapshot, d.request)

IInv == TypeOK /\ Prepared /\ Saved

\* Before anything is captured the invariant holds.
LEMMA InitIInv == Init => IInv
BY TaskAssumption DEF Init, IInv, TypeOK, Prepared, Saved, Planned

\* Every step preserves the invariant.
LEMMA NextIInv == IInv /\ [Next]_vars => IInv'
<1> SUFFICES ASSUME IInv, [Next]_vars
             PROVE  IInv'
  OBVIOUS
<1> USE DEF IInv
<1>1. ASSUME NEW submission \in Submissions, NEW signals \in Assessments,
             Prepare(submission, signals)
      PROVE  IInv'
  <2>1. routes = {} /\ routes' = {} /\ now' = now /\ live' = live
    BY <1>1 DEF Prepare, Saved, Planned
  <2>2. Capture(Demand(submission, signals)) \in Snapshots(0..Unit)
    BY CaptureTyped, DemandIsHighest DEF TypeOK, LiveOK
  <2>3. Planned' => task' = [submission |-> submission, signals |-> signals,
                             snapshot   |-> Capture(Demand(submission, signals))]
    BY <1>1 DEF Prepare, Planned
  <2>4. TypeOK'
    BY <2>1, <2>2, <2>3 DEF TypeOK, Planned, Snapshots
  <2>5. Prepared'
    BY <2>2, <2>3 DEF Prepared, Capture
  <2>6. Saved'
    BY <2>1 DEF Saved
  <2> QED
    BY <2>4, <2>5, <2>6
<1>2. ASSUME NEW r \in Requests, Route(r)
      PROVE  IInv'
  <2>1. /\ Planned /\ task' = task /\ now' = now /\ live' = live
        /\ routes' = routes \cup {[request |-> r, model |-> Choice(task.snapshot, r)]}
    BY <1>2 DEF Route, Planned
  <2>2. Choice(task.snapshot, r) \in Models \cup {None}
    BY <2>1, CapturedIsSnapshot, ChoiceTyped DEF Prepared
  <2>3. TypeOK'
    BY <2>1, <2>2 DEF TypeOK
  <2>4. Prepared'
    BY <2>1 DEF Prepared, Planned
  <2>5. Saved'
    BY <2>1 DEF Saved, Planned
  <2> QED
    BY <2>3, <2>4, <2>5
<1>3. ASSUME NEW k \in Keys, NEW accepted \in BOOLEAN, FeedbackArrives(k, accepted)
      PROVE  IInv'
  <2>1. UNCHANGED <<now, task, routes>>
    BY <1>3 DEF FeedbackArrives
  <2>2. LiveOK'
    <3>1. \A j \in Keys : /\ live[j].accepted \in Nat /\ live[j].samples \in Nat
                          /\ live[j].accepted <= live[j].samples
      BY DEF TypeOK
    <3> DEFINE new == [accepted |-> IF accepted THEN live[k].accepted + 1
                                               ELSE live[k].accepted,
                       samples  |-> live[k].samples + 1]
    <3>2. live' = [live EXCEPT ![k] = new]
      BY <1>3 DEF FeedbackArrives
    <3>3. /\ new \in [accepted : Nat, samples : Nat]
          /\ new.accepted <= new.samples
      BY <3>1
    <3>4. live \in [Keys -> [accepted : Nat, samples : Nat]]
      BY DEF TypeOK
    <3> HIDE DEF new
    <3>5. live' \in [Keys -> [accepted : Nat, samples : Nat]]
      BY <3>2, <3>3, <3>4
    <3>6. \A j \in Keys : live'[j].accepted <= live'[j].samples
      BY <3>1, <3>2, <3>3, <3>4
    <3> QED
      BY <3>5, <3>6 DEF LiveOK
  <2>3. TypeOK'
    BY <2>1, <2>2 DEF TypeOK, LiveOK
  <2>4. Prepared' /\ Saved'
    BY <2>1 DEF Prepared, Saved, Planned
  <2> QED
    BY <2>3, <2>4
<1>4. CASE TimePasses
  <2>1. TypeOK'
    BY <1>4, TaskAssumption DEF TimePasses, TypeOK
  <2>2. Prepared' /\ Saved'
    BY <1>4 DEF TimePasses, Prepared, Saved, Planned
  <2> QED
    BY <2>1, <2>2
<1>5. CASE UNCHANGED vars
  BY <1>5 DEF vars, TypeOK, Prepared, Saved, Planned
<1> QED
  BY <1>1, <1>2, <1>3, <1>4, <1>5 DEF Next

\* The invariant holds in every state routing can reach.
THEOREM Inductive == Spec => []IInv
<1> QED
  BY InitIInv, NextIInv, PTL DEF Spec

\* The types of evidence, snapshot and choices; a quality is a probability,
\* whatever feedback replaces the counts of a profile.
THEOREM TypeCorrect == Spec => []TypeOK
<1>1. IInv => TypeOK
  BY DEF IInv
<1> QED
  BY <1>1, Inductive, PTL

\* No model below the demanded class is ever asked: for every model,
\* profile, rule, policy, request and answer of a decision model.
THEOREM ClassNeverLowered == Spec => []ClassHolds
<1>1. IInv => ClassHolds
  <2> SUFFICES ASSUME IInv, NEW d \in routes, d.model # None,
                      NEW c \in Demanded(task.submission, task.signals)
               PROVE  Class[d.model] >= c
    BY DEF ClassHolds, Demanded
  <2> DEFINE s == task.snapshot
  <2>1. /\ Planned /\ SnapshotOK(s)
        /\ d.request \in Requests /\ d.model = Choice(s, d.request)
    BY CapturedIsSnapshot DEF IInv, Saved, Prepared, Planned
  <2>2. d.model \in Eligible(s, d.request)
    BY <2>1, ChosenIsEligible
  <2>3. d.model \in Models /\ Class[d.model] >= s.class
    BY <2>1, <2>2, TaskAssumption DEF Eligible
  <2>4. s.class \in Classes /\ s.class >= c /\ c \in Classes
    <3>1. task.submission \in Submissions /\ s.class = Demand(task.submission, task.signals)
      BY <2>1 DEF IInv, Prepared
    <3>2. c \in Classes
      BY <3>1, TaskAssumption DEF Demanded, Matched, Advised
    <3> QED
      BY <3>1, <3>2, DemandIsHighest
  <2>5. Class[d.model] \in Classes
    BY <2>3, ModelsAssumption
  <2> QED
    BY <2>3, <2>4, <2>5 DEF Classes
<1> QED
  BY <1>1, Inductive, PTL

-----------------------------------------------------------------------------
(***************************************************************************)
(* Value decides.                                                          *)
(***************************************************************************)
\* The preference of a model depends on the request's node only, and a
\* ranking changes nothing but the component it is.
LEMMA PreferenceOfNode ==
    ASSUME NEW s, NEW q, NEW r, q.node = r.node, NEW m
    PROVE  Preference(s, q, m) = Preference(s, r, m)
BY DEF Preference, Score, CostShare

\* A request that only takes other candidates away leaves the choice.
LEMMA FewerCandidates ==
    ASSUME NEW s, SnapshotOK(s), NEW q \in Requests, NEW r \in Requests, q.node = r.node,
           Eligible(s, q) \subseteq Eligible(s, r), Choice(s, r) \in Eligible(s, q)
    PROVE  Choice(s, q) = Choice(s, r)
<1> DEFINE m == Choice(s, r)
<1>1. \A n \in Eligible(s, r) \ {m} : Above(Preference(s, r, m), Preference(s, r, n))
  BY ChoiceIsBest
<1>2. \A n \in Eligible(s, q) \ {m} : Above(Preference(s, q, m), Preference(s, q, n))
  BY <1>1, PreferenceOfNode
<1> HIDE DEF m
<1> QED
  BY <1>2, BestIsChosen DEF m

\* Without rankings the same models are eligible, with the same scores.
LEMMA WithoutRankings ==
    ASSUME NEW s, SnapshotOK(s), NEW r \in Requests, NEW ranking \in [Nodes -> [Models -> Nat]]
    PROVE  LET u == [s EXCEPT !.ranking = ranking]
           IN  /\ SnapshotOK(u) /\ Eligible(u, r) = Eligible(s, r)
               /\ \A m : Score(u, r, m) = Score(s, r, m)
<1> DEFINE u == [s EXCEPT !.ranking = ranking]
<1>1. SnapshotOK(u) /\ u.class = s.class /\ u.quality = s.quality
  BY DEF SnapshotOK, Snapshots
<1> HIDE DEF u
<1>2. Eligible(u, r) = Eligible(s, r)
  BY <1>1 DEF Eligible
<1>3. \A m : Score(u, r, m) = Score(s, r, m)
  BY <1>1 DEF Score
<1> QED
  BY <1>1, <1>2, <1>3 DEF u

\* The best of the models has the highest score, ranked or not.
LEMMA BestScores ==
    ASSUME NEW s, SnapshotOK(s), NEW r \in Requests, NEW n \in Eligible(s, r)
    PROVE  Score(s, r, Choice(s, r)) >= Score(s, r, n) /\ Choice(s, r) \in Eligible(s, r)
<1> DEFINE m == Choice(s, r)
<1>1. m \in Eligible(s, r) /\ (n # m => Above(Preference(s, r, m), Preference(s, r, n)))
  BY ChoiceIsBest
<1>2. m \in Models /\ n \in Models
  BY <1>1, TaskAssumption DEF Eligible
<1> HIDE DEF m
<1>3. Preference(s, r, m) \in Keys4 /\ Preference(s, r, n) \in Keys4
  BY <1>2, PreferenceTyped
<1>4. /\ Preference(s, r, m)[1] = Score(s, r, m) /\ Preference(s, r, n)[1] = Score(s, r, n)
      /\ Score(s, r, m) \in Int
  BY <1>3 DEF Preference, Keys4
<1>5. CASE n = m
  BY <1>1, <1>4, <1>5 DEF m
<1>6. CASE n # m
  BY <1>1, <1>3, <1>4, <1>6, AboveIsStrict DEF m
<1> QED
  BY <1>5, <1>6

\* A budget, a floor or exclusions that leave the chosen model a candidate
\* leave it the choice, and a ranking only decides between equal scores.
THEOREM ValueDecides == Spec => []OnlyValueDecides
<1>1. IInv => OnlyValueDecides
  <2> SUFFICES ASSUME IInv, NEW d \in routes, d.model # None
               PROVE  LET s   == task.snapshot
                          fit == Eligible(s, d.request)
                          unranked == [s EXCEPT !.ranking =
                                          [node \in Nodes |-> [m \in Models |-> 0]]]
                      IN  /\ \A r \in Requests :
                                r.node = d.request.node /\ Eligible(s, r) \subseteq fit
                                        /\ d.model \in Eligible(s, r)
                                    => Choice(s, r) = d.model
                          /\ Score(s, d.request, Choice(unranked, d.request))
                                = Score(s, d.request, d.model)
    BY DEF OnlyValueDecides
  <2> DEFINE s == task.snapshot
             u == [s EXCEPT !.ranking = [node \in Nodes |-> [m \in Models |-> 0]]]
             r == d.request
  <2>1. SnapshotOK(s) /\ r \in Requests /\ d.model = Choice(s, r)
    BY CapturedIsSnapshot DEF IInv, Saved, Prepared, Planned
  <2>2. [node \in Nodes |-> [m \in Models |-> 0]] \in [Nodes -> [Models -> Nat]]
    OBVIOUS
  <2>3. /\ SnapshotOK(u) /\ Eligible(u, r) = Eligible(s, r)
        /\ \A m : Score(u, r, m) = Score(s, r, m)
    <3> HIDE DEF r, s
    <3> QED
      BY <2>1, <2>2, WithoutRankings
  <2> HIDE DEF s, u, r
  <2>4. \A q \in Requests : /\ q.node = r.node /\ Eligible(s, q) \subseteq Eligible(s, r)
                            /\ d.model \in Eligible(s, q)
                            => Choice(s, q) = d.model
    BY <2>1, FewerCandidates
  <2>5. Score(s, r, Choice(u, r)) = Score(s, r, d.model)
    <3>1. d.model \in Eligible(s, r)
      BY <2>1, ChosenIsEligible
    <3>2. /\ Choice(u, r) \in Eligible(s, r)
          /\ Score(s, r, Choice(u, r)) >= Score(s, r, d.model)
      BY <2>1, <2>3, <3>1, BestScores
    <3>3. Score(s, r, d.model) >= Score(s, r, Choice(u, r))
      BY <2>1, <3>2, BestScores
    <3>4. \A m \in Eligible(s, r) : Score(s, r, m) \in Int
      BY <2>1, PreferenceTyped, TaskAssumption DEF Eligible, Preference, Keys4
    <3> QED
      BY <3>1, <3>2, <3>3, <3>4
  <2> QED
    BY <2>4, <2>5 DEF s, u, r
<1> QED
  BY <1>1, Inductive, PTL

-----------------------------------------------------------------------------
\* A product grows with its second factor.
LEMMA ProductMonotone ==
    ASSUME NEW a \in Nat, NEW b \in Int, NEW c \in Int, b <= c
    PROVE  a * b \in Int /\ a * c \in Int /\ a * b <= a * c
<1>1. a * (c - b) >= 0 /\ a * c = a * b + a * (c - b)
  OBVIOUS
<1> QED
  BY <1>1

\* Neither the target nor the factor turns quality against a model.
LEMMA QualityValueMonotone ==
    ASSUME NEW p \in Nat, NEW q \in Nat, p <= q
    PROVE  /\ QualityValue(p) \in Int /\ QualityValue(q) \in Int
           /\ QualityValue(p) <= QualityValue(q)
<1> DEFINE f == Selection.factor
           t == Selection.target
<1>1. f \in Nat /\ t \in Nat
  BY TaskAssumption
<1> HIDE DEF f, t
<1>2. /\ Lesser(p, t) \in Int /\ Lesser(q, t) \in Int /\ Lesser(p, t) <= Lesser(q, t)
      /\ Excess(p, t) \in Int /\ Excess(q, t) \in Int /\ Excess(p, t) <= Excess(q, t)
  BY <1>1 DEF Lesser, Excess
<1>3. /\ f * Excess(p, t) \in Int /\ f * Excess(q, t) \in Int
      /\ f * Excess(p, t) <= f * Excess(q, t)
  BY <1>1, <1>2, ProductMonotone
<1>4. QualityValue(p) = 10 * Lesser(p, t) + f * Excess(p, t)
  BY DEF QualityValue, f, t
<1>5. QualityValue(q) = 10 * Lesser(q, t) + f * Excess(q, t)
  BY DEF QualityValue, f, t
<1> QED
  BY <1>2, <1>3, <1>4, <1>5

\* A model's score does not fall when its quality rises, and no other
\* model's preference changes.
LEMMA QualityRaised ==
    ASSUME NEW s, SnapshotOK(s), NEW r \in Requests, NEW m \in Models,
           NEW q \in Nat, q >= s.quality[r.node][m]
    PROVE  LET u == [s EXCEPT !.quality[r.node][m] = q]
           IN  /\ SnapshotOK(u)
               /\ Score(u, r, m) >= Score(s, r, m)
               /\ RankingOf(u, r.node, m) = RankingOf(s, r.node, m)
               /\ \A n \in Models \ {m} : Preference(u, r, n) = Preference(s, r, n)
               /\ m \in Eligible(s, r) => Eligible(u, r) = Eligible(s, r)
<1> DEFINE u == [s EXCEPT !.quality[r.node][m] = q]
           p == s.quality[r.node][m]
           w == Weights[Nearest(RoleType[r.node], DOMAIN Weights \ {None})]
           v(x) == IF r.node = "critic" THEN 10 * x ELSE QualityValue(x)
<1>1. r.node \in Nodes /\ r.floor \in Nat
  BY TaskAssumption
<1>2. /\ u = [s EXCEPT !.quality = [s.quality EXCEPT ![r.node] =
                  [s.quality[r.node] EXCEPT ![m] = q]]]
  BY DEF SnapshotOK, Snapshots
<1>3. [s.quality[r.node] EXCEPT ![m] = q] \in [Models -> Nat]
  BY <1>1 DEF SnapshotOK, Snapshots
<1>4. [s.quality EXCEPT ![r.node] = [s.quality[r.node] EXCEPT ![m] = q]]
         \in [Nodes -> [Models -> Nat]]
  BY <1>1, <1>3 DEF SnapshotOK, Snapshots
<1>5. SnapshotOK(u) /\ u.class = s.class /\ u.ranking = s.ranking
      /\ u.quality = [s.quality EXCEPT ![r.node] = [s.quality[r.node] EXCEPT ![m] = q]]
  BY <1>2, <1>4 DEF SnapshotOK, Snapshots
<1>6. /\ u.quality[r.node][m] = q
      /\ \A n \in Models \ {m} : u.quality[r.node][n] = s.quality[r.node][n]
  BY <1>1, <1>5 DEF SnapshotOK, Snapshots
<1>7. p \in Nat
  BY <1>1 DEF SnapshotOK, Snapshots
<1> HIDE DEF u
<1>8. Score(u, r, m) >= Score(s, r, m)
  <2>1. v(p) \in Int /\ v(q) \in Int /\ v(p) <= v(q)
    BY <1>7, QualityValueMonotone
  <2>2. w.quality \in Nat /\ w.cost \in Nat
    BY NearestIsMember, EvidenceAssumption
  <2>3. Merit[m] \in Int /\ Cost[m] \in Nat /\ CostShare(r, m) \in Int
    BY <1>1, ModelsAssumption, TaskAssumption DEF CostShare
  <2>4. Score(u, r, m) = w.quality * v(q) + Merit[m] - w.cost * CostShare(r, m)
    BY <1>6 DEF Score
  <2>5. Score(s, r, m) = w.quality * v(p) + Merit[m] - w.cost * CostShare(r, m)
    BY DEF Score
  <2> HIDE DEF p, w, v
  <2>6. /\ w.quality * v(p) \in Int /\ w.quality * v(q) \in Int
        /\ w.quality * v(p) <= w.quality * v(q)
    BY <2>1, <2>2, ProductMonotone
  <2>7. w.cost * CostShare(r, m) \in Int
    BY <2>2, <2>3
  <2> QED
    BY <2>3, <2>4, <2>5, <2>6, <2>7
<1>9. \A n \in Models \ {m} : Preference(u, r, n) = Preference(s, r, n)
  BY <1>5, <1>6 DEF Preference, Score, RankingOf
<1>10. ASSUME m \in Eligible(s, r)
       PROVE  Eligible(u, r) = Eligible(s, r)
  <2>1. Required(r) \in Nat
    BY <1>1, TaskAssumption DEF Required, Greater
  <2>2. p >= Required(r)
    BY <1>10 DEF Eligible
  <2>3. q >= Required(r)
    BY <1>7, <2>1, <2>2
  <2>4. \A n \in Models : u.quality[r.node][n] >= Required(r)
                           <=> s.quality[r.node][n] >= Required(r)
    BY <1>6, <2>2, <2>3
  <2>5. Allowed[r.node] \subseteq Models
    BY <1>1, TaskAssumption
  <2> QED
    BY <1>5, <2>4, <2>5 DEF Eligible
<1> QED
  BY <1>5, <1>8, <1>9, <1>10 DEF u, RankingOf

\* Better evidence about the model that was chosen never costs it the call:
\* for all weights, targets and factors.
THEOREM BetterQualityKeepsTheCall == Spec => []BetterQualityNeverHurts
<1>1. IInv => BetterQualityNeverHurts
  <2> SUFFICES ASSUME IInv, NEW d \in routes, d.model # None,
                      NEW q \in {task.snapshot.quality[d.request.node][m] : m \in Models}
                                    \cup {Selection.target, Unit},
                      q >= task.snapshot.quality[d.request.node][d.model]
               PROVE  Choice([task.snapshot EXCEPT !.quality[d.request.node][d.model] = q],
                             d.request) = d.model
    BY DEF BetterQualityNeverHurts
  <2> DEFINE s == task.snapshot
             r == d.request
             m == d.model
             u == [s EXCEPT !.quality[r.node][m] = q]
  <2>1. SnapshotOK(s) /\ r \in Requests /\ m = Choice(s, r)
    BY CapturedIsSnapshot DEF IInv, Saved, Prepared, Planned
  <2>2. m \in Eligible(s, r) /\ m \in Models /\ r.node \in Nodes
    BY <2>1, ChosenIsEligible, TaskAssumption DEF Eligible
  <2>3. q \in Nat
    BY <2>1, <2>2, ModelsAssumption, TaskAssumption DEF SnapshotOK, Snapshots
  <2>4. q >= s.quality[r.node][m]
    OBVIOUS
  <2> HIDE DEF s, r, m
  <2>5. /\ SnapshotOK(u)
        /\ Score(u, r, m) >= Score(s, r, m)
        /\ RankingOf(u, r.node, m) = RankingOf(s, r.node, m)
        /\ \A n \in Models \ {m} : Preference(u, r, n) = Preference(s, r, n)
        /\ Eligible(u, r) = Eligible(s, r)
    BY <2>1, <2>2, <2>3, <2>4, QualityRaised
  <2> HIDE DEF u
  <2>6. ASSUME NEW n \in Eligible(u, r) \ {m}
        PROVE  Above(Preference(u, r, m), Preference(u, r, n))
    <3>1. n \in Models
      BY TaskAssumption, <2>2 DEF Eligible
    <3>2. Above(Preference(s, r, m), Preference(s, r, n))
      BY <2>1, <2>2, <2>5, ChoiceIsBest
    <3>3. /\ Preference(s, r, m) \in Keys4 /\ Preference(s, r, n) \in Keys4
          /\ Preference(u, r, m) \in Keys4
      BY <2>1, <2>2, <2>5, <3>1, PreferenceTyped
    <3>4. /\ Preference(u, r, m)[1] >= Preference(s, r, m)[1]
          /\ Preference(u, r, m)[2] = Preference(s, r, m)[2]
          /\ Preference(u, r, m)[3] = Preference(s, r, m)[3]
          /\ Preference(u, r, m)[4] = Preference(s, r, m)[4]
      BY <2>5 DEF Preference
    <3>5. Above(Preference(u, r, m), Preference(s, r, n))
      BY <3>2, <3>3, <3>4, AboveIsStrict
    <3> QED
      BY <2>5, <3>1, <3>5
  <2>7. Choice(u, r) = m
    BY <2>1, <2>2, <2>5, <2>6, BestIsChosen
  <2> QED
    BY <2>7 DEF u, s, r, m
<1> QED
  BY <1>1, Inductive, PTL
=============================================================================

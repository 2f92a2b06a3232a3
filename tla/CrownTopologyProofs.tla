------------------------- MODULE CrownTopologyProofs -------------------------
(***************************************************************************)
(* Theorems about the CROWN ring, for any number of nodes in the file, any *)
(* endpoints, and any Configure calls that fail: the client accepts rings  *)
(* and nothing else, no write passes a server twice, and it commits where  *)
(* its key is read, having been to the servers of the ring if its tail is  *)
(* where the documentation has it.                                         *)
(*                                                                         *)
(* The first part is about one list of nodes and no behaviour: the walk    *)
(* of validate_crown_topology against the definition of a ring.            *)
(***************************************************************************)
EXTENDS CrownTopology, FiniteSetTheorems, WellFoundedInduction, TLAPS

(* Sets of naturals have a least element; so a set that holds 0 and with   *)
(* every number the next holds them all.                                   *)
LEMMA Least ==
  ASSUME NEW S \in SUBSET Nat, S # {}
  PROVE  \E n \in S : \A m \in S : n <= m
  <1> DEFINE R == OpToRel(<, Nat)
  <1>1. IsWellFoundedOn(R, Nat)
    BY NatLessThanWellFounded
  <1> HIDE DEF R
  <1>2. PICK n \in S : \A m \in S : ~(<<m, n>> \in R)
    BY <1>1, WFMin
  <1>3. \A m \in Nat : m < n => <<m, n>> \in R
    BY <1>2 DEF R, OpToRel
  <1>4. \A m \in S : ~(m < n)
    BY <1>2, <1>3
  <1> QED
    BY <1>2, <1>4

LEMMA SetInduction ==
  ASSUME NEW S \in SUBSET Nat, 0 \in S, \A n \in S : n + 1 \in S
  PROVE  S = Nat
  <1> SUFFICES ASSUME Nat \ S # {} PROVE FALSE
    OBVIOUS
  <1>1. PICK n \in Nat \ S : \A m \in Nat \ S : n <= m
    BY Least
  <1>2. n # 0 /\ n - 1 \in Nat /\ n = (n - 1) + 1
    BY <1>1
  <1>3. n - 1 \in S
    BY <1>1, <1>2
  <1> QED
    BY <1>1, <1>2, <1>3

-----------------------------------------------------------------------------
(* Lists of nodes *)

(* What add_node lets through: by_endpoint and by_id have one entry each. *)
Distinct(nodes) ==
    \A i, j \in DOMAIN nodes : i # j => /\ nodes[i].endpoint # nodes[j].endpoint
                                        /\ nodes[i].id # nodes[j].id

LEMMA Lookups ==
  ASSUME NEW nodes \in Seq(NodeView), Distinct(nodes), NEW i \in DOMAIN nodes
  PROVE  /\ At(nodes, nodes[i].endpoint) = nodes[i]
         /\ WithId(nodes, nodes[i].id) = nodes[i]
  BY DEF At, WithId, Distinct

(* A list without repetitions has as many endpoints as nodes. *)
LEMMA EndpointsCount ==
  ASSUME NEW nodes \in Seq(NodeView)
  PROVE  /\ IsFiniteSet(Endpoints(nodes))
         /\ Cardinality(Endpoints(nodes)) = Len(nodes)
               <=> \A i, j \in DOMAIN nodes : nodes[i].endpoint = nodes[j].endpoint => i = j
         /\ IsFiniteSet(Ids(nodes))
         /\ Cardinality(Ids(nodes)) = Len(nodes)
               <=> \A i, j \in DOMAIN nodes : nodes[i].id = nodes[j].id => i = j
  <1> DEFINE e == [i \in DOMAIN nodes |-> nodes[i].endpoint]
             d == [i \in DOMAIN nodes |-> nodes[i].id]
  <1>1. DOMAIN nodes = 1 .. Len(nodes) /\ Len(nodes) \in Nat
    OBVIOUS
  <1>2. IsFiniteSet(DOMAIN nodes) /\ Cardinality(DOMAIN nodes) = Len(nodes)
    BY <1>1, FS_Interval
  <1>3. e \in Surjection(DOMAIN nodes, Endpoints(nodes))
    BY DEF Surjection, Endpoints
  <1>4. d \in Surjection(DOMAIN nodes, Ids(nodes))
    BY DEF Surjection, Ids
  <1>5. e \in Injection(DOMAIN nodes, Endpoints(nodes))
           <=> \A i, j \in DOMAIN nodes : nodes[i].endpoint = nodes[j].endpoint => i = j
    BY DEF Injection, IsInjective, Endpoints
  <1>6. d \in Injection(DOMAIN nodes, Ids(nodes))
           <=> \A i, j \in DOMAIN nodes : nodes[i].id = nodes[j].id => i = j
    BY DEF Injection, IsInjective, Ids
  <1> HIDE DEF e, d
  <1> QED
    BY <1>2, <1>3, <1>4, <1>5, <1>6, FS_Surjection

LEMMA FS_Segment ==
  ASSUME NEW n \in Nat
  PROVE  IsFiniteSet(0 .. n - 1) /\ Cardinality(0 .. n - 1) = n
  <1>1. n - 1 \in Int /\ 0 \in Int
    OBVIOUS
  <1>2. /\ IsFiniteSet(0 .. n - 1)
        /\ Cardinality(0 .. n - 1) = IF 0 > n - 1 THEN 0 ELSE (n - 1) - 0 + 1
    BY <1>1, FS_Interval
  <1> QED
    BY <1>2

-----------------------------------------------------------------------------
(* The walk *)

(* Walk is the sequence it is meant to be: there is such a function. *)
LEMMA WalkSteps ==
  ASSUME NEW nodes, Len(nodes) \in Nat
  PROVE  /\ Walk(nodes)[0] = nodes[1].endpoint
         /\ \A i \in 0 .. Len(nodes) - 1 :
               Walk(nodes)[i+1] = At(nodes, Walk(nodes)[i]).successor
  <1> DEFINE To(x) == At(nodes, x).successor
             Is(f, n) == f = [i \in 0 .. n |-> IF i = 0 THEN nodes[1].endpoint
                                               ELSE To(f[i-1])]
             S == {n \in Nat : \E f : Is(f, n)}
  <1> HIDE DEF To
  <1>1. 0 \in S
    <2> DEFINE f == [i \in 0 .. 0 |-> nodes[1].endpoint]
    <2>1. Is(f, 0)
      OBVIOUS
    <2> QED
      BY <2>1
  <1>2. ASSUME NEW n \in S
        PROVE  n + 1 \in S
    <2>1. PICK f : Is(f, n)
      OBVIOUS
    <2> DEFINE g == [i \in 0 .. n + 1 |-> IF i = 0 THEN nodes[1].endpoint
                                          ELSE To(f[i-1])]
    <2>2. \A i \in 0 .. n : g[i] = f[i]
      BY <2>1
    <2> HIDE DEF g
    <2>3. n \in Nat /\ \A i \in 0 .. n + 1 : i # 0 => i - 1 \in 0 .. n
      OBVIOUS
    <2>4. \A i \in 0 .. n + 1 : i # 0 => g[i-1] = f[i-1]
      BY <2>2, <2>3
    <2>5. Is(g, n + 1)
      BY <2>4 DEF g
    <2>6. \E h : Is(h, n + 1)
      BY <2>5
    <2> QED
      BY <2>3, <2>6
  <1>3. S = Nat
    <2> HIDE DEF S
    <2>1. S \in SUBSET Nat
      BY DEF S
    <2> QED
      BY <1>1, <1>2, <2>1, SetInduction
  <1>4. \E f : Is(f, Len(nodes))
    BY <1>3
  <1>5. Is(Walk(nodes), Len(nodes))
    BY <1>4 DEF Walk, To
  <1>6. \A i \in 0 .. Len(nodes) - 1 :
           /\ i + 1 \in 0 .. Len(nodes) /\ i + 1 # 0 /\ (i + 1) - 1 = i
    OBVIOUS
  <1>7. \A i \in 0 .. Len(nodes) - 1 : Walk(nodes)[i+1] = To(Walk(nodes)[i])
    BY <1>5, <1>6
  <1> QED
    BY <1>5, <1>7 DEF To

(* No step of the walk leaves a set closed under successor. *)
Closed(nodes, S) ==
    \A i \in DOMAIN nodes : nodes[i].endpoint \in S => nodes[i].successor \in S

LEMMA WalkStays ==
  ASSUME NEW nodes \in Seq(NodeView), Distinct(nodes),
         NEW S \in SUBSET Endpoints(nodes), Closed(nodes, S),
         NEW a \in 0 .. Len(nodes), Walk(nodes)[a] \in S
  PROVE  \A i \in a .. Len(nodes) : Walk(nodes)[i] \in S
  <1> DEFINE T == {n \in Nat : a + n <= Len(nodes) => Walk(nodes)[a+n] \in S}
  <1>1. Len(nodes) \in Nat /\ a \in Nat
    OBVIOUS
  <1>2. 0 \in T
    BY <1>1
  <1>3. ASSUME NEW n \in T
        PROVE  n + 1 \in T
    <2>1. SUFFICES ASSUME a + (n + 1) <= Len(nodes)
                   PROVE  Walk(nodes)[a+(n+1)] \in S
      BY <1>3
    <2>2. /\ n \in Nat /\ a + n \in 0 .. Len(nodes) - 1 /\ a + (n + 1) = (a + n) + 1
          /\ Walk(nodes)[a+n] \in S
      BY <1>1, <2>1
    <2>3. PICK i \in DOMAIN nodes : Walk(nodes)[a+n] = nodes[i].endpoint
      BY <2>2 DEF Endpoints
    <2>4. Walk(nodes)[(a+n)+1] = nodes[i].successor
      BY <1>1, <2>2, <2>3, WalkSteps, Lookups
    <2> QED
      BY <2>2, <2>3, <2>4 DEF Closed
  <1> HIDE DEF T
  <1>4. T = Nat
    <2>1. T \in SUBSET Nat
      BY DEF T
    <2> QED
      BY <1>2, <1>3, <2>1, SetInduction
  <1>5. ASSUME NEW i \in a .. Len(nodes)
        PROVE  Walk(nodes)[i] \in S
    <2>1. i - a \in Nat /\ a + (i - a) = i /\ i <= Len(nodes)
      BY <1>1
    <2> QED
      BY <1>4, <2>1 DEF T
  <1> QED
    BY <1>5

(* The walk of a list it accepts goes by every server, so no part of the   *)
(* list is closed under successor but the whole.                           *)
LEMMA OnlyWholeIsClosed ==
  ASSUME NEW nodes \in Seq(NodeView), Distinct(nodes), Valid(nodes),
         NEW S \in SUBSET Endpoints(nodes), S # {}, Closed(nodes, S)
  PROVE  S = Endpoints(nodes)
  <1> DEFINE E == Endpoints(nodes)
             W == {Walk(nodes)[i] : i \in 0 .. Len(nodes) - 1}
  <1>1. Len(nodes) \in Nat \ {0} /\ 1 \in DOMAIN nodes
    BY DEF Valid
  <1>2. Walk(nodes)[0] \in E /\ Closed(nodes, E)
    BY <1>1, WalkSteps DEF Valid, NeighboursAgree, Endpoints, Closed
  <1>3. W \subseteq E
    <2>1. \A i \in 0 .. Len(nodes) : Walk(nodes)[i] \in E
      BY <1>1, <1>2, WalkStays
    <2> QED
      BY <1>1, <2>1
  <1>4. Cardinality(W) = Len(nodes) /\ Walk(nodes)[Len(nodes)] = Walk(nodes)[0]
    BY DEF Valid, WalkCovers
  <1> HIDE DEF W
  <1>5. W = E
    <2>1. IsFiniteSet(E) /\ Cardinality(E) = Len(nodes)
      BY EndpointsCount DEF Distinct
    <2> QED
      BY <1>3, <1>4, <2>1, FS_Subset
  <1>6. PICK i \in 0 .. Len(nodes) - 1 : Walk(nodes)[i] \in S
    BY <1>5 DEF W
  <1>7. Walk(nodes)[0] \in S
    <2>1. i \in 0 .. Len(nodes) /\ Len(nodes) \in i .. Len(nodes)
      BY <1>1
    <2> QED
      BY <1>4, <1>6, <2>1, WalkStays
  <1>8. W \subseteq S
    <2>1. \A j \in 0 .. Len(nodes) : Walk(nodes)[j] \in S
      BY <1>1, <1>7, WalkStays
    <2> QED
      BY <1>1, <2>1 DEF W
  <1> QED
    BY <1>5, <1>8

LEMMA ValidIsRing ==
  ASSUME NEW nodes \in Seq(NodeView), Distinct(nodes), Valid(nodes)
  PROVE  IsRing(nodes)
  <1> DEFINE E == Endpoints(nodes)
  <1>1. Cardinality(E) = Len(nodes)
    BY EndpointsCount DEF Distinct
  <1>2. ASSUME NEW i \in DOMAIN nodes, NEW j \in DOMAIN nodes
        PROVE  nodes[i].successor = nodes[j].endpoint
                  <=> nodes[j].predecessor = nodes[i].endpoint
    <2>1. /\ At(nodes, nodes[i].successor).predecessor = nodes[i].endpoint
          /\ At(nodes, nodes[j].predecessor).successor = nodes[j].endpoint
      BY DEF Valid, NeighboursAgree
    <2>2. /\ At(nodes, nodes[i].endpoint) = nodes[i]
          /\ At(nodes, nodes[j].endpoint) = nodes[j]
      BY Lookups
    <2> QED
      BY <2>1, <2>2
  <1>3. \A i \in DOMAIN nodes : nodes[i].successor \in E
    BY DEF Valid, NeighboursAgree
  <1>4. ASSUME NEW S \in (SUBSET E) \ {{}, E}
        PROVE  \E i \in DOMAIN nodes :
                  nodes[i].endpoint \in S /\ nodes[i].successor \notin S
    <2>1. ~Closed(nodes, S)
      BY OnlyWholeIsClosed
    <2> QED
      BY <2>1 DEF Closed
  <1> QED
    BY <1>1, <1>2, <1>3, <1>4 DEF IsRing, Valid

(* Everyone in a ring is the successor of someone. *)
LEMMA RingHasPredecessors ==
  ASSUME NEW nodes \in Seq(NodeView), IsRing(nodes), NEW i \in DOMAIN nodes
  PROVE  \E j \in DOMAIN nodes : /\ nodes[j].successor = nodes[i].endpoint
                                 /\ nodes[i].predecessor = nodes[j].endpoint
  <1> DEFINE E == Endpoints(nodes)
             S == E \ {nodes[i].endpoint}
  <1>1. nodes[i].endpoint \in E
    BY DEF Endpoints
  <1>2. \A j \in DOMAIN nodes : nodes[j].successor \in E
    BY DEF IsRing
  <1>3. \E j \in DOMAIN nodes : nodes[j].successor = nodes[i].endpoint
    <2>1. CASE S = {}
      BY <1>1, <1>2, <2>1
    <2>2. CASE S # {}
      <3>1. S \in (SUBSET E) \ {{}, E}
        BY <1>1, <2>2
      <3>2. PICK j \in DOMAIN nodes : nodes[j].endpoint \in S /\ nodes[j].successor \notin S
        BY <3>1 DEF IsRing
      <3> QED
        BY <1>2, <3>2
    <2> QED
      BY <2>1, <2>2
  <1> QED
    BY <1>3 DEF IsRing

LEMMA RingIsDistinct ==
  ASSUME NEW nodes \in Seq(NodeView), IsRing(nodes)
  PROVE  Distinct(nodes)
  <1>1. Cardinality(Endpoints(nodes)) = Len(nodes)
    BY DEF IsRing
  <1>2. Cardinality(Ids(nodes)) = Len(nodes)
    <2>1. Len(nodes) \in Nat \ {0} /\ Ids(nodes) = 0 .. Len(nodes) - 1
      BY DEF IsRing
    <2>2. Cardinality(0 .. Len(nodes) - 1) = Len(nodes)
      BY <2>1, FS_Interval
    <2> QED
      BY <2>1, <2>2
  <1> QED
    BY <1>1, <1>2, EndpointsCount DEF Distinct

(* The walk of a ring comes back to where it began, and to no other server *)
(* twice: the first server it sees again is the first one, for two would   *)
(* have the same successor otherwise, and the servers before it are all.   *)
LEMMA RingWalkCovers ==
  ASSUME NEW nodes \in Seq(NodeView), IsRing(nodes)
  PROVE  WalkCovers(nodes)
  <1> DEFINE E == Endpoints(nodes)
             N == Len(nodes)
             w == Walk(nodes)
             Again == {k \in Nat : k <= N /\ \E i \in Nat : i < k /\ w[i] = w[k]}
  <1>1. N \in Nat \ {0} /\ 1 \in DOMAIN nodes /\ Distinct(nodes)
    <2>1. nodes # <<>>
      BY DEF IsRing
    <2> QED
      BY <2>1, RingIsDistinct
  <1>2. IsFiniteSet(E) /\ Cardinality(E) = N
    BY EndpointsCount DEF IsRing
  <1>3. \A i \in 0 .. N : w[i] \in E
    <2>1. w[0] \in E /\ Closed(nodes, E)
      BY <1>1, WalkSteps DEF IsRing, Endpoints, Closed
    <2> QED
      BY <1>1, <2>1, WalkStays
  <1>4. \A i \in 0 .. N - 1 : \A a \in DOMAIN nodes :
           w[i] = nodes[a].endpoint => w[i+1] = nodes[a].successor
    BY <1>1, WalkSteps, Lookups
  <1> HIDE DEF w
  <1>5. \A i, j \in 0 .. N - 1 : w[i+1] = w[j+1] => w[i] = w[j]
    <2>1. SUFFICES ASSUME NEW i \in 0 .. N - 1, NEW j \in 0 .. N - 1, w[i+1] = w[j+1]
                   PROVE  w[i] = w[j]
      OBVIOUS
    <2>2. /\ i \in 0 .. N /\ j \in 0 .. N /\ i + 1 \in 0 .. N
      BY <1>1
    <2>3. PICK a \in DOMAIN nodes : w[i] = nodes[a].endpoint
      BY <1>3, <2>2 DEF Endpoints
    <2>4. PICK b \in DOMAIN nodes : w[j] = nodes[b].endpoint
      BY <1>3, <2>2 DEF Endpoints
    <2>5. PICK c \in DOMAIN nodes : w[i+1] = nodes[c].endpoint
      BY <1>3, <2>2 DEF Endpoints
    <2>6. nodes[a].successor = nodes[c].endpoint /\ nodes[b].successor = nodes[c].endpoint
      BY <1>4, <2>1, <2>3, <2>4, <2>5
    <2> QED
      BY <2>3, <2>4, <2>6 DEF IsRing
  <1>6. Again # {}
    <2> DEFINE f == [i \in 0 .. N |-> w[i]]
    <2>1. f \in [0 .. N -> E]
      BY <1>3
    <2>2. IsFiniteSet(0 .. N) /\ Cardinality(E) < Cardinality(0 .. N)
      BY <1>1, <1>2, FS_Interval
    <2> HIDE DEF f
    <2>3. \E x, y \in 0 .. N : x # y /\ f[x] = f[y]
      BY <1>2, <2>1, <2>2, FS_PigeonHole
    <2>4. PICK x \in 0 .. N, y \in 0 .. N : x # y /\ f[x] = f[y]
      BY <2>3
    <2>5. x \in Nat /\ y \in Nat /\ x <= N /\ y <= N /\ w[x] = w[y] /\ (x < y \/ y < x)
      BY <1>1, <2>4 DEF f
    <2> QED
      BY <2>5
  <1>7. PICK j \in Again : \A k \in Again : j <= k
    BY <1>6, Least
  <1>8. j \in 0 .. N /\ j - 1 \in 0 .. N - 1 /\ j - 1 \notin Again
    BY <1>1, <1>7
  <1>9. w[j] = w[0]
    <2>1. PICK i \in Nat : i < j /\ w[i] = w[j]
      BY <1>7
    <2>2. CASE i # 0
      <3>1. i - 1 \in 0 .. N - 1 /\ i = (i - 1) + 1 /\ j = (j - 1) + 1
        BY <1>1, <1>8, <2>1, <2>2
      <3>2. w[i-1] = w[j-1]
        BY <1>5, <1>8, <2>1, <3>1
      <3>3. j - 1 \in Nat /\ j - 1 <= N /\ i - 1 \in Nat /\ i - 1 < j - 1
        BY <1>1, <1>8, <2>1, <2>2
      <3> QED
        BY <1>8, <3>2, <3>3
    <2> QED
      BY <2>1, <2>2
  <1> DEFINE S == {w[i] : i \in 0 .. j - 1}
  <1>10. S = E
    <2>1. S \subseteq E
      BY <1>3, <1>8
    <2>2. w[0] \in S
      BY <1>8
    <2>3. ASSUME NEW a \in DOMAIN nodes, nodes[a].endpoint \in S
          PROVE  nodes[a].successor \in S
      <3>1. PICK i \in 0 .. j - 1 : nodes[a].endpoint = w[i]
        BY <2>3
      <3>2. i \in 0 .. N - 1 /\ (i + 1 = j \/ i + 1 \in 0 .. j - 1)
        BY <1>1, <1>8
      <3>3. w[i+1] = nodes[a].successor
        BY <1>4, <3>1, <3>2
      <3> QED
        BY <1>9, <2>2, <3>2, <3>3
    <2> HIDE DEF S
    <2>4. S \notin (SUBSET E) \ {{}, E}
      BY <2>3 DEF IsRing
    <2> QED
      BY <2>1, <2>2, <2>4
  <1>11. j = N
    <2> DEFINE g == [i \in 0 .. j - 1 |-> w[i]]
    <2>1. g \in Surjection(0 .. j - 1, E)
      BY <1>10 DEF Surjection
    <2>2. ASSUME NEW x \in 0 .. j - 1, NEW y \in 0 .. j - 1, x < y
          PROVE  w[x] # w[y]
      <3>1. y \in Nat /\ x \in Nat /\ y <= N /\ ~(j <= y)
        BY <1>8
      <3>2. y \notin Again
        BY <1>7, <3>1
      <3> QED
        BY <2>2, <3>1, <3>2
    <2>3. \A x, y \in 0 .. j - 1 : w[x] = w[y] => x = y
      <3>1. \A x, y \in 0 .. j - 1 : x < y \/ y < x \/ x = y
        BY <1>8
      <3> QED
        BY <2>2, <3>1
    <2>4. g \in Injection(0 .. j - 1, E)
      BY <1>10, <2>3 DEF Injection, IsInjective
    <2>5. IsFiniteSet(0 .. j - 1) /\ Cardinality(0 .. j - 1) = j
      <3>1. j \in Nat
        BY <1>7
      <3> QED
        BY <3>1, FS_Segment
    <2> HIDE DEF g
    <2> QED
      BY <1>2, <2>1, <2>4, <2>5, FS_Surjection
  <1> QED
    BY <1>2, <1>9, <1>10, <1>11 DEF WalkCovers, w

LEMMA RingIsValid ==
  ASSUME NEW nodes \in Seq(NodeView), IsRing(nodes)
  PROVE  /\ Valid(nodes)
         /\ \A i \in DOMAIN nodes : /\ nodes[i].predecessor \in Endpoints(nodes)
                                    /\ nodes[i].successor \in Endpoints(nodes)
  <1>1. \A i \in DOMAIN nodes : nodes[i].endpoint \in Endpoints(nodes)
    BY DEF Endpoints
  <1>2. ASSUME NEW i \in DOMAIN nodes
        PROVE  /\ {nodes[i].predecessor, nodes[i].successor} \subseteq Endpoints(nodes)
               /\ At(nodes, nodes[i].predecessor).successor = nodes[i].endpoint
               /\ At(nodes, nodes[i].successor).predecessor = nodes[i].endpoint
    <2>1. PICK j \in DOMAIN nodes : /\ nodes[j].successor = nodes[i].endpoint
                                    /\ nodes[i].predecessor = nodes[j].endpoint
      BY RingHasPredecessors
    <2>2. nodes[i].successor \in Endpoints(nodes)
      BY DEF IsRing
    <2>3. PICK k \in DOMAIN nodes : nodes[i].successor = nodes[k].endpoint
      BY <2>2 DEF Endpoints
    <2>4. nodes[k].predecessor = nodes[i].endpoint
      BY <2>3 DEF IsRing
    <2>5. At(nodes, nodes[j].endpoint) = nodes[j] /\ At(nodes, nodes[k].endpoint) = nodes[k]
      BY RingIsDistinct, Lookups
    <2> QED
      BY <1>1, <2>1, <2>2, <2>3, <2>4, <2>5
  <1> QED
    BY <1>2, RingWalkCovers DEF Valid, NeighboursAgree, IsRing

-----------------------------------------------------------------------------
(* The inductive invariant *)

Accepted == phase \in {"configuring", "failed", "serving"}

(* The list read so far, and what the client thinks of it *)
Judged ==
    /\ phase = "parsing" =>
          /\ Distinct(parsed)
          /\ \A i \in DOMAIN parsed : parsed[i].predecessor # Null /\ parsed[i].successor # Null
    /\ Accepted => Distinct(parsed) /\ Valid(parsed)
    /\ phase = "rejected" => ~IsRing(parsed)

(* What Configure has brought a server, stage by stage: its place in an    *)
(* accepted list.                                                          *)
StateOf(i, stage) ==
    [stage     |-> stage,
     index     |-> IF stage = "strategy" THEN -1 ELSE parsed[i].id,
     count     |-> IF stage = "strategy" THEN 0 ELSE Len(parsed),
     successor |-> IF stage = "ready" THEN parsed[i].successor ELSE Null]
Configured ==
    \A e \in Endpoint : server[e].stage = "none" \/
        /\ Accepted
        /\ \E i \in DOMAIN parsed :
              parsed[i].endpoint = e /\ server[e] = StateOf(i, server[e].stage)
Untouched == \A e \in Endpoint : server[e].stage = "none" => server[e] = Unconfigured

(* A call that is over and has not failed leaves its server ready. *)
Ready(i) == server[parsed[i].endpoint].stage = "ready"
Called ==
    /\ phase \in {"parsing", "rejected"} => tried = 0
    /\ phase = "configuring" /\ ~failures => \A i \in DOMAIN parsed : i < tried => Ready(i)
    /\ phase = "serving" => \A i \in DOMAIN parsed : Ready(i)

(* A write starts at the head of its index and goes from successor to      *)
(* successor of the list; it does not go past the tail, and is committed   *)
(* there or by a server it came to too early.                              *)
UnderWay == write.pc \in {"passing", "committed"}
OnPath ==
    UnderWay =>
        /\ Accepted /\ write.path # <<>> /\ write.index \in 0 .. Len(parsed) - 1
        /\ write.path[1] = CrownHeadFor(write.index)
        /\ \A i \in DOMAIN write.path : write.path[i] \in Endpoints(parsed)
        /\ \A i \in 1 .. Len(write.path) - 1 :
              /\ write.path[i+1] = At(parsed, write.path[i]).successor
              /\ write.path[i] # CrownTailFor(write.index)
        /\ write.pc = "passing" =>
              /\ write.origin = write.index
              /\ write.path[Len(write.path)] # CrownTailFor(write.index)
        /\ write.pc = "committed" =>
              \/ write.early
              \/ write.path[Len(write.path)] = CrownTailFor(write.index)
        /\ write.waited => phase = "serving" /\ ~write.early

IInv == TypeOK /\ Judged /\ Configured /\ Untouched /\ Called /\ OnPath /\ ForwardingEnds

(* What the conjuncts say of an accepted list *)
LEMMA AcceptedList ==
  ASSUME TypeOK, Judged, Accepted
  PROVE  /\ parsed \in Seq(NodeView) /\ Distinct(parsed) /\ Valid(parsed) /\ IsRing(parsed)
         /\ Len(parsed) \in Nat \ {0} /\ Len(parsed) <= MaxNodes
         /\ Ids(parsed) = 0 .. Len(parsed) - 1
         /\ Endpoints(parsed) \subseteq Endpoint
         /\ \A i \in DOMAIN parsed :
               /\ parsed[i] \in NodeView /\ parsed[i].id \in 0 .. Len(parsed) - 1
               /\ parsed[i].endpoint \in Endpoint /\ parsed[i].endpoint # Null
               /\ parsed[i].successor \in Endpoints(parsed)
               /\ At(parsed, parsed[i].endpoint) = parsed[i]
  <1>1. /\ parsed \in Seq(NodeView) /\ Distinct(parsed) /\ Valid(parsed)
        /\ Len(parsed) <= MaxNodes
    BY DEF Judged, TypeOK
  <1>2. IsRing(parsed)
    BY <1>1, ValidIsRing
  <1>3. Len(parsed) \in Nat \ {0} /\ Ids(parsed) = 0 .. Len(parsed) - 1
    BY <1>1 DEF Valid
  <1>4. ASSUME NEW i \in DOMAIN parsed
        PROVE  /\ parsed[i] \in NodeView /\ parsed[i].id \in 0 .. Len(parsed) - 1
               /\ parsed[i].endpoint \in Endpoint /\ parsed[i].endpoint # Null
               /\ parsed[i].successor \in Endpoints(parsed)
               /\ At(parsed, parsed[i].endpoint) = parsed[i]
    <2>1. parsed[i] \in NodeView
      BY <1>1
    <2>2. parsed[i].id \in Ids(parsed)
      BY DEF Ids
    <2>3. parsed[i].endpoint \in Endpoint /\ parsed[i].endpoint # Null
      BY <2>1, TopologyAssumption DEF NodeView
    <2>4. parsed[i].successor \in Endpoints(parsed)
      BY <1>2 DEF IsRing
    <2>5. At(parsed, parsed[i].endpoint) = parsed[i]
      BY <1>1, Lookups
    <2> QED
      BY <1>3, <2>1, <2>2, <2>3, <2>4, <2>5
  <1>5. Endpoints(parsed) \subseteq Endpoint
    BY <1>4 DEF Endpoints
  <1> QED
    BY <1>1, <1>2, <1>3, <1>4, <1>5

(* The index before another, counted round the ring *)
LEMMA Before ==
  ASSUME NEW n \in Nat \ {0}, NEW i \in 0 .. n - 1
  PROVE  /\ (i + n - 1) % n \in 0 .. n - 1
         /\ (i + n - 1) % n = (i - 1 + n) % n
         /\ n > 1 => (i + n - 1) % n # i
         /\ n = 1 => (i + n - 1) % n = 0
  <1>1. (i + n - 1) % n \in 0 .. n - 1
    OBVIOUS
  <1>2. (i + n - 1) % n = (i - 1 + n) % n
    <2>1. i + n - 1 = i - 1 + n
      OBVIOUS
    <2> QED
      BY <2>1
  <1>3. ASSUME n > 1
        PROVE  (i + n - 1) % n # i
    <2> DEFINE q == (i + n - 1) \div n
    <2>1. q \in Int /\ i + n - 1 = (n * q) + ((i + n - 1) % n)
      OBVIOUS
    <2> HIDE DEF q
    <2>2. q <= 0 => n * q <= 0
      BY <2>1
    <2>3. q >= 1 => n * q >= n
      BY <2>1
    <2> QED
      BY <1>1, <1>3, <2>1, <2>2, <2>3
  <1>4. ASSUME n = 1
        PROVE  (i + n - 1) % n = 0
    BY <1>4
  <1> QED
    BY <1>1, <1>2, <1>3, <1>4

(* The tail of an index: both clients compute the same one, and a server   *)
(* that knows the ring finds out that it is the tail.                      *)
LEMMA TailNode ==
  ASSUME TypeOK, Judged, Accepted, NEW index \in 0 .. Len(parsed) - 1
  PROVE  /\ CrownTailFor(index) = KvTail(index)
         /\ CrownTailFor(index) \in Endpoints(parsed)
         /\ \A i \in DOMAIN parsed :
               parsed[i].id = (index + Len(parsed) - 1) % Len(parsed)
                  <=> parsed[i].endpoint = CrownTailFor(index)
  <1> DEFINE t == (index + Len(parsed) - 1) % Len(parsed)
  <1>1. /\ parsed \in Seq(NodeView) /\ Distinct(parsed) /\ Ids(parsed) = 0 .. Len(parsed) - 1
        /\ Len(parsed) \in Nat \ {0}
    BY AcceptedList
  <1>2. t \in Ids(parsed) /\ t = (index - 1 + Len(parsed)) % Len(parsed)
    BY <1>1, Before
  <1>3. PICK j \in DOMAIN parsed : parsed[j].id = t
    BY <1>2 DEF Ids
  <1>4. WithId(parsed, t) = parsed[j]
    BY <1>1, <1>3, Lookups
  <1>5. CrownTailFor(index) = parsed[j].endpoint /\ KvTail(index) = parsed[j].endpoint
    BY <1>2, <1>4 DEF CrownTailFor, KvTail
  <1> HIDE DEF t
  <1>6. \A i \in DOMAIN parsed : parsed[i].id = t <=> parsed[i].endpoint = parsed[j].endpoint
    BY <1>1, <1>3 DEF Distinct
  <1> QED
    BY <1>5, <1>6 DEF Endpoints, t

LEMMA KnowsTail ==
  ASSUME TypeOK, Judged, Configured, NEW e \in Endpoint,
         server[e].stage \in {"config", "ready"},
         NEW index \in 0 .. Len(parsed) - 1
  PROVE  /\ IsRequestTailNode(e, index) <=> e = CrownTailFor(index)
         /\ server[e].count = Len(parsed)
         /\ Accepted
         /\ \E i \in DOMAIN parsed : parsed[i].endpoint = e /\ server[e].index = parsed[i].id
  <1> DEFINE n == Len(parsed)
             t == (index + n - 1) % n
  <1>1. PICK i \in DOMAIN parsed : parsed[i].endpoint = e /\ server[e] = StateOf(i, server[e].stage)
    BY DEF Configured
  <1>2. Accepted
    BY DEF Configured
  <1>3. server[e].index = parsed[i].id /\ server[e].count = n
    <2>1. server[e].stage # "strategy"
      OBVIOUS
    <2> QED
      BY <1>1, <2>1 DEF StateOf
  <1>4. /\ n \in Nat \ {0} /\ parsed[i].id \in 0 .. n - 1
        /\ parsed[i].id = t <=> e = CrownTailFor(index)
    BY <1>1, <1>2, AcceptedList, TailNode
  <1>5. IsRequestTailNode(e, index) <=> parsed[i].id = t
    <2>1. CASE n = 1
      <3>1. parsed[i].id = 0 /\ t = 0 /\ server[e].count <= 1
        BY <1>3, <1>4, <2>1, Before
      <3> QED
        BY <3>1 DEF IsRequestTailNode
    <2>2. CASE n # 1
      <3> HIDE DEF n
      <3>1. ~(n <= 1)
        BY <1>4, <2>2
      <3>2. ~(server[e].count <= 1)
        BY <1>3, <3>1
      <3> QED
        BY <1>3, <3>2 DEF IsRequestTailNode, n
    <2> QED
      BY <2>1, <2>2
  <1> QED
    BY <1>1, <1>2, <1>3, <1>4, <1>5

LEMMA CommittedAtTail ==
  ASSUME IInv PROVE CommitsWhereRead
  <1> SUFFICES ASSUME Placed
               PROVE  /\ Last(write.path) = CrownTailFor(write.index)
                      /\ Last(write.path) = KvTail(write.index)
    BY DEF CommitsWhereRead
  <1>1. /\ write.path[Len(write.path)] = CrownTailFor(write.index)
        /\ Accepted /\ write.index \in 0 .. Len(parsed) - 1
    BY DEF IInv, OnPath, UnderWay, Placed
  <1>2. CrownTailFor(write.index) = KvTail(write.index)
    BY <1>1, TailNode DEF IInv
  <1> QED
    BY <1>1, <1>2 DEF Last

(* The servers of a path that returns to its head are closed under         *)
(* successor, so they are the whole ring.                                  *)
LEMMA ClosedPathIsWhole ==
  ASSUME IInv, UnderWay,
         At(parsed, write.path[Len(write.path)]).successor = write.path[1]
  PROVE  ToSet(write.path) = Endpoints(parsed)
  <1> DEFINE p == write.path
             m == Len(write.path)
             S == ToSet(write.path)
  <1>1. /\ p \in Seq(Endpoint) /\ m \in Nat /\ m # 0 /\ DOMAIN p = 1 .. m
        /\ Accepted /\ \A i \in DOMAIN p : p[i] \in Endpoints(parsed)
        /\ \A i \in 1 .. m - 1 : p[i+1] = At(parsed, p[i]).successor
    BY DEF IInv, TypeOK, WriteState, OnPath
  <1>2. S = {p[i] : i \in DOMAIN p}
    BY DEF ToSet
  <1>3. /\ parsed \in Seq(NodeView) /\ Distinct(parsed) /\ Valid(parsed)
        /\ \A i \in DOMAIN parsed : At(parsed, parsed[i].endpoint) = parsed[i]
    BY <1>1, AcceptedList DEF IInv
  <1> HIDE DEF p, m, S
  <1>4. S \subseteq Endpoints(parsed) /\ S # {} /\ p[1] \in S
    BY <1>1, <1>2
  <1>5. Closed(parsed, S)
    <2>1. SUFFICES ASSUME NEW a \in DOMAIN parsed, parsed[a].endpoint \in S
                   PROVE  parsed[a].successor \in S
      BY DEF Closed
    <2>2. PICK i \in DOMAIN p : parsed[a].endpoint = p[i]
      BY <1>2, <2>1
    <2>3. parsed[a].successor = At(parsed, p[i]).successor
      BY <1>3, <2>2
    <2>4. CASE i = m
      BY <1>4, <2>3, <2>4 DEF p, m
    <2>5. CASE i # m
      <3>1. i \in 1 .. m - 1 /\ i + 1 \in DOMAIN p
        BY <1>1, <2>5
      <3>2. parsed[a].successor = p[i+1]
        BY <1>1, <2>3, <3>1
      <3> QED
        BY <1>2, <3>1, <3>2
    <2> QED
      BY <2>4, <2>5
  <1>6. S = Endpoints(parsed)
    BY <1>3, <1>4, <1>5, OnlyWholeIsClosed
  <1> QED
    BY <1>6 DEF S

(* Two servers of a ring do not have the same successor. *)
LEMMA OneSuccessor ==
  ASSUME TypeOK, Judged, Accepted, NEW x \in Endpoints(parsed), NEW y \in Endpoints(parsed),
         At(parsed, x).successor = At(parsed, y).successor
  PROVE  x = y
  <1>1. PICK i \in DOMAIN parsed : x = parsed[i].endpoint
    BY DEF Endpoints
  <1>2. PICK j \in DOMAIN parsed : y = parsed[j].endpoint
    BY DEF Endpoints
  <1>3. parsed[i].successor = parsed[j].successor /\ parsed[i].successor \in Endpoints(parsed)
    BY <1>1, <1>2, AcceptedList
  <1>4. PICK k \in DOMAIN parsed : parsed[i].successor = parsed[k].endpoint
    BY <1>3 DEF Endpoints
  <1>5. IsRing(parsed)
    BY AcceptedList
  <1>6. parsed[k].predecessor = parsed[i].endpoint
    BY <1>4, <1>5 DEF IsRing
  <1>7. parsed[k].predecessor = parsed[j].endpoint
    BY <1>3, <1>4, <1>5 DEF IsRing
  <1> QED
    BY <1>1, <1>2, <1>6, <1>7

LEMMA CommittedAfterRing ==
  ASSUME IInv PROVE CommitsAfterWholeRing
  <1> SUFFICES ASSUME Placed
               PROVE  ToSet(write.path) = Endpoints(parsed)
                         <=> At(parsed, CrownTailFor(write.index)).successor
                                = CrownHeadFor(write.index)
    BY DEF CommitsAfterWholeRing
  <1> DEFINE p == write.path
             m == Len(write.path)
  <1>1. /\ p \in Seq(Endpoint) /\ m \in Nat /\ m # 0 /\ DOMAIN p = 1 .. m /\ UnderWay
        /\ Accepted /\ \A i \in DOMAIN p : p[i] \in Endpoints(parsed)
        /\ \A i \in 1 .. m - 1 : p[i+1] = At(parsed, p[i]).successor
        /\ p[m] = CrownTailFor(write.index) /\ p[1] = CrownHeadFor(write.index)
    BY DEF IInv, TypeOK, WriteState, OnPath, UnderWay, Placed
  <1>2. ASSUME At(parsed, p[m]).successor = p[1]
        PROVE  ToSet(p) = Endpoints(parsed)
    BY <1>1, <1>2, ClosedPathIsWhole
  <1>3. ASSUME ToSet(p) = Endpoints(parsed)
        PROVE  At(parsed, p[m]).successor = p[1]
    <2>1. m \in DOMAIN p /\ p[m] \in Endpoints(parsed)
      BY <1>1
    <2>2. PICK a \in DOMAIN parsed : p[m] = parsed[a].endpoint
      BY <2>1 DEF Endpoints
    <2>3. At(parsed, p[m]).successor \in Endpoints(parsed)
      BY <1>1, <2>2, AcceptedList DEF IInv
    <2>4. PICK k \in DOMAIN p : At(parsed, p[m]).successor = p[k]
      BY <1>3, <2>3 DEF ToSet
    <2> HIDE DEF p, m
    <2>5. ASSUME k # 1
          PROVE  FALSE
      <3>1. k - 1 \in 1 .. m - 1 /\ k - 1 \in DOMAIN p /\ k = (k - 1) + 1 /\ k - 1 # m
        BY <1>1, <2>5
      <3>2. At(parsed, p[m]).successor = At(parsed, p[k-1]).successor
        BY <1>1, <2>4, <3>1
      <3>3. p[k-1] = p[m]
        BY <1>1, <2>1, <3>1, <3>2, OneSuccessor DEF IInv
      <3>4. \A i, j \in DOMAIN p : i # j => p[i] # p[j]
        BY DEF IInv, ForwardingEnds, p
      <3> QED
        BY <2>1, <3>1, <3>3, <3>4
    <2> QED
      BY <2>4, <2>5
  <1> QED
    BY <1>1, <1>2, <1>3

-----------------------------------------------------------------------------
(* The steps *)

LEMMA InitIInv == Init => IInv
  <1> SUFFICES ASSUME Init PROVE IInv
    OBVIOUS
  <1>1. MaxNodes \in Nat \ {0} /\ Null \notin Endpoint
    BY TopologyAssumption
  <1>2. Unconfigured \in ServerState /\ NoWrite \in WriteState
    BY <1>1 DEF Unconfigured, ServerState, NoWrite, WriteState
  <1>3. server \in [Endpoint -> ServerState] /\ \A e \in Endpoint : server[e] = Unconfigured
    BY <1>2 DEF Init
  <1>4. TypeOK
    <2>1. parsed \in Seq(NodeView) /\ Len(parsed) <= MaxNodes
      BY <1>1 DEF Init
    <2>2. tried \in 0 .. MaxNodes
      BY <1>1 DEF Init
    <2>3. failures \in BOOLEAN
      BY DEF Init
    <2> QED
      BY <1>2, <1>3, <2>1, <2>2, <2>3 DEF Init, TypeOK
  <1>5. Configured /\ Untouched
    BY <1>3 DEF Configured, Untouched, Unconfigured
  <1>6. Judged /\ Called /\ OnPath /\ ForwardingEnds
    BY DEF Init, NoWrite, Judged, Accepted, Distinct, Called, OnPath, UnderWay, ForwardingEnds
  <1> QED
    BY <1>4, <1>5, <1>6 DEF IInv

(* The parts about a write do not look at the servers. *)
LEMMA SamePath ==
  ASSUME OnPath, ForwardingEnds, parsed' = parsed, write' = write,
         Accepted => Accepted', phase = "serving" => phase' = "serving"
  PROVE  OnPath' /\ ForwardingEnds'
  BY DEF OnPath, UnderWay, ForwardingEnds, CrownHeadFor, CrownTailFor

(* A list that a node does not fit into is no ring. *)
LEMMA UnfitIsNoRing ==
  ASSUME NEW nodes \in Seq(NodeView), NEW n \in NodeView, ~NodeFits(nodes, n)
  PROVE  ~IsRing(Append(nodes, n))
  <1> DEFINE more == Append(nodes, n)
             l == Len(nodes) + 1
  <1> SUFFICES ASSUME IsRing(more) PROVE FALSE
    OBVIOUS
  <1>1. /\ more \in Seq(NodeView) /\ l \in DOMAIN more /\ more[l] = n
        /\ \A i \in DOMAIN nodes : i \in DOMAIN more /\ i # l /\ more[i] = nodes[i]
    OBVIOUS
  <1> HIDE DEF more, l
  <1>2. Distinct(more)
    BY <1>1, RingIsDistinct
  <1>3. n.endpoint \notin Endpoints(nodes) /\ n.id \notin Ids(nodes)
    BY <1>1, <1>2 DEF Distinct, Endpoints, Ids
  <1>4. n.predecessor \in Endpoints(more) /\ n.successor \in Endpoints(more)
    BY <1>1, RingIsValid
  <1>5. Null \notin Endpoints(more)
    <2>1. \A i \in DOMAIN more : more[i] \in NodeView
      BY <1>1
    <2> QED
      BY <2>1, TopologyAssumption DEF Endpoints, NodeView
  <1> QED
    BY <1>3, <1>4, <1>5 DEF NodeFits

LEMMA ParseKeepsIInv ==
  ASSUME IInv, NEW n \in NodeView, ParseNode(n)
  PROVE  IInv'
  <1>1. /\ phase = "parsing" /\ Len(parsed) < MaxNodes /\ parsed' = Append(parsed, n)
        /\ phase' = IF NodeFits(parsed, n) THEN "parsing" ELSE "rejected"
        /\ tried' = tried /\ failures' = failures /\ server' = server /\ write' = write
    BY DEF ParseNode
  <1>2. parsed \in Seq(NodeView) /\ MaxNodes \in Nat /\ Len(parsed) \in Nat
    BY TopologyAssumption DEF IInv, TypeOK
  <1>3. TypeOK'
    BY <1>1, <1>2 DEF IInv, TypeOK
  <1>4. \A e \in Endpoint : server[e].stage = "none"
    BY <1>1 DEF IInv, Configured, Accepted
  <1>5. ~UnderWay
    BY <1>1 DEF IInv, OnPath, Accepted
  <1>6. Judged'
    <2>1. CASE NodeFits(parsed, n)
      <3>1. Distinct(parsed')
        BY <1>1, <1>2, <2>1 DEF IInv, Judged, NodeFits, Distinct, Endpoints, Ids
      <3> QED
        BY <1>1, <1>2, <2>1, <3>1 DEF IInv, Judged, Accepted, NodeFits
    <2>2. CASE ~NodeFits(parsed, n)
      BY <1>1, <1>2, <2>2, UnfitIsNoRing DEF Judged, Accepted
    <2> QED
      BY <2>1, <2>2
  <1>7. Configured' /\ Untouched' /\ Called'
    BY <1>1, <1>4 DEF IInv, Configured, Untouched, Called
  <1>8. OnPath' /\ ForwardingEnds'
    BY <1>1, <1>5 DEF IInv, OnPath, UnderWay, ForwardingEnds
  <1> QED
    BY <1>3, <1>6, <1>7, <1>8 DEF IInv

LEMMA EndOfFileKeepsIInv ==
  ASSUME IInv, EndOfFile
  PROVE  IInv'
  <1>1. /\ phase = "parsing" /\ phase' = IF Valid(parsed) THEN "configuring" ELSE "rejected"
        /\ parsed' = parsed /\ tried' = tried /\ failures' = failures
        /\ server' = server /\ write' = write
    BY DEF EndOfFile
  <1>2. parsed \in Seq(NodeView) /\ Distinct(parsed)
    BY <1>1 DEF IInv, TypeOK, Judged
  <1>3. TypeOK'
    BY <1>1 DEF IInv, TypeOK
  <1>4. Judged'
    BY <1>1, <1>2, RingIsValid DEF Judged, Accepted
  <1>5. \A e \in Endpoint : server[e].stage = "none"
    BY <1>1 DEF IInv, Configured, Accepted
  <1>6. Configured' /\ Untouched'
    BY <1>1, <1>5 DEF IInv, Configured, Untouched
  <1>7. Called'
    <2>1. \A i \in DOMAIN parsed : i \in Nat /\ i # 0
      BY <1>2
    <2>2. tried = 0
      BY <1>1 DEF IInv, Called
    <2> QED
      BY <1>1, <2>1, <2>2 DEF Called
  <1>8. OnPath' /\ ForwardingEnds'
    BY <1>1, SamePath DEF IInv, Accepted
  <1> QED
    BY <1>3, <1>4, <1>6, <1>7, <1>8 DEF IInv

(* The loop goes on only from a call that is over. *)
LEMMA OverIsReady ==
  ASSUME IInv, phase = "configuring", CallOver, ~failures'
  PROVE  /\ ~failures
         /\ \A i \in DOMAIN parsed : i <= tried => Ready(i)
  <1>1. PICK failed \in BOOLEAN :
           /\ ~failed /\ tried > 0 => server[parsed[tried].endpoint].stage = "ready"
           /\ failures' = (failures \/ failed)
    BY DEF CallOver
  <1>2. failures \in BOOLEAN /\ ~failures /\ ~failed
    BY <1>1 DEF IInv, TypeOK
  <1>3. ASSUME NEW i \in DOMAIN parsed, i <= tried
        PROVE  Ready(i)
    <2>1. i \in Nat \ {0} /\ tried \in Nat
      BY DEF IInv, TypeOK
    <2>2. CASE i = tried
      BY <1>1, <1>2, <2>1, <2>2 DEF Ready
    <2>3. CASE i # tried
      <3>1. i < tried
        BY <1>3, <2>1, <2>3
      <3> QED
        BY <1>2, <3>1 DEF IInv, Called
    <2> QED
      BY <2>2, <2>3
  <1> QED
    BY <1>2, <1>3

LEMMA ConfigureKeepsIInv ==
  ASSUME IInv, ConfigureNode
  PROVE  IInv'
  <1>1. /\ phase = "configuring" /\ tried < Len(parsed) /\ tried' = tried + 1 /\ CallOver
        /\ phase' = phase /\ parsed' = parsed /\ server' = server /\ write' = write
    BY DEF ConfigureNode
  <1>2. /\ Len(parsed) <= MaxNodes /\ Len(parsed) \in Nat /\ tried \in Nat /\ MaxNodes \in Nat
        /\ failures \in BOOLEAN
    BY TopologyAssumption DEF IInv, TypeOK
  <1>3. failures' \in BOOLEAN
    BY <1>1, <1>2 DEF CallOver
  <1>4. tried' \in 0 .. MaxNodes
    BY <1>1, <1>2
  <1>5. TypeOK'
    BY <1>1, <1>3, <1>4 DEF IInv, TypeOK
  <1>6. Judged' /\ Configured' /\ Untouched'
    BY <1>1 DEF IInv, Judged, Accepted, Configured, StateOf, Untouched
  <1>7. Called'
    <2>1. SUFFICES ASSUME ~failures', NEW i \in DOMAIN parsed, i < tried'
                   PROVE  Ready(i)
      BY <1>1 DEF Called, Ready
    <2>2. i <= tried
      BY <1>1, <1>2, <2>1
    <2> QED
      BY <1>1, <2>1, <2>2, OverIsReady
  <1>8. OnPath' /\ ForwardingEnds'
    BY <1>1, SamePath DEF IInv, Accepted
  <1> QED
    BY <1>5, <1>6, <1>7, <1>8 DEF IInv

LEMMA BuildKeepsIInv ==
  ASSUME IInv, BuildTopology
  PROVE  IInv'
  <1>1. /\ phase = "configuring" /\ tried = Len(parsed) /\ CallOver
        /\ phase' = (IF failures' THEN "failed" ELSE "serving")
        /\ parsed' = parsed /\ tried' = tried /\ server' = server /\ write' = write
    BY DEF BuildTopology
  <1>2. failures' \in BOOLEAN
    BY <1>1 DEF CallOver, IInv, TypeOK
  <1>3. TypeOK'
    BY <1>1, <1>2 DEF IInv, TypeOK
  <1>4. Judged' /\ Configured' /\ Untouched'
    BY <1>1 DEF IInv, Judged, Accepted, Configured, StateOf, Untouched
  <1>5. Called'
    <2>1. SUFFICES ASSUME ~failures', NEW i \in DOMAIN parsed
                   PROVE  Ready(i)
      BY <1>1 DEF Called, Ready
    <2>2. i <= tried
      BY <1>1 DEF IInv, TypeOK
    <2> QED
      BY <1>1, <2>1, <2>2, OverIsReady
  <1>6. OnPath' /\ ForwardingEnds'
    BY <1>1, SamePath DEF IInv, Accepted
  <1> QED
    BY <1>3, <1>4, <1>5, <1>6 DEF IInv

(* Every step of Configure takes one server from a stage to the next, and  *)
(* leaves a ready one alone.                                               *)
LEMMA StageKeepsIInv ==
  ASSUME IInv, Accepted, NEW i \in DOMAIN parsed, NEW stage \in {"strategy", "config", "ready"},
         server[parsed[i].endpoint].stage # "ready",
         server' = [server EXCEPT ![parsed[i].endpoint] = StateOf(i, stage)],
         UNCHANGED <<phase, parsed, tried, failures, write>>
  PROVE  IInv'
  <1> DEFINE s == StateOf(i, stage)
             e == parsed[i].endpoint
  <1>1. /\ server \in [Endpoint -> ServerState] /\ e \in Endpoint
        /\ parsed[i] \in NodeView /\ parsed[i].id \in 0 .. Len(parsed) - 1
        /\ Len(parsed) \in Nat /\ Len(parsed) <= MaxNodes /\ MaxNodes \in Nat
    BY AcceptedList, TopologyAssumption DEF IInv, TypeOK
  <1>2. s \in ServerState
    <2>1. /\ parsed[i].id \in -1 .. MaxNodes - 1 /\ Len(parsed) \in 0 .. MaxNodes
          /\ -1 \in -1 .. MaxNodes - 1 /\ 0 \in 0 .. MaxNodes
          /\ parsed[i].successor \in Endpoint \cup {Null}
      BY <1>1 DEF NodeView
    <2> QED
      BY <2>1 DEF StateOf, ServerState
  <1>3. s.stage = stage
    BY DEF StateOf
  <1> HIDE DEF s
  <1>4. server'[e] = s /\ \A f \in Endpoint : f # e => server'[f] = server[f]
    BY <1>1 DEF s
  <1>5. server' \in [Endpoint -> ServerState]
    BY <1>1, <1>2 DEF s
  <1>6. TypeOK'
    BY <1>5 DEF IInv, TypeOK
  <1>7. Judged' /\ Accepted'
    BY DEF IInv, Judged, Accepted
  <1>8. Configured'
    <2>1. SUFFICES ASSUME NEW f \in Endpoint, server'[f].stage # "none"
                   PROVE  \E j \in DOMAIN parsed :
                             parsed[j].endpoint = f /\ server'[f] = StateOf(j, server'[f].stage)
      BY <1>7 DEF Configured, StateOf
    <2>2. CASE f = e
      BY <1>3, <1>4, <2>2 DEF s
    <2>3. CASE f # e
      BY <1>4, <2>1, <2>3 DEF IInv, Configured
    <2> QED
      BY <2>2, <2>3
  <1>9. Untouched'
    BY <1>3, <1>4 DEF IInv, Untouched
  <1>10. Called'
    <2>1. \A j \in DOMAIN parsed : Ready(j) => Ready(j)'
      <3>1. SUFFICES ASSUME NEW j \in DOMAIN parsed, Ready(j)
                     PROVE  server'[parsed[j].endpoint].stage = "ready"
        BY DEF Ready
      <3>2. parsed[j].endpoint \in Endpoint /\ parsed[j].endpoint # e
        BY <3>1, AcceptedList DEF IInv, Ready
      <3> QED
        BY <1>4, <3>1, <3>2 DEF Ready
    <2> QED
      BY <2>1 DEF IInv, Called
  <1>11. OnPath' /\ ForwardingEnds'
    BY <1>7, SamePath DEF IInv
  <1> QED
    BY <1>6, <1>7, <1>8, <1>9, <1>10, <1>11 DEF IInv

LEMMA HandlerKeepsIInv ==
  ASSUME IInv, NEW i \in DOMAIN parsed,
         ConfigureStrategy(i) \/ ConfigureConfig(i) \/ ConfigureStubs(i)
  PROVE  IInv'
  <1> DEFINE e == parsed[i].endpoint
  <1>1. e \in Endpoint /\ server[e] \in ServerState
    <2>1. parsed[i] \in NodeView /\ server \in [Endpoint -> ServerState]
      BY DEF IInv, TypeOK
    <2> QED
      BY <2>1 DEF NodeView
  <1>2. UNCHANGED <<phase, parsed, tried, failures, write>>
    BY DEF ConfigureStrategy, ConfigureConfig, ConfigureStubs
  <1>3. CASE ConfigureStrategy(i)
    <2>1. /\ i <= tried /\ server[e].stage = "none"
          /\ server' = [server EXCEPT ![e].stage = "strategy"]
      BY <1>3 DEF ConfigureStrategy
    <2>2. Accepted
      <3>1. i \in Nat \ {0} /\ tried \in Nat /\ tried # 0
        BY <2>1 DEF IInv, TypeOK
      <3> QED
        BY <3>1 DEF IInv, Called, TypeOK, Accepted
    <2>3. server[e] = Unconfigured
      BY <1>1, <2>1 DEF IInv, Untouched
    <2>4. [server[e] EXCEPT !.stage = "strategy"] = StateOf(i, "strategy")
      BY <2>3 DEF Unconfigured, StateOf
    <2>5. server' = [server EXCEPT ![e] = StateOf(i, "strategy")]
      BY <2>1, <2>4
    <2>6. server[e].stage # "ready"
      BY <2>1
    <2> QED
      BY <1>2, <2>2, <2>5, <2>6, StageKeepsIInv
  <1>4. ASSUME server[e].stage \in {"strategy", "config"}
        PROVE  /\ Accepted
               /\ server[e] = StateOf(i, server[e].stage)
    <2>1. PICK j \in DOMAIN parsed : parsed[j].endpoint = e /\ server[e] = StateOf(j, server[e].stage)
      BY <1>1, <1>4 DEF IInv, Configured
    <2>2. Accepted
      BY <1>1, <1>4 DEF IInv, Configured
    <2>3. j = i
      BY <2>1, <2>2, AcceptedList DEF IInv, Distinct
    <2> QED
      BY <2>1, <2>2, <2>3
  <1>5. CASE ConfigureConfig(i)
    <2>1. /\ server[e].stage = "strategy"
          /\ server' = [server EXCEPT ![e] = [stage |-> "config", index |-> parsed[i].id,
                                              count |-> Len(parsed), successor |-> @.successor]]
      BY <1>5 DEF ConfigureConfig
    <2>2. [stage |-> "config", index |-> parsed[i].id, count |-> Len(parsed),
           successor |-> server[e].successor]
             = StateOf(i, "config")
      <3>1. server[e] = StateOf(i, "strategy")
        BY <1>4, <2>1
      <3> QED
        BY <3>1 DEF StateOf
    <2>3. server' = [server EXCEPT ![e] = StateOf(i, "config")]
      BY <2>1, <2>2
    <2> QED
      BY <1>2, <1>4, <2>1, <2>3, StageKeepsIInv
  <1>6. CASE ConfigureStubs(i)
    <2>1. /\ server[e].stage = "config"
          /\ server' = [server EXCEPT ![e] = [stage |-> "ready", index |-> @.index,
                                              count |-> @.count,
                                              successor |-> parsed[i].successor]]
      BY <1>6 DEF ConfigureStubs
    <2>2. [stage |-> "ready", index |-> server[e].index, count |-> server[e].count,
           successor |-> parsed[i].successor]
             = StateOf(i, "ready")
      <3>1. server[e] = StateOf(i, "config")
        BY <1>4, <2>1
      <3> QED
        BY <3>1 DEF StateOf
    <2>3. server' = [server EXCEPT ![e] = StateOf(i, "ready")]
      BY <2>1, <2>2
    <2> QED
      BY <1>2, <1>4, <2>1, <2>3, StageKeepsIInv
  <1> QED
    BY <1>3, <1>5, <1>6

(* The head of a write, in a ring that was accepted or in whatever kv_client *)
(* takes, is a server.                                                       *)
LEMMA HeadExists ==
  ASSUME NEW nodes \in Seq(NodeView), NEW index \in 0 .. Len(nodes) - 1,
         Valid(nodes) \/ BuildCrownById(nodes)
  PROVE  \E i \in DOMAIN nodes : nodes[i].id = index
  <1>1. Ids(nodes) = 0 .. Len(nodes) - 1
    <2>1. CASE Valid(nodes)
      BY <2>1 DEF Valid
    <2>2. CASE BuildCrownById(nodes)
      <3>1. Ids(nodes) \subseteq 0 .. Len(nodes) - 1
        <4>1. \A i \in DOMAIN nodes : nodes[i].id \in Nat /\ nodes[i].id < Len(nodes)
          <5>1. \A i \in DOMAIN nodes : nodes[i] \in NodeView
            OBVIOUS
          <5> QED
            BY <2>2, <5>1, TopologyAssumption DEF BuildCrownById, NodeView
        <4> QED
          BY <4>1 DEF Ids
      <3>2. Cardinality(Ids(nodes)) = Len(nodes)
        BY <2>2, EndpointsCount DEF BuildCrownById
      <3>3. Len(nodes) \in Nat
        OBVIOUS
      <3> QED
        BY <3>1, <3>2, <3>3, FS_Segment, FS_Subset
    <2> QED
      BY <2>1, <2>2
  <1> QED
    BY <1>1 DEF Ids

LEMMA SendKeepsIInv ==
  ASSUME IInv, NEW index \in 0 .. Len(parsed) - 1, NEW head,
         Valid(parsed) \/ BuildCrownById(parsed),
         head = WithId(parsed, index).endpoint, SendWrite(index, head)
  PROVE  IInv'
  <1> DEFINE s == server[head]
  <1>1. /\ write' = [index |-> index, origin |-> s.index, path |-> <<head>>,
                     pc |-> IF s.stage = "none" THEN "failed"
                            ELSE IF s.count <= 1 THEN "committed" ELSE "passing",
                     waited |-> phase = "serving",
                     early |-> s.stage = "strategy"]
        /\ phase' = phase /\ parsed' = parsed /\ tried' = tried /\ failures' = failures
        /\ server' = server
    BY DEF SendWrite
  <1>2. /\ parsed \in Seq(NodeView) /\ Len(parsed) \in Nat /\ Len(parsed) <= MaxNodes
        /\ MaxNodes \in Nat /\ server \in [Endpoint -> ServerState]
    BY TopologyAssumption DEF IInv, TypeOK
  <1>3. PICK i \in DOMAIN parsed : parsed[i].id = index /\ head = parsed[i].endpoint
    <2>1. \E i \in DOMAIN parsed : parsed[i].id = index
      BY <1>2, HeadExists
    <2> QED
      BY <2>1 DEF WithId
  <1>4. head \in Endpoint /\ index \in 0 .. MaxNodes - 1 /\ s \in ServerState
    <2>1. parsed[i] \in NodeView
      BY <1>2
    <2>2. head \in Endpoint
      BY <1>3, <2>1 DEF NodeView
    <2> QED
      BY <1>2, <2>2
  <1> HIDE DEF s
  <1>5. /\ write' \in WriteState
        /\ write'.index = index /\ write'.path = <<head>> /\ write'.origin = s.index
        /\ write'.pc = "failed" <=> s.stage = "none"
        /\ write'.pc = "committed" <=> s.stage # "none" /\ s.count <= 1
        /\ write'.waited = (phase = "serving") /\ write'.early = (s.stage = "strategy")
    <2>1. <<head>> \in Seq(Endpoint) /\ s.index \in -1 .. MaxNodes - 1
      BY <1>4 DEF ServerState
    <2> QED
      BY <1>1, <1>4, <2>1 DEF WriteState
  <1>6. TypeOK'
    BY <1>1, <1>5 DEF IInv, TypeOK
  <1>7. Judged' /\ Configured' /\ Untouched' /\ Called'
    BY <1>1 DEF IInv, Judged, Configured, Untouched, Called, Ready, Accepted, StateOf
  <1>8. ForwardingEnds'
    <2>1. DOMAIN write'.path = {1}
      BY <1>5
    <2> QED
      BY <2>1 DEF ForwardingEnds
  <1>9. OnPath'
    <2> SUFFICES ASSUME UnderWay'
                 PROVE  OnPath'
      BY DEF OnPath
    <2>1. s.stage # "none"
      BY <1>5 DEF UnderWay
    <2>2. Accepted
      BY <1>4, <2>1 DEF IInv, Configured, s
    <2>3. /\ write'.path # <<>> /\ Len(write'.path) = 1 /\ write'.path[1] = head
          /\ DOMAIN write'.path = {1} /\ 1 .. Len(write'.path) - 1 = {}
      BY <1>5
    <2>4. head = CrownHeadFor(index) /\ head \in Endpoints(parsed)
      BY <1>3 DEF CrownHeadFor, Endpoints
    <2>5. phase = "serving" => s.stage = "ready"
      BY <1>3 DEF IInv, Called, Ready, s
    <2>6. s.stage \in {"config", "ready"} =>
             /\ s.index = index /\ s.count = Len(parsed)
             /\ IsRequestTailNode(head, index) <=> head = CrownTailFor(index)
      <3> SUFFICES ASSUME s.stage \in {"config", "ready"}
                   PROVE  /\ s.index = index /\ s.count = Len(parsed)
                          /\ IsRequestTailNode(head, index) <=> head = CrownTailFor(index)
        OBVIOUS
      <3>1. PICK j \in DOMAIN parsed : parsed[j].endpoint = head /\ s.index = parsed[j].id
        BY <1>4, KnowsTail DEF IInv, s
      <3>2. j = i
        BY <1>3, <2>2, <3>1, AcceptedList DEF IInv, Distinct
      <3> QED
        BY <1>3, <1>4, <3>1, <3>2, KnowsTail DEF IInv, s
    <2>7. s.stage \in {"config", "ready"} =>
             (write'.pc = "committed" <=> head = CrownTailFor(index))
      <3> SUFFICES ASSUME s.stage \in {"config", "ready"}
                   PROVE  s.count <= 1 <=> head = CrownTailFor(index)
        BY <1>5
      <3>1. Len(parsed) > 1 => (index + Len(parsed) - 1) % Len(parsed) # index
        BY <1>2, Before
      <3>2. IsRequestTailNode(head, index) <=> s.count <= 1
        <4>1. CASE s.count <= 1
          BY <4>1 DEF IsRequestTailNode, s
        <4>2. CASE ~(s.count <= 1)
          <5>1. Len(parsed) > 1
            BY <1>2, <2>6, <4>2
          <5> QED
            BY <2>6, <3>1, <4>2, <5>1 DEF IsRequestTailNode, s
        <4> QED
          BY <4>1, <4>2
      <3> QED
        BY <2>6, <3>2
    <2>8. s.stage \in {"strategy", "config", "ready"}
      BY <1>4, <2>1 DEF ServerState
    <2>9. s.stage = "strategy" => write'.pc = "committed"
      <3> SUFFICES ASSUME s.stage = "strategy" PROVE s.count <= 1
        BY <1>5
      <3>1. PICK j \in DOMAIN parsed : s = StateOf(j, "strategy")
        BY <1>4 DEF IInv, Configured, s
      <3> QED
        BY <3>1 DEF StateOf
    <2>10. /\ CrownHeadFor(index)' = CrownHeadFor(index)
           /\ CrownTailFor(index)' = CrownTailFor(index) /\ Accepted'
      BY <1>1, <2>2 DEF CrownHeadFor, CrownTailFor, Accepted
    <2>11. write'.pc = "passing" => write'.origin = index /\ head # CrownTailFor(index)
      BY <1>5, <2>6, <2>7, <2>8, <2>9
    <2>12. write'.pc = "committed" => write'.early \/ head = CrownTailFor(index)
      BY <1>5, <2>7, <2>8
    <2>13. write'.waited => phase' = "serving" /\ ~write'.early
      BY <1>1, <1>5, <2>5
    <2> QED
      BY <1>1, <1>5, <2>3, <2>4, <2>10, <2>11, <2>12, <2>13
      DEF OnPath, CrownHeadFor, CrownTailFor
  <1> QED
    BY <1>6, <1>7, <1>8, <1>9 DEF IInv

(* The stub of a server leads to its successor of the list, if it has one. *)
LEMMA NextHop ==
  ASSUME IInv, NEW e \in Endpoint, server[e].successor # Null
  PROVE  /\ server[e].stage = "ready" /\ Accepted
         /\ server[e].successor = At(parsed, e).successor
         /\ server[e].successor \in Endpoints(parsed)
  <1>1. server[e].stage # "none"
    BY DEF IInv, Untouched, Unconfigured
  <1>2. PICK i \in DOMAIN parsed : parsed[i].endpoint = e /\ server[e] = StateOf(i, server[e].stage)
    BY <1>1 DEF IInv, Configured
  <1>3. Accepted
    BY <1>1 DEF IInv, Configured
  <1>4. server[e].stage = "ready" /\ server[e].successor = parsed[i].successor
    BY <1>2 DEF StateOf
  <1> QED
    BY <1>2, <1>3, <1>4, AcceptedList DEF IInv

(* The successor of the last server of a write that is passed on is one    *)
(* that it was not on: two servers of a ring do not have the same          *)
(* successor, and a path that returns to its head has been to the tail.    *)
LEMMA NextIsNew ==
  ASSUME IInv, write.pc = "passing", NEW k \in DOMAIN write.path
  PROVE  write.path[k] # At(parsed, write.path[Len(write.path)]).successor
  <1> DEFINE p == write.path
             m == Len(write.path)
  <1>1. /\ p \in Seq(Endpoint) /\ m \in Nat /\ m # 0 /\ DOMAIN p = 1 .. m /\ k \in 1 .. m
        /\ UnderWay /\ Accepted /\ write.index \in 0 .. Len(parsed) - 1
        /\ \A i \in DOMAIN p : p[i] \in Endpoints(parsed)
        /\ \A i \in 1 .. m - 1 : p[i+1] = At(parsed, p[i]).successor
                                 /\ p[i] # CrownTailFor(write.index)
        /\ p[m] # CrownTailFor(write.index)
    BY DEF IInv, TypeOK, WriteState, OnPath, UnderWay
  <1>2. \A i, j \in DOMAIN p : i # j => p[i] # p[j]
    BY DEF IInv, ForwardingEnds
  <1> SUFFICES ASSUME p[k] = At(parsed, p[m]).successor PROVE FALSE
    OBVIOUS
  <1>3. CASE k # 1
    <2> HIDE DEF p, m
    <2>1. k - 1 \in 1 .. m - 1 /\ k - 1 \in DOMAIN p /\ k = (k - 1) + 1 /\ k - 1 # m /\ m \in DOMAIN p
      BY <1>1, <1>3
    <2>2. At(parsed, p[k-1]).successor = At(parsed, p[m]).successor
      BY <1>1, <2>1
    <2>3. p[k-1] = p[m]
      BY <1>1, <2>1, <2>2, OneSuccessor DEF IInv
    <2> QED
      BY <1>2, <2>1, <2>3
  <1>4. CASE k = 1
    <2>1. ToSet(p) = Endpoints(parsed)
      BY <1>1, <1>4, ClosedPathIsWhole
    <2>2. CrownTailFor(write.index) \in Endpoints(parsed)
      BY <1>1, TailNode DEF IInv
    <2>3. PICK i \in DOMAIN p : CrownTailFor(write.index) = p[i]
      BY <2>1, <2>2 DEF ToSet
    <2> HIDE DEF p, m
    <2>4. i = m \/ i \in 1 .. m - 1
      BY <1>1
    <2> QED
      BY <1>1, <2>3, <2>4
  <1> QED
    BY <1>3, <1>4

LEMMA PropagateKeepsIInv ==
  ASSUME IInv, Propagate
  PROVE  IInv'
  <1> DEFINE p == write.path
             m == Len(write.path)
             to == server[Last(write.path)].successor
  <1>1. /\ write.pc = "passing"
        /\ write' = IF to = Null \/ server[to].stage = "none"
                    THEN [write EXCEPT !.pc = "failed"]
                    ELSE [write EXCEPT !.path = Append(@, to),
                                       !.pc = IF IsRequestTailNode(to, write.origin)
                                              THEN "committed" ELSE "passing",
                                       !.early = server[to].stage = "strategy"]
        /\ phase' = phase /\ parsed' = parsed /\ tried' = tried /\ failures' = failures
        /\ server' = server
    BY DEF Propagate
  <1>2. /\ p \in Seq(Endpoint) /\ m \in Nat /\ m # 0 /\ DOMAIN p = 1 .. m
        /\ write \in WriteState /\ Accepted /\ write.origin = write.index
        /\ write.index \in 0 .. Len(parsed) - 1 /\ Last(p) = p[m] /\ p[m] \in Endpoint
        /\ p[m] # CrownTailFor(write.index)
    BY <1>1 DEF IInv, TypeOK, WriteState, OnPath, UnderWay, Last
  <1>3. Judged' /\ Configured' /\ Untouched' /\ Called'
    BY <1>1 DEF IInv, Judged, Configured, Untouched, Called, Ready, Accepted, StateOf
  <1> HIDE DEF to
  <1>4. CASE to = Null \/ server[to].stage = "none"
    <2>1. write' = [write EXCEPT !.pc = "failed"]
      BY <1>1, <1>4
    <2>2. write' \in WriteState /\ write'.pc = "failed" /\ write'.path = p
      BY <1>2, <2>1 DEF WriteState
    <2>3. TypeOK'
      BY <1>1, <2>2 DEF IInv, TypeOK
    <2>4. OnPath' /\ ForwardingEnds'
      BY <2>2 DEF IInv, OnPath, UnderWay, ForwardingEnds
    <2> QED
      BY <1>3, <2>3, <2>4 DEF IInv
  <1>5. CASE to # Null /\ server[to].stage # "none"
    <2>1. to = At(parsed, p[m]).successor /\ to \in Endpoints(parsed) /\ to \in Endpoint
      <3>1. server[p[m]].successor # Null
        BY <1>2, <1>5 DEF to
      <3>2. to = At(parsed, p[m]).successor /\ to \in Endpoints(parsed)
        BY <1>2, <3>1, NextHop DEF to
      <3> QED
        BY <1>2, <3>2, AcceptedList DEF IInv
    <2>2. write' = [write EXCEPT !.path = Append(@, to),
                                 !.pc = IF IsRequestTailNode(to, write.origin)
                                        THEN "committed" ELSE "passing",
                                 !.early = server[to].stage = "strategy"]
      BY <1>1, <1>5
    <2>3. Append(p, to) \in Seq(Endpoint)
      BY <1>2, <2>1
    <2>4. /\ write' \in WriteState /\ write'.path = Append(p, to)
          /\ write'.index = write.index /\ write'.origin = write.index
          /\ write'.waited = write.waited /\ write'.early = (server[to].stage = "strategy")
          /\ write'.pc \in {"passing", "committed"}
          /\ write'.pc = "committed" <=> IsRequestTailNode(to, write.index)
      BY <1>2, <2>2, <2>3 DEF WriteState
    <2>5. TypeOK'
      BY <1>1, <2>4 DEF IInv, TypeOK
    <2> DEFINE q == write'.path
    <2>6. /\ q # <<>> /\ Len(q) = m + 1 /\ DOMAIN q = 1 .. m + 1 /\ q[m+1] = to
          /\ \A i \in 1 .. m : q[i] = p[i]
      BY <1>2, <2>1, <2>4
    <2> HIDE DEF q
    <2>7. \A i \in DOMAIN q : i = m + 1 \/ (i \in 1 .. m /\ q[i] = p[i])
      BY <1>2, <2>6
    <2>8. ForwardingEnds'
      <3>1. \A k \in DOMAIN p : p[k] # to
        BY <1>1, <2>1, NextIsNew
      <3>2. \A i, j \in DOMAIN q : i # j => q[i] # q[j]
        BY <1>2, <2>6, <2>7, <3>1 DEF IInv, ForwardingEnds
      <3> QED
        BY <3>2 DEF ForwardingEnds, q
    <2>9. OnPath'
      <3>1. /\ p[1] = CrownHeadFor(write.index)
            /\ \A i \in DOMAIN p : p[i] \in Endpoints(parsed)
            /\ \A i \in 1 .. m - 1 : p[i+1] = At(parsed, p[i]).successor
                                     /\ p[i] # CrownTailFor(write.index)
            /\ write.waited => phase = "serving"
        BY <1>1 DEF IInv, OnPath, UnderWay
      <3>2. q[1] = CrownHeadFor(write.index)
        BY <1>2, <2>6, <3>1
      <3>3. \A i \in DOMAIN q : q[i] \in Endpoints(parsed)
        BY <1>2, <2>1, <2>6, <2>7, <3>1
      <3>4. ASSUME NEW i \in 1 .. m
            PROVE  q[i+1] = At(parsed, q[i]).successor /\ q[i] # CrownTailFor(write.index)
        <4>1. CASE i = m
          BY <1>2, <2>1, <2>6, <4>1
        <4>2. CASE i # m
          <5>1. i \in 1 .. m - 1 /\ i + 1 \in 1 .. m
            BY <1>2, <4>2
          <5> QED
            BY <2>6, <3>1, <5>1
        <4> QED
          BY <4>1, <4>2
      <3>5. server[to].stage \in {"config", "ready"} =>
               (write'.pc = "committed" <=> to = CrownTailFor(write.index))
        BY <1>2, <2>1, <2>4, KnowsTail DEF IInv
      <3>6. server[to].stage \in {"strategy", "config", "ready"}
        BY <1>5, <2>1 DEF IInv, TypeOK, ServerState
      <3>7. server[to].stage = "strategy" => write'.pc = "committed"
        <4> SUFFICES ASSUME server[to].stage = "strategy"
                     PROVE  IsRequestTailNode(to, write.index)
          BY <2>4
        <4>1. PICK j \in DOMAIN parsed : server[to] = StateOf(j, "strategy")
          BY <2>1 DEF IInv, Configured
        <4>2. server[to].count = 0
          BY <4>1 DEF StateOf
        <4> QED
          BY <4>2 DEF IsRequestTailNode
      <3>8. phase = "serving" => server[to].stage = "ready"
        <4>1. PICK i \in DOMAIN parsed : to = parsed[i].endpoint
          BY <2>1 DEF Endpoints
        <4> QED
          BY <4>1 DEF IInv, Called, Ready
      <3>9. write'.pc = "passing" => write'.origin = write.index /\ to # CrownTailFor(write.index)
        BY <2>4, <3>5, <3>6, <3>7
      <3>10. write'.pc = "committed" => write'.early \/ to = CrownTailFor(write.index)
        BY <2>4, <3>5, <3>6
      <3>11. write'.waited => phase' = "serving" /\ ~write'.early
        BY <1>1, <2>4, <3>1, <3>8
      <3>12. Len(q) - 1 = m /\ q[Len(q)] = to
        BY <1>2, <2>6
      <3>13. /\ CrownHeadFor(write.index)' = CrownHeadFor(write.index)
             /\ CrownTailFor(write.index)' = CrownTailFor(write.index) /\ Accepted'
        BY <1>1, <1>2, <2>4 DEF CrownHeadFor, CrownTailFor, Accepted
      <3> HIDE DEF p, m
      <3>14. /\ q # <<>> /\ \A i \in 1 .. Len(q) - 1 :
                  q[i+1] = At(parsed, q[i]).successor /\ q[i] # CrownTailFor(write.index)
        BY <2>6, <3>4, <3>12
      <3> QED
        BY <1>1, <1>2, <2>4, <3>2, <3>3, <3>9, <3>10, <3>11, <3>12, <3>13, <3>14 DEF OnPath, q
    <2> QED
      BY <1>3, <2>5, <2>8, <2>9 DEF IInv
  <1> QED
    BY <1>4, <1>5

LEMMA NextIInv == IInv /\ [Next]_vars => IInv'
  <1> SUFFICES ASSUME IInv, [Next]_vars
               PROVE  IInv'
    OBVIOUS
  <1>1. CASE \E n \in NodeView : ParseNode(n)
    BY <1>1, ParseKeepsIInv
  <1>2. CASE EndOfFile
    BY <1>2, EndOfFileKeepsIInv
  <1>3. CASE ConfigureNode
    BY <1>3, ConfigureKeepsIInv
  <1>4. CASE BuildTopology
    BY <1>4, BuildKeepsIInv
  <1>5. ASSUME NEW i \in DOMAIN parsed,
               ConfigureStrategy(i) \/ ConfigureConfig(i) \/ ConfigureStubs(i)
        PROVE  IInv'
    BY <1>5, HandlerKeepsIInv
  <1>6. ASSUME NEW index \in 0 .. Len(parsed) - 1, Write(index)
        PROVE  IInv'
    <2>1. Valid(parsed)
      BY <1>6 DEF Write, IInv, Judged, Accepted
    <2> QED
      BY <1>6, <2>1, SendKeepsIInv DEF Write, CrownHeadFor
  <1>7. ASSUME NEW index \in 0 .. Len(parsed) - 1, KvWrite(index)
        PROVE  IInv'
    BY <1>7, SendKeepsIInv DEF KvWrite, KvHead
  <1>8. CASE Propagate
    BY <1>8, PropagateKeepsIInv
  <1>9. CASE UNCHANGED vars
    <2>1. /\ phase' = phase /\ parsed' = parsed /\ tried' = tried /\ failures' = failures
          /\ server' = server /\ write' = write
      BY <1>9 DEF vars
    <2>2. OnPath' /\ ForwardingEnds'
      BY <2>1, SamePath DEF IInv, Accepted
    <2> QED
      BY <2>1, <2>2 DEF IInv, TypeOK, Judged, Accepted, Configured, StateOf, Untouched, Called, Ready
  <1> QED
    BY <1>1, <1>2, <1>3, <1>4, <1>5, <1>6, <1>7, <1>8, <1>9 DEF Next, Terminating

LEMMA Invariance == Spec => []IInv
  BY InitIInv, NextIInv, PTL DEF Spec

(* The state is well typed; a write's own record of its origin may be the  *)
(* -1 of a server that no one configured.                                  *)
THEOREM TypeTheorem == Spec => []TypeOK
  <1>1. IInv => TypeOK
    BY DEF IInv
  <1> QED
    BY <1>1, Invariance, PTL

(* validate_crown_topology accepts rings, and only rings, whatever the     *)
(* order of the nodes in the file.                                         *)
THEOREM RingTheorem == Spec => []AcceptsExactlyRings
  <1>1. IInv => AcceptsExactlyRings
    BY ValidIsRing DEF IInv, TypeOK, Judged, Accepted, AcceptsExactlyRings
  <1> QED
    BY <1>1, Invariance, PTL

(* A write comes by no server twice, though the servers forward it without *)
(* knowing the ring and some of them may be configured in part or not yet. *)
THEOREM ForwardingTheorem == Spec => []ForwardingEnds
  <1>1. IInv => ForwardingEnds
    BY DEF IInv
  <1> QED
    BY <1>1, Invariance, PTL

(* A write commits at the one server that both clients read its key from,  *)
(* whenever it is sent, unless a server commits it that has its strategy   *)
(* and not yet its NodeConfig; and to a client that is through with the    *)
(* Configure calls even that does not happen.                              *)
THEOREM TailTheorem == Spec => []CommitsWhereRead
  BY CommittedAtTail, Invariance, PTL

(* It has been to every server then just if the tail by index is the       *)
(* predecessor of the head in the ring.                                    *)
THEOREM WholeRingTheorem == Spec => []CommitsAfterWholeRing
  BY CommittedAfterRing, Invariance, PTL
=============================================================================

-------------------------- MODULE RouteTable_proofs --------------------------
(***************************************************************************)
(* Proofs about RouteTable, for any routes, listeners and bounds.  Unless  *)
(* the Gateway is queued again, the table that was pushed lists the rules  *)
(* of the attached routes, HTTP and gRPC rules before the others and none  *)
(* after one it precedes (TableInv).  At rest it therefore serves the      *)
(* hostnames that routes and listeners share, the preferred rule answers,  *)
(* and route and listener statuses are those of the attached routes.       *)
(***************************************************************************)
EXTENDS RouteTable, FiniteSetTheorems, SequenceTheorems, WellFoundedInduction, TLAPS

(* Sequences of the elements of a set. *)

\* Listing puts the elements of a finite set in the order that a total order gives them.
LEMMA ListingSorts ==
    ASSUME NEW S, IsFiniteSet(S), NEW R,
           \A x \in S : <<x, x>> \notin R,
           \A x, y \in S : x # y => <<x, y>> \in R \/ <<y, x>> \in R,
           \A x, y, z \in S : <<x, y>> \in R /\ <<y, z>> \in R => <<x, z>> \in R
    PROVE  /\ Cardinality(S) \in Nat
           /\ Listing(S, R) \in [1 .. Cardinality(S) -> S]
           /\ \A x \in S : \E k \in 1 .. Cardinality(S) : Listing(S, R)[k] = x
           /\ \A i, j \in 1 .. Cardinality(S) :
                 i < j => <<Listing(S, R)[i], Listing(S, R)[j]>> \in R
  <1> DEFINE n == Cardinality(S)
             D == 1 .. n
             before(x) == {y \in S : <<y, x>> \in R}
             place == [x \in S |-> 1 + Cardinality(before(x))]
             L == [k \in D |-> CHOOSE x \in S : place[x] = k]
  <1>1. n \in Nat /\ IsFiniteSet(D) /\ Cardinality(D) = n
    <2>1. n \in Nat
      BY FS_CardinalityType
    <2> HIDE DEF n
    <2>2. IsFiniteSet(D) /\ Cardinality(D) = IF 1 > n THEN 0 ELSE n - 1 + 1
      BY <2>1, FS_Interval
    <2> QED BY <2>1, <2>2
  <1>2. ASSUME NEW x \in S
        PROVE  /\ IsFiniteSet(before(x)) /\ Cardinality(before(x)) \in Nat
               /\ Cardinality(before(x)) < n
    <2>1. before(x) \subseteq S \ {x}
      OBVIOUS
    <2>2. IsFiniteSet(S \ {x}) /\ Cardinality(S \ {x}) = n - 1
      BY FS_RemoveElement
    <2>3. IsFiniteSet(before(x)) /\ Cardinality(before(x)) <= Cardinality(S \ {x})
      <3> HIDE DEF n, before
      <3> QED BY <2>1, <2>2, FS_Subset
    <2>4. Cardinality(before(x)) \in Nat
      BY <2>3, FS_CardinalityType
    <2> HIDE DEF n, before
    <2> QED BY <1>1, <2>2, <2>3, <2>4
  <1>3. ASSUME NEW x \in S, NEW y \in S, <<x, y>> \in R
        PROVE  Cardinality(before(x)) < Cardinality(before(y))
    <2>1. before(x) \subseteq before(y) \ {x} /\ x \in before(y)
      BY <1>3
    <2>2. IsFiniteSet(before(y)) /\ Cardinality(before(y)) \in Nat
      BY <1>2
    <2>3. /\ IsFiniteSet(before(y) \ {x})
          /\ Cardinality(before(y) \ {x}) = Cardinality(before(y)) - 1
      BY <2>1, <2>2, FS_RemoveElement
    <2>4. Cardinality(before(x)) \in Nat
      BY <1>2
    <2> HIDE DEF before
    <2>5. Cardinality(before(x)) <= Cardinality(before(y) \ {x})
      BY <2>1, <2>3, FS_Subset
    <2> QED BY <2>2, <2>3, <2>4, <2>5
  <1> HIDE DEF before
  <1>4. place \in [S -> D]
    <2> SUFFICES ASSUME NEW x \in S PROVE 1 + Cardinality(before(x)) \in D
      OBVIOUS
    <2> HIDE DEF n
    <2> QED BY <1>1, <1>2
  <1>5. ASSUME NEW x \in S, NEW y \in S, <<x, y>> \in R
        PROVE  place[x] < place[y]
    BY <1>2, <1>3, <1>5
  <1>6. \A x \in S : place[x] \in Nat
    BY <1>2
  <1> HIDE DEF place
  <1>7. \A x, y \in S : place[x] = place[y] => x = y
    <2> SUFFICES ASSUME NEW x \in S, NEW y \in S, x # y PROVE place[x] # place[y]
      OBVIOUS
    <2>1. <<x, y>> \in R \/ <<y, x>> \in R
      OBVIOUS
    <2>2. place[x] < place[y] \/ place[y] < place[x]
      BY <1>5, <2>1
    <2> QED BY <1>6, <2>2
  <1>8. place \in Injection(S, D)
    BY <1>4, <1>7 DEF Injection, IsInjective
  <1>9. place \in Surjection(S, D)
    BY <1>1, <1>8, FS_Injection
  <1>10. \A k \in D : \E x \in S : place[x] = k
    BY <1>9 DEF Surjection
  <1>11. \A k \in D : L[k] \in S /\ place[L[k]] = k
    BY <1>10
  <1>12. \A x \in S : L[place[x]] = x
    BY <1>4, <1>7, <1>11
  <1>13. L \in [D -> S]
    BY <1>11
  <1>14. Listing(S, R) = L
    BY DEF Listing, place, before
  <1> HIDE DEF L
  <1>15. \A x \in S : \E k \in D : L[k] = x
    BY <1>4, <1>12
  <1>16. ASSUME NEW i \in D, NEW j \in D, i < j PROVE <<L[i], L[j]>> \in R
    <2>1. L[i] \in S /\ L[j] \in S /\ place[L[i]] = i /\ place[L[j]] = j
      BY <1>11
    <2>2. i \in Int /\ j \in Int
      BY <1>1
    <2>3. L[i] # L[j]
      BY <1>16, <2>1, <2>2
    <2>4. <<L[j], L[i]>> \in R => j < i
      BY <1>5, <2>1
    <2>5. ~(j < i)
      BY <1>16, <2>2
    <2> QED BY <2>1, <2>3, <2>4, <2>5
  <1> QED BY <1>1, <1>13, <1>14, <1>15, <1>16

\* The image of a finite set is finite.
LEMMA FiniteImage ==
    ASSUME NEW A, IsFiniteSet(A), NEW f, f = [x \in A |-> f[x]]
    PROVE  IsFiniteSet({f[x] : x \in A})
  <1>1. f \in Surjection(A, {f[x] : x \in A})
    BY DEF Surjection
  <1> QED BY <1>1, FS_Surjection

\* SetToSeq enumerates a finite set.
LEMMA SetToSeqEnumerates ==
    ASSUME NEW S, IsFiniteSet(S)
    PROVE  /\ SetToSeq(S) \in Seq(S) /\ Len(SetToSeq(S)) = Cardinality(S)
           /\ Cardinality(S) \in Nat
           /\ \A x \in S : \E k \in 1 .. Cardinality(S) : SetToSeq(S)[k] = x
  <1> DEFINE n == Cardinality(S)
             f == SetToSeq(S)
  <1>1. n \in Nat /\ ExistsBijection(1 .. n, S)
    BY FS_CardinalityType
  <1>2. \E g \in [1 .. n -> S] : IsInjective(g)
    BY <1>1 DEF ExistsBijection, Bijection, Injection
  <1>3. f \in [1 .. n -> S] /\ IsInjective(f)
    BY <1>2 DEF SetToSeq
  <1> HIDE DEF f
  <1>4. IsFiniteSet(1 .. n) /\ Cardinality(1 .. n) = n
    <2> HIDE DEF n
    <2>1. IsFiniteSet(1 .. n) /\ Cardinality(1 .. n) = IF 1 > n THEN 0 ELSE n - 1 + 1
      BY <1>1, FS_Interval
    <2> QED BY <1>1, <2>1
  <1>5. f \in Injection(1 .. n, S)
    BY <1>3 DEF Injection
  <1>6. f \in Surjection(1 .. n, S)
    BY <1>4, <1>5, FS_Injection
  <1>7. \A x \in S : \E k \in 1 .. n : f[k] = x
    BY <1>6 DEF Surjection
  <1>8. f \in Seq(S) /\ Len(f) = n
    BY <1>1, <1>3, SeqDef, LenProperties
  <1> QED BY <1>1, <1>7, <1>8 DEF f

\* So does each of SetToSeqs.
LEMMA SetToSeqsEnumerate ==
    ASSUME NEW S, IsFiniteSet(S), NEW f \in SetToSeqs(S)
    PROVE  f \in Seq(S) /\ Range(f) = S
  <1> DEFINE n == Cardinality(S)
  <1>1. n \in Nat
    BY FS_CardinalityType
  <1>2. f \in [1 .. n -> S] /\ \A i, j \in 1 .. n : i # j => f[i] # f[j]
    BY DEF SetToSeqs
  <1>3. f \in Injection(1 .. n, S)
    BY <1>2 DEF Injection, IsInjective
  <1>4. IsFiniteSet(1 .. n) /\ Cardinality(1 .. n) = n
    <2> HIDE DEF n
    <2>1. IsFiniteSet(1 .. n) /\ Cardinality(1 .. n) = IF 1 > n THEN 0 ELSE n - 1 + 1
      BY <1>1, FS_Interval
    <2> QED BY <1>1, <2>1
  <1>5. f \in Surjection(1 .. n, S)
    BY <1>3, <1>4, FS_Injection
  <1>6. Range(f) = S
    BY <1>2, <1>5 DEF Surjection, Range
  <1>7. f \in Seq(S)
    BY <1>1, <1>2, SeqDef
  <1> QED BY <1>6, <1>7

\* So is the union of finitely many finite sets.
LEMMA FiniteUnion ==
    ASSUME NEW A, IsFiniteSet(A), NEW f, f = [x \in A |-> f[x]],
           \A x \in A : IsFiniteSet(f[x])
    PROVE  IsFiniteSet(UNION {f[x] : x \in A})
  <1>1. IsFiniteSet({f[x] : x \in A})
    BY FiniteImage
  <1> QED BY <1>1, FS_UNION

\* The lexicographic order of quadruples is a strict total order.
LEMMA Lexicographic ==
    ASSUME NEW S, \A s \in S : \A c \in 1 .. 4 : s[c] \in Int,
           \A s, t \in S : (\A c \in 1 .. 4 : s[c] = t[c]) => s = t,
           NEW R, \A x, y \in S : <<x, y>> \in R <=>
                     \E c \in 1 .. 4 : x[c] < y[c] /\ \A d \in 1 .. c - 1 : x[d] = y[d]
    PROVE  /\ \A x \in S : <<x, x>> \notin R
           /\ \A x, y \in S : x # y => <<x, y>> \in R \/ <<y, x>> \in R
           /\ \A x, y, z \in S : <<x, y>> \in R /\ <<y, z>> \in R => <<x, z>> \in R
  <1> DEFINE under(s, t) ==
               \E c \in 1 .. 4 : s[c] < t[c] /\ \A d \in 1 .. c - 1 : s[d] = t[d]
  <1>1. \A x, y \in S : <<x, y>> \in R <=> under(x, y)
    OBVIOUS
  <1>2. ASSUME NEW x \in S PROVE ~under(x, x)
    OBVIOUS
  <1>3. ASSUME NEW x \in S, NEW y \in S, x # y PROVE under(x, y) \/ under(y, x)
    <2>1. \A c \in 1 .. 4 : x[c] \in Int /\ y[c] \in Int
      OBVIOUS
    <2>2. PICK c \in 1 .. 4 : x[c] # y[c]
      BY <1>3
    <2>3. x[1] # y[1] \/ x[2] # y[2] \/ x[3] # y[3] \/ x[4] # y[4]
      BY <2>2
    <2>4. CASE x[1] # y[1]
      BY <2>1, <2>4
    <2>5. CASE x[1] = y[1] /\ x[2] # y[2]
      <3>1. x[2] < y[2] \/ y[2] < x[2]
        BY <2>1, <2>5
      <3>2. \A d \in 1 .. 2 - 1 : x[d] = y[d]
        BY <2>5
      <3> QED BY <3>1, <3>2
    <2>6. CASE x[1] = y[1] /\ x[2] = y[2] /\ x[3] # y[3]
      <3>1. x[3] < y[3] \/ y[3] < x[3]
        BY <2>1, <2>6
      <3>2. \A d \in 1 .. 3 - 1 : x[d] = y[d]
        BY <2>6
      <3> QED BY <3>1, <3>2
    <2>7. CASE x[1] = y[1] /\ x[2] = y[2] /\ x[3] = y[3] /\ x[4] # y[4]
      <3>1. x[4] < y[4] \/ y[4] < x[4]
        BY <2>1, <2>7
      <3>2. \A d \in 1 .. 4 - 1 : x[d] = y[d]
        BY <2>7
      <3> QED BY <3>1, <3>2
    <2> QED BY <2>3, <2>4, <2>5, <2>6, <2>7
  <1>4. ASSUME NEW x \in S, NEW y \in S, NEW z \in S, under(x, y), under(y, z)
        PROVE  under(x, z)
    <2>1. \A c \in 1 .. 4 : x[c] \in Int /\ y[c] \in Int /\ z[c] \in Int
      OBVIOUS
    <2>2. PICK c \in 1 .. 4 : x[c] < y[c] /\ \A d \in 1 .. c - 1 : x[d] = y[d]
      BY <1>4
    <2>3. PICK e \in 1 .. 4 : y[e] < z[e] /\ \A d \in 1 .. e - 1 : y[d] = z[d]
      BY <1>4
    <2>4. CASE c <= e
      <3>1. x[c] < z[c]
        BY <2>1, <2>2, <2>3, <2>4
      <3>2. \A d \in 1 .. c - 1 : x[d] = z[d]
        BY <2>2, <2>3, <2>4
      <3> QED BY <3>1, <3>2
    <2>5. CASE e < c
      <3>1. x[e] < z[e]
        BY <2>1, <2>2, <2>3, <2>5
      <3>2. \A d \in 1 .. e - 1 : x[d] = z[d]
        BY <2>2, <2>3, <2>5
      <3> QED BY <3>1, <3>2
    <2> QED BY <2>4, <2>5
  <1> HIDE DEF under
  <1> QED BY <1>1, <1>2, <1>3, <1>4
-----------------------------------------------------------------------------
(* The rules of a route. *)

\* The hostnames a route is attached with are those of its own and of the listeners.
LEMMA EffectiveHostnames ==
    ASSUME NEW r \in Routes, NEW spec, IsSpec(r, spec), listeners \in ListenerSets
    PROVE  /\ routeAttachmentHostnames(r, spec) \subseteq Hostnames \cup {NoHost}
           /\ IsFiniteSet(routeAttachmentHostnames(r, spec))
  <1> DEFINE host == [l \in listeners |-> l.host]
             all == spec.hosts \cup {host[l] : l \in listeners} \cup {NoHost}
  <1>1. \A l \in listeners : l.host \in Hostnames \cup {NoHost}
    BY RouteAssumption
  <1>2. all \subseteq Hostnames \cup {NoHost}
    BY <1>1 DEF IsSpec
  <1>3. IsFiniteSet(all)
    <2>1. IsFiniteSet(listeners)
      BY RouteAssumption
    <2>2. IsFiniteSet({host[l] : l \in listeners})
      BY <2>1, FiniteImage
    <2>3. IsFiniteSet(spec.hosts) /\ IsFiniteSet({NoHost})
      BY FS_Singleton DEF IsSpec
    <2> HIDE DEF host
    <2> QED BY <2>2, <2>3, FS_Union
  <1>4. \A l \in listeners : intersectHostnames(spec.hosts, l.host) \subseteq all
    BY DEF intersectHostnames, intersectHostname
  <1> HIDE DEF all
  <1>5. routeAttachmentHostnames(r, spec) \subseteq all \cup {NoHost}
    BY <1>4 DEF routeAttachmentHostnames
  <1>6. NoHost \in all
    BY DEF all
  <1> QED BY <1>2, <1>3, <1>5, <1>6, FS_Subset

\* A route is built for finitely many hostnames.
LEMMA RuleHostsType ==
    ASSUME NEW r \in Routes, IsSpec(r, routes[r]), listeners \in ListenerSets
    PROVE  RuleHosts(r) \subseteq Hostnames \cup {NoHost} /\ IsFiniteSet(RuleHosts(r))
  BY EffectiveHostnames, FS_Singleton DEF RuleHosts

\* A route rule is built for at least one match.
LEMMA RuleMatchesType ==
    ASSUME NEW r \in Routes, IsSpec(r, routes[r]), NEW i \in 1 .. Len(routes[r].rules)
    PROVE  /\ RuleMatches(r, i) \in Seq(Matches) /\ RuleMatches(r, i) # <<>>
           /\ \A m \in Range(RuleMatches(r, i)) : m.type = "none" => m.path = <<>>
           /\ r.kind = "HTTPRoute" =>
                 Range(RuleMatches(r, i))
                 = IF routes[r].rules[i] = <<>> THEN {NoMatch} ELSE Range(routes[r].rules[i])
  <1> DEFINE ms == routes[r].rules[i]
             built == [j \in 1 .. Len(ms) |-> builtMatch(r.kind, ms[j])]
  <1>1. routes[r].rules \in Seq(Seq(Matches))
    BY DEF IsSpec
  <1>2. ms \in Seq(Matches)
    BY <1>1, ElementOfSeq
  <1>3. Len(ms) \in Nat /\ DOMAIN ms = 1 .. Len(ms) /\ \A j \in 1 .. Len(ms) : ms[j] \in Matches
    BY <1>2, LenProperties, ElementOfSeq
  <1>4. \A j \in 1 .. Len(ms) : ms[j].type = "none" => ms[j].path = <<>>
    BY <1>3 DEF IsSpec, Range
  <1> HIDE DEF ms
  <1>5. ASSUME NEW m \in Matches
        PROVE  /\ builtMatch(r.kind, m) \in Matches
               /\ builtMatch(r.kind, m).type = m.type /\ builtMatch(r.kind, m).path = m.path
               /\ r.kind = "HTTPRoute" => builtMatch(r.kind, m) = m
    BY DEF builtMatch, Matches
  <1>6. NoMatch \in Matches /\ NoMatch.path = <<>>
    BY DEF NoMatch, Matches
  <1>7. RuleMatches(r, i) = IF r.kind \in {"TLSRoute", "TCPRoute"} \/ ms = <<>>
                            THEN <<NoMatch>> ELSE built
    BY DEF RuleMatches, ms
  <1>8. CASE r.kind \in {"TLSRoute", "TCPRoute"} \/ ms = <<>>
    <2>1. RuleMatches(r, i) = <<NoMatch>>
      BY <1>7, <1>8
    <2>2. <<NoMatch>> \in Seq(Matches) /\ <<NoMatch>> # <<>> /\ Range(<<NoMatch>>) = {NoMatch}
      BY <1>6 DEF Range
    <2> QED BY <1>6, <1>8, <2>1, <2>2 DEF ms
  <1>9. CASE ~(r.kind \in {"TLSRoute", "TCPRoute"} \/ ms = <<>>)
    <2>1. RuleMatches(r, i) = built /\ ms # <<>>
      BY <1>7, <1>9
    <2>2. built \in [1 .. Len(ms) -> Matches] /\ Len(ms) > 0
      BY <1>2, <1>3, <1>5, <2>1, EmptySeq
    <2>3. built \in Seq(Matches) /\ built # <<>>
      <3>1. DOMAIN built # DOMAIN <<>>
        BY <1>3, <2>2
      <3> QED BY <1>3, <2>2, <3>1, SeqDef
    <2>4. \A j \in 1 .. Len(ms) : /\ built[j] = builtMatch(r.kind, ms[j])
                                  /\ built[j].type = "none" => built[j].path = <<>>
      BY <1>3, <1>4, <1>5
    <2>5. DOMAIN built = 1 .. Len(ms)
      OBVIOUS
    <2> HIDE DEF built
    <2>6. \A m \in Range(built) : m.type = "none" => m.path = <<>>
      BY <2>4, <2>5 DEF Range
    <2>7. r.kind = "HTTPRoute" => Range(built) = Range(ms)
      BY <1>3, <1>5, <2>4, <2>5 DEF Range
    <2> QED BY <2>1, <2>3, <2>6, <2>7 DEF ms
  <1> QED BY <1>8, <1>9

\* What a rule says of the route it is built from.
LEMMA RouteRulesType ==
    ASSUME NEW r \in Routes, IsSpec(r, routes[r]), listeners \in ListenerSets,
           NEW x \in RouteRules(r)
    PROVE  /\ x \in Rules /\ x.route = r /\ x.host \in RuleHosts(r)
           /\ x.match.type = "none" => x.match.path = <<>>
           /\ \E i \in 1 .. Len(routes[r].rules) : x.match \in Range(RuleMatches(r, i))
  <1>1. PICK i \in 1 .. Len(routes[r].rules) :
           x \in {BuiltRule(r, i, h, m) : h \in RuleHosts(r), m \in Range(RuleMatches(r, i))}
    BY DEF RouteRules
  <1>2. PICK h \in RuleHosts(r), m \in Range(RuleMatches(r, i)) : x = BuiltRule(r, i, h, m)
    BY <1>1
  <1>3. h \in Hostnames \cup {NoHost}
    BY RuleHostsType
  <1>4. m \in Matches /\ (m.type = "none" => m.path = <<>>)
    <2>1. RuleMatches(r, i) \in Seq(Matches)
      BY RuleMatchesType
    <2>2. \A j \in DOMAIN RuleMatches(r, i) : RuleMatches(r, i)[j] \in Matches
      BY <2>1, LenProperties, ElementOfSeq
    <2>3. m \in Matches
      BY <2>2 DEF Range
    <2> QED BY <2>3, RuleMatchesType
  <1>5. routes[r].created \in Nat /\ i \in Nat \ {0}
    <2>1. Len(routes[r].rules) \in Nat
      BY LenProperties DEF IsSpec
    <2> QED BY <2>1 DEF IsSpec
  <1>6. /\ x.route = r /\ x.created = routes[r].created /\ x.index = i /\ x.host = h
        /\ x.match = m
    BY <1>2 DEF BuiltRule, ruleIndex
  <1>7. x \in Rules
    BY <1>2, <1>3, <1>4, <1>5 DEF BuiltRule, ruleIndex, Rules
  <1> QED BY <1>4, <1>6, <1>7

\* The rounds of the loop over hostnames and matches of one route rule are finitely many.
LEMMA FiniteRounds ==
    ASSUME NEW k, NEW i, NEW a \in Nat, NEW b \in Nat, NEW T,
           \A t \in T : \E h \in 1 .. a, j \in 1 .. b : t = <<k, i, h, j>>
    PROVE  IsFiniteSet(T)
  <1> DEFINE A == (1 .. a) \X (1 .. b)
             f == [p \in A |-> <<k, i, p[1], p[2]>>]
  <1>1. IsFiniteSet(A)
    <2>1. IsFiniteSet(1 .. a) /\ IsFiniteSet(1 .. b)
      BY FS_Interval
    <2> QED BY <2>1, FS_Product
  <1>2. IsFiniteSet({f[p] : p \in A})
    <2>1. f = [p \in A |-> f[p]]
      OBVIOUS
    <2> HIDE DEF f, A
    <2> QED BY <1>1, <2>1, FiniteImage
  <1>3. \A h \in 1 .. a, j \in 1 .. b : <<h, j>> \in A /\ f[<<h, j>>] = <<k, i, h, j>>
    OBVIOUS
  <1> HIDE DEF f, A
  <1>4. T \subseteq {f[p] : p \in A}
    BY <1>3
  <1> QED BY <1>2, <1>4, FS_Subset

\* The Build*IngressRules append exactly the rules of the routes they are given.
LEMMA BuildsRouteRules ==
    ASSUME \A r \in Routes : IsSpec(r, routes[r]), listeners \in ListenerSets,
           NEW listed \in Seq(Routes)
    PROVE  /\ Build(listed) \in Seq(Rules)
           /\ Range(Build(listed)) = UNION {RouteRules(r) : r \in Range(listed)}
  <1> DEFINE K == 1 .. Len(listed)
             hosts == [k \in K |-> SetToSeq(RuleHosts(listed[k]))]
             rounds(k, i) == {<<k, i, h, j>> : h \in 1 .. Len(hosts[k]),
                                               j \in 1 .. Len(RuleMatches(listed[k], i))}
             I(k) == 1 .. Len(routes[listed[k]].rules)
             turns == [k \in K |-> [i \in I(k) |-> rounds(k, i)]]
             loop == UNION {UNION {rounds(k, i) : i \in I(k)} : k \in K}
             before == {p \in loop \X loop : \E c \in 1 .. 4 :
                          p[1][c] < p[2][c] /\ \A d \in 1 .. c - 1 : p[1][d] = p[2][d]}
             order == Listing(loop, before)
             rule(t) == BuiltRule(listed[t[1]], t[2], hosts[t[1]][t[3]],
                                  RuleMatches(listed[t[1]], t[2])[t[4]])
             built == [n \in 1 .. Len(order) |-> rule(order[n])]
  <1>1. Len(listed) \in Nat /\ K = DOMAIN listed /\ \A k \in K : listed[k] \in Routes
    BY LenProperties, ElementOfSeq
  <1>2. ASSUME NEW k \in K
        PROVE  /\ hosts[k] \in Seq(RuleHosts(listed[k])) /\ Len(hosts[k]) \in Nat
               /\ \A h \in RuleHosts(listed[k]) : \E n \in 1 .. Len(hosts[k]) : hosts[k][n] = h
               /\ \A n \in 1 .. Len(hosts[k]) : hosts[k][n] \in RuleHosts(listed[k])
    <2>1. IsFiniteSet(RuleHosts(listed[k]))
      BY <1>1, RuleHostsType
    <2>2. hosts[k] = SetToSeq(RuleHosts(listed[k]))
      OBVIOUS
    <2> HIDE DEF hosts
    <2>3. hosts[k] \in Seq(RuleHosts(listed[k])) /\ Len(hosts[k]) \in Nat
      BY <2>1, <2>2, SetToSeqEnumerates
    <2>4. \A h \in RuleHosts(listed[k]) : \E n \in 1 .. Len(hosts[k]) : hosts[k][n] = h
      BY <2>1, <2>2, SetToSeqEnumerates
    <2> QED BY <2>3, <2>4, ElementOfSeq
  <1> HIDE DEF hosts
  <1>3. ASSUME NEW k \in K
        PROVE  /\ Len(routes[listed[k]].rules) \in Nat
               /\ \A i \in I(k) : /\ RuleMatches(listed[k], i) \in Seq(Matches)
                                  /\ Len(RuleMatches(listed[k], i)) \in Nat
    <2>1. IsSpec(listed[k], routes[listed[k]])
      BY <1>1
    <2>2. Len(routes[listed[k]].rules) \in Nat
      BY <2>1, LenProperties DEF IsSpec
    <2>3. ASSUME NEW i \in I(k) PROVE RuleMatches(listed[k], i) \in Seq(Matches)
      BY <1>1, <2>1, RuleMatchesType
    <2> QED BY <2>2, <2>3, LenProperties
  <1>4. ASSUME NEW t
        PROVE  t \in loop <=> \E k \in K : \E i \in I(k) : t \in rounds(k, i)
    <2> HIDE DEF K, I, rounds
    <2> QED OBVIOUS
  <1>5. IsFiniteSet(loop)
    <2>1. ASSUME NEW k \in K, NEW i \in I(k) PROVE IsFiniteSet(rounds(k, i))
      <3>1. Len(hosts[k]) \in Nat /\ Len(RuleMatches(listed[k], i)) \in Nat
        BY <1>2, <1>3
      <3>2. \A t \in rounds(k, i) : \E h \in 1 .. Len(hosts[k]),
                  j \in 1 .. Len(RuleMatches(listed[k], i)) : t = <<k, i, h, j>>
        OBVIOUS
      <3> HIDE DEF rounds
      <3> QED BY ONLY <3>1, <3>2, FiniteRounds
    <2> HIDE DEF rounds
    <2> DEFINE f == [k \in K |-> UNION {rounds(k, i) : i \in I(k)}]
    <2>2. ASSUME NEW k \in K PROVE IsFiniteSet(f[k])
      <3> DEFINE g == [i \in I(k) |-> rounds(k, i)]
      <3>1. IsFiniteSet(I(k))
        <4>1. Len(routes[listed[k]].rules) \in Int /\ 1 \in Int
          BY <1>3
        <4> QED BY ONLY <4>1, FS_Interval
      <3>2. \A i \in I(k) : IsFiniteSet(g[i])
        BY <2>1
      <3>3. g = [i \in I(k) |-> g[i]] /\ f[k] = UNION {g[i] : i \in I(k)}
        OBVIOUS
      <3> HIDE DEF g, I, f
      <3> QED BY <3>1, <3>2, <3>3, FiniteUnion
    <2>3. f = [k \in K |-> f[k]] /\ loop = UNION {f[k] : k \in K}
      OBVIOUS
    <2>4. IsFiniteSet(K)
      BY <1>1, FS_Interval
    <2> HIDE DEF f, K, loop
    <2> QED BY <2>2, <2>3, <2>4, FiniteUnion
  <1>6. ASSUME NEW t \in loop
        PROVE  /\ t[1] \in K /\ t[2] \in I(t[1]) /\ t[3] \in 1 .. Len(hosts[t[1]])
               /\ t[4] \in 1 .. Len(RuleMatches(listed[t[1]], t[2]))
               /\ t = <<t[1], t[2], t[3], t[4]>>
    OBVIOUS
  <1>7. ASSUME NEW k \in K, NEW i \in I(k), NEW h \in 1 .. Len(hosts[k]),
               NEW j \in 1 .. Len(RuleMatches(listed[k], i))
        PROVE  <<k, i, h, j>> \in loop
    BY <1>4
  <1> HIDE DEF loop
  <1>8. /\ Cardinality(loop) \in Nat
        /\ order \in [1 .. Cardinality(loop) -> loop]
        /\ \A t \in loop : \E n \in 1 .. Cardinality(loop) : order[n] = t
    <2>1. \A s \in loop : \A c \in 1 .. 4 : s[c] \in Int
      <3> SUFFICES ASSUME NEW s \in loop
                   PROVE  s[1] \in Int /\ s[2] \in Int /\ s[3] \in Int /\ s[4] \in Int
        OBVIOUS
      <3> QED BY <1>6
    <2>2. \A s, t \in loop : (\A c \in 1 .. 4 : s[c] = t[c]) => s = t
      <3> SUFFICES ASSUME NEW s \in loop, NEW t \in loop, \A c \in 1 .. 4 : s[c] = t[c]
                   PROVE  s = t
        OBVIOUS
      <3>1. s[1] = t[1] /\ s[2] = t[2] /\ s[3] = t[3] /\ s[4] = t[4]
        OBVIOUS
      <3> QED BY <1>6, <3>1
    <2>3. \A x, y \in loop : <<x, y>> \in before <=>
             \E c \in 1 .. 4 : x[c] < y[c] /\ \A d \in 1 .. c - 1 : x[d] = y[d]
      OBVIOUS
    <2> HIDE DEF before
    <2>4. /\ \A x \in loop : <<x, x>> \notin before
          /\ \A x, y \in loop : x # y => <<x, y>> \in before \/ <<y, x>> \in before
          /\ \A x, y, z \in loop :
                <<x, y>> \in before /\ <<y, z>> \in before => <<x, z>> \in before
      BY ONLY <2>1, <2>2, <2>3, Lexicographic
    <2> QED BY <1>5, <2>4, ListingSorts
  <1> HIDE DEF order
  <1>9. Len(order) = Cardinality(loop)
    BY <1>8, SeqDef, LenProperties
  <1>10. ASSUME NEW t \in loop
         PROVE  rule(t) \in RouteRules(listed[t[1]]) /\ rule(t) \in Rules
    <2>1. t[1] \in K /\ t[2] \in I(t[1])
      BY <1>6
    <2>2. hosts[t[1]][t[3]] \in RuleHosts(listed[t[1]])
      BY <1>2, <1>6
    <2>3. RuleMatches(listed[t[1]], t[2])[t[4]] \in Range(RuleMatches(listed[t[1]], t[2]))
      BY <1>3, <1>6, LenProperties DEF Range
    <2>4. rule(t) \in RouteRules(listed[t[1]])
      BY <2>1, <2>2, <2>3 DEF RouteRules
    <2>5. listed[t[1]] \in Routes
      BY <1>1, <2>1
    <2> HIDE DEF rule
    <2> QED BY <2>4, <2>5, RouteRulesType
  <1>11. ASSUME NEW k \in K, NEW x \in RouteRules(listed[k])
         PROVE  \E t \in loop : rule(t) = x
    <2>1. PICK i \in I(k) :
             x \in {BuiltRule(listed[k], i, h, m) :
                       h \in RuleHosts(listed[k]), m \in Range(RuleMatches(listed[k], i))}
      BY DEF RouteRules
    <2>2. PICK h \in RuleHosts(listed[k]), m \in Range(RuleMatches(listed[k], i)) :
             x = BuiltRule(listed[k], i, h, m)
      BY <2>1
    <2>3. PICK n \in 1 .. Len(hosts[k]) : hosts[k][n] = h
      BY <1>2
    <2>4. PICK j \in 1 .. Len(RuleMatches(listed[k], i)) : RuleMatches(listed[k], i)[j] = m
      BY <1>3, LenProperties DEF Range
    <2>5. rule(<<k, i, n, j>>) = x
      BY <2>2, <2>3, <2>4
    <2> QED BY <1>7, <2>5
  <1>12. Build(listed) = built
    BY DEF Build, order, before, loop, hosts
  <1>13. \A n \in 1 .. Len(order) : order[n] \in loop
    BY <1>8, <1>9
  <1>14. \A n \in 1 .. Len(order) : built[n] = rule(order[n])
    OBVIOUS
  <1> HIDE DEF rule
  <1>15. built \in [1 .. Len(order) -> Rules]
    BY <1>10, <1>13
  <1>16. built \in Seq(Rules) /\ DOMAIN built = 1 .. Len(order)
    BY <1>8, <1>9, <1>15, SeqDef
  <1> HIDE DEF built
  <1>17. ASSUME NEW x \in Range(built)
         PROVE  x \in UNION {RouteRules(r) : r \in Range(listed)}
    <2>1. PICK n \in 1 .. Len(order) : x = rule(order[n])
      BY <1>14, <1>16 DEF Range
    <2>2. x \in RouteRules(listed[order[n][1]]) /\ order[n][1] \in DOMAIN listed
      BY <1>1, <1>6, <1>10, <1>13, <2>1
    <2> QED BY <2>2 DEF Range
  <1>18. ASSUME NEW x \in UNION {RouteRules(r) : r \in Range(listed)}
         PROVE  x \in Range(built)
    <2>1. PICK r \in Range(listed) : x \in RouteRules(r)
      OBVIOUS
    <2>2. PICK k \in K : x \in RouteRules(listed[k])
      BY <1>1, <2>1 DEF Range
    <2>3. PICK t \in loop : rule(t) = x
      BY <1>11, <2>2
    <2>4. PICK n \in 1 .. Len(order) : order[n] = t
      BY <1>8, <1>9
    <2> QED BY <1>14, <1>16, <2>3, <2>4 DEF Range
  <1> QED BY <1>12, <1>16, <1>17, <1>18

(* Precedence. *)

\* A rule is ranked by eleven numbers.
LEMMA RankingType ==
    ASSUME NEW x \in Rules
    PROVE  /\ Len(Ranking(x)) = 11
           /\ \A i \in 1 .. 11 : Ranking(x)[i] \in Int
  <1> DEFINE host == hostnameSpecificity(x.host)
             rest == <<pathKind(x.match),
                       IF pathKind(x.match) = pathNone THEN 0 ELSE Len(x.match.path),
                       IF x.match.method THEN 1 ELSE 0, x.match.headers, x.match.queries,
                       -x.created, -x.route.ns, -x.route.name, -x.index>>
  <1>1. /\ x.host \in Hostnames \cup {NoHost} /\ x.match \in Matches
        /\ x.created \in Nat /\ x.index \in Nat
        /\ x.route \in [kind : RouteKinds, ns : Nat, name : Nat]
    BY RouteAssumption DEF Rules
  <1>2. host \in Seq(Int) /\ Len(host) = 2
    BY <1>1 DEF Hostnames, NoHost, hostnameSpecificity
  <1>3. pathKind(x.match) \in Int
    BY DEF pathKind, pathNone, pathRegex, pathPrefix, pathExact
  <1>4. Len(x.match.path) \in Int /\ x.match.headers \in Int /\ x.match.queries \in Int
    BY <1>1 DEF Matches
  <1>5. /\ (IF pathKind(x.match) = pathNone THEN 0 ELSE Len(x.match.path)) \in Int
        /\ (IF x.match.method THEN 1 ELSE 0) \in Int
    BY <1>4
  <1>6. -x.created \in Int /\ -x.index \in Int /\ -x.route.ns \in Int /\ -x.route.name \in Int
    BY <1>1
  <1>7. rest \in Seq(Int) /\ Len(rest) = 9
    BY <1>3, <1>4, <1>5, <1>6
  <1> HIDE DEF host, rest
  <1>8. host \o rest \in Seq(Int) /\ Len(host \o rest) = 11
    <2>1. host \o rest \in Seq(Int)
      BY ONLY <1>2, <1>7, ConcatProperties
    <2>2. Len(host \o rest) = Len(host) + Len(rest)
      BY ONLY <1>2, <1>7, ConcatProperties
    <2> QED BY <1>2, <1>7, <2>1, <2>2
  <1>9. Ranking(x) = host \o rest
    BY DEF Ranking, host, rest
  <1>10. \A i \in 1 .. 11 : (host \o rest)[i] \in Int
    BY <1>8, ElementOfSeq
  <1> QED BY <1>8, <1>9, <1>10

\* Where two rankings first differ decides; rules of equal ranking tie.
LEMMA PrecedenceDecides ==
    ASSUME NEW x \in Rules, NEW y \in Rules
    PROVE  \/ morePrecedent(x, y)
           \/ morePrecedent(y, x)
           \/ \A i \in 1 .. 11 : Ranking(x)[i] = Ranking(y)[i]
  <1> DEFINE rx == Ranking(x)
             ry == Ranking(y)
             differ == {i \in 1 .. 11 : rx[i] # ry[i]}
  <1>1. \A i \in 1 .. 11 : rx[i] \in Int /\ ry[i] \in Int
    BY RankingType
  <1>2. /\ morePrecedent(x, y) <=>
              \E i \in 1 .. 11 : rx[i] > ry[i] /\ \A j \in 1 .. i - 1 : rx[j] = ry[j]
        /\ morePrecedent(y, x) <=>
              \E i \in 1 .. 11 : ry[i] > rx[i] /\ \A j \in 1 .. i - 1 : ry[j] = rx[j]
    BY DEF morePrecedent
  <1> HIDE DEF rx, ry
  <1>3. differ = {} => \A i \in 1 .. 11 : rx[i] = ry[i]
    OBVIOUS
  <1>4. ASSUME differ # {}
        PROVE  \E i \in differ : \A j \in differ : i <= j
    <2>1. PICK n \in differ : TRUE
      BY <1>4
    <2>2. \/ 1 \in differ
          \/ 1 \notin differ /\ 2 \in differ
          \/ {1, 2} \cap differ = {} /\ 3 \in differ
          \/ {1, 2, 3} \cap differ = {} /\ 4 \in differ
          \/ {1, 2, 3, 4} \cap differ = {} /\ 5 \in differ
          \/ {1, 2, 3, 4, 5} \cap differ = {} /\ 6 \in differ
          \/ {1, 2, 3, 4, 5, 6} \cap differ = {} /\ 7 \in differ
          \/ {1, 2, 3, 4, 5, 6, 7} \cap differ = {} /\ 8 \in differ
          \/ {1, 2, 3, 4, 5, 6, 7, 8} \cap differ = {} /\ 9 \in differ
          \/ {1, 2, 3, 4, 5, 6, 7, 8, 9} \cap differ = {} /\ 10 \in differ
          \/ {1, 2, 3, 4, 5, 6, 7, 8, 9, 10} \cap differ = {} /\ 11 \in differ
      BY <2>1
    <2> QED BY <2>2
  <1>5. ASSUME NEW i \in differ, \A j \in differ : i <= j
        PROVE  morePrecedent(x, y) \/ morePrecedent(y, x)
    <2>1. \A j \in 1 .. i - 1 : rx[j] = ry[j]
      BY <1>5
    <2>2. rx[i] > ry[i] \/ ry[i] > rx[i]
      BY <1>1
    <2> QED BY <1>2, <2>1, <2>2
  <1> QED BY <1>3, <1>4, <1>5 DEF rx, ry

\* morePrecedent is a strict order, and rules that tie are told apart by no third one.  The
\* comparator of a sort must be one (builtrule.go).
THEOREM PrecedenceIsAnOrder ==
    ASSUME NEW x \in Rules, NEW y \in Rules, NEW z \in Rules
    PROVE  /\ ~morePrecedent(x, x)
           /\ morePrecedent(x, y) => ~morePrecedent(y, x)
           /\ morePrecedent(x, y) /\ morePrecedent(y, z) => morePrecedent(x, z)
           /\ ~morePrecedent(x, y) /\ ~morePrecedent(y, x) =>
                 /\ morePrecedent(x, z) <=> morePrecedent(y, z)
                 /\ morePrecedent(z, x) <=> morePrecedent(z, y)
  <1> DEFINE rx == Ranking(x)
             ry == Ranking(y)
             rz == Ranking(z)
             over(r, s) == \E i \in 1 .. 11 : r[i] > s[i] /\ \A j \in 1 .. i - 1 : r[j] = s[j]
  <1>1. \A i \in 1 .. 11 : rx[i] \in Int /\ ry[i] \in Int /\ rz[i] \in Int
    BY RankingType
  <1>2. /\ morePrecedent(x, x) <=> over(rx, rx)
        /\ morePrecedent(x, y) <=> over(rx, ry)
        /\ morePrecedent(y, x) <=> over(ry, rx)
        /\ morePrecedent(y, z) <=> over(ry, rz)
        /\ morePrecedent(z, y) <=> over(rz, ry)
        /\ morePrecedent(x, z) <=> over(rx, rz)
        /\ morePrecedent(z, x) <=> over(rz, rx)
    BY DEF morePrecedent
  <1> HIDE DEF rx, ry, rz
  <1>3. ~over(rx, rx)
    BY <1>1
  <1>4. over(rx, ry) => ~over(ry, rx)
    <2> SUFFICES ASSUME NEW i \in 1 .. 11, rx[i] > ry[i],
                        \A j \in 1 .. i - 1 : rx[j] = ry[j],
                        NEW k \in 1 .. 11, ry[k] > rx[k],
                        \A j \in 1 .. k - 1 : ry[j] = rx[j]
                 PROVE  FALSE
      OBVIOUS
    <2>1. i < k \/ i = k \/ k < i
      OBVIOUS
    <2> QED BY <1>1, <2>1
  <1>5. over(rx, ry) /\ over(ry, rz) => over(rx, rz)
    <2> SUFFICES ASSUME NEW i \in 1 .. 11, rx[i] > ry[i],
                        \A j \in 1 .. i - 1 : rx[j] = ry[j],
                        NEW k \in 1 .. 11, ry[k] > rz[k],
                        \A j \in 1 .. k - 1 : ry[j] = rz[j]
                 PROVE  over(rx, rz)
      OBVIOUS
    <2>1. CASE i <= k
      <3>1. rx[i] > rz[i]
        BY <1>1, <2>1
      <3>2. \A j \in 1 .. i - 1 : rx[j] = rz[j]
        BY <2>1
      <3> QED BY <3>1, <3>2
    <2>2. CASE k < i
      <3>1. rx[k] > rz[k]
        BY <1>1, <2>2
      <3>2. \A j \in 1 .. k - 1 : rx[j] = rz[j]
        BY <2>2
      <3> QED BY <3>1, <3>2
    <2> QED BY <2>1, <2>2
  <1>6. ASSUME \A i \in 1 .. 11 : rx[i] = ry[i]
        PROVE  (over(rx, rz) <=> over(ry, rz)) /\ (over(rz, rx) <=> over(rz, ry))
    <2>1. \A i \in 1 .. 11 : \A j \in 1 .. i - 1 : rx[j] = ry[j]
      BY <1>6
    <2> QED BY <1>6, <2>1
  <1>7. ~morePrecedent(x, y) /\ ~morePrecedent(y, x) => \A i \in 1 .. 11 : rx[i] = ry[i]
    BY PrecedenceDecides DEF rx, ry
  <1> HIDE DEF over
  <1> QED BY <1>2, <1>3, <1>4, <1>5, <1>6, <1>7

(* The ingress list. *)

\* All rules of the attached routes, and a table that lists them: HTTP and gRPC rules before
\* the others and no rule after one it precedes.
AllRules == UNION {RouteRules(r) : r \in Attached}
Precedes(x, y) ==
    y.route.kind \in L7 => x.route.kind \in L7 /\ ~morePrecedent(y, x)
Tabled(t) ==
    /\ t \in Seq(Rules) /\ Range(t) = AllRules
    /\ \A i, j \in 1 .. Len(t) : i < j => Precedes(t[i], t[j])

\* SortByPrecedence keeps the rules and leaves none after one that it precedes.
LEMMA SortByPrecedenceSorts ==
    ASSUME NEW rules \in Seq(Rules)
    PROVE  /\ SortByPrecedence(rules) \in Seq(Rules)
           /\ Range(SortByPrecedence(rules)) = Range(rules)
           /\ \A i, j \in 1 .. Len(SortByPrecedence(rules)) :
                 i < j => ~morePrecedent(SortByPrecedence(rules)[j], SortByPrecedence(rules)[i])
  <1> DEFINE D == 1 .. Len(rules)
             before == {p \in D \X D :
                          \/ morePrecedent(rules[p[1]], rules[p[2]])
                          \/ ~morePrecedent(rules[p[2]], rules[p[1]]) /\ p[1] < p[2]}
             order == Listing(D, before)
             sorted == [k \in D |-> rules[order[k]]]
  <1>1. Len(rules) \in Nat /\ DOMAIN rules = D /\ \A i \in D : rules[i] \in Rules
    BY LenProperties, ElementOfSeq
  <1>2. IsFiniteSet(D) /\ Cardinality(D) = Len(rules)
    <2>1. /\ IsFiniteSet(D)
          /\ Cardinality(D) = IF 1 > Len(rules) THEN 0 ELSE Len(rules) - 1 + 1
      BY <1>1, FS_Interval
    <2> QED BY <1>1, <2>1
  <1>3. ASSUME NEW i \in D, NEW j \in D
        PROVE  <<i, j>> \in before <=>
               \/ morePrecedent(rules[i], rules[j])
               \/ ~morePrecedent(rules[j], rules[i]) /\ i < j
    OBVIOUS
  <1> HIDE DEF before
  <1>4. \A i \in D : <<i, i>> \notin before
    <2> SUFFICES ASSUME NEW i \in D PROVE <<i, i>> \notin before
      OBVIOUS
    <2>1. ~morePrecedent(rules[i], rules[i])
      BY <1>1, PrecedenceIsAnOrder
    <2> QED BY <1>1, <1>3, <2>1
  <1>5. \A i, j \in D : i # j => <<i, j>> \in before \/ <<j, i>> \in before
    <2> SUFFICES ASSUME NEW i \in D, NEW j \in D, i # j
                 PROVE  <<i, j>> \in before \/ <<j, i>> \in before
      OBVIOUS
    <2>1. i < j \/ j < i
      BY <1>1
    <2> QED BY <1>3, <2>1
  <1>6. \A i, j, k \in D : <<i, j>> \in before /\ <<j, k>> \in before => <<i, k>> \in before
    <2> SUFFICES ASSUME NEW i \in D, NEW j \in D, NEW k \in D,
                        <<i, j>> \in before, <<j, k>> \in before
                 PROVE  <<i, k>> \in before
      OBVIOUS
    <2> DEFINE mp(a, b) == morePrecedent(rules[a], rules[b])
    <2>1. rules[i] \in Rules /\ rules[j] \in Rules /\ rules[k] \in Rules
      BY <1>1
    <2>2. /\ mp(i, j) => ~mp(j, i)
          /\ mp(j, k) => ~mp(k, j)
          /\ mp(i, k) => ~mp(k, i)
          /\ mp(i, j) /\ mp(j, k) => mp(i, k)
          /\ mp(k, i) /\ mp(i, j) => mp(k, j)
          /\ mp(j, k) /\ mp(k, i) => mp(j, i)
      BY <2>1, PrecedenceIsAnOrder
    <2>3. /\ ~mp(i, j) /\ ~mp(j, i) => (mp(i, k) <=> mp(j, k)) /\ (mp(k, i) <=> mp(k, j))
          /\ ~mp(j, k) /\ ~mp(k, j) => (mp(j, i) <=> mp(k, i)) /\ (mp(i, j) <=> mp(i, k))
      BY <2>1, PrecedenceIsAnOrder
    <2> HIDE DEF mp
    <2>4. /\ mp(i, j) \/ (~mp(j, i) /\ i < j)
          /\ mp(j, k) \/ (~mp(k, j) /\ j < k)
      BY <1>3 DEF mp
    <2>5. i < j /\ j < k => i < k
      BY <1>1
    <2>6. mp(i, k) \/ (~mp(k, i) /\ i < k)
      BY <2>2, <2>3, <2>4, <2>5
    <2> QED BY <1>3, <2>6 DEF mp
  <1>7. /\ order \in [D -> D]
        /\ \A i \in D : \E k \in D : order[k] = i
        /\ \A i, j \in D : i < j => <<order[i], order[j]>> \in before
    BY <1>2, <1>4, <1>5, <1>6, ListingSorts
  <1> HIDE DEF order
  <1>8. sorted \in [D -> Rules]
    BY <1>1, <1>7
  <1>9. sorted \in Seq(Rules) /\ Len(sorted) = Len(rules) /\ DOMAIN sorted = D
    BY <1>1, <1>8, SeqDef, LenProperties
  <1>10. \A k \in D : sorted[k] = rules[order[k]]
    OBVIOUS
  <1>11. SortByPrecedence(rules) = sorted
    BY DEF SortByPrecedence, order, before
  <1> HIDE DEF sorted
  <1>12. Range(sorted) = Range(rules)
    <2>1. Range(sorted) = {sorted[k] : k \in D} /\ Range(rules) = {rules[i] : i \in D}
      BY <1>1, <1>9 DEF Range
    <2>2. \A k \in D : order[k] \in D
      BY <1>7
    <2>3. {sorted[k] : k \in D} \subseteq {rules[i] : i \in D}
      BY <1>10, <2>2
    <2>4. ASSUME NEW i \in D PROVE rules[i] \in {sorted[k] : k \in D}
      <3>1. PICK k \in D : order[k] = i
        BY <1>7
      <3>2. sorted[k] = rules[i]
        BY <1>10, <3>1
      <3> QED BY <3>2
    <2> QED BY <2>1, <2>3, <2>4
  <1>13. ASSUME NEW i \in D, NEW j \in D, i < j
         PROVE  ~morePrecedent(sorted[j], sorted[i])
    <2>1. <<order[i], order[j]>> \in before /\ order[i] \in D /\ order[j] \in D
      BY <1>7, <1>13
    <2>2. \/ morePrecedent(rules[order[i]], rules[order[j]])
          \/ ~morePrecedent(rules[order[j]], rules[order[i]])
      BY <1>3, <2>1
    <2>3. morePrecedent(rules[order[i]], rules[order[j]])
          => ~morePrecedent(rules[order[j]], rules[order[i]])
      BY <1>1, <2>1, PrecedenceIsAnOrder
    <2> QED BY <1>10, <2>2, <2>3
  <1> QED BY <1>9, <1>11, <1>12, <1>13

\* What holds of the elements of two sequences holds of their concatenation.
LEMMA ConcatRange ==
    ASSUME NEW S, NEW s \in Seq(S), NEW t \in Seq(S)
    PROVE  s \o t \in Seq(S) /\ Range(s \o t) = Range(s) \cup Range(t)
  <1>1. /\ s \o t \in Seq(S) /\ Len(s \o t) = Len(s) + Len(t)
        /\ \A i \in 1 .. Len(s) + Len(t) :
              (s \o t)[i] = IF i <= Len(s) THEN s[i] ELSE t[i - Len(s)]
    BY ConcatProperties
  <1>2. /\ Len(s) \in Nat /\ Len(t) \in Nat
        /\ DOMAIN s = 1 .. Len(s) /\ DOMAIN t = 1 .. Len(t)
        /\ DOMAIN (s \o t) = 1 .. Len(s) + Len(t)
    BY <1>1, LenProperties
  <1> DEFINE u == s \o t
  <1>3. \A i \in 1 .. Len(s) : i \in DOMAIN u /\ u[i] = s[i]
    BY <1>1, <1>2
  <1>4. \A i \in 1 .. Len(t) : i + Len(s) \in DOMAIN u /\ u[i + Len(s)] = t[i]
    BY <1>1, <1>2
  <1>5. \A i \in DOMAIN u : \/ i \in DOMAIN s /\ u[i] = s[i]
                            \/ i - Len(s) \in DOMAIN t /\ u[i] = t[i - Len(s)]
    BY <1>1, <1>2
  <1> HIDE DEF u
  <1>6. Range(u) = Range(s) \cup Range(t)
    BY <1>2, <1>3, <1>4, <1>5 DEF Range
  <1> QED BY <1>1, <1>6 DEF u

\* The order of the tables' parts: a table stays in order when other rules follow it.
LEMMA ConcatPrecedes ==
    ASSUME NEW s \in Seq(Rules), NEW t \in Seq(Rules),
           \A i, j \in 1 .. Len(s) : i < j => Precedes(s[i], s[j]),
           \A x \in Range(t) : x.route.kind \notin L7
    PROVE  \A i, j \in 1 .. Len(s \o t) : i < j => Precedes((s \o t)[i], (s \o t)[j])
  <1>1. /\ Len(s \o t) = Len(s) + Len(t) /\ Len(s) \in Nat /\ Len(t) \in Nat
        /\ \A i \in 1 .. Len(s) + Len(t) :
              (s \o t)[i] = IF i <= Len(s) THEN s[i] ELSE t[i - Len(s)]
        /\ DOMAIN t = 1 .. Len(t)
    BY ConcatProperties, LenProperties
  <1> SUFFICES ASSUME NEW i \in 1 .. Len(s \o t), NEW j \in 1 .. Len(s \o t), i < j
               PROVE  Precedes((s \o t)[i], (s \o t)[j])
    OBVIOUS
  <1>2. CASE j <= Len(s)
    <2>1. i \in 1 .. Len(s) /\ j \in 1 .. Len(s)
      BY <1>1, <1>2
    <2>2. (s \o t)[i] = s[i] /\ (s \o t)[j] = s[j]
      BY <1>1, <2>1
    <2> QED BY <2>1, <2>2
  <1>3. CASE ~(j <= Len(s))
    <2>1. j - Len(s) \in DOMAIN t /\ (s \o t)[j] = t[j - Len(s)]
      BY <1>1, <1>3
    <2>2. (s \o t)[j] \in Range(t)
      BY <2>1 DEF Range
    <2> QED BY <2>2 DEF Precedes
  <1> QED BY <1>2, <1>3

\* The rules apply builds from any listing of the attached routes are a table of them.
LEMMA IngressIsTabled ==
    ASSUME \A r \in Routes : IsSpec(r, routes[r]), listeners \in ListenerSets,
           NEW http \in Listed("HTTPRoute"), NEW grpc \in Listed("GRPCRoute"),
           NEW tls \in Listed("TLSRoute"), NEW tcp \in Listed("TCPRoute")
    PROVE  Tabled(Ingress(http, grpc, tls, tcp))
  <1> DEFINE of(kind) == {r \in Attached : r.kind = kind}
             rulesOf(kind) == UNION {RouteRules(r) : r \in of(kind)}
  <1>1. ASSUME NEW kind, NEW listed \in Listed(kind)
        PROVE  /\ Build(listed) \in Seq(Rules) /\ Range(Build(listed)) = rulesOf(kind)
               /\ \A x \in Range(Build(listed)) : x.route.kind = kind
    <2>1. of(kind) \subseteq Routes /\ IsFiniteSet(of(kind))
      <3>1. of(kind) \subseteq Routes
        BY DEF Attached
      <3> QED BY <3>1, RouteAssumption, FS_Subset
    <2>2. listed \in Seq(of(kind)) /\ Range(listed) = of(kind)
      BY <2>1, SetToSeqsEnumerate DEF Listed
    <2>3. listed \in Seq(Routes)
      BY <2>1, <2>2, SeqMonotonic
    <2>4. Build(listed) \in Seq(Rules) /\ Range(Build(listed)) = rulesOf(kind)
      BY <2>2, <2>3, BuildsRouteRules
    <2>5. \A x \in rulesOf(kind) : x.route.kind = kind
      BY <2>1, RouteRulesType
    <2> QED BY <2>4, <2>5
  <1> DEFINE l7 == SortByPrecedence(Build(http) \o Build(grpc))
             table7 == l7 \o Build(tls)
  <1>2. /\ l7 \in Seq(Rules) /\ Range(l7) = rulesOf("HTTPRoute") \cup rulesOf("GRPCRoute")
        /\ \A i, j \in 1 .. Len(l7) : i < j => Precedes(l7[i], l7[j])
    <2> DEFINE built == Build(http) \o Build(grpc)
    <2>1. built \in Seq(Rules) /\ Range(built) = rulesOf("HTTPRoute") \cup rulesOf("GRPCRoute")
      BY <1>1, ConcatRange
    <2>2. \A x \in Range(built) : x.route.kind \in L7
      <3>1. \A x \in rulesOf("HTTPRoute") : x.route.kind = "HTTPRoute"
        BY <1>1
      <3>2. \A x \in rulesOf("GRPCRoute") : x.route.kind = "GRPCRoute"
        BY <1>1
      <3> QED BY <2>1, <3>1, <3>2 DEF L7
    <2> HIDE DEF built
    <2>3. /\ SortByPrecedence(built) \in Seq(Rules)
          /\ Range(SortByPrecedence(built)) = Range(built)
          /\ \A i, j \in 1 .. Len(SortByPrecedence(built)) :
                i < j => ~morePrecedent(SortByPrecedence(built)[j], SortByPrecedence(built)[i])
      BY <2>1, SortByPrecedenceSorts
    <2>4. \A i \in 1 .. Len(SortByPrecedence(built)) :
             SortByPrecedence(built)[i].route.kind \in L7
      BY <2>2, <2>3, LenProperties DEF Range
    <2> QED BY <2>1, <2>3, <2>4 DEF Precedes, built
  <1> HIDE DEF l7
  <1>3. /\ table7 \in Seq(Rules)
        /\ Range(table7) = rulesOf("HTTPRoute") \cup rulesOf("GRPCRoute") \cup rulesOf("TLSRoute")
        /\ \A i, j \in 1 .. Len(table7) : i < j => Precedes(table7[i], table7[j])
    <2>1. \A x \in Range(Build(tls)) : x.route.kind \notin L7
      BY <1>1 DEF L7
    <2>2. Build(tls) \in Seq(Rules) /\ Range(Build(tls)) = rulesOf("TLSRoute")
      BY <1>1
    <2>3. /\ table7 \in Seq(Rules) /\ Range(table7) = Range(l7) \cup Range(Build(tls))
      BY <1>2, <2>2, ConcatRange
    <2>4. \A i, j \in 1 .. Len(table7) : i < j => Precedes(table7[i], table7[j])
      BY <1>2, <2>1, <2>2, ConcatPrecedes
    <2> QED BY <1>2, <2>2, <2>3, <2>4
  <1> HIDE DEF table7
  <1>4. /\ table7 \o Build(tcp) \in Seq(Rules)
        /\ Range(table7 \o Build(tcp)) = rulesOf("HTTPRoute") \cup rulesOf("GRPCRoute")
                                         \cup rulesOf("TLSRoute") \cup rulesOf("TCPRoute")
        /\ \A i, j \in 1 .. Len(table7 \o Build(tcp)) :
              i < j => Precedes((table7 \o Build(tcp))[i], (table7 \o Build(tcp))[j])
    <2>1. \A x \in Range(Build(tcp)) : x.route.kind \notin L7
      BY <1>1 DEF L7
    <2>2. Build(tcp) \in Seq(Rules) /\ Range(Build(tcp)) = rulesOf("TCPRoute")
      BY <1>1
    <2> DEFINE full == table7 \o Build(tcp)
    <2>3. /\ full \in Seq(Rules) /\ Range(full) = Range(table7) \cup Range(Build(tcp))
      BY <1>3, <2>2, ConcatRange
    <2>4. \A i, j \in 1 .. Len(full) : i < j => Precedes(full[i], full[j])
      BY <1>3, <2>1, <2>2, ConcatPrecedes
    <2> QED BY <1>3, <2>2, <2>3, <2>4
  <1>5. Attached = of("HTTPRoute") \cup of("GRPCRoute") \cup of("TLSRoute") \cup of("TCPRoute")
    <2>1. \A r \in Routes : r.kind \in RouteKinds
      BY RouteAssumption
    <2> QED BY <2>1 DEF Attached, RouteKinds
  <1>6. AllRules = rulesOf("HTTPRoute") \cup rulesOf("GRPCRoute")
                   \cup rulesOf("TLSRoute") \cup rulesOf("TCPRoute")
    BY <1>5 DEF AllRules
  <1>7. Ingress(http, grpc, tls, tcp) = table7 \o Build(tcp)
    BY DEF Ingress, table7, l7
  <1> QED BY <1>4, <1>6, <1>7 DEF Tabled

(* Listeners. *)

\* The listeners' part of the state: what the pass has read of routes and listeners is what
\* there is unless the Gateway is queued again, and so is what it has reported.
Looked ==
    ~queued /\ w.pc # "idle" => w.attached = Attached /\ w.listeners = listeners
ReportsAreCurrent ==
    ~queued /\ w.pc = "idle" =>
        status.listeners = {ListenerStatus(l, Attached) : l \in listeners}
ListenerInv ==
    /\ listeners \in ListenerSets /\ queued \in BOOLEAN
    /\ DOMAIN status = {"routes", "listeners"}
    /\ DOMAIN w = {"pc", "rules", "seen", "attached", "listeners", "failed"}
    /\ w.pc \in {"idle", "push", "routes", "gateway"} /\ w.failed \in BOOLEAN
    /\ DOMAIN routes = Routes
    /\ Looked /\ ReportsAreCurrent
-----------------------------------------------------------------------------
(* Attachment. *)

\* A route without parentRefs is not attached, whatever else it says.
LEMMA NoParentsNoHosts ==
    ASSUME NEW r, NEW spec, spec.parents = {}
    PROVE  routeAttachmentHostnames(r, spec) = {}
  BY DEF routeAttachmentHostnames, parentRefsSelectListener

\* A route is attached if and only if it is so through one of the listeners.
LEMMA AttachedThrough ==
    Attached = UNION {Through(l) : l \in listeners}
  <1> DEFINE selected(r) == {l \in listeners : /\ parentRefsSelectListener(routes[r], l)
                                               /\ isKindAllowed(l, r.kind)
                                               /\ isNamespaceAllowed(l, r.ns)}
             hosts(r) == UNION {intersectHostnames(routes[r].hosts, l.host) : l \in selected(r)}
  <1>1. ASSUME NEW r \in Routes
        PROVE  routeAttachmentHostnames(r, routes[r]) # {} <=> hosts(r) # {}
    BY DEF routeAttachmentHostnames
  <1>2. ASSUME NEW r \in Routes
        PROVE  hosts(r) # {} <=> \E l \in listeners : r \in Through(l)
    BY DEF Through
  <1> HIDE DEF hosts
  <1>3. \A r \in Routes : r \in Attached <=> \E l \in listeners : r \in Through(l)
    BY <1>1, <1>2 DEF Attached
  <1>4. Attached \subseteq Routes /\ \A l \in listeners : Through(l) \subseteq Routes
    BY DEF Attached, Through
  <1> QED BY <1>3, <1>4

\* An edit that is not mapped to the Gateway attaches and detaches nothing.
LEMMA UnmappedEdit ==
    ASSUME NEW r \in Routes, NEW spec, DOMAIN routes = Routes,
           routes' = [routes EXCEPT ![r] = spec], UNCHANGED listeners,
           ~routeToGateways(routes[r], spec)
    PROVE  Attached' = Attached
  <1>1. routes'[r] = spec /\ \A q \in Routes \ {r} : routes'[q] = routes[q]
    OBVIOUS
  <1>2. routes[r].parents = {} /\ spec.parents = {}
    BY DEF routeToGateways
  <1>3. routeAttachmentHostnames(r, routes[r]) = {}
    BY <1>2, NoParentsNoHosts
  <1>4. routeAttachmentHostnames(r, spec)' = {}
    BY <1>2 DEF routeAttachmentHostnames, parentRefsSelectListener
  <1>5. \A q \in Routes \ {r} :
           routeAttachmentHostnames(q, routes[q])' = routeAttachmentHostnames(q, routes[q])
    BY <1>1 DEF routeAttachmentHostnames
  <1>6. \A q \in Routes :
           routeAttachmentHostnames(q, routes[q])' # {} <=>
           routeAttachmentHostnames(q, routes[q]) # {}
    BY <1>1, <1>3, <1>4, <1>5
  <1> QED BY <1>6 DEF Attached
-----------------------------------------------------------------------------
(* Listener statuses. *)

\* The worker is idle again with an error.
LEMMA FailsIsSafe ==
    ASSUME ListenerInv, Fails, UNCHANGED <<routes, listeners, status>>
    PROVE  ListenerInv'
  BY DEF Fails, ListenerInv, Idle, Looked, ReportsAreCurrent

\* What the controller finds when it starts is not reported yet, but queued.
LEMMA ListenerInit == Init => ListenerInv
  BY DEF Init, ListenerInv, Idle, Looked, ReportsAreCurrent

\* Every step preserves the invariant.
LEMMA ListenerStep == ListenerInv /\ [Next]_vars => ListenerInv'
  <1> SUFFICES ASSUME ListenerInv, [Next]_vars PROVE ListenerInv'
    OBVIOUS
  <1>1. CASE CollectRoutes
    <2>1. CASE Fails
      BY <1>1, <2>1, FailsIsSafe DEF CollectRoutes
    <2>2. CASE ~Fails
      <3>1. PICK rules : w' = [Idle EXCEPT !.pc = "push", !.rules = rules,
                                           !.seen = routes, !.attached = Attached,
                                           !.listeners = listeners]
        BY <1>1, <2>2 DEF CollectRoutes
      <3>2. queued' = FALSE /\ UNCHANGED <<routes, listeners, table, status>>
        BY <1>1, <2>2 DEF CollectRoutes
      <3>3. /\ w'.pc = "push" /\ w'.attached = Attached /\ w'.listeners = listeners
            /\ w'.failed = FALSE
            /\ DOMAIN w' = {"pc", "rules", "seen", "attached", "listeners", "failed"}
        BY <3>1 DEF Idle
      <3>4. Attached' = Attached
        BY <3>2 DEF Attached, routeAttachmentHostnames
      <3> QED BY <3>2, <3>3, <3>4 DEF ListenerInv, Looked, ReportsAreCurrent
    <2> QED BY <2>1, <2>2
  <1>2. CASE PushConfig
    <2>1. CASE Fails
      BY <1>2, <2>1, FailsIsSafe DEF PushConfig
    <2>2. CASE w' = [w EXCEPT !.pc = "routes"] /\ UNCHANGED queued
      <3>1. UNCHANGED <<routes, listeners, status>> /\ w.pc = "push"
        BY <1>2 DEF PushConfig
      <3>2. Attached' = Attached
        BY <3>1 DEF Attached, routeAttachmentHostnames
      <3> QED BY <2>2, <3>1, <3>2 DEF ListenerInv, Looked, ReportsAreCurrent
    <2> QED BY <1>2, <2>1, <2>2 DEF PushConfig
  <1>3. CASE PatchRouteStatuses
    <2>1. UNCHANGED <<routes, listeners, queued>> /\ w.pc = "routes"
      BY <1>3 DEF PatchRouteStatuses
    <2>2. PICK failed \in BOOLEAN :
             w' = [w EXCEPT !.pc = "gateway", !.rules = <<>>, !.seen = <<>>, !.failed = failed]
      BY <1>3 DEF PatchRouteStatuses
    <2>3. \E reports : status' = [status EXCEPT !.routes = reports]
      BY <1>3 DEF PatchRouteStatuses
    <2>4. DOMAIN status' = DOMAIN status
      BY <2>3
    <2>5. /\ w'.pc = "gateway" /\ w'.attached = w.attached /\ w'.listeners = w.listeners
          /\ w'.failed = failed /\ DOMAIN w' = DOMAIN w
      BY <2>2 DEF ListenerInv
    <2>6. Attached' = Attached
      BY <2>1 DEF Attached, routeAttachmentHostnames
    <2> QED BY <2>1, <2>4, <2>5, <2>6 DEF ListenerInv, Looked, ReportsAreCurrent
  <1>4. CASE PatchGatewayStatus
    <2>1. UNCHANGED <<routes, listeners>> /\ w.pc = "gateway"
      BY <1>4 DEF PatchGatewayStatus
    <2>2. Attached' = Attached
      BY <2>1 DEF Attached, routeAttachmentHostnames
    <2>3. CASE Fails /\ UNCHANGED status
      BY <2>1, <2>3, FailsIsSafe
    <2>4. CASE listeners # w.listeners /\ w' = Idle /\ queued' = TRUE /\ UNCHANGED status
      BY <2>1, <2>4 DEF ListenerInv, Idle, Looked, ReportsAreCurrent
    <2>5. CASE /\ listeners = w.listeners
               /\ status' = [status EXCEPT !.listeners =
                                {ListenerStatus(l, w.attached) : l \in w.listeners}]
               /\ queued' = (queued \/ w.failed) /\ w' = Idle
      <3>1. /\ status'.listeners = {ListenerStatus(l, w.attached) : l \in listeners}
            /\ DOMAIN status' = DOMAIN status
        BY <2>5 DEF ListenerInv
      <3>2. ~queued' => w.attached = Attached
        BY <2>1, <2>5 DEF ListenerInv, Looked
      <3> QED BY <2>1, <2>2, <2>5, <3>1, <3>2 DEF ListenerInv, Idle, Looked, ReportsAreCurrent
    <2> QED BY <1>4, <2>3, <2>4, <2>5 DEF PatchGatewayStatus
  <1>5. ASSUME NEW r \in Routes, NEW spec \in RouteSpecs[r], EditRoute(r, spec)
        PROVE  ListenerInv'
    <2>1. /\ routes' = [routes EXCEPT ![r] = spec]
          /\ queued' = (queued \/ routeToGateways(routes[r], spec))
          /\ UNCHANGED <<listeners, w>>
          /\ status' = IF spec = NoRoute THEN [status EXCEPT !.routes[r] = "none"] ELSE status
      BY <1>5 DEF EditRoute, Edits
    <2>2. DOMAIN routes' = Routes /\ DOMAIN status' = DOMAIN status
          /\ status'.listeners = status.listeners
      BY <2>1 DEF ListenerInv
    <2>3. ~queued' => Attached' = Attached
      BY <2>1, UnmappedEdit DEF ListenerInv
    <2> QED BY <2>1, <2>2, <2>3 DEF ListenerInv, Looked, ReportsAreCurrent
  <1>6. ASSUME NEW ls \in ListenerSets, EditListeners(ls)
        PROVE  ListenerInv'
    BY <1>6 DEF EditListeners, Edits, ListenerInv, Looked, ReportsAreCurrent
  <1>7. CASE UNCHANGED vars
    <2>1. UNCHANGED <<routes, listeners, queued, w, status>>
      BY <1>7 DEF vars
    <2>2. Attached' = Attached
      BY <2>1 DEF Attached, routeAttachmentHostnames
    <2> QED BY <2>1, <2>2 DEF ListenerInv, Looked, ReportsAreCurrent
  <1> QED BY <1>1, <1>2, <1>3, <1>4, <1>5, <1>6, <1>7 DEF Next

\* A listener that leaves its kinds to its protocol counts all routes attached through it.
LEMMA CountsThrough ==
    ASSUME NEW l \in listeners, l.kinds = {}
    PROVE  LET counted == {r \in Attached : r.kind \in supportedKindsForProtocol(l.protocol)} IN
           /\ Through(l) \subseteq counted /\ IsFiniteSet(counted) /\ IsFiniteSet(Through(l))
           /\ Cardinality(Through(l)) \in Nat /\ Cardinality(counted) \in Nat
           /\ Cardinality(Through(l)) <= Cardinality(counted)
           /\ listeners = {l} => counted = Through(l)
  <1> DEFINE counted == {r \in Attached : r.kind \in supportedKindsForProtocol(l.protocol)}
  <1>1. defaultKindForProtocol(l.protocol) \subseteq supportedKindsForProtocol(l.protocol)
    BY DEF defaultKindForProtocol, supportedKindsForProtocol
  <1>2. Through(l) \subseteq counted
    BY <1>1, AttachedThrough DEF Through, isKindAllowed
  <1>3. counted \subseteq Routes
    BY DEF Attached
  <1>4. IsFiniteSet(counted)
    BY <1>3, RouteAssumption, FS_Subset
  <1>5. IsFiniteSet(Through(l)) /\ Cardinality(Through(l)) <= Cardinality(counted)
    BY <1>2, <1>4, FS_Subset
  <1>6. ASSUME listeners = {l} PROVE counted = Through(l)
    <2>1. Attached = Through(l)
      BY <1>6, AttachedThrough
    <2> QED BY <1>2, <2>1
  <1>7. Cardinality(Through(l)) \in Nat /\ Cardinality(counted) \in Nat
    BY <1>4, <1>5, FS_CardinalityType
  <1> QED BY <1>2, <1>4, <1>5, <1>6, <1>7

\* ListenersAreCurrent: at rest the Gateway reports on exactly its listeners, and none that
\* leaves its kinds to its protocol understates the routes attached through it.
THEOREM ListenersAreReported == Spec => []ListenersAreCurrent
  <1>1. ListenerInv => ListenersAreCurrent
    <2> SUFFICES ASSUME ListenerInv, Quiet
                 PROVE  /\ {s.name : s \in status.listeners} = {l.name : l \in listeners}
                        /\ \A l \in listeners : l.kinds = {} =>
                              /\ Reported(l).count >= Cardinality(Through(l))
                              /\ listeners = {l} => Reported(l).count = Cardinality(Through(l))
      BY DEF ListenersAreCurrent
    <2>1. /\ listeners \in ListenerSets
          /\ status.listeners = {ListenerStatus(l, Attached) : l \in listeners}
      BY DEF ListenerInv, ReportsAreCurrent, Quiet
    <2>2. \A l : ListenerStatus(l, Attached).name = l.name
      BY DEF ListenerStatus
    <2>3. {s.name : s \in status.listeners} = {l.name : l \in listeners}
      BY <2>1, <2>2
    <2>4. ASSUME NEW l \in listeners PROVE Reported(l) = ListenerStatus(l, Attached)
      <3>1. \A m \in listeners : m.name = l.name => m = l
        BY <2>1, RouteAssumption
      <3>2. \A s \in status.listeners : s.name = l.name <=> s = ListenerStatus(l, Attached)
        BY <2>1, <2>2, <3>1
      <3>3. ListenerStatus(l, Attached) \in status.listeners
        BY <2>1
      <3> QED BY <3>2, <3>3 DEF Reported
    <2>5. ASSUME NEW l \in listeners, l.kinds = {}
          PROVE  /\ Reported(l).count >= Cardinality(Through(l))
                 /\ listeners = {l} => Reported(l).count = Cardinality(Through(l))
      <3>1. Reported(l).count
            = Cardinality({r \in Attached : r.kind \in supportedKindsForProtocol(l.protocol)})
        BY <2>4 DEF ListenerStatus, computeListenerCounts
      <3> QED BY <2>5, <3>1, CountsThrough
    <2> QED BY <2>3, <2>5
  <1> QED BY <1>1, ListenerInit, ListenerStep, PTL DEF Spec

(* The table of attached routes. *)

\* What the status of an attached route has to say.
Report(r) ==
    IF <<r.kind, r.name>> \in unsupportedRoutes(AllRules) THEN "partial" ELSE "accepted"

\* Unless the Gateway is queued again, the rules that were built are those of all attached
\* routes, so are those that were pushed, and so is what was reported of them.
Built == ~queued /\ w.pc \in {"push", "routes"} => Tabled(w.rules)
Pushed == ~queued /\ w.pc # "push" => Tabled(table)
Reports ==
    ~queued /\ (w.pc = "idle" \/ (w.pc = "gateway" /\ ~w.failed)) =>
        \A r \in Attached : status.routes[r] = Report(r)
TableInv == ListenerInv /\ TypeOK /\ Built /\ Pushed /\ Reports

\* The specs of routes are well-formed.
LEMMA SpecsAreSpecs == ASSUME TypeOK PROVE \A r \in Routes : IsSpec(r, routes[r])
  BY RouteAssumption DEF TypeOK

\* The rules to be built depend on routes and listeners alone.
LEMMA SameRules ==
    ASSUME UNCHANGED <<routes, listeners>>
    PROVE  Attached' = Attached /\ AllRules' = AllRules
  <1>1. \A r : RuleHosts(r)' = RuleHosts(r)
    BY DEF RuleHosts, routeAttachmentHostnames
  <1>2. \A r, i : RuleMatches(r, i)' = RuleMatches(r, i)
    BY DEF RuleMatches
  <1>3. \A r, i, h, m : BuiltRule(r, i, h, m)' = BuiltRule(r, i, h, m)
    BY DEF BuiltRule
  <1>4. Attached' = Attached
    BY DEF Attached, routeAttachmentHostnames
  <1>5. \A r : RouteRules(r)' = RouteRules(r)
    BY <1>1, <1>2, <1>3 DEF RouteRules
  <1> QED BY <1>4, <1>5 DEF AllRules

\* So an edit that is not mapped to the Gateway changes none of them.
LEMMA UnmappedRules ==
    ASSUME NEW r \in Routes, NEW spec, DOMAIN routes = Routes,
           routes' = [routes EXCEPT ![r] = spec], UNCHANGED listeners,
           ~routeToGateways(routes[r], spec)
    PROVE  Attached' = Attached /\ r \notin Attached /\ AllRules' = AllRules
  <1>1. Attached' = Attached
    BY UnmappedEdit
  <1>2. r \notin Attached
    BY NoParentsNoHosts DEF routeToGateways, Attached
  <1>3. \A q \in Routes \ {r} : routes'[q] = routes[q]
    OBVIOUS
  <1>4. Attached \subseteq Routes
    BY DEF Attached
  <1>5. ASSUME NEW q \in Attached PROVE RouteRules(q)' = RouteRules(q)
    <2>1. routes'[q] = routes[q]
      BY <1>2, <1>3, <1>4
    <2>2. RuleHosts(q)' = RuleHosts(q)
      BY <2>1 DEF RuleHosts, routeAttachmentHostnames
    <2>3. ASSUME NEW i PROVE RuleMatches(q, i)' = RuleMatches(q, i)
      <3>1. routes'[q].rules[i] = routes[q].rules[i]
        BY <2>1
      <3> QED BY ONLY <3>1 DEF RuleMatches
    <2>4. \A i, h, m : BuiltRule(q, i, h, m)' = BuiltRule(q, i, h, m)
      BY <2>1 DEF BuiltRule
    <2> QED BY <2>1, <2>2, <2>3, <2>4 DEF RouteRules
  <1> QED BY <1>1, <1>2, <1>5 DEF AllRules
-----------------------------------------------------------------------------
(* Tables and statuses. *)

\* What the controller finds when it starts has no rules yet, but the Gateway is queued.
LEMMA TableInit == Init => TableInv
  <1> SUFFICES ASSUME Init PROVE TableInv
    OBVIOUS
  <1>1. ListenerInv
    BY ListenerInit
  <1>2. \A r \in Routes : routes[r] \in RouteSpecs[r]
    BY DEF Init
  <1>3. /\ w.pc = "idle" /\ w.rules = <<>> /\ w.attached = {} /\ w.failed = FALSE
        /\ table = <<>> /\ queued = TRUE /\ listeners \in ListenerSets
    BY DEF Init, Idle
  <1>4. /\ status.routes = [r \in Routes |-> "none"] /\ status.listeners = {}
        /\ used = [edits |-> 0, failures |-> 0]
    BY DEF Init
  <1>5. <<>> \in Seq(Rules)
    BY EmptySeq
  <1>6. TypeOK
    BY <1>2, <1>3, <1>4, <1>5 DEF TypeOK
  <1> QED BY <1>1, <1>3, <1>6 DEF TableInv, Built, Pushed, Reports

\* A failed pass leaves the Gateway queued and the worker idle.
LEMMA FailedIsTabled ==
    ASSUME TableInv, Fails, UNCHANGED <<routes, listeners, status>>, table' \in {table, w.rules},
           ListenerInv'
    PROVE  TableInv'
  <1>1. w'.pc = "idle" /\ w'.rules = <<>> /\ w'.attached = {} /\ w'.failed = FALSE
        /\ queued' = TRUE
    BY DEF Fails, Idle
  <1>2. used' \in [edits : Nat, failures : Nat]
    <2>1. used \in [edits : Nat, failures : Nat]
      BY DEF TableInv, TypeOK
    <2>2. used' = [used EXCEPT !.failures = @ + 1]
      BY DEF Fails, SpendsFailure
    <2>3. used.failures + 1 \in Nat
      BY <2>1
    <2> QED BY <2>1, <2>2, <2>3
  <1>3. <<>> \in Seq(Rules) /\ table' \in Seq(Rules)
    BY EmptySeq DEF TableInv, TypeOK
  <1>4. TypeOK'
    BY <1>1, <1>2, <1>3 DEF TableInv, TypeOK
  <1> QED BY <1>1, <1>4 DEF TableInv, Built, Pushed, Reports

\* Every step preserves the invariant.
LEMMA TableStep == TableInv /\ [Next]_vars => TableInv'
  <1> SUFFICES ASSUME TableInv, [Next]_vars PROVE TableInv'
    OBVIOUS
  <1>0. ListenerInv /\ ListenerInv' /\ TypeOK
    BY ListenerStep DEF TableInv
  <1>1. CASE CollectRoutes
    <2>1. UNCHANGED <<routes, listeners, table, status>>
      BY <1>1 DEF CollectRoutes
    <2>2. CASE Fails
      BY <1>0, <2>1, <2>2, FailedIsTabled
    <2>3. CASE ~Fails
      <3>1. PICK http \in Listed("HTTPRoute"), grpc \in Listed("GRPCRoute"),
                 tls \in Listed("TLSRoute"), tcp \in Listed("TCPRoute") :
               w' = [Idle EXCEPT !.pc = "push", !.rules = Ingress(http, grpc, tls, tcp),
                                 !.seen = routes, !.attached = Attached,
                                 !.listeners = listeners]
        BY <1>1, <2>3 DEF CollectRoutes
      <3>2. UNCHANGED used
        BY <1>1, <2>3 DEF CollectRoutes
      <3> DEFINE rules == Ingress(http, grpc, tls, tcp)
      <3>3. Tabled(rules)
        BY <1>0, SpecsAreSpecs, IngressIsTabled DEF TypeOK
      <3> HIDE DEF rules
      <3>4. w'.pc = "push" /\ w'.rules = rules /\ w'.attached = Attached /\ w'.failed = FALSE
        BY <3>1 DEF Idle, rules
      <3>5. Attached \subseteq Routes /\ rules \in Seq(Rules)
        BY <3>3 DEF Attached, Tabled
      <3>6. queued' \in BOOLEAN
        BY <1>0 DEF ListenerInv
      <3>7. TypeOK'
        BY <1>0, <2>1, <3>2, <3>4, <3>5, <3>6 DEF TypeOK
      <3>8. AllRules' = AllRules
        BY <2>1, SameRules
      <3>9. Built'
        BY <3>3, <3>4, <3>8 DEF Built, Tabled
      <3>10. Pushed' /\ Reports'
        BY <3>4 DEF Pushed, Reports
      <3> QED BY <1>0, <3>7, <3>9, <3>10 DEF TableInv
    <2> QED BY <2>2, <2>3
  <1>2. CASE PushConfig
    <2>1. UNCHANGED <<routes, listeners, status>> /\ w.pc = "push"
      BY <1>2 DEF PushConfig
    <2>2. CASE Fails /\ table' \in {table, w.rules}
      BY <1>0, <2>1, <2>2, FailedIsTabled
    <2>3. CASE table' = w.rules /\ w' = [w EXCEPT !.pc = "routes"] /\ UNCHANGED <<queued, used>>
      <3>1. /\ w'.pc = "routes" /\ w'.rules = w.rules /\ w'.attached = w.attached
            /\ w'.failed = w.failed
        BY <1>0, <2>3 DEF ListenerInv
      <3>2. TypeOK'
        BY <1>0, <2>1, <2>3, <3>1 DEF TypeOK
      <3>3. AllRules' = AllRules
        BY <2>1, SameRules
      <3>4. ~queued' => Tabled(w.rules)
        BY <2>1, <2>3 DEF TableInv, Built
      <3>5. Built' /\ Pushed'
        BY <2>3, <3>1, <3>3, <3>4 DEF Built, Pushed, Tabled
      <3>6. Reports'
        BY <3>1 DEF Reports
      <3> QED BY <1>0, <3>2, <3>5, <3>6 DEF TableInv
    <2> QED BY <1>2, <2>2, <2>3 DEF PushConfig
  <1>3. CASE PatchRouteStatuses
    <2>1. UNCHANGED <<routes, listeners, queued, table>> /\ w.pc = "routes"
      BY <1>3 DEF PatchRouteStatuses
    <2> DEFINE unsupported == unsupportedRoutes(Range(w.rules))
               report(r) == IF <<r.kind, r.name>> \in unsupported THEN "partial" ELSE "accepted"
    <2>2. PICK lost :
             /\ status' = [status EXCEPT !.routes = [r \in Routes |->
                              IF r \in w.attached \ lost THEN report(r) ELSE @[r]]]
             /\ w' = [w EXCEPT !.pc = "gateway", !.rules = <<>>, !.seen = <<>>,
                               !.failed = lost # {}]
      BY <1>3 DEF PatchRouteStatuses
    <2>3. used' \in [edits : Nat, failures : Nat]
      <3>1. used \in [edits : Nat, failures : Nat]
        BY <1>0 DEF TypeOK
      <3>2. UNCHANGED used \/ used' = [used EXCEPT !.failures = @ + 1]
        BY <1>3 DEF PatchRouteStatuses, SpendsFailure
      <3>3. used.failures + 1 \in Nat
        BY <3>1
      <3> QED BY <3>1, <3>2, <3>3
    <2>4. /\ w'.pc = "gateway" /\ w'.rules = <<>> /\ w'.attached = w.attached
          /\ w'.failed = (lost # {})
      BY <1>0, <2>2 DEF ListenerInv
    <2>5. /\ status'.routes = [r \in Routes |->
                IF r \in w.attached \ lost THEN report(r) ELSE status.routes[r]]
          /\ status'.listeners = status.listeners
      BY <1>0, <2>2 DEF ListenerInv
    <2>6. status'.routes \in [Routes -> {"none", "accepted", "partial"}]
      BY <1>0, <2>5 DEF TypeOK
    <2>7. <<>> \in Seq(Rules) /\ w'.failed \in BOOLEAN
      BY <2>4, EmptySeq
    <2>8. TypeOK'
      BY <1>0, <2>1, <2>3, <2>4, <2>5, <2>6, <2>7 DEF TypeOK
    <2>9. AllRules' = AllRules /\ Attached' = Attached
      BY <2>1, SameRules
    <2>10. Built' /\ Pushed'
      <3>1. ~queued => Tabled(table)
        BY <2>1 DEF TableInv, Pushed
      <3> QED BY <2>1, <2>4, <2>9, <3>1 DEF Built, Pushed, Tabled
    <2>11. Reports'
      <3> SUFFICES ASSUME ~queued, lost = {}, NEW r \in Attached
                   PROVE  status'.routes[r] = Report(r)'
        BY <2>1, <2>4, <2>9 DEF Reports
      <3>1. w.attached = Attached
        BY <1>0, <2>1 DEF ListenerInv, Looked
      <3>2. Range(w.rules) = AllRules
        BY <2>1 DEF TableInv, Built, Tabled
      <3>3. status'.routes[r] = report(r)
        BY <2>5, <3>1 DEF Attached
      <3>4. report(r) = Report(r)
        BY <3>2 DEF Report
      <3>5. Report(r)' = Report(r)
        BY <2>9 DEF Report, unsupportedRoutes
      <3> QED BY <3>3, <3>4, <3>5
    <2> QED BY <1>0, <2>8, <2>10, <2>11 DEF TableInv
  <1>4. CASE PatchGatewayStatus
    <2>1. UNCHANGED <<routes, listeners, table>> /\ w.pc = "gateway"
      BY <1>4 DEF PatchGatewayStatus
    <2>2. CASE Fails /\ UNCHANGED status
      BY <1>0, <2>1, <2>2, FailedIsTabled
    <2>3. CASE w' = Idle /\ queued' = TRUE /\ UNCHANGED <<status, used>>
      <3>1. w'.pc = "idle" /\ w'.rules = <<>> /\ w'.attached = {} /\ w'.failed = FALSE
        BY <2>3 DEF Idle
      <3>2. <<>> \in Seq(Rules)
        BY EmptySeq
      <3>3. TypeOK'
        BY <1>0, <2>1, <2>3, <3>1, <3>2 DEF TypeOK
      <3> QED BY <1>0, <2>3, <3>1, <3>3 DEF TableInv, Built, Pushed, Reports
    <2>4. CASE /\ status' = [status EXCEPT !.listeners =
                                {ListenerStatus(l, w.attached) : l \in w.listeners}]
               /\ queued' = (queued \/ w.failed)
               /\ w' = Idle /\ UNCHANGED used
      <3>1. w'.pc = "idle" /\ w'.rules = <<>> /\ w'.attached = {} /\ w'.failed = FALSE
        BY <2>4 DEF Idle
      <3>2. /\ status'.listeners = {ListenerStatus(l, w.attached) : l \in w.listeners}
            /\ status'.routes = status.routes
        BY <1>0, <2>4 DEF ListenerInv
      <3>3. ASSUME NEW s \in status'.listeners PROVE s.count \in Nat /\ s.accepted \in BOOLEAN
        <4>1. PICK l \in w.listeners : s = ListenerStatus(l, w.attached)
          BY <3>2
        <4> DEFINE counted == {r \in w.attached :
                                  r.kind \in supportedKindsForProtocol(l.protocol)}
        <4>2. IsFiniteSet(counted)
          BY <1>0, RouteAssumption, FS_Subset DEF TypeOK
        <4>3. Cardinality(counted) \in Nat
          BY <4>2, FS_CardinalityType
        <4> QED BY <4>1, <4>3 DEF ListenerStatus, computeListenerCounts
      <3>4. <<>> \in Seq(Rules) /\ queued' \in BOOLEAN
        BY <1>0, EmptySeq DEF ListenerInv
      <3>5. TypeOK'
        BY <1>0, <2>1, <2>4, <3>1, <3>2, <3>3, <3>4 DEF TypeOK
      <3>6. AllRules' = AllRules /\ Attached' = Attached
        BY <2>1, SameRules
      <3>7. ~queued' => ~queued /\ ~w.failed
        BY <2>4
      <3>8. Pushed'
        <4>1. ~queued => Tabled(table)
          BY <2>1 DEF TableInv, Pushed
        <4> QED BY <2>1, <3>6, <3>7, <4>1 DEF Pushed, Tabled
      <3>9. Reports'
        <4> SUFFICES ASSUME ~queued', NEW r \in Attached
                     PROVE  status'.routes[r] = Report(r)'
          BY <3>6 DEF Reports
        <4>1. status.routes[r] = Report(r)
          BY <2>1, <3>7 DEF TableInv, Reports
        <4>2. Report(r)' = Report(r)
          BY <3>6 DEF Report, unsupportedRoutes
        <4> QED BY <3>2, <4>1, <4>2
      <3>10. Built'
        BY <3>1 DEF Built
      <3> QED BY <1>0, <3>5, <3>8, <3>9, <3>10 DEF TableInv
    <2> QED BY <1>4, <2>2, <2>3, <2>4 DEF PatchGatewayStatus
  <1>5. ASSUME NEW r \in Routes, NEW spec \in RouteSpecs[r], EditRoute(r, spec)
        PROVE  TableInv'
    <2>1. /\ routes' = [routes EXCEPT ![r] = spec]
          /\ queued' = (queued \/ routeToGateways(routes[r], spec))
          /\ UNCHANGED <<listeners, w, table>>
          /\ status' = IF spec = NoRoute THEN [status EXCEPT !.routes[r] = "none"] ELSE status
          /\ used' = [used EXCEPT !.edits = @ + 1]
      BY <1>5 DEF EditRoute, Edits
    <2>2. used' \in [edits : Nat, failures : Nat]
      <3>1. used \in [edits : Nat, failures : Nat]
        BY <1>0 DEF TypeOK
      <3>2. used.edits + 1 \in Nat
        BY <3>1
      <3> QED BY <2>1, <3>1, <3>2
    <2>3. \A q \in Routes : routes'[q] \in RouteSpecs[q]
      BY <1>0, <2>1 DEF TypeOK, ListenerInv
    <2>4. status'.listeners = status.listeners
      BY <1>0, <2>1 DEF ListenerInv
    <2>5. /\ status'.routes \in [Routes -> {"none", "accepted", "partial"}]
          /\ \A q \in Routes \ {r} : status'.routes[q] = status.routes[q]
      <3>1. status.routes \in [Routes -> {"none", "accepted", "partial"}]
        BY <1>0 DEF TypeOK
      <3>2. \/ status'.routes = status.routes
            \/ status'.routes = [status.routes EXCEPT ![r] = "none"]
        BY <1>0, <2>1 DEF ListenerInv
      <3> QED BY <3>1, <3>2
    <2>6. queued' \in BOOLEAN
      BY <1>0 DEF ListenerInv
    <2>7. TypeOK'
      BY <1>0, <2>1, <2>2, <2>3, <2>4, <2>5, <2>6 DEF TypeOK
    <2>8. ASSUME ~queued'
          PROVE  ~queued /\ Attached' = Attached /\ r \notin Attached /\ AllRules' = AllRules
      BY <1>0, <2>1, <2>8, UnmappedRules DEF ListenerInv
    <2>9. Built' /\ Pushed'
      BY <2>1, <2>8 DEF TableInv, Built, Pushed, Tabled
    <2>10. Reports'
      <3> SUFFICES ASSUME ~queued', w.pc = "idle" \/ (w.pc = "gateway" /\ ~w.failed),
                          NEW q \in Attached
                   PROVE  status'.routes[q] = Report(q)'
        BY <2>1, <2>8 DEF Reports
      <3>1. q \in Routes \ {r}
        BY <2>8 DEF Attached
      <3>2. status.routes[q] = Report(q)
        BY <2>8 DEF TableInv, Reports
      <3>3. Report(q)' = Report(q)
        BY <2>8 DEF Report, unsupportedRoutes
      <3> QED BY <2>5, <3>1, <3>2, <3>3
    <2> QED BY <1>0, <2>7, <2>9, <2>10 DEF TableInv
  <1>6. ASSUME NEW ls \in ListenerSets, EditListeners(ls)
        PROVE  TableInv'
    <2>1. /\ listeners' = ls /\ queued' = TRUE /\ UNCHANGED <<routes, status, w, table>>
          /\ used' = [used EXCEPT !.edits = @ + 1]
      BY <1>6 DEF EditListeners, Edits
    <2>2. used' \in [edits : Nat, failures : Nat]
      <3>1. used \in [edits : Nat, failures : Nat]
        BY <1>0 DEF TypeOK
      <3>2. used.edits + 1 \in Nat
        BY <3>1
      <3> QED BY <2>1, <3>1, <3>2
    <2>3. TypeOK'
      BY <1>0, <2>1, <2>2 DEF TypeOK
    <2> QED BY <1>0, <2>1, <2>3 DEF TableInv, Built, Pushed, Reports
  <1>7. CASE UNCHANGED vars
    <2>1. UNCHANGED <<routes, listeners, queued, w, table, status, used>>
      BY <1>7 DEF vars
    <2>2. AllRules' = AllRules /\ Attached' = Attached
      BY <2>1, SameRules
    <2>3. TypeOK'
      BY <1>0, <2>1 DEF TypeOK
    <2>4. Built' /\ Pushed'
      BY <2>1, <2>2 DEF TableInv, Built, Pushed, Tabled
    <2>5. Reports'
      <3>1. \A r : Report(r)' = Report(r)
        BY <2>2 DEF Report, unsupportedRoutes
      <3> QED BY <2>1, <2>2, <3>1 DEF TableInv, Reports
    <2> QED BY <1>0, <2>3, <2>4, <2>5 DEF TableInv
  <1> QED BY <1>1, <1>2, <1>3, <1>4, <1>5, <1>6, <1>7 DEF Next

(* Statuses say what routes ask for. *)

\* Some rule of a kind and name is beyond a tunnel if and only if the route is, when no other
\* attached route has its kind and name.
LEMMA UnsupportedIsUnenforceable ==
    ASSUME TypeOK, NEW r \in Attached, r.kind = "HTTPRoute", ~Shares(r)
    PROVE  <<r.kind, r.name>> \in unsupportedRoutes(AllRules) <=> Unenforceable(r)
  <1>1. Attached \subseteq Routes /\ \A q \in Routes : IsSpec(q, routes[q])
    BY SpecsAreSpecs DEF Attached
  <1>2. listeners \in ListenerSets
    BY DEF TypeOK
  <1>3. ASSUME <<r.kind, r.name>> \in unsupportedRoutes(AllRules) PROVE Unenforceable(r)
    <2>1. PICK x \in AllRules :
             Unsupported(x) /\ <<r.kind, r.name>> = <<x.route.kind, x.route.name>>
      BY <1>3 DEF unsupportedRoutes
    <2>2. PICK q \in Attached : x \in RouteRules(q)
      BY DEF AllRules
    <2>3. x.route = q
      BY <1>1, <1>2, <2>2, RouteRulesType
    <2>4. q = r
      BY <2>1, <2>3 DEF Shares
    <2>5. PICK i \in 1 .. Len(routes[r].rules) : x.match \in Range(RuleMatches(r, i))
      BY <1>1, <1>2, <2>2, <2>4, RouteRulesType
    <2>6. Range(RuleMatches(r, i))
          = IF routes[r].rules[i] = <<>> THEN {NoMatch} ELSE Range(routes[r].rules[i])
      BY <1>1, RuleMatchesType
    <2>7. x.match.method \/ x.match.headers > 0 \/ x.match.queries > 0
      BY <2>1 DEF Unsupported
    <2>8. x.match # NoMatch
      BY <2>7 DEF NoMatch
    <2>9. x.match \in Range(routes[r].rules[i])
      BY <2>5, <2>6, <2>8
    <2>10. x.match.type # "GRPCMethod"
      BY <1>1, <2>9 DEF IsSpec
    <2> QED BY <2>7, <2>9, <2>10 DEF Unenforceable
  <1>4. ASSUME Unenforceable(r) PROVE <<r.kind, r.name>> \in unsupportedRoutes(AllRules)
    <2>1. PICK i \in 1 .. Len(routes[r].rules) : \E m \in Range(routes[r].rules[i]) :
             m.headers > 0 \/ m.queries > 0 \/ (m.method /\ m.type # "GRPCMethod")
      BY <1>4 DEF Unenforceable
    <2>2. PICK m \in Range(routes[r].rules[i]) :
             m.headers > 0 \/ m.queries > 0 \/ (m.method /\ m.type # "GRPCMethod")
      BY <2>1
    <2>3. routes[r].rules[i] # <<>>
      BY <2>2 DEF Range
    <2>4. m \in Range(RuleMatches(r, i))
      BY <1>1, <2>3, RuleMatchesType
    <2>5. PICK h \in RuleHosts(r) : TRUE
      BY DEF RuleHosts, Attached
    <2>6. BuiltRule(r, i, h, m) \in AllRules
      BY <2>4 DEF RouteRules, AllRules
    <2>7. BuiltRule(r, i, h, m).route = r /\ BuiltRule(r, i, h, m).match = m
      BY DEF BuiltRule
    <2>8. Unsupported(BuiltRule(r, i, h, m))
      BY <2>2, <2>7 DEF Unsupported
    <2> QED BY <2>6, <2>7, <2>8 DEF unsupportedRoutes
  <1> QED BY <1>3, <1>4

-----------------------------------------------------------------------------
(* Hostnames. *)

\* IsSuffix compares the ends of two sequences.
LEMMA SuffixEnds ==
    ASSUME NEW s \in Seq(STRING), NEW t \in Seq(STRING)
    PROVE  IsSuffix(s, t) <=> /\ Len(s) <= Len(t)
                              /\ \A i \in 1 .. Len(s) : s[i] = t[Len(t) - Len(s) + i]
  <1>1. Len(s) \in Nat /\ Len(t) \in Nat
    BY LenProperties
  <1>2. /\ \A i \in 1 .. Len(s) : s[i] \in STRING
        /\ \A i \in 1 .. Len(t) : t[i] \in STRING
    BY ElementOfSeq
  <1> DEFINE rs == Reverse(s)
             rt == Reverse(t)
  <1>3. /\ Len(rs) = Len(s) /\ \A i \in 1 .. Len(s) : rs[i] = s[Len(s) - i + 1]
        /\ rs \in Seq(STRING)
    <2>1. rs = [i \in 1 .. Len(s) |-> s[(Len(s) - i) + 1]]
      BY DEF Reverse
    <2>2. \A i \in 1 .. Len(s) : s[(Len(s) - i) + 1] \in STRING
      BY <1>1, <1>2
    <2>3. rs \in [1 .. Len(s) -> STRING]
      BY <2>1, <2>2
    <2> HIDE DEF rs
    <2>4. rs \in Seq(STRING) /\ Len(rs) = Len(s)
      BY <1>1, <2>3, SeqDef, LenProperties
    <2> QED BY <2>1, <2>4
  <1>4. /\ Len(rt) = Len(t) /\ \A i \in 1 .. Len(t) : rt[i] = t[Len(t) - i + 1]
        /\ rt \in Seq(STRING)
    <2>1. rt = [i \in 1 .. Len(t) |-> t[(Len(t) - i) + 1]]
      BY DEF Reverse
    <2>2. \A i \in 1 .. Len(t) : t[(Len(t) - i) + 1] \in STRING
      BY <1>1, <1>2
    <2>3. rt \in [1 .. Len(t) -> STRING]
      BY <2>1, <2>2
    <2> HIDE DEF rt
    <2>4. rt \in Seq(STRING) /\ Len(rt) = Len(t)
      BY <1>1, <2>3, SeqDef, LenProperties
    <2> QED BY <2>1, <2>4
  <1> HIDE DEF rs, rt
  <1>5. IsSuffix(s, t) <=> Len(rs) <= Len(rt) /\ SubSeq(rs, 1, Len(rs)) = SubSeq(rt, 1, Len(rs))
    BY DEF IsSuffix, IsPrefix, rs, rt
  <1>6. ASSUME Len(s) <= Len(t)
        PROVE  SubSeq(rs, 1, Len(s)) = SubSeq(rt, 1, Len(s))
               <=> \A i \in 1 .. Len(s) : rs[i] = rt[i]
    <2> DEFINE p == SubSeq(rs, 1, Len(s))
               q == SubSeq(rt, 1, Len(s))
    <2>1. /\ \A i \in 1 .. Len(s) : rs[i] \in STRING
          /\ \A i \in 1 .. Len(s) : rt[i] \in STRING
      BY <1>1, <1>3, <1>4, <1>6, ElementOfSeq
    <2>2. Len(s) \in Int /\ 1 \in Int
      BY <1>1
    <2>3. /\ p \in Seq(STRING) /\ Len(p) = (IF 1 <= Len(s) THEN Len(s) - 1 + 1 ELSE 0)
          /\ \A i \in 1 .. Len(s) - 1 + 1 : p[i] = rs[1 + i - 1]
      BY <2>1, <2>2, SubSeqProperties
    <2>4. /\ q \in Seq(STRING) /\ Len(q) = (IF 1 <= Len(s) THEN Len(s) - 1 + 1 ELSE 0)
          /\ \A i \in 1 .. Len(s) - 1 + 1 : q[i] = rt[1 + i - 1]
      BY <2>1, <2>2, SubSeqProperties
    <2> HIDE DEF p, q
    <2>5. Len(p) = Len(s) /\ Len(q) = Len(s) /\ \A i \in 1 .. Len(s) : p[i] = rs[i] /\ q[i] = rt[i]
      BY <1>1, <2>3, <2>4
    <2>6. p = q <=> \A i \in 1 .. Len(s) : p[i] = q[i]
      BY <2>3, <2>4, <2>5, SeqEqual
    <2> QED BY <2>5, <2>6 DEF p, q
  <1>7. ASSUME Len(s) <= Len(t)
        PROVE  (\A i \in 1 .. Len(s) : rs[i] = rt[i])
               <=> \A i \in 1 .. Len(s) : s[i] = t[Len(t) - Len(s) + i]
    <2>1. ASSUME \A i \in 1 .. Len(s) : rs[i] = rt[i], NEW i \in 1 .. Len(s)
          PROVE  s[i] = t[Len(t) - Len(s) + i]
      <3> DEFINE j == Len(s) - i + 1
      <3>1. j \in 1 .. Len(s) /\ j \in 1 .. Len(t) /\ Len(s) - j + 1 = i
            /\ Len(t) - j + 1 = Len(t) - Len(s) + i
        BY <1>1, <1>7
      <3> HIDE DEF j
      <3>2. rs[j] = s[Len(s) - j + 1] /\ rt[j] = t[Len(t) - j + 1] /\ rs[j] = rt[j]
        BY <1>3, <1>4, <2>1, <3>1
      <3> QED BY <3>1, <3>2
    <2>2. ASSUME \A i \in 1 .. Len(s) : s[i] = t[Len(t) - Len(s) + i], NEW i \in 1 .. Len(s)
          PROVE  rs[i] = rt[i]
      <3> DEFINE j == Len(s) - i + 1
      <3>1. j \in 1 .. Len(s) /\ i \in 1 .. Len(t) /\ Len(t) - i + 1 = Len(t) - Len(s) + j
        BY <1>1, <1>7
      <3>2. rs[i] = s[j] /\ rt[i] = t[Len(t) - i + 1]
        BY <1>3, <1>4, <3>1
      <3> HIDE DEF j
      <3>3. s[j] = t[Len(t) - Len(s) + j]
        BY <2>2, <3>1
      <3> QED BY <3>1, <3>2, <3>3
    <2> QED BY <2>1, <2>2
  <1> QED BY <1>3, <1>4, <1>5, <1>6, <1>7

\* Of two suffixes the shorter is one of the longer; of one length they are the same.
LEMMA SuffixesCompare ==
    ASSUME NEW s \in Seq(STRING), NEW t \in Seq(STRING), NEW u \in Seq(STRING),
           IsSuffix(s, u), IsSuffix(t, u), Len(s) <= Len(t)
    PROVE  IsSuffix(s, t) /\ (Len(s) = Len(t) => s = t)
  <1>1. Len(s) \in Nat /\ Len(t) \in Nat /\ Len(u) \in Nat
    BY LenProperties
  <1>2. /\ Len(t) <= Len(u) /\ \A i \in 1 .. Len(t) : t[i] = u[Len(u) - Len(t) + i]
        /\ Len(s) <= Len(u) /\ \A i \in 1 .. Len(s) : s[i] = u[Len(u) - Len(s) + i]
    BY SuffixEnds
  <1>3. ASSUME NEW i \in 1 .. Len(s) PROVE s[i] = t[Len(t) - Len(s) + i]
    <2> DEFINE j == Len(t) - Len(s) + i
    <2>1. j \in 1 .. Len(t) /\ Len(u) - Len(t) + j = Len(u) - Len(s) + i
      BY <1>1
    <2> HIDE DEF j
    <2>2. s[i] = u[Len(u) - Len(s) + i] /\ t[j] = u[Len(u) - Len(t) + j]
      BY <1>2, <2>1
    <2> QED BY <2>1, <2>2 DEF j
  <1>4. IsSuffix(s, t)
    BY <1>3, SuffixEnds
  <1>5. ASSUME Len(s) = Len(t) PROVE s = t
    <2>1. \A i \in 1 .. Len(s) : s[i] = t[i]
      BY <1>1, <1>3, <1>5
    <2> QED BY <1>5, <2>1, SeqEqual
  <1> QED BY <1>4, <1>5

\* A suffix of a suffix is a suffix.
LEMMA SuffixTransitive ==
    ASSUME NEW s \in Seq(STRING), NEW t \in Seq(STRING), NEW u \in Seq(STRING),
           IsSuffix(s, t), IsSuffix(t, u)
    PROVE  IsSuffix(s, u)
  <1>1. Len(s) \in Nat /\ Len(t) \in Nat /\ Len(u) \in Nat
    BY LenProperties
  <1>2. /\ Len(s) <= Len(t) /\ \A i \in 1 .. Len(s) : s[i] = t[Len(t) - Len(s) + i]
        /\ Len(t) <= Len(u) /\ \A i \in 1 .. Len(t) : t[i] = u[Len(u) - Len(t) + i]
    BY SuffixEnds
  <1>3. ASSUME NEW i \in 1 .. Len(s) PROVE s[i] = u[Len(u) - Len(s) + i]
    <2> DEFINE j == Len(t) - Len(s) + i
    <2>1. j \in 1 .. Len(t) /\ Len(u) - Len(t) + j = Len(u) - Len(s) + i
      BY <1>1, <1>2
    <2> HIDE DEF j
    <2>2. s[i] = t[j] /\ t[j] = u[Len(u) - Len(t) + j]
      BY <1>2, <2>1 DEF j
    <2> QED BY <2>1, <2>2
  <1>4. Len(s) <= Len(u)
    BY <1>1, <1>2
  <1> QED BY <1>3, <1>4, SuffixEnds

\* The empty sequence is a suffix of every other.
LEMMA EmptySuffix == ASSUME NEW u \in Seq(STRING) PROVE IsSuffix(<<>>, u)
  <1>1. <<>> \in Seq(STRING) /\ Len(<<>>) = 0 /\ Len(u) \in Nat
    BY EmptySeq, LenProperties
  <1>2. IsSuffix(<<>>, u) <=>
           /\ Len(<<>>) <= Len(u)
           /\ \A i \in 1 .. Len(<<>>) : <<>>[i] = u[Len(u) - Len(<<>>) + i]
    BY <1>1, SuffixEnds
  <1>3. 0 <= Len(u) /\ 1 .. 0 = {}
    BY <1>1
  <1> QED BY <1>1, <1>2, <1>3

\* The hostnames that two hostnames have in common are those they both cover.
LEMMA IntersectionCovers ==
    ASSUME NEW a \in Hostnames, NEW b \in Hostnames, NEW host \in Seq(STRING)
    PROVE  (\E h \in intersectHostname(a, b) : Covers(h, host))
           <=> Covers(a, host) /\ Covers(b, host)
  <1>1. /\ a.labels \in Seq(STRING) /\ b.labels \in Seq(STRING)
        /\ a.wild \in BOOLEAN /\ b.wild \in BOOLEAN
        /\ a = [wild |-> a.wild, labels |-> a.labels]
        /\ b = [wild |-> b.wild, labels |-> b.labels]
    BY DEF Hostnames
  <1>2. Len(a.labels) \in Nat /\ Len(b.labels) \in Nat /\ Len(host) \in Nat
    BY <1>1, LenProperties
  <1>3. \A h : h \in intersectHostname(a, b) <=>
               \/ h = a /\ (a = b \/ (b.wild /\ Below(a, b)))
               \/ h = b /\ a.wild /\ Below(b, a)
    BY DEF intersectHostname
  <1>4. ASSUME b.wild, Below(a, b), Covers(a, host) PROVE Covers(b, host)
    <2>1. IsSuffix(b.labels, a.labels) /\ Len(a.labels) > Len(b.labels)
      BY <1>4 DEF Below
    <2>2. CASE a.wild
      <3>1. Len(host) > Len(a.labels) /\ IsSuffix(a.labels, host)
        BY <1>4, <2>2 DEF Covers
      <3>2. IsSuffix(b.labels, host)
        BY <1>1, <2>1, <3>1, SuffixTransitive
      <3>3. Len(host) > Len(b.labels)
        BY <1>2, <2>1, <3>1
      <3> QED BY <1>4, <3>2, <3>3 DEF Covers
    <2>3. CASE ~a.wild
      <3>1. a.labels = host
        BY <1>4, <2>3 DEF Covers
      <3> QED BY <1>4, <2>1, <3>1 DEF Covers
    <2> QED BY <2>2, <2>3
  <1>5. ASSUME a.wild, Below(b, a), Covers(b, host) PROVE Covers(a, host)
    <2>1. IsSuffix(a.labels, b.labels) /\ Len(b.labels) > Len(a.labels)
      BY <1>5 DEF Below
    <2>2. CASE b.wild
      <3>1. Len(host) > Len(b.labels) /\ IsSuffix(b.labels, host)
        BY <1>5, <2>2 DEF Covers
      <3>2. IsSuffix(a.labels, host)
        BY <1>1, <2>1, <3>1, SuffixTransitive
      <3>3. Len(host) > Len(a.labels)
        BY <1>2, <2>1, <3>1
      <3> QED BY <1>5, <3>2, <3>3 DEF Covers
    <2>3. CASE ~b.wild
      <3>1. b.labels = host
        BY <1>5, <2>3 DEF Covers
      <3> QED BY <1>5, <2>1, <3>1 DEF Covers
    <2> QED BY <2>2, <2>3
  <1>6. ASSUME Covers(a, host), Covers(b, host)
        PROVE  \/ a = b
               \/ b.wild /\ Below(a, b)
               \/ a.wild /\ Below(b, a)
    <2>1. CASE a.wild /\ b.wild
      <3>1. IsSuffix(a.labels, host) /\ IsSuffix(b.labels, host)
        BY <1>6, <2>1 DEF Covers
      <3>2. CASE Len(a.labels) = Len(b.labels)
        <4>1. Len(a.labels) <= Len(b.labels)
          BY <1>2, <3>2
        <4>2. a.labels = b.labels
          BY <1>1, <3>1, <3>2, <4>1, SuffixesCompare
        <4>3. a.wild = b.wild
          BY <1>1, <2>1
        <4> QED BY <1>1, <4>2, <4>3
      <3>3. CASE Len(a.labels) > Len(b.labels)
        <4>1. Len(b.labels) <= Len(a.labels)
          BY <1>2, <3>3
        <4> QED BY <1>1, <2>1, <3>1, <3>3, <4>1, SuffixesCompare DEF Below
      <3>4. CASE Len(b.labels) > Len(a.labels)
        <4>1. Len(a.labels) <= Len(b.labels)
          BY <1>2, <3>4
        <4> QED BY <1>1, <2>1, <3>1, <3>4, <4>1, SuffixesCompare DEF Below
      <3> QED BY <1>2, <3>2, <3>3, <3>4
    <2>2. CASE ~a.wild /\ b.wild
      <3>1. a.labels = host /\ Len(host) > Len(b.labels) /\ IsSuffix(b.labels, host)
        BY <1>6, <2>2 DEF Covers
      <3> QED BY <2>2, <3>1 DEF Below
    <2>3. CASE a.wild /\ ~b.wild
      <3>1. b.labels = host /\ Len(host) > Len(a.labels) /\ IsSuffix(a.labels, host)
        BY <1>6, <2>3 DEF Covers
      <3> QED BY <2>3, <3>1 DEF Below
    <2>4. CASE ~a.wild /\ ~b.wild
      <3>1. a.labels = host /\ b.labels = host
        BY <1>6, <2>4 DEF Covers
      <3>2. a.wild = b.wild
        BY <1>1, <2>4
      <3> QED BY <1>1, <3>1, <3>2
    <2> QED BY <2>1, <2>2, <2>3, <2>4
  <1> HIDE DEF Below
  <1>7. ASSUME NEW h \in intersectHostname(a, b), Covers(h, host)
        PROVE  Covers(a, host) /\ Covers(b, host)
    BY <1>3, <1>4, <1>5, <1>7
  <1>8. ASSUME Covers(a, host), Covers(b, host)
        PROVE  \E h \in intersectHostname(a, b) : Covers(h, host)
    <2>1. CASE a = b \/ (b.wild /\ Below(a, b))
      BY <1>3, <1>8, <2>1
    <2>2. CASE a.wild /\ Below(b, a)
      BY <1>3, <1>8, <2>2
    <2> QED BY <1>6, <1>8, <2>1, <2>2
  <1> QED BY <1>7, <1>8

\* An unset hostname covers every hostname.
LEMMA NoHostCovers ==
    ASSUME NEW host \in Seq(STRING) \ {<<>>}
    PROVE  Covers(NoHost, host)
  <1>1. Len(host) \in Nat \ {0}
    BY EmptySeq
  <1>2. IsSuffix(<<>>, host)
    BY EmptySuffix
  <1>3. Len(<<>>) = 0
    BY EmptySeq
  <1> QED BY <1>1, <1>2, <1>3 DEF Covers, NoHost

\* What a route and a listener have in common.
LEMMA CommonHostnames ==
    ASSUME NEW hosts, hosts \subseteq Hostnames, NEW l, l \in Hostnames \cup {NoHost},
           NEW host \in Seq(STRING) \ {<<>>}
    PROVE  /\ (\E h \in intersectHostnames(hosts, l) : Covers(h, host))
              <=> Covers(l, host) /\ (hosts = {} \/ \E h \in hosts : Covers(h, host))
           /\ NoHost \in intersectHostnames(hosts, l) => l = NoHost /\ hosts = {}
  <1>1. NoHost \notin Hostnames
    BY DEF NoHost, Hostnames
  <1>2. CASE l = NoHost
    <2>1. intersectHostnames(hosts, l) = IF hosts = {} THEN {NoHost} ELSE hosts
      BY <1>2 DEF intersectHostnames
    <2> QED BY <1>1, <1>2, <2>1, NoHostCovers
  <1>3. CASE l # NoHost /\ hosts = {}
    <2>1. intersectHostnames(hosts, l) = {l}
      BY <1>3 DEF intersectHostnames
    <2> QED BY <1>1, <1>3, <2>1
  <1>4. CASE l # NoHost /\ hosts # {}
    <2>1. intersectHostnames(hosts, l) = UNION {intersectHostname(h, l) : h \in hosts}
      BY <1>4 DEF intersectHostnames
    <2>2. \A h \in hosts : (\E g \in intersectHostname(h, l) : Covers(g, host))
                           <=> Covers(h, host) /\ Covers(l, host)
      BY <1>4, IntersectionCovers
    <2>3. (\E g \in intersectHostnames(hosts, l) : Covers(g, host))
          <=> \E h \in hosts : \E g \in intersectHostname(h, l) : Covers(g, host)
      BY <2>1
    <2>4. (\E g \in intersectHostnames(hosts, l) : Covers(g, host))
          <=> Covers(l, host) /\ \E h \in hosts : Covers(h, host)
      BY <2>2, <2>3
    <2>5. \A h \in hosts : intersectHostname(h, l) \subseteq Hostnames
      BY <1>4 DEF intersectHostname
    <2>6. NoHost \notin intersectHostnames(hosts, l)
      BY <1>1, <2>1, <2>5
    <2> QED BY <1>4, <2>4, <2>6
  <1> QED BY <1>2, <1>3, <1>4

\* A route is built for a hostname if and only if it is admitted with it.
LEMMA BuiltForAdmitted ==
    ASSUME TypeOK, NEW r \in Routes, NEW host \in Hosts
    PROVE  Admits(r, host) <=>
               r \in Attached /\ \E h \in RuleHosts(r) : Covers(h, host)
  <1> DEFINE spec == routes[r]
             selected == {l \in listeners : /\ parentRefsSelectListener(spec, l)
                                            /\ isKindAllowed(l, r.kind)
                                            /\ isNamespaceAllowed(l, r.ns)}
             common == UNION {intersectHostnames(spec.hosts, l.host) : l \in selected}
  <1>1. /\ spec.hosts \subseteq Hostnames /\ (r.kind = "TCPRoute" => spec.hosts = {})
    BY SpecsAreSpecs DEF IsSpec
  <1>2. \A l \in selected : l.host \in Hostnames \cup {NoHost}
    BY RouteAssumption DEF TypeOK
  <1>3. host \in Seq(STRING) \ {<<>>}
    BY RouteAssumption
  <1>4. routeAttachmentHostnames(r, spec) = IF NoHost \in common THEN {NoHost} ELSE common
    BY DEF routeAttachmentHostnames
  <1>5. r \in Attached <=> routeAttachmentHostnames(r, spec) # {}
    BY DEF Attached
  <1>6. Admits(r, host) <=>
           \E l \in selected : r.kind # "TCPRoute" =>
              /\ Covers(l.host, host)
              /\ spec.hosts = {} \/ \E h \in spec.hosts : Covers(h, host)
    BY DEF Admits
  <1> HIDE DEF selected, spec
  <1>7. \A l \in selected :
           /\ (\E h \in intersectHostnames(spec.hosts, l.host) : Covers(h, host))
              <=> Covers(l.host, host)
                  /\ (spec.hosts = {} \/ \E h \in spec.hosts : Covers(h, host))
           /\ NoHost \in intersectHostnames(spec.hosts, l.host) =>
                 l.host = NoHost /\ spec.hosts = {}
    BY <1>1, <1>2, <1>3, CommonHostnames
  <1>8. Covers(NoHost, host)
    BY <1>3, NoHostCovers
  <1>9. CASE r.kind = "TCPRoute"
    <2>1. Admits(r, host) <=> selected # {}
      BY <1>6, <1>9
    <2>2. \A l \in selected : intersectHostnames(spec.hosts, l.host) # {}
      BY <1>1, <1>9 DEF intersectHostnames
    <2>3. common # {} <=> selected # {}
      BY <2>2
    <2>4. RuleHosts(r) = {NoHost}
      BY <1>9 DEF RuleHosts
    <2> QED BY <1>4, <1>5, <1>8, <2>1, <2>3, <2>4
  <1>10. CASE r.kind # "TCPRoute"
    <2>1. RuleHosts(r) = routeAttachmentHostnames(r, spec)
      BY <1>10 DEF RuleHosts, spec
    <2>2. Admits(r, host) <=>
             \E l \in selected : \E h \in intersectHostnames(spec.hosts, l.host) : Covers(h, host)
      BY <1>6, <1>7, <1>10
    <2>3. Admits(r, host) <=> \E h \in common : Covers(h, host)
      BY <2>2
    <2>4. CASE NoHost \in common
      <3>1. RuleHosts(r) = {NoHost} /\ r \in Attached
        BY <1>4, <1>5, <2>1, <2>4
      <3> QED BY <1>8, <2>3, <2>4, <3>1
    <2>5. CASE NoHost \notin common
      <3>1. RuleHosts(r) = common /\ (r \in Attached <=> common # {})
        BY <1>4, <1>5, <2>1, <2>5
      <3> QED BY <2>3, <3>1
    <2> QED BY <2>4, <2>5
  <1> QED BY <1>9, <1>10

\* Each route rule is built for each hostname of its route.
LEMMA RulesOfRoute ==
    ASSUME TypeOK, NEW r \in Routes
    PROVE  /\ \A x \in AllRules : x.route = r => r \in Attached /\ x \in RouteRules(r)
           /\ r \in Attached /\ routes[r].rules # <<>> =>
                 \A h \in RuleHosts(r) : \E x \in AllRules : x.route = r /\ x.host = h
           /\ routes[r].rules = <<>> => RouteRules(r) = {}
  <1>1. Attached \subseteq Routes /\ (\A q \in Routes : IsSpec(q, routes[q]))
        /\ listeners \in ListenerSets
    BY SpecsAreSpecs DEF Attached, TypeOK
  <1>2. \A x \in AllRules : x.route = r => r \in Attached /\ x \in RouteRules(r)
    <2> SUFFICES ASSUME NEW x \in AllRules, x.route = r
                 PROVE  r \in Attached /\ x \in RouteRules(r)
      OBVIOUS
    <2>1. PICK q \in Attached : x \in RouteRules(q)
      BY DEF AllRules
    <2>2. x.route = q
      BY <1>1, <2>1, RouteRulesType
    <2> QED BY <2>1, <2>2
  <1>3. ASSUME r \in Attached, routes[r].rules # <<>>, NEW h \in RuleHosts(r)
        PROVE  \E x \in AllRules : x.route = r /\ x.host = h
    <2>1. routes[r].rules \in Seq(Seq(Matches))
      BY <1>1 DEF IsSpec
    <2>2. 1 \in 1 .. Len(routes[r].rules)
      BY <1>3, <2>1, EmptySeq
    <2>3. RuleMatches(r, 1) \in Seq(Matches) /\ RuleMatches(r, 1) # <<>>
      BY <1>1, <2>2, RuleMatchesType
    <2>4. 1 \in DOMAIN RuleMatches(r, 1)
      BY <2>3, EmptySeq, LenProperties
    <2>5. RuleMatches(r, 1)[1] \in Range(RuleMatches(r, 1))
      BY <2>4 DEF Range
    <2> DEFINE x == BuiltRule(r, 1, h, RuleMatches(r, 1)[1])
    <2>6. x \in RouteRules(r)
      BY <2>2, <2>5 DEF RouteRules
    <2>7. x \in AllRules
      BY <1>3, <2>6 DEF AllRules
    <2>8. x.route = r /\ x.host = h
      BY DEF BuiltRule
    <2> QED BY <2>7, <2>8
  <1>4. ASSUME routes[r].rules = <<>> PROVE RouteRules(r) = {}
    <2>1. 1 .. Len(routes[r].rules) = {}
      BY <1>4
    <2> QED BY <2>1 DEF RouteRules
  <1> QED BY <1>2, <1>3, <1>4

\* A table of all rules serves the hostnames that routes and listeners have in common.
LEMMA TableServes ==
    ASSUME TypeOK, Tabled(table), NEW r \in Routes, NEW host \in Hosts
    PROVE  (\E i \in 1 .. Len(table) : table[i].route = r /\ Covers(table[i].host, host))
           <=> routes[r].rules # <<>> /\ Admits(r, host)
  <1>1. DOMAIN table = 1 .. Len(table)
    BY LenProperties DEF Tabled
  <1>2. (\E i \in 1 .. Len(table) : table[i].route = r /\ Covers(table[i].host, host))
        <=> \E x \in AllRules : x.route = r /\ Covers(x.host, host)
    BY <1>1 DEF Tabled, Range
  <1>3. ASSUME NEW x \in AllRules, x.route = r, Covers(x.host, host)
        PROVE  routes[r].rules # <<>> /\ Admits(r, host)
    <2>1. r \in Attached /\ x \in RouteRules(r)
      BY <1>3, RulesOfRoute
    <2>2. x.host \in RuleHosts(r)
      BY <2>1, SpecsAreSpecs, RouteRulesType DEF TypeOK
    <2>3. routes[r].rules # <<>>
      BY <2>1, RulesOfRoute
    <2> QED BY <1>3, <2>1, <2>2, <2>3, BuiltForAdmitted
  <1>4. ASSUME routes[r].rules # <<>>, Admits(r, host)
        PROVE  \E x \in AllRules : x.route = r /\ Covers(x.host, host)
    <2>1. PICK h \in RuleHosts(r) : r \in Attached /\ Covers(h, host)
      BY <1>4, BuiltForAdmitted
    <2> QED BY <1>4, <2>1, RulesOfRoute
  <1> QED BY <1>2, <1>3, <1>4

(* The rule that answers. *)

\* Min finds the least element.
LEMMA MinIsLeast ==
    ASSUME NEW S, S \subseteq Nat, S # {}
    PROVE  Min(S) \in S /\ \A y \in S : Min(S) <= y
  <1> DEFINE R == OpToRel(<, Nat)
  <1>1. PICK x \in S : \A y \in S : ~(<<y, x>> \in R)
    <2>1. IsWellFoundedOn(R, Nat)
      BY NatLessThanWellFounded DEF R
    <2> HIDE DEF R
    <2> QED BY <2>1, WFMin
  <1>2. \A a, b \in Nat : <<a, b>> \in R <=> a < b
    BY DEF OpToRel
  <1> HIDE DEF R
  <1>3. ASSUME NEW y \in S PROVE x <= y
    <2>1. x \in Nat /\ y \in Nat /\ ~(<<y, x>> \in R)
      BY <1>1
    <2>2. ~(y < x)
      BY <1>2, <2>1
    <2> QED BY <2>1, <2>2
  <1> QED BY <1>3 DEF Min

\* The ranking is by hostname, then by the criteria of the Gateway API.
LEMMA RankingIsCriteria ==
    ASSUME NEW x \in Rules, x.match.type = "none" => x.match.path = <<>>
    PROVE  /\ Ranking(x)[1] = IF x.host.wild THEN 0 ELSE 1
           /\ Ranking(x)[2] = Len(x.host.labels)
           /\ Len(Criteria(x)) = 9
           /\ \A k \in 1 .. 9 : Ranking(x)[k + 2] = Criteria(x)[k]
  <1> DEFINE host == hostnameSpecificity(x.host)
             len == IF pathKind(x.match) = pathNone THEN 0 ELSE Len(x.match.path)
             method == IF x.match.method THEN 1 ELSE 0
             rest == <<pathKind(x.match), len, method, x.match.headers, x.match.queries,
                       -x.created, -x.route.ns, -x.route.name, -x.index>>
             type == CASE x.match.type = "Exact" -> 3
                       [] x.match.type = "PathPrefix" /\ x.match.path # <<>> -> 2
                       [] x.match.type \in {"RegularExpression", "GRPCMethod"} -> 1
                       [] OTHER -> 0
  <1>1. /\ x.match.type \in {"none", "Exact", "PathPrefix", "RegularExpression", "GRPCMethod"}
        /\ x.match.path \in Seq(STRING)
    BY DEF Rules, Matches
  <1>2. pathKind(x.match) = type
    BY <1>1 DEF pathKind, pathNone, pathRegex, pathPrefix, pathExact
  <1>3. len = Len(x.match.path)
    <2>1. CASE x.match.type = "none"
      <3>1. x.match.path = <<>>
        BY <2>1
      <3> QED BY <3>1
    <2>2. CASE x.match.type = "PathPrefix"
      BY <2>2 DEF pathKind, pathNone, pathPrefix
    <2>3. CASE x.match.type \in {"Exact", "RegularExpression", "GRPCMethod"}
      BY <2>3 DEF pathKind, pathNone, pathRegex, pathExact
    <2> QED BY <1>1, <2>1, <2>2, <2>3
  <1>4. Criteria(x) = <<type, Len(x.match.path), method, x.match.headers, x.match.queries,
                        -x.created, -x.route.ns, -x.route.name, -x.index>>
    BY DEF Criteria
  <1> HIDE DEF type, len, method
  <1>5. Criteria(x) = rest
    BY <1>2, <1>3, <1>4
  <1>6. Ranking(x) = host \o rest
    BY DEF Ranking, len, method
  <1> DEFINE E == {rest[k] : k \in 1 .. 9} \cup {host[1], host[2]}
  <1>7. host \in Seq(E) /\ Len(host) = 2 /\ host[1] = (IF x.host.wild THEN 0 ELSE 1)
        /\ host[2] = Len(x.host.labels)
    BY DEF hostnameSpecificity
  <1>8. rest \in Seq(E) /\ Len(rest) = 9
    <2>1. rest[1] \in E /\ rest[2] \in E /\ rest[3] \in E /\ rest[4] \in E /\ rest[5] \in E
          /\ rest[6] \in E /\ rest[7] \in E /\ rest[8] \in E /\ rest[9] \in E
      <3> HIDE DEF rest
      <3> QED OBVIOUS
    <2> HIDE DEF E
    <2> QED BY <2>1
  <1> HIDE DEF host, rest, E
  <1>9. host \in Seq(E) /\ rest \in Seq(E) /\ Len(host) = 2 /\ Len(rest) = 9
    BY <1>7, <1>8
  <1> DEFINE s == host \o rest
  <1>10. \A i \in 1 .. 2 + 9 : s[i] = IF i <= 2 THEN host[i] ELSE rest[i - 2]
    <2>1. \A i \in 1 .. Len(host) + Len(rest) :
             s[i] = IF i <= Len(host) THEN host[i] ELSE rest[i - Len(host)]
      BY ONLY <1>9, ConcatProperties
    <2> HIDE DEF s
    <2> QED BY ONLY <1>9, <2>1
  <1> HIDE DEF s
  <1>11. s[1] = host[1] /\ s[2] = host[2]
    BY ONLY <1>10
  <1>12. ASSUME NEW k \in 1 .. 9 PROVE s[k + 2] = rest[k]
    <2>1. k + 2 \in 1 .. 2 + 9 /\ ~(k + 2 <= 2) /\ k + 2 - 2 = k
      OBVIOUS
    <2> QED BY ONLY <1>10, <2>1
  <1>13. Ranking(x) = s
    BY <1>6 DEF s
  <1> QED BY <1>5, <1>7, <1>8, <1>11, <1>12, <1>13

\* What the Gateway API prefers, morePrecedent does.
LEMMA OutranksPrecedes ==
    ASSUME NEW x \in Rules, NEW y \in Rules, Outranks(x, y),
           x.match.type = "none" => x.match.path = <<>>,
           y.match.type = "none" => y.match.path = <<>>
    PROVE  morePrecedent(x, y)
  <1> DEFINE rx == Ranking(x)
             ry == Ranking(y)
             cx == Criteria(x)
             cy == Criteria(y)
             differ == {i \in 1 .. Len(cx) : cx[i] # cy[i]}
  <1>1. /\ rx[1] = (IF x.host.wild THEN 0 ELSE 1) /\ rx[2] = Len(x.host.labels)
        /\ ry[1] = (IF y.host.wild THEN 0 ELSE 1) /\ ry[2] = Len(y.host.labels)
        /\ Len(cx) = 9 /\ \A k \in 1 .. 9 : rx[k + 2] = cx[k] /\ ry[k + 2] = cy[k]
    BY RankingIsCriteria
  <1>2. morePrecedent(x, y) <=>
           \E i \in 1 .. 11 : rx[i] > ry[i] /\ \A j \in 1 .. i - 1 : rx[j] = ry[j]
    BY DEF morePrecedent
  <1>3. \/ Narrower(x.host, y.host)
        \/ x.host = y.host /\ differ # {} /\ cx[Min(differ)] > cy[Min(differ)]
    BY DEF Outranks
  <1> HIDE DEF rx, ry, cx, cy
  <1>4. CASE Narrower(x.host, y.host)
    <2>1. y.host.wild /\ Len(x.host.labels) > Len(y.host.labels)
      BY <1>4 DEF Narrower
    <2>2. CASE x.host.wild
      <3>1. rx[1] = ry[1] /\ rx[2] > ry[2]
        BY <1>1, <2>1, <2>2
      <3>2. \A j \in 1 .. 2 - 1 : rx[j] = ry[j]
        BY <3>1
      <3> QED BY <1>2, <3>1, <3>2
    <2>3. CASE ~x.host.wild
      <3>1. rx[1] > ry[1]
        BY <1>1, <2>1, <2>3
      <3> QED BY <1>2, <3>1
    <2> QED BY <2>2, <2>3
  <1>5. CASE x.host = y.host /\ differ # {} /\ cx[Min(differ)] > cy[Min(differ)]
    <2>1. differ \subseteq Nat /\ differ \subseteq 1 .. 9
      BY <1>1
    <2>2. Min(differ) \in differ /\ \A k \in differ : Min(differ) <= k
      BY <1>5, <2>1, MinIsLeast
    <2>3. PICK n \in 1 .. 9 : n = Min(differ)
      BY <2>1, <2>2
    <2>4. \A k \in 1 .. 9 : k < n => cx[k] = cy[k]
      BY <1>1, <2>2, <2>3
    <2> HIDE DEF differ
    <2>5. rx[n + 2] > ry[n + 2]
      BY <1>1, <1>5, <2>3
    <2>6. ASSUME NEW j \in 1 .. n + 2 - 1 PROVE rx[j] = ry[j]
      <3>1. CASE j <= 2
        BY <1>1, <1>5, <3>1
      <3>2. CASE j > 2
        <4>1. j - 2 \in 1 .. 9 /\ j - 2 < n /\ (j - 2) + 2 = j
          BY <3>2
        <4>2. cx[j - 2] = cy[j - 2]
          BY <2>4, <4>1
        <4>3. rx[(j - 2) + 2] = cx[j - 2] /\ ry[(j - 2) + 2] = cy[j - 2]
          BY <1>1, <4>1
        <4> QED BY <4>1, <4>2, <4>3
      <3> QED BY <3>1, <3>2
    <2>7. n + 2 \in 1 .. 11
      OBVIOUS
    <2> QED BY <1>2, <2>5, <2>6, <2>7
  <1> QED BY <1>3, <1>4, <1>5

\* A table of all rules answers with the rule that precedence names.
LEMMA TableAnswers ==
    ASSUME TypeOK, Tabled(table), NEW host, NEW path
    PROVE  LET matching(kinds) ==
                   {x \in AllRules : x.route.kind \in kinds /\ Matching(x, host, path)} IN
           IF matching(L7) # {} THEN Answer(host, path) \in Preferred(matching(L7))
           ELSE IF matching(RouteKinds) # {}
           THEN Answer(host, path) \in {<<x.route, x.index>> : x \in matching(RouteKinds)}
           ELSE Answer(host, path) = <<>>
  <1> DEFINE matching(kinds) ==
                 {x \in AllRules : x.route.kind \in kinds /\ Matching(x, host, path)}
             I == {i \in 1 .. Len(table) : Matching(table[i], host, path)}
  <1>1. /\ table \in Seq(Rules) /\ Len(table) \in Nat /\ DOMAIN table = 1 .. Len(table)
        /\ AllRules = {table[i] : i \in 1 .. Len(table)}
        /\ \A i, j \in 1 .. Len(table) : i < j => Precedes(table[i], table[j])
    BY LenProperties DEF Tabled, Range
  <1>2. ASSUME NEW x \in AllRules
        PROVE  /\ x \in Rules /\ x.route.kind \in RouteKinds
               /\ x.match.type = "none" => x.match.path = <<>>
    <2>1. PICK r \in Attached : x \in RouteRules(r)
      BY DEF AllRules
    <2>2. r \in Routes /\ IsSpec(r, routes[r]) /\ listeners \in ListenerSets
      BY SpecsAreSpecs DEF Attached, TypeOK
    <2>3. /\ x \in Rules /\ x.route = r
          /\ x.match.type = "none" => x.match.path = <<>>
      BY <2>1, <2>2, RouteRulesType
    <2>4. r.kind \in RouteKinds
      BY <2>2, RouteAssumption
    <2> QED BY <2>3, <2>4
  <1>3. Answer(host, path) = IF I = {} THEN <<>> ELSE <<table[Min(I)].route, table[Min(I)].index>>
    <2>1. SelectInSeq(table, LAMBDA x : Matching(x, host, path)) = IF I # {} THEN Min(I) ELSE 0
      BY DEF SelectInSeq
    <2>2. I # {} => Min(I) # 0
      <3>1. I \subseteq Nat
        BY <1>1
      <3>2. I # {} => Min(I) \in I
        BY <3>1, MinIsLeast
      <3> QED BY <3>2
    <2> HIDE DEF I
    <2>3. Answer(host, path)
          = LET i == IF I # {} THEN Min(I) ELSE 0 IN
            IF i = 0 THEN <<>> ELSE <<table[i].route, table[i].index>>
      BY <2>1 DEF Answer
    <2> QED BY <2>2, <2>3
  <1>4. ASSUME I # {}
        PROVE  /\ Min(I) \in I /\ \A i \in I : Min(I) <= i
    <2>1. I \subseteq Nat
      BY <1>1
    <2> QED BY <1>4, <2>1, MinIsLeast
  <1>5. \A x \in AllRules : Matching(x, host, path) => \E i \in I : table[i] = x
    BY <1>1
  <1>6. \A i \in I : table[i] \in AllRules /\ Matching(table[i], host, path)
    BY <1>1
  <1>7. CASE matching(L7) # {}
    <2>1. PICK y \in matching(L7) : TRUE
      BY <1>7
    <2>2. PICK k \in I : table[k] = y
      BY <1>5, <2>1
    <2>3. Min(I) \in I /\ \A i \in I : Min(I) <= i
      BY <1>4, <2>2
    <2> DEFINE n == Min(I)
               x == table[n]
    <2>4. /\ n \in I /\ (\A i \in I : n <= i) /\ n \in 1 .. Len(table)
          /\ \A i \in I : i \in 1 .. Len(table)
      BY <2>3
    <2>5. Answer(host, path) = <<x.route, x.index>>
      BY <1>3, <2>4
    <2> HIDE DEF n
    <2>6. ASSUME NEW z \in matching(L7)
          PROVE  x.route.kind \in L7 /\ ~morePrecedent(z, x)
      <3>1. PICK j \in I : table[j] = z
        BY <1>5
      <3>2. n = j \/ n < j
        BY <1>1, <2>4
      <3>3. CASE n = j
        BY <1>2, <3>1, <3>3, PrecedenceIsAnOrder
      <3>4. CASE n < j
        <4>1. Precedes(x, z)
          BY <1>1, <2>4, <3>1, <3>4
        <4> QED BY <4>1 DEF Precedes
      <3> QED BY <3>2, <3>3, <3>4
    <2>7. x \in AllRules /\ Matching(x, host, path)
      BY <1>6, <2>4
    <2> HIDE DEF x
    <2>8. x \in matching(L7)
      BY <2>1, <2>6, <2>7
    <2>9. ASSUME NEW z \in matching(L7) PROVE ~Outranks(z, x)
      BY <1>2, <2>6, <2>7, OutranksPrecedes
    <2>10. <<x.route, x.index>> \in Preferred(matching(L7))
      BY <2>8, <2>9 DEF Preferred
    <2> QED BY <1>7, <2>5, <2>10
  <1>8. CASE matching(L7) = {} /\ matching(RouteKinds) # {}
    <2>1. PICK y \in matching(RouteKinds) : TRUE
      BY <1>8
    <2>2. PICK k \in I : table[k] = y
      BY <1>5, <2>1
    <2>3. Min(I) \in I
      BY <1>4, <2>2
    <2>4. table[Min(I)] \in matching(RouteKinds)
      BY <1>2, <1>6, <2>3
    <2>5. Answer(host, path) = <<table[Min(I)].route, table[Min(I)].index>>
      BY <1>3, <2>3
    <2> HIDE DEF I
    <2> QED BY <1>8, <2>4, <2>5
  <1>9. CASE matching(L7) = {} /\ matching(RouteKinds) = {}
    <2>1. I = {}
      <3> SUFFICES ASSUME NEW i \in I PROVE FALSE
        OBVIOUS
      <3>1. table[i] \in matching(RouteKinds)
        BY <1>2, <1>6
      <3> QED BY <1>9, <3>1
    <2> QED BY <1>3, <1>9, <2>1
  <1> HIDE DEF matching
  <1> QED BY <1>7, <1>8, <1>9 DEF matching

\* The properties of the table and of route statuses follow from the invariant at rest.
LEMMA TableInvImplies ==
    ASSUME TableInv
    PROVE  TypeOK /\ ServesIntersection /\ MostSpecificWins /\ PartialIsCurrent
  <1>1. TypeOK
    BY DEF TableInv
  <1>2. Quiet => Tabled(table) /\ \A r \in Attached : status.routes[r] = Report(r)
    BY DEF TableInv, Quiet, Pushed, Reports
  <1>3. ServesIntersection
    BY <1>1, <1>2, TableServes DEF ServesIntersection
  <1>4. MostSpecificWins
    <2> SUFFICES ASSUME Quiet, NEW host \in Hosts, NEW path \in Paths
                 PROVE
                   LET matching(kinds) ==
                           {x \in AllRules : x.route.kind \in kinds /\ Matching(x, host, path)} IN
                   IF matching(L7) # {} THEN Answer(host, path) \in Preferred(matching(L7))
                   ELSE IF matching(RouteKinds) # {}
                   THEN Answer(host, path) \in {<<x.route, x.index>> : x \in matching(RouteKinds)}
                   ELSE Answer(host, path) = <<>>
      BY DEF MostSpecificWins, AllRules
    <2> QED BY <1>1, <1>2, TableAnswers
  <1>5. PartialIsCurrent
    <2> SUFFICES ASSUME Quiet, NEW r \in Attached, r.kind = "HTTPRoute", ~Shares(r)
                 PROVE  status.routes[r] = IF Unenforceable(r) THEN "partial" ELSE "accepted"
      BY DEF PartialIsCurrent
    <2> QED BY <1>1, <1>2, UnsupportedIsUnenforceable DEF Report
  <1> QED BY <1>1, <1>3, <1>4, <1>5

\* The loop's state has its types: whatever kinds of routes apply() collects, the sorted
\* ingress list is a sequence of rules, each with an index from one as Build*IngressRules
\* number them, and statuses are of the routes there are.
THEOREM TypeIsRight == Spec => []TypeOK
  BY TableInit, TableStep, TableInvImplies, PTL DEF Spec

\* Once no event is pending, a route with rules has a rule for exactly the hostnames it shares
\* with a listener it may attach to (routeAttachmentHostnames), however routes and listeners
\* changed during the passes and whatever failed between a pass's reading and its push.
THEOREM TheIntersectionIsServed == Spec => []ServesIntersection
  BY TableInit, TableStep, TableInvImplies, PTL DEF Spec

\* Once no event is pending, the first rule of the table that matches a request is one that
\* Gateway API precedence names (SortByPrecedence), in whatever order routes were listed, and
\* a TLS or TCP rule answers only what no HTTP or gRPC rule matches.
THEOREM TheMostSpecificWins == Spec => []MostSpecificWins
  BY TableInit, TableStep, TableInvImplies, PTL DEF Spec

\* Once no event is pending, an attached HTTPRoute that alone has its name says
\* PartiallyInvalid if and only if it asks for what a tunnel cannot tell apart
\* (collectUnsupportedMatchRoutes).
THEOREM PartialRoutesAreReported == Spec => []PartialIsCurrent
  BY TableInit, TableStep, TableInvImplies, PTL DEF Spec
=============================================================================

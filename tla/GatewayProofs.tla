---------------------------- MODULE GatewayProofs ----------------------------
(***************************************************************************)
(* Gateway for every configuration, every set of requests, and backends    *)
(* that fail and come back at any time.                                    *)
(***************************************************************************)
EXTENDS Gateway, FiniteSetTheorems, SequenceTheorems, TLAPS

(* The state, but for the balancers' weights.                              *)
PoolList == [names : Seq(Configured), fit : BOOLEAN, strategy : Strategies]

Enabled(p) == p.at \subseteq DOMAIN p.names /\ \A i \in p.at : p.names[i] \in Backends

PoolOf == [strategy : Strategies, names : Seq(Configured), at : SUBSET Nat]

Types ==
    /\ version \in Versions
    /\ healthy \in [Versions -> [Backends -> BOOLEAN]]
    /\ active \in [Versions -> [Backends -> Int]]
    /\ pc \in [Requests -> PCs] /\ on \in [Requests -> Versions]
    /\ kind \in [Requests -> Kinds] /\ gone \in [Requests -> BOOLEAN]
    /\ routes \in [Requests -> Seq(Route)] /\ pools \in [Requests -> Seq(PoolList)]
    /\ pool \in [Requests -> PoolOf] /\ \A r \in Requests : Enabled(pool[r])
    /\ order \in [Requests -> Seq(Backends)]
    /\ probe \in [on : Versions, at : 1..Len(Names), state : {"ask", "fine", "bad"}]
    /\ up \in [Backends -> BOOLEAN]
    /\ good \in [Requests -> SUBSET Backends]

(* Whoever calls has a backend to call.                                    *)
Calling == \A r \in Requests : pc[r] \in {"call", "succeeded", "failed"} => order[r] # <<>>

-----------------------------------------------------------------------------
(* Routes and pools.                                                       *)

LEMMA PlanType ==
    ASSUME NEW k \in Kinds
    PROVE  /\ Plan(k) \in Seq(Route) /\ Len(Plan(k)) \in Nat /\ Len(Plan(k)) >= 2
           /\ Plan(k)[Len(Plan(k))] = Everything
<1>0. <<>> \in Seq(Configured)
  OBVIOUS
<1>1. Everything \in Route /\ Defaults \in Route
  <2>1. Defaults \in Route
    BY GatewayAssumption
  <2> QED BY <1>0, <2>1 DEF Route, Everything
<1>2. Matching[k] \in Seq(Route)
  BY GatewayAssumption
<1> QED BY <1>1, <1>2 DEF Plan

LEMMA PoolsType ==
    ASSUME NEW route \in Route
    PROVE  /\ Pools(route) \in Seq(PoolList) /\ Len(Pools(route)) \in 2..3
           /\ Pools(route)[1] = [names |-> route.backends, fit |-> TRUE,
                                 strategy |-> route.strategy]
           /\ Pools(route)[2] = [names |-> route.fallback, fit |-> FALSE,
                                 strategy |-> Defaults.strategy]
<1> DEFINE p1 == [names |-> route.backends, fit |-> TRUE, strategy |-> route.strategy]
           p2 == [names |-> route.fallback, fit |-> FALSE, strategy |-> Defaults.strategy]
           p3 == [names |-> <<>>, fit |-> TRUE, strategy |-> route.strategy]
<1>1. p1 \in PoolList /\ p2 \in PoolList /\ p3 \in PoolList
  BY GatewayAssumption DEF PoolList, Route
<1>2. Pools(route) = <<p1, p2>> \o <<p3>> \/ Pools(route) = <<p1, p2>> \o <<>>
  BY Zenon DEF Pools
<1> HIDE DEF p1, p2, p3
<1>3. /\ <<p1, p2>> \in Seq(PoolList) /\ Len(<<p1, p2>>) = 2
      /\ <<p1, p2>>[1] = p1 /\ <<p1, p2>>[2] = p2
  BY <1>1
<1>4. <<p3>> \in Seq(PoolList) /\ Len(<<p3>>) = 1 /\ <<>> \in Seq(PoolList) /\ Len(<<>>) = 0
  BY <1>1
<1> HIDE DEF p1, p2, p3
<1>5. ASSUME NEW t \in Seq(PoolList), Len(t) \in 0..1, Pools(route) = <<p1, p2>> \o t
      PROVE  /\ Pools(route) \in Seq(PoolList) /\ Len(Pools(route)) \in 2..3
             /\ Pools(route)[1] = p1 /\ Pools(route)[2] = p2
  BY <1>3, <1>5, ConcatProperties
<1>6. /\ Pools(route) \in Seq(PoolList) /\ Len(Pools(route)) \in 2..3
      /\ Pools(route)[1] = p1 /\ Pools(route)[2] = p2
  <2>1. Len(<<p3>>) \in 0..1 /\ Len(<<>>) \in 0..1
    BY <1>4
  <2>2. CASE Pools(route) = <<p1, p2>> \o <<p3>>
    BY <1>4, <1>5, <2>1, <2>2
  <2>3. CASE Pools(route) = <<p1, p2>> \o <<>>
    BY <1>4, <1>5, <2>1, <2>3
  <2> QED BY <1>2, <2>2, <2>3
<1> QED BY <1>6 DEF p1, p2

LEMMA PoolsNames ==
    ASSUME NEW route \in Route
    PROVE  /\ Pools(route)[1].names = route.backends
           /\ Pools(route)[2].names = route.fallback /\ ~Pools(route)[2].fit
<1>1. \A p : p = [names |-> route.backends, fit |-> TRUE, strategy |-> route.strategy]
               => p.names = route.backends
  OBVIOUS
<1>2. \A p : p = [names |-> route.fallback, fit |-> FALSE, strategy |-> Defaults.strategy]
               => p.names = route.fallback /\ ~p.fit
  OBVIOUS
<1> QED BY Zenon, <1>1, <1>2, PoolsType

LEMMA AllOrType == ASSUME NEW s \in Seq(Configured) PROVE AllOr(s) \in Seq(Configured)
<1> QED BY GatewayAssumption, SeqMonotonic DEF AllOr

LEMMA CandidatesType ==
    ASSUME Types, NEW r \in Requests, NEW p \in PoolList
    PROVE  Candidates(r, p) \in PoolOf /\ Enabled(Candidates(r, p))
<1>1. AllOr(p.names) \in Seq(Configured)
  BY AllOrType DEF PoolList
<1>2. DOMAIN AllOr(p.names) \subseteq Nat
  BY <1>1
<1>3. Resolve(on[r], AllOr(p.names)) \subseteq DOMAIN AllOr(p.names)
      /\ \A i \in Resolve(on[r], AllOr(p.names)) : AllOr(p.names)[i] \in Backends
  BY DEF Resolve
<1> QED BY <1>1, <1>2, <1>3 DEF Candidates, PoolOf, PoolList, Enabled

-----------------------------------------------------------------------------
(* Type correctness.                                                       *)

LEMMA TypesInit == Init => Types
<1> SUFFICES ASSUME Init PROVE Types
  OBVIOUS
<1> USE GatewayAssumption
<1>1. 1 \in Versions /\ (CHOOSE k \in Kinds : TRUE) \in Kinds
  BY DEF Versions
<1>2. NoPool \in PoolOf /\ Enabled(NoPool)
  BY DEF NoPool, PoolOf, Enabled, Route
<1>3. Names # <<>> /\ 1 \in 1..Len(Names)
  <2>1. Len(Names) # 0
    BY DEF ToSet
  <2> QED BY <2>1
<1>4. <<>> \in Seq(Route) /\ <<>> \in Seq(PoolList) /\ <<>> \in Seq(Backends)
  OBVIOUS
<1> QED BY <1>1, <1>2, <1>3, <1>4 DEF Init, Types, PCs

LEMMA RememberType == ASSUME Types, Remember PROVE good' \in [Requests -> SUBSET Backends]
<1>1. \A r \in Requests :
         (IF pc'[r] = "idle" THEN {}
          ELSE (IF pc[r] = "idle" THEN Backends ELSE good[r])
               \cap {b \in Backends : up'[b] /\ healthy'[on'[r]][b]}) \in SUBSET Backends
  OBVIOUS
<1> QED BY <1>1 DEF Remember

(* What a step of a request does to the others: nothing.                   *)
Own(r) ==
    \A q \in Requests \ {r} :
        /\ pc'[q] = pc[q] /\ on'[q] = on[q] /\ kind'[q] = kind[q] /\ gone'[q] = gone[q]
        /\ routes'[q] = routes[q] /\ pools'[q] = pools[q] /\ pool'[q] = pool[q]
        /\ order'[q] = order[q]

(* The handler's types, and that it keeps to its request.                  *)
HandlerTypes ==
    /\ pc' \in [Requests -> PCs] /\ on' \in [Requests -> Versions]
    /\ kind' \in [Requests -> Kinds] /\ gone' \in [Requests -> BOOLEAN]
    /\ routes' \in [Requests -> Seq(Route)] /\ pools' \in [Requests -> Seq(PoolList)]
    /\ pool' \in [Requests -> PoolOf] /\ \A r \in Requests : Enabled(pool'[r])
    /\ order' \in [Requests -> Seq(Backends)]

LEMMA EndsType ==
    ASSUME Types, NEW r \in Requests, Ends(r) PROVE HandlerTypes /\ Own(r)
<1> USE GatewayAssumption
<1>1. 1 \in Versions /\ (CHOOSE k \in Kinds : TRUE) \in Kinds
  BY DEF Versions
<1>2. NoPool \in PoolOf /\ Enabled(NoPool)
  BY DEF NoPool, PoolOf, Enabled, Route
<1>3. /\ pc' = [pc EXCEPT ![r] = "idle"] /\ on' = [on EXCEPT ![r] = 1]
      /\ kind' = [kind EXCEPT ![r] = CHOOSE k \in Kinds : TRUE]
      /\ pool' = [pool EXCEPT ![r] = NoPool] /\ order' = [order EXCEPT ![r] = <<>>]
      /\ gone' = [gone EXCEPT ![r] = FALSE] /\ UNCHANGED <<routes, pools>>
  BY DEF Ends, Becomes
<1>4. <<>> \in Seq(Backends)
  OBVIOUS
<1> HIDE DEF NoPool
<1> QED BY <1>1, <1>2, <1>3, <1>4 DEF Types, PCs, HandlerTypes, Own

LEMMA ArriveType ==
    ASSUME Types, NEW r \in Requests, NEW k \in Kinds, Arrive(r, k) PROVE HandlerTypes /\ Own(r)
<1>1. Plan(k) \in Seq(Route) /\ Plan(k) # <<>>
  BY PlanType
<1>2. Tail(Plan(k)) \in Seq(Route) /\ Head(Plan(k)) \in Route
  BY <1>1
<1>3. Pools(Head(Plan(k))) \in Seq(PoolList)
  BY <1>2, PoolsType
<1>4. /\ pc' = [pc EXCEPT ![r] = "route"] /\ on' = [on EXCEPT ![r] = version]
      /\ kind' = [kind EXCEPT ![r] = k] /\ routes' = [routes EXCEPT ![r] = Tail(Plan(k))]
      /\ pools' = [pools EXCEPT ![r] = Pools(Head(Plan(k)))]
      /\ UNCHANGED <<pool, order, gone>>
  BY DEF Arrive, Becomes
<1> QED BY <1>2, <1>3, <1>4 DEF Types, PCs, HandlerTypes, Own

LEMMA OpenPoolType ==
    ASSUME Types, NEW r \in Requests, OpenPool(r) PROVE HandlerTypes /\ Own(r)
<1> DEFINE p == Candidates(r, Head(pools[r]))
<1>1. pools[r] \in Seq(PoolList) /\ pools[r] # <<>>
  BY DEF Types, OpenPool
<1>2. Head(pools[r]) \in PoolList /\ Tail(pools[r]) \in Seq(PoolList)
  BY <1>1
<1>3. p \in PoolOf /\ Enabled(p)
  BY <1>2, CandidatesType
<1>4. /\ pool' = [pool EXCEPT ![r] = p] /\ pools' = [pools EXCEPT ![r] = Tail(@)]
      /\ pc' = pc \/ pc' = [pc EXCEPT ![r] = "select"]
      /\ UNCHANGED <<on, kind, routes, order, gone>>
  BY DEF OpenPool, Becomes
<1> HIDE DEF p
<1> QED BY <1>2, <1>3, <1>4 DEF Types, PCs, HandlerTypes, Own

(* The backend selected is an enabled one that was not selected yet.       *)
LEMMA Selected ==
    ASSUME Types, NEW r \in Requests, Select(r)
    PROVE  \E i \in pool[r].at :
              /\ pool[r].names[i] \in Backends /\ pool[r].names[i] \notin ToSet(order[r])
              /\ order' = [order EXCEPT ![r] = Append(@, pool[r].names[i])]
              /\ \/ pc' = pc
                 \/ pc' = [pc EXCEPT ![r] = "route"] /\ Unused(pool[r], order'[r]) = {}
              /\ UNCHANGED <<version, healthy, active, on, kind, routes, pools, pool, gone, probe, up>>
<1>1. PICK i \in Unused(pool[r], order[r]) :
              /\ order' = [order EXCEPT ![r] = Append(@, pool[r].names[i])]
              /\ IF Unused(pool[r], order'[r]) = {} THEN Becomes(r, "route") ELSE UNCHANGED pc
  BY DEF Select
<1>2. i \in pool[r].at /\ pool[r].names[i] \notin ToSet(order[r])
  BY DEF Unused
<1> QED BY <1>1, <1>2 DEF Types, Enabled, Becomes, Select

LEMMA SelectType ==
    ASSUME Types, NEW r \in Requests, Select(r) PROVE HandlerTypes /\ Own(r)
<1>1. PICK b \in Backends :
              /\ order' = [order EXCEPT ![r] = Append(@, b)]
              /\ pc' = pc \/ pc' = [pc EXCEPT ![r] = "route"]
              /\ UNCHANGED <<on, kind, routes, pools, pool, gone>>
  BY Selected
<1>2. Append(order[r], b) \in Seq(Backends)
  BY DEF Types
<1> QED BY <1>1, <1>2 DEF Types, PCs, HandlerTypes, Own

LEMMA RouteType ==
    ASSUME Types, NEW r \in Requests, NextRoute(r) \/ Resolved(r) PROVE HandlerTypes /\ Own(r)
<1>1. CASE NextRoute(r)
  <2>1. routes[r] \in Seq(Route) /\ routes[r] # <<>>
    BY <1>1 DEF Types, NextRoute
  <2>2. Head(routes[r]) \in Route /\ Tail(routes[r]) \in Seq(Route)
    BY <2>1
  <2>3. Pools(Head(routes[r])) \in Seq(PoolList)
    BY <2>2, PoolsType
  <2> QED BY <1>1, <2>2, <2>3 DEF NextRoute, Types, HandlerTypes, Own
<1>2. CASE Resolved(r)
  <2>1. NoPool \in PoolOf /\ Enabled(NoPool)
    BY GatewayAssumption DEF NoPool, PoolOf, Enabled, Route
  <2>2. <<>> \in Seq(Route)
    OBVIOUS
  <2> HIDE DEF NoPool
  <2> QED BY <1>2, <2>1, <2>2 DEF Resolved, Becomes, Types, HandlerTypes, PCs, Own
<1> QED BY <1>1, <1>2

LEMMA FailoverType ==
    ASSUME Types, Calling, NEW r \in Requests,
           Try(r) \/ Return(r) \/ MarkFailure(r) \/ HangUp(r)
    PROVE  HandlerTypes /\ Own(r)
<1>1. order[r] \in Seq(Backends)
  BY DEF Types
<1>2. order[r] # <<>> => Tail(order[r]) \in Seq(Backends)
  BY <1>1
<1>3. CASE Try(r)
  <2>1. order' = order \/ (order' = [order EXCEPT ![r] = Tail(@)] /\ order[r] # <<>>)
    BY <1>3 DEF Try, TryGuard, Take
  <2>2. pc' = pc \/ pc' = [pc EXCEPT ![r] = "call"]
    BY <1>3 DEF Try, Take, Becomes
  <2>3. UNCHANGED <<on, kind, routes, pools, pool, gone>>
    BY <1>3 DEF Try, TryFrame
  <2>4. order' \in [Requests -> Seq(Backends)] /\ \A q \in Requests \ {r} : order'[q] = order[q]
    <3>1. order \in [Requests -> Seq(Backends)]
      BY DEF Types
    <3> QED BY <1>2, <2>1, <3>1
  <2> QED BY <2>2, <2>3, <2>4 DEF Types, HandlerTypes, PCs, Own
<1>4. CASE Return(r)
  BY <1>4 DEF Return, ReturnFrame, Answered, Errs, Becomes, Types, HandlerTypes, PCs, Own
<1>5. CASE MarkFailure(r)
  <2>1. order[r] # <<>>
    BY <1>5 DEF MarkFailure, Calling
  <2> QED BY <1>2, <1>5, <2>1 DEF MarkFailure, Becomes, Types, HandlerTypes, PCs, Own
<1>6. CASE HangUp(r)
  BY <1>6 DEF HangUp, Types, HandlerTypes, PCs, Own
<1> QED BY <1>3, <1>4, <1>5, <1>6

(* Every step of the next-state relation is one of these.                  *)
HandlerStep(r) ==
    \/ \E k \in Kinds : Arrive(r, k)
    \/ OpenPool(r) \/ Select(r) \/ NextRoute(r) \/ Resolved(r) \/ DryRun(r) \/ Refuse(r)
    \/ Try(r) \/ Return(r) \/ MarkSuccess(r) \/ MarkFailure(r) \/ Fail(r) \/ HangUp(r)

Background == HealthLoop \/ Apply \/ \E b \in Flaky : Toggle(b)

LEMMA StepCases ==
    ASSUME [Next]_vars
    PROVE  \/ Remember /\ \E r \in Requests : HandlerStep(r)
           \/ Remember /\ Background
           \/ UNCHANGED vars
<1> QED BY Zenon DEF Next, HandlerStep, ProxyHandler, Background

LEMMA HandlerStepType ==
    ASSUME Types, Calling, NEW r \in Requests, HandlerStep(r) PROVE HandlerTypes /\ Own(r)
<1>1. ASSUME DryRun(r) \/ Refuse(r) \/ MarkSuccess(r) \/ Fail(r) PROVE Ends(r)
  BY <1>1 DEF DryRun, Refuse, MarkSuccess, Fail
<1> QED BY <1>1, EndsType, ArriveType, OpenPoolType, SelectType, RouteType, FailoverType
        DEF HandlerStep

(* What the handlers share: the versions' flags and counts.                *)
LEMMA HandlerStepShared ==
    ASSUME Types, Calling, NEW r \in Requests, HandlerStep(r)
    PROVE  /\ UNCHANGED <<version, probe, up>>
           /\ \/ healthy' = healthy
              \/ \E h \in BOOLEAN : healthy' = [healthy EXCEPT ![on[r]][Backend(r)] = h]
           /\ \/ active' = active
              \/ Try(r) /\ Take(r)
              \/ Return(r)
<1>1. CASE \E k \in Kinds : Arrive(r, k)
  BY <1>1 DEF Arrive, runtimeVars
<1>2. CASE OpenPool(r) \/ NextRoute(r) \/ Resolved(r) \/ HangUp(r)
  BY <1>2 DEF OpenPool, NextRoute, Resolved, HangUp, runtimeVars
<1>3. CASE Select(r)
  BY <1>3 DEF Select
<1>4. CASE DryRun(r) \/ Refuse(r) \/ Fail(r)
  BY <1>4 DEF DryRun, Refuse, Fail, Ends
<1>5. CASE Try(r)
  BY <1>5 DEF Try, TryFrame
<1>6. CASE Return(r)
  BY <1>6 DEF Return, ReturnFrame
<1>7. CASE MarkSuccess(r)
  BY <1>7 DEF MarkSuccess, Ends
<1>8. CASE MarkFailure(r)
  BY <1>8 DEF MarkFailure
<1> QED BY <1>1, <1>2, <1>3, <1>4, <1>5, <1>6, <1>7, <1>8 DEF HandlerStep

LEMMA BackgroundType ==
    ASSUME Types, Background
    PROVE  /\ UNCHANGED <<requestVars, active>>
           /\ version' \in Versions /\ healthy' \in [Versions -> [Backends -> BOOLEAN]]
           /\ probe' \in [on : Versions, at : 1..Len(Names), state : {"ask", "fine", "bad"}]
           /\ up' \in [Backends -> BOOLEAN]
<1>0. Names \in Seq(Backends) /\ Len(Names) \in Nat /\ 1 \in 1..Len(Names)
  <2>1. Names \in Seq(Backends) /\ ToSet(Names) = Backends /\ Backends # {}
    BY GatewayAssumption
  <2>2. Len(Names) # 0
    BY <2>1 DEF ToSet
  <2> QED BY <2>1, <2>2
<1>1. CASE Ask
  <2>1. probe' = [probe EXCEPT !.state = IF up[Names[probe.at]] THEN "fine" ELSE "bad"]
    BY <1>1 DEF Ask
  <2>2. probe' \in [on : Versions, at : 1..Len(Names), state : {"ask", "fine", "bad"}]
    BY <2>1 DEF Types
  <2> QED BY <1>1, <2>2 DEF Ask, Types, runtimeVars
<1>2. CASE Check
  <2>1. \/ /\ probe.at < Len(Names)
           /\ probe' = [on |-> probe.on, at |-> probe.at + 1, state |-> "ask"]
        \/ probe' = [on |-> version, at |-> 1, state |-> "ask"]
    BY <1>2 DEF Check, Advance, NextRound
  <2>2. probe' \in [on : Versions, at : 1..Len(Names), state : {"ask", "fine", "bad"}]
    BY <1>0, <2>1 DEF Types
  <2>3. healthy' = [healthy EXCEPT ![probe.on][Names[probe.at]] = (probe.state = "fine")]
    BY <1>2 DEF Check
  <2>4. (probe.state = "fine") \in BOOLEAN
    OBVIOUS
  <2>5. healthy' \in [Versions -> [Backends -> BOOLEAN]]
    BY <2>3, <2>4 DEF Types
  <2> QED BY <1>2, <2>2, <2>5 DEF Check, Types
<1>3. CASE Apply
  <2>1. version' \in Versions
    BY <1>3, GatewayAssumption DEF Apply, Types, Versions
  <2> QED BY <1>3, <2>1 DEF Apply, Types
<1>4. CASE \E b \in Flaky : Toggle(b)
  <2>1. PICK b \in Flaky : Toggle(b)
    BY <1>4
  <2>2. up' \in [Backends -> BOOLEAN]
    BY <2>1 DEF Toggle, Types
  <2> QED BY <2>1, <2>2 DEF Toggle, Types, runtimeVars
<1> QED BY <1>1, <1>2, <1>3, <1>4 DEF Background, HealthLoop

LEMMA TypesStep == Types /\ Calling /\ [Next]_vars => Types'
<1> SUFFICES ASSUME Types, Calling, [Next]_vars PROVE Types'
  OBVIOUS
<1>1. ASSUME Remember, NEW r \in Requests, HandlerStep(r) PROVE Types'
  <2>1. HandlerTypes /\ good' \in [Requests -> SUBSET Backends]
    BY <1>1, HandlerStepType, RememberType
  <2>2. UNCHANGED <<version, probe, up>>
    BY <1>1, HandlerStepShared
  <2>3. healthy' \in [Versions -> [Backends -> BOOLEAN]]
    <3>1. CASE healthy' = healthy
      BY <3>1 DEF Types
    <3>2. ASSUME NEW h \in BOOLEAN, healthy' = [healthy EXCEPT ![on[r]][Backend(r)] = h]
          PROVE  healthy' \in [Versions -> [Backends -> BOOLEAN]]
      <4>1. healthy[on[r]] \in [Backends -> BOOLEAN] /\ on[r] \in Versions
        BY DEF Types
      <4>2. [healthy[on[r]] EXCEPT ![Backend(r)] = h] \in [Backends -> BOOLEAN]
        BY <4>1
      <4> QED BY <3>2, <4>2 DEF Types
    <3> QED BY <1>1, <3>1, <3>2, HandlerStepShared
  <2>4. active' \in [Versions -> [Backends -> Int]]
    <3>1. CASE active' = active
      BY <3>1 DEF Types
    <3>2. ASSUME NEW d \in Int, active' = [active EXCEPT ![on[r]][Backend(r)] = @ + d]
          PROVE  active' \in [Versions -> [Backends -> Int]]
      <4>1. active[on[r]] \in [Backends -> Int] /\ on[r] \in Versions
        BY DEF Types
      <4>2. CASE Backend(r) \in Backends
        <5>1. active[on[r]][Backend(r)] + d \in Int
          BY <4>1, <4>2
        <5> QED BY <3>2, <4>1, <5>1 DEF Types
      <4>3. CASE Backend(r) \notin Backends
        <5>1. [active[on[r]] EXCEPT ![Backend(r)] = @ + d] = active[on[r]]
          BY <4>1, <4>3
        <5> QED BY <3>2, <4>1, <5>1 DEF Types
      <4> QED BY <4>2, <4>3
    <3>3. Try(r) /\ Take(r) => active' = [active EXCEPT ![on[r]][Backend(r)] = @ + 1]
      BY DEF Take
    <3>4. Return(r) => active' = [active EXCEPT ![on[r]][Backend(r)] = @ + (-1)]
      <4>1. ASSUME Return(r) PROVE active' = [active EXCEPT ![on[r]][Backend(r)] = @ - 1]
        BY <4>1 DEF Return, DecActive
      <4> QED BY <4>1
    <3> QED BY <1>1, <3>1, <3>2, <3>3, <3>4, HandlerStepShared
  <2> QED BY <2>1, <2>2, <2>3, <2>4 DEF Types, HandlerTypes
<1>2. CASE Remember /\ Background
  BY <1>2, BackgroundType, RememberType DEF Types, requestVars
<1>3. CASE UNCHANGED vars
  BY <1>3 DEF vars, state, runtimeVars, requestVars, Types
<1> QED BY <1>1, <1>2, <1>3, StepCases

LEMMA CallingStep == Types /\ Calling /\ [Next]_vars => Calling'
<1> SUFFICES ASSUME Types, Calling, [Next]_vars PROVE Calling'
  OBVIOUS
<1>1. ASSUME NEW r \in Requests, HandlerStep(r) PROVE Calling'
  <2>1. Own(r)
    BY <1>1, HandlerStepType
  <2>2. CASE Select(r)
    <3>1. PICK b \in Backends : order' = [order EXCEPT ![r] = Append(@, b)]
      BY <2>2, Selected
    <3>2. order[r] \in Seq(Backends)
      BY DEF Types
    <3>3. Append(order[r], b) # <<>>
      BY <3>2, AppendProperties
    <3> QED BY <2>1, <3>1, <3>3 DEF Calling, Own, Types
  <2>3. CASE ~Select(r)
    <3>1. pc'[r] \in {"call", "succeeded", "failed"} => order'[r] # <<>>
      BY <1>1, <2>3 DEF HandlerStep, Arrive, OpenPool, NextRoute, Resolved, DryRun, Refuse, Ends,
           Try, TryGuard, Take, Return, ReturnFrame, Answered, Errs, MarkSuccess, MarkFailure,
           Fail, HangUp, Becomes, Types, Calling
    <3> QED BY <2>1, <3>1 DEF Calling, Own
  <2> QED BY <2>2, <2>3
<1>2. CASE Background
  BY <1>2, BackgroundType DEF requestVars, Calling
<1>3. CASE UNCHANGED vars
  BY <1>3 DEF vars, state, requestVars, Calling
<1> QED BY <1>1, <1>2, <1>3, StepCases

-----------------------------------------------------------------------------
(* No backend is in a request's list twice.                                *)

LEMMA Appended ==
    ASSUME NEW S, NEW s \in Seq(S), NEW b \in S
    PROVE  /\ ToSet(Append(s, b)) = ToSet(s) \cup {b}
           /\ IsInjective(s) /\ b \notin ToSet(s) => IsInjective(Append(s, b))
<1> DEFINE t == Append(s, b)
<1>1. /\ Len(t) = Len(s) + 1 /\ DOMAIN t = 1 .. Len(s) + 1 /\ DOMAIN s = 1 .. Len(s)
      /\ \A i \in 1 .. Len(s) : t[i] = s[i]
      /\ t[Len(s) + 1] = b /\ Len(s) \in Nat
  BY AppendProperties, LenProperties
<1> HIDE DEF t
<1>2. ToSet(t) = ToSet(s) \cup {b}
  BY <1>1 DEF ToSet
<1>3. ASSUME IsInjective(s), b \notin ToSet(s) PROVE IsInjective(t)
  BY <1>1, <1>3 DEF ToSet, IsInjective
<1> QED BY <1>2, <1>3 DEF t

LEMMA Shortened ==
    ASSUME NEW S, NEW s \in Seq(S), s # <<>>
    PROVE  /\ ToSet(s) = ToSet(Tail(s)) \cup {Head(s)}
           /\ IsInjective(s) => IsInjective(Tail(s))
<1> DEFINE t == Tail(s)
<1>1. /\ Len(t) = Len(s) - 1 /\ DOMAIN t = 1 .. Len(s) - 1 /\ DOMAIN s = 1 .. Len(s)
      /\ \A i \in 1 .. Len(s) - 1 : t[i] = s[i + 1]
      /\ Head(s) = s[1] /\ Len(s) \in Nat /\ Len(s) >= 1
  BY HeadTailProperties, LenProperties, EmptySeq
<1> HIDE DEF t
<1>2. ToSet(s) \subseteq ToSet(t) \cup {s[1]}
  <2> SUFFICES ASSUME NEW i \in 1 .. Len(s), i # 1 PROVE s[i] \in ToSet(t)
    BY <1>1 DEF ToSet
  <2>1. i - 1 \in 1 .. Len(s) - 1 /\ t[i - 1] = s[i]
    BY <1>1
  <2> QED BY <1>1, <2>1 DEF ToSet
<1>3. ToSet(t) \cup {s[1]} \subseteq ToSet(s)
  BY <1>1 DEF ToSet
<1>4. ASSUME IsInjective(s) PROVE IsInjective(t)
  <2> SUFFICES ASSUME NEW i \in 1 .. Len(s) - 1, NEW j \in 1 .. Len(s) - 1, t[i] = t[j]
               PROVE  i = j
    BY <1>1 DEF IsInjective
  <2>1. s[i + 1] = s[j + 1] /\ i + 1 \in 1 .. Len(s) /\ j + 1 \in 1 .. Len(s)
    BY <1>1
  <2>2. i + 1 = j + 1
    BY <1>1, <1>4, <2>1 DEF IsInjective
  <2> QED BY <2>2
<1> QED BY <1>1, <1>2, <1>3, <1>4 DEF t

(* What a step does to the list of its request.                            *)
LEMMA OrderStep ==
    ASSUME Types, Calling, NEW r \in Requests, HandlerStep(r)
    PROVE  \/ order'[r] = order[r]
           \/ order'[r] = <<>>
           \/ order[r] # <<>> /\ order'[r] = Tail(order[r])
           \/ \E b \in Backends : b \notin ToSet(order[r]) /\ order'[r] = Append(order[r], b)
<1>1. CASE Select(r)
  <2>1. PICK i \in pool[r].at :
           /\ pool[r].names[i] \in Backends /\ pool[r].names[i] \notin ToSet(order[r])
           /\ order' = [order EXCEPT ![r] = Append(@, pool[r].names[i])]
    BY <1>1, Selected
  <2>2. order'[r] = Append(order[r], pool[r].names[i])
    BY <2>1 DEF Types
  <2> QED BY <2>1, <2>2
<1>2. CASE ~Select(r)
  BY <1>2 DEF HandlerStep, Arrive, OpenPool, NextRoute, Resolved, DryRun, Refuse, Ends,
       Try, TryGuard, Take, Return, ReturnFrame, MarkSuccess, MarkFailure, Fail, HangUp,
       Types, Calling
<1> QED BY <1>1, <1>2

LEMMA NoneTwiceStep == Types /\ Calling /\ NoneTwice /\ [Next]_vars => NoneTwice'
<1> SUFFICES ASSUME Types, Calling, NoneTwice, [Next]_vars PROVE NoneTwice'
  OBVIOUS
<1>1. ASSUME NEW r \in Requests, HandlerStep(r) PROVE NoneTwice'
  <2>1. order[r] \in Seq(Backends) /\ IsInjective(order[r])
    BY DEF Types, NoneTwice
  <2>2. IsInjective(<<>>)
    BY DEF IsInjective
  <2>3. IsInjective(order'[r])
    <3>1. order[r] # <<>> => IsInjective(Tail(order[r]))
      BY <2>1, Shortened
    <3>2. \A b \in Backends : b \notin ToSet(order[r]) => IsInjective(Append(order[r], b))
      BY <2>1, Appended
    <3> QED BY <1>1, <2>1, <2>2, <3>1, <3>2, OrderStep
  <2>4. \A q \in Requests \ {r} : order'[q] = order[q]
    BY <1>1, HandlerStepType DEF Own
  <2> QED BY <2>3, <2>4 DEF NoneTwice
<1>2. CASE Background
  BY <1>2, BackgroundType DEF requestVars, NoneTwice
<1>3. CASE UNCHANGED vars
  BY <1>3 DEF vars, state, requestVars, NoneTwice
<1> QED BY <1>1, <1>2, <1>3, StepCases

-----------------------------------------------------------------------------
(* The connections counted are the calls under way.                        *)

Calls(v, b) == {r \in Requests : pc[r] = "call" /\ on[r] = v /\ Backend(r) = b}

LEMMA CallsFinite == \A v, b : IsFiniteSet(Calls(v, b)) /\ IsFiniteSet(Calls(v, b)')
<1> SUFFICES ASSUME NEW v, NEW b PROVE IsFiniteSet(Calls(v, b)) /\ IsFiniteSet(Calls(v, b)')
  OBVIOUS
<1>1. IsFiniteSet(Requests)
  BY GatewayAssumption
<1>2. Calls(v, b) \subseteq Requests /\ Calls(v, b)' \subseteq Requests
  BY DEF Calls
<1> QED BY <1>1, <1>2, FS_Subset

(* A step that neither begins nor ends a call leaves the calls alone.      *)
LEMMA SameCalls ==
    ASSUME NEW r \in Requests, Own(r), pc[r] # "call",  pc'[r] # "call", NEW v, NEW b
    PROVE  Calls(v, b)' = Calls(v, b)
<1> QED BY DEF Own, Calls, Backend

LEMMA CountedStep == Types /\ Calling /\ ActiveCounted /\ [Next]_vars => ActiveCounted'
<1> SUFFICES ASSUME Types, Calling, ActiveCounted, [Next]_vars,
                    NEW v \in Versions, NEW b \in Backends
             PROVE  active'[v][b] = Cardinality(Calls(v, b)')
  BY DEF ActiveCounted, Calls
<1>0. active[v][b] = Cardinality(Calls(v, b)) /\ active[v][b] \in Int
  BY DEF ActiveCounted, Calls, Types
<1>1. ASSUME NEW r \in Requests, HandlerStep(r)
      PROVE  active'[v][b] = Cardinality(Calls(v, b)')
  <2>1. Own(r)
    BY <1>1, HandlerStepType
  <2>2. ASSUME Try(r), Take(r) PROVE active'[v][b] = Cardinality(Calls(v, b)')
    <3>1. /\ pc[r] = "try" /\ pc'[r] = "call" /\ on'[r] = on[r] /\ order'[r] = order[r]
          /\ active' = [active EXCEPT ![on[r]][Backend(r)] = @ + 1]
      BY <2>2 DEF Try, TryGuard, TryFrame, Take, Becomes, Types
    <3>2. CASE v = on[r] /\ b = Backend(r)
      <4>1. Calls(v, b)' = Calls(v, b) \cup {r} /\ r \notin Calls(v, b)
        BY <2>1, <3>1, <3>2 DEF Own, Calls, Backend
      <4>2. Cardinality(Calls(v, b)') = Cardinality(Calls(v, b)) + 1
        BY <4>1, CallsFinite, FS_AddElement
      <4>3. active'[v][b] = active[v][b] + 1
        BY <3>1, <3>2 DEF Types
      <4> QED BY <1>0, <4>2, <4>3
    <3>3. CASE ~(v = on[r] /\ b = Backend(r))
      <4>1. Calls(v, b)' = Calls(v, b)
        BY <2>1, <3>1, <3>3 DEF Own, Calls, Backend
      <4>2. active'[v][b] = active[v][b]
        BY <3>1, <3>3 DEF Types
      <4> QED BY <1>0, <4>1, <4>2
    <3> QED BY <3>2, <3>3
  <2>3. ASSUME Return(r) PROVE active'[v][b] = Cardinality(Calls(v, b)')
    <3>1. /\ pc[r] = "call" /\ pc'[r] # "call" /\ on'[r] = on[r] /\ order'[r] = order[r]
          /\ active' = [active EXCEPT ![on[r]][Backend(r)] = @ - 1]
      BY <2>3 DEF Return, ReturnFrame, Answered, Errs, DecActive, Becomes, Types
    <3>2. CASE v = on[r] /\ b = Backend(r)
      <4>1. Calls(v, b)' = Calls(v, b) \ {r} /\ r \in Calls(v, b)
        BY <2>1, <3>1, <3>2 DEF Own, Calls, Backend
      <4>2. Cardinality(Calls(v, b)') = Cardinality(Calls(v, b)) - 1
        BY <4>1, CallsFinite, FS_RemoveElement
      <4>3. active'[v][b] = active[v][b] - 1
        BY <3>1, <3>2 DEF Types
      <4> QED BY <1>0, <4>2, <4>3
    <3>3. CASE ~(v = on[r] /\ b = Backend(r))
      <4>1. Calls(v, b)' = Calls(v, b)
        BY <2>1, <3>1, <3>3 DEF Own, Calls, Backend
      <4>2. active'[v][b] = active[v][b]
        BY <3>1, <3>3 DEF Types
      <4> QED BY <1>0, <4>1, <4>2
    <3> QED BY <3>2, <3>3
  <2>4. CASE ~(Try(r) /\ Take(r)) /\ ~Return(r)
    <3>1. active' = active
      BY <1>1, <2>4, HandlerStepShared
    <3>2. CASE HangUp(r)
      <4>1. Calls(v, b)' = Calls(v, b)
        BY <3>2 DEF HangUp, Calls, Backend
      <4> QED BY <1>0, <3>1, <4>1
    <3>3. CASE Select(r)
      <4>1. pc[r] # "call" /\ pc'[r] # "call"
        BY <3>3, Selected DEF Select, Types
      <4> QED BY <1>0, <2>1, <3>1, <4>1, SameCalls
    <3>4. CASE ~HangUp(r) /\ ~Select(r)
      <4>1. pc[r] # "call" /\ pc'[r] # "call"
        BY <1>1, <2>4, <3>4 DEF HandlerStep, Arrive, OpenPool, NextRoute, Resolved, DryRun, Refuse,
             Ends, Try, TryGuard, MarkSuccess, MarkFailure, Fail, Becomes, Types
      <4> QED BY <1>0, <2>1, <3>1, <4>1, SameCalls
    <3> QED BY <3>2, <3>3, <3>4
  <2> QED BY <2>2, <2>3, <2>4
<1>2. CASE Background \/ UNCHANGED vars
  <2>1. UNCHANGED <<pc, on, order, active>>
    BY <1>2, BackgroundType DEF requestVars, vars, state, runtimeVars
  <2> QED BY <1>0, <2>1 DEF Calls, Backend
<1> QED BY <1>1, <1>2, StepCases

-----------------------------------------------------------------------------
(* Failover.                                                               *)

(* The backends a pool offers to a kind of request, when they are healthy. *)
Offer(k, p) ==
    {b \in Backends \cap ToSet(AllOr(p.names)) : p.fit => b \in FilterByContext(Backends, Tokens[k])}

Selecting(r) == IF pc[r] = "select" THEN {pool[r].names[i] : i \in pool[r].at} ELSE {}

(* The request has opened m pools of the n-th route of its plan: what they *)
(* offered and was good since is in its list, or about to be; and nothing  *)
(* reachable is good any more if the first route gave nothing.             *)
Walk(r, n, m) ==
    LET plan == Plan(kind[r])
        list == Pools(plan[n])
    IN  /\ routes[r] = SubSeq(plan, n + 1, Len(plan)) /\ pools[r] = SubSeq(list, m + 1, Len(list))
        /\ \A j \in 1..m : good[r] \cap Offer(kind[r], list[j]) \subseteq ToSet(order[r]) \cup Selecting(r)
        /\ n > 1 => good[r] \cap Reachable(kind[r]) = {}

Searched(r) ==
    pc[r] \in {"route", "select"} =>
        \E n \in 1..Len(Plan(kind[r])) : \E m \in 0..Len(Pools(Plan(kind[r])[n])) : Walk(r, n, m)

Listed(r) ==
    pc[r] \in {"try", "call", "succeeded", "failed"} =>
        good[r] \cap Reachable(kind[r]) \subseteq ToSet(order[r])

Covered == \A r \in Requests : Searched(r) /\ Listed(r)

(* Good backends are lost, never gained, on the way.                       *)
LEMMA GoodStep ==
    ASSUME Types, Remember, NEW r \in Requests
    PROVE  /\ pc'[r] = "idle" => good'[r] = {}
           /\ pc[r] # "idle" => good'[r] \subseteq good[r]
           /\ \A b \in good'[r] : b \in Backends /\ healthy'[on'[r]][b]
<1>1. good'[r] = IF pc'[r] = "idle" THEN {}
                 ELSE (IF pc[r] = "idle" THEN Backends ELSE good[r])
                      \cap {b \in Backends : up'[b] /\ healthy'[on'[r]][b]}
  BY DEF Remember
<1> QED BY <1>1

LEMMA ReachableOffer ==
    ASSUME NEW k \in Kinds
    PROVE  LET list == Pools(Plan(k)[1])
           IN  Reachable(k) \subseteq Offer(k, list[1]) \cup Offer(k, list[2])
<1>1. Plan(k) \in Seq(Route) /\ Plan(k) # <<>> /\ Plan(k)[1] \in Route
  BY PlanType
<1>2. Head(Plan(k)) = Plan(k)[1]
  BY <1>1
<1> DEFINE route == Plan(k)[1]
           list == Pools(route)
<1>3. list[1].names = route.backends /\ list[2].names = route.fallback /\ ~list[2].fit
  BY <1>1, PoolsNames
<1> HIDE DEF list, route
<1>4. Reachable(k) = Backends \cap ( FilterByContext(ToSet(AllOr(route.backends)) \cap Backends, Tokens[k])
                                     \cup ToSet(AllOr(route.fallback)) )
  BY Zenon, <1>2 DEF Reachable, route
<1>5. Reachable(k) \subseteq Offer(k, list[1]) \cup Offer(k, list[2])
  BY <1>3, <1>4 DEF Offer, FilterByContext
<1> QED BY <1>5 DEF list, route

(* The last route leaves nobody out.                                       *)
LEMMA EverythingOffered ==
    ASSUME NEW k \in Kinds
    PROVE  Offer(k, Pools(Everything)[2]) = Backends
<1>1. Everything \in Route
  BY PlanType
<1>4. Pools(Everything)[2].names = Everything.fallback /\ ~Pools(Everything)[2].fit
  BY <1>1, PoolsNames
<1>5. Everything.fallback = <<>>
  BY DEF Everything
<1>2. Pools(Everything)[2].names = <<>> /\ ~Pools(Everything)[2].fit
  BY <1>4, <1>5
<1>3. AllOr(<<>>) = Names /\ ToSet(Names) = Backends
  BY GatewayAssumption DEF AllOr
<1> QED BY <1>2, <1>3 DEF Offer

(* What a pool offers and is healthy is among its candidates.              *)
LEMMA CandidatesOffered ==
    ASSUME Types, NEW r \in Requests, NEW p \in PoolList,
           NEW b \in Offer(kind[r], p), healthy[on[r]][b]
    PROVE  \E i \in Candidates(r, p).at : Candidates(r, p).names[i] = b
<1> DEFINE names == AllOr(p.names)
           resolved == Resolve(on[r], names)
           fitting == {i \in resolved : names[i] \in FilterByContext(Backends, Tokens[kind[r]])}
<1>1. PICK i \in DOMAIN names : names[i] = b
  BY DEF Offer, ToSet
<1>2. i \in resolved
  BY <1>1 DEF Resolve, Offer
<1>3. p.fit => i \in fitting
  BY <1>1, <1>2 DEF Offer
<1>4. Candidates(r, p) = [strategy |-> p.strategy, names |-> names,
         at |-> IF p.fit /\ (fitting # {} \/ p.names = <<>>) THEN fitting ELSE resolved]
  BY DEF Candidates
<1>5. i \in Candidates(r, p).at /\ Candidates(r, p).names = names
  BY <1>2, <1>3, <1>4
<1> QED BY <1>1, <1>5

(* The rest of a sequence after its first i elements.                      *)
LEMMA Rest ==
    ASSUME NEW S, NEW s \in Seq(S), NEW i \in 0..Len(s)
    PROVE  /\ SubSeq(s, 1, Len(s)) = s
           /\ i = Len(s) => SubSeq(s, i + 1, Len(s)) = <<>>
           /\ i < Len(s) => /\ SubSeq(s, i + 1, Len(s)) # <<>>
                            /\ Head(SubSeq(s, i + 1, Len(s))) = s[i + 1]
                            /\ Tail(SubSeq(s, i + 1, Len(s))) = SubSeq(s, (i + 1) + 1, Len(s))
<1>0. Len(s) \in Nat /\ \A j \in 1..Len(s) : s[j] \in S
  BY LenProperties
<1>1. SubSeq(s, 1, Len(s)) = s
  BY SubSeqFull
<1>2. i = Len(s) => SubSeq(s, i + 1, Len(s)) = <<>>
  BY <1>0, SubSeqEmpty
<1>3. ASSUME i < Len(s)
      PROVE  /\ SubSeq(s, i + 1, Len(s)) # <<>>
             /\ Head(SubSeq(s, i + 1, Len(s))) = s[i + 1]
             /\ Tail(SubSeq(s, i + 1, Len(s))) = SubSeq(s, (i + 1) + 1, Len(s))
  <2>1. i + 1 \in 1..Len(s) /\ Len(s) \in i + 1 .. Len(s)
    BY <1>0, <1>3
  <2>2. /\ Head(SubSeq(s, i + 1, Len(s))) = s[i + 1]
        /\ Tail(SubSeq(s, i + 1, Len(s))) = SubSeq(s, (i + 1) + 1, Len(s))
    BY <2>1, HeadTailOfSubSeq
  <2>3. SubSeq(s, i + 1, Len(s)) = <<s[i + 1]>> \o SubSeq(s, (i + 1) + 1, Len(s))
    BY <2>1, SubSeqRecursiveFirst
  <2>4. SubSeq(s, i + 1, Len(s)) \in Seq(S) /\ Len(SubSeq(s, i + 1, Len(s))) = Len(s) - i
    <3>1. \A j \in i + 1 .. Len(s) : s[j] \in S
      BY <1>0
    <3>2. i + 1 \in Int /\ Len(s) \in Int /\ Len(s) - (i + 1) + 1 = Len(s) - i
      BY <1>0
    <3> QED BY <1>0, <2>1, <3>1, <3>2, SubSeqProperties
  <2>5. Len(s) - i # 0
    BY <1>0, <1>3
  <2> QED BY <2>2, <2>4, <2>5, EmptySeq
<1> QED BY Zenon, <1>1, <1>2, <1>3

LEMMA ListTypes ==
    ASSUME NEW k \in Kinds, NEW n \in 1..Len(Plan(k))
    PROVE  /\ Plan(k)[n] \in Route /\ Pools(Plan(k)[n]) \in Seq(PoolList)
           /\ Len(Pools(Plan(k)[n])) \in 2..3
           /\ \A m \in 1..Len(Pools(Plan(k)[n])) : Pools(Plan(k)[n])[m] \in PoolList
<1>1. Plan(k)[n] \in Route
  BY PlanType
<1>2. Pools(Plan(k)[n]) \in Seq(PoolList) /\ Len(Pools(Plan(k)[n])) \in 2..3
  BY <1>1, PoolsType
<1> HIDE DEF Pools
<1> QED BY <1>1, <1>2, ElementOfSeq

(* A request of which nothing but its good backends changes stays covered. *)
LEMMA StaysCovered ==
    ASSUME Types, Remember, NEW r \in Requests, Searched(r), Listed(r),
           pc'[r] = pc[r], kind'[r] = kind[r], routes'[r] = routes[r], pools'[r] = pools[r],
           pool'[r] = pool[r], order'[r] = order[r]
    PROVE  Searched(r)' /\ Listed(r)'
<1>1. CASE pc[r] = "idle"
  BY <1>1 DEF Searched, Listed
<1>2. CASE pc[r] # "idle"
  <2>1. good'[r] \subseteq good[r]
    BY <1>2, GoodStep
  <2>2. Listed(r)'
    BY <2>1 DEF Listed
  <2>3. ASSUME NEW n, NEW m, Walk(r, n, m) PROVE Walk(r, n, m)'
    <3>1. Selecting(r)' = Selecting(r)
      BY DEF Selecting
    <3>2. kind[r]' = kind[r] /\ routes[r]' = routes[r] /\ pools[r]' = pools[r] /\ order[r]' = order[r]
          /\ good[r]' \subseteq good[r]
      BY <2>1
    <3> QED BY <2>3, <3>1, <3>2 DEF Walk
  <2>4. Searched(r)'
    BY <2>3 DEF Searched
  <2> QED BY <2>2, <2>4
<1> QED BY <1>1, <1>2

LEMMA ArriveCovered ==
    ASSUME Types, NEW r \in Requests, NEW k \in Kinds, Arrive(r, k)
    PROVE  Searched(r)' /\ Listed(r)'
<1> DEFINE plan == Plan(k)
           list == Pools(plan[1])
<1>1. /\ pc'[r] = "route" /\ kind'[r] = k
      /\ routes'[r] = Tail(plan) /\ pools'[r] = Pools(Head(plan))
  BY DEF Arrive, Becomes, Types
<1>2. plan \in Seq(Route) /\ Len(plan) \in Nat /\ Len(plan) >= 2 /\ 1 \in 1..Len(plan)
  BY PlanType
<1>3. list \in Seq(PoolList) /\ Len(list) \in 2..3
  BY <1>2, ListTypes
<1> HIDE DEF plan, list
<1>4. Head(plan) = plan[1] /\ Tail(plan) = SubSeq(plan, 1 + 1, Len(plan))
  <2>1. plan # <<>>
    BY <1>2
  <2> QED BY <1>2, <2>1, TailIsSubSeq
<1>5. list = SubSeq(list, 0 + 1, Len(list)) /\ Len(list) \in Nat
  BY <1>3, SubSeqFull
<1>6. pools'[r] = list
  BY <1>1, <1>4 DEF list
<1>7. Walk(r, 1, 0)'
  <2>1. /\ routes'[r] = SubSeq(plan, 1 + 1, Len(plan))
        /\ pools'[r] = SubSeq(list, 0 + 1, Len(list))
    BY Zenon, <1>1, <1>4, <1>5, <1>6
  <2>2. ~(1 > 1) /\ 1..0 = {}
    OBVIOUS
  <2> QED BY <1>1, <2>1, <2>2 DEF Walk, plan, list
<1>8. 0 \in 0..Len(list)
  BY <1>5
<1> QED BY <1>1, <1>2, <1>7, <1>8 DEF Searched, Listed, plan, list

LEMMA OpenPoolCovered ==
    ASSUME Types, Remember, NEW r \in Requests, Searched(r), OpenPool(r)
    PROVE  Searched(r)' /\ Listed(r)'
<1> DEFINE k == kind[r]
           plan == Plan(k)
           p == Candidates(r, Head(pools[r]))
<1>0. /\ pc[r] = "route" /\ pools[r] # <<>> /\ k \in Kinds
      /\ pool'[r] = p /\ pools'[r] = Tail(pools[r])
      /\ kind'[r] = k /\ routes'[r] = routes[r] /\ order'[r] = order[r]
      /\ on'[r] = on[r] /\ healthy' = healthy
  BY DEF OpenPool, Types, runtimeVars
<1>1. PICK n \in 1..Len(plan) : \E m \in 0..Len(Pools(plan[n])) : Walk(r, n, m)
  BY <1>0 DEF Searched
<1> DEFINE list == Pools(plan[n])
<1>2. PICK m \in 0..Len(list) : Walk(r, n, m)
  BY <1>1
<1>3. list \in Seq(PoolList) /\ Len(list) \in Nat /\ \A j \in 1..Len(list) : list[j] \in PoolList
  BY <1>0, ListTypes
<1>4. /\ routes[r] = SubSeq(plan, n + 1, Len(plan)) /\ pools[r] = SubSeq(list, m + 1, Len(list))
      /\ \A j \in 1..m : good[r] \cap Offer(k, list[j]) \subseteq ToSet(order[r])
      /\ n > 1 => good[r] \cap Reachable(k) = {}
  BY <1>0, <1>2 DEF Walk, Selecting
<1> HIDE DEF k, plan, list, p
<1>5. m < Len(list)
  BY <1>0, <1>3, <1>4, Rest
<1>6. /\ Head(pools[r]) = list[m + 1] /\ pools'[r] = SubSeq(list, (m + 1) + 1, Len(list))
      /\ m + 1 \in 0..Len(list) /\ m + 1 \in 1..Len(list)
  BY <1>0, <1>3, <1>4, <1>5, Rest
<1>7. good'[r] \subseteq good[r] /\ \A b \in good'[r] : b \in Backends /\ healthy[on[r]][b]
  BY <1>0, GoodStep
<1>8. \/ pc'[r] = "select"
      \/ pc'[r] = "route" /\ Unused(p, order[r]) = {}
  BY <1>0 DEF OpenPool, Becomes, Types, p
<1>9. good'[r] \cap Offer(k, list[m + 1]) \subseteq ToSet(order[r]) \cup Selecting(r)'
  <2> SUFFICES ASSUME NEW b \in good'[r], b \in Offer(k, list[m + 1])
               PROVE  b \in ToSet(order[r]) \cup Selecting(r)'
    OBVIOUS
  <2>1. PICK i \in p.at : p.names[i] = b
    <3>1. list[m + 1] \in PoolList /\ healthy[on[r]][b] /\ b \in Offer(kind[r], list[m + 1])
      BY <1>3, <1>6, <1>7 DEF k
    <3>2. \E i \in Candidates(r, list[m + 1]).at : Candidates(r, list[m + 1]).names[i] = b
      BY <3>1, CandidatesOffered
    <3> QED BY <1>6, <3>2 DEF p
  <2>2. CASE pc'[r] = "select"
    BY <1>0, <2>1, <2>2 DEF Selecting
  <2>3. CASE Unused(p, order[r]) = {}
    BY <2>1, <2>3 DEF Unused
  <2> QED BY <1>8, <2>2, <2>3
<1>10. \A j \in 1..(m + 1) : good'[r] \cap Offer(k, list[j]) \subseteq ToSet(order[r]) \cup Selecting(r)'
  <2> SUFFICES ASSUME NEW j \in 1..(m + 1)
               PROVE  good'[r] \cap Offer(k, list[j]) \subseteq ToSet(order[r]) \cup Selecting(r)'
    OBVIOUS
  <2>1. j \in 1..m \/ j = m + 1
    OBVIOUS
  <2> QED BY <1>4, <1>7, <1>9, <2>1
<1>11. Walk(r, n, m + 1)'
  <2>1. n > 1 => good'[r] \cap Reachable(k) = {}
    BY <1>4, <1>7
  <2> QED BY <1>0, <1>4, <1>6, <1>10, <2>1 DEF Walk, plan, list
<1>12. Searched(r)'
  BY <1>0, <1>1, <1>6, <1>11 DEF Searched, plan, list
<1> QED BY <1>8, <1>12 DEF Listed

LEMMA SelectCovered ==
    ASSUME Types, Remember, NEW r \in Requests, Searched(r), Select(r)
    PROVE  Searched(r)' /\ Listed(r)'
<1>1. PICK i \in pool[r].at :
              /\ pool[r].names[i] \in Backends
              /\ order' = [order EXCEPT ![r] = Append(@, pool[r].names[i])]
              /\ \/ pc' = pc
                 \/ pc' = [pc EXCEPT ![r] = "route"] /\ Unused(pool[r], order'[r]) = {}
              /\ UNCHANGED <<version, healthy, active, on, kind, routes, pools, pool, gone, probe, up>>
  BY Selected
<1>2. ToSet(order'[r]) = ToSet(order[r]) \cup {pool[r].names[i]}
  <2>1. order[r] \in Seq(Backends) /\ order'[r] = Append(order[r], pool[r].names[i])
    BY <1>1 DEF Types
  <2> QED BY <1>1, <2>1, Appended
<1>3. /\ pc[r] = "select"
      /\ pc'[r] = "select" \/ (pc'[r] = "route" /\ Unused(pool[r], order'[r]) = {})
  BY <1>1 DEF Select, Types
<1>4. Selecting(r) \subseteq ToSet(order'[r]) \cup Selecting(r)'
  <2>1. CASE pc'[r] = "select"
    BY <1>1, <1>3, <2>1 DEF Selecting
  <2>2. CASE Unused(pool[r], order'[r]) = {}
    <3>1. \A j \in pool[r].at : pool[r].names[j] \in ToSet(order'[r])
      BY <2>2 DEF Unused
    <3> QED BY <1>3, <3>1 DEF Selecting
  <2> QED BY <1>3, <2>1, <2>2
<1>5. good'[r] \subseteq good[r]
  BY <1>3, GoodStep
<1>6. ASSUME NEW n, NEW m, Walk(r, n, m) PROVE Walk(r, n, m)'
  <2>1. kind[r]' = kind[r] /\ routes[r]' = routes[r] /\ pools[r]' = pools[r]
    BY <1>1
  <2>2. ToSet(order[r]) \cup Selecting(r) \subseteq ToSet(order[r])' \cup Selecting(r)'
    BY <1>2, <1>4
  <2> QED BY <1>5, <1>6, <2>1, <2>2 DEF Walk
<1>7. Searched(r)'
  BY <1>1, <1>3, <1>6 DEF Searched
<1> QED BY <1>3, <1>7 DEF Listed

(* A request that has opened all pools of a route has in its list whatever *)
(* is good of what the first route reaches.                                *)
LEMMA RouteSearched ==
    ASSUME Types, NEW r \in Requests, Searched(r), pc[r] = "route", pools[r] = <<>>
    PROVE  \E n \in 1..Len(Plan(kind[r])) :
              /\ routes[r] = SubSeq(Plan(kind[r]), n + 1, Len(Plan(kind[r])))
              /\ \A j \in 1..Len(Pools(Plan(kind[r])[n])) :
                    good[r] \cap Offer(kind[r], Pools(Plan(kind[r])[n])[j]) \subseteq ToSet(order[r])
              /\ good[r] \cap Reachable(kind[r]) \subseteq ToSet(order[r])
<1> DEFINE k == kind[r]
           plan == Plan(k)
<1>0. k \in Kinds
  BY DEF Types
<1>1. PICK n \in 1..Len(plan) : \E m \in 0..Len(Pools(plan[n])) : Walk(r, n, m)
  BY DEF Searched
<1> DEFINE list == Pools(plan[n])
<1>2. PICK m \in 0..Len(list) : Walk(r, n, m)
  BY <1>1
<1>3. list \in Seq(PoolList) /\ Len(list) \in 2..3
  BY <1>0, ListTypes
<1>4. /\ routes[r] = SubSeq(plan, n + 1, Len(plan)) /\ pools[r] = SubSeq(list, m + 1, Len(list))
      /\ \A j \in 1..m : good[r] \cap Offer(k, list[j]) \subseteq ToSet(order[r])
      /\ n > 1 => good[r] \cap Reachable(k) = {}
  BY <1>2 DEF Walk, Selecting
<1> HIDE DEF k, plan, list
<1>5. m = Len(list)
  BY <1>3, <1>4, Rest
<1>6. good[r] \cap Reachable(k) \subseteq ToSet(order[r])
  <2>1. CASE n > 1
    BY <1>4, <2>1
  <2>2. CASE n = 1
    <3>1. Reachable(k) \subseteq Offer(k, list[1]) \cup Offer(k, list[2])
      BY <1>0, <2>2, ReachableOffer DEF list, plan
    <3>2. 1 \in 1..m /\ 2 \in 1..m
      BY <1>3, <1>5
    <3> QED BY <1>4, <3>1, <3>2
  <2>3. n \in Nat /\ n >= 1
    OBVIOUS
  <2> QED BY <2>1, <2>2, <2>3
<1> QED BY <1>4, <1>5, <1>6 DEF list, plan, k

LEMMA NextRouteCovered ==
    ASSUME Types, Remember, NEW r \in Requests, Searched(r), NextRoute(r)
    PROVE  Searched(r)' /\ Listed(r)'
<1> DEFINE k == kind[r]
           plan == Plan(k)
<1>0. /\ pc[r] = "route" /\ pools[r] = <<>> /\ order[r] = <<>> /\ routes[r] # <<>> /\ k \in Kinds
      /\ pools'[r] = Pools(Head(routes[r])) /\ routes'[r] = Tail(routes[r])
      /\ pc'[r] = "route" /\ kind'[r] = k /\ order'[r] = <<>>
  BY DEF NextRoute, Types
<1>1. PICK n \in 1..Len(plan) :
              /\ routes[r] = SubSeq(plan, n + 1, Len(plan))
              /\ good[r] \cap Reachable(k) \subseteq ToSet(order[r])
  BY <1>0, RouteSearched
<1>2. plan \in Seq(Route) /\ Len(plan) \in Nat
  BY <1>0, PlanType
<1> HIDE DEF k, plan
<1>3. n < Len(plan)
  BY <1>0, <1>1, <1>2, Rest
<1>4. /\ Head(routes[r]) = plan[n + 1] /\ routes'[r] = SubSeq(plan, (n + 1) + 1, Len(plan))
      /\ n + 1 \in 1..Len(plan) /\ n + 1 > 1
  BY <1>0, <1>1, <1>2, <1>3, Rest
<1> DEFINE list == Pools(plan[n + 1])
<1>5. list \in Seq(PoolList) /\ Len(list) \in 2..3
  BY <1>0, <1>4, ListTypes DEF plan
<1>6. pools'[r] = list
  BY <1>0, <1>4
<1> HIDE DEF list
<1>7. list = SubSeq(list, 0 + 1, Len(list)) /\ 0 \in 0..Len(list)
  BY <1>5, SubSeqFull
<1>8. good'[r] \cap Reachable(k) = {}
  <2>1. good'[r] \subseteq good[r]
    BY <1>0, GoodStep
  <2>2. ToSet(<<>>) = {}
    BY DEF ToSet
  <2> QED BY <1>0, <1>1, <2>1, <2>2
<1>9. Walk(r, n + 1, 0)'
  <2>1. pools'[r] = SubSeq(list, 0 + 1, Len(list))
    BY Zenon, <1>6, <1>7
  <2>2. 1..0 = {}
    OBVIOUS
  <2> QED BY <1>0, <1>4, <1>8, <2>1, <2>2 DEF Walk, list, plan
<1>10. Searched(r)'
  BY <1>0, <1>4, <1>7, <1>9 DEF Searched, list, plan
<1> QED BY <1>0, <1>10 DEF Listed

LEMMA ResolvedCovered ==
    ASSUME Types, Remember, NEW r \in Requests, Searched(r), Resolved(r)
    PROVE  Searched(r)' /\ Listed(r)'
<1>1. /\ pc[r] = "route" /\ pools[r] = <<>> /\ pc'[r] = "try"
      /\ kind'[r] = kind[r] /\ order'[r] = order[r]
  BY DEF Resolved, Becomes, Types
<1>2. good[r] \cap Reachable(kind[r]) \subseteq ToSet(order[r])
  BY <1>1, RouteSearched
<1>3. good'[r] \subseteq good[r]
  BY <1>1, GoodStep
<1> QED BY <1>1, <1>2, <1>3 DEF Searched, Listed

(* A backend leaves the list unasked, or after it failed, only when it is  *)
(* out of service.                                                         *)
LEMMA FailoverCovered ==
    ASSUME Types, Calling, Remember, NEW r \in Requests, Listed(r), Searched(r),
           Try(r) \/ Return(r) \/ MarkFailure(r) \/ HangUp(r)
    PROVE  Searched(r)' /\ Listed(r)'
<1>0. pc[r] \in {"try", "call", "succeeded", "failed"} /\ pc'[r] \in {"try", "call", "succeeded", "failed"}
      /\ kind'[r] = kind[r] /\ on'[r] = on[r]
  BY DEF Try, TryGuard, TryFrame, Take, Return, ReturnFrame, Answered, Errs, MarkFailure, HangUp,
       Becomes, Types
<1>1. good'[r] \subseteq good[r] /\ \A b \in good'[r] : b \in Backends /\ healthy'[on[r]][b]
  BY <1>0, GoodStep
<1>2. good[r] \cap Reachable(kind[r]) \subseteq ToSet(order[r])
  BY <1>0 DEF Listed
<1>3. \/ order'[r] = order[r]
      \/ order[r] # <<>> /\ order'[r] = Tail(order[r]) /\ ~healthy'[on[r]][Head(order[r])]
  <2>1. CASE Try(r)
    BY <2>1 DEF Try, TryGuard, TryFrame, Take, Types, Backend
  <2>2. CASE Return(r) \/ HangUp(r)
    BY <2>2 DEF Return, ReturnFrame, HangUp
  <2>3. CASE MarkFailure(r)
    <3>1. order[r] # <<>> /\ order[r] \in Seq(Backends)
      BY <2>3 DEF MarkFailure, Calling, Types
    <3>2. Head(order[r]) \in Backends
      BY <3>1
    <3>3. order'[r] = Tail(order[r])
      BY <2>3 DEF MarkFailure, Types
    <3>4. healthy' = [healthy EXCEPT ![on[r]][Head(order[r])] = FALSE]
      BY <2>3 DEF MarkFailure, Backend
    <3>5. on[r] \in Versions /\ healthy[on[r]] \in [Backends -> BOOLEAN]
      BY DEF Types
    <3>6. ~healthy'[on[r]][Head(order[r])]
      BY <3>2, <3>4, <3>5 DEF Types
    <3> QED BY <3>1, <3>3, <3>6
  <2> QED BY <2>1, <2>2, <2>3
<1>4. good'[r] \cap Reachable(kind[r]) \subseteq ToSet(order'[r])
  <2>1. CASE order'[r] = order[r]
    BY <1>1, <1>2, <2>1
  <2>2. CASE order[r] # <<>> /\ order'[r] = Tail(order[r]) /\ ~healthy'[on[r]][Head(order[r])]
    <3>1. ToSet(order[r]) = ToSet(Tail(order[r])) \cup {Head(order[r])}
      <4>1. order[r] \in Seq(Backends)
        BY DEF Types
      <4> QED BY <2>2, <4>1, Shortened
    <3> QED BY <1>1, <1>2, <2>2, <3>1
  <2> QED BY <1>3, <2>1, <2>2
<1> QED BY <1>0, <1>4 DEF Searched, Listed

LEMMA CoveredStep == Types /\ Calling /\ Covered /\ [Next]_vars => Covered'
<1> SUFFICES ASSUME Types, Calling, Covered, [Next]_vars,
                    NEW q \in Requests
             PROVE  Searched(q)' /\ Listed(q)'
  BY DEF Covered
<1>0. Searched(q) /\ Listed(q)
  BY DEF Covered
<1>1. ASSUME Remember, NEW r \in Requests, HandlerStep(r)
      PROVE  Searched(q)' /\ Listed(q)'
  <2>1. CASE q # r
    <3>1. Own(r)
      BY <1>1, HandlerStepType
    <3>2. /\ pc'[q] = pc[q] /\ kind'[q] = kind[q] /\ routes'[q] = routes[q] /\ pools'[q] = pools[q]
          /\ pool'[q] = pool[q] /\ order'[q] = order[q]
      BY <2>1, <3>1 DEF Own
    <3> QED BY <1>0, <1>1, <3>2, StaysCovered
  <2>2. CASE q = r
    <3>1. CASE \E k \in Kinds : Arrive(r, k)
      BY <2>2, <3>1, ArriveCovered
    <3>2. CASE OpenPool(r)
      BY <1>0, <1>1, <2>2, <3>2, OpenPoolCovered
    <3>3. CASE Select(r)
      BY <1>0, <1>1, <2>2, <3>3, SelectCovered
    <3>4. CASE NextRoute(r)
      BY <1>0, <1>1, <2>2, <3>4, NextRouteCovered
    <3>5. CASE Resolved(r)
      BY <1>0, <1>1, <2>2, <3>5, ResolvedCovered
    <3>6. CASE DryRun(r) \/ Refuse(r) \/ MarkSuccess(r) \/ Fail(r)
      <4>1. pc'[r] = "idle"
        BY <3>6 DEF DryRun, Refuse, MarkSuccess, Fail, Ends, Becomes, Types
      <4> QED BY <2>2, <4>1 DEF Searched, Listed
    <3>7. CASE Try(r) \/ Return(r) \/ MarkFailure(r) \/ HangUp(r)
      BY <1>0, <1>1, <2>2, <3>7, FailoverCovered
    <3> QED BY <1>1, <3>1, <3>2, <3>3, <3>4, <3>5, <3>6, <3>7 DEF HandlerStep
  <2> QED BY <2>1, <2>2
<1>2. ASSUME Remember, Background PROVE Searched(q)' /\ Listed(q)'
  <2>1. /\ pc'[q] = pc[q] /\ kind'[q] = kind[q] /\ routes'[q] = routes[q] /\ pools'[q] = pools[q]
        /\ pool'[q] = pool[q] /\ order'[q] = order[q]
    BY <1>2, BackgroundType DEF requestVars
  <2> QED BY <1>0, <1>2, <2>1, StaysCovered
<1>3. CASE UNCHANGED vars
  <2>1. /\ pc' = pc /\ kind' = kind /\ routes' = routes /\ pools' = pools /\ pool' = pool
        /\ order' = order /\ good' = good
    BY <1>3 DEF vars, state, requestVars
  <2>2. ASSUME NEW n, NEW m, Walk(q, n, m) PROVE Walk(q, n, m)'
    <3>1. Selecting(q)' = Selecting(q)
      BY <2>1 DEF Selecting
    <3> QED BY <2>1, <2>2, <3>1 DEF Walk
  <2>3. Searched(q)'
    BY <1>0, <2>1, <2>2 DEF Searched
  <2>4. Listed(q)'
    BY <1>0, <2>1 DEF Listed
  <2> QED BY <2>3, <2>4
<1> QED BY <1>1, <1>2, <1>3, StepCases

-----------------------------------------------------------------------------
(* Sums over finite sets.                                                  *)

(* A set of numbers that is not empty has a smallest member.               *)
LEMMA Smallest ==
    ASSUME NEW T, T \subseteq Nat, T # {}
    PROVE  \E x \in T : \A y \in T : x <= y
<1>1. PICK x \in T : \A y \in T : ~ (<<y, x>> \in OpToRel(<, Nat))
  BY NatLessThanWellFounded, WFMin
<1>2. \A y \in T : ~ (y < x)
  BY <1>1 DEF OpToRel
<1> QED BY <1>2

(* What the fold of a sum computes, set by set.                            *)
Some(s) == CHOOSE x \in s : TRUE

Sums(F, f, S) ==
    F = [s \in SUBSET S |-> IF s = {} THEN 0 ELSE f[Some(s)] + F[s \ {Some(s)}]]

LEMMA Removed ==
    ASSUME NEW s, IsFiniteSet(s), NEW x \in s
    PROVE  /\ IsFiniteSet(s \ {x}) /\ Cardinality(s \ {x}) \in Nat
           /\ Cardinality(s) \in Nat /\ Cardinality(s \ {x}) < Cardinality(s)
<1>1. Cardinality(s) \in Nat /\ Cardinality(s \ {x}) = Cardinality(s) - 1 /\ IsFiniteSet(s \ {x})
  BY FS_CardinalityType, FS_RemoveElement
<1>2. Cardinality(s \ {x}) \in Nat
  BY <1>1, FS_CardinalityType
<1> QED BY <1>1, <1>2

LEMMA SomeIn == ASSUME NEW s, s # {} PROVE Some(s) \in s
<1> QED BY DEF Some

LEMMA SumsAt ==
    ASSUME NEW F, NEW f, NEW S, Sums(F, f, S), NEW s \in SUBSET S
    PROVE  /\ s = {} => F[s] = 0
           /\ s # {} => F[s] = f[Some(s)] + F[s \ {Some(s)}]
<1>1. F = [t \in SUBSET S |-> IF t = {} THEN 0 ELSE f[Some(t)] + F[t \ {Some(t)}]]
  BY DEF Sums
<1> QED BY <1>1, Zenon

(* A property of finite sets that holds of a set if it holds of all its    *)
(* smaller subsets holds of all of them: with its exceptions as a set.     *)
LEMMA NoSmallest ==
    ASSUME NEW Bad, \A s \in Bad : IsFiniteSet(s), Bad # {}
    PROVE  \E s \in Bad : \A t : IsFiniteSet(t) /\ Cardinality(t) < Cardinality(s) => t \notin Bad
<1> DEFINE N == {Cardinality(s) : s \in Bad}
<1>1. N \subseteq Nat /\ N # {}
  BY FS_CardinalityType
<1>2. PICK n \in N : \A m \in N : n <= m
  BY <1>1, Smallest
<1>3. PICK s \in Bad : Cardinality(s) = n
  OBVIOUS
<1>4. ASSUME NEW t \in Bad, Cardinality(t) < Cardinality(s) PROVE FALSE
  <2>1. Cardinality(t) \in N /\ Cardinality(t) \in Nat /\ n \in Nat
    BY <1>1
  <2> HIDE DEF N
  <2> QED BY <1>2, <1>3, <1>4, <2>1
<1> HIDE DEF N
<1> QED BY <1>3, <1>4

LEMMA SumsAgree ==
    ASSUME NEW F, NEW f, NEW S, Sums(F, f, S), NEW G, NEW g, NEW T, Sums(G, g, T),
           NEW s, s \subseteq S, s \subseteq T, IsFiniteSet(s), \A x \in s : f[x] = g[x]
    PROVE  F[s] = G[s]
<1> DEFINE Bad == {t \in SUBSET s : F[t] # G[t]}
<1>1. ASSUME Bad # {} PROVE FALSE
  <2>1. \A t \in Bad : IsFiniteSet(t)
    BY FS_Subset
  <2>2. PICK t \in Bad : \A u : IsFiniteSet(u) /\ Cardinality(u) < Cardinality(t) => u \notin Bad
    BY <1>1, <2>1, NoSmallest
  <2>3. t \in SUBSET S /\ t \in SUBSET T /\ t \in SUBSET s /\ F[t] # G[t]
    OBVIOUS
  <2>4. t # {}
    BY <2>3, SumsAt
  <2> DEFINE c == Some(t)
             u == t \ {c}
  <2>5. c \in t
    BY <2>4, SomeIn
  <2>6. F[t] = f[c] + F[u] /\ G[t] = g[c] + G[u]
    <3> HIDE DEF Bad
    <3>1. F[t] = f[c] + F[u]
      BY <2>3, <2>4, SumsAt
    <3>2. G[t] = g[c] + G[u]
      BY <2>3, <2>4, SumsAt
    <3> QED BY <3>1, <3>2
  <2>7. u \notin Bad /\ u \in SUBSET s
    BY <2>1, <2>2, <2>3, <2>5, Removed
  <2> HIDE DEF c, u
  <2> QED BY <2>3, <2>5, <2>6, <2>7
<1> HIDE DEF Bad
<1>2. Bad = {}
  BY <1>1
<1> QED BY <1>2 DEF Bad

LEMMA SumsExist ==
    ASSUME NEW f, NEW S, IsFiniteSet(S)
    PROVE  \E F : Sums(F, f, S)
<1> DEFINE Bad == {s \in SUBSET S : ~ \E F : Sums(F, f, s)}
<1>1. ASSUME Bad # {} PROVE FALSE
  <2>1. \A t \in Bad : IsFiniteSet(t)
    BY FS_Subset
  <2>2. PICK s \in Bad : \A u : IsFiniteSet(u) /\ Cardinality(u) < Cardinality(s) => u \notin Bad
    BY <1>1, <2>1, NoSmallest
  <2> DEFINE Of(t) == CHOOSE F : Sums(F, f, t)
             Left(t) == t \ {Some(t)}
             G == [t \in SUBSET s |-> IF t = {} THEN 0 ELSE f[Some(t)] + Of(Left(t))[Left(t)]]
  <2>3. ASSUME NEW t \in SUBSET s, t # s PROVE Sums(Of(t), f, t)
    <3>1. IsFiniteSet(t) /\ Cardinality(t) < Cardinality(s)
      <4>1. IsFiniteSet(s) /\ Cardinality(s) \in Nat
        BY <2>1, FS_CardinalityType
      <4>2. IsFiniteSet(t) /\ Cardinality(t) <= Cardinality(s) /\ Cardinality(t) # Cardinality(s)
        BY <2>3, <4>1, FS_Subset
      <4> QED BY <4>1, <4>2, FS_CardinalityType
    <3>2. t \notin Bad
      BY <2>2, <3>1
    <3>3. t \in SUBSET S
      OBVIOUS
    <3>4. \E F : Sums(F, f, t)
      BY <3>2, <3>3
    <3> QED BY <3>4
  <2> HIDE DEF Of
  <2>4. ASSUME NEW t \in SUBSET s, t # {}
        PROVE  Left(t) \in SUBSET s /\ Left(t) # s
    BY <2>4, SomeIn
  <2>5. ASSUME NEW t \in SUBSET s, t # {}
        PROVE  Of(Left(t))[Left(t)] = G[Left(t)]
    <3> DEFINE u == Left(t)
    <3>1. u \in SUBSET s /\ u # s /\ Sums(Of(u), f, u)
      BY <2>3, <2>4, <2>5
    <3> HIDE DEF Left
    <3>2. CASE u = {}
      <4>1. Of(u)[u] = 0
        BY <3>1, <3>2, SumsAt
      <4> QED BY <3>1, <3>2, <4>1
    <3>3. CASE u # {}
      <4>1. Left(u) \subseteq u /\ Left(u) \in SUBSET s /\ Left(u) # s
        BY <2>4, <3>1, <3>3 DEF Left
      <4>2. Sums(Of(Left(u)), f, Left(u))
        BY <2>3, <4>1
      <4>3. IsFiniteSet(Left(u))
        BY <2>1, <4>1, FS_Subset
      <4>4. Of(u)[Left(u)] = Of(Left(u))[Left(u)]
        BY <3>1, <4>1, <4>2, <4>3, SumsAgree
      <4>5. Of(u)[u] = f[Some(u)] + Of(u)[Left(u)]
        <5>1. Sums(Of(u), f, u) /\ u \in SUBSET u
          BY <3>1
        <5> HIDE DEF u
        <5>2. Of(u)[u] = f[Some(u)] + Of(u)[u \ {Some(u)}]
          BY <3>3, <5>1, SumsAt
        <5> QED BY <5>2 DEF Left
      <4>6. G[u] = f[Some(u)] + Of(Left(u))[Left(u)]
        BY <3>1, <3>3
      <4> QED BY <4>4, <4>5, <4>6
    <3> QED BY <3>2, <3>3
  <2>6. Sums(G, f, s)
    <3>1. G = [t \in SUBSET s |-> IF t = {} THEN 0 ELSE f[Some(t)] + G[Left(t)]]
      <4> DEFINE H == [t \in SUBSET s |-> IF t = {} THEN 0 ELSE f[Some(t)] + G[Left(t)]]
      <4>1. ASSUME NEW t \in SUBSET s PROVE G[t] = H[t]
        <5> HIDE DEF Left
        <5>1. H[t] = IF t = {} THEN 0 ELSE f[Some(t)] + G[Left(t)]
          BY Zenon
        <5>2. G[t] = IF t = {} THEN 0 ELSE f[Some(t)] + Of(Left(t))[Left(t)]
          BY Zenon
        <5> HIDE DEF G, H
        <5> QED BY <2>5, <5>1, <5>2
      <4>2. G = [t \in SUBSET s |-> G[t]] /\ H = [t \in SUBSET s |-> H[t]]
        OBVIOUS
      <4> HIDE DEF G, H
      <4>3. G = H
        BY <4>1, <4>2
      <4> QED BY <4>3 DEF H
    <3> QED BY <3>1 DEF Sums
  <2> QED BY <2>6
<1> HIDE DEF Bad
<1>2. Bad = {}
  BY <1>1
<1> QED BY <1>2 DEF Bad

LEMMA SumIsSums ==
    ASSUME NEW f, NEW S, IsFiniteSet(S)
    PROVE  \E F : Sums(F, f, S) /\ SumFunctionOnSet(f, S) = F[S]
<1> DEFINE R(F) == F = [s \in SUBSET S |-> IF s = {} THEN 0 ELSE f[CHOOSE x \in s : TRUE]
                                            + F[s \ {CHOOSE x \in s : TRUE}]]
           F == CHOOSE F : R(F)
<1>1. \E G : R(G)
  <2>1. PICK G : Sums(G, f, S)
    BY SumsExist
  <2>2. R(G)
    BY <2>1, Zenon DEF Sums, Some
  <2> HIDE DEF R
  <2> QED BY <2>2
<1> HIDE DEF R
<1>2. R(F)
  BY <1>1
<1> USE DEF R
<1>3. SumFunctionOnSet(f, S) = F[S]
  BY DEF SumFunctionOnSet, FoldFunctionOnSet, MapThenFoldSet
<1>4. Sums(F, f, S)
  BY <1>2 DEF Sums, Some
<1> QED BY <1>3, <1>4

LEMMA SumsAreInts ==
    ASSUME NEW S, IsFiniteSet(S), NEW f, \A x \in S : f[x] \in Int, NEW F, Sums(F, f, S)
    PROVE  \A s \in SUBSET S : F[s] \in Int
<1> DEFINE Bad == {s \in SUBSET S : F[s] \notin Int}
<1>1. ASSUME Bad # {} PROVE FALSE
  <2>1. \A t \in Bad : IsFiniteSet(t)
    BY FS_Subset
  <2>2. PICK t \in Bad : \A u : IsFiniteSet(u) /\ Cardinality(u) < Cardinality(t) => u \notin Bad
    BY <1>1, <2>1, NoSmallest
  <2>3. t \in SUBSET S /\ F[t] \notin Int
    OBVIOUS
  <2>4. t # {}
    <3> HIDE DEF Bad
    <3>1. t = {} => F[t] = 0
      BY <2>3, SumsAt
    <3> QED BY <2>3, <3>1
  <2> DEFINE c == Some(t)
             u == t \ {c}
  <2>5. c \in t
    BY <2>4, SomeIn
  <2>6. F[t] = f[c] + F[u]
    BY <2>3, <2>4, SumsAt
  <2>7. u \notin Bad /\ u \in SUBSET S
    BY <2>1, <2>2, <2>3, <2>5, Removed
  <2> HIDE DEF c, u
  <2> QED BY <2>3, <2>5, <2>6, <2>7
<1> HIDE DEF Bad
<1>2. Bad = {}
  BY <1>1
<1> QED BY <1>2 DEF Bad

(* Whatever the fold chooses first, any member may be taken out.           *)
LEMMA SumsTakeOut ==
    ASSUME NEW S, IsFiniteSet(S), NEW f, \A x \in S : f[x] \in Int, NEW F, Sums(F, f, S),
           NEW y \in S
    PROVE  F[S] = f[y] + F[S \ {y}]
<1>0. \A s \in SUBSET S : F[s] \in Int
  BY SumsAreInts
<1> DEFINE Good(s) == \A x \in s : F[s] = f[x] + F[s \ {x}]
           Bad == {s \in SUBSET S : ~Good(s)}
<1>1. ASSUME Bad # {} PROVE FALSE
  <2>1. \A t \in Bad : IsFiniteSet(t)
    BY FS_Subset
  <2>2. PICK t \in Bad : \A u : IsFiniteSet(u) /\ Cardinality(u) < Cardinality(t) => u \notin Bad
    BY <1>1, <2>1, NoSmallest
  <2>3. PICK x \in t : F[t] # f[x] + F[t \ {x}]
    OBVIOUS
  <2>4. t \in SUBSET S /\ t # {} /\ IsFiniteSet(t)
    BY <2>1
  <2> DEFINE c == Some(t)
  <2>5. c \in t
    BY <2>4, SomeIn
  <2>6. F[t] = f[c] + F[t \ {c}]
    <3> HIDE DEF Bad
    <3> QED BY <2>4, SumsAt
  <2>7. c # x
    BY <2>3, <2>6
  <2>8. Good(t \ {c}) /\ Good(t \ {x})
    <3>1. ASSUME NEW z \in t PROVE Good(t \ {z})
      <4>1. t \ {z} \notin Bad
        BY <2>2, <2>4, Removed
      <4> QED BY <2>4, <4>1
    <3> QED BY <2>5, <3>1
  <2> HIDE DEF c, Bad
  <2>9. F[t \ {c}] = f[x] + F[(t \ {c}) \ {x}]
    BY <2>7, <2>8
  <2>10. F[t \ {x}] = f[c] + F[(t \ {x}) \ {c}]
    BY <2>5, <2>7, <2>8
  <2>11. (t \ {c}) \ {x} = (t \ {x}) \ {c}
    OBVIOUS
  <2> DEFINE v == F[(t \ {x}) \ {c}]
  <2>12. v \in Int /\ f[x] \in Int /\ f[c] \in Int
    BY <1>0, <2>4, <2>5
  <2>13. F[t \ {c}] = f[x] + v /\ F[t \ {x}] = f[c] + v
    BY <2>9, <2>10, <2>11
  <2> HIDE DEF v
  <2> QED BY <2>3, <2>6, <2>12, <2>13
<1> HIDE DEF Bad
<1>2. Bad = {}
  BY <1>1
<1> QED BY <1>2, Zenon DEF Bad

LEMMA SumProperties ==
    ASSUME NEW S, IsFiniteSet(S), NEW f, \A x \in S : f[x] \in Int
    PROVE  /\ SumFunctionOnSet(f, S) \in Int
           /\ S = {} => SumFunctionOnSet(f, S) = 0
           /\ \A x \in S : SumFunctionOnSet(f, S) = f[x] + SumFunctionOnSet(f, S \ {x})
<1>1. PICK F : Sums(F, f, S) /\ SumFunctionOnSet(f, S) = F[S]
  BY SumIsSums
<1>2. F[S] \in Int /\ (S = {} => F[S] = 0)
  BY <1>1, SumsAreInts, SumsAt
<1>3. ASSUME NEW x \in S PROVE SumFunctionOnSet(f, S) = f[x] + SumFunctionOnSet(f, S \ {x})
  <2> DEFINE T == S \ {x}
  <2>1. IsFiniteSet(T) /\ T \subseteq S
    BY FS_Subset
  <2>2. PICK G : Sums(G, f, T) /\ SumFunctionOnSet(f, T) = G[T]
    BY <2>1, SumIsSums
  <2>3. F[T] = G[T]
    BY <1>1, <2>1, <2>2, SumsAgree
  <2>4. F[S] = f[x] + F[T]
    BY <1>1, SumsTakeOut
  <2> QED BY <1>1, <2>2, <2>3, <2>4
<1> QED BY <1>1, <1>2, <1>3

LEMMA SumSame ==
    ASSUME NEW S, IsFiniteSet(S), NEW f, NEW g, \A x \in S : f[x] = g[x]
    PROVE  SumFunctionOnSet(f, S) = SumFunctionOnSet(g, S)
<1>1. PICK F : Sums(F, f, S) /\ SumFunctionOnSet(f, S) = F[S]
  BY SumIsSums
<1>2. PICK G : Sums(G, g, S) /\ SumFunctionOnSet(g, S) = G[S]
  BY SumIsSums
<1> QED BY <1>1, <1>2, SumsAgree

(* One value changes.                                                      *)
Changed(g, f, S, c, d) ==
    /\ c \in S /\ d \in Int /\ \A x \in S : f[x] \in Int
    /\ \A x \in S : g[x] = IF x = c THEN f[c] + d ELSE f[x]

LEMMA SumChanged ==
    ASSUME NEW S, IsFiniteSet(S), NEW f, NEW g, NEW c, NEW d, Changed(g, f, S, c, d)
    PROVE  SumFunctionOnSet(g, S) = SumFunctionOnSet(f, S) + d
<1> USE DEF Changed
<1> DEFINE T == S \ {c}
<1>1. IsFiniteSet(T) /\ \A x \in T : f[x] = g[x]
  BY FS_Subset
<1>2. SumFunctionOnSet(g, T) = SumFunctionOnSet(f, T) /\ SumFunctionOnSet(f, T) \in Int
  BY <1>1, SumSame, SumProperties
<1>3. \A x \in S : g[x] \in Int
  OBVIOUS
<1>4. SumFunctionOnSet(f, S) = f[c] + SumFunctionOnSet(f, T)
  BY SumProperties
<1>5. SumFunctionOnSet(g, S) = g[c] + SumFunctionOnSet(g, T)
  BY <1>3, SumProperties
<1>6. g[c] = f[c] + d /\ f[c] \in Int
  OBVIOUS
<1> HIDE DEF T
<1> QED BY <1>2, <1>4, <1>5, <1>6

(* A sum is that of a part and of the rest.                                *)
LEMMA SumSplit ==
    ASSUME NEW S, IsFiniteSet(S), NEW f, \A x \in S : f[x] \in Int, NEW T \in SUBSET S
    PROVE  /\ SumFunctionOnSet(f, S) = SumFunctionOnSet(f, T) + SumFunctionOnSet(f, S \ T)
           /\ SumFunctionOnSet(f, T) \in Int /\ SumFunctionOnSet(f, S \ T) \in Int
<1> DEFINE sum(U) == SumFunctionOnSet(f, U)
           Bad == {U \in SUBSET S : sum(S) # sum(U) + sum(S \ U)}
<1>1. ASSUME NEW U \in SUBSET S
      PROVE  /\ IsFiniteSet(U) /\ sum(U) \in Int /\ (U = {} => sum(U) = 0)
             /\ \A x \in U : sum(U) = f[x] + sum(U \ {x})
  <2>1. IsFiniteSet(U)
    BY FS_Subset
  <2> QED BY <2>1, SumProperties
<1> HIDE DEF sum
<1>2. ASSUME Bad # {} PROVE FALSE
  <2>1. \A U \in Bad : IsFiniteSet(U)
    BY <1>1
  <2>2. PICK U \in Bad : \A u : IsFiniteSet(u) /\ Cardinality(u) < Cardinality(U) => u \notin Bad
    BY <1>2, <2>1, NoSmallest
  <2>3. U \in SUBSET S /\ sum(S) # sum(U) + sum(S \ U)
    OBVIOUS
  <2>4. U # {}
    <3>1. ASSUME U = {} PROVE FALSE
      <4>1. S \ U = S
        BY <3>1
      <4>2. sum(U) = 0 /\ sum(S) \in Int
        BY <1>1, <3>1
      <4> QED BY <2>3, <4>1, <4>2
    <3> QED BY <3>1
  <2>5. PICK x \in U : TRUE
    BY <2>4
  <2> DEFINE V == U \ {x}
             Y == S \ V
  <2>6. V \notin Bad
    <3>1. IsFiniteSet(U)
      BY <2>1
    <3> HIDE DEF Bad
    <3> QED BY <2>2, <2>5, <3>1, Removed
  <2>7. V \in SUBSET S /\ Y \in SUBSET S /\ x \in Y /\ Y \ {x} = S \ U
    BY <2>3, <2>5
  <2>8. sum(S) = sum(V) + sum(Y)
    BY <2>6, <2>7
  <2>9. sum(U) = f[x] + sum(V) /\ sum(Y) = f[x] + sum(S \ U)
    BY <1>1, <2>3, <2>5, <2>7
  <2>10. sum(V) \in Int /\ sum(S \ U) \in Int /\ f[x] \in Int
    BY <1>1, <2>3, <2>5, <2>7
  <2> HIDE DEF V, Y, Bad
  <2> QED BY <2>3, <2>8, <2>9, <2>10
<1> HIDE DEF Bad
<1>3. Bad = {}
  BY <1>2
<1>4. sum(S) = sum(T) + sum(S \ T)
  BY <1>3 DEF Bad
<1>5. sum(T) \in Int /\ sum(S \ T) \in Int
  BY <1>1
<1> QED BY <1>4, <1>5 DEF sum

LEMMA SumIsNat ==
    ASSUME NEW S, IsFiniteSet(S), NEW f, \A x \in S : f[x] \in Nat
    PROVE  SumFunctionOnSet(f, S) \in Nat
<1> DEFINE sum(U) == SumFunctionOnSet(f, U)
           Bad == {U \in SUBSET S : sum(U) \notin Nat}
<1>0. \A x \in S : f[x] \in Int
  OBVIOUS
<1>1. ASSUME NEW U \in SUBSET S
      PROVE  /\ IsFiniteSet(U) /\ (U = {} => sum(U) = 0)
             /\ \A x \in U : sum(U) = f[x] + sum(U \ {x})
  <2>1. IsFiniteSet(U)
    BY FS_Subset
  <2> QED BY <1>0, <2>1, SumProperties
<1> HIDE DEF sum
<1>2. ASSUME Bad # {} PROVE FALSE
  <2>1. \A U \in Bad : IsFiniteSet(U)
    BY <1>1
  <2>2. PICK U \in Bad : \A u : IsFiniteSet(u) /\ Cardinality(u) < Cardinality(U) => u \notin Bad
    BY <1>2, <2>1, NoSmallest
  <2>3. U \in SUBSET S /\ sum(U) \notin Nat /\ IsFiniteSet(U)
    BY <2>1
  <2>4. U # {}
    BY <1>1, <2>3
  <2>5. PICK x \in U : TRUE
    BY <2>4
  <2>6. U \ {x} \notin Bad
    <3> HIDE DEF Bad
    <3> QED BY <2>2, <2>3, <2>5, Removed
  <2>7. sum(U \ {x}) \in Nat
    BY <2>3, <2>6
  <2>8. sum(U) = f[x] + sum(U \ {x}) /\ f[x] \in Nat
    BY <1>1, <2>3, <2>5
  <2> HIDE DEF Bad
  <2> QED BY <2>3, <2>7, <2>8
<1> HIDE DEF Bad
<1>3. Bad = {}
  BY <1>2
<1>4. sum(S) \in Nat
  BY <1>3 DEF Bad
<1> QED BY <1>4 DEF sum

-----------------------------------------------------------------------------
(* The balancers' weights.                                                 *)

(* Each position of the pool adds the weight of the backend it names.      *)
LEMMA RaisedSum ==
    ASSUME NEW weights \in [Backends -> Int], NEW names, NEW available,
           IsFiniteSet(available), \A i \in available : names[i] \in Backends
    PROVE  /\ Raised(weights, names, available) \in [Backends -> Int]
           /\ TotalWeight(names, available) \in Int
           /\ SumFunctionOnSet(Raised(weights, names, available), Backends)
                = SumFunctionOnSet(weights, Backends) + TotalWeight(names, available)
<1> DEFINE w == [i \in available |-> Weight[names[i]]]
           R(A) == Raised(weights, names, A)
           Good(A) == /\ R(A) \in [Backends -> Int]
                      /\ SumFunctionOnSet(R(A), Backends)
                           = SumFunctionOnSet(weights, Backends) + SumFunctionOnSet(w, A)
           Bad == {A \in SUBSET available : ~Good(A)}
<1>1. IsFiniteSet(Backends) /\ Weight \in [Backends -> Nat \ {0}]
  BY GatewayAssumption
<1>2. \A i \in available : w[i] = Weight[names[i]] /\ w[i] \in Int
  BY <1>1
<1>3. \A b \in Backends : weights[b] \in Int
  OBVIOUS
<1>4. SumFunctionOnSet(weights, Backends) \in Int
  BY <1>1, <1>3, SumProperties
<1>5. ASSUME NEW A \in SUBSET available
      PROVE  /\ IsFiniteSet(A)
             /\ \A b \in Backends : /\ IsFiniteSet(Met(names, A, b))
                                    /\ Cardinality(Met(names, A, b)) \in Nat
                                    /\ R(A)[b] = weights[b] + Cardinality(Met(names, A, b)) * Weight[b]
                                    /\ R(A)[b] \in Int
  <2>1. IsFiniteSet(A)
    BY FS_Subset
  <2>2. ASSUME NEW b \in Backends
        PROVE  IsFiniteSet(Met(names, A, b)) /\ Cardinality(Met(names, A, b)) \in Nat
    <3>1. Met(names, A, b) \subseteq A
      BY DEF Met
    <3> QED BY <2>1, <3>1, FS_Subset, FS_CardinalityType
  <2>3. \A b \in Backends : R(A)[b] = weights[b] + Cardinality(Met(names, A, b)) * Weight[b]
    BY DEF Raised
  <2>4. ASSUME NEW b \in Backends PROVE R(A)[b] \in Int
    <3>1. Weight[b] \in Int /\ weights[b] \in Int /\ Cardinality(Met(names, A, b)) \in Int
      BY <1>1, <2>2
    <3> HIDE DEF R
    <3> QED BY <2>3, <3>1
  <2> QED BY <2>1, <2>2, <2>3, <2>4
<1>6. ASSUME NEW A \in SUBSET available PROVE R(A) \in [Backends -> Int]
  <2>1. R(A) = [b \in Backends |-> weights[b] + Cardinality(Met(names, A, b)) * Weight[b]]
    BY DEF Raised
  <2>2. R(A) = [b \in Backends |-> R(A)[b]]
    BY <2>1
  <2> HIDE DEF R
  <2> QED BY <1>5, <2>2
<1>7. ASSUME Bad # {} PROVE FALSE
  <2>1. PICK A \in Bad : \A u : IsFiniteSet(u) /\ Cardinality(u) < Cardinality(A) => u \notin Bad
    BY <1>5, <1>7, NoSmallest
  <2>2. A \in SUBSET available /\ IsFiniteSet(A)
    BY <1>5
  <2>3. SumFunctionOnSet(R(A), Backends)
          # SumFunctionOnSet(weights, Backends) + SumFunctionOnSet(w, A)
    BY <1>6
  <2> HIDE DEF R, w
  <2>4. CASE A = {}
    <3>1. \A b \in Backends : R(A)[b] = weights[b]
      <4> SUFFICES ASSUME NEW b \in Backends PROVE R(A)[b] = weights[b]
        OBVIOUS
      <4>1. Met(names, A, b) = {}
        BY <2>4 DEF Met
      <4>2. Cardinality(Met(names, A, b)) = 0
        BY <4>1, FS_EmptySet
      <4> QED BY <1>1, <1>3, <1>5, <2>2, <4>2
    <3>2. SumFunctionOnSet(R(A), Backends) = SumFunctionOnSet(weights, Backends)
      BY <1>1, <3>1, SumSame
    <3>3. SumFunctionOnSet(w, A) = 0
      BY <1>2, <2>2, <2>4, SumProperties
    <3> QED BY <1>4, <2>3, <3>2, <3>3
  <2>5. CASE A # {}
    <3>1. PICK i \in A : TRUE
      BY <2>5
    <3> DEFINE c == names[i]
               Left == A \ {i}
    <3>2. Left \in SUBSET available /\ c \in Backends /\ i \in available
      BY <2>2
    <3>3. Good(Left)
      <4>1. Left \notin Bad
        BY <2>1, <2>2, Removed
      <4> QED BY <3>2, <4>1
    <3>4. \A b \in Backends : R(A)[b] = IF b = c THEN R(Left)[c] + Weight[c] ELSE R(Left)[b]
      <4> SUFFICES ASSUME NEW b \in Backends
                   PROVE  R(A)[b] = IF b = c THEN R(Left)[b] + Weight[b] ELSE R(Left)[b]
        OBVIOUS
      <4>0. R(A)[b] = weights[b] + Cardinality(Met(names, A, b)) * Weight[b]
            /\ R(Left)[b] = weights[b] + Cardinality(Met(names, Left, b)) * Weight[b]
            /\ IsFiniteSet(Met(names, Left, b)) /\ Cardinality(Met(names, Left, b)) \in Nat
        BY <1>5, <2>2, <3>2
      <4>1. CASE b # c
        <5>1. Met(names, A, b) = Met(names, Left, b)
          BY <4>1 DEF Met
        <5> QED BY <4>0, <4>1, <5>1
      <4>2. CASE b = c
        <5>1. Met(names, A, b) = Met(names, Left, b) \cup {i} /\ i \notin Met(names, Left, b)
          BY <3>1, <4>2 DEF Met
        <5>2. Cardinality(Met(names, A, b)) = Cardinality(Met(names, Left, b)) + 1
          <6> HIDE DEF Left, c, R
          <6>1. IsFiniteSet(Met(names, Left, b))
            BY <4>0
          <6> QED BY <5>1, <6>1, FS_AddElement
        <5>3. Weight[b] \in Int /\ weights[b] \in Int
          BY <1>1
        <5>4. ASSUME NEW k \in Nat, NEW x \in Int, NEW y \in Int
              PROVE  x + (k + 1) * y = (x + k * y) + y
          BY <5>4
        <5>5. weights[b] + (Cardinality(Met(names, Left, b)) + 1) * Weight[b]
                = (weights[b] + Cardinality(Met(names, Left, b)) * Weight[b]) + Weight[b]
          BY <4>0, <5>3, <5>4
        <5> HIDE DEF Left, c, R
        <5>6. R(A)[b] = R(Left)[b] + Weight[b]
          BY <4>0, <5>2, <5>5
        <5> QED BY <4>2, <5>6
      <4> QED BY <4>1, <4>2
    <3>5. \A b \in Backends : R(Left)[b] \in Int
      BY <3>3
    <3>6. Weight[c] \in Int
      BY <1>1, <3>2
    <3>7. SumFunctionOnSet(R(A), Backends) = SumFunctionOnSet(R(Left), Backends) + Weight[c]
      <4>1. Changed(R(A), R(Left), Backends, c, Weight[c])
        BY <3>2, <3>4, <3>5, <3>6 DEF Changed
      <4> QED BY <1>1, <4>1, SumChanged
    <3>8. SumFunctionOnSet(w, A) = Weight[c] + SumFunctionOnSet(w, Left)
      <4>1. \A x \in A : w[x] \in Int
        BY <1>2, <2>2
      <4>2. SumFunctionOnSet(w, A) = w[i] + SumFunctionOnSet(w, A \ {i})
        BY <2>2, <3>1, <4>1, SumProperties
      <4> QED BY <1>2, <3>2, <4>2
    <3>9. SumFunctionOnSet(w, Left) \in Int
      <4>1. IsFiniteSet(Left) /\ \A x \in Left : w[x] \in Int
        BY <1>2, <1>5, <3>2
      <4> HIDE DEF Left
      <4> QED BY <4>1, SumProperties
    <3> HIDE DEF c
    <3> QED BY <1>4, <2>3, <3>3, <3>6, <3>7, <3>8, <3>9
  <2> QED BY <2>4, <2>5
<1>8. Good(available)
  <2> HIDE DEF Good
  <2> QED BY <1>7
<1>9. TotalWeight(names, available) = SumFunctionOnSet(w, available)
  BY DEF TotalWeight, SumFunction
<1>10. SumFunctionOnSet(w, available) \in Int
  <2> HIDE DEF w
  <2> QED BY <1>2, SumProperties
<1> HIDE DEF w
<1> QED BY <1>8, <1>9, <1>10

(* What the positions of a pool weigh.                                     *)
LEMMA TotalSplit ==
    ASSUME NEW names, NEW Y, IsFiniteSet(Y), \A i \in Y : names[i] \in Backends,
           NEW X \in SUBSET Y
    PROVE  /\ TotalWeight(names, X) \in Nat /\ TotalWeight(names, Y) \in Nat
           /\ TotalWeight(names, Y \ X) \in Nat
           /\ TotalWeight(names, Y) = TotalWeight(names, X) + TotalWeight(names, Y \ X)
<1> DEFINE w == [i \in Y |-> Weight[names[i]]]
<1>1. \A i \in Y : w[i] = Weight[names[i]] /\ w[i] \in Nat /\ w[i] \in Int
  BY GatewayAssumption
<1> HIDE DEF w
<1>2. ASSUME NEW Z \in SUBSET Y
      PROVE  TotalWeight(names, Z) = SumFunctionOnSet(w, Z) /\ TotalWeight(names, Z) \in Nat
  <2> DEFINE z == [i \in Z |-> Weight[names[i]]]
  <2>1. IsFiniteSet(Z)
    BY FS_Subset
  <2>2. \A i \in Z : z[i] = w[i]
    BY <1>1
  <2>3. TotalWeight(names, Z) = SumFunctionOnSet(z, Z)
    BY DEF TotalWeight, SumFunction
  <2>4. \A i \in Z : w[i] \in Nat
    BY <1>1
  <2> HIDE DEF z
  <2>5. SumFunctionOnSet(z, Z) = SumFunctionOnSet(w, Z)
    BY <2>1, <2>2, SumSame
  <2>6. SumFunctionOnSet(w, Z) \in Nat
    BY <2>1, <2>4, SumIsNat
  <2> QED BY <2>3, <2>5, <2>6
<1>3. SumFunctionOnSet(w, Y) = SumFunctionOnSet(w, X) + SumFunctionOnSet(w, Y \ X)
  BY <1>1, SumSplit
<1> QED BY <1>2, <1>3

LEMMA TotalOfOne ==
    ASSUME NEW names, NEW i, names[i] \in Backends
    PROVE  TotalWeight(names, {i}) = Weight[names[i]]
<1> DEFINE w == [j \in {i} |-> Weight[names[j]]]
<1>1. w[i] = Weight[names[i]] /\ w[i] \in Int
  BY GatewayAssumption
<1>2. TotalWeight(names, {i}) = SumFunctionOnSet(w, {i})
  BY DEF TotalWeight, SumFunction
<1> HIDE DEF w
<1>3. IsFiniteSet({i}) /\ {i} \ {i} = {} /\ IsFiniteSet({})
  BY FS_Singleton, FS_EmptySet
<1>4. SumFunctionOnSet(w, {i}) = w[i] + SumFunctionOnSet(w, {})
  BY <1>1, <1>3, SumProperties
<1>5. SumFunctionOnSet(w, {}) = 0
  BY <1>3, SumProperties
<1> QED BY <1>1, <1>2, <1>4, <1>5

(* The positions that name one of several backends.                        *)
Of(names, available, bs) == {i \in available : names[i] \in bs}

(* What several backends gain together.                                    *)
LEMMA RaisedPart ==
    ASSUME NEW weights \in [Backends -> Int], NEW names, NEW available,
           IsFiniteSet(available), \A i \in available : names[i] \in Backends,
           NEW bs \in SUBSET Backends
    PROVE  SumFunctionOnSet(Raised(weights, names, available), bs)
             = SumFunctionOnSet(weights, bs) + TotalWeight(names, Of(names, available, bs))
<1> DEFINE X == Of(names, available, bs)
           R == Raised(weights, names, available)
           Q == Raised(weights, names, X)
           rest == Backends \ bs
           sum(f, S) == SumFunctionOnSet(f, S)
<1>1. X \in SUBSET available /\ IsFiniteSet(X) /\ IsFiniteSet(Backends)
  <2>1. X \in SUBSET available
    BY DEF Of
  <2> QED BY <2>1, FS_Subset, GatewayAssumption
<1>2. /\ Q \in [Backends -> Int] /\ TotalWeight(names, X) \in Int
      /\ sum(Q, Backends) = sum(weights, Backends) + TotalWeight(names, X)
  <2>1. \A i \in X : names[i] \in Backends
    BY <1>1
  <2> HIDE DEF X
  <2> QED BY <1>1, <2>1, RaisedSum
<1>3. \A b \in bs : R[b] = Q[b]
  <2>1. ASSUME NEW b \in bs PROVE Met(names, available, b) = Met(names, X, b)
    BY DEF Met, Of
  <2> QED BY <2>1 DEF Raised
<1>4. \A b \in rest : Q[b] = weights[b]
  <2> SUFFICES ASSUME NEW b \in rest PROVE Q[b] = weights[b]
    OBVIOUS
  <2>1. Met(names, X, b) = {}
    BY DEF Met, Of
  <2>2. Cardinality(Met(names, X, b)) = 0
    BY <2>1, FS_EmptySet
  <2>3. Weight[b] \in Int /\ weights[b] \in Int
    BY GatewayAssumption
  <2>4. Q[b] = weights[b] + Cardinality(Met(names, X, b)) * Weight[b]
    BY DEF Raised
  <2> HIDE DEF Q, X, rest
  <2>5. Q[b] = weights[b] + 0 * Weight[b]
    BY <2>2, <2>4
  <2> QED BY <2>3, <2>5
<1>5. IsFiniteSet(bs) /\ IsFiniteSet(rest)
  BY <1>1, FS_Subset
<1> HIDE DEF Q, R, X
<1>6. sum(R, bs) = sum(Q, bs) /\ sum(Q, rest) = sum(weights, rest)
  <2> HIDE DEF rest
  <2> QED BY <1>3, <1>4, <1>5, SumSame
<1>7. /\ sum(Q, Backends) = sum(Q, bs) + sum(Q, rest)
      /\ sum(Q, bs) \in Int /\ sum(Q, rest) \in Int
  <2>1. \A b \in Backends : Q[b] \in Int
    BY <1>2
  <2> QED BY <1>1, <2>1, SumSplit
<1>8. /\ sum(weights, Backends) = sum(weights, bs) + sum(weights, rest)
      /\ sum(weights, bs) \in Int /\ sum(weights, rest) \in Int
  <2>1. \A b \in Backends : weights[b] \in Int
    OBVIOUS
  <2> QED BY <1>1, <2>1, SumSplit
<1> HIDE DEF sum, rest
<1>9. sum(R, bs) = sum(weights, bs) + TotalWeight(names, X)
  BY <1>2, <1>6, <1>7, <1>8
<1> QED BY <1>9 DEF sum, R, X

LEMMA SumOfOne ==
    ASSUME NEW f, NEW b, f[b] \in Int
    PROVE  SumFunctionOnSet(f, {b}) = f[b]
<1>1. IsFiniteSet({b}) /\ {b} \ {b} = {} /\ IsFiniteSet({})
  BY FS_Singleton, FS_EmptySet
<1>2. SumFunctionOnSet(f, {b}) = f[b] + SumFunctionOnSet(f, {})
  BY <1>1, SumProperties
<1>3. SumFunctionOnSet(f, {}) = 0
  BY <1>1, SumProperties
<1> QED BY <1>2, <1>3

LEMMA RaisedAt ==
    ASSUME NEW weights \in [Backends -> Int], NEW names, NEW available,
           IsFiniteSet(available), \A i \in available : names[i] \in Backends,
           NEW b \in Backends
    PROVE  Raised(weights, names, available)[b]
             = weights[b] + TotalWeight(names, Of(names, available, {b}))
<1> DEFINE R == Raised(weights, names, available)
<1>1. R \in [Backends -> Int]
  BY RaisedSum
<1> HIDE DEF R
<1>2. SumFunctionOnSet(R, {b}) = R[b] /\ SumFunctionOnSet(weights, {b}) = weights[b]
  <2>1. R[b] \in Int /\ weights[b] \in Int
    BY <1>1
  <2> QED BY <2>1, SumOfOne
<1>3. SumFunctionOnSet(R, {b})
        = SumFunctionOnSet(weights, {b}) + TotalWeight(names, Of(names, available, {b}))
  BY RaisedPart DEF R
<1> QED BY <1>2, <1>3 DEF R

(* The position that is selected was the heaviest when it was met.         *)
LEMMA HeaviestWins ==
    ASSUME NEW i, NEW weights, NEW names, NEW available, Heaviest(i, weights, names, available),
           NEW j \in available
    PROVE  ~ (Raised(weights, names, available \cap 1..j)[names[j]]
                > Raised(weights, names, available \cap 1..i)[names[i]])
BY DEF Heaviest, FirstBest

(* So a backend that was available was ahead of the selected one by no     *)
(* more than what that gained, less its own weight.                        *)
LEMMA NotFarAhead ==
    ASSUME NEW weights \in [Backends -> Int], NEW names, NEW available \in SUBSET (Nat \ {0}),
           IsFiniteSet(available), \A k \in available : names[k] \in Backends,
           NEW i \in available, Heaviest(i, weights, names, available), NEW j \in available
    PROVE  /\ weights[names[j]] + Weight[names[j]]
                <= weights[names[i]] + TotalWeight(names, Of(names, available, {names[i]}))
           /\ Weight[names[i]] <= TotalWeight(names, Of(names, available, {names[i]}))
           /\ Weight[names[i]] \in Nat /\ Weight[names[j]] \in Nat
<1> DEFINE c == names[i]
           b == names[j]
           toI == available \cap 1..i
           toJ == available \cap 1..j
           all == Of(names, available, {c})
           some == Of(names, toI, {c})
           mine == Of(names, toJ, {b})
           total(X) == TotalWeight(names, X)
<1>1. c \in Backends /\ b \in Backends
  OBVIOUS
<1>2. /\ toI \in SUBSET available /\ toJ \in SUBSET available
      /\ some \in SUBSET all /\ all \in SUBSET available /\ mine \in SUBSET available
  BY DEF Of
<1>3. i \in toI /\ j \in toJ
  <2>1. i \in Nat /\ i >= 1 /\ j \in Nat /\ j >= 1
    OBVIOUS
  <2> QED BY <2>1
<1>4. {i} \in SUBSET all /\ {j} \in SUBSET mine
  BY <1>3 DEF Of
<1> HIDE DEF toI, toJ, all, some, mine
<1>5. IsFiniteSet(toI) /\ IsFiniteSet(toJ) /\ IsFiniteSet(all) /\ IsFiniteSet(mine)
  BY <1>2, FS_Subset
<1>6. /\ \A k \in toI : names[k] \in Backends
      /\ \A k \in toJ : names[k] \in Backends
      /\ \A k \in all : names[k] \in Backends
      /\ \A k \in mine : names[k] \in Backends
  BY <1>2
<1>7. Raised(weights, names, toI)[c] = weights[c] + total(some)
  <2> HIDE DEF c, total
  <2>1. Raised(weights, names, toI)[c] = weights[c] + TotalWeight(names, Of(names, toI, {c}))
    BY <1>1, <1>5, <1>6, RaisedAt
  <2> QED BY <2>1 DEF some, total
<1>8. Raised(weights, names, toJ)[b] = weights[b] + total(mine)
  <2> HIDE DEF b, total
  <2>1. Raised(weights, names, toJ)[b] = weights[b] + TotalWeight(names, Of(names, toJ, {b}))
    BY <1>1, <1>5, <1>6, RaisedAt
  <2> QED BY <2>1 DEF mine, total
<1>9. ~ (Raised(weights, names, toJ)[b] > Raised(weights, names, toI)[c])
  BY HeaviestWins DEF toI, toJ
<1>10. /\ total(all) = total(some) + total(all \ some)
       /\ total(some) \in Nat /\ total(all \ some) \in Nat /\ total(all) \in Nat
  BY <1>2, <1>5, <1>6, TotalSplit
<1>11. /\ total(mine) = total({j}) + total(mine \ {j})
       /\ total({j}) \in Nat /\ total(mine \ {j}) \in Nat /\ total(mine) \in Nat
  <2>1. IsFiniteSet(mine) /\ (\A k \in mine : names[k] \in Backends) /\ {j} \in SUBSET mine
    BY <1>4, <1>5, <1>6
  <2> QED BY ONLY <2>1, TotalSplit
<1>12. /\ total(all) = total({i}) + total(all \ {i})
       /\ total({i}) \in Nat /\ total(all \ {i}) \in Nat
  BY <1>4, <1>5, <1>6, TotalSplit
<1>13. total({i}) = Weight[c] /\ total({j}) = Weight[b]
  BY <1>1, TotalOfOne
<1>14. weights[b] \in Int /\ weights[c] \in Int /\ Weight[b] \in Nat /\ Weight[c] \in Nat
  BY <1>1, GatewayAssumption
<1> HIDE DEF c, b, total
<1>15. weights[b] + total(mine) <= weights[c] + total(some)
  BY <1>7, <1>8, <1>9, <1>10, <1>11, <1>14
<1>16. weights[b] + Weight[b] <= weights[c] + total(all) /\ Weight[c] <= total(all)
  BY <1>10, <1>11, <1>12, <1>13, <1>14, <1>15
<1> QED BY <1>14, <1>16 DEF all, total, c, b

Weighted == smooth \in [Versions -> [Backends -> Int]] /\ WeightsConserved

LEMMA SelectKeepsWeights ==
    ASSUME Types, Weighted, NEW r \in Requests, Select(r) PROVE Weighted'
<1> DEFINE v == on[r]
           names == pool[r].names
           available == Unused(pool[r], order[r])
           raised == Raised(smooth[v], names, available)
           total == TotalWeight(names, available)
<1>0. v \in Versions /\ smooth[v] \in [Backends -> Int] /\ IsFiniteSet(Backends)
  BY GatewayAssumption DEF Types, Weighted
<1>1. PICK i \in available :
          \/ UNCHANGED smooth
          \/ smooth' = [smooth EXCEPT ![v] = [raised EXCEPT ![names[i]] = @ - total]]
  BY DEF Select, SelectLeastConnections, SelectWeightedRoundRobin
<1>2. CASE UNCHANGED smooth
  BY <1>2 DEF Weighted, WeightsConserved
<1>3. CASE smooth' = [smooth EXCEPT ![v] = [raised EXCEPT ![names[i]] = @ - total]]
  <2>1. available \subseteq pool[r].at /\ pool[r].at \subseteq DOMAIN names
        /\ \A j \in available : names[j] \in Backends
    BY DEF Types, Enabled, Unused
  <2>2. IsFiniteSet(available)
    <3>1. names \in Seq(Configured)
      BY DEF Types, PoolOf
    <3>2. DOMAIN names = 1..Len(names) /\ Len(names) \in Nat
      BY <3>1
    <3> HIDE DEF names, available
    <3>3. IsFiniteSet(DOMAIN names)
      BY <3>2, FS_Interval
    <3> QED BY <2>1, <3>3, FS_Subset
  <2> DEFINE c == names[i]
             new == [raised EXCEPT ![c] = @ - total]
  <2>3. c \in Backends
    BY <2>1
  <2> HIDE DEF names, available, c, v
  <2>4. raised \in [Backends -> Int] /\ total \in Int
        /\ SumFunctionOnSet(raised, Backends) = SumFunctionOnSet(smooth[v], Backends) + total
    BY <1>0, <2>1, <2>2, RaisedSum
  <2>5. SumFunctionOnSet(smooth[v], Backends) = 0
    <3>1. DOMAIN smooth[v] = Backends
      BY <1>0
    <3> QED BY <1>0, <3>1 DEF Weighted, WeightsConserved, SumFunction
  <2> HIDE DEF raised, total
  <2>6. new \in [Backends -> Int]
        /\ \A b \in Backends : new[b] = IF b = c THEN raised[c] + (-total) ELSE raised[b]
    BY <2>3, <2>4
  <2>7. SumFunctionOnSet(new, Backends) = SumFunctionOnSet(raised, Backends) + (-total)
    <3>1. -total \in Int /\ \A b \in Backends : raised[b] \in Int
      BY <2>4
    <3> HIDE DEF new
    <3>2. Changed(new, raised, Backends, c, -total)
      BY <2>3, <2>6, <3>1 DEF Changed
    <3> QED BY <1>0, <3>2, SumChanged
  <2>8. SumFunctionOnSet(new, Backends) = 0
    BY <2>4, <2>5, <2>7
  <2>9. smooth' = [smooth EXCEPT ![v] = new]
    BY <1>3 DEF c
  <2> HIDE DEF new
  <2>10. smooth' \in [Versions -> [Backends -> Int]]
    BY <1>0, <2>6, <2>9 DEF Weighted
  <2>11. ASSUME NEW u \in Versions PROVE SumFunction(smooth'[u]) = 0
    <3>1. CASE u = v
      <4>1. smooth'[u] = new /\ DOMAIN new = Backends
        BY <1>0, <2>6, <2>9, <3>1 DEF Weighted
      <4> QED BY <2>8, <4>1 DEF SumFunction
    <3>2. CASE u # v
      <4>1. smooth'[u] = smooth[u]
        BY <2>9, <3>2 DEF Weighted
      <4> QED BY <4>1 DEF Weighted, WeightsConserved
    <3> QED BY <3>1, <3>2
  <2> QED BY <2>10, <2>11 DEF Weighted, WeightsConserved
<1> QED BY <1>1, <1>2, <1>3

LEMMA OnlySelectBalances ==
    ASSUME NEW r \in Requests, HandlerStep(r) PROVE Select(r) \/ UNCHANGED smooth
<1>1. CASE \E k \in Kinds : Arrive(r, k)
  BY <1>1 DEF Arrive, runtimeVars
<1>2. CASE OpenPool(r) \/ NextRoute(r) \/ Resolved(r) \/ HangUp(r)
  BY <1>2 DEF OpenPool, NextRoute, Resolved, HangUp, runtimeVars
<1>3. CASE DryRun(r) \/ Refuse(r) \/ Fail(r) \/ MarkSuccess(r)
  BY <1>3 DEF DryRun, Refuse, Fail, MarkSuccess, Ends
<1>4. CASE Try(r) \/ Return(r) \/ MarkFailure(r)
  BY <1>4 DEF Try, TryFrame, Return, ReturnFrame, MarkFailure
<1> QED BY <1>1, <1>2, <1>3, <1>4 DEF HandlerStep

LEMMA WeightedStep == Types /\ Weighted /\ [Next]_vars => Weighted'
<1> SUFFICES ASSUME Types, Weighted, [Next]_vars PROVE Weighted'
  OBVIOUS
<1>1. ASSUME UNCHANGED smooth PROVE Weighted'
  BY <1>1 DEF Weighted, WeightsConserved
<1>2. CASE Background
  BY <1>1, <1>2 DEF Background, HealthLoop, Ask, Check, Apply, Toggle, runtimeVars
<1>3. CASE UNCHANGED vars
  BY <1>1, <1>3 DEF vars, state, runtimeVars
<1> QED BY <1>1, <1>2, <1>3, StepCases, OnlySelectBalances, SelectKeepsWeights

LEMMA WeightedInit == Init => Weighted
<1> SUFFICES ASSUME Init PROVE Weighted
  OBVIOUS
<1> DEFINE zero == [b \in Backends |-> 0]
           F == [s \in SUBSET Backends |-> 0]
<1>1. smooth = [v \in Versions |-> zero]
  BY DEF Init
<1>2. SumFunctionOnSet(zero, Backends) = 0
  <2>1. PICK G : Sums(G, zero, Backends) /\ SumFunctionOnSet(zero, Backends) = G[Backends]
    BY GatewayAssumption, SumIsSums
  <2>2. Sums(F, zero, Backends)
    <3>1. ASSUME NEW s \in SUBSET Backends, s # {}
          PROVE  zero[Some(s)] + F[s \ {Some(s)}] = 0
      BY <3>1, SomeIn
    <3>2. F = [s \in SUBSET Backends |-> IF s = {} THEN 0 ELSE zero[Some(s)] + F[s \ {Some(s)}]]
      BY <3>1
    <3> QED BY <3>2 DEF Sums
  <2>3. F[Backends] = 0
    OBVIOUS
  <2> HIDE DEF F, zero
  <2>4. G[Backends] = F[Backends]
    BY <2>1, <2>2, GatewayAssumption, SumsAgree
  <2> QED BY <2>1, <2>3, <2>4
<1>3. DOMAIN zero = Backends /\ zero \in [Backends -> Int]
  OBVIOUS
<1> HIDE DEF zero
<1> QED BY <1>1, <1>2, <1>3 DEF Weighted, WeightsConserved, SumFunction

-----------------------------------------------------------------------------
(* How far the balancers' weights go.                                      *)

(* What a request selects from is a list of the configuration.             *)
Known == \A r \in Requests : pc[r] = "select" => pool[r].names \in Lists

LEMMA ListOfPool ==
    ASSUME NEW k \in Kinds, NEW n \in 1..Len(Plan(k)), NEW m \in 1..Len(Pools(Plan(k)[n]))
    PROVE  AllOr(Pools(Plan(k)[n])[m].names) \in Lists
<1> DEFINE plan == Plan(k)
           list == Pools(plan[n])
<1>1. plan \in Seq(Route) /\ list \in Seq(PoolList)
  BY PlanType, ListTypes
<1>2. plan[n] \in ToSet(plan)
  BY <1>1 DEF ToSet
<1>3. list[m] \in ToSet(list)
  BY <1>1 DEF ToSet
<1>4. plan[n] \in UNION {ToSet(Plan(q)) : q \in Kinds}
  BY <1>2
<1>5. list[m] \in UNION {ToSet(Pools(route)) : route \in UNION {ToSet(Plan(q)) : q \in Kinds}}
  BY <1>3, <1>4
<1> QED BY <1>5 DEF Lists

LEMMA KnownStep == Types /\ Covered /\ Known /\ [Next]_vars => Known'
<1> SUFFICES ASSUME Types, Covered, Known, [Next]_vars, NEW r \in Requests, pc'[r] = "select"
             PROVE  pool'[r].names \in Lists
  BY DEF Known
<1>1. ASSUME pc[r] = "select", pool'[r] = pool[r] PROVE pool'[r].names \in Lists
  BY <1>1 DEF Known
<1>2. ASSUME OpenPool(r) PROVE pool'[r].names \in Lists
  <2> DEFINE k == kind[r]
             plan == Plan(k)
             p == Head(pools[r])
  <2>1. k \in Kinds /\ pools[r] # <<>> /\ pool'[r] = Candidates(r, p)
    BY <1>2 DEF OpenPool, Types
  <2>2. PICK n \in 1..Len(plan) : \E m \in 0..Len(Pools(plan[n])) : Walk(r, n, m)
    BY <1>2 DEF Covered, Searched, OpenPool
  <2>3. PICK m \in 0..Len(Pools(plan[n])) : Walk(r, n, m)
    BY <2>2
  <2> DEFINE list == Pools(plan[n])
  <2>4. pools[r] = SubSeq(list, m + 1, Len(list))
    BY <2>3 DEF Walk
  <2>5. list \in Seq(PoolList) /\ Len(list) \in 2..3
    BY <2>1, ListTypes
  <2> HIDE DEF list, plan, k
  <2>6. m + 1 \in 1..Len(list) /\ p = list[m + 1]
    <3>1. /\ m = Len(list) => SubSeq(list, m + 1, Len(list)) = <<>>
          /\ m < Len(list) => Head(SubSeq(list, m + 1, Len(list))) = list[m + 1]
      BY <2>3, <2>5, Rest DEF list
    <3>2. m < Len(list) /\ m \in Nat /\ Len(list) \in Nat
      BY <2>1, <2>3, <2>4, <2>5, <3>1 DEF list
    <3> QED BY <2>4, <3>1, <3>2
  <2>7. AllOr(list[m + 1].names) \in Lists
    BY <2>1, <2>6, ListOfPool DEF list, plan
  <2>8. pool'[r].names = AllOr(p.names)
    BY <2>1 DEF Candidates
  <2> QED BY <2>6, <2>7, <2>8
<1>3. ASSUME NEW q \in Requests, HandlerStep(q)
      PROVE  OpenPool(r) \/ (pc[r] = "select" /\ pool'[r] = pool[r])
  <2>1. CASE OpenPool(q)
    BY <2>1 DEF OpenPool, Becomes, Types
  <2>2. CASE Select(q)
    BY <2>2 DEF Select, Becomes, Types
  <2>3. CASE \E k \in Kinds : Arrive(q, k)
    BY <2>3 DEF Arrive, Becomes, Types
  <2>4. CASE NextRoute(q) \/ Resolved(q) \/ HangUp(q)
    BY <2>4 DEF NextRoute, Resolved, HangUp, Becomes, Types
  <2>5. CASE DryRun(q) \/ Refuse(q) \/ Fail(q) \/ MarkSuccess(q)
    BY <2>5 DEF DryRun, Refuse, Fail, MarkSuccess, Ends, Becomes, Types
  <2>6. CASE Try(q) \/ Return(q) \/ MarkFailure(q)
    BY <2>6 DEF Try, TryFrame, Take, Return, ReturnFrame, Answered, Errs, MarkFailure, Becomes, Types
  <2> QED BY <1>3, <2>1, <2>2, <2>3, <2>4, <2>5, <2>6 DEF HandlerStep
<1>4. CASE Background
  BY <1>1, <1>4 DEF Background, HealthLoop, Ask, Check, Apply, Toggle, requestVars
<1>5. CASE UNCHANGED vars
  BY <1>1, <1>5 DEF vars, state, requestVars
<1> QED BY <1>1, <1>2, <1>3, <1>4, <1>5, StepCases

(* k of the backends, m the others.  One of the former is ahead of one of  *)
(* the latter by d, together they are a.                                   *)
LEMMA BetweenBounds ==
    ASSUME NEW k \in Nat, NEW m \in Nat, NEW s \in Nat, NEW a \in Int, NEW x \in Int, NEW y \in Int,
           2 * (a - x) <= ((k - 1) * (m + 1)) * s, 2 * (a + y) <= ((k + 1) * (m - 1)) * s
    PROVE  2 * a <= (k * m) * s - s + (x - y)
<1>1. k * m \in Int
  OBVIOUS
<1> DEFINE p == k * m
<1>2. (k - 1) * (m + 1) = p + k - m - 1 /\ (k + 1) * (m - 1) = p - k + m - 1
  OBVIOUS
<1>3. p \in Int
  BY <1>1
<1> HIDE DEF p
<1>4. 2 * (a - x) <= (p + k - m - 1) * s /\ 2 * (a + y) <= (p - k + m - 1) * s
  BY <1>2
<1> DEFINE ps == p * s
           e == (k - m) * s
<1>5. /\ (p + k - m - 1) * s = ps + e - s /\ (p - k + m - 1) * s = ps - e - s
      /\ ps \in Int /\ e \in Int
  BY <1>3
<1> HIDE DEF ps, e
<1>6. 2 * a <= ps - s + (x - y)
  BY <1>4, <1>5
<1> QED BY <1>6 DEF ps, p

Bounded(weights) ==
    \A bs \in SUBSET Backends :
        2 * SumFunctionOnSet(weights, bs) <= (Cardinality(bs) * Cardinality(Backends \ bs)) * Swing

(* A selection leaves them where they may be.                              *)
LEMMA SelectStaysBounded ==
    ASSUME NEW weights \in [Backends -> Int], Bounded(weights), NEW names \in Lists,
           NEW available \in SUBSET EnabledIn(names), IsFiniteSet(EnabledIn(names)),
           EnabledIn(names) \subseteq Nat \ {0},
           NEW i \in available, Heaviest(i, weights, names, available),
           NEW new \in [Backends -> Int],
           new = [Raised(weights, names, available) EXCEPT ![names[i]] = @ - TotalWeight(names, available)]
    PROVE  Bounded(new)
<1> SUFFICES ASSUME NEW bs \in SUBSET Backends
             PROVE  2 * SumFunctionOnSet(new, bs)
                      <= (Cardinality(bs) * Cardinality(Backends \ bs)) * Swing
  BY DEF Bounded
<1> DEFINE c == names[i]
           raised == Raised(weights, names, available)
           total == TotalWeight(names, available)
           gain(S) == TotalWeight(names, Of(names, available, S))
           sum(f, S) == SumFunctionOnSet(f, S)
           limit == (Cardinality(bs) * Cardinality(Backends \ bs)) * Swing
<1>1. /\ \A k \in EnabledIn(names) : names[k] \in Backends
      /\ c \in Backends /\ IsFiniteSet(Backends) /\ IsFiniteSet(available)
  <2>1. \A k \in EnabledIn(names) : names[k] \in Backends
    BY DEF EnabledIn
  <2>2. IsFiniteSet(available) /\ c \in Backends
    BY <2>1, FS_Subset
  <2> QED BY <2>1, <2>2, GatewayAssumption
<1>2. raised \in [Backends -> Int] /\ total \in Int
  BY <1>1, RaisedSum
<1>3. \A S \in SUBSET Backends : sum(raised, S) = sum(weights, S) + gain(S)
  BY <1>1, RaisedPart
<1>4. \A S \in SUBSET Backends : IsFiniteSet(S) /\ sum(weights, S) \in Int /\ sum(raised, S) \in Int
  <2> SUFFICES ASSUME NEW S \in SUBSET Backends
               PROVE  IsFiniteSet(S) /\ sum(weights, S) \in Int /\ sum(raised, S) \in Int
    OBVIOUS
  <2>1. IsFiniteSet(S)
    BY <1>1, FS_Subset
  <2> HIDE DEF raised
  <2>2. (\A b \in S : weights[b] \in Int) /\ (\A b \in S : raised[b] \in Int)
    BY <1>2
  <2> QED BY <2>1, <2>2, SumProperties
<1>5. ASSUME NEW X \in SUBSET available
      PROVE  /\ TotalWeight(names, X) \in Nat /\ TotalWeight(names, available \ X) \in Nat
             /\ total = TotalWeight(names, X) + TotalWeight(names, available \ X)
  <2>1. \A k \in available : names[k] \in Backends
    BY <1>1
  <2>2. IsFiniteSet(available) /\ X \in SUBSET available
    BY <1>1
  <2> HIDE DEF total
  <2>3. TotalWeight(names, X) \in Nat /\ TotalWeight(names, available \ X) \in Nat
    BY <2>1, <2>2, TotalSplit
  <2>4. TotalWeight(names, available) = TotalWeight(names, X) + TotalWeight(names, available \ X)
    BY <2>1, <2>2, TotalSplit
  <2> QED BY <2>3, <2>4 DEF total
<1>6. gain(bs) \in Nat /\ gain(bs) <= total
  <2>1. Of(names, available, bs) \in SUBSET available
    BY DEF Of
  <2> DEFINE X == Of(names, available, bs)
             rest == TotalWeight(names, available \ X)
  <2>2. TotalWeight(names, X) \in Nat /\ rest \in Nat /\ total = TotalWeight(names, X) + rest
    BY <1>5, <2>1
  <2>3. gain(bs) = TotalWeight(names, X)
    OBVIOUS
  <2> HIDE DEF total, rest, gain
  <2> QED BY <2>2, <2>3
<1>7. /\ \A b \in Backends : new[b] = IF b = c THEN raised[c] + (-total) ELSE raised[b]
      /\ new \in [Backends -> Int]
  BY <1>1, <1>2
<1>8. 2 * sum(weights, bs) <= limit /\ limit \in Int
  <2>1. IsFiniteSet(bs) /\ IsFiniteSet(Backends \ bs)
    BY <1>4
  <2>2. Cardinality(bs) \in Nat /\ Cardinality(Backends \ bs) \in Nat /\ Swing \in Nat
    BY <2>1, FS_CardinalityType, SwingAssumption
  <2> QED BY <2>2 DEF Bounded
<1>9. CASE c \in bs
  <2> HIDE DEF raised, total, c
  <2>1. sum(new, bs) = sum(raised, bs) + (-total)
    <3>1. -total \in Int
      BY <1>2
    <3>2. \A b \in bs : b \in Backends /\ raised[b] \in Int
      BY <1>2
    <3>3. \A b \in bs : new[b] = IF b = c THEN raised[c] + (-total) ELSE raised[b]
      BY <1>7
    <3>4. Changed(new, raised, bs, c, -total)
      BY <1>9, <3>1, <3>2, <3>3 DEF Changed
    <3> QED BY <1>4, <3>4, SumChanged
  <2>2. sum(raised, bs) = sum(weights, bs) + gain(bs) /\ sum(weights, bs) \in Int
    BY <1>3, <1>4
  <2> HIDE DEF sum, gain, limit
  <2>3. 2 * sum(new, bs) <= limit
    BY <1>2, <1>6, <1>8, <2>1, <2>2
  <2> QED BY <2>3 DEF sum, limit
<1>10. CASE c \notin bs
  <2>1. sum(new, bs) = sum(weights, bs) + gain(bs) /\ sum(weights, bs) \in Int
    <3> HIDE DEF raised, total, c
    <3>1. \A b \in bs : new[b] = raised[b]
      BY <1>7, <1>10
    <3>2. sum(new, bs) = sum(raised, bs)
      BY <1>4, <3>1, SumSame
    <3> QED BY <1>3, <1>4, <3>2
  <2>2. CASE Of(names, available, bs) = {}
    <3>1. gain(bs) = 0
      <4>1. TotalWeight(names, {}) = 0
        <5>1. {} \in SUBSET {} /\ IsFiniteSet({})
          BY FS_EmptySet
        <5>2. [k \in {} |-> Weight[names[k]]] = <<>>
          OBVIOUS
        <5>3. \A k \in {} : [q \in {} |-> Weight[names[q]]][k] \in Int
          OBVIOUS
        <5>4. SumFunctionOnSet([q \in {} |-> Weight[names[q]]], {}) = 0
          BY <5>1, <5>3, SumProperties
        <5> QED BY <5>4 DEF TotalWeight, SumFunction
      <4> QED BY <2>2, <4>1
    <3> HIDE DEF sum, gain, limit
    <3>2. 2 * sum(new, bs) <= limit
      BY <1>8, <2>1, <3>1
    <3> QED BY <3>2 DEF sum, limit
  <2>3. CASE Of(names, available, bs) # {}
    <3>1. PICK j \in available : names[j] \in bs
      BY <2>3 DEF Of
    <3> DEFINE b == names[j]
               k == Cardinality(bs)
               m == Cardinality(Backends \ bs)
               a == sum(weights, bs)
    <3>2. b \in bs /\ b \in Backends /\ b # c
      BY <1>10, <3>1
    <3> HIDE DEF b, c
    <3>3. /\ weights[b] + Weight[b] <= weights[c] + gain({c}) /\ Weight[c] <= gain({c})
          /\ Weight[b] \in Nat /\ Weight[c] \in Nat /\ weights[b] \in Int /\ weights[c] \in Int
      <4>1. available \in SUBSET (Nat \ {0}) /\ \A q \in available : names[q] \in Backends
        BY <1>1
      <4>2. /\ weights[names[j]] + Weight[names[j]]
                 <= weights[names[i]] + TotalWeight(names, Of(names, available, {names[i]}))
            /\ Weight[names[i]] <= TotalWeight(names, Of(names, available, {names[i]}))
            /\ Weight[names[i]] \in Nat /\ Weight[names[j]] \in Nat
        BY <1>1, <4>1, NotFarAhead
      <4>3. weights[b] \in Int /\ weights[c] \in Int
        BY <1>1, <3>2
      <4> QED BY <4>2, <4>3 DEF b, c
    <3>4. 2 * (a - weights[b]) <= ((k - 1) * (m + 1)) * Swing
      <4> DEFINE less == bs \ {b}
                 more == Backends \ less
      <4>1. less \in SUBSET Backends /\ more = (Backends \ bs) \cup {b} /\ b \notin Backends \ bs
        BY <3>2
      <4>2. IsFiniteSet(bs) /\ IsFiniteSet(Backends \ bs)
        BY <1>4
      <4>3. Cardinality(less) = k - 1
        <5>1. Cardinality(bs \ {b}) = Cardinality(bs) - 1
          BY ONLY <3>2, <4>2, FS_RemoveElement
        <5> QED BY <5>1
      <4>4. Cardinality(more) = m + 1
        BY <4>1, <4>2, FS_AddElement
      <4>5. 2 * sum(weights, less) <= (Cardinality(less) * Cardinality(more)) * Swing
        BY <4>1 DEF Bounded
      <4>6. a = weights[b] + sum(weights, less)
        <5>1. \A q \in bs : weights[q] \in Int
          OBVIOUS
        <5> QED BY <3>2, <4>2, <5>1, SumProperties
      <4>7. sum(weights, less) \in Int
        BY <1>4, <4>1
      <4> HIDE DEF less, more, k, m, sum, a
      <4>8. a - weights[b] = sum(weights, less)
        BY <3>3, <4>6, <4>7
      <4> QED BY <4>3, <4>4, <4>5, <4>8
    <3>5. 2 * (a + weights[c]) <= ((k + 1) * (m - 1)) * Swing
      <4> DEFINE more == bs \cup {c}
                 less == Backends \ more
      <4>1. /\ more \in SUBSET Backends /\ less = (Backends \ bs) \ {c} /\ c \in Backends \ bs
            /\ more \ {c} = bs /\ c \in more
        BY <1>1, <1>10
      <4>2. IsFiniteSet(bs) /\ IsFiniteSet(Backends \ bs) /\ IsFiniteSet(more)
        BY <1>4, <4>1
      <4>3. Cardinality(less) = m - 1
        <5> DEFINE others == Backends \ bs
        <5>1. IsFiniteSet(others) /\ c \in others
          BY <4>1, <4>2
        <5> HIDE DEF others
        <5>2. Cardinality(others \ {c}) = Cardinality(others) - 1
          BY <5>1, FS_RemoveElement
        <5> QED BY <4>1, <5>2 DEF others
      <4>4. Cardinality(more) = k + 1
        BY <1>10, <4>2, FS_AddElement
      <4>5. 2 * sum(weights, more) <= (Cardinality(more) * Cardinality(less)) * Swing
        BY <4>1 DEF Bounded
      <4>6. sum(weights, more) = weights[c] + a
        <5>1. \A q \in more : weights[q] \in Int
          BY <4>1
        <5> HIDE DEF more
        <5> QED BY <4>1, <4>2, <5>1, SumProperties
      <4>7. a \in Int
        BY <2>1
      <4> HIDE DEF less, more, k, m, sum, a
      <4>8. a + weights[c] = sum(weights, more)
        BY <3>3, <4>6, <4>7
      <4> QED BY <4>3, <4>4, <4>5, <4>8
    <3>6. k \in Nat /\ m \in Nat /\ Swing \in Nat /\ a \in Int
      <4>1. IsFiniteSet(bs) /\ IsFiniteSet(Backends \ bs)
        BY <1>4
      <4> QED BY <2>1, <4>1, FS_CardinalityType, SwingAssumption
    <3>7. limit = (k * m) * Swing
      OBVIOUS
    <3> HIDE DEF a, k, m, limit
    <3>8. 2 * a <= limit - Swing + (weights[b] - weights[c])
      BY <3>3, <3>4, <3>5, <3>6, <3>7, BetweenBounds
    <3>9. gain(bs) + gain({c}) <= total /\ gain({c}) \in Nat
      <4> DEFINE X == Of(names, available, bs)
                 Y == Of(names, available, {c})
                 Z == available \ X
      <4>1. X \in SUBSET available /\ Z \in SUBSET available /\ Y \in SUBSET Z
        BY <1>10 DEF Of
      <4>2. /\ gain(bs) \in Nat /\ TotalWeight(names, Z) \in Nat
            /\ total = gain(bs) + TotalWeight(names, Z)
        BY <1>5, <4>1
      <4> HIDE DEF X, Y, Z, total
      <4>3. IsFiniteSet(Z) /\ \A q \in Z : names[q] \in Backends
        BY <1>1, <4>1, FS_Subset
      <4>4. /\ TotalWeight(names, Z) = TotalWeight(names, Y) + TotalWeight(names, Z \ Y)
            /\ TotalWeight(names, Y) \in Nat /\ TotalWeight(names, Z \ Y) \in Nat
        BY ONLY <4>1, <4>3, TotalSplit
      <4>5. gain({c}) = TotalWeight(names, Y)
        BY DEF Y
      <4> HIDE DEF gain
      <4> QED BY <4>2, <4>4, <4>5
    <3>10. 2 * total - Weight[b] - Weight[c] <= Swing
      <4> DEFINE whole == TotalWeight(names, EnabledIn(names))
                 rest == TotalWeight(names, EnabledIn(names) \ available)
      <4>1. total \in Nat /\ rest \in Nat /\ whole = total + rest
        BY <1>1, TotalSplit
      <4>2. 2 * whole - Weight[b] - Weight[c] <= Swing
        BY <1>1, <3>2, SwingAssumption
      <4> HIDE DEF whole, rest, total
      <4> QED BY <3>3, <3>6, <4>1, <4>2
    <3> HIDE DEF sum, gain, total
    <3>11. sum(new, bs) = a + gain(bs)
      BY <2>1 DEF a
    <3>12. 2 * sum(new, bs) <= limit
      BY <1>2, <1>6, <1>8, <3>3, <3>6, <3>8, <3>9, <3>10, <3>11
    <3> QED BY <3>12 DEF sum, limit
  <2> QED BY <2>2, <2>3
<1> QED BY <1>9, <1>10

Balanced == \A v \in Versions : Bounded(smooth[v])

LEMMA SelectStaysBalanced ==
    ASSUME Types, Weighted, Known, Balanced, NEW r \in Requests, Select(r) PROVE Balanced'
<1> DEFINE v == on[r]
           names == pool[r].names
           available == Unused(pool[r], order[r])
<1>1. v \in Versions /\ smooth[v] \in [Backends -> Int] /\ Bounded(smooth[v])
  BY DEF Types, Weighted, Balanced
<1>2. names \in Lists
  BY DEF Known, Select
<1>3. available \in SUBSET EnabledIn(names)
  BY DEF Types, Enabled, Unused, EnabledIn
<1>4. IsFiniteSet(EnabledIn(names)) /\ EnabledIn(names) \subseteq Nat \ {0}
  <2>1. names \in Seq(Configured)
    BY DEF Types, PoolOf
  <2>2. DOMAIN names = 1..Len(names) /\ Len(names) \in Nat
    BY <2>1
  <2>3. EnabledIn(names) \in SUBSET (1..Len(names))
    BY <2>2 DEF EnabledIn
  <2> HIDE DEF names
  <2>4. IsFiniteSet(1..Len(names))
    BY <2>2, FS_Interval
  <2>5. \A j \in 1..Len(names) : j \in Nat \ {0}
    BY <2>2
  <2> QED BY <2>3, <2>4, <2>5, FS_Subset
<1>5. PICK i \in available :
          \/ UNCHANGED smooth
          \/ /\ Heaviest(i, smooth[v], names, available)
             /\ smooth' = [smooth EXCEPT ![v] = [Raised(smooth[v], names, available)
                                EXCEPT ![names[i]] = @ - TotalWeight(names, available)]]
  BY DEF Select, SelectLeastConnections, SelectWeightedRoundRobin
<1>6. CASE UNCHANGED smooth
  BY <1>6 DEF Balanced, Bounded
<1>7. CASE /\ Heaviest(i, smooth[v], names, available)
           /\ smooth' = [smooth EXCEPT ![v] = [Raised(smooth[v], names, available)
                              EXCEPT ![names[i]] = @ - TotalWeight(names, available)]]
  <2> DEFINE w == [Raised(smooth[v], names, available)
                      EXCEPT ![names[i]] = @ - TotalWeight(names, available)]
  <2>1. smooth' = [smooth EXCEPT ![v] = w] /\ smooth \in [Versions -> [Backends -> Int]]
    BY <1>7 DEF Weighted
  <2>2. w \in [Backends -> Int]
    <3>1. IsFiniteSet(available) /\ \A j \in available : names[j] \in Backends
      BY <1>3, <1>4, FS_Subset DEF EnabledIn
    <3> HIDE DEF names, available, v
    <3>2. /\ Raised(smooth[v], names, available) \in [Backends -> Int]
          /\ TotalWeight(names, available) \in Int
      BY <1>1, <3>1, RaisedSum
    <3>3. ASSUME NEW raised \in [Backends -> Int], NEW total \in Int, NEW c \in Backends
          PROVE  [raised EXCEPT ![c] = @ - total] \in [Backends -> Int]
      <4>1. raised[c] - total \in Int
        OBVIOUS
      <4> QED BY <4>1
    <3>4. names[i] \in Backends
      BY <1>5, <3>1
    <3> QED BY <3>2, <3>3, <3>4
  <2>3. Bounded(w)
    <3> HIDE DEF names, available, v, w
    <3>1. w = [Raised(smooth[v], names, available)
                  EXCEPT ![names[i]] = @ - TotalWeight(names, available)]
      BY DEF w
    <3> QED BY <1>1, <1>2, <1>3, <1>4, <1>7, <2>2, <3>1, SelectStaysBounded
  <2> HIDE DEF w, v
  <2>4. \A u \in Versions : smooth'[u] = IF u = v THEN w ELSE smooth[u]
    BY <1>1, <2>1
  <2>5. \A u \in Versions : Bounded(smooth'[u])
    BY <2>3, <2>4 DEF Balanced
  <2> QED BY <2>5 DEF Balanced, Bounded
<1> QED BY <1>5, <1>6, <1>7

LEMMA BalancedStep == Types /\ Weighted /\ Known /\ Balanced /\ [Next]_vars => Balanced'
<1> SUFFICES ASSUME Types, Weighted, Known, Balanced, [Next]_vars PROVE Balanced'
  OBVIOUS
<1>1. ASSUME UNCHANGED smooth PROVE Balanced'
  BY <1>1 DEF Balanced, Bounded
<1>2. CASE Background
  BY <1>1, <1>2 DEF Background, HealthLoop, Ask, Check, Apply, Toggle, runtimeVars
<1>3. CASE UNCHANGED vars
  BY <1>1, <1>3 DEF vars, state, runtimeVars
<1> QED BY <1>1, <1>2, <1>3, StepCases, OnlySelectBalances, SelectStaysBalanced

LEMMA BalancedInit == Init => Balanced
<1> SUFFICES ASSUME Init, NEW v \in Versions, NEW bs \in SUBSET Backends
             PROVE  2 * SumFunctionOnSet(smooth[v], bs)
                      <= (Cardinality(bs) * Cardinality(Backends \ bs)) * Swing
  BY DEF Balanced, Bounded
<1> DEFINE w == smooth[v]
           others == Backends \ bs
           k == Cardinality(bs)
           m == Cardinality(others)
<1>1. DOMAIN w = Backends /\ \A b \in Backends : w[b] = 0
  BY DEF Init
<1>2. SumFunctionOnSet(w, Backends) = 0
  BY <1>1, WeightedInit DEF Weighted, WeightsConserved, SumFunction
<1> HIDE DEF w
<1>3. IsFiniteSet(Backends) /\ IsFiniteSet(bs) /\ IsFiniteSet(others)
  BY GatewayAssumption, FS_Subset
<1>4. SumFunctionOnSet(w, bs) \in Nat /\ SumFunctionOnSet(w, others) \in Nat
  <2>1. (\A b \in bs : w[b] \in Nat) /\ \A b \in others : w[b] \in Nat
    BY <1>1
  <2> QED BY <1>3, <2>1, SumIsNat
<1>5. SumFunctionOnSet(w, Backends) = SumFunctionOnSet(w, bs) + SumFunctionOnSet(w, others)
  <2>1. \A b \in Backends : w[b] \in Int
    BY <1>1
  <2> QED BY <1>3, <2>1, SumSplit
<1>6. SumFunctionOnSet(w, bs) = 0
  BY <1>2, <1>4, <1>5
<1>7. (k * m) * Swing >= 0
  <2>1. k \in Nat /\ m \in Nat /\ Swing \in Nat
    BY <1>3, FS_CardinalityType, SwingAssumption
  <2> HIDE DEF k, m
  <2>2. k * m \in Nat
    BY <2>1
  <2> QED BY <2>1, <2>2
<1>8. 2 * SumFunctionOnSet(w, bs) <= (k * m) * Swing
  <2> DEFINE limit == (k * m) * Swing
  <2>1. limit >= 0
    BY <1>7
  <2> HIDE DEF limit
  <2>2. 2 * 0 <= limit
    BY <2>1
  <2> QED BY <1>6, <2>2 DEF limit
<1> QED BY <1>8 DEF w

-----------------------------------------------------------------------------
(* The invariant, and what it says of every behaviour.                     *)

GatewayInv ==
    /\ Types /\ Calling /\ NoneTwice /\ ActiveCounted /\ Covered
    /\ Known /\ Weighted /\ Balanced

LEMMA InvInit == Init => GatewayInv
<1> SUFFICES ASSUME Init PROVE GatewayInv
  OBVIOUS
<1>1. Types
  BY TypesInit
<1>2. \A r \in Requests : pc[r] = "idle" /\ order[r] = <<>>
  BY DEF Init
<1>3. Calling /\ Covered
  BY <1>2 DEF Calling, Covered, Searched, Listed
<1>4. NoneTwice
  <2>1. IsInjective(<<>>)
    BY DEF IsInjective
  <2> QED BY <1>2, <2>1 DEF NoneTwice
<1>5. ActiveCounted
  <2> SUFFICES ASSUME NEW v \in Versions, NEW b \in Backends
               PROVE  active[v][b] = Cardinality(Calls(v, b))
    BY DEF ActiveCounted, Calls
  <2>1. Calls(v, b) = {}
    BY <1>2 DEF Calls
  <2>2. active[v][b] = 0
    BY DEF Init
  <2> QED BY <2>1, <2>2, FS_EmptySet
<1>6. Known
  BY <1>2 DEF Known
<1> QED BY <1>1, <1>3, <1>4, <1>5, <1>6, WeightedInit, BalancedInit DEF GatewayInv

LEMMA InvNext == GatewayInv /\ [Next]_vars => GatewayInv'
<1> QED BY TypesStep, CallingStep, NoneTwiceStep, CountedStep, CoveredStep, KnownStep,
           WeightedStep, BalancedStep DEF GatewayInv

LEMMA GatewayInvariant == Spec => []GatewayInv
<1> QED BY InvInit, InvNext, PTL DEF Spec

(* Failover passes over nobody that could have answered.                   *)
LEMMA CoveredReaches == GatewayInv => FailoverReaches
<1> SUFFICES ASSUME GatewayInv, NEW r \in Requests
             PROVE  /\ Unanswered(r) => good[r] \cap Reachable(kind[r]) = {}
                    /\ Refused(r) => good[r] = {}
  BY DEF FailoverReaches
<1> USE DEF GatewayInv
<1>0. ToSet(<<>>) = {}
  BY DEF ToSet
<1>1. ASSUME Unanswered(r) PROVE good[r] \cap Reachable(kind[r]) = {}
  <2>1. good[r] \cap Reachable(kind[r]) \subseteq ToSet(order[r])
    BY <1>1 DEF Unanswered, Covered, Listed
  <2> QED BY <1>0, <1>1, <2>1 DEF Unanswered
<1>2. ASSUME Refused(r) PROVE good[r] = {}
  <2> DEFINE k == kind[r]
             plan == Plan(k)
  <2>0. k \in Kinds /\ good[r] \subseteq Backends
    BY DEF Types
  <2>1. PICK n \in 1..Len(plan) :
           /\ routes[r] = SubSeq(plan, n + 1, Len(plan))
           /\ \A j \in 1..Len(Pools(plan[n])) :
                 good[r] \cap Offer(k, Pools(plan[n])[j]) \subseteq ToSet(order[r])
    BY <1>2, RouteSearched DEF Refused, Covered
  <2>2. plan \in Seq(Route) /\ Len(plan) \in Nat /\ plan[Len(plan)] = Everything
    BY <2>0, PlanType
  <2>3. Len(Pools(plan[n])) \in 2..3
    BY <2>0, ListTypes
  <2> HIDE DEF k, plan
  <2>4. n = Len(plan)
    BY <1>2, <2>1, <2>2, Rest DEF Refused
  <2>5. 2 \in 1..Len(Pools(plan[n])) /\ Offer(k, Pools(plan[n])[2]) = Backends
    BY <2>0, <2>2, <2>3, <2>4, EverythingOffered
  <2>6. good[r] \cap Backends \subseteq ToSet(order[r])
    BY <2>1, <2>5
  <2> QED BY <1>0, <1>2, <2>0, <2>6 DEF Refused
<1> QED BY <1>1, <1>2

(* A request's list of backends never names one twice, whatever lists its  *)
(* routes, the fallback and the defaults are.                              *)
THEOREM NoneAskedTwice == Spec => []NoneTwice
<1> QED BY GatewayInvariant, PTL DEF GatewayInv

(* The connections that are counted are the calls under way, each on the   *)
(* configuration it captured, through any number of reloads.               *)
THEOREM ConnectionsCounted == Spec => []ActiveCounted
<1> QED BY GatewayInvariant, PTL DEF GatewayInv

(* A request is refused or fails only if each backend that could have      *)
(* answered it was down or out of service since it arrived, whatever other *)
(* requests, probes and reloads do meanwhile.                              *)
THEOREM FailoverCovers == Spec => []FailoverReaches
<1> QED BY GatewayInvariant, CoveredReaches, PTL

(* No balancer gains or loses weight, and no group of backends gets ahead  *)
(* or falls behind without limit, whatever the backends' weights and the   *)
(* pools that selectWeightedRoundRobin is given, also pools that name a    *)
(* backend twice or leave one out.                                         *)
THEOREM WeightsStayBalanced == Spec => []SmoothBalanced
<1>1. GatewayInv => SmoothBalanced
  BY DEF GatewayInv, Weighted, Balanced, Bounded, SmoothBalanced
<1> QED BY <1>1, GatewayInvariant, PTL

(* A connection count is never negative: a call that returns discounts the *)
(* backend and configuration it was counted on.                            *)
THEOREM TypeCorrect == Spec => []TypeOK
<1>1. GatewayInv => TypeOK
  <2> SUFFICES ASSUME GatewayInv PROVE TypeOK
    OBVIOUS
  <2>1. active \in [Versions -> [Backends -> Nat]]
    <3>1. ASSUME NEW v \in Versions, NEW b \in Backends PROVE active[v][b] \in Nat
      <4>1. active[v][b] = Cardinality(Calls(v, b))
        BY DEF GatewayInv, ActiveCounted, Calls
      <4> QED BY <4>1, CallsFinite, FS_CardinalityType
    <3>2. active \in [Versions -> [Backends -> Int]]
      BY DEF GatewayInv, Types
    <3> QED BY <3>1, <3>2
  <2> QED BY <2>1 DEF GatewayInv, Types, Weighted, TypeOK
<1> QED BY <1>1, GatewayInvariant, PTL
=============================================================================

------------------------------- MODULE Gateway -------------------------------
(***************************************************************************)
(* The data path of the LLM gateway, internal/llmgateway: a request is     *)
(* resolved to an ordered list of backends, which are tried in turn;       *)
(* probes and requests set the backends' health flags; a new configuration *)
(* replaces the whole runtime state, while requests and probes under way   *)
(* keep the one they started with.                                         *)
(*                                                                         *)
(* A step is what happens under one hold of a lock (a backend's, the       *)
(* balancer's, the runtime's) or one atomic operation; the flags of one    *)
(* pool of backends are read in one step.                                  *)
(***************************************************************************)
EXTENDS Integers, FiniteSets, SequencesExt

CONSTANTS
    Configured,      \* the backends of the configuration
    Backends,        \* those that are enabled
    Names,           \* their sequence in the order of their names
    Weight, Priority, Context,      \* of each backend; context length 0: no limit
    Kinds,           \* the requests that differ for the router
    Tokens,          \* tokens of each kind of request
    Matching,        \* for each kind, the routes that match, by priority
    Defaults,        \* the default route
    Requests,        \* requests handled at a time
    Flaky,           \* the backends that may fail
    Swing,           \* of the lists' weights: see SwingAssumption
    MaxVersion       \* bound: configurations applied

Strategies == {"weighted_round_robin", "least_connections"}
Route == [backends : Seq(Configured), fallback : Seq(Configured), strategy : Strategies]
Everything == [backends |-> <<>>, fallback |-> <<>>, strategy |-> Defaults.strategy]

ASSUME GatewayAssumption ==
    /\ IsFiniteSet(Backends) /\ Backends # {} /\ Backends \subseteq Configured
    /\ Names \in Seq(Backends) /\ ToSet(Names) = Backends /\ IsInjective(Names)
    /\ Weight \in [Backends -> Nat \ {0}] /\ Priority \in [Backends -> Int]
    /\ Context \in [Backends -> Nat] /\ Tokens \in [Kinds -> Nat]
    /\ Matching \in [Kinds -> Seq(Route)] /\ Defaults \in Route
    /\ IsFiniteSet(Requests) /\ Flaky \subseteq Backends /\ MaxVersion \in Nat \ {0}
    /\ Kinds # {}

Versions == 1..MaxVersion

(* Candidates: the positions of those backends in a list of names, which   *)
(* may name a backend twice.                                               *)
NoPool == [strategy |-> Defaults.strategy, names |-> <<>>, at |-> {}]

VARIABLES
    version,         \* of the current runtimeState
    healthy, active, smooth,    \* of each version's backends and balancer
    pc,              \* where the handler of each request is
    on, kind,        \* the version it captured and what it asks
    routes,          \* the routes it has not resolved to a backend yet
    pools,           \* pools of the current route it has not opened yet
    pool,            \* candidates of the pool it is selecting from
    order,           \* the backends selected, then those still to be tried
    gone,            \* its client has hung up
    probe,           \* the health loop: version, place in Names, state
    up,              \* external: the backends that answer
    good             \* history: backends up and healthy since it arrived

runtimeVars == <<version, healthy, active, smooth>>
requestVars == <<pc, on, kind, routes, pools, pool, order, gone>>
state == <<runtimeVars, requestVars, probe, up>>
vars  == <<state, good>>

PCs == {"idle", "route", "select", "try", "call", "succeeded", "failed"}

Init ==
    /\ version = 1
    /\ healthy = [v \in Versions |-> [b \in Backends |-> TRUE]]
    /\ active = [v \in Versions |-> [b \in Backends |-> 0]]
    /\ smooth = [v \in Versions |-> [b \in Backends |-> 0]]
    /\ pc = [r \in Requests |-> "idle"]
    /\ on = [r \in Requests |-> 1]
    /\ kind = [r \in Requests |-> CHOOSE k \in Kinds : TRUE]
    /\ routes = [r \in Requests |-> <<>>]
    /\ pools = [r \in Requests |-> <<>>] /\ pool = [r \in Requests |-> NoPool]
    /\ order = [r \in Requests |-> <<>>]
    /\ gone = [r \in Requests |-> FALSE]
    /\ probe = [on |-> 1, at |-> 1, state |-> "ask"]
    /\ up = [b \in Backends |-> TRUE]
    /\ good = [r \in Requests |-> {}]

-----------------------------------------------------------------------------
(* The balancer                                                            *)

\* Mutant: the backends already selected are not left out.
UnusedOrNot(p, used) == p.at

Unused(p, used) == {i \in p.at : p.names[i] \notin ToSet(used)}

(* The first of the positions that none is before.                         *)
FirstBest(i, available, Before(_, _)) ==
    \A j \in available : ~Before(j, i) /\ (j < i => Before(i, j))

(* A name gains its weight each time it is met.                            *)
Met(names, available, b) == {j \in available : names[j] = b}

Raised(weights, names, available) ==
    [b \in Backends |-> weights[b] + Cardinality(Met(names, available, b)) * Weight[b]]

TotalWeight(names, available) == SumFunction([i \in available |-> Weight[names[i]]])

Heaviest(i, weights, names, available) ==
    LET When(j) == Raised(weights, names, available \cap 1..j)[names[j]]
        Before(j, k) == When(j) > When(k)
    IN  FirstBest(i, available, Before)

\* Mutant: only the selected backend's weight is raised.
SelectRaisingOne(r, i, names, available) ==
    LET v == on[r]
        best == names[i]
    IN  /\ Heaviest(i, smooth[v], names, available)
        /\ smooth' = [smooth EXCEPT ![v][best] = @ + Weight[best] - TotalWeight(names, available)]

SelectWeightedRoundRobin(r, i, names, available) ==
    LET v == on[r]
    IN  /\ Heaviest(i, smooth[v], names, available)
        /\ smooth' = [smooth EXCEPT ![v] = [Raised(smooth[v], names, available)
                        EXCEPT ![names[i]] = @ - TotalWeight(names, available)]]

(* (active + 1) / weight, then the priority.                               *)
SelectLeastConnections(r, i, names, available) ==
    LET Score(j, k) == (active[on[r]][names[j]] + 1) * Weight[names[k]]
        Before(j, k) == \/ Score(j, k) < Score(k, j)
                        \/ /\ Score(j, k) = Score(k, j)
                           /\ Priority[names[j]] < Priority[names[k]]
    IN  FirstBest(i, available, Before) /\ UNCHANGED smooth

-----------------------------------------------------------------------------
(* The router                                                              *)

AllOr(names) == IF names = <<>> THEN Names ELSE names

(* Names that are not those of enabled backends are passed over.           *)
Resolve(v, names) == {i \in DOMAIN names : names[i] \in Backends /\ healthy[v][names[i]]}

FilterByContext(bs, tokens) == {b \in bs : Context[b] = 0 \/ tokens <= Context[b]}

(* The pools of a route: its backends that fit, its fallback, and all      *)
(* backends if it names none.                                              *)
Pools(route) ==
    <<[names |-> route.backends, fit |-> TRUE, strategy |-> route.strategy],
      [names |-> route.fallback, fit |-> FALSE, strategy |-> Defaults.strategy]>>
    \o IF route.backends = <<>> /\ route.fallback = <<>>
         THEN <<[names |-> <<>>, fit |-> TRUE, strategy |-> route.strategy]>> ELSE <<>>

(* A named pool in which nothing fits is taken as it is.                   *)
Candidates(r, p) ==
    LET names == AllOr(p.names)
        resolved == Resolve(on[r], names)
        fitting == {i \in resolved : names[i] \in FilterByContext(Backends, Tokens[kind[r]])}
    IN  [strategy |-> p.strategy, names |-> names,
         at |-> IF p.fit /\ (fitting # {} \/ p.names = <<>>) THEN fitting ELSE resolved]

(* The routes tried for a kind of request, in this order.  What a route's  *)
(* classifier picks, if it answers, takes the place of the route's         *)
(* backends: requests classified differently are of different kinds.       *)
Plan(k) == Matching[k] \o <<Defaults, Everything>>

(* The lists of names that candidates are taken from, and what selecting   *)
(* from them once may do to the balance of two backends: Swing is no less  *)
(* than twice the weight of any list, without that of any two backends.    *)
Lists == {AllOr(p.names) :
             p \in UNION {ToSet(Pools(route)) : route \in UNION {ToSet(Plan(k)) : k \in Kinds}}}

EnabledIn(names) == {i \in DOMAIN names : names[i] \in Backends}

ASSUME SwingAssumption ==
    /\ Swing \in Nat
    /\ \A names \in Lists, b, c \in Backends :
           b # c => 2 * TotalWeight(names, EnabledIn(names)) - Weight[b] - Weight[c] <= Swing

Becomes(r, to) == pc' = [pc EXCEPT ![r] = to]

(* The handler captures the runtime state.                                 *)
Arrive(r, k) ==
    /\ pc[r] = "idle" /\ Becomes(r, "route")
    /\ on' = [on EXCEPT ![r] = version] /\ kind' = [kind EXCEPT ![r] = k]
    /\ LET plan == Plan(k)
       IN  /\ routes' = [routes EXCEPT ![r] = Tail(plan)]
           /\ pools' = [pools EXCEPT ![r] = Pools(Head(plan))]
    /\ UNCHANGED <<runtimeVars, pool, order, gone, probe, up>>

OpenPool(r) ==
    /\ pc[r] = "route" /\ pools[r] # <<>>
    /\ LET p == Candidates(r, Head(pools[r]))
       IN  /\ pool' = [pool EXCEPT ![r] = p]
           /\ IF Unused(p, order[r]) = {} THEN UNCHANGED pc ELSE Becomes(r, "select")
    /\ pools' = [pools EXCEPT ![r] = Tail(@)]
    /\ UNCHANGED <<runtimeVars, on, kind, routes, order, gone, probe, up>>

(* Balancer.Select, until every candidate of the pool is in the order.     *)
Select(r) ==
    /\ pc[r] = "select"
    /\ LET p == pool[r]
           available == Unused(p, order[r])
       IN  \E i \in available :
              /\ IF p.strategy = "least_connections"
                   THEN SelectLeastConnections(r, i, p.names, available)
                   ELSE SelectWeightedRoundRobin(r, i, p.names, available)
              /\ order' = [order EXCEPT ![r] = Append(@, p.names[i])]
              /\ IF Unused(p, order'[r]) = {} THEN Becomes(r, "route") ELSE UNCHANGED pc
    /\ UNCHANGED <<version, healthy, active, on, kind, routes, pools, pool, gone, probe, up>>

NextRoute(r) ==
    /\ pc[r] = "route" /\ pools[r] = <<>> /\ order[r] = <<>> /\ routes[r] # <<>>
    /\ pools' = [pools EXCEPT ![r] = Pools(Head(routes[r]))]
    /\ routes' = [routes EXCEPT ![r] = Tail(@)]
    /\ UNCHANGED <<runtimeVars, pc, on, kind, pool, order, gone, probe, up>>

Resolved(r) ==
    /\ pc[r] = "route" /\ pools[r] = <<>> /\ order[r] # <<>>
    /\ Becomes(r, "try")
    /\ routes' = [routes EXCEPT ![r] = <<>>] /\ pool' = [pool EXCEPT ![r] = NoPool]
    /\ UNCHANGED <<runtimeVars, on, kind, pools, order, gone, probe, up>>

Ends(r) ==
    /\ Becomes(r, "idle")
    /\ on' = [on EXCEPT ![r] = 1] /\ kind' = [kind EXCEPT ![r] = CHOOSE k \in Kinds : TRUE]
    /\ pool' = [pool EXCEPT ![r] = NoPool] /\ order' = [order EXCEPT ![r] = <<>>]
    /\ gone' = [gone EXCEPT ![r] = FALSE]
    /\ UNCHANGED <<version, active, smooth, routes, pools, probe, up>>

(* The admin API's dry run resolves, and moves the balancer, as a request  *)
(* does, but calls nobody.                                                 *)
DryRun(r) == pc[r] = "route" /\ pools[r] = <<>> /\ order[r] # <<>> /\ Ends(r) /\ UNCHANGED healthy

(* "no healthy backend available": 503.                                    *)
Refuse(r) ==
    /\ pc[r] = "route" /\ pools[r] = <<>> /\ order[r] = <<>> /\ routes[r] = <<>>
    /\ Ends(r) /\ UNCHANGED healthy

-----------------------------------------------------------------------------
(* Failover                                                                *)

Backend(r) == Head(order[r])

TryGuard(r) == pc[r] = "try" /\ order[r] # <<>>

Take(r) ==
    /\ Becomes(r, "call")
    /\ active' = [active EXCEPT ![on[r]][Backend(r)] = @ + 1]
    /\ UNCHANGED order

TryFrame(r) == UNCHANGED <<version, healthy, smooth, on, kind, routes, pools, pool, gone, probe, up>>

\* Mutant: an unhealthy backend ends the loop instead of being skipped.
TryStopping(r) ==
    /\ TryGuard(r) /\ TryFrame(r)
    /\ IF healthy[on[r]][Backend(r)] THEN Take(r)
         ELSE order' = [order EXCEPT ![r] = <<>>] /\ UNCHANGED <<pc, active>>

\* Mutant: the connection is not counted.
TryUncounted(r) ==
    /\ TryGuard(r) /\ TryFrame(r) /\ UNCHANGED active
    /\ IF healthy[on[r]][Backend(r)] THEN Becomes(r, "call") /\ UNCHANGED order
         ELSE order' = [order EXCEPT ![r] = Tail(@)] /\ UNCHANGED pc

Try(r) ==
    /\ TryGuard(r) /\ TryFrame(r)
    /\ IF healthy[on[r]][Backend(r)] THEN Take(r)
         ELSE order' = [order EXCEPT ![r] = Tail(@)] /\ UNCHANGED <<pc, active>>

(* client.Do ends with the headers of an answer or with an error, also     *)
(* when the client's context is done.                                      *)
Answered(r) == up[Backend(r)] /\ ~gone[r] /\ Becomes(r, "succeeded")
Errs(r) == (~up[Backend(r)] \/ gone[r]) /\ Becomes(r, "failed")

DecActive(r, v) == active' = [active EXCEPT ![v][Backend(r)] = @ - 1]

ReturnFrame(r) ==
    /\ pc[r] = "call"
    /\ UNCHANGED <<version, healthy, smooth, on, kind, routes, pools, pool, order, gone, probe, up>>

\* Mutant: a failed call stays counted.
ReturnLeaking(r) ==
    /\ ReturnFrame(r)
    /\ \/ Answered(r) /\ DecActive(r, on[r])
       \/ Errs(r) /\ UNCHANGED active

\* Mutant: the backend of the current configuration is discounted.
ReturnToCurrent(r) == ReturnFrame(r) /\ (Answered(r) \/ Errs(r)) /\ DecActive(r, version)

\* Mutant: the HTTP client has no timeout.
ReturnUntimed(r) ==
    ReturnFrame(r) /\ (Answered(r) \/ (gone[r] /\ Errs(r))) /\ DecActive(r, on[r])

(* proxyOnce: an answer of 500 and above, or 429, is a failure too.        *)
Return(r) == ReturnFrame(r) /\ (Answered(r) \/ Errs(r)) /\ DecActive(r, on[r])

(* The rest of the handler, which copies the answer's body to the client,  *)
(* touches nothing modelled here.                                          *)
MarkSuccess(r) ==
    /\ pc[r] = "succeeded"
    /\ healthy' = [healthy EXCEPT ![on[r]][Backend(r)] = TRUE]
    /\ Ends(r)

MarkFailure(r) ==
    /\ pc[r] = "failed" /\ Becomes(r, "try")
    /\ healthy' = [healthy EXCEPT ![on[r]][Backend(r)] = FALSE]
    /\ order' = [order EXCEPT ![r] = Tail(@)]
    /\ UNCHANGED <<version, active, smooth, on, kind, routes, pools, pool, gone, probe, up>>

(* "all backends failed": 502.                                             *)
Fail(r) == pc[r] = "try" /\ order[r] = <<>> /\ Ends(r) /\ UNCHANGED healthy

(* Only calls look at the client's context.                                *)
HangUp(r) ==
    /\ pc[r] \in {"try", "call"} /\ ~gone[r]
    /\ gone' = [gone EXCEPT ![r] = TRUE]
    /\ UNCHANGED <<runtimeVars, pc, on, kind, routes, pools, pool, order, probe, up>>

-----------------------------------------------------------------------------
(* The health loop, reloading, and the backends themselves.                *)

Ask ==
    /\ probe.state = "ask"
    /\ probe' = [probe EXCEPT !.state = IF up[Names[probe.at]] THEN "fine" ELSE "bad"]
    /\ UNCHANGED <<runtimeVars, requestVars, up>>

\* Mutant: the loop keeps the backends it started with.
OldBackends == 1

NextRound == version    \* the backends current when a round begins

Advance ==
    probe' = IF probe.at < Len(Names)
              THEN [on |-> probe.on, at |-> probe.at + 1, state |-> "ask"]
              ELSE [on |-> NextRound, at |-> 1, state |-> "ask"]

\* Mutant: a failed probe leaves the flag alone.
CheckReviving ==
    /\ probe.state # "ask" /\ Advance
    /\ healthy' = [healthy EXCEPT ![probe.on][Names[probe.at]] = @ \/ probe.state = "fine"]
    /\ UNCHANGED <<version, active, smooth, requestVars, up>>

(* checkBackend sets the flag; a round that is over is followed by one for *)
(* the version then current.                                               *)
Check ==
    /\ probe.state # "ask" /\ Advance
    /\ healthy' = [healthy EXCEPT ![probe.on][Names[probe.at]] = (probe.state = "fine")]
    /\ UNCHANGED <<version, active, smooth, requestVars, up>>

(* RuntimeManager.apply: new backends, taken to be healthy.                *)
Apply ==
    /\ version < MaxVersion
    /\ version' = version + 1
    /\ UNCHANGED <<healthy, active, smooth, requestVars, probe, up>>

Toggle(b) ==
    /\ up' = [up EXCEPT ![b] = ~@]
    /\ UNCHANGED <<runtimeVars, requestVars, probe>>

-----------------------------------------------------------------------------
ProxyHandler(r) ==
    \/ OpenPool(r) \/ Select(r) \/ NextRoute(r) \/ Resolved(r) \/ DryRun(r) \/ Refuse(r)
    \/ Try(r) \/ Return(r) \/ MarkSuccess(r) \/ MarkFailure(r) \/ Fail(r)

HealthLoop == Ask \/ Check

Remember ==
    good' = [r \in Requests |->
        IF pc'[r] = "idle" THEN {}
        ELSE (IF pc[r] = "idle" THEN Backends ELSE good[r])
             \cap {b \in Backends : up'[b] /\ healthy'[on'[r]][b]}]

Next ==
    /\ \/ \E r \in Requests : (\E k \in Kinds : Arrive(r, k)) \/ ProxyHandler(r) \/ HangUp(r)
       \/ HealthLoop \/ Apply
       \/ \E b \in Flaky : Toggle(b)
    /\ Remember

Spec == Init /\ [][Next]_vars

Fairness == WF_state(HealthLoop) /\ \A r \in Requests : WF_state(ProxyHandler(r))

FairSpec == Spec /\ Fairness

-----------------------------------------------------------------------------
TypeOK ==
    /\ version \in Versions
    /\ healthy \in [Versions -> [Backends -> BOOLEAN]]
    /\ active \in [Versions -> [Backends -> Nat]]
    /\ smooth \in [Versions -> [Backends -> Int]]
    /\ pc \in [Requests -> PCs] /\ on \in [Requests -> Versions]
    /\ kind \in [Requests -> Kinds] /\ gone \in [Requests -> BOOLEAN]
    /\ \A r \in Requests : order[r] \in Seq(Backends)
    /\ up \in [Backends -> BOOLEAN]
    /\ good \in [Requests -> SUBSET Backends]

(* Each configuration's balancer takes back the weight it gives, whatever  *)
(* pools it selects from, ...                                              *)
WeightsConserved == \A v \in Versions : SumFunction(smooth[v]) = 0

(* ... and no backend's state, nor that of several backends together, ever *)
(* drifts away, whichever of them the requests select from: it stays       *)
(* within a bound that only the lists of the configuration make.  (The     *)
(* states of all add up to 0, so that what bounds them above bounds them   *)
(* below.)                                                                 *)
SmoothBalanced ==
    /\ WeightsConserved
    /\ \A v \in Versions, bs \in SUBSET Backends :
           2 * SumFunctionOnSet(smooth[v], bs)
             <= Cardinality(bs) * Cardinality(Backends \ bs) * Swing

(* The connections counted, which least_connections compares, are the      *)
(* calls under way, each on the configuration it captured.                 *)
ActiveCounted ==
    \A v \in Versions, b \in Backends :
        active[v][b] = Cardinality({r \in Requests :
            pc[r] = "call" /\ on[r] = v /\ Backend(r) = b})

(* No request asks a backend twice, whatever its route, the fallback and   *)
(* the defaults name.                                                      *)
NoneTwice == \A r \in Requests : IsInjective(order[r])

(* The backends of the first route of a kind of request.                   *)
Reachable(k) ==
    LET route == Head(Plan(k))
    IN  Backends \cap ( FilterByContext(ToSet(AllOr(route.backends)) \cap Backends, Tokens[k])
                        \cup ToSet(AllOr(route.fallback)) )

Unanswered(r) == pc[r] = "try" /\ order[r] = <<>>
Refused(r) == pc[r] = "route" /\ pools[r] = <<>> /\ order[r] = <<>> /\ routes[r] = <<>>

(* Failover: a request ends without an answer only if each backend that    *)
(* could have given one was down or out of service at some time since it   *)
(* arrived, whatever other requests, probes and reloads did meanwhile.     *)
FailoverReaches ==
    \A r \in Requests : /\ Unanswered(r) => good[r] \cap Reachable(kind[r]) = {}
                        /\ Refused(r) => good[r] = {}

(* Every request ends.                                                     *)
RequestsEnd == \A r \in Requests : pc[r] # "idle" ~> pc[r] = "idle"

(* A backend that is up for good is put back into service again and again, *)
(* however often clients hang up on it, and after reloads too.             *)
Recovers == \A b \in Backends : <>[]up[b] => []<>healthy[version][b]

(* A backend that is down for good is out of service for good at last,     *)
(* also when answers it gave earlier arrive late.                          *)
Notices == \A b \in Backends : <>[]~up[b] => <>[]~healthy[version][b]

(* Through a reload requests end, the health marks follow the backends in  *)
(* the long run, and the count of connections stays right.                 *)
Lively == RequestsEnd /\ Recovers /\ Notices /\ []ActiveCounted
=============================================================================

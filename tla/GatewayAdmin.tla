---------------------------- MODULE GatewayAdmin ----------------------------
(***************************************************************************)
(* The control plane of the LLM gateway, internal/llmgateway: the          *)
(* RuntimeManager with its versions, snapshots, audit trail and feature    *)
(* flags, the admin handlers that change them while requests are admitted, *)
(* routed and recorded, the EventHub that tells subscribers, and           *)
(* Gateway.Run, which starts and stops it all.                             *)
(*                                                                         *)
(* A step is what happens under one hold of a lock.  Publish holds the     *)
(* hub's read lock over several steps, one for each subscriber.  Health,   *)
(* balancing and failover are those of module Gateway: here a request gets *)
(* an answer or none.                                                      *)
(***************************************************************************)
EXTENDS Integers, FiniteSets, SequencesExt

CONSTANTS
    Texts,           \* the configuration texts that are posted
    Startup,         \* the one the gateway is started with
    Config,          \* what yaml.Unmarshal and applyDefaults make of each
    Addresses,       \* of the listeners, fixed at the start
    Kinds,           \* the requests that differ for policies and router
    Calls,           \* admin calls handled at a time
    Requests,        \* proxied requests handled at a time
    Clients,         \* clients of the event stream
    Buffer,          \* capacity of a subscriber's channel (16)
    AuditLimit,      \* entries the audit trail keeps (200)
    LeastLog,        \* decisions the log must be allowed to keep (10)
    Listeners,       \* servers that are started (3)
    MaxArrivals      \* bound: calls, requests and subscriptions made

ASSUME GatewayAdminAssumption ==
    /\ Startup \in Texts /\ DOMAIN Config = Texts
    /\ Buffer \in Nat \ {0} /\ AuditLimit \in Nat \ {0} /\ LeastLog \in Nat
    /\ Listeners \in Nat \ {0} /\ MaxArrivals \in Nat

Versions == 1..MaxArrivals + 1

IsSequence(s) == s \in Seq(ToSet(s))

ASSUME ConfigAssumption ==
    \A t \in Texts :
        LET c == Config[t]
        IN  /\ IsSequence(c.backends) /\ IsSequence(c.defaults) /\ IsSequence(c.routes)
            /\ c.keep \in Int /\ c.log \in Nat /\ c.flag \in BOOLEAN
            /\ IsSequence(c.fallback)
            /\ \A r \in ToSet(c.routes) :
                /\ IsSequence(r.fallback)
                /\ r.priority \in Int /\ IsSequence(r.backends)
                /\ \A label \in DOMAIN r.labels : IsSequence(r.labels[label])

VARIABLES
    version,         \* of the runtimeState in force
    text,            \* its configuration
    snapshots, audit, flag, decisions,       \* the rest of RuntimeManager
    call,            \* each admin call: where it is and what it asks
    request,         \* each proxied request: where it is, what it captured
    channel,         \* of each client's subscription: events buffered
    subscribers,     \* those in the hub's map
    closed,          \* channels that are closed
    sending,         \* who holds the hub's read lock, and whom it has not
                     \* offered its event yet
    client,          \* each event client: "away", "here", "left", "gone"
    run,             \* Gateway.Run
    panicked,        \* a send on a closed channel
    applied,         \* history: the text of each version
    arrived          \* history: calls, requests and subscriptions

managerVars == <<version, text, snapshots, audit, flag, decisions, applied>>
hubVars     == <<channel, subscribers, closed, sending, client, panicked>>
vars == <<managerVars, hubVars, call, request, run, arrived>>

Publishers == Calls \union Requests

CallAt(at, op, arg, target, under) ==
    [at |-> at, op |-> op, arg |-> arg, target |-> target, under |-> under]
NoCall == CallAt("idle", "none", Startup, 0, 0)

RequestAt(at, kind, on, route) == [at |-> at, kind |-> kind, on |-> on, route |-> route]
NoKind == CHOOSE k \in Kinds : TRUE
NoRequest == RequestAt("idle", NoKind, 0, 0)

RunAt(at, signal, listening, errs, err) ==
    [at |-> at, signal |-> signal, listening |-> listening, errs |-> errs, err |-> err]

-----------------------------------------------------------------------------
(* Configurations                                                          *)

Strategies == {"", "weighted_round_robin", "least_connections"}

RefsKnown(refs, c) == ToSet(refs) \subseteq ToSet(c.backends)

(* Config.Validate; a classifier "" names no backend and is not asked.     *)
Validate(c) ==
    /\ c.backends # <<>> /\ IsInjective(c.backends)
    /\ RefsKnown(c.defaults, c) /\ RefsKnown(c.fallback, c) /\ c.strategy \in Strategies
    /\ \A r \in ToSet(c.routes) :
        /\ RefsKnown(r.backends, c) /\ RefsKnown(r.fallback, c) /\ r.strategy \in Strategies
        /\ r.classifier \in ToSet(c.backends) \union {""}
        /\ r.min > 0 /\ r.max > 0 => r.min <= r.max
        /\ \A label \in DOMAIN r.labels :
            label # "" /\ RefsKnown(r.labels[label], c)
    /\ c.log >= LeastLog /\ c.keep >= 2

(* What NewBackendManager and PolicyRegistry.Build accept: an enabled      *)
(* policy must be of a known type and complete, every URL must parse, and  *)
(* some backend must be enabled.                                           *)
Buildable(c) ==
    /\ c.urls /\ \E b \in ToSet(c.backends) : b \notin c.disabled
    /\ \A p \in c.policies : p.enabled => p.type = "header_required" /\ p.header # ""

Header(c) == {p.header : p \in {q \in c.policies : q.enabled}}

Loadable == {t \in Texts : Validate(Config[t])}
Usable == {t \in Loadable : Buildable(Config[t])}

(* The gateway does not start on another, and listens where it says.       *)
ASSUME StartupAssumption == Startup \in Usable /\ Config[Startup].addresses = Addresses

-----------------------------------------------------------------------------
(* Routing                                                                 *)

Compare(op, a, b) ==
    CASE op = "gt" -> a > b [] op = "gte" -> a >= b
      [] op = "lt" -> a < b [] op = "lte" -> a <= b

(* A number is compared only with a number; a name contains only itself.   *)
EvalCondition(c, k) ==
    CASE c.op \in {"gt", "gte", "lt", "lte"} ->
            c.field = "tokens" /\ Compare(c.op, k.tokens, c.value)
      [] c.op = "exists" -> c.field = "tokens" \/ k[c.field] # ""
      [] c.op = "contains" -> c.value \in k.words
      [] OTHER -> k[c.field] = c.value

Matches(r, k) ==
    /\ r.paths = {} \/ k.path \in r.paths
    /\ r.min > 0 => k.tokens >= r.min
    /\ r.max > 0 => k.tokens <= r.max
    /\ r.words = {} \/ r.words \intersect k.words # {}
    /\ \A c \in r.conditions : EvalCondition(c, k)

(* The routes that match, by falling priority and then by their place;     *)
(* 0, the defaults, if none does.                                          *)
Matching(c, k) == {i \in DOMAIN c.routes : Matches(c.routes[i], k)}

Before(c, i, j) ==
    \/ c.routes[i].priority > c.routes[j].priority
    \/ c.routes[i].priority = c.routes[j].priority /\ i < j

RouteFor(c, k) ==
    LET matching == Matching(c, k)
    IN  IF matching = {} THEN 0
          ELSE CHOOSE i \in matching : \A j \in matching \ {i} : Before(c, i, j)

(* Classifier.Classify: the backends of the label the model answers with,  *)
(* of "default" otherwise, none if it has none or the question fails.      *)
Picks(r, answer) ==
    IF answer \in DOMAIN r.labels THEN r.labels[answer]
    ELSE IF answer # "" /\ "default" \in DOMAIN r.labels THEN r.labels["default"] ELSE <<>>

Answers(r) == IF r.classifier = "" THEN {""} ELSE {"", "else"} \union DOMAIN r.labels

(* The backends a route may lead to first: what its classifier picks, its  *)
(* own, or all if there are none.                                          *)
Candidates(c, i) ==
    IF i = 0 THEN {IF c.defaults = <<>> THEN c.backends ELSE c.defaults}
    ELSE LET r == c.routes[i]
         IN  {IF Picks(r, a) # <<>> THEN Picks(r, a)
              ELSE IF r.backends # <<>> THEN r.backends ELSE c.backends : a \in Answers(r)}

-----------------------------------------------------------------------------
(* RuntimeManager                                                          *)

Newest(s, n) == SubSeq(s, IF Len(s) > n THEN Len(s) - n + 1 ELSE 1, Len(s))

AppendAudit(what, v) ==
    audit' = Newest(Append(audit, [what |-> what, version |-> v]), AuditLimit)

(* NewRuntimeManager.                                                      *)
InitManager ==
    /\ version = 1 /\ text = Startup /\ applied = <<Startup>>
    /\ snapshots = <<[version |-> 1, text |-> Startup]>>
    /\ audit = <<[what |-> "startup", version |-> 1]>> 
    /\ flag = Config[Startup].flag
    /\ decisions = <<>>

Init ==
    /\ InitManager /\ arrived = 0
    /\ call = [c \in Calls |-> NoCall] /\ request = [r \in Requests |-> NoRequest]
    /\ channel = [s \in Clients |-> 0] /\ client = [s \in Clients |-> "away"]
    /\ subscribers = {} /\ closed = {} /\ panicked = FALSE
    /\ sending = [p \in {} |-> {}]
    /\ run = RunAt("serving", FALSE, Listeners, 0, FALSE)

Running == run.at # "returned"

\* bound
Arrives == arrived < MaxArrivals /\ arrived' = arrived + 1

Answer(c) == call' = [call EXCEPT ![c] = NoCall]
Tells(c) == call' = [call EXCEPT ![c] = CallAt("publish", "none", Startup, 0, 0)]

\* Mutant: the version follows from the one the call was authorised under.
NextVersionStale(c) == call[c].under + 1

NextVersion(c) == version + 1

(* apply, under the lock: what the API set in the flags is replaced.       *)
Commit(c) ==
    /\ Running /\ call[c].at = "commit"
    /\ LET t == call[c].arg
           v == NextVersion(c)
       IN  /\ version' = v /\ text' = t /\ applied' = Append(applied, t)
           /\ flag' = Config[t].flag
           /\ snapshots' = Newest(Append(snapshots, [version |-> v, text |-> t]), Config[t].keep)
           /\ AppendAudit("apply", v)
           /\ IF call[c].op = "rollback"
                THEN call' = [call EXCEPT ![c] = CallAt("note", "none", Startup, 0, v)]
                ELSE Tells(c)
    /\ UNCHANGED <<decisions, arrived, hubVars, request, run>>

(* Rollback looks the version up under a lock of its own.                  *)
Find(c) ==
    /\ Running /\ call[c].at = "find"
    /\ \/ \E s \in ToSet(snapshots) :
            /\ s.version = call[c].target
            /\ IF s.text \in Usable
                 THEN call' = [call EXCEPT ![c] =
                                  CallAt("commit", "rollback", s.text, 0, call[c].under)]
                 ELSE Answer(c)
       \/ /\ \A s \in ToSet(snapshots) : s.version # call[c].target
          /\ Answer(c)
    /\ UNCHANGED <<managerVars, hubVars, request, run, arrived>>

(* ... and writes its own audit entry after the lock of apply is gone.     *)
Note(c) ==
    /\ Running /\ call[c].at = "note"
    /\ AppendAudit("rollback", call[c].under)
    /\ Tells(c)
    /\ UNCHANGED <<version, text, snapshots, flag, decisions, applied, arrived, hubVars, request, run>>

SetFeatureFlag(c) ==
    /\ Running /\ call[c].at = "set"
    /\ \E b \in BOOLEAN : flag' = b
    /\ AppendAudit("flag", version)
    /\ Tells(c)
    /\ UNCHANGED <<version, text, snapshots, decisions, applied, arrived, hubVars, request, run>>

-----------------------------------------------------------------------------
(* The admin handlers                                                      *)

Frozen(v) == Config[applied[v]].readOnly

\* Mutant: reading only is checked for new configurations alone.
MayAuthorizeApplies(op) == Frozen(version) => op # "apply"

MayAuthorize(op) == ~Frozen(version)

(* authorizeAdmin, on the state then in force.                             *)
Authorize(c, op) ==
    /\ run.at = "serving" /\ call[c].at = "idle" /\ MayAuthorize(op) /\ Arrives
    /\ UNCHANGED <<managerVars, hubVars, request, run>>

Asks(c, at, op, t, v) ==
    call' = [call EXCEPT ![c] = CallAt(at, op, t, v, version)]

(* applyConfigHandler: a configuration that is refused changes nothing.    *)
AskApply(c, t) ==
    /\ Authorize(c, "apply")
    /\ IF t \in Usable /\ Config[t].addresses = Addresses
         THEN Asks(c, "commit", "apply", t, 0) ELSE UNCHANGED call

AskRollback(c, v) == Authorize(c, "rollback") /\ Asks(c, "find", "rollback", Startup, v)

AskFlag(c) == Authorize(c, "flag") /\ Asks(c, "set", "flag", Startup, 0)

Ask(c) ==
    \/ \E t \in Texts : AskApply(c, t)
    \/ \E v \in Versions : AskRollback(c, v)
    \/ AskFlag(c)

-----------------------------------------------------------------------------
(* Proxied requests                                                        *)

(* proxyHandler captures the state and asks its policies.                  *)
Arrive(r, k) ==
    /\ run.at = "serving" /\ request[r].at = "idle" /\ Arrives
    /\ Header(Config[text]) \subseteq k.headers
    /\ request' = [request EXCEPT ![r] = RequestAt("route", k, version, 0)]
    /\ UNCHANGED <<managerVars, hubVars, call, run>>

\* Mutant: the router is that of the configuration now in force.
RoutedByNow(r) == version

RoutedBy(r) == request[r].on

Route(r) ==
    /\ Running /\ request[r].at = "route"
    /\ LET q == request[r]
           i == RouteFor(Config[applied[RoutedBy(r)]], q.kind)
       IN  request' = [request EXCEPT ![r] = RequestAt("proxy", q.kind, q.on, i)]
    /\ UNCHANGED <<managerVars, hubVars, call, run, arrived>>

(* After the proxy, whether it had an answer or not, the decision is kept, *)
(* as many as the configuration now in force says.                         *)
AddDecision(r) ==
    /\ Running /\ request[r].at = "proxy"
    /\ LET q == request[r]
       IN \E refs \in Candidates(Config[applied[q.on]], q.route) :
            \E ok \in BOOLEAN :
              decisions' = Newest(Append(decisions,
                  [on |-> q.on, kind |-> q.kind, route |-> q.route, ok |-> ok, backend |-> Head(refs)]),
                  Config[text].log)
    /\ request' = [request EXCEPT ![r] = RequestAt("publish", NoKind, 0, 0)]
    /\ UNCHANGED <<version, text, snapshots, audit, flag, applied, arrived, hubVars, call, run>>

-----------------------------------------------------------------------------
(* The event hub                                                           *)

Ready(p) == IF p \in Calls THEN call[p].at = "publish" ELSE request[p].at = "publish"

(* Publish takes the read lock.                                            *)
Publish(p) ==
    /\ Running /\ Ready(p) /\ p \notin DOMAIN sending
    /\ sending' = [q \in DOMAIN sending \union {p} |-> IF q = p THEN subscribers ELSE sending[q]]
    /\ UNCHANGED <<managerVars, channel, subscribers, closed, client, panicked, call, request, run, arrived>>

OfferFrame(p, s) ==
    /\ Running /\ p \in DOMAIN sending /\ s \in sending[p]
    /\ panicked' = (panicked \/ s \in closed)
    /\ sending' = [sending EXCEPT ![p] = @ \ {s}]
    /\ UNCHANGED <<managerVars, subscribers, closed, client, call, request, run, arrived>>

\* Mutant: a send waits for room in the channel.
OfferWaiting(p, s) ==
    OfferFrame(p, s) /\ channel[s] < Buffer /\ channel' = [channel EXCEPT ![s] = @ + 1]

(* A subscriber that is behind misses the event.                           *)
Offer(p, s) ==
    /\ OfferFrame(p, s)
    /\ channel' = IF channel[s] < Buffer THEN [channel EXCEPT ![s] = @ + 1] ELSE channel

Published(p) ==
    /\ Running /\ p \in DOMAIN sending /\ sending[p] = {}
    /\ sending' = [q \in DOMAIN sending \ {p} |-> sending[q]]
    /\ IF p \in Calls THEN Answer(p) /\ UNCHANGED request
         ELSE request' = [request EXCEPT ![p] = NoRequest] /\ UNCHANGED call
    /\ UNCHANGED <<managerVars, channel, subscribers, closed, client, panicked, run, arrived>>

(* writeSSE                                                                *)
Subscribe(s) ==
    /\ run.at = "serving" /\ client[s] = "away" /\ DOMAIN sending = {}
    /\ client' = [client EXCEPT ![s] = "here"]
    /\ subscribers' = subscribers \union {s}
    /\ Arrives
    /\ UNCHANGED <<managerVars, channel, closed, sending, panicked, call, request, run>>

Receive(s) ==
    /\ Running /\ client[s] \in {"here", "left"} /\ channel[s] > 0
    /\ channel' = [channel EXCEPT ![s] = @ - 1]
    /\ UNCHANGED <<managerVars, subscribers, closed, sending, client, panicked, call, request, run, arrived>>

Leave(s) ==
    /\ Running /\ client[s] = "here"
    /\ client' = [client EXCEPT ![s] = "left"]
    /\ UNCHANGED <<managerVars, channel, subscribers, closed, sending, panicked, call, request, run, arrived>>

UnsubscribeFrame == UNCHANGED <<managerVars, sending, panicked, call, request, run, arrived>>

\* Mutant: the channel is closed before it leaves the map.
UnsubscribeClosing(s) ==
    /\ Running /\ UnsubscribeFrame /\ UNCHANGED channel
    /\ \/ /\ client[s] = "left" /\ closed' = closed \union {s}
          /\ client' = [client EXCEPT ![s] = "deleted"] /\ UNCHANGED subscribers
       \/ /\ client[s] = "deleted" /\ DOMAIN sending = {} /\ subscribers' = subscribers \ {s}
          /\ client' = [client EXCEPT ![s] = "gone"] /\ UNCHANGED closed

(* The channel leaves the map under the write lock, then it is closed.     *)
Unsubscribe(s) ==
    /\ Running /\ UnsubscribeFrame
    /\ \/ /\ client[s] = "left" /\ DOMAIN sending = {} /\ subscribers' = subscribers \ {s}
          /\ client' = [client EXCEPT ![s] = "deleted"] /\ UNCHANGED <<closed, channel>>
       \/ /\ client[s] = "deleted" /\ closed' = closed \union {s}
          /\ client' = [client EXCEPT ![s] = "gone"]
          /\ channel' = [channel EXCEPT ![s] = 0] /\ UNCHANGED subscribers

-----------------------------------------------------------------------------
(* Gateway.Run                                                             *)

RunFrame == UNCHANGED <<managerVars, hubVars, call, request, arrived>>

Signal ==
    /\ run.at = "serving" /\ ~run.signal
    /\ run' = RunAt("serving", TRUE, run.listening, run.errs, run.err) /\ RunFrame

(* A listener that cannot listen leaves its error in the channel.          *)
ListenerFails ==
    /\ run.at = "serving" /\ run.listening > 0
    /\ run' = RunAt("serving", run.signal, run.listening - 1, run.errs + 1, run.err) /\ RunFrame

(* The select; both ways lead to shutdown, one with an error.              *)
Stop ==
    /\ run.at = "serving"
    /\ \/ run.signal /\ run' = RunAt("stopping", run.signal, run.listening, run.errs, run.err)
       \/ run.errs > 0 /\ run' = RunAt("stopping", run.signal, run.listening, run.errs - 1, TRUE)
    /\ RunFrame

Busy ==
    \/ \E c \in Calls : call[c].at # "idle"
    \/ \E r \in Requests : request[r].at # "idle"
    \/ \E s \in Clients : client[s] \in {"here", "left", "deleted"}

\* Mutant: the errors of Server.Shutdown are dropped.
ShutdownSilent ==
    /\ run.at = "stopping" /\ run' = RunAt("returned", run.signal, 0, run.errs, run.err) /\ RunFrame

(* Server.Shutdown waits for the handlers, 10 seconds at most.             *)
Shutdown ==
    /\ run.at = "stopping"
    /\ run' = RunAt("returned", run.signal, 0, run.errs, run.err \/ Busy)
    /\ RunFrame

-----------------------------------------------------------------------------
Handle(c) == Commit(c) \/ Find(c) \/ Note(c) \/ SetFeatureFlag(c)
Proxy(r) == Route(r) \/ AddDecision(r)
Tell(p) == Publish(p) \/ Published(p) \/ \E s \in Clients : Offer(p, s)

(* What the program does by itself.                                        *)
Work ==
    \/ \E c \in Calls : Handle(c)
    \/ \E r \in Requests : Proxy(r)
    \/ \E p \in Publishers : Tell(p)
    \/ \E s \in Clients : Unsubscribe(s)
    \/ Stop \/ Shutdown

Next ==
    \/ Work
    \/ \E c \in Calls : Ask(c)
    \/ \E r \in Requests, k \in Kinds : Arrive(r, k)
    \/ \E s \in Clients : Subscribe(s) \/ Receive(s) \/ Leave(s)
    \/ Signal \/ ListenerFails

Spec == Init /\ [][Next]_vars

(* The program does not stand still.  Nobody has to call, signal, leave or *)
(* read; as arrivals are bounded no part of the program can be passed over *)
(* for ever, and fairness to each of them need not be assumed.             *)
Fairness == WF_vars(Work)

FairSpec == Spec /\ Fairness

-----------------------------------------------------------------------------
(* Properties                                                              *)

(* The type of the state; the trail and the channels keep to their limits. *)
TypeOK ==
    /\ version \in Versions /\ text \in Texts /\ flag \in BOOLEAN
    /\ ToSet(snapshots) \subseteq [version : Versions, text : Texts]
    /\ ToSet(audit) \subseteq [what : {"startup", "apply", "rollback", "flag"}, version : Versions]
    /\ Len(audit) <= AuditLimit
    /\ channel \in [Clients -> 0..Buffer] /\ subscribers \subseteq Clients
    /\ DOMAIN sending \subseteq Publishers
    /\ run.listening \in 0..Listeners /\ run.errs \in 0..Listeners

(* Concurrent apply and rollback calls leave one line of versions: each    *)
(* change has its own, the newest snapshot is what is in force, snapshots  *)
(* hold what was applied under their version, and the one before the       *)
(* newest can always be rolled back to.                                    *)
SnapshotsTell ==
    /\ version = Len(applied) /\ text = Last(applied)
    /\ \A i \in DOMAIN snapshots :
        /\ snapshots[i].version = version - Len(snapshots) + i
        /\ snapshots[i].text = applied[snapshots[i].version]
    /\ Len(snapshots) >= IF version > 1 THEN 2 ELSE 1
    /\ \A s \in ToSet(snapshots) : s.text \in Usable /\ Config[s.text].addresses = Addresses

(* Once a read-only configuration is in force and no call is under way     *)
(* that was let in before, nothing changes through the API any more.       *)
Settled ==
    Frozen(version) /\ \A c \in Calls : call[c].at \in {"idle", "publish"}

FrozenStays == [][Settled => version' = version /\ flag' = flag /\ Settled']_vars

(* A request is let in by the policies and led by the router of one and    *)
(* the same configuration, whatever is applied meanwhile, and ends at a    *)
(* backend which that configuration names.                                 *)
Leads(c, d) ==
    /\ Header(c) \subseteq d.kind.headers
    /\ d.backend \in ToSet(c.backends)
    /\ IF d.route = 0 THEN \A r \in ToSet(c.routes) : ~Matches(r, d.kind)
         ELSE /\ Matches(c.routes[d.route], d.kind)
              /\ \A r \in ToSet(c.routes) :
                    Matches(r, d.kind) => r.priority <= c.routes[d.route].priority

RoutedByOneConfig == \A d \in ToSet(decisions) : Leads(Config[applied[d.on]], d)

(* A subscriber that leaves while others publish is sent nothing on its    *)
(* closed channel, which would end the process.                            *)
NoPanic == ~panicked

(* Run reports success only if no handler was cut off.                     *)
CleanReturn == run.at = "returned" /\ ~run.err => ~Busy

(* The gateway ends only as it means to.                                   *)
EndsAsIntended == NoPanic /\ CleanReturn

(* Every admin call and every request ends although clients of the event   *)
(* stream may never read, a client that leaves is forgotten, and Run       *)
(* returns after a signal or the failure of a listener.                    *)
HandlersEnd ==
    /\ []<>(~Running \/ \A c \in Calls : call[c].at = "idle")
    /\ []<>(~Running \/ \A r \in Requests : request[r].at = "idle")
    /\ []<>(~Running \/ \A s \in Clients : client[s] \notin {"left", "deleted"})
    /\ []<>(~Running \/ ~(run.signal \/ run.errs > 0))
=============================================================================

------------------------- MODULE GatewayAdminProofs -------------------------
(***************************************************************************)
(* GatewayAdmin for every set of configurations and kinds of requests, and *)
(* any number of admin calls, requests and subscribers.                    *)
(***************************************************************************)
EXTENDS GatewayAdmin, SequenceTheorems, FiniteSetTheorems, WellFoundedInduction, TLAPS

(* What may be in force: it is usable and its listeners are these.         *)
Fit == {t \in Usable : Config[t].addresses = Addresses}

CallPlaces == {"idle", "commit", "find", "note", "set", "publish"}
CallState == [at : CallPlaces, op : {"none", "apply", "rollback", "flag"},
              arg : Texts, target : Nat, under : Nat]
RequestState == [at : {"idle", "route", "proxy", "publish"}, kind : Kinds \cup {NoKind},
                 on : Nat, route : Nat]
RunState == [at : {"serving", "stopping", "returned"}, signal : BOOLEAN, listening : Int,
             errs : Int, err : BOOLEAN]
Snapshot == [version : Nat, text : Texts]
Decision == [on : Nat, kind : Kinds \cup {NoKind}, route : Nat, ok : BOOLEAN,
             backend : UNION {ToSet(Config[t].backends) : t \in Texts}]

Types ==
    /\ version \in Nat /\ text \in Texts /\ applied \in Seq(Fit)
    /\ snapshots \in Seq(Snapshot) /\ decisions \in Seq(Decision)
    /\ call \in [Calls -> CallState] /\ request \in [Requests -> RequestState]
    /\ run \in RunState

(* One line of versions.                                                   *)
Versioned ==
    /\ version = Len(applied) /\ version >= 1 /\ text = applied[version]
    /\ Len(snapshots) <= version /\ Len(snapshots) >= IF version > 1 THEN 2 ELSE 1
    /\ \A i \in 1..Len(snapshots) :
        /\ snapshots[i].version = version - Len(snapshots) + i
        /\ snapshots[i].text = applied[snapshots[i].version]
    /\ \A c \in Calls : call[c].at = "commit" => call[c].arg \in Fit

(* The configuration a request captured let it in and leads it.            *)
Led ==
    /\ \A r \in Requests : request[r].at \in {"route", "proxy"} =>
        LET q == request[r]
            c == Config[applied[q.on]]
        IN  /\ q.on \in 1..Len(applied) /\ Header(c) \subseteq q.kind.headers
            /\ q.at = "proxy" => q.route = RouteFor(c, q.kind)
    /\ \A d \in ToSet(decisions) : d.on \in 1..Len(applied) /\ Leads(Config[applied[d.on]], d)

(* Nobody offers an event to a channel that may be closed.                 *)
Channels ==
    /\ ~panicked /\ closed \subseteq Clients /\ subscribers \subseteq Clients
    /\ client \in [Clients -> {"away", "here", "left", "deleted", "gone"}]
    /\ \A s \in closed : client[s] = "gone"
    /\ \A s \in subscribers : client[s] \in {"here", "left"}
    /\ \A p \in DOMAIN sending : sending[p] \subseteq subscribers

AdminInv == Types /\ Versioned /\ Led /\ Channels /\ CleanReturn

-----------------------------------------------------------------------------
(* The newest entries of a list.                                           *)

LEMMA NewestProperties ==
    ASSUME NEW S, NEW s \in Seq(S), NEW n \in Nat
    PROVE  /\ Newest(s, n) \in Seq(S)
           /\ Len(Newest(s, n)) = IF Len(s) > n THEN n ELSE Len(s)
           /\ \A i \in 1..Len(Newest(s, n)) :
                 Newest(s, n)[i] = s[Len(s) - Len(Newest(s, n)) + i]
           /\ ToSet(Newest(s, n)) \subseteq ToSet(s)
<1> DEFINE m == IF Len(s) > n THEN Len(s) - n + 1 ELSE 1
           t == Newest(s, n)
<1>1. Len(s) \in Nat /\ \A i \in 1..Len(s) : s[i] \in S
  BY LenProperties
<1>2. m \in Int /\ m >= 1 /\ m <= Len(s) + 1
  BY <1>1
<1>3. t = SubSeq(s, m, Len(s))
  BY DEF Newest
<1>4. \A i \in m..Len(s) : s[i] \in S
  BY <1>1, <1>2
<1> HIDE DEF m, t
<1>5. /\ t \in Seq(S) /\ Len(t) = IF m <= Len(s) THEN Len(s) - m + 1 ELSE 0
      /\ \A i \in 1..(Len(s) - m + 1) : t[i] = s[m + i - 1]
  BY <1>1, <1>2, <1>3, <1>4, SubSeqProperties
<1>6. Len(t) = Len(s) - m + 1
  BY <1>1, <1>2, <1>5
<1>7. \A i \in 1..Len(t) : t[i] = s[Len(s) - Len(t) + i] /\ Len(s) - Len(t) + i \in 1..Len(s)
  <2> SUFFICES ASSUME NEW i \in 1..Len(t)
               PROVE  t[i] = s[Len(s) - Len(t) + i] /\ Len(s) - Len(t) + i \in 1..Len(s)
    OBVIOUS
  <2>1. Len(s) - Len(t) + i = m + i - 1 /\ m + i - 1 \in 1..Len(s)
    BY <1>1, <1>2, <1>6
  <2> QED BY <1>5, <1>6, <2>1
<1>8. ToSet(t) \subseteq ToSet(s)
  <2>1. DOMAIN t = 1..Len(t) /\ DOMAIN s = 1..Len(s)
    BY <1>5, LenProperties
  <2> QED BY <1>7, <2>1 DEF ToSet
<1>9. Len(t) = IF Len(s) > n THEN n ELSE Len(s)
  BY <1>1, <1>6 DEF m
<1> QED BY <1>5, <1>7, <1>8, <1>9 DEF t

LEMMA Appended ==
    ASSUME NEW S, NEW s \in Seq(S), NEW x \in S
    PROVE  /\ Append(s, x) \in Seq(S) /\ Len(Append(s, x)) = Len(s) + 1 /\ Len(s) \in Nat
           /\ Append(s, x)[Len(s) + 1] = x
           /\ \A i \in 1..Len(s) : Append(s, x)[i] = s[i]
           /\ ToSet(Append(s, x)) = ToSet(s) \cup {x}
<1>1. /\ Append(s, x) \in Seq(S) /\ Len(Append(s, x)) = Len(s) + 1 /\ Len(s) \in Nat
      /\ Append(s, x)[Len(s) + 1] = x
      /\ \A i \in 1..Len(s) : Append(s, x)[i] = s[i]
      /\ DOMAIN Append(s, x) = 1..(Len(s) + 1) /\ DOMAIN s = 1..Len(s)
  BY AppendProperties, LenProperties
<1>2. ToSet(Append(s, x)) = ToSet(s) \cup {x}
  BY <1>1 DEF ToSet
<1> QED BY <1>1, <1>2

-----------------------------------------------------------------------------
(* The route of a request.                                                 *)

(* A set of numbers that is not empty has a smallest member.               *)
LEMMA Smallest ==
    ASSUME NEW T, T \subseteq Nat, T # {}
    PROVE  \E x \in T : \A y \in T : x <= y
<1>1. PICK x \in T : \A y \in T : ~ (<<y, x>> \in OpToRel(<, Nat))
  BY NatLessThanWellFounded, WFMin
<1>2. \A y \in T : ~ (y < x)
  BY <1>1 DEF OpToRel
<1> QED BY <1>2

LEMMA RouteForProperties ==
    ASSUME NEW t \in Texts, NEW k
    PROVE  LET c == Config[t]
               i == RouteFor(c, k)
           IN  /\ i \in Nat
               /\ i = 0 => \A r \in ToSet(c.routes) : ~Matches(r, k)
               /\ i # 0 => /\ i \in DOMAIN c.routes /\ Matches(c.routes[i], k)
                           /\ \A r \in ToSet(c.routes) :
                                 Matches(r, k) => r.priority <= c.routes[i].priority
<1> DEFINE c == Config[t]
           M == Matching(c, k)
           Ahead(i) == {j \in M : Before(c, j, i)}
<1>1. c.routes \in Seq(ToSet(c.routes)) /\ DOMAIN c.routes = 1..Len(c.routes) /\ Len(c.routes) \in Nat
  BY ConfigAssumption, LenProperties DEF IsSequence
<1>2. \A i \in DOMAIN c.routes : c.routes[i] \in ToSet(c.routes) /\ c.routes[i].priority \in Int
  <2>1. \A i \in DOMAIN c.routes : c.routes[i] \in ToSet(c.routes)
    BY DEF ToSet
  <2>2. \A r \in ToSet(c.routes) : r.priority \in Int
    BY ConfigAssumption
  <2> QED BY <2>1, <2>2
<1>3. M \subseteq 1..Len(c.routes) /\ IsFiniteSet(M)
  <2>1. M \subseteq 1..Len(c.routes)
    BY <1>1 DEF Matching
  <2>2. IsFiniteSet(1..Len(c.routes))
    BY <1>1, FS_Interval
  <2> QED BY <2>1, <2>2, FS_Subset
<1> HIDE DEF c
<1>4. ASSUME NEW i \in M, NEW j \in M, i # j PROVE Before(c, i, j) \/ Before(c, j, i)
  BY <1>1, <1>2, <1>3, <1>4 DEF Before
<1>5. ASSUME NEW h \in M, NEW i \in M, NEW j \in M, Before(c, h, i), Before(c, i, j)
      PROVE  Before(c, h, j)
  BY <1>1, <1>2, <1>3, <1>5 DEF Before
<1>6. ASSUME NEW i \in M PROVE ~Before(c, i, i)
  BY <1>1, <1>2, <1>3 DEF Before
<1> HIDE DEF M
<1>7. \A i : IsFiniteSet(Ahead(i)) /\ Cardinality(Ahead(i)) \in Nat
  <2> SUFFICES ASSUME NEW i PROVE IsFiniteSet(Ahead(i)) /\ Cardinality(Ahead(i)) \in Nat
    OBVIOUS
  <2>1. Ahead(i) \subseteq M
    OBVIOUS
  <2> QED BY <1>3, <2>1, FS_Subset, FS_CardinalityType
<1>8. ASSUME M # {} PROVE \E i \in M : \A j \in M \ {i} : Before(c, i, j)
  <2> DEFINE T == {Cardinality(Ahead(i)) : i \in M}
  <2>1. T \subseteq Nat /\ T # {}
    BY <1>7, <1>8
  <2>2. PICK x \in T : \A y \in T : x <= y
    BY <2>1, Smallest
  <2>3. PICK i \in M : x = Cardinality(Ahead(i))
    OBVIOUS
  <2>4. ASSUME NEW j \in M, Before(c, j, i) PROVE FALSE
    <3>1. Ahead(j) \subseteq Ahead(i)
      BY <1>5, <2>4
    <3>2. j \in Ahead(i) /\ j \notin Ahead(j)
      BY <1>6, <2>4
    <3>3. Cardinality(Ahead(j)) < Cardinality(Ahead(i))
      <4>1. Ahead(j) # Ahead(i)
        BY <3>2
      <4> HIDE DEF Ahead
      <4> QED BY <1>7, <3>1, <4>1, FS_Subset
    <3>4. x <= Cardinality(Ahead(j))
      BY <2>2
    <3> HIDE DEF Ahead
    <3> QED BY <1>7, <2>3, <3>3, <3>4
  <2> QED BY <1>4, <2>4
<1>9. RouteFor(c, k) = IF M = {} THEN 0 ELSE CHOOSE i \in M : \A j \in M \ {i} : Before(c, i, j)
  BY DEF RouteFor, M
<1>10. CASE M = {}
  <2>1. \A r \in ToSet(c.routes) : ~Matches(r, k)
    BY <1>10 DEF M, Matching, ToSet
  <2> QED BY <1>9, <1>10, <2>1 DEF c
<1>11. CASE M # {}
  <2> DEFINE i == RouteFor(c, k)
  <2>1. i \in M /\ \A j \in M \ {i} : Before(c, i, j)
    BY <1>8, <1>9, <1>11
  <2> HIDE DEF i
  <2>2. i \in Nat /\ i # 0 /\ i \in DOMAIN c.routes /\ Matches(c.routes[i], k)
    BY <1>1, <1>3, <2>1 DEF M, Matching
  <2>3. ASSUME NEW r \in ToSet(c.routes), Matches(r, k) PROVE r.priority <= c.routes[i].priority
    <3>1. PICK j \in DOMAIN c.routes : r = c.routes[j]
      BY DEF ToSet
    <3>2. j \in M
      BY <2>3, <3>1 DEF M, Matching
    <3>3. j = i \/ Before(c, i, j)
      BY <2>1, <3>2
    <3> QED BY <1>2, <2>2, <3>1, <3>3 DEF Before
  <2> QED BY <2>2, <2>3 DEF i, c
<1> QED BY <1>10, <1>11

-----------------------------------------------------------------------------
(* The steps, by what they touch.                                          *)

OtherCall(c) == Find(c) \/ Note(c) \/ SetFeatureFlag(c) \/ Ask(c)
ClientStep(s) == Unsubscribe(s) \/ Subscribe(s) \/ Receive(s) \/ Leave(s)
RunStep == Stop \/ Shutdown \/ Signal \/ ListenerFails

LEMMA StepCases ==
    ASSUME [Next]_vars
    PROVE  \/ \E c \in Calls : Commit(c) \/ OtherCall(c)
           \/ \E r \in Requests : Route(r) \/ AddDecision(r) \/ \E k \in Kinds : Arrive(r, k)
           \/ \E p \in Publishers : Tell(p)
           \/ \E s \in Clients : ClientStep(s)
           \/ RunStep
           \/ UNCHANGED vars
<1> QED BY Zenon DEF Next, Work, Handle, Proxy, OtherCall, ClientStep, RunStep

versionVars == <<version, text, applied, snapshots>>

LEMMA CallFields ==
    ASSUME NEW at, NEW op, NEW arg, NEW target, NEW under
    PROVE  LET x == CallAt(at, op, arg, target, under)
           IN  /\ x.at = at /\ x.arg = arg
               /\ at \in CallPlaces /\ op \in {"none", "apply", "rollback", "flag"} /\ arg \in Texts
                  /\ target \in Nat /\ under \in Nat => x \in CallState
<1> QED BY DEF CallAt, CallState

LEMMA NoCallFits == NoCall \in CallState /\ NoCall.at = "idle" /\ Startup \in Fit /\ Startup \in Texts
<1>1. Startup \in Fit /\ Startup \in Texts
  BY StartupAssumption DEF Fit, Usable, Loadable
<1>2. NoCall.at = "idle" /\ NoCall \in CallState
  BY <1>1, CallFields DEF NoCall, CallPlaces
<1> QED BY <1>1, <1>2

(* Every call that is about to commit has something fit to commit.         *)
LEMMA OtherCallStep ==
    ASSUME Types, Versioned, NEW c \in Calls, OtherCall(c)
    PROVE  /\ UNCHANGED <<versionVars, decisions, hubVars, request, run>>
           /\ \E x \in CallState : /\ call' = [call EXCEPT ![c] = x]
                                   /\ x.at = "commit" => x.arg \in Fit
<1> DEFINE Done(x) == call' = [call EXCEPT ![c] = x] /\ (x.at = "commit" => x.arg \in Fit)
           Tell0 == CallAt("publish", "none", Startup, 0, 0)
<1>0. call[c] \in CallState /\ call[c].under \in Nat /\ version \in Nat
  BY DEF Types, CallState
<1>t. Tell0 \in CallState /\ Tell0.at = "publish"
  BY NoCallFits, CallFields DEF CallPlaces
<1>a. Answer(c) => \E x \in CallState : Done(x)
  BY NoCallFits DEF Answer
<1>b. Tells(c) => \E x \in CallState : Done(x)
  BY <1>t DEF Tells
<1>1. CASE Find(c)
  <2>1. UNCHANGED <<versionVars, decisions, hubVars, request, run>>
    BY <1>1 DEF Find, managerVars, versionVars
  <2>2. \/ Answer(c)
        \/ \E s \in ToSet(snapshots) : /\ s.text \in Usable
              /\ call' = [call EXCEPT ![c] = CallAt("commit", "rollback", s.text, 0, call[c].under)]
    BY <1>1 DEF Find
  <2>3. ASSUME NEW s \in ToSet(snapshots), s.text \in Usable,
               call' = [call EXCEPT ![c] = CallAt("commit", "rollback", s.text, 0, call[c].under)]
        PROVE  \E x \in CallState : Done(x)
    <3>1. PICK i \in DOMAIN snapshots : s = snapshots[i]
      BY DEF ToSet
    <3>2. i \in 1..Len(snapshots) /\ s.text = applied[s.version] /\ s.version = version - Len(snapshots) + i
          /\ Len(snapshots) <= version /\ version = Len(applied) /\ Len(snapshots) \in Nat
      <4>1. i \in 1..Len(snapshots) /\ Len(snapshots) \in Nat
        BY LenProperties DEF Types
      <4> QED BY <3>1, <4>1 DEF Versioned
    <3>3. s.version \in 1..Len(applied)
      BY <1>0, <3>2
    <3>4. s.text \in Fit /\ s.text \in Texts
      BY <3>2, <3>3 DEF Types, Fit, Usable, Loadable
    <3>5. CallAt("commit", "rollback", s.text, 0, call[c].under) \in CallState
      BY <1>0, <3>4, CallFields DEF CallPlaces
    <3>6. CallAt("commit", "rollback", s.text, 0, call[c].under).arg = s.text
      BY CallFields
    <3> QED BY <2>3, <3>4, <3>5, <3>6
  <2> QED BY <1>a, <2>1, <2>2, <2>3
<1>2. CASE Note(c)
  <2>1. UNCHANGED <<versionVars, decisions, hubVars, request, run>>
    BY <1>2 DEF Note, versionVars
  <2> QED BY <1>2, <1>b, <2>1 DEF Note
<1>3. CASE SetFeatureFlag(c)
  <2>1. UNCHANGED <<versionVars, decisions, hubVars, request, run>>
    BY <1>3 DEF SetFeatureFlag, versionVars
  <2> QED BY <1>3, <1>b, <2>1 DEF SetFeatureFlag
<1>4. CASE Ask(c)
  <2>0. ASSUME NEW at \in {"commit", "find", "set"}, NEW op \in {"apply", "rollback", "flag"},
               NEW t \in Texts, NEW v \in Nat, Asks(c, at, op, t, v), at = "commit" => t \in Fit
        PROVE  \E x \in CallState : Done(x)
    <3>1. CallAt(at, op, t, v, version) \in CallState
      BY <1>0, CallFields DEF CallPlaces
    <3>2. /\ CallAt(at, op, t, v, version).at = at
          /\ CallAt(at, op, t, v, version).arg = t
      BY CallFields
    <3> QED BY <2>0, <3>1, <3>2 DEF Asks
  <2>1. CASE \E t \in Texts : AskApply(c, t)
    <3>1. PICK t \in Texts : AskApply(c, t)
      BY <2>1
    <3>2. CASE t \in Fit /\ Asks(c, "commit", "apply", t, 0)
      <4>1. \E x \in CallState : Done(x)
        BY <2>0, <3>2
      <4> QED BY <3>1, <4>1 DEF AskApply, Authorize, managerVars, versionVars
    <3>3. CASE UNCHANGED call
      <4>1. call' = [call EXCEPT ![c] = call[c]]
        BY <3>3 DEF Types
      <4>2. Done(call[c])
        BY <4>1 DEF Versioned
      <4> QED BY <1>0, <3>1, <4>2 DEF AskApply, Authorize, managerVars, versionVars
    <3> QED BY <3>1, <3>2, <3>3 DEF AskApply, Fit
  <2>2. CASE \E v \in Versions : AskRollback(c, v)
    <3>1. PICK v \in Versions : AskRollback(c, v)
      BY <2>2
    <3>2. v \in Nat /\ Asks(c, "find", "rollback", Startup, v)
      BY <3>1, GatewayAdminAssumption DEF AskRollback, Versions
    <3>3. \E x \in CallState : Done(x)
      BY <2>0, <3>2, NoCallFits
    <3> QED BY <3>1, <3>3 DEF AskRollback, Authorize, managerVars, versionVars
  <2>3. CASE AskFlag(c)
    <3>1. \E x \in CallState : Done(x)
      BY <2>0, <2>3, NoCallFits DEF AskFlag
    <3> QED BY <2>3, <3>1 DEF AskFlag, Authorize, managerVars, versionVars
  <2> QED BY <1>4, <2>1, <2>2, <2>3 DEF Ask
<1> QED BY <1>1, <1>2, <1>3, <1>4 DEF OtherCall

LEMMA CommitStep ==
    ASSUME Types, Versioned, NEW c \in Calls, Commit(c)
    PROVE  /\ UNCHANGED <<decisions, hubVars, request, run>>
           /\ \E t \in Fit :
                /\ version' = version + 1 /\ text' = t /\ applied' = Append(applied, t)
                /\ snapshots' = Newest(Append(snapshots, [version |-> version + 1, text |-> t]),
                                       Config[t].keep)
           /\ \E x \in CallState : call' = [call EXCEPT ![c] = x] /\ x.at # "commit"
<1>1. UNCHANGED <<decisions, hubVars, request, run>>
  BY DEF Commit
<1>2. call[c].arg \in Fit
  BY DEF Commit, Versioned
<1>3. /\ version' = version + 1 /\ text' = call[c].arg /\ applied' = Append(applied, call[c].arg)
      /\ snapshots' = Newest(Append(snapshots, [version |-> version + 1, text |-> call[c].arg]),
                             Config[call[c].arg].keep)
  BY DEF Commit, NextVersion
<1>4. \E x \in CallState : call' = [call EXCEPT ![c] = x] /\ x.at # "commit"
  <2>1. \/ call' = [call EXCEPT ![c] = CallAt("note", "none", Startup, 0, version + 1)]
        \/ call' = [call EXCEPT ![c] = CallAt("publish", "none", Startup, 0, 0)]
    BY DEF Commit, NextVersion, Tells
  <2>2. version + 1 \in Nat
    BY DEF Types
  <2>3. \A v \in Nat, at \in {"note", "publish"} :
           CallAt(at, "none", Startup, 0, v) \in CallState /\ CallAt(at, "none", Startup, 0, v).at # "commit"
    BY NoCallFits, CallFields DEF CallPlaces
  <2> QED BY <2>1, <2>2, <2>3
<1> QED BY <1>1, <1>2, <1>3, <1>4

LEMMA RequestFields ==
    ASSUME NEW at, NEW k, NEW on, NEW i
    PROVE  LET x == RequestAt(at, k, on, i)
           IN  /\ x.at = at /\ x.kind = k /\ x.on = on /\ x.route = i
               /\ at \in {"idle", "route", "proxy", "publish"} /\ k \in Kinds \cup {NoKind}
                  /\ on \in Nat /\ i \in Nat => x \in RequestState
<1> QED BY DEF RequestAt, RequestState

(* Telling the subscribers ends a call or a request at most.               *)
LEMMA TellStep ==
    ASSUME Types, NEW p \in Publishers, Tell(p)
    PROVE  /\ UNCHANGED <<managerVars, run, subscribers, closed, client>>
           /\ call' = call \/ (p \in Calls /\ call' = [call EXCEPT ![p] = NoCall])
           /\ request' = request \/ (p \in Requests /\ request' = [request EXCEPT ![p] = NoRequest])
           /\ \/ /\ panicked' = panicked
                 /\ \/ sending' = [q \in DOMAIN sending \union {p} |-> IF q = p THEN subscribers ELSE sending[q]]
                    \/ sending' = [q \in DOMAIN sending \ {p} |-> sending[q]]
              \/ \E s \in Clients : OfferFrame(p, s)
<1>1. CASE Publish(p)
  BY <1>1 DEF Publish
<1>2. CASE Published(p)
  BY <1>2 DEF Published, Answer, Publishers
<1>3. CASE \E s \in Clients : Offer(p, s)
  BY <1>3 DEF Offer, OfferFrame
<1> QED BY <1>1, <1>2, <1>3 DEF Tell

LEMMA ClientFrame ==
    ASSUME NEW s \in Clients, ClientStep(s)
    PROVE  UNCHANGED <<managerVars, call, request, run>>
<1> QED BY DEF ClientStep, Unsubscribe, UnsubscribeFrame, Subscribe, Receive, Leave

LEMMA RunSteps ==
    ASSUME Types, RunStep
    PROVE  /\ UNCHANGED <<managerVars, hubVars, call, request>>
           /\ run' \in RunState /\ run.at # "returned"
           /\ run'.at = "returned" => run'.err = (run.err \/ Busy)
<1>1. UNCHANGED <<managerVars, hubVars, call, request>> /\ run.at # "returned"
  BY DEF RunStep, Stop, Shutdown, Signal, ListenerFails, RunFrame
<1>2. ASSUME NEW at \in {"serving", "stopping", "returned"}, NEW signal \in BOOLEAN,
             NEW n \in Int, NEW m \in Int, NEW b \in BOOLEAN
      PROVE  /\ RunAt(at, signal, n, m, b) \in RunState
             /\ RunAt(at, signal, n, m, b).at = at /\ RunAt(at, signal, n, m, b).err = b
  BY DEF RunState, RunAt
<1>3. /\ run.signal \in BOOLEAN /\ run.err \in BOOLEAN /\ (run.err \/ Busy) \in BOOLEAN
      /\ 0 \in Int /\ run.listening \in Int /\ run.errs \in Int
      /\ run.listening - 1 \in Int /\ run.errs + 1 \in Int /\ run.errs - 1 \in Int
  BY DEF Types, RunState
<1>4. \/ run' = RunAt("stopping", run.signal, run.listening, run.errs, run.err)
      \/ run' = RunAt("stopping", run.signal, run.listening, run.errs - 1, TRUE)
      \/ run' = RunAt("returned", run.signal, 0, run.errs, run.err \/ Busy)
      \/ run' = RunAt("serving", TRUE, run.listening, run.errs, run.err)
      \/ run' = RunAt("serving", run.signal, run.listening - 1, run.errs + 1, run.err)
  BY Zenon DEF RunStep, Stop, Shutdown, Signal, ListenerFails
<1> HIDE DEF Busy
<1>5. CASE run' = RunAt("stopping", run.signal, run.listening, run.errs, run.err)
  BY <1>1, <1>2, <1>3, <1>5
<1>6. CASE run' = RunAt("stopping", run.signal, run.listening, run.errs - 1, TRUE)
  BY <1>1, <1>2, <1>3, <1>6
<1>7. CASE run' = RunAt("returned", run.signal, 0, run.errs, run.err \/ Busy)
  <2> DEFINE b == run.err \/ Busy
  <2>1. b \in BOOLEAN
    BY <1>3
  <2>2. run' = RunAt("returned", run.signal, 0, run.errs, b)
    BY <1>7
  <2>3. b = (run.err \/ Busy)
    OBVIOUS
  <2> HIDE DEF b
  <2>4. run' \in RunState /\ run'.err = b
    BY <1>2, <1>3, <2>1, <2>2
  <2> QED BY <1>1, <2>3, <2>4, Zenon
<1>8. CASE run' = RunAt("serving", TRUE, run.listening, run.errs, run.err)
  <2>1. TRUE \in BOOLEAN
    OBVIOUS
  <2> QED BY <1>1, <1>2, <1>3, <1>8, <2>1
<1>9. CASE run' = RunAt("serving", run.signal, run.listening - 1, run.errs + 1, run.err)
  BY <1>1, <1>2, <1>3, <1>9
<1> QED BY <1>4, <1>5, <1>6, <1>7, <1>8, <1>9

(* Where a request may be led first is one of its configuration's own      *)
(* backends.                                                               *)
LEMMA HeadWithin ==
    ASSUME NEW s, IsSequence(s), s # <<>>
    PROVE  Head(s) \in ToSet(s)
<1>1. s \in Seq(ToSet(s))
  BY DEF IsSequence
<1>2. Head(s) = s[1] /\ 1 \in DOMAIN s
  <2>1. Head(s) = s[1]
    BY <1>1
  <2>2. Len(s) \in Nat /\ Len(s) # 0 /\ DOMAIN s = 1..Len(s)
    BY <1>1, LenProperties, EmptySeq
  <2> QED BY <2>1, <2>2
<1> QED BY <1>2 DEF ToSet

LEMMA CandidateProperties ==
    ASSUME NEW t \in Usable, NEW i, i = 0 \/ i \in DOMAIN Config[t].routes,
           NEW refs \in Candidates(Config[t], i)
    PROVE  Head(refs) \in ToSet(Config[t].backends)
<1> DEFINE c == Config[t]
           Good(s) == IsSequence(s) /\ s # <<>> /\ ToSet(s) \subseteq ToSet(c.backends)
<1>1. t \in Texts /\ Validate(c)
  BY DEF Usable, Loadable
<1>2. /\ IsSequence(c.backends) /\ IsSequence(c.defaults)
      /\ \A r \in ToSet(c.routes) :
            /\ IsSequence(r.backends)
            /\ \A label \in DOMAIN r.labels : IsSequence(r.labels[label])
  BY <1>1, ConfigAssumption
<1>3. /\ c.backends # <<>> /\ RefsKnown(c.defaults, c)
      /\ \A r \in ToSet(c.routes) :
            /\ RefsKnown(r.backends, c)
            /\ \A label \in DOMAIN r.labels : RefsKnown(r.labels[label], c)
  <2>1. c.backends # <<>> /\ RefsKnown(c.defaults, c)
    BY <1>1, Zenon DEF Validate
  <2>2. \A r \in ToSet(c.routes) :
            /\ RefsKnown(r.backends, c)
            /\ \A label \in DOMAIN r.labels : RefsKnown(r.labels[label], c)
    BY <1>1, Zenon DEF Validate
  <2> QED BY <2>1, <2>2
<1> HIDE DEF c
<1>4. Good(c.backends) /\ (c.defaults # <<>> => Good(c.defaults))
  BY <1>2, <1>3 DEF RefsKnown
<1>5. ASSUME NEW r \in ToSet(c.routes), NEW a \in Answers(r)
      PROVE  /\ r.backends # <<>> => Good(r.backends)
             /\ Picks(r, a) # <<>> => Good(Picks(r, a))
  <2>1. r.backends # <<>> => Good(r.backends)
    BY <1>2, <1>3 DEF RefsKnown
  <2>2. \A label \in DOMAIN r.labels : r.labels[label] # <<>> => Good(r.labels[label])
    BY <1>2, <1>3 DEF RefsKnown
  <2>3. Picks(r, a) # <<>> => \E label \in DOMAIN r.labels : Picks(r, a) = r.labels[label]
    <3>1. CASE a \in DOMAIN r.labels
      BY <3>1, Zenon DEF Picks
    <3>2. CASE a \notin DOMAIN r.labels /\ a # "" /\ "default" \in DOMAIN r.labels
      <4>1. Picks(r, a) = r.labels["default"]
        BY <3>2, Zenon DEF Picks
      <4> QED BY <3>2, <4>1, Zenon
    <3>3. CASE a \notin DOMAIN r.labels /\ ~(a # "" /\ "default" \in DOMAIN r.labels)
      <4>1. Picks(r, a) = <<>>
        BY <3>3, Zenon DEF Picks
      <4> QED BY <4>1, Zenon
    <3> QED BY <3>1, <3>2, <3>3, Zenon
  <2> QED BY <2>1, <2>2, <2>3
<1>6. Good(refs)
  <2>1. CASE i = 0
    BY <1>4, <2>1 DEF Candidates, c
  <2>2. CASE i # 0
    <3>1. c.routes[i] \in ToSet(c.routes)
      BY <2>2 DEF c, ToSet
    <3>2. PICK a \in Answers(c.routes[i]) :
             refs = IF Picks(c.routes[i], a) # <<>> THEN Picks(c.routes[i], a)
                    ELSE IF c.routes[i].backends # <<>> THEN c.routes[i].backends ELSE c.backends
      BY <2>2 DEF Candidates, c
    <3> QED BY <1>4, <1>5, <3>1, <3>2
  <2> QED BY <2>1, <2>2
<1> QED BY <1>6, HeadWithin DEF c

LEMMA AddDecisionStep ==
    ASSUME Types, Versioned, Led, NEW r \in Requests, AddDecision(r)
    PROVE  /\ UNCHANGED <<versionVars, call, hubVars, run>>
           /\ request' = [request EXCEPT ![r] = RequestAt("publish", NoKind, 0, 0)]
           /\ \E d \in Decision :
                /\ d.on \in 1..Len(applied) /\ Leads(Config[applied[d.on]], d)
                /\ decisions' = Newest(Append(decisions, d), Config[text].log)
<1> DEFINE q == request[r]
           t == applied[q.on]
           c == Config[t]
<1>1. /\ UNCHANGED <<versionVars, call, hubVars, run>>
      /\ request' = [request EXCEPT ![r] = RequestAt("publish", NoKind, 0, 0)]
  BY DEF AddDecision, versionVars
<1>2. PICK refs \in Candidates(c, q.route), ok \in BOOLEAN :
         decisions' = Newest(Append(decisions,
              [on |-> q.on, kind |-> q.kind, route |-> q.route, ok |-> ok, backend |-> Head(refs)]),
              Config[text].log)
  BY DEF AddDecision
<1>3. /\ q.at = "proxy" /\ q.on \in Nat /\ q.route \in Nat /\ q.kind \in Kinds \cup {NoKind}
  BY DEF AddDecision, Types, RequestState
<1>4. /\ q.on \in 1..Len(applied) /\ Header(c) \subseteq q.kind.headers
      /\ q.route = RouteFor(c, q.kind)
  BY <1>3 DEF Led
<1>5. t \in Usable /\ t \in Texts
  BY <1>4 DEF Types, Fit, Usable, Loadable
<1> DEFINE d == [on |-> q.on, kind |-> q.kind, route |-> q.route, ok |-> ok, backend |-> Head(refs)]
<1>6. /\ q.route = 0 => \A x \in ToSet(c.routes) : ~Matches(x, q.kind)
      /\ q.route # 0 => /\ q.route \in DOMAIN c.routes /\ Matches(c.routes[q.route], q.kind)
                        /\ \A x \in ToSet(c.routes) :
                              Matches(x, q.kind) => x.priority <= c.routes[q.route].priority
  BY <1>4, <1>5, RouteForProperties
<1>7. Head(refs) \in ToSet(c.backends)
  BY <1>2, <1>5, <1>6, CandidateProperties
<1>8. Head(refs) \in UNION {ToSet(Config[x].backends) : x \in Texts}
  BY <1>5, <1>7
<1>9. d \in Decision
  BY <1>2, <1>3, <1>8 DEF Decision
<1>10. /\ d.on = q.on /\ d.kind = q.kind /\ d.route = q.route /\ d.backend = Head(refs)
  OBVIOUS
<1> HIDE DEF d
<1>11. Leads(c, d)
  <2>1. Header(c) \subseteq d.kind.headers /\ d.backend \in ToSet(c.backends)
    BY <1>4, <1>7, <1>10
  <2>2. d.route = 0 => \A x \in ToSet(c.routes) : ~Matches(x, d.kind)
    BY <1>6, <1>10
  <2>3. d.route # 0 => /\ Matches(c.routes[d.route], d.kind)
                       /\ \A x \in ToSet(c.routes) :
                             Matches(x, d.kind) => x.priority <= c.routes[d.route].priority
    BY <1>6, <1>10
  <2> HIDE DEF c
  <2> QED BY <2>1, <2>2, <2>3, Zenon DEF Leads
<1>12. decisions' = Newest(Append(decisions, d), Config[text].log)
  BY <1>2 DEF d
<1> QED BY <1>1, <1>4, <1>9, <1>10, <1>11, <1>12

-----------------------------------------------------------------------------
(* Every step preserves the invariant.                                     *)

LEMMA FitProperties ==
    ASSUME NEW t \in Fit
    PROVE  t \in Texts /\ Config[t].keep \in Nat /\ Config[t].keep >= 2
<1>1. t \in Texts /\ Validate(Config[t])
  BY DEF Fit, Usable, Loadable
<1>2. Config[t].keep >= 2
  BY <1>1, Zenon DEF Validate
<1>3. Config[t].keep \in Int
  BY <1>1, Zenon, ConfigAssumption
<1> QED BY <1>1, <1>2, <1>3

LEMMA TypesStep ==
    ASSUME Types, Versioned, Led, [Next]_vars
    PROVE  Types'
<1>0. /\ version \in Nat /\ text \in Texts /\ applied \in Seq(Fit) /\ snapshots \in Seq(Snapshot)
      /\ decisions \in Seq(Decision) /\ run \in RunState
      /\ call \in [Calls -> CallState] /\ request \in [Requests -> RequestState]
  BY DEF Types
<1>f. Fit \subseteq Texts /\ \A t \in Fit : Config[t].keep \in Nat
  BY FitProperties
<1>1. ASSUME NEW c \in Calls, Commit(c) PROVE Types'
  <2>1. /\ UNCHANGED <<decisions, hubVars, request, run>>
        /\ \E t \in Fit :
             /\ version' = version + 1 /\ text' = t /\ applied' = Append(applied, t)
             /\ snapshots' = Newest(Append(snapshots, [version |-> version + 1, text |-> t]),
                                    Config[t].keep)
        /\ \E x \in CallState : call' = [call EXCEPT ![c] = x] /\ x.at # "commit"
    BY <1>1, CommitStep
  <2>2. PICK t \in Fit :
             /\ version' = version + 1 /\ text' = t /\ applied' = Append(applied, t)
             /\ snapshots' = Newest(Append(snapshots, [version |-> version + 1, text |-> t]),
                                    Config[t].keep)
    BY <2>1
  <2>3. call' \in [Calls -> CallState]
    BY <1>0, <2>1
  <2>4. applied' \in Seq(Fit)
    BY <1>0, <2>2, Appended
  <2>5. [version |-> version + 1, text |-> t] \in Snapshot
    BY <1>0, <1>f DEF Snapshot
  <2>6. Append(snapshots, [version |-> version + 1, text |-> t]) \in Seq(Snapshot)
    BY <1>0, <2>5, Appended
  <2>7. snapshots' \in Seq(Snapshot)
    BY <1>f, <2>2, <2>6, NewestProperties
  <2> QED BY <1>0, <1>f, <2>1, <2>2, <2>3, <2>4, <2>7 DEF Types
<1>2. ASSUME NEW c \in Calls, OtherCall(c) PROVE Types'
  <2>1. UNCHANGED <<versionVars, decisions, request, run>> /\ call' \in [Calls -> CallState]
    BY <1>0, <1>2, OtherCallStep
  <2> QED BY <1>0, <2>1 DEF Types, versionVars
<1>3. ASSUME NEW r \in Requests, Route(r) PROVE Types'
  <2>1. /\ UNCHANGED <<managerVars, call, run>> /\ request[r].at = "route"
        /\ request' = [request EXCEPT ![r] =
             RequestAt("proxy", request[r].kind, request[r].on,
                       RouteFor(Config[applied[request[r].on]], request[r].kind))]
    BY <1>3 DEF Route, RoutedBy
  <2>2. request[r].kind \in Kinds \cup {NoKind} /\ request[r].on \in Nat
    BY <1>0 DEF RequestState
  <2>3. applied[request[r].on] \in Texts
    BY <1>0, <1>f, <2>1 DEF Led
  <2>4. RouteFor(Config[applied[request[r].on]], request[r].kind) \in Nat
    BY <2>3, RouteForProperties
  <2>5. request' \in [Requests -> RequestState]
    BY <1>0, <2>1, <2>2, <2>4, RequestFields
  <2> QED BY <1>0, <2>1, <2>5 DEF Types, managerVars
<1>4. ASSUME NEW r \in Requests, AddDecision(r) PROVE Types'
  <2>1. /\ UNCHANGED <<versionVars, call, run>>
        /\ request' = [request EXCEPT ![r] = RequestAt("publish", NoKind, 0, 0)]
        /\ \E d \in Decision : decisions' = Newest(Append(decisions, d), Config[text].log)
    BY <1>4, AddDecisionStep
  <2>2. request' \in [Requests -> RequestState]
    BY <1>0, <2>1, RequestFields
  <2>3. Config[text].log \in Nat
    BY <1>0, ConfigAssumption
  <2>4. PICK d \in Decision : decisions' = Newest(Append(decisions, d), Config[text].log)
    BY <2>1
  <2>5. Append(decisions, d) \in Seq(Decision)
    BY <1>0, Appended
  <2>6. decisions' \in Seq(Decision)
    BY <2>3, <2>4, <2>5, NewestProperties
  <2> QED BY <1>0, <2>1, <2>2, <2>6 DEF Types, versionVars
<1>5. ASSUME NEW r \in Requests, NEW k \in Kinds, Arrive(r, k) PROVE Types'
  <2>1. /\ UNCHANGED <<managerVars, call, run>>
        /\ request' = [request EXCEPT ![r] = RequestAt("route", k, version, 0)]
    BY <1>5 DEF Arrive
  <2>2. request' \in [Requests -> RequestState]
    BY <1>0, <2>1, RequestFields
  <2> QED BY <1>0, <2>1, <2>2 DEF Types, managerVars
<1>6. ASSUME NEW p \in Publishers, Tell(p) PROVE Types'
  <2>1. /\ UNCHANGED <<managerVars, run>>
        /\ call' = call \/ (p \in Calls /\ call' = [call EXCEPT ![p] = NoCall])
        /\ request' = request \/ (p \in Requests /\ request' = [request EXCEPT ![p] = NoRequest])
    BY <1>6, TellStep
  <2>2. NoRequest \in RequestState
    BY RequestFields DEF NoRequest
  <2>3. call' \in [Calls -> CallState]
    BY <1>0, <2>1, NoCallFits
  <2>4. request' \in [Requests -> RequestState]
    BY <1>0, <2>1, <2>2
  <2> QED BY <1>0, <2>1, <2>3, <2>4 DEF Types, managerVars
<1>7. ASSUME NEW s \in Clients, ClientStep(s) PROVE Types'
  <2>1. UNCHANGED <<managerVars, call, request, run>>
    BY <1>7, ClientFrame
  <2> QED BY <1>0, <2>1 DEF Types, managerVars
<1>8. CASE RunStep
  <2>1. UNCHANGED <<managerVars, call, request>> /\ run' \in RunState
    BY <1>8, RunSteps
  <2> QED BY <1>0, <2>1 DEF Types, managerVars
<1>9. CASE UNCHANGED vars
  BY <1>0, <1>9 DEF Types, vars, managerVars
<1> QED BY <1>1, <1>2, <1>3, <1>4, <1>5, <1>6, <1>7, <1>8, <1>9, StepCases

LEMMA VersionedStep ==
    ASSUME Types, Versioned, Led, [Next]_vars
    PROVE  Versioned'
<1>0. /\ version \in Nat /\ applied \in Seq(Fit) /\ snapshots \in Seq(Snapshot)
      /\ call \in [Calls -> CallState] /\ Len(applied) \in Nat /\ Len(snapshots) \in Nat
  BY LenProperties DEF Types
<1>1. ASSUME NEW c \in Calls, Commit(c) PROVE Versioned'
  <2>1. /\ \E t \in Fit :
             /\ version' = version + 1 /\ text' = t /\ applied' = Append(applied, t)
             /\ snapshots' = Newest(Append(snapshots, [version |-> version + 1, text |-> t]),
                                    Config[t].keep)
        /\ \E x \in CallState : call' = [call EXCEPT ![c] = x] /\ x.at # "commit"
    BY <1>1, CommitStep
  <2>2. PICK t \in Fit :
             /\ version' = version + 1 /\ text' = t /\ applied' = Append(applied, t)
             /\ snapshots' = Newest(Append(snapshots, [version |-> version + 1, text |-> t]),
                                    Config[t].keep)
    BY <2>1
  <2> DEFINE s == [version |-> version + 1, text |-> t]
             all == Append(snapshots, s)
             n == Config[t].keep
  <2>3. t \in Texts /\ n \in Nat /\ n >= 2
    BY FitProperties
  <2>4. s \in Snapshot /\ s.version = version + 1 /\ s.text = t
    BY <1>0, <2>3 DEF Snapshot
  <2> HIDE DEF s
  <2>5. /\ all \in Seq(Snapshot) /\ Len(all) = Len(snapshots) + 1 /\ all[Len(snapshots) + 1] = s
        /\ \A i \in 1..Len(snapshots) : all[i] = snapshots[i]
    BY <1>0, <2>4, Appended
  <2> HIDE DEF all, n
  <2>6. /\ Len(Newest(all, n)) = IF Len(all) > n THEN n ELSE Len(all)
        /\ \A i \in 1..Len(Newest(all, n)) : Newest(all, n)[i] = all[Len(all) - Len(Newest(all, n)) + i]
    BY <2>3, <2>5, NewestProperties
  <2>7. snapshots' = Newest(all, n)
    BY <2>2 DEF all, s, n
  <2>8. /\ applied' \in Seq(Fit) /\ Len(applied') = Len(applied) + 1 /\ applied'[Len(applied) + 1] = t
        /\ \A i \in 1..Len(applied) : applied'[i] = applied[i]
    BY <1>0, <2>2, Appended
  <2>9. /\ version = Len(applied) /\ version >= 1 /\ Len(snapshots) <= version /\ Len(snapshots) >= 1
        /\ \A i \in 1..Len(snapshots) :
              /\ snapshots[i].version = version - Len(snapshots) + i
              /\ snapshots[i].text = applied[snapshots[i].version]
    <3>1. /\ version = Len(applied) /\ version >= 1 /\ Len(snapshots) <= version
          /\ Len(snapshots) >= IF version > 1 THEN 2 ELSE 1
      BY DEF Versioned
    <3>2. Len(snapshots) >= 1
      BY <1>0, <3>1
    <3>3. \A i \in 1..Len(snapshots) :
              /\ snapshots[i].version = version - Len(snapshots) + i
              /\ snapshots[i].text = applied[snapshots[i].version]
      BY Zenon DEF Versioned
    <3> QED BY <3>1, <3>2, <3>3
  <2>10. version' = Len(applied') /\ version' >= 1 /\ text' = applied'[version']
    BY <1>0, <2>2, <2>8, <2>9
  <2>11. /\ Len(snapshots') <= version' /\ Len(snapshots') >= 2 /\ Len(snapshots') \in Nat
         /\ Len(snapshots') <= Len(all)
    BY <1>0, <2>2, <2>3, <2>5, <2>6, <2>7, <2>9
  <2>12. \A i \in 1..Len(all) : /\ all[i].version = version' - Len(all) + i
                                /\ all[i].text = applied'[all[i].version]
    <3> SUFFICES ASSUME NEW i \in 1..Len(all)
                 PROVE  all[i].version = version' - Len(all) + i /\ all[i].text = applied'[all[i].version]
      OBVIOUS
    <3>1. CASE i = Len(snapshots) + 1
      BY <1>0, <2>2, <2>4, <2>5, <2>8, <2>9, <3>1
    <3>2. CASE i # Len(snapshots) + 1
      <4>1. i \in 1..Len(snapshots) /\ all[i] = snapshots[i]
        BY <1>0, <2>5, <3>2
      <4>2. all[i].version = version - Len(snapshots) + i /\ all[i].text = applied[all[i].version]
        BY <2>9, <4>1
      <4>3. all[i].version \in 1..Len(applied)
        BY <1>0, <2>9, <4>1, <4>2
      <4>4. version - Len(snapshots) + i = version' - Len(all) + i
        BY <1>0, <2>2, <2>5
      <4> QED BY <2>8, <4>2, <4>3, <4>4
    <3> QED BY <3>1, <3>2
  <2>13. \A i \in 1..Len(snapshots') :
            /\ snapshots'[i].version = version' - Len(snapshots') + i
            /\ snapshots'[i].text = applied'[snapshots'[i].version]
    <3> SUFFICES ASSUME NEW i \in 1..Len(snapshots')
                 PROVE  /\ snapshots'[i].version = version' - Len(snapshots') + i
                        /\ snapshots'[i].text = applied'[snapshots'[i].version]
      OBVIOUS
    <3> DEFINE j == Len(all) - Len(snapshots') + i
    <3>0. snapshots'[i] = all[j]
      BY <2>6, <2>7
    <3>a. /\ Len(all) \in Nat /\ Len(snapshots') \in Nat /\ Len(snapshots') <= Len(all)
          /\ i \in Nat /\ 1 <= i /\ i <= Len(snapshots')
      BY <1>0, <2>5, <2>11
    <3>b. j \in 1..Len(all)
      BY <3>a
    <3>1. j \in 1..Len(all) /\ snapshots'[i] = all[j]
      BY <3>0, <3>b
    <3>2. version' - Len(all) + j = version' - Len(snapshots') + i
      BY <1>0, <2>2, <2>5, <2>11
    <3> HIDE DEF j
    <3> QED BY <2>12, <3>1, <3>2
  <2>14. \A d \in Calls : call'[d].at = "commit" => call'[d].arg \in Fit
    BY <1>0, <2>1 DEF Versioned
  <2> QED BY <2>10, <2>11, <2>13, <2>14 DEF Versioned
<1>2. ASSUME NEW c \in Calls, OtherCall(c) PROVE Versioned'
  <2>1. /\ UNCHANGED versionVars
        /\ \E x \in CallState : call' = [call EXCEPT ![c] = x] /\ (x.at = "commit" => x.arg \in Fit)
    BY <1>2, OtherCallStep
  <2>2. \A d \in Calls : call'[d].at = "commit" => call'[d].arg \in Fit
    BY <1>0, <2>1 DEF Versioned
  <2> QED BY <2>1, <2>2 DEF Versioned, versionVars
<1>3. ASSUME UNCHANGED versionVars, UNCHANGED call PROVE Versioned'
  BY <1>3 DEF Versioned, versionVars
<1>4. ASSUME NEW r \in Requests, Route(r) PROVE Versioned'
  BY <1>3, <1>4 DEF Route, managerVars, versionVars
<1>5. ASSUME NEW r \in Requests, AddDecision(r) PROVE Versioned'
  BY <1>3, <1>5, AddDecisionStep
<1>6. ASSUME NEW r \in Requests, NEW k \in Kinds, Arrive(r, k) PROVE Versioned'
  BY <1>3, <1>6 DEF Arrive, managerVars, versionVars
<1>7. ASSUME NEW p \in Publishers, Tell(p) PROVE Versioned'
  <2>1. /\ UNCHANGED versionVars
        /\ call' = call \/ (p \in Calls /\ call' = [call EXCEPT ![p] = NoCall])
    BY <1>7, TellStep DEF managerVars, versionVars
  <2>2. \A d \in Calls : call'[d].at = "commit" => call'[d].arg \in Fit
    BY <1>0, <2>1, NoCallFits DEF Versioned
  <2> QED BY <2>1, <2>2 DEF Versioned, versionVars
<1>8. ASSUME NEW s \in Clients, ClientStep(s) PROVE Versioned'
  BY <1>3, <1>8, ClientFrame DEF managerVars, versionVars
<1>9. CASE RunStep
  BY <1>3, <1>9, RunSteps DEF managerVars, versionVars
<1>10. CASE UNCHANGED vars
  BY <1>3, <1>10 DEF vars, managerVars, versionVars
<1> QED BY <1>1, <1>2, <1>4, <1>5, <1>6, <1>7, <1>8, <1>9, <1>10, StepCases

(* A version keeps its text.                                               *)
LEMMA AppliedKept ==
    ASSUME Types, Versioned, Led, [Next]_vars
    PROVE  \A i \in 1..Len(applied) : i \in 1..Len(applied') /\ applied'[i] = applied[i]
<1>0. applied \in Seq(Fit)
  BY DEF Types
<1>1. ASSUME NEW t \in Fit, applied' = Append(applied, t)
      PROVE  \A i \in 1..Len(applied) : i \in 1..Len(applied') /\ applied'[i] = applied[i]
  <2>1. /\ Len(applied') = Len(applied) + 1 /\ Len(applied) \in Nat
        /\ \A i \in 1..Len(applied) : applied'[i] = applied[i]
    BY <1>0, <1>1, Appended
  <2> QED BY <2>1
<1>2. ASSUME NEW c \in Calls, Commit(c) PROVE \E t \in Fit : applied' = Append(applied, t)
  BY <1>2, CommitStep
<1>3. ASSUME NEW c \in Calls, OtherCall(c) PROVE applied' = applied
  BY <1>3, OtherCallStep DEF versionVars
<1>4. ASSUME NEW r \in Requests, Route(r) \/ AddDecision(r) \/ \E k \in Kinds : Arrive(r, k)
      PROVE  applied' = applied
  BY <1>4 DEF Route, AddDecision, Arrive, managerVars
<1>5. ASSUME NEW p \in Publishers, Tell(p) PROVE applied' = applied
  BY <1>5, TellStep DEF managerVars
<1>6. ASSUME NEW s \in Clients, ClientStep(s) PROVE applied' = applied
  BY <1>6, ClientFrame DEF managerVars
<1>7. RunStep => applied' = applied
  BY RunSteps DEF managerVars
<1>8. UNCHANGED vars => applied' = applied
  BY DEF vars, managerVars
<1> QED BY <1>1, <1>2, <1>3, <1>4, <1>5, <1>6, <1>7, <1>8, StepCases

LEMMA LedStep ==
    ASSUME Types, Versioned, Led, [Next]_vars
    PROVE  Led'
<1> DEFINE In(q) == LET c == Config[applied[q.on]]
                    IN  /\ q.on \in 1..Len(applied) /\ Header(c) \subseteq q.kind.headers
                        /\ q.at = "proxy" => q.route = RouteFor(c, q.kind)
           Out(d) == d.on \in 1..Len(applied) /\ Leads(Config[applied[d.on]], d)
           InAfter(q) == LET c == Config[applied'[q.on]]
                    IN  /\ q.on \in 1..Len(applied') /\ Header(c) \subseteq q.kind.headers
                        /\ q.at = "proxy" => q.route = RouteFor(c, q.kind)
           OutAfter(d) == d.on \in 1..Len(applied') /\ Leads(Config[applied'[d.on]], d)
           Within(q) == q.at \in {"route", "proxy"}
<1>0. /\ \A r \in Requests : Within(request[r]) => In(request[r])
      /\ \A d \in ToSet(decisions) : Out(d)
  BY Zenon DEF Led
<1>k. \A i \in 1..Len(applied) : i \in 1..Len(applied') /\ applied'[i] = applied[i]
  BY AppliedKept
<1>a. ASSUME NEW q, In(q) PROVE InAfter(q)
  BY <1>k, <1>a
<1>b. ASSUME NEW d, Out(d) PROVE OutAfter(d)
  BY <1>k, <1>b
<1>s. ASSUME \A r \in Requests : Within(request'[r]) => InAfter(request'[r]),
             \A d \in ToSet(decisions') : OutAfter(d)
      PROVE  Led'
  BY <1>s, Zenon DEF Led
<1>t. request \in [Requests -> RequestState]
  BY DEF Types
<1> HIDE DEF In, Out, InAfter, OutAfter
<1>1. ASSUME request' = request \/ \E p \in Requests : request' = [request EXCEPT ![p] = NoRequest],
             decisions' = decisions
      PROVE  Led'
  <2>1. NoRequest.at = "idle"
    BY RequestFields DEF NoRequest
  <2>2. \A r \in Requests : Within(request'[r]) => Within(request[r]) /\ request'[r] = request[r]
    BY <1>1, <1>t, <2>1
  <2>3. \A r \in Requests : Within(request'[r]) => InAfter(request'[r])
    BY <1>0, <1>a, <2>2
  <2>4. \A d \in ToSet(decisions') : OutAfter(d)
    BY <1>0, <1>b, <1>1
  <2> QED BY <1>s, <2>3, <2>4
<1>2. ASSUME NEW c \in Calls, Commit(c) PROVE Led'
  BY <1>1, <1>2, CommitStep
<1>3. ASSUME NEW c \in Calls, OtherCall(c) PROVE Led'
  BY <1>1, <1>3, OtherCallStep
<1>4. ASSUME NEW r \in Requests, Route(r) PROVE Led'
  <2> DEFINE q == request[r]
             x == RequestAt("proxy", q.kind, q.on, RouteFor(Config[applied[q.on]], q.kind))
  <2>1. decisions' = decisions /\ q.at = "route" /\ request' = [request EXCEPT ![r] = x]
    BY <1>4 DEF Route, RoutedBy, managerVars
  <2>2. x.on = q.on /\ x.kind = q.kind /\ x.route = RouteFor(Config[applied[q.on]], q.kind)
    BY RequestFields
  <2>3. In(q)
    BY <1>0, <2>1
  <2> HIDE DEF x
  <2>4. In(x)
    BY <2>2, <2>3 DEF In
  <2>5. \A p \in Requests : request'[p] = IF p = r THEN x ELSE request[p]
    BY <1>t, <2>1
  <2>6. \A p \in Requests : Within(request'[p]) => InAfter(request'[p])
    <3> SUFFICES ASSUME NEW p \in Requests, Within(request'[p]) PROVE InAfter(request'[p])
      OBVIOUS
    <3>1. In(request'[p])
      BY <1>0, <2>4, <2>5
    <3> QED BY <1>a, <3>1
  <2>7. \A d \in ToSet(decisions') : OutAfter(d)
    BY <1>0, <1>b, <2>1
  <2> QED BY <1>s, <2>6, <2>7
<1>5. ASSUME NEW r \in Requests, AddDecision(r) PROVE Led'
  <2>1. /\ request' = [request EXCEPT ![r] = RequestAt("publish", NoKind, 0, 0)]
        /\ \E d \in Decision :
             /\ d.on \in 1..Len(applied) /\ Leads(Config[applied[d.on]], d)
             /\ decisions' = Newest(Append(decisions, d), Config[text].log)
    BY <1>5, AddDecisionStep
  <2>2. RequestAt("publish", NoKind, 0, 0).at = "publish"
    BY RequestFields
  <2>3. \A p \in Requests : Within(request'[p]) => Within(request[p]) /\ request'[p] = request[p]
    BY <1>t, <2>1, <2>2
  <2>4. \A p \in Requests : Within(request'[p]) => InAfter(request'[p])
    BY <1>0, <1>a, <2>3
  <2>5. PICK d \in Decision : Out(d) /\ decisions' = Newest(Append(decisions, d), Config[text].log)
    BY <2>1 DEF Out
  <2>6. decisions \in Seq(Decision) /\ Config[text].log \in Nat
    BY ConfigAssumption DEF Types
  <2>7. Append(decisions, d) \in Seq(Decision) /\ ToSet(Append(decisions, d)) = ToSet(decisions) \cup {d}
    BY <2>6, Appended
  <2>8. ToSet(decisions') \subseteq ToSet(decisions) \cup {d}
    BY <2>5, <2>6, <2>7, NewestProperties
  <2>9. \A e \in ToSet(decisions') : OutAfter(e)
    BY <1>0, <1>b, <2>5, <2>8
  <2> QED BY <1>s, <2>4, <2>9
<1>6. ASSUME NEW r \in Requests, NEW k \in Kinds, Arrive(r, k) PROVE Led'
  <2> DEFINE x == RequestAt("route", k, version, 0)
  <2>1. /\ decisions' = decisions /\ Header(Config[text]) \subseteq k.headers
        /\ request' = [request EXCEPT ![r] = x]
    BY <1>6 DEF Arrive, managerVars
  <2>2. x.at = "route" /\ x.on = version /\ x.kind = k
    BY RequestFields
  <2>3. version \in 1..Len(applied) /\ text = applied[version]
    BY DEF Types, Versioned
  <2> HIDE DEF x
  <2>4. In(x)
    BY <2>1, <2>2, <2>3 DEF In
  <2>5. \A p \in Requests : request'[p] = IF p = r THEN x ELSE request[p]
    BY <1>t, <2>1
  <2>6. \A p \in Requests : Within(request'[p]) => InAfter(request'[p])
    <3> SUFFICES ASSUME NEW p \in Requests, Within(request'[p]) PROVE InAfter(request'[p])
      OBVIOUS
    <3>1. In(request'[p])
      BY <1>0, <2>4, <2>5
    <3> QED BY <1>a, <3>1
  <2>7. \A d \in ToSet(decisions') : OutAfter(d)
    BY <1>0, <1>b, <2>1
  <2> QED BY <1>s, <2>6, <2>7
<1>7. ASSUME NEW p \in Publishers, Tell(p) PROVE Led'
  BY <1>1, <1>7, TellStep DEF managerVars
<1>8. ASSUME NEW s \in Clients, ClientStep(s) PROVE Led'
  BY <1>1, <1>8, ClientFrame DEF managerVars
<1>9. CASE RunStep
  BY <1>1, <1>9, RunSteps DEF managerVars
<1>10. CASE UNCHANGED vars
  BY <1>1, <1>10 DEF vars, managerVars
<1> QED BY <1>2, <1>3, <1>4, <1>5, <1>6, <1>7, <1>8, <1>9, <1>10, StepCases

LEMMA ChannelsStep ==
    ASSUME Types, Versioned, Led, Channels, [Next]_vars
    PROVE  Channels'
<1> DEFINE Places == {"away", "here", "left", "deleted", "gone"}
<1>0. /\ ~panicked /\ closed \subseteq Clients /\ subscribers \subseteq Clients
      /\ client \in [Clients -> Places]
      /\ \A s \in closed : client[s] = "gone"
      /\ \A s \in subscribers : client[s] \in {"here", "left"}
      /\ \A p \in DOMAIN sending : sending[p] \subseteq subscribers
  BY DEF Channels
<1>1. ASSUME UNCHANGED hubVars PROVE Channels'
  BY <1>1 DEF Channels, hubVars
<1>2. ASSUME NEW c \in Calls, Commit(c) PROVE Channels'
  BY <1>1, <1>2, CommitStep
<1>3. ASSUME NEW c \in Calls, OtherCall(c) PROVE Channels'
  BY <1>1, <1>3, OtherCallStep
<1>4. ASSUME NEW r \in Requests, Route(r) \/ AddDecision(r) \/ \E k \in Kinds : Arrive(r, k)
      PROVE  Channels'
  BY <1>1, <1>4 DEF Route, AddDecision, Arrive
<1>5. ASSUME NEW p \in Publishers, Tell(p) PROVE Channels'
  <2>1. UNCHANGED <<subscribers, closed, client>>
    BY <1>5, TellStep
  <2>2. ~panicked' /\ \A q \in DOMAIN sending' : sending'[q] \subseteq subscribers
    <3>1. CASE /\ panicked' = panicked
               /\ sending' = [q \in DOMAIN sending \union {p} |-> IF q = p THEN subscribers ELSE sending[q]]
      BY <1>0, <3>1
    <3>2. CASE panicked' = panicked /\ sending' = [q \in DOMAIN sending \ {p} |-> sending[q]]
      BY <1>0, <3>2
    <3>3. ASSUME NEW s \in Clients, OfferFrame(p, s)
          PROVE  ~panicked' /\ \A q \in DOMAIN sending' : sending'[q] \subseteq subscribers
      <4>1. /\ p \in DOMAIN sending /\ s \in sending[p]
            /\ sending' = [sending EXCEPT ![p] = sending[p] \ {s}]
        BY <3>3 DEF OfferFrame
      <4>2. panicked' = (panicked \/ s \in closed)
        BY <3>3 DEF OfferFrame
      <4>3. s \notin closed
        <5>1. client[s] \in {"here", "left"}
          BY <1>0, <4>1
        <5> QED BY <1>0, <5>1
      <4>4. ~panicked'
        BY <1>0, <4>2, <4>3, Zenon
      <4>5. \A q \in DOMAIN sending' : sending'[q] \subseteq subscribers
        BY <1>0, <4>1
      <4> QED BY <4>4, <4>5
    <3> QED BY <1>5, <3>1, <3>2, <3>3, TellStep
  <2> QED BY <1>0, <2>1, <2>2 DEF Channels
<1>6. ASSUME NEW s \in Clients, ClientStep(s) PROVE Channels'
  <2>1. CASE UNCHANGED <<closed, sending, panicked>> /\ client[s] = "away"
             /\ client' = [client EXCEPT ![s] = "here"] /\ subscribers' = subscribers \cup {s}
    BY <1>0, <2>1 DEF Channels
  <2>2. CASE UNCHANGED <<closed, sending, panicked, subscribers, client>>
    BY <1>0, <2>2 DEF Channels
  <2>3. CASE UNCHANGED <<closed, sending, panicked, subscribers>> /\ client[s] = "here"
             /\ client' = [client EXCEPT ![s] = "left"]
    BY <1>0, <2>3 DEF Channels
  <2>4. CASE UNCHANGED <<closed, sending, panicked>> /\ client[s] = "left" /\ DOMAIN sending = {}
             /\ client' = [client EXCEPT ![s] = "deleted"] /\ subscribers' = subscribers \ {s}
    BY <1>0, <2>4 DEF Channels
  <2>5. CASE UNCHANGED <<sending, panicked, subscribers>> /\ client[s] = "deleted"
             /\ client' = [client EXCEPT ![s] = "gone"] /\ closed' = closed \cup {s}
    BY <1>0, <2>5 DEF Channels
  <2>6. CASE Subscribe(s)
    BY <2>1, <2>6 DEF Subscribe
  <2>7. CASE Receive(s)
    BY <2>2, <2>7 DEF Receive
  <2>8. CASE Leave(s)
    BY <2>3, <2>8 DEF Leave
  <2>9. CASE Unsubscribe(s)
    BY <2>4, <2>5, <2>9 DEF Unsubscribe, UnsubscribeFrame
  <2> QED BY <1>6, <2>6, <2>7, <2>8, <2>9 DEF ClientStep
<1>7. CASE RunStep
  BY <1>1, <1>7, RunSteps
<1>8. CASE UNCHANGED vars
  BY <1>1, <1>8 DEF vars
<1> QED BY <1>2, <1>3, <1>4, <1>5, <1>6, <1>7, <1>8, StepCases

(* After Run has returned nothing happens any more.                        *)
LEMMA CleanReturnStep ==
    ASSUME Types, Versioned, Led, CleanReturn, [Next]_vars
    PROVE  CleanReturn'
<1>1. ASSUME run' = run, Running PROVE CleanReturn'
  BY <1>1 DEF CleanReturn, Running
<1>2. ASSUME NEW c \in Calls, Commit(c) PROVE CleanReturn'
  BY <1>1, <1>2 DEF Commit
<1>3. ASSUME NEW c \in Calls, OtherCall(c) PROVE CleanReturn'
  <2>1. run' = run
    BY <1>3, OtherCallStep
  <2>2. Running
    BY <1>3 DEF OtherCall, Find, Note, SetFeatureFlag, Ask, AskApply, AskRollback, AskFlag,
                Authorize, Running
  <2> QED BY <1>1, <2>1, <2>2
<1>4. ASSUME NEW r \in Requests, Route(r) \/ AddDecision(r) \/ \E k \in Kinds : Arrive(r, k)
      PROVE  CleanReturn'
  BY <1>1, <1>4 DEF Route, AddDecision, Arrive, Running
<1>5. ASSUME NEW p \in Publishers, Tell(p) PROVE CleanReturn'
  <2>1. run' = run
    BY <1>5, TellStep
  <2>2. Running
    BY <1>5 DEF Tell, Publish, Published, Offer, OfferFrame
  <2> QED BY <1>1, <2>1, <2>2
<1>6. ASSUME NEW s \in Clients, ClientStep(s) PROVE CleanReturn'
  <2>1. run' = run
    BY <1>6, ClientFrame
  <2>2. Running
    BY <1>6 DEF ClientStep, Unsubscribe, Subscribe, Receive, Leave, Running
  <2> QED BY <1>1, <2>1, <2>2
<1>7. CASE RunStep
  <2>1. /\ UNCHANGED <<call, request, client>>
        /\ run'.at = "returned" => run'.err = (run.err \/ Busy)
    BY <1>7, RunSteps DEF hubVars
  <2>2. Busy' = Busy
    BY <2>1 DEF Busy
  <2>3. run'.at = "returned" /\ ~run'.err => ~Busy
    BY <2>1, Zenon
  <2> QED BY <2>2, <2>3, Zenon DEF CleanReturn
<1>8. CASE UNCHANGED vars
  <2>1. UNCHANGED <<run, call, request, client>>
    BY <1>8 DEF vars, hubVars
  <2> QED BY <2>1 DEF CleanReturn, Busy
<1> QED BY <1>2, <1>3, <1>4, <1>5, <1>6, <1>7, <1>8, StepCases

LEMMA Singleton ==
    ASSUME NEW S, NEW x \in S
    PROVE  <<x>> \in Seq(S) /\ Len(<<x>>) = 1 /\ <<x>>[1] = x /\ <<x>> # <<>>
<1> QED OBVIOUS

LEMMA InitAdmin == Init => AdminInv
<1> SUFFICES ASSUME Init PROVE AdminInv
  OBVIOUS
<1> DEFINE s == [version |-> 1, text |-> Startup]
<1>1. /\ version = 1 /\ text = Startup /\ applied = <<Startup>> /\ snapshots = <<s>>
      /\ decisions = <<>>
  BY DEF Init, InitManager
<1>2. /\ call = [c \in Calls |-> NoCall] /\ request = [r \in Requests |-> NoRequest]
      /\ client = [x \in Clients |-> "away"] /\ subscribers = {} /\ closed = {} /\ panicked = FALSE
      /\ sending = [p \in {} |-> {}] /\ run = RunAt("serving", FALSE, Listeners, 0, FALSE)
  BY DEF Init
<1>3. Startup \in Fit /\ Startup \in Texts /\ NoCall \in CallState /\ NoCall.at = "idle"
  BY NoCallFits
<1>4. NoRequest \in RequestState /\ NoRequest.at = "idle"
  BY RequestFields DEF NoRequest
<1>5. run \in RunState /\ run.at = "serving"
  BY <1>2, GatewayAdminAssumption DEF RunAt, RunState
<1>6. s \in Snapshot /\ s.version = 1 /\ s.text = Startup
  BY <1>3 DEF Snapshot
<1> HIDE DEF s
<1>7. /\ applied \in Seq(Fit) /\ Len(applied) = 1 /\ applied[1] = Startup
      /\ snapshots \in Seq(Snapshot) /\ Len(snapshots) = 1 /\ snapshots[1] = s
  BY <1>1, <1>3, <1>6, Singleton
<1>8. decisions \in Seq(Decision) /\ ToSet(decisions) = {}
  BY <1>1 DEF ToSet
<1>9. Types
  BY <1>1, <1>2, <1>3, <1>4, <1>5, <1>7, <1>8 DEF Types
<1>10. Versioned
  BY <1>1, <1>2, <1>3, <1>6, <1>7 DEF Versioned
<1>11. Led
  BY <1>2, <1>4, <1>8 DEF Led
<1>12. Channels
  BY <1>2 DEF Channels
<1>13. CleanReturn
  BY <1>5 DEF CleanReturn
<1> QED BY <1>9, <1>10, <1>11, <1>12, <1>13 DEF AdminInv

LEMMA AdminInvariant == Spec => []AdminInv
<1>1. AdminInv /\ [Next]_vars => AdminInv'
  BY TypesStep, VersionedStep, LedStep, ChannelsStep, CleanReturnStep DEF AdminInv
<1> QED BY <1>1, InitAdmin, PTL DEF Spec

(* Concurrent apply and rollback calls leave one line of versions,         *)
(* whatever the configurations: no two have the same number, the newest    *)
(* snapshot is in force and the one before it is kept.                     *)
THEOREM OneLineOfVersions == Spec => []SnapshotsTell
<1>1. AdminInv => SnapshotsTell
  <2> SUFFICES ASSUME AdminInv PROVE SnapshotsTell
    OBVIOUS
  <2>0. Types /\ Versioned
    BY DEF AdminInv
  <2>1. /\ version \in Nat /\ applied \in Seq(Fit) /\ snapshots \in Seq(Snapshot)
        /\ Len(applied) \in Nat /\ Len(snapshots) \in Nat /\ DOMAIN snapshots = 1..Len(snapshots)
    BY <2>0, LenProperties DEF Types
  <2>2. /\ version = Len(applied) /\ version >= 1 /\ text = applied[version]
        /\ Len(snapshots) <= version /\ Len(snapshots) >= IF version > 1 THEN 2 ELSE 1
    BY <2>0 DEF Versioned
  <2>3. \A i \in 1..Len(snapshots) :
            /\ snapshots[i].version = version - Len(snapshots) + i
            /\ snapshots[i].text = applied[snapshots[i].version]
    BY <2>0, Zenon DEF Versioned
  <2>4. text = Last(applied)
    BY <2>2 DEF Last
  <2>5. \A x \in ToSet(snapshots) : x.text \in Usable /\ Config[x.text].addresses = Addresses
    <3> SUFFICES ASSUME NEW x \in ToSet(snapshots) PROVE x.text \in Fit
      BY DEF Fit
    <3>1. PICK i \in 1..Len(snapshots) : x = snapshots[i]
      BY <2>1 DEF ToSet
    <3>2. x.version \in 1..Len(applied) /\ x.text = applied[x.version]
      BY <2>1, <2>2, <2>3, <3>1
    <3> QED BY <2>1, <3>2
  <2> QED BY <2>1, <2>2, <2>3, <2>4, <2>5 DEF SnapshotsTell
<1> QED BY <1>1, AdminInvariant, PTL

(* Whatever is applied while a request is under way, one configuration     *)
(* lets it in and leads it, to a backend which that one names.             *)
THEOREM OneConfigurationLeads == Spec => []RoutedByOneConfig
<1>1. AdminInv => RoutedByOneConfig
  BY Zenon DEF AdminInv, Led, RoutedByOneConfig
<1> QED BY <1>1, AdminInvariant, PTL

(* No event is sent on a closed channel, whoever leaves while others       *)
(* publish, and a stop that cuts off a handler is reported.                *)
THEOREM IntendedEnd == Spec => []EndsAsIntended
<1>1. AdminInv => EndsAsIntended
  BY DEF AdminInv, Channels, EndsAsIntended, NoPanic
<1> QED BY <1>1, AdminInvariant, PTL

(* A read-only configuration in force, with no call under way that an      *)
(* earlier one let in, stays in force, and so do its flags.                *)
THEOREM ReadOnlyStays == Spec => FrozenStays
<1>1. AdminInv /\ [Next]_vars => (Settled => version' = version /\ flag' = flag /\ Settled')
  <2> SUFFICES ASSUME Types, Versioned, Led, [Next]_vars, Settled
               PROVE  version' = version /\ flag' = flag /\ Settled'
    BY DEF AdminInv
  <2>0. /\ call \in [Calls -> CallState] /\ Frozen(version)
        /\ \A c \in Calls : call[c].at \in {"idle", "publish"}
    BY DEF Types, Settled
  <2>1. ASSUME UNCHANGED managerVars,
               call' = call \/ \E p \in Calls : call' = [call EXCEPT ![p] = NoCall]
        PROVE  version' = version /\ flag' = flag /\ Settled'
    <3>1. version' = version /\ flag' = flag /\ applied' = applied
      BY <2>1 DEF managerVars
    <3>2. \A c \in Calls : call'[c].at \in {"idle", "publish"}
      BY <2>0, <2>1, NoCallFits
    <3> QED BY <2>0, <3>1, <3>2 DEF Settled, Frozen
  <2>2. ASSUME NEW c \in Calls PROVE ~Commit(c) /\ ~OtherCall(c)
    <3>1. ~Commit(c) /\ ~Find(c) /\ ~Note(c) /\ ~SetFeatureFlag(c)
      BY <2>0 DEF Commit, Find, Note, SetFeatureFlag
    <3>2. ~Ask(c)
      BY <2>0 DEF Ask, AskApply, AskRollback, AskFlag, Authorize, MayAuthorize
    <3> QED BY <3>1, <3>2 DEF OtherCall
  <2>3. ASSUME NEW r \in Requests, Route(r) \/ AddDecision(r) \/ \E k \in Kinds : Arrive(r, k)
        PROVE  version' = version /\ flag' = flag /\ Settled'
    <3>1. UNCHANGED <<version, flag, applied, call>>
      BY <2>3 DEF Route, AddDecision, Arrive, managerVars
    <3> QED BY <2>0, <3>1 DEF Settled, Frozen
  <2>4. ASSUME NEW p \in Publishers, Tell(p) PROVE version' = version /\ flag' = flag /\ Settled'
    BY <2>1, <2>4, TellStep
  <2>5. ASSUME NEW s \in Clients, ClientStep(s) PROVE version' = version /\ flag' = flag /\ Settled'
    BY <2>1, <2>5, ClientFrame
  <2>6. CASE RunStep
    BY <2>1, <2>6, RunSteps
  <2>7. CASE UNCHANGED vars
    BY <2>1, <2>7 DEF vars
  <2> QED BY <2>2, <2>3, <2>4, <2>5, <2>6, <2>7, StepCases
<1>2. AdminInv /\ [Next]_vars => [Settled => version' = version /\ flag' = flag /\ Settled']_vars
  BY <1>1
<1> QED BY <1>2, AdminInvariant, PTL DEF Spec, FrozenStays
-----------------------------------------------------------------------------
(* The limits.                                                             *)

(* The calls that may still make a version.                                *)
Deciding == {c \in Calls : call[c].at \in {"commit", "find"}}

(* An arrival makes one version at most.                                   *)
Numbered ==
    /\ arrived \in Nat /\ arrived <= MaxArrivals
    /\ IsFiniteSet(Deciding) /\ version + Cardinality(Deciding) <= arrived + 1

AuditEntry == [what : {"startup", "apply", "rollback", "flag"}, version : Versions]

Noted ==
    /\ flag \in BOOLEAN
    /\ audit \in Seq(AuditEntry) /\ Len(audit) <= AuditLimit
    /\ \A c \in Calls : call[c].at = "note" => call[c].under \in Versions

(* A listener serves, failed or was asked about.                           *)
Limited ==
    /\ channel \in [Clients -> 0..Buffer] /\ DOMAIN sending \subseteq Publishers
    /\ run.listening \in Nat /\ run.errs \in Nat /\ run.listening + run.errs <= Listeners

Limits == Numbered /\ Noted /\ Limited

LEMMA VersionWithin == ASSUME Types, Versioned, Numbered PROVE 1..version \subseteq Versions
<1>1. Cardinality(Deciding) \in Nat
  BY FS_CardinalityType DEF Numbered
<1> QED BY <1>1, GatewayAdminAssumption DEF Types, Numbered, Versions

(* What a call does to the calls that decide.                              *)
LEMMA DecidingChanges ==
    ASSUME Types, Numbered, NEW c \in Calls, NEW x \in CallState,
           call' = [call EXCEPT ![c] = x]
    PROVE  /\ Deciding' = IF x.at \in {"commit", "find"} THEN Deciding \cup {c} ELSE Deciding \ {c}
           /\ IsFiniteSet(Deciding') /\ Cardinality(Deciding) \in Nat /\ Cardinality(Deciding') \in Nat
           /\ Cardinality(Deciding') <= Cardinality(Deciding) + 1
           /\ x.at \notin {"commit", "find"} => Cardinality(Deciding') <= Cardinality(Deciding)
           /\ x.at \notin {"commit", "find"} /\ c \in Deciding
                 => Cardinality(Deciding') = Cardinality(Deciding) - 1
           /\ c \in Deciding => Cardinality(Deciding') <= Cardinality(Deciding)
<1>1. Deciding' = IF x.at \in {"commit", "find"} THEN Deciding \cup {c} ELSE Deciding \ {c}
  BY DEF Deciding, Types
<1>2. IsFiniteSet(Deciding) /\ Cardinality(Deciding) \in Nat
  BY FS_CardinalityType DEF Numbered
<1>3. /\ IsFiniteSet(Deciding \cup {c})
      /\ Cardinality(Deciding \cup {c})
            = IF c \in Deciding THEN Cardinality(Deciding) ELSE Cardinality(Deciding) + 1
  BY <1>2, FS_AddElement
<1>4. /\ IsFiniteSet(Deciding \ {c})
      /\ Cardinality(Deciding \ {c})
            = IF c \in Deciding THEN Cardinality(Deciding) - 1 ELSE Cardinality(Deciding)
  BY <1>2, FS_RemoveElement
<1>5. IsFiniteSet(Deciding') /\ Cardinality(Deciding') \in Nat
  BY <1>1, <1>3, <1>4, FS_CardinalityType
<1> HIDE DEF Deciding
<1> QED BY <1>1, <1>2, <1>3, <1>4, <1>5

LEMMA TellsOfIt ==
    ASSUME NEW c \in Calls, Tells(c)
    PROVE  \E x \in CallState : call' = [call EXCEPT ![c] = x] /\ x.at = "publish"
<1>1. /\ CallAt("publish", "none", Startup, 0, 0) \in CallState
      /\ CallAt("publish", "none", Startup, 0, 0).at = "publish"
  BY NoCallFits, CallFields DEF CallPlaces
<1>2. call' = [call EXCEPT ![c] = CallAt("publish", "none", Startup, 0, 0)]
  BY DEF Tells
<1> QED BY <1>1, <1>2

LEMMA CommitDone ==
    ASSUME Types, Versioned, NEW c \in Calls, Commit(c)
    PROVE  \E x \in CallState : call' = [call EXCEPT ![c] = x] /\ x.at \notin {"commit", "find"}
<1>1. \/ call' = [call EXCEPT ![c] = CallAt("note", "none", Startup, 0, version + 1)]
      \/ call' = [call EXCEPT ![c] = CallAt("publish", "none", Startup, 0, 0)]
  BY DEF Commit, NextVersion, Tells
<1>2. version + 1 \in Nat
  BY DEF Types
<1>3. \A v \in Nat, at \in {"note", "publish"} :
         /\ CallAt(at, "none", Startup, 0, v) \in CallState
         /\ CallAt(at, "none", Startup, 0, v).at \notin {"commit", "find"}
  BY NoCallFits, CallFields DEF CallPlaces
<1> QED BY <1>1, <1>2, <1>3

LEMMA AskedOrFound ==
    ASSUME Types, Versioned, NEW c \in Calls, Find(c) \/ Ask(c)
    PROVE  call' = call \/ \E x \in CallState : call' = [call EXCEPT ![c] = x] /\ x.at # "note"
<1>1. PICK x \in CallState : call' = [call EXCEPT ![c] = x]
  BY OtherCallStep DEF OtherCall
<1>2. call'[c] = x
  BY <1>1 DEF Types
<1>3. call' = call \/ call'[c].at \in {"idle", "commit", "find", "set"}
  <2>1. call \in [Calls -> CallState]
    BY DEF Types
  <2>2. CASE Find(c)
    BY <2>1, <2>2, NoCallFits, CallFields DEF Find, Answer
  <2>3. CASE Ask(c)
    BY <2>1, <2>3, CallFields DEF Ask, AskApply, AskRollback, AskFlag, Asks
  <2> QED BY <2>2, <2>3
<1> QED BY <1>1, <1>2, <1>3

LEMMA NumberedStep == ASSUME Types, Versioned, Numbered, [Next]_vars PROVE Numbered'
<1>0. /\ arrived \in Nat /\ arrived <= MaxArrivals /\ version \in Nat
      /\ IsFiniteSet(Deciding) /\ version + Cardinality(Deciding) <= arrived + 1
      /\ Cardinality(Deciding) \in Nat /\ MaxArrivals \in Nat
  BY FS_CardinalityType, GatewayAdminAssumption DEF Types, Numbered
<1>s. ASSUME call' = call, version' = version, arrived' = arrived \/ Arrives PROVE Numbered'
  <2>1. Deciding' = Deciding
    BY <1>s DEF Deciding
  <2> HIDE DEF Deciding
  <2> QED BY <1>0, <1>s, <2>1 DEF Numbered, Arrives
<1>d. ASSUME NEW c \in Calls, NEW x \in CallState, call' = [call EXCEPT ![c] = x],
             \/ version' = version /\ arrived' = arrived
                  /\ (x.at \in {"commit", "find"} => c \in Deciding)
             \/ version' = version /\ Arrives
             \/ version' = version + 1 /\ arrived' = arrived /\ c \in Deciding
                  /\ x.at \notin {"commit", "find"}
      PROVE  Numbered'
  <2>1. /\ IsFiniteSet(Deciding') /\ Cardinality(Deciding') \in Nat
        /\ Cardinality(Deciding') <= Cardinality(Deciding) + 1
        /\ x.at \notin {"commit", "find"} => Cardinality(Deciding') <= Cardinality(Deciding)
        /\ x.at \notin {"commit", "find"} /\ c \in Deciding
              => Cardinality(Deciding') = Cardinality(Deciding) - 1
        /\ c \in Deciding => Cardinality(Deciding') <= Cardinality(Deciding)
    BY <1>d, DecidingChanges
  <2> DEFINE k == Cardinality(Deciding)
             m == Cardinality(Deciding')
  <2>2. \/ version' = version /\ arrived' = arrived /\ m <= k
        \/ version' = version /\ arrived < MaxArrivals /\ arrived' = arrived + 1 /\ m <= k + 1
        \/ version' = version + 1 /\ arrived' = arrived /\ m = k - 1
    BY <1>d, <2>1 DEF Arrives
  <2>3. k \in Nat /\ m \in Nat /\ version + k <= arrived + 1 /\ IsFiniteSet(Deciding')
    BY <1>0, <2>1
  <2> HIDE DEF k, m
  <2>4. version' + m <= arrived' + 1 /\ arrived' \in Nat /\ arrived' <= MaxArrivals
    BY <1>0, <2>2, <2>3
  <2> QED BY <2>3, <2>4 DEF Numbered, m
<1>1. ASSUME NEW c \in Calls, Commit(c) PROVE Numbered'
  <2>1. \E x \in CallState : call' = [call EXCEPT ![c] = x] /\ x.at \notin {"commit", "find"}
    BY <1>1, CommitDone
  <2>2. version' = version + 1 /\ arrived' = arrived /\ c \in Deciding
    BY <1>1 DEF Commit, NextVersion, Deciding
  <2> QED BY <1>d, <2>1, <2>2
<1>2. ASSUME NEW c \in Calls, OtherCall(c) PROVE Numbered'
  <2>1. version' = version /\ \E x \in CallState : call' = [call EXCEPT ![c] = x]
    BY <1>2, OtherCallStep DEF versionVars
  <2>2. CASE Find(c)
    BY <1>d, <2>1, <2>2 DEF Find, Deciding
  <2>3. CASE Note(c) \/ SetFeatureFlag(c)
    <3>1. arrived' = arrived /\ Tells(c)
      BY <2>3 DEF Note, SetFeatureFlag
    <3>2. PICK x \in CallState : call' = [call EXCEPT ![c] = x] /\ x.at = "publish"
      BY <3>1, TellsOfIt
    <3> QED BY <1>d, <2>1, <3>1, <3>2
  <2>4. CASE Ask(c)
    <3>1. Arrives
      BY <2>4, Zenon DEF Ask, AskApply, AskRollback, AskFlag, Authorize
    <3> QED BY <1>d, <2>1, <3>1
  <2> QED BY <1>2, <2>2, <2>3, <2>4 DEF OtherCall
<1>3. ASSUME NEW r \in Requests, Route(r) \/ AddDecision(r) \/ \E k \in Kinds : Arrive(r, k)
      PROVE  Numbered'
  BY <1>s, <1>3 DEF Route, AddDecision, Arrive, managerVars
<1>4. ASSUME NEW p \in Publishers, Tell(p) PROVE Numbered'
  <2>1. version' = version /\ arrived' = arrived
    BY <1>4 DEF Tell, Publish, Published, Offer, OfferFrame, managerVars
  <2>2. call' = call \/ (p \in Calls /\ call' = [call EXCEPT ![p] = NoCall])
    BY <1>4, TellStep
  <2> QED BY <1>d, <1>s, <2>1, <2>2, NoCallFits
<1>5. ASSUME NEW s \in Clients, ClientStep(s) PROVE Numbered'
  BY <1>s, <1>5 DEF ClientStep, Unsubscribe, UnsubscribeFrame, Subscribe, Receive, Leave, managerVars
<1>6. CASE RunStep
  BY <1>s, <1>6 DEF RunStep, Stop, Shutdown, Signal, ListenerFails, RunFrame, managerVars
<1>7. CASE UNCHANGED vars
  BY <1>s, <1>7 DEF vars, managerVars
<1> QED BY <1>1, <1>2, <1>3, <1>4, <1>5, <1>6, <1>7, StepCases

LEMMA NotedStep == ASSUME Types, Versioned, Numbered, Noted, [Next]_vars PROVE Noted'
<1>0. /\ flag \in BOOLEAN /\ audit \in Seq(AuditEntry) /\ Len(audit) <= AuditLimit
      /\ \A c \in Calls : call[c].at = "note" => call[c].under \in Versions
      /\ call \in [Calls -> CallState]
  BY DEF Noted, Types
<1>v. version \in Versions /\ 1 \in Versions
  <2>1. version \in 1..version /\ 1 \in 1..version
    BY DEF Types, Versioned
  <2> QED BY <2>1, VersionWithin
<1>s. ASSUME UNCHANGED <<audit, flag>>,
             call' = call \/ \E c \in Calls, x \in CallState :
                                call' = [call EXCEPT ![c] = x] /\ x.at # "note"
      PROVE  Noted'
  <2>1. \A c \in Calls : call'[c].at = "note" => call'[c].under \in Versions
    BY <1>0, <1>s
  <2> QED BY <1>0, <1>s, <2>1 DEF Noted
<1>a. ASSUME NEW what \in {"startup", "apply", "rollback", "flag"}, NEW v \in Versions,
             AppendAudit(what, v)
      PROVE  audit' \in Seq(AuditEntry) /\ Len(audit') <= AuditLimit
  <2> DEFINE e == [what |-> what, version |-> v]
  <2>1. e \in AuditEntry
    BY DEF AuditEntry
  <2>2. audit' = Newest(Append(audit, e), AuditLimit)
    BY <1>a DEF AppendAudit
  <2> HIDE DEF e
  <2>3. Append(audit, e) \in Seq(AuditEntry) /\ AuditLimit \in Nat
    BY <1>0, <2>1, Appended, GatewayAdminAssumption
  <2> DEFINE s == Append(audit, e)
  <2>4. s \in Seq(AuditEntry) /\ Len(s) \in Nat
    BY <2>3, LenProperties
  <2> HIDE DEF s
  <2>5. /\ Newest(s, AuditLimit) \in Seq(AuditEntry)
        /\ Len(Newest(s, AuditLimit)) = IF Len(s) > AuditLimit THEN AuditLimit ELSE Len(s)
    BY <2>3, <2>4, NewestProperties
  <2>6. audit' = Newest(s, AuditLimit)
    BY <2>2 DEF s
  <2> QED BY <2>3, <2>4, <2>5, <2>6
<1>t. ASSUME NEW c \in Calls, Tells(c)
      PROVE  \E x \in CallState : call' = [call EXCEPT ![c] = x] /\ x.at # "note"
  BY <1>t, TellsOfIt
<1>1. ASSUME NEW c \in Calls, Commit(c) PROVE Noted'
  <2>1. version + 1 \in Versions
    <3>1. c \in Deciding
      BY <1>1 DEF Commit, Deciding
    <3>2. Cardinality(Deciding) # 0 /\ Cardinality(Deciding) \in Nat
      BY <3>1, FS_EmptySet, FS_CardinalityType DEF Numbered
    <3> HIDE DEF Deciding
    <3> QED BY <3>2, GatewayAdminAssumption DEF Numbered, Versions, Types, Versioned
  <2>2. AppendAudit("apply", version + 1) /\ flag' = Config[call[c].arg].flag
    BY <1>1 DEF Commit, NextVersion
  <2>3. call[c].arg \in Fit
    BY <1>1 DEF Commit, Versioned
  <2>4. flag' \in BOOLEAN
    BY <2>2, <2>3, FitProperties, ConfigAssumption
  <2>5. \A d \in Calls : call'[d].at = "note" => call'[d].under \in Versions
    <3>1. \/ call' = [call EXCEPT ![c] = CallAt("note", "none", Startup, 0, version + 1)]
          \/ Tells(c)
      BY <1>1 DEF Commit, NextVersion
    <3>2. CallAt("note", "none", Startup, 0, version + 1).under = version + 1
      BY DEF CallAt
    <3> QED BY <1>0, <1>t, <2>1, <3>1, <3>2
  <2>6. audit' \in Seq(AuditEntry) /\ Len(audit') <= AuditLimit
    BY <1>a, <2>1, <2>2
  <2> QED BY <2>4, <2>5, <2>6 DEF Noted
<1>2. ASSUME NEW c \in Calls, Find(c) \/ Ask(c) PROVE Noted'
  <2>1. UNCHANGED <<audit, flag>>
    BY <1>2, Zenon DEF Find, Ask, AskApply, AskRollback, AskFlag, Authorize, managerVars
  <2>2. call' = call \/ \E x \in CallState : call' = [call EXCEPT ![c] = x] /\ x.at # "note"
    BY <1>2, AskedOrFound
  <2> QED BY <1>s, <2>1, <2>2
<1>3. ASSUME NEW c \in Calls, Note(c) PROVE Noted'
  <2>1. AppendAudit("rollback", call[c].under) /\ call[c].under \in Versions /\ flag' = flag /\ Tells(c)
    BY <1>0, <1>3 DEF Note
  <2>2. audit' \in Seq(AuditEntry) /\ Len(audit') <= AuditLimit
    BY <1>a, <2>1
  <2>3. \A d \in Calls : call'[d].at = "note" => call'[d].under \in Versions
    BY <1>0, <1>t, <2>1
  <2> QED BY <1>0, <2>1, <2>2, <2>3 DEF Noted
<1>4. ASSUME NEW c \in Calls, SetFeatureFlag(c) PROVE Noted'
  <2>1. AppendAudit("flag", version) /\ flag' \in BOOLEAN /\ Tells(c)
    BY <1>4 DEF SetFeatureFlag
  <2>2. audit' \in Seq(AuditEntry) /\ Len(audit') <= AuditLimit
    BY <1>a, <1>v, <2>1
  <2>3. \A d \in Calls : call'[d].at = "note" => call'[d].under \in Versions
    BY <1>0, <1>t, <2>1
  <2> QED BY <2>1, <2>2, <2>3 DEF Noted
<1>5. ASSUME NEW r \in Requests, Route(r) \/ AddDecision(r) \/ \E k \in Kinds : Arrive(r, k)
      PROVE  Noted'
  BY <1>s, <1>5 DEF Route, AddDecision, Arrive, managerVars
<1>6. ASSUME NEW p \in Publishers, Tell(p) PROVE Noted'
  <2>1. /\ UNCHANGED <<audit, flag>>
        /\ call' = call \/ (p \in Calls /\ call' = [call EXCEPT ![p] = NoCall])
    BY <1>6, TellStep DEF managerVars
  <2> QED BY <1>s, <2>1, NoCallFits
<1>7. ASSUME NEW s \in Clients, ClientStep(s) PROVE Noted'
  BY <1>s, <1>7, ClientFrame DEF managerVars
<1>8. CASE RunStep
  BY <1>s, <1>8, RunSteps DEF managerVars
<1>9. CASE UNCHANGED vars
  BY <1>s, <1>9 DEF vars, managerVars
<1> QED BY <1>1, <1>2, <1>3, <1>4, <1>5, <1>6, <1>7, <1>8, <1>9, StepCases DEF OtherCall

LEMMA LimitedStep == ASSUME Types, Limited, [Next]_vars PROVE Limited'
<1>0. /\ channel \in [Clients -> 0..Buffer] /\ DOMAIN sending \subseteq Publishers
      /\ run.listening \in Nat /\ run.errs \in Nat /\ run.listening + run.errs <= Listeners
      /\ Buffer \in Nat /\ Listeners \in Nat
  BY GatewayAdminAssumption DEF Limited
<1>s. ASSUME UNCHANGED run, channel' \in [Clients -> 0..Buffer], DOMAIN sending' \subseteq Publishers
      PROVE  Limited'
  BY <1>0, <1>s DEF Limited
<1>1. ASSUME NEW c \in Calls, Commit(c) \/ OtherCall(c) PROVE Limited'
  <2>1. UNCHANGED <<hubVars, run>>
    BY <1>1, Zenon DEF Commit, OtherCall, Find, Note, SetFeatureFlag, Ask, AskApply, AskRollback, AskFlag,
                Authorize
  <2> QED BY <1>0, <1>s, <2>1 DEF hubVars
<1>2. ASSUME NEW r \in Requests, Route(r) \/ AddDecision(r) \/ \E k \in Kinds : Arrive(r, k)
      PROVE  Limited'
  BY <1>0, <1>s, <1>2 DEF Route, AddDecision, Arrive, hubVars
<1>3. ASSUME NEW p \in Publishers, Tell(p) PROVE Limited'
  <2>1. UNCHANGED run
    BY <1>3, TellStep
  <2>2. CASE Publish(p) \/ Published(p)
    <3>1. channel' = channel
      BY <2>2 DEF Publish, Published
    <3>2. DOMAIN sending' \subseteq DOMAIN sending \cup {p}
      BY <2>2 DEF Publish, Published
    <3> QED BY <1>0, <1>s, <2>1, <3>1, <3>2
  <2>3. ASSUME NEW s \in Clients, Offer(p, s) PROVE Limited'
    <3>1. DOMAIN sending' = DOMAIN sending
      BY <2>3 DEF Offer, OfferFrame
    <3>2. channel[s] \in 0..Buffer /\ (channel[s] < Buffer => channel[s] + 1 \in 0..Buffer)
      BY <1>0
    <3>3. channel' \in [Clients -> 0..Buffer]
      BY <1>0, <2>3, <3>2 DEF Offer
    <3> QED BY <1>0, <1>s, <2>1, <3>1, <3>3
  <2> QED BY <1>3, <2>2, <2>3 DEF Tell
<1>4. ASSUME NEW s \in Clients, ClientStep(s) PROVE Limited'
  <2>1. UNCHANGED <<run, sending>>
    BY <1>4 DEF ClientStep, Unsubscribe, UnsubscribeFrame, Subscribe, Receive, Leave
  <2>2. \/ channel' = channel
        \/ channel' = [channel EXCEPT ![s] = 0]
        \/ channel[s] > 0 /\ channel' = [channel EXCEPT ![s] = @ - 1]
    BY <1>4 DEF ClientStep, Unsubscribe, Subscribe, Receive, Leave
  <2>3. 0 \in 0..Buffer /\ (channel[s] > 0 => channel[s] - 1 \in 0..Buffer)
    BY <1>0
  <2>4. channel' \in [Clients -> 0..Buffer]
    BY <1>0, <2>2, <2>3
  <2> QED BY <1>0, <1>s, <2>1, <2>4
<1>5. CASE RunStep
  <2>1. UNCHANGED hubVars
    BY <1>5, RunSteps
  <2>2. ASSUME NEW at, NEW signal, NEW n \in Nat, NEW m \in Nat, NEW b, n + m <= Listeners,
               run' = RunAt(at, signal, n, m, b)
        PROVE  Limited'
    BY <1>0, <2>1, <2>2 DEF Limited, RunAt, hubVars
  <2>3. CASE Signal
    BY <1>0, <2>2, <2>3 DEF Signal
  <2>4. CASE ListenerFails
    BY <1>0, <2>2, <2>4 DEF ListenerFails
  <2>5. CASE Stop
    <3>1. CASE run' = RunAt("stopping", run.signal, run.listening, run.errs, run.err)
      BY <1>0, <2>2, <3>1
    <3>2. CASE run.errs > 0 /\ run' = RunAt("stopping", run.signal, run.listening, run.errs - 1, TRUE)
      <4>1. run.errs - 1 \in Nat /\ run.listening + (run.errs - 1) <= Listeners
        BY <1>0, <3>2
      <4> QED BY <1>0, <2>2, <3>2, <4>1
    <3> QED BY <2>5, <3>1, <3>2 DEF Stop
  <2>6. CASE Shutdown
    BY <1>0, <2>2, <2>6 DEF Shutdown
  <2> QED BY <1>5, <2>3, <2>4, <2>5, <2>6 DEF RunStep
<1>6. CASE UNCHANGED vars
  BY <1>0, <1>s, <1>6 DEF vars, hubVars
<1> QED BY <1>1, <1>2, <1>3, <1>4, <1>5, <1>6, StepCases

LEMMA LimitsInit == Init => Limits
<1> SUFFICES ASSUME Init PROVE Limits
  OBVIOUS
<1>1. Deciding = {}
  BY NoCallFits DEF Init, Deciding
<1>2. Numbered
  BY <1>1, FS_EmptySet, GatewayAdminAssumption DEF Init, InitManager, Numbered
<1>3. Noted
  <2> DEFINE e == [what |-> "startup", version |-> 1]
  <2>1. e \in AuditEntry
    BY GatewayAdminAssumption DEF AuditEntry, Versions
  <2>2. audit = <<e>> /\ flag = Config[Startup].flag /\ call = [c \in Calls |-> NoCall]
    BY DEF Init, InitManager
  <2> HIDE DEF e
  <2>3. audit \in Seq(AuditEntry) /\ Len(audit) = 1
    BY <2>1, <2>2, Singleton
  <2>4. flag \in BOOLEAN
    BY <2>2, NoCallFits, ConfigAssumption
  <2> QED BY <2>2, <2>3, <2>4, NoCallFits, GatewayAdminAssumption DEF Noted
<1>4. Limited
  BY GatewayAdminAssumption DEF Init, Limited, RunAt
<1> QED BY <1>2, <1>3, <1>4 DEF Limits

(* Type correctness.  The audit trail and the events buffered keep to      *)
(* their limits, and no admin call makes more than one version.            *)
THEOREM TypeCorrect == Spec => []TypeOK
<1>1. AdminInv /\ Limits /\ [Next]_vars => Limits'
  BY NumberedStep, NotedStep, LimitedStep DEF AdminInv, Limits
<1>2. AdminInv /\ Limits => TypeOK
  <2> SUFFICES ASSUME AdminInv, Limits PROVE TypeOK
    OBVIOUS
  <2>0. Types /\ Versioned /\ Channels /\ Numbered /\ Noted /\ Limited
    BY DEF AdminInv, Limits
  <2>1. 1..version \subseteq Versions
    BY <2>0, VersionWithin
  <2>2. version \in 1..version /\ version \in Nat
    BY <2>0 DEF Types, Versioned
  <2>3. ToSet(snapshots) \subseteq [version : Versions, text : Texts]
    <3> SUFFICES ASSUME NEW x \in ToSet(snapshots) PROVE x \in [version : Versions, text : Texts]
      OBVIOUS
    <3>1. snapshots \in Seq(Snapshot) /\ DOMAIN snapshots = 1..Len(snapshots) /\ Len(snapshots) \in Nat
      BY <2>0, LenProperties DEF Types
    <3>2. PICK i \in 1..Len(snapshots) : x = snapshots[i]
      BY <3>1 DEF ToSet
    <3>3. x \in Snapshot /\ x.version = version - Len(snapshots) + i /\ Len(snapshots) <= version
      BY <2>0, <3>1, <3>2 DEF Versioned
    <3>4. x.version \in 1..version
      BY <2>2, <3>1, <3>3
    <3> QED BY <2>1, <3>3, <3>4 DEF Snapshot
  <2>4. ToSet(audit) \subseteq AuditEntry
    <3>1. audit \in Seq(AuditEntry) /\ DOMAIN audit = 1..Len(audit)
      BY <2>0, LenProperties DEF Noted
    <3> QED BY <3>1 DEF ToSet
  <2>5. run.listening \in 0..Listeners /\ run.errs \in 0..Listeners
    BY <2>0, GatewayAdminAssumption DEF Limited
  <2> QED BY <2>0, <2>1, <2>2, <2>3, <2>4, <2>5 DEF TypeOK, Types, Channels, Noted, Limited, AuditEntry
<1> QED BY <1>1, <1>2, AdminInvariant, LimitsInit, PTL DEF Spec
=============================================================================

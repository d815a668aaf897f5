--------------------------- MODULE MCGatewayAdmin ---------------------------
(* GatewayAdmin with nine configurations: two in use that differ in routes, *)
(* policies, read_only and the snapshots they keep, and seven that are     *)
(* refused, each at another check.                                         *)
EXTENDS GatewayAdmin

Conf(policies, routes) ==
    [backends |-> <<"a", "b">>, urls |-> TRUE, disabled |-> {},
     defaults |-> <<>>, fallback |-> <<"a">>, strategy |-> "",
     routes |-> routes, policies |-> policies, keep |-> 2, log |-> 1,
     readOnly |-> FALSE, flag |-> FALSE, addresses |-> "here"]

Rule(min, max, words, conditions, priority) ==
    [paths |-> {"chat"}, min |-> min, max |-> max, words |-> words, conditions |-> conditions,
     priority |-> priority, backends |-> <<"b">>, fallback |-> <<"a">>, strategy |-> "",
     classifier |-> IF priority = 1 THEN "a" ELSE "",
     labels |-> [l \in {"code", "default"} |-> IF l = "code" THEN <<"a">> ELSE <<>>]]

Key == [type |-> "header_required", header |-> "key", enabled |-> TRUE]

Plain == Conf({}, <<Rule(0, 4, {}, {[field |-> "model", op |-> "eq", value |-> "m"]}, 1),
                    Rule(2, 0, {"sum"}, {[field |-> "tokens", op |-> "lte", value |-> 8]}, 2)>>)
Strict == [Conf({Key}, <<>>) EXCEPT !.readOnly = TRUE, !.keep = 3, !.flag = TRUE]

MCTexts == {"plain", "strict", "lone", "ghost", "policy", "moved", "off", "asker", "short"}
MCConfig ==
    [t \in MCTexts |->
        CASE t = "plain" -> Plain
          [] t = "strict" -> Strict
          [] t = "lone" -> [Plain EXCEPT !.keep = 1]
          [] t = "ghost" -> [Plain EXCEPT !.defaults = <<"z">>]
          [] t = "policy" -> [Plain EXCEPT !.policies = {[Key EXCEPT !.type = "other"]}]
          [] t = "off" -> [Plain EXCEPT !.disabled = {"a", "b"}]
          [] t = "asker" -> [Plain EXCEPT !.routes[1].classifier = "z"]
          [] t = "short" -> [Plain EXCEPT !.log = 0]
          [] t = "moved" -> [Plain EXCEPT !.addresses = "there"]]
MCKinds ==
    {[path |-> "chat", model |-> "m", tokens |-> 4, words |-> {"sum"}, headers |-> {}],
     [path |-> "chat", model |-> "", tokens |-> 9, words |-> {"sum"}, headers |-> {"key"}]}
=============================================================================

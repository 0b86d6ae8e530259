----------------------------- MODULE MCRouting -----------------------------
(* Bounds for TLC: see the README for why they are enough. *)
EXTENDS Routing

Group1(n, k, m) == [name |-> n, kind |-> k, members |-> m, default |-> ""]

One(n) == Group1(n, "proxy", << >>)

Rule(form, on, may, t) == [form |-> form, on |-> on, may |-> may, target |-> t]

Setup(m, p, r, a, asks, changes, outages) ==
  [mode |-> m, proxies |-> p, rules |-> r, dynamic |-> FALSE, added |-> a,
   asks |-> asks, changes |-> changes, outages |-> outages]

AB == << One("a"), One("b") >>

To(t) == Rule("ok", Hosts, {}, t)

RulesOnly ==
  Setup("rule", AB, << Rule("short", {}, {}, "a"), Rule("ok", {"x"}, {"y"}, "a"), Rule("ok", {"y"}, {}, "REJECT") >>,
        {Rule("ok", {"x"}, {}, "b"), Rule("range", {}, {}, "b"), Rule("regex", {}, {}, "b")}, 2, 2, 0)

SmallSetups ==
  {RulesOnly,
   Setup("global", AB, << >>, {}, 2, 2, 0),
   Setup("direct", AB, << To("a") >>, {}, 1, 0, 0),
   [RulesOnly EXCEPT !.dynamic = TRUE],
   [RulesOnly EXCEPT !.rules = << Rule("regex", {}, {}, "a") >>],
   Setup("rule", AB \o << Group1("g", "failover", << "a", "b" >>) >>, << To("g") >>, {}, 2, 1, 2),
   Setup("rule", AB \o << Group1("g", "round-robin", << "a", "b" >>) >>, << To("g") >>, {}, 4, 1, 0),
   Setup("rule", AB \o << Group1("g", "load-balance", << "a", "REJECT" >>) >>, << To("g") >>, {}, 2, 1, 1),
   Setup("rule", AB \o << [Group1("g", "selector", << "a" >>) EXCEPT !.default = "b"] >>, << To("g") >>, {}, 2, 2, 0),
   Setup("rule", AB \o << Group1("g", "urltest", << "a", "b", "DIRECT" >>) >>, << >>, {}, 0, 0, 0),
   Setup("rule", AB \o << Group1("g", "urltest", << "a", "b" >>) >>, << To("g") >>, {}, 1, 1, 1),
   Setup("rule", AB \o << Group1("g", "chain", << "a", "b" >>) >>, << To("g") >>, {}, 2, 1, 1),
   Setup("rule", AB \o << Group1("g", "chain", << "a", "h" >>), Group1("h", "selector", << "b" >>) >>, << To("g") >>, {}, 1, 0, 0),
   Setup("rule", AB \o << Group1("h", "selector", << "b" >>), Group1("g", "chain", << "h", "a" >>) >>, << To("g") >>, {}, 1, 1, 0),
   Setup("rule", AB \o << Group1("h", "round-robin", << "a", "DIRECT" >>), Group1("g", "failover", << "h", "b" >>) >>, << To("g") >>, {}, 2, 1, 1),
   Setup("rule", AB \o << Group1("g", "failover", << "a", "h" >>), Group1("h", "failover", << "g", "b" >>) >>, << To("g") >>, {}, 1, 0, 0)}
=============================================================================

----------------------------- MODULE NodeRules ------------------------------
(***************************************************************************)
(* The rule tables of a node: admissions, bypasses, host mappings, ingress *)
(* rules, routes, users and the nodes of a hop.  A table is made from rules*)
(* in the configuration and rules loaded from a file, from redis and over  *)
(* HTTP; this module says what each kind makes of them and how it answers. *)
(*                                                                         *)
(* A rule has a key and a value.  The key stands for a pattern, a host     *)
(* name, a destination or a user; a host name is a sequence of labels with *)
(* a flag for a leading dot.                                               *)
(***************************************************************************)
EXTENDS Naturals, Sequences, FiniteSets, SequencesExt

Plain(labels) == [dot |-> FALSE, labels |-> labels]
Dotted(labels) == [dot |-> TRUE, labels |-> labels]
RuleRecords == [key : [dot : BOOLEAN, labels : Seq(STRING)], val : STRING]
Keys(rules) == {rules[i].key : i \in DOMAIN rules}
Nothing == "none"

(* What the reload of each kind installs.  A pattern or a mapping counts   *)
(* wherever it comes from; of the ingress rules of a host, and of the      *)
(* entries of a user, the last one counts, a loaded one rather than one of *)
(* the configuration; routes and nodes keep their order.                   *)
ReloadAdmission(static, loaded) == Keys(static \o loaded)
ReloadBypass(static, loaded) == Keys(static \o loaded)

ReloadHosts(static, loaded) ==
    LET rules == static \o loaded IN
    [k \in Keys(rules) |-> {r.val : r \in {s \in ToSet(rules) : s.key = k}}]

LastOf(rules, k) ==
    rules[CHOOSE i \in DOMAIN rules :
            rules[i].key = k /\ \A j \in DOMAIN rules : rules[j].key = k => j <= i]
ReloadIngress(static, loaded) ==
    [k \in Keys(static \o loaded) |-> LastOf(static \o loaded, k).val]
ReloadAuther(static, loaded) ==
    [k \in Keys(static \o loaded) |-> LastOf(static \o loaded, k).val]

ReloadRouter(static, loaded) == static \o loaded
ReloadHop(static, loaded) == static \o loaded

Reload(kind, static, loaded) ==
    CASE kind = "admission" -> ReloadAdmission(static, loaded)
      [] kind = "bypass" -> ReloadBypass(static, loaded)
      [] kind = "hosts" -> ReloadHosts(static, loaded)
      [] kind = "ingress" -> ReloadIngress(static, loaded)
      [] kind = "auther" -> ReloadAuther(static, loaded)
      [] kind = "router" -> ReloadRouter(static, loaded)
      [] kind = "hop" -> ReloadHop(static, loaded)

-----------------------------------------------------------------------------

(* Mutant: the parents from the top-level domain down.                     *)
Candidates_FromTop(host) ==
    <<Plain(host), Dotted(host)>>
        \o Reverse([i \in 1..(Len(host) - 1) |-> Dotted(SubSeq(host, i + 1, Len(host)))])

(* The names under which a host is looked up, in order: itself, with a dot *)
(* in front, and its parent domains with a dot in front.                   *)
Candidates(host) ==
    <<Plain(host), Dotted(host)>>
        \o [i \in 1..(Len(host) - 1) |-> Dotted(SubSeq(host, i + 1, Len(host)))]

First(table, names) ==
    LET known == {i \in DOMAIN names : names[i] \in DOMAIN table} IN
    IF known = {} THEN Nothing
    ELSE table[names[CHOOSE i \in known : \A j \in known : i <= j]]

(* hostMapper.Lookup and localIngress.GetRule.                             *)
HostLookup(table, host) == First(table, Candidates(host))
IngressRule(table, host) == First(table, Candidates(host))

(* addrMatcher: a pattern may limit the port; one that does not fit does   *)
(* not end the search.                                                     *)
AddrMatch(table, host, port) ==
    \E i \in DOMAIN Candidates(host) :
        LET c == Candidates(host)[i] IN c \in DOMAIN table /\ port \in table[c]

(* localAdmission.Admit, localBypass.Contains, authenticator.Authenticate  *)
(* and localRouter.GetRoute.                                               *)
Admit(table, whitelist, key) == (key \in table) = whitelist
Bypassed(table, whitelist, key) == (key \in table) # whitelist
Authenticate(table, user, password) ==
    user \in DOMAIN table /\ table[user] \in {"", password}
GetRoute(table, dst) ==
    LET fitting == {i \in DOMAIN table : table[i].key = dst} IN
    IF fitting = {} THEN Nothing
    ELSE table[CHOOSE i \in fitting : \A j \in fitting : i <= j].val

(* A group of bypasses applies when all its whitelists do, if it has any,  *)
(* or one of its blacklists does.                                          *)
GroupBypassed(results) ==
    LET white == {r.applies : r \in {q \in ToSet(results) : q.whitelist}}
        black == {r.applies : r \in {q \in ToSet(results) : ~q.whitelist}}
    IN white = {TRUE} \/ TRUE \in black

-----------------------------------------------------------------------------
(* The reference for look-ups: a rule covers a host when it is the host,   *)
(* or has a dot and is a suffix of it; the most specific rule counts.      *)
IsTail(s, t) == \E k \in 0..Len(t) : s = SubSeq(t, k + 1, Len(t))
Covers(key, host) == IF key.dot THEN IsTail(key.labels, host) ELSE key.labels = host
MoreSpecific(a, b) ==
    \/ Len(a.labels) > Len(b.labels)
    \/ Len(a.labels) = Len(b.labels) /\ ~a.dot
MostSpecific(table, host) ==
    LET covering == {k \in DOMAIN table : k.labels # <<>> /\ Covers(k, host)} IN
    IF covering = {} THEN Nothing
    ELSE table[CHOOSE k \in covering : \A l \in covering : l = k \/ MoreSpecific(k, l)]
=============================================================================

--------------------------- MODULE ContentProofs ---------------------------
(***************************************************************************)
(* What the two files of a publish hold: the updates of nginx.conf, for    *)
(* every tree, and the checks of the rules, for every rule.                *)
(***************************************************************************)
EXTENDS NginxConf, RuleSchema, WellFoundedInduction, TLAPS

(***************************************************************************)
(* find                                                                    *)
(***************************************************************************)

\* A non-empty set of indices has a least one.
LEMMA LeastIndex ==
  ASSUME NEW S \in SUBSET Nat, S # {}
  PROVE  \E i \in S : \A j \in S : i <= j
<1> DEFINE R == {ss \in Nat \X Nat : ss[1] < ss[2]}
<1>1. IsWellFoundedOn(R, Nat)
  BY NatLessThanWellFounded DEF OpToRel
<1>2. \A i, j \in Nat : j < i => <<j, i>> \in R
  OBVIOUS
<1> HIDE DEF R
<1>3. PICK i \in S : \A j \in S : ~(<<j, i>> \in R)
  BY <1>1, WFMin, Zenon
<1>4. \A j \in S : i \in Nat /\ j \in Nat /\ ~(j < i)
  BY <1>2, <1>3
<1>5. \A j \in S : i <= j
  BY <1>4
<1> QED BY <1>5

\* find returns an index of the block that holds the name, and the least one.
LEMMA FirstIsFirst ==
  ASSUME NEW block \in Seq(Directive), NEW name, Has(block, name)
  PROVE  /\ First(block, name) \in DOMAIN block
         /\ block[First(block, name)].directive = name
         /\ \A j \in 1..(First(block, name) - 1) : block[j].directive # name
<1> DEFINE S == {i \in DOMAIN block : block[i].directive = name}
<1>1. DOMAIN block = 1..Len(block) /\ Len(block) \in Nat
  OBVIOUS
<1>2. S \in SUBSET Nat /\ S # {}
  BY <1>1 DEF Has
<1>3. PICK i \in S : \A j \in S : i <= j
  BY <1>2, LeastIndex
<1>4. \A j \in 1..(i - 1) : block[j].directive # name
  BY <1>1, <1>3
<1> QED BY <1>3, <1>4 DEF First

\* Two blocks with the same names at the same places are searched alike.
LEMMA FirstOfSameNames ==
  ASSUME NEW b \in Seq(Directive), NEW c \in Seq(Directive), NEW name,
         DOMAIN b = DOMAIN c, \A i \in DOMAIN b : b[i].directive = c[i].directive
  PROVE  Has(b, name) = Has(c, name) /\ First(b, name) = First(c, name)
<1>1. DOMAIN b = 1..Len(b) /\ Len(b) \in Nat
  OBVIOUS
<1>2. Has(b, name) = Has(c, name)
  BY DEF Has
<1>3. \A i \in DOMAIN b :
        (b[i].directive = name /\ \A j \in 1..(i - 1) : b[j].directive # name)
        <=> (c[i].directive = name /\ \A j \in 1..(i - 1) : c[j].directive # name)
  BY <1>1
<1> QED BY <1>2, <1>3 DEF First

(***************************************************************************)
(* setDirective                                                            *)
(***************************************************************************)

LEMMA SetIsBlock ==
  ASSUME NEW b \in Seq(Directive), NEW d \in Directives, NEW a \in Args
  PROVE  setDirective(b, d, a) \in Seq(Directive)
<1>1. [directive |-> d, arg |-> a] \in Directive
  BY DEF Directive
<1>2. CASE Has(b, d)
  BY <1>1, <1>2, FirstIsFirst DEF setDirective
<1>3. CASE ~Has(b, d)
  BY <1>1, <1>3 DEF setDirective
<1> QED BY <1>2, <1>3

\* What setDirective wrote is what getDirectiveValue returns: both take the first
\* directive of the name, also where nginx.conf has several.
THEOREM SetThenGet ==
  ASSUME NEW b \in Seq(Directive), NEW d \in Directives, NEW a \in Args
  PROVE  getDirectiveValue(setDirective(b, d, a), d) = a
<1> DEFINE c == setDirective(b, d, a)
<1>1. c \in Seq(Directive)
  BY SetIsBlock
<1>2. CASE Has(b, d)
  <2>1. c = [b EXCEPT ![First(b, d)] = [directive |-> d, arg |-> a]]
    BY <1>2 DEF setDirective
  <2>2. First(b, d) \in DOMAIN b /\ b[First(b, d)].directive = d
    BY <1>2, FirstIsFirst
  <2>3. DOMAIN b = DOMAIN c /\ \A i \in DOMAIN b : b[i].directive = c[i].directive
    BY <2>1, <2>2
  <2>4. Has(c, d) /\ First(c, d) = First(b, d)
    BY <1>1, <1>2, <2>3, FirstOfSameNames
  <2>5. c[First(b, d)].arg = a
    BY <2>1, <2>2
  <2> QED BY <2>4, <2>5 DEF getDirectiveValue
<1>3. CASE ~Has(b, d)
  <2>1. c = Append(b, [directive |-> d, arg |-> a])
    BY <1>3 DEF setDirective
  <2>2. Has(c, d)
    BY <2>1 DEF Has
  <2>3. First(c, d) = Len(b) + 1
    <3> HIDE DEF c
    <3>0. First(c, d) \in DOMAIN c /\ c[First(c, d)].directive = d
      BY <1>1, <2>2, FirstIsFirst
    <3>1. First(c, d) \in 1..Len(b) + 1 /\ c[First(c, d)].directive = d
      BY <2>1, <3>0
    <3>2. \A i \in 1..Len(b) : c[i] = b[i] /\ b[i].directive # d
      BY <1>3, <2>1 DEF Has
    <3> QED BY <3>1, <3>2
  <2> QED BY <2>1, <2>2, <2>3 DEF getDirectiveValue
<1> QED BY <1>2, <1>3

\* No other directive of the block changes.
THEOREM SetKeepsOthers ==
  ASSUME NEW b \in Seq(Directive), NEW d \in Directives, NEW a \in Args,
         NEW e \in Directives, e # d
  PROVE  getDirectiveValue(setDirective(b, d, a), e) = getDirectiveValue(b, e)
<1> DEFINE c == setDirective(b, d, a)
<1>1. c \in Seq(Directive)
  BY SetIsBlock
<1>2. CASE Has(b, d)
  <2>1. c = [b EXCEPT ![First(b, d)] = [directive |-> d, arg |-> a]]
    BY <1>2 DEF setDirective
  <2>2. First(b, d) \in DOMAIN b /\ b[First(b, d)].directive = d
    BY <1>2, FirstIsFirst
  <2>3. DOMAIN b = DOMAIN c /\ \A i \in DOMAIN b : b[i].directive = c[i].directive
    BY <2>1, <2>2
  <2>4. Has(c, e) = Has(b, e) /\ First(c, e) = First(b, e)
    BY <1>1, <2>3, FirstOfSameNames
  <2>5. ASSUME Has(b, e) PROVE c[First(b, e)] = b[First(b, e)]
    BY <2>1, <2>2, <2>5, FirstIsFirst
  <2> QED BY <2>4, <2>5 DEF getDirectiveValue
<1>3. CASE ~Has(b, d)
  <2>1. c = Append(b, [directive |-> d, arg |-> a])
    BY <1>3 DEF setDirective
  <2>2. \A i \in DOMAIN b : i \in DOMAIN c /\ c[i] = b[i]
    BY <2>1
  <2>3. DOMAIN c = DOMAIN b \cup {Len(b) + 1} /\ c[Len(b) + 1].directive = d
    BY <2>1
  <2>4. Has(c, e) = Has(b, e)
    BY <2>2, <2>3 DEF Has
  <2>5. ASSUME Has(b, e) PROVE First(c, e) = First(b, e)
    <3> DEFINE f == First(b, e)  g == First(c, e)
    <3>1. f \in DOMAIN b /\ b[f].directive = e /\ \A j \in 1..(f - 1) : b[j].directive # e
      BY <2>5, FirstIsFirst
    <3>2. g \in DOMAIN c /\ c[g].directive = e /\ \A j \in 1..(g - 1) : c[j].directive # e
      BY <1>1, <2>4, <2>5, FirstIsFirst
    <3>3. g \in DOMAIN b /\ b[g].directive = e
      BY <2>2, <2>3, <3>2
    <3>4. ~(g < f)
      BY <3>1, <3>3
    <3>5. ~(f < g)
      BY <2>2, <3>1, <3>2, <3>3
    <3> QED BY <3>1, <3>3, <3>4, <3>5
  <2>6. ASSUME Has(b, e) PROVE c[First(b, e)] = b[First(b, e)]
    BY <2>2, <2>6, FirstIsFirst
  <2> QED BY <2>4, <2>5, <2>6 DEF getDirectiveValue
<1> QED BY <1>2, <1>3

LEMMA SetIfPresent ==
  ASSUME NEW b \in Seq(Directive), NEW d \in Directives, NEW a \in Args \cup {None}
  PROVE  /\ setIfPresent(b, d, a) \in Seq(Directive)
         /\ getDirectiveValue(setIfPresent(b, d, a), d) = Or(a, getDirectiveValue(b, d))
         /\ \A e \in Directives \ {d} :
              getDirectiveValue(setIfPresent(b, d, a), e) = getDirectiveValue(b, e)
BY SetIsBlock, SetThenGet, SetKeepsOthers DEF setIfPresent, Or

(***************************************************************************)
(* Server blocks                                                           *)
(***************************************************************************)

LEMMA TargetIsFirst ==
  ASSUME NEW conf \in Conf, NEW name, Serves(conf, name)
  PROVE  /\ target(conf, name) \in DOMAIN conf.servers
         /\ name \in conf.servers[target(conf, name)].names
         /\ \A j \in 1..(target(conf, name) - 1) : name \notin conf.servers[j].names
<1> DEFINE S == {i \in DOMAIN conf.servers : name \in conf.servers[i].names}
<1>1. DOMAIN conf.servers = 1..Len(conf.servers) /\ Len(conf.servers) \in Nat
  BY DEF Conf
<1>2. S \in SUBSET Nat /\ S # {}
  BY <1>1 DEF Serves
<1>3. PICK i \in S : \A j \in S : i <= j
  BY <1>2, LeastIndex
<1>4. \A j \in 1..(i - 1) : name \notin conf.servers[j].names
  BY <1>1, <1>3
<1> QED BY <1>3, <1>4 DEF target

\* An update of the block of one name leaves the names where they are, and every
\* block but the first of that name as it is.
LEMMA PutKeeps ==
  ASSUME NEW conf \in Conf, NEW name, Serves(conf, name), NEW block \in Seq(Directive)
  PROVE  LET new == Put(conf, name, block)
         IN  /\ new \in Conf /\ new.block = conf.block
             /\ listServerNames(new) = listServerNames(conf)
             /\ \A m : Serves(conf, m) =>
                  /\ Serves(new, m) /\ target(new, m) = target(conf, m)
                  /\ blockOf(new, m) = IF target(conf, m) = target(conf, name) THEN block
                                       ELSE blockOf(conf, m)
<1> DEFINE new == Put(conf, name, block)
           t == target(conf, name)
<1>1. t \in DOMAIN conf.servers
  BY TargetIsFirst
<1> DEFINE put == [conf.servers[t] EXCEPT !.block = block]
<1>2. /\ new.block = conf.block
      /\ new.servers = [conf.servers EXCEPT ![t] = put]
      /\ new = [block |-> conf.block, servers |-> new.servers]
  <2> DEFINE servers == [conf.servers EXCEPT ![t].block = block]
  <2>1. new = [conf EXCEPT !.servers = servers]
    BY DEF Put
  <2>2. servers = [conf.servers EXCEPT ![t] = put]
    OBVIOUS
  <2> HIDE DEF servers, new, put
  <2>3. new.block = conf.block /\ new.servers = servers
        /\ new = [block |-> conf.block, servers |-> servers]
    BY <2>1 DEF Conf
  <2> QED BY <2>2, <2>3
<1> HIDE DEF new, t
<1>3. /\ conf.servers \in Seq(Server) /\ conf.block \in Seq(Directive)
      /\ conf.servers[t] \in Server
  <2>1. conf.servers \in Seq(Server) /\ conf.block \in Seq(Directive)
    BY DEF Conf
  <2> QED BY <1>1, <2>1
<1>4. put \in Server
  BY <1>3 DEF Server
<1> HIDE DEF put
<1>8. DOMAIN new.servers = DOMAIN conf.servers /\ new.servers \in Seq(Server)
  BY <1>1, <1>2, <1>3, <1>4
<1>9. new \in Conf
  BY <1>2, <1>3, <1>8 DEF Conf
<1>5. \A i \in DOMAIN conf.servers : new.servers[i].names = conf.servers[i].names
  BY <1>1, <1>2, <1>3 DEF put, Server
<1>6. listServerNames(new) = listServerNames(conf)
  BY <1>5, <1>8 DEF listServerNames
<1>7. ASSUME NEW m, Serves(conf, m)
      PROVE  /\ Serves(new, m) /\ target(new, m) = target(conf, m)
             /\ blockOf(new, m) = IF target(conf, m) = t THEN block ELSE blockOf(conf, m)
  <2>1. Serves(new, m)
    BY <1>5, <1>7, <1>8 DEF Serves
  <2>2. target(new, m) = target(conf, m)
    <3>1. DOMAIN conf.servers = 1..Len(conf.servers) /\ Len(conf.servers) \in Nat
      BY <1>1
    <3>2. \A i \in DOMAIN conf.servers :
            (m \in conf.servers[i].names /\ \A j \in 1..(i - 1) : m \notin conf.servers[j].names)
            <=> (m \in new.servers[i].names /\ \A j \in 1..(i - 1) : m \notin new.servers[j].names)
      BY <1>5, <3>1
    <3> QED BY <1>8, <3>2 DEF target
  <2>3. target(conf, m) \in DOMAIN conf.servers
    BY <1>7, TargetIsFirst
  <2>4. ASSUME target(conf, m) = t PROVE blockOf(new, m) = block
    <3>1. new.servers[t] = put
      BY <1>1, <1>2, <1>3
    <3>2. put.block = block
      BY <1>3 DEF put, Server
    <3> QED BY <2>2, <2>4, <3>1, <3>2 DEF blockOf
  <2>5. ASSUME target(conf, m) # t PROVE blockOf(new, m) = blockOf(conf, m)
    <3>1. new.servers[target(conf, m)] = conf.servers[target(conf, m)]
      BY <1>1, <1>2, <1>3, <2>3, <2>5
    <3> QED BY <2>2, <3>1 DEF blockOf
  <2> QED BY <2>1, <2>2, <2>4, <2>5
<1> QED BY <1>2, <1>6, <1>7, <1>9 DEF new, t

LEMMA BlockOfType ==
  ASSUME NEW conf \in Conf, NEW name, Serves(conf, name)
  PROVE  blockOf(conf, name) \in Seq(Directive)
<1>1. target(conf, name) \in DOMAIN conf.servers
  BY TargetIsFirst
<1>2. conf.servers \in Seq(Server)
  BY DEF Conf
<1>3. conf.servers[target(conf, name)] \in Server
  BY <1>1, <1>2
<1> QED BY <1>3 DEF blockOf, Server

\* A publish changes the policy file of the first block of its server and nothing
\* else: the server-level settings of every server, the http-level settings and
\* the list of servers stay.
THEOREM PublishKeepsSettings ==
  ASSUME NEW conf \in Conf, NEW name, Serves(conf, name), NEW wafPath \in Args
  PROVE  LET new == updateServerRulesJson(conf, name, wafPath)
         IN  /\ getDirectiveValue(blockOf(new, name), "waf_rules_json") = wafPath
             /\ listServerNames(new) = listServerNames(conf)
             /\ getGlobalRuntimeDirectives(new) = getGlobalRuntimeDirectives(conf)
             /\ \A m : Serves(conf, m) =>
                  getServerRuntimeDirectives(new, m) = getServerRuntimeDirectives(conf, m)
<1> DEFINE new == updateServerRulesJson(conf, name, wafPath)
           old == blockOf(conf, name)
           block == setDirective(old, "waf_rules_json", wafPath)
<1>1. old \in Seq(Directive) /\ block \in Seq(Directive)
  BY BlockOfType, SetIsBlock DEF Directives
<1>2. new = Put(conf, name, block)
  BY DEF updateServerRulesJson
<1>3. getDirectiveValue(block, "waf_rules_json") = wafPath
  BY <1>1, SetThenGet DEF Directives
<1>4. \A d \in {"waf", "waf_dynamic_block_enable", "waf_default_action"} :
        getDirectiveValue(block, d) = getDirectiveValue(old, d)
  BY <1>1, SetKeepsOthers DEF Directives
<1> HIDE DEF new, block
<1>5. /\ new.block = conf.block /\ listServerNames(new) = listServerNames(conf)
      /\ blockOf(new, name) = block
      /\ \A m : Serves(conf, m) =>
           blockOf(new, m) = IF target(conf, m) = target(conf, name) THEN block ELSE blockOf(conf, m)
  BY <1>1, <1>2, PutKeeps
<1>6. ASSUME NEW m, Serves(conf, m)
      PROVE  getServerRuntimeDirectives(new, m) = getServerRuntimeDirectives(conf, m)
  <2>1. \A d \in {"waf", "waf_dynamic_block_enable", "waf_default_action"} :
          getDirectiveValue(blockOf(new, m), d) = getDirectiveValue(blockOf(conf, m), d)
    BY <1>4, <1>5, <1>6 DEF blockOf
  <2> QED BY <2>1 DEF getServerRuntimeDirectives
<1>7. getGlobalRuntimeDirectives(new) = getGlobalRuntimeDirectives(conf)
  BY <1>5 DEF getGlobalRuntimeDirectives
<1> QED BY <1>3, <1>5, <1>6, <1>7 DEF new

\* What an update of server-level settings wrote is what a reader gets, a field
\* that was left out keeps its value, and the policy file stays.
THEOREM RuntimeReadsAfterWrite ==
  ASSUME NEW conf \in Conf, NEW name, Serves(conf, name),
         NEW directives,
         directives.waf \in BOOLEAN \cup {None},
         directives.dynamicBlock \in BOOLEAN \cup {None},
         {"on", "off", "LOG", "BLOCK"} \subseteq Args, None \notin Args, None \notin BOOLEAN
  PROVE  LET new == updateServerRuntimeDirectives(conf, name, directives)
             was == getServerRuntimeDirectives(conf, name)
             is == getServerRuntimeDirectives(new, name)
             action == Action(directives.defaultAction)
         IN  /\ is.waf = Or(directives.waf, was.waf)
             /\ is.dynamicBlock = Or(directives.dynamicBlock, was.dynamicBlock)
             /\ is.defaultAction = IF action = None THEN was.defaultAction ELSE Lower(action)
             /\ getDirectiveValue(blockOf(new, name), "waf_rules_json")
                  = getDirectiveValue(blockOf(conf, name), "waf_rules_json")
             /\ listServerNames(new) = listServerNames(conf)
             /\ getGlobalRuntimeDirectives(new) = getGlobalRuntimeDirectives(conf)
<1> DEFINE new == updateServerRuntimeDirectives(conf, name, directives)
           b0 == blockOf(conf, name)
           a1 == OnOff(directives.waf)
           a2 == OnOff(directives.dynamicBlock)
           a3 == Action(directives.defaultAction)
           b1 == setIfPresent(b0, "waf", a1)
           b2 == setIfPresent(b1, "waf_dynamic_block_enable", a2)
           b3 == setIfPresent(b2, "waf_default_action", a3)
<1>1. a1 \in Args \cup {None} /\ a2 \in Args \cup {None} /\ a3 \in Args \cup {None}
  BY DEF OnOff, Action
<1>2. b0 \in Seq(Directive)
  BY BlockOfType
<1>3. new = Put(conf, name, b3)
  BY DEF updateServerRuntimeDirectives
<1>4. /\ a1 = None <=> directives.waf = None
      /\ a1 # None => (a1 = "on") = directives.waf
      /\ a2 = None <=> directives.dynamicBlock = None
      /\ a2 # None => (a2 = "on") = directives.dynamicBlock
  BY DEF OnOff
<1> HIDE DEF new, b0, a1, a2, a3
<1>5. /\ b1 \in Seq(Directive)
      /\ getDirectiveValue(b1, "waf") = Or(a1, getDirectiveValue(b0, "waf"))
      /\ \A e \in Directives \ {"waf"} : getDirectiveValue(b1, e) = getDirectiveValue(b0, e)
  <2>1. "waf" \in Directives
    BY DEF Directives
  <2> QED BY <1>1, <1>2, <2>1, SetIfPresent, Zenon
<1> HIDE DEF b1
<1>6. /\ b2 \in Seq(Directive)
      /\ getDirectiveValue(b2, "waf_dynamic_block_enable")
           = Or(a2, getDirectiveValue(b1, "waf_dynamic_block_enable"))
      /\ \A e \in Directives \ {"waf_dynamic_block_enable"} :
           getDirectiveValue(b2, e) = getDirectiveValue(b1, e)
  <2>1. "waf_dynamic_block_enable" \in Directives
    BY DEF Directives
  <2> QED BY <1>1, <1>5, <2>1, SetIfPresent, Zenon
<1> HIDE DEF b2
<1>7. /\ b3 \in Seq(Directive)
      /\ getDirectiveValue(b3, "waf_default_action") = Or(a3, getDirectiveValue(b2, "waf_default_action"))
      /\ \A e \in Directives \ {"waf_default_action"} :
           getDirectiveValue(b3, e) = getDirectiveValue(b2, e)
  <2>1. "waf_default_action" \in Directives
    BY DEF Directives
  <2> QED BY <1>1, <1>6, <2>1, SetIfPresent, Zenon
<1> HIDE DEF b3
<1>8. /\ new.block = conf.block /\ listServerNames(new) = listServerNames(conf)
      /\ blockOf(new, name) = b3
  BY <1>3, <1>7, PutKeeps
<1>9. /\ getDirectiveValue(b3, "waf") = Or(a1, getDirectiveValue(b0, "waf"))
      /\ getDirectiveValue(b3, "waf_dynamic_block_enable")
           = Or(a2, getDirectiveValue(b0, "waf_dynamic_block_enable"))
      /\ getDirectiveValue(b3, "waf_default_action") = Or(a3, getDirectiveValue(b0, "waf_default_action"))
      /\ getDirectiveValue(b3, "waf_rules_json") = getDirectiveValue(b0, "waf_rules_json")
  BY <1>5, <1>6, <1>7 DEF Directives
<1> DEFINE was == getServerRuntimeDirectives(conf, name)
           is == getServerRuntimeDirectives(new, name)
<1>10. /\ was.waf = (getDirectiveValue(b0, "waf") = "on")
       /\ was.dynamicBlock = (getDirectiveValue(b0, "waf_dynamic_block_enable") = "on")
       /\ was.defaultAction = Lower(Or(getDirectiveValue(b0, "waf_default_action"), "BLOCK"))
  BY DEF getServerRuntimeDirectives, b0, Or
<1>11. /\ is.waf = (getDirectiveValue(b3, "waf") = "on")
       /\ is.dynamicBlock = (getDirectiveValue(b3, "waf_dynamic_block_enable") = "on")
       /\ is.defaultAction = Lower(Or(getDirectiveValue(b3, "waf_default_action"), "BLOCK"))
  BY <1>8 DEF getServerRuntimeDirectives, Or
<1> HIDE DEF was, is
<1>12. is.waf = Or(directives.waf, was.waf)
  BY <1>4, <1>9, <1>10, <1>11 DEF Or
<1>13. is.dynamicBlock = Or(directives.dynamicBlock, was.dynamicBlock)
  BY <1>4, <1>9, <1>10, <1>11 DEF Or
<1>14. is.defaultAction = IF a3 = None THEN was.defaultAction ELSE Lower(a3)
  BY <1>9, <1>10, <1>11 DEF Or
<1>15. getGlobalRuntimeDirectives(new) = getGlobalRuntimeDirectives(conf)
  BY <1>8 DEF getGlobalRuntimeDirectives
<1> QED BY <1>8, <1>9, <1>12, <1>13, <1>14, <1>15 DEF new, was, is, a3, b0

(***************************************************************************)
(* RuleSchema                                                              *)
(***************************************************************************)

LEMMA CompactTwice ==
  ASSUME NEW S, NEW field \in Values(S)
  PROVE  /\ Compact(field) \in Values(S) /\ Compact(field).items = field.items
         /\ Compact(Compact(field)) = Compact(field)
<1>1. field.items \in Seq(S)
  BY DEF Values
<1> DEFINE new == Compact(field)
<1>2. new.items = field.items /\ new.array = (Len(field.items) # 1)
  BY DEF Compact
<1>3. new \in [array : BOOLEAN, items : Seq(S)]
  BY <1>1 DEF Compact
<1>4. new \in Values(S)
  BY <1>2, <1>3 DEF Values
<1>5. Compact(new) = new
  BY <1>2 DEF Compact
<1> QED BY <1>2, <1>4, <1>5

\* What sanitizeRules stored in a version it accepts again and leaves alone: a
\* rollback, which publishes the rules of an old version, publishes the same rules.
THEOREM SanitizedAgain ==
  ASSUME NEW rule \in RawRules, Accepts(rule)
  PROVE  /\ sanitizeRule(rule) \in RawRules
         /\ Accepts(sanitizeRule(rule))
         /\ sanitizeRule(sanitizeRule(rule)) = sanitizeRule(rule)
<1> DEFINE new == sanitizeRule(rule)
<1>1. /\ rule.target \in Values(Targets \cup {Other})
      /\ rule.pattern \in Values(Strings \cup {Other})
      /\ rule.headerName \in Optional(Strings)
  BY DEF RawRules
<1>2. /\ Compact(rule.target) \in Values(Targets \cup {Other})
      /\ Compact(rule.target).items = rule.target.items
      /\ Compact(Compact(rule.target)) = Compact(rule.target)
      /\ Compact(rule.pattern) \in Values(Strings \cup {Other})
      /\ Compact(rule.pattern).items = rule.pattern.items
      /\ Compact(Compact(rule.pattern)) = Compact(rule.pattern)
  BY <1>1, CompactTwice
<1>3. /\ new = [rule EXCEPT !.target = Compact(rule.target), !.pattern = Compact(rule.pattern),
                            !.headerName = IF OfHeader(rule) THEN rule.headerName ELSE Absent]
      /\ new.target = Compact(rule.target) /\ new.pattern = Compact(rule.pattern)
      /\ new.headerName = IF OfHeader(rule) THEN rule.headerName ELSE Absent
  BY DEF sanitizeRule, RawRules
<1>4. new \in RawRules
  <2>1. new.headerName \in Optional(Strings)
    BY <1>1, <1>3 DEF Optional
  <2> QED BY <1>2, <1>3, <2>1 DEF RawRules
<1>5. /\ new.id = rule.id /\ new.match = rule.match /\ new.action = rule.action
      /\ new.caseless = rule.caseless /\ new.negate = rule.negate
      /\ new.score = rule.score /\ new.tags = rule.tags
  BY <1>3 DEF RawRules
<1> HIDE DEF new
<1>6. OfHeader(new) = OfHeader(rule)
  BY <1>2, <1>3 DEF OfHeader
<1>7. Accepts(new)
  <2>1. TargetAllowed(new.target) = TargetAllowed(rule.target)
    BY <1>2, <1>3 DEF TargetAllowed, ItemsIn
  <2>2. PatternAllowed(new.pattern) = PatternAllowed(rule.pattern)
    BY <1>2, <1>3 DEF PatternAllowed, ItemsIn
  <2> QED BY <1>3, <1>5, <1>6, <2>1, <2>2 DEF Accepts
<1>8. sanitizeRule(new) = new
  <2>1. new = [new EXCEPT !.target = new.target, !.pattern = new.pattern, !.headerName = new.headerName]
    BY <1>4 DEF RawRules
  <2>2. new.headerName = IF OfHeader(new) THEN new.headerName ELSE Absent
    BY <1>3, <1>6
  <2> QED BY <1>2, <1>3, <2>1, <2>2 DEF sanitizeRule
<1> QED BY <1>4, <1>7, <1>8 DEF new

\* The rules of a core rule set carry its tag and the tags they had, and tagging
\* them again changes nothing: no tag is there twice because of it.
THEOREM TaggedOnce ==
  ASSUME NEW rule \in RawRules, Accepts(rule), NEW tag \in CoreTagNames
  PROVE  LET new == WithTag(rule, tag)
         IN  /\ new \in RawRules /\ Accepts(new)
             /\ \E i \in DOMAIN new.tags.items : new.tags.items[i] = tag
             /\ rule.tags # Absent =>
                  \A i \in DOMAIN rule.tags.items :
                    i \in DOMAIN new.tags.items /\ new.tags.items[i] = rule.tags.items[i]
             /\ WithTag(new, tag) = new
<1> DEFINE had == IF rule.tags = Absent THEN <<>> ELSE rule.tags.items
           has == \E i \in DOMAIN had : had[i] = tag
           items == IF has THEN had ELSE Append(had, tag)
           tags == [array |-> TRUE, items |-> items]
           new == WithTag(rule, tag)
<1>1. had \in Seq(Strings)
  <2>1. CASE rule.tags = Absent
    BY <2>1
  <2>2. CASE rule.tags # Absent
    <3>1. rule.tags # Null /\ rule.tags \in Values(Strings \cup {Other}) /\ ItemsIn(rule.tags, Strings)
      BY <2>2 DEF Accepts, RawRules
    <3>2. rule.tags.items \in Seq(Strings \cup {Other})
      BY <3>1 DEF Values
    <3>3. rule.tags.items \in Seq(Strings)
      BY <3>1, <3>2 DEF ItemsIn
    <3> QED BY <2>2, <3>3
  <2> QED BY <2>1, <2>2
<1>2. tag \in Strings
  BY SchemaAssumptions DEF Strings
<1> HIDE DEF had
<1>3. /\ items \in Seq(Strings) /\ \E i \in DOMAIN items : items[i] = tag
      /\ \A i \in DOMAIN had : i \in DOMAIN items /\ items[i] = had[i]
  <2>1. CASE has
    BY <1>1, <2>1
  <2>2. CASE ~has
    <3>1. items = Append(had, tag)
      BY <2>2
    <3> HIDE DEF items
    <3>2. items \in Seq(Strings) /\ Len(items) = Len(had) + 1 /\ items[Len(had) + 1] = tag
      BY <1>1, <1>2, <3>1
    <3>3. \A i \in DOMAIN had : i \in DOMAIN items /\ items[i] = had[i]
      BY <1>1, <1>2, <3>1
    <3> QED BY <1>1, <3>2, <3>3
  <2> QED BY <2>1, <2>2
<1>4. new = [rule EXCEPT !.tags = tags]
  BY DEF WithTag, had
<1> HIDE DEF items, new
<1>5. /\ tags \in Values(Strings \cup {Other}) /\ ItemsIn(tags, Strings)
      /\ tags.array /\ tags.items = items
  BY <1>3 DEF Values, ItemsIn
<1>6. tags # Absent /\ tags # Null
  BY <1>5, SchemaAssumptions
<1> HIDE DEF tags
<1>7. /\ new \in RawRules /\ new.tags = tags
      /\ \A field \in {"id", "target", "headerName", "match", "pattern", "action",
                       "caseless", "negate", "score"} : new[field] = rule[field]
  BY <1>4, <1>5 DEF RawRules
<1>8. Accepts(new)
  BY <1>5, <1>6, <1>7 DEF Accepts, OfHeader
<1>9. WithTag(new, tag) = new
  <2>1. tags = [array |-> TRUE, items |-> items]
    BY DEF tags
  <2>2. WithTag(new, tag) = [new EXCEPT !.tags = tags]
    BY <1>3, <1>5, <1>6, <1>7, <2>1 DEF WithTag
  <2>3. new = [new EXCEPT !.tags = new.tags]
    BY <1>7 DEF RawRules
  <2> QED BY <1>7, <2>2, <2>3
<1>10. rule.tags # Absent =>
         \A i \in DOMAIN rule.tags.items :
           i \in DOMAIN new.tags.items /\ new.tags.items[i] = rule.tags.items[i]
  BY <1>3, <1>5, <1>7 DEF had
<1> QED BY <1>3, <1>5, <1>7, <1>8, <1>9, <1>10 DEF new

\* The two checks differ in the rules of OnlyTheDto, which pass the controller and
\* make sanitizeRules throw, outside the part of publish that records failures,
\* and in those of OnlyTheSchema, and in no other.
THEOREM ChecksDiffer ==
  ASSUME NEW rule \in RawRules
  PROVE  /\ RuleDto(rule) => (Accepts(rule) <=> ~OnlyTheDto(rule))
         /\ Accepts(rule) => (RuleDto(rule) <=> ~OnlyTheSchema(rule))
<1> DEFINE items == rule.target.items
           header == \E i \in DOMAIN items : items[i] = "HEADER"
<1>1. /\ items \in Seq(Targets \cup {Other}) /\ rule.headerName \in Optional(Strings)
      /\ rule.tags \in Values(Strings \cup {Other}) \cup {Absent, Null}
  BY DEF RawRules, Values
<1>2. OfHeader(rule) <=> Len(items) = 1 /\ header
  <2>1. ASSUME items = <<"HEADER">> PROVE Len(items) = 1 /\ header
    <3>1. Len(items) = 1 /\ 1 \in DOMAIN items /\ items[1] = "HEADER"
      BY <2>1
    <3> QED BY <3>1
  <2>2. ASSUME Len(items) = 1, header PROVE items = <<"HEADER">>
    <3>1. DOMAIN items = 1..1 /\ items[1] = "HEADER"
      BY <1>1, <2>2
    <3> HIDE DEF items
    <3> QED BY <1>1, <2>2, <3>1
  <2> QED BY <2>1, <2>2 DEF OfHeader
<1>3. TargetAllowed(rule.target) <=> ItemsIn(rule.target, Targets) /\ (header => OfHeader(rule))
  BY <1>1, <1>2 DEF TargetAllowed
<1>4. rule.tags \notin {Absent, Null} => rule.tags.array \in BOOLEAN
  BY <1>1 DEF Values
<1> HIDE DEF header
<1>5. OnlyTheDto(rule) <=>
        \/ header /\ ~OfHeader(rule)
        \/ OfHeader(rule) /\ rule.headerName \notin Texts
        \/ rule.score = Null \/ rule.caseless = Null \/ rule.negate = Null \/ rule.tags = Null
        \/ rule.tags # Absent /\ rule.tags # Null /\ ~rule.tags.array
  BY DEF OnlyTheDto, header
<1>6. ASSUME RuleDto(rule), ~OnlyTheDto(rule) PROVE Accepts(rule)
  BY <1>3, <1>5, <1>6 DEF RuleDto, Accepts, IsStringOrStringArray, PatternAllowed
<1>7. ASSUME Accepts(rule), OnlyTheDto(rule) PROVE FALSE
  <2>1. rule.score # Null /\ rule.caseless # Null /\ rule.negate # Null /\ rule.tags # Null
    BY <1>7, SchemaAssumptions DEF Accepts
  <2> QED BY <1>3, <1>5, <1>7, <2>1 DEF Accepts
<1>8. ASSUME Accepts(rule), ~OnlyTheSchema(rule) PROVE RuleDto(rule)
  <2>1. rule.headerName \in Strings \cup {Absent, Null}
    BY <1>1, <1>8 DEF Optional, OnlyTheSchema
  <2>2. IsStringOrStringArray(rule.target, Targets)
    BY <1>3, <1>8 DEF Accepts, IsStringOrStringArray, OnlyTheSchema
  <2>3. rule.score \in Nat \cup {Absent, Null}
    BY <1>8 DEF Accepts, OnlyTheSchema
  <2> QED BY <1>8, <2>1, <2>2, <2>3 DEF Accepts, RuleDto, IsStringOrStringArray, PatternAllowed
<1>9. ASSUME RuleDto(rule), OnlyTheSchema(rule) PROVE FALSE
  <2>1. items # <<>>
    BY <1>9 DEF RuleDto, IsStringOrStringArray
  <2>2. rule.headerName # Other
    BY <1>9, SchemaAssumptions DEF RuleDto, Strings
  <2>3. rule.score # Fraction
    BY <1>9, SchemaAssumptions DEF RuleDto
  <2> QED BY <1>9, <2>1, <2>2, <2>3 DEF OnlyTheSchema
<1> QED BY <1>6, <1>7, <1>8, <1>9
=============================================================================

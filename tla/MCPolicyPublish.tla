-------------------------- MODULE MCPolicyPublish --------------------------
(* Instances of PolicyPublish for TLC. *)
EXTENDS PolicyPublish, TLC
CONSTANTS p1, p2, s1, s2, s3, good, other, bad, wrong, core, template, score, g0, g1

Policy(rules, refs, dyn) == [rules |-> rules, refs |-> refs, dyn |-> dyn]
Publish(s, body, dry, base) ==
  [op |-> "publish", server |-> s, body |-> body, dry |-> dry, base |-> base, target |-> 0]
Rollback(s, n) == [op |-> "rollback", server |-> s, target |-> n]
Runtime(s, waf, action) ==
  [op |-> "runtime", server |-> s, patch |-> [waf |-> waf, action |-> action]]
GlobalUpdate(g) == [op |-> "global", value |-> g]

MCConf ==
  [wired |-> {}, mode |-> [s \in Served |-> [waf |-> "on", action |-> "BLOCK"]], glob |-> g0]

\* One request for each path through the handlers: accepted, refused by nginx,
\* refused by sanitizeRules, a base version that may not exist, a missing
\* template, a dry run, a server that nginx.conf does not have, a rollback, and
\* the two kinds of update.
MCRequests ==
  {Publish(s1, Policy(good, {core}, score), FALSE, 0),
   Publish(s1, Policy(bad, {}, None), FALSE, 0),
   Publish(s1, Policy(wrong, {}, None), FALSE, 0),
   Publish(s1, Policy(other, {template}, None), TRUE, 0),
   Publish(s2, Policy(other, {}, None), FALSE, 1),
   Publish(s2, Policy(good, {}, None), FALSE, 0),
   Publish(s3, Policy(good, {}, None), FALSE, 0),
   Rollback(s1, 1), Runtime(s1, "off", "LOG"), GlobalUpdate(g1)}

\* Publishes of two policies that nginx loads, one of them on a base version.
MCBaseRequests ==
  {Publish(s1, Policy(good, {}, None), FALSE, 0),
   Publish(s1, Policy(other, {}, None), FALSE, 1)}
----------------------------------------------------------------------------
(* The edits of PolicyPublish are those of NginxConf.  In the trees below   *)
(* every served name has a block of its own, and a later block repeats both *)
(* names, which neither reading nor writing finds.                          *)

LowerOf(x) == IF x = "LOG" THEN "log" ELSE IF x = "BLOCK" THEN "block" ELSE x
Same(x) == x

Tree == INSTANCE NginxConf
          WITH Names <- Served, Args <- Served \cup {"on", "off", "LOG", "BLOCK"}, None <- None,
               Lower <- LowerOf, Text <- Same, ParseInt <- Same

D(name, arg) == [directive |-> name, arg |-> arg]
MCBlocks ==
  {<<>>, <<D("waf", "on"), D("waf_default_action", "LOG"), D("waf", "off")>>,
   <<D("waf_rules_json", s2), D("waf", "off"), D("waf_rules_json", s1)>>,
   <<D("waf_rules_json", s1), D("waf_default_action", "BLOCK")>>}
MCTrees ==
  {[block |-> <<>>,
    servers |-> <<[names |-> {s1}, block |-> b1], [names |-> {s2}, block |-> b2],
                  [names |-> {s1, s2}, block |-> <<D("waf", "on"), D("waf_rules_json", s1)>>]>>] :
     <<b1, b2>> \in MCBlocks \X MCBlocks}

\* What PolicyPublish keeps of a tree; the argument s stands for the path of
\* user/<s>.json.
Kept(tree) ==
  [wired |-> {s \in Served : Tree!getDirectiveValue(Tree!blockOf(tree, s), "waf_rules_json") = s},
   mode |-> [s \in Served |->
               LET read == Tree!getServerRuntimeDirectives(tree, s) IN
               [waf |-> IF read.waf THEN "on" ELSE "off",
                action |-> IF read.defaultAction = "log" THEN "LOG" ELSE "BLOCK"]],
   glob |-> g0]

Given(field) == IF field = "unset" THEN None ELSE field
Fields(patch) ==
  [waf |-> IF patch.waf = "unset" THEN None ELSE patch.waf = "on", dynamicBlock |-> None,
   defaultAction |-> Given(patch.action)]

ASSUME EditsAreNginxConf ==
  \A tree \in MCTrees, s \in Served :
    /\ Tree!listServerNames(tree) = Served
    /\ Kept(Tree!updateServerRulesJson(tree, s, s)) = UpdateServerRulesJson(Kept(tree), s)
    /\ \A patch \in Patches :
         Kept(Tree!updateServerRuntimeDirectives(tree, s, Fields(patch)))
           = UpdateServerRuntimeDirectives(Kept(tree), s, patch)

\* The http-level settings that a request gave are what a reader then gets.
MCGlobal == {[trustXff |-> x, logLevel |-> l, dynamicBlockScore |-> n,
              dynamicBlockDuration |-> None, dynamicBlockWindow |-> w] :
               <<x, l, n, w>> \in {TRUE, FALSE, None} \X {"LOG", None} \X {7, None} \X {"5m", None}}
ASSUME GlobalReadsAfterWrite ==
  \A tree \in MCTrees, first \in MCGlobal, given \in MCGlobal :
    LET before == Tree!updateGlobalRuntimeDirectives(tree, first)
        old == Tree!getGlobalRuntimeDirectives(before)
        after == Tree!updateGlobalRuntimeDirectives(before, given)
        new == Tree!getGlobalRuntimeDirectives(after)
    IN  /\ new.trustXff = Tree!Or(given.trustXff, old.trustXff)
        /\ new.logLevel = IF given.logLevel = None THEN old.logLevel ELSE "log"
        /\ new.dynamicBlockScore = Tree!Or(given.dynamicBlockScore, old.dynamicBlockScore)
        /\ new.dynamicBlockWindow = Tree!Or(given.dynamicBlockWindow, old.dynamicBlockWindow)
        /\ after.servers = tree.servers
=============================================================================

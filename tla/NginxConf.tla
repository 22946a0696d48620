----------------------------- MODULE NginxConf -----------------------------
(***************************************************************************)
(* NginxConfigService on the tree that crossplane parses nginx.conf into:  *)
(* what an update changes and what a reader then gets.  Parsing, building  *)
(* the text, the backup and the writing are steps of PolicyPublish, which  *)
(* abstracts the tree to what is read here.                                *)
(*                                                                         *)
(* A directive is its name and its first argument, the only one that is    *)
(* read.  The server blocks of the http block are kept apart from its      *)
(* other directives.                                                       *)
(***************************************************************************)
EXTENDS Integers, Sequences

CONSTANTS
  Names,       \* server names
  Args,        \* arguments of directives
  None,        \* an absent directive, or a field that a request leaves out
  Lower(_),    \* toLowerCase
  Text(_),     \* String(number)
  ParseInt(_)  \* parseInt: of the text of 1.5, it is 1

Or(value, default) == IF value = None THEN default ELSE value

Directives == {"waf_rules_json", "waf", "waf_dynamic_block_enable", "waf_default_action",
               "waf_trust_xff", "waf_json_log_level", "waf_dynamic_block_score_threshold",
               "waf_dynamic_block_duration", "waf_dynamic_block_window_size"}
Directive == [directive : Directives, arg : Args]
\* names are the arguments of the first server_name of the block.
Server == [names : SUBSET Names, block : Seq(Directive)]
Conf == [block : Seq(Directive), servers : Seq(Server)]
----------------------------------------------------------------------------
(* Blocks *)

Has(block, name) == \E i \in DOMAIN block : block[i].directive = name

\* find: the first of the name.
First(block, name) ==
  CHOOSE i \in DOMAIN block :
    block[i].directive = name /\ \A j \in 1..(i - 1) : block[j].directive # name

getDirectiveValue(block, name) == IF Has(block, name) THEN block[First(block, name)].arg ELSE None

\* Changes the first directive of the name, or adds one at the end.
setDirective(block, name, arg) ==
  IF Has(block, name) THEN [block EXCEPT ![First(block, name)] = [directive |-> name, arg |-> arg]]
  ELSE Append(block, [directive |-> name, arg |-> arg])

setIfPresent(block, name, arg) == IF arg = None THEN block ELSE setDirective(block, name, arg)

----------------------------------------------------------------------------
(* Server blocks *)

Serves(conf, name) == \E i \in DOMAIN conf.servers : name \in conf.servers[i].names

\* The first block with the name is the one that is read and written.
target(conf, name) ==
  CHOOSE i \in DOMAIN conf.servers :
    name \in conf.servers[i].names /\ \A j \in 1..(i - 1) : name \notin conf.servers[j].names

blockOf(conf, name) == conf.servers[target(conf, name)].block

listServerNames(conf) == UNION {conf.servers[i].names : i \in DOMAIN conf.servers}

Put(conf, name, block) ==
  [conf EXCEPT !.servers[target(conf, name)].block = block]

updateServerRulesJson(conf, name, wafPath) ==
  Put(conf, name, setDirective(blockOf(conf, name), "waf_rules_json", wafPath))

OnOff(field) == IF field = None THEN None ELSE IF field THEN "on" ELSE "off"
\* The module takes no other action than these.
Action(field) == IF field = None THEN None ELSE IF field = "LOG" THEN "LOG" ELSE "BLOCK"

updateServerRuntimeDirectives(conf, name, directives) ==
  LET withWaf == setIfPresent(blockOf(conf, name), "waf", OnOff(directives.waf))
      withDynamic == setIfPresent(withWaf, "waf_dynamic_block_enable", OnOff(directives.dynamicBlock))
  IN  Put(conf, name, setIfPresent(withDynamic, "waf_default_action", Action(directives.defaultAction)))

getServerRuntimeDirectives(conf, name) ==
  LET value(d) == getDirectiveValue(blockOf(conf, name), d)
  IN  [waf |-> value("waf") = "on",
       dynamicBlock |-> value("waf_dynamic_block_enable") = "on",
       defaultAction |-> Lower(Or(value("waf_default_action"), "BLOCK"))]
----------------------------------------------------------------------------
(* The http block *)

updateGlobalRuntimeDirectives(conf, directives) ==
  LET b1 == setIfPresent(conf.block, "waf_trust_xff", OnOff(directives.trustXff))
      b2 == setIfPresent(b1, "waf_json_log_level",
                         IF directives.logLevel = None THEN None ELSE Lower(directives.logLevel))
      b3 == setIfPresent(b2, "waf_dynamic_block_score_threshold",
                         IF directives.dynamicBlockScore = None THEN None
                         ELSE Text(directives.dynamicBlockScore))
      b4 == setIfPresent(b3, "waf_dynamic_block_duration", directives.dynamicBlockDuration)
  IN  [conf EXCEPT !.block = setIfPresent(b4, "waf_dynamic_block_window_size",
                                          directives.dynamicBlockWindow)]

getGlobalRuntimeDirectives(conf) ==
  LET value(d) == getDirectiveValue(conf.block, d)
  IN  [trustXff |-> value("waf_trust_xff") = "on",
       logLevel |-> Or(value("waf_json_log_level"), "INFO"),
       dynamicBlockScore |-> IF value("waf_dynamic_block_score_threshold") = None THEN 60
                             ELSE ParseInt(value("waf_dynamic_block_score_threshold")),
       dynamicBlockDuration |-> Or(value("waf_dynamic_block_duration"), "30m"),
       dynamicBlockWindow |-> Or(value("waf_dynamic_block_window_size"), "1m")]
=============================================================================

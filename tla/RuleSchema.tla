----------------------------- MODULE RuleSchema -----------------------------
(***************************************************************************)
(* The two checks that a rule passes: the validation of RuleDto at the     *)
(* controllers (src/src/common/rules/rule.dto.ts) and sanitizeRules, which *)
(* every publish, core rule set, template and factory file goes through    *)
(* (src/src/common/rules/rule-schema.ts, rules-validation.ts).             *)
(*                                                                         *)
(* A field is a value of its own type, or Other, a value of another type   *)
(* or outside the list that is allowed.  Absent is undefined, Null is a    *)
(* JSON null, Refused is an exception.  A number is an integer, Fraction   *)
(* or Other: one that is positive and no integer, or another.              *)
(*                                                                         *)
(* RuleDto sees id and score as its conversion to numbers left them.       *)
(***************************************************************************)
EXTENDS Integers, Sequences

CONSTANTS
  Texts,          \* non-empty strings: patterns, header names and tags
  Empty,          \* the empty string
  Fraction,       \* a positive number that is not an integer
  Other, Absent, Null, Refused

Strings == Texts \cup {Empty}
\* One value, or an array of values.
Values(S) == {v \in [array : BOOLEAN, items : Seq(S)] : v.array \/ Len(v.items) = 1}

\* The tags that a core rule set adds are texts; the markers are no values.
CoreTagNames == {"sqli", "xss", "rce", "lfi", "dir_traversal", "user_agent"}
ASSUME SchemaAssumptions ==
  /\ CoreTagNames \subseteq Texts /\ Empty \notin Texts
  /\ \A x \in {Fraction, Other, Absent, Null} : x \notin Strings /\ x \notin BOOLEAN /\ x \notin Int
  /\ Fraction \notin {Other, Absent, Null}
  /\ Other # Absent /\ Other # Null /\ Absent # Null
  /\ {Absent, Null} \cap Values(Strings \cup {Other}) = {}

Targets == {"URI", "ARGS_COMBINED", "BODY", "HEADER", "CLIENT_IP", "ALL_PARAMS"}
Matches == {"CONTAINS", "EXACT", "REGEX", "CIDR"}
Actions == {"DENY", "LOG", "BYPASS"}

Optional(S) == S \cup {Absent, Null, Other}

RawRules ==
  [id : Int \cup {Other},
   target : Values(Targets \cup {Other}),
   headerName : Optional(Strings),
   match : Matches \cup {Other},
   pattern : Values(Strings \cup {Other}),
   action : Actions \cup {Other},
   caseless : Optional(BOOLEAN),
   negate : Optional(BOOLEAN),
   score : Optional(Int \cup {Fraction}),
   tags : Values(Strings \cup {Other}) \cup {Absent, Null}]

ItemsIn(field, S) == \A i \in DOMAIN field.items : field.items[i] \in S
----------------------------------------------------------------------------
(* sanitizeRules *)

\* What normalizeTarget lets through: HEADER only by itself, but also no target.
TargetAllowed(target) ==
  /\ ItemsIn(target, Targets)
  /\ Len(target.items) # 1 => \A i \in DOMAIN target.items : target.items[i] # "HEADER"

\* What normalizePattern lets through.
PatternAllowed(pattern) == ItemsIn(pattern, Strings) /\ pattern.items # <<>>

OfHeader(rule) == rule.target.items = <<"HEADER">>

Accepts(rule) ==
  /\ rule.id \in Int
  /\ TargetAllowed(rule.target)
  /\ OfHeader(rule) => rule.headerName \in Texts
  /\ rule.match \in Matches
  /\ PatternAllowed(rule.pattern)
  /\ rule.action \in Actions
  /\ rule.caseless \in BOOLEAN \cup {Absent}
  /\ rule.negate \in BOOLEAN \cup {Absent}
  /\ rule.score \in Nat \cup {Fraction, Absent}
  /\ rule.tags = Absent \/ (rule.tags # Null /\ rule.tags.array /\ ItemsIn(rule.tags, Strings))

\* An array of one element becomes that element.
Compact(field) == [array |-> Len(field.items) # 1, items |-> field.items]

\* What sanitizeRule returns for a rule that it accepts.
sanitizeRule(rule) ==
  [rule EXCEPT !.target = Compact(rule.target), !.pattern = Compact(rule.pattern),
               !.headerName = IF OfHeader(rule) THEN rule.headerName ELSE Absent]

\* One rule that is refused refuses them all.
sanitizeRules(input) ==
  IF input = Absent THEN <<>>
  ELSE IF \A i \in DOMAIN input : Accepts(input[i])
  THEN [i \in DOMAIN input |-> sanitizeRule(input[i])]
  ELSE Refused
----------------------------------------------------------------------------
(* Core rule sets *)

\* The words that are looked for in a name, in this order, and their tags.
CoreTags ==
  <<[words |-> {"sqli"}, tag |-> "sqli"], [words |-> {"xss"}, tag |-> "xss"],
    [words |-> {"rce"}, tag |-> "rce"], [words |-> {"lfi"}, tag |-> "lfi"],
    [words |-> {"dir", "traversal"}, tag |-> "dir_traversal"], [words |-> {"ua"}, tag |-> "user_agent"]>>

\* The tag of a name that contains these words, Absent for none of them.
mapCoreNameToTag(contained) ==
  LET hit(i) == CoreTags[i].words \cap contained # {}
  IN  IF \E i \in DOMAIN CoreTags : hit(i)
      THEN CoreTags[CHOOSE i \in DOMAIN CoreTags : hit(i) /\ \A j \in 1..(i - 1) : ~hit(j)].tag
      ELSE Absent

\* A tag is added at the end, unless the rule has it.
WithTag(rule, tag) ==
  LET tags == IF rule.tags = Absent THEN <<>> ELSE rule.tags.items
  IN  [rule EXCEPT !.tags =
         [array |-> TRUE,
          items |-> IF \E i \in DOMAIN tags : tags[i] = tag THEN tags ELSE Append(tags, tag)]]

applyCoreTag(rules, tag) == [i \in DOMAIN rules |-> WithTag(rules[i], tag)]

\* assertNoAdvancedMeta and ensureRulesArray come first; the meta of the result
\* is the name alone.
sanitizeCoreRules(contained, advanced, input) ==
  IF advanced \/ input = Absent \/ sanitizeRules(input) = Refused THEN Refused
  ELSE IF mapCoreNameToTag(contained) = Absent THEN sanitizeRules(input)
  ELSE applyCoreTag(sanitizeRules(input), mapCoreNameToTag(contained))

sanitizeTemplateRules(advanced, input) ==
  IF advanced \/ input = Absent THEN Refused ELSE sanitizeRules(input)
----------------------------------------------------------------------------
(* RuleDto *)

\* IsStringOrStringArray: a string of the list, or a non-empty array of such.
IsStringOrStringArray(field, allowed) == ItemsIn(field, allowed) /\ field.items # <<>>

\* IsOptional lets a null through; IsString with each accepts one string.
RuleDto(rule) ==
  /\ rule.id \in Int
  /\ IsStringOrStringArray(rule.target, Targets)
  /\ rule.match \in Matches
  /\ IsStringOrStringArray(rule.pattern, Strings)
  /\ rule.action \in Actions
  /\ rule.score \in Nat \cup {Absent, Null}
  /\ rule.caseless \in BOOLEAN \cup {Absent, Null}
  /\ rule.negate \in BOOLEAN \cup {Absent, Null}
  /\ rule.headerName \in Strings \cup {Absent, Null}
  /\ rule.tags \in {Absent, Null} \/ ItemsIn(rule.tags, Strings)

\* What RuleDto lets through and sanitizeRules throws on: HEADER among other
\* targets or without a name, a null, and tags given as one string.
OnlyTheDto(rule) ==
  \/ ~OfHeader(rule) /\ \E i \in DOMAIN rule.target.items : rule.target.items[i] = "HEADER"
  \/ OfHeader(rule) /\ rule.headerName \notin Texts
  \/ rule.score = Null \/ rule.caseless = Null \/ rule.negate = Null \/ rule.tags = Null
  \/ rule.tags # Absent /\ rule.tags # Null /\ ~rule.tags.array

\* And the converse, which only a factory file can hold: no target at all, a
\* header name of another type that nothing reads, and a score of 1.5.
OnlyTheSchema(rule) ==
  rule.target.items = <<>> \/ rule.headerName = Other \/ rule.score = Fraction
=============================================================================

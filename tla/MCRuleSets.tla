----------------------------- MODULE MCRuleSets -----------------------------
(* Instances of RuleSets for TLC. *)
EXTENDS RuleSets, RuleSchema, TLC
CONSTANTS p1, p2, boot, t, c, x, s, good, wrong, factory

Create(n, rules) == [op |-> "create", name |-> n, rules |-> rules]
Rollback(n, to) == [op |-> "rollback", name |-> n, to |-> to]

\* Every operation once, and the refused ones: malformed rules, a version that
\* may not be there, a template that may have none, a core set without factory
\* version.
MCRequests ==
  {Create(t, good), Create(t, factory), Create(t, wrong), Rollback(t, 1),
   [op |-> "delete", name |-> t],
   Create(c, good), Create(x, good), Rollback(c, 2),
   [op |-> "publish", name |-> s, uses |-> {t, c}]}
----------------------------------------------------------------------------
(* The checks of RuleSchema on a few hundred rules: one that is accepted,   *)
(* with every pair of fields replaced.                                      *)

One(v) == [array |-> FALSE, items |-> <<v>>]
Many(vs) == [array |-> TRUE, items |-> vs]
Plain ==
  [id |-> 1, target |-> Many(<<"URI">>), headerName |-> Absent, match |-> "EXACT",
   pattern |-> One("text"), action |-> "DENY", caseless |-> Absent, negate |-> TRUE,
   score |-> Absent, tags |-> Absent]
MCTargets == {One("URI"), One("HEADER"), One(Other), Many(<<>>), Many(<<"HEADER">>),
              Many(<<"URI", "BODY">>), Many(<<"URI", "HEADER">>)}
MCPatterns == {One("text"), One(Empty), Many(<<>>), Many(<<"text">>), Many(<<"text", Other>>)}
MCTags == {Absent, Null, One("sqli"), Many(<<>>), Many(<<"text", "sqli">>), Many(<<Other>>)}
MCRules ==
  {[Plain EXCEPT !.target = tgt, !.headerName = h] :
     <<tgt, h>> \in MCTargets \X {"text", Empty, Absent, Null, Other}}
  \cup {[Plain EXCEPT !.pattern = pat, !.tags = tg] : <<pat, tg>> \in MCPatterns \X MCTags}
  \cup {[Plain EXCEPT !.id = n, !.score = sc] :
          <<n, sc>> \in {0, Other} \X {-1, 0, Fraction, Absent, Null, Other}}
  \cup {[Plain EXCEPT !.caseless = cl, !.negate = ng] :
          <<cl, ng>> \in {FALSE, Absent, Null, Other} \X {TRUE, Null}}
  \cup {[Plain EXCEPT !.match = mt, !.action = ac] :
          <<mt, ac>> \in {"CIDR", Other} \X {"LOG", Other}}

ASSUME SchemaOnSmallRules ==
  /\ \E rule \in MCRules : Accepts(rule)
  /\ \A rule \in MCRules :
       /\ RuleDto(rule) => (Accepts(rule) <=> ~OnlyTheDto(rule))
       /\ Accepts(rule) =>
            /\ RuleDto(rule) <=> ~OnlyTheSchema(rule)
            /\ sanitizeRules(sanitizeRules(<<rule, Plain>>)) = sanitizeRules(<<rule, Plain>>)
            /\ LET tagged == sanitizeCoreRules({"sqli", "ua"}, FALSE, <<rule>>)
               IN  /\ tagged[1].tags.items \in {<<"sqli">>, <<"text", "sqli">>}
                   /\ sanitizeCoreRules({"sqli"}, FALSE, tagged) = tagged
                   /\ sanitizeTemplateRules(FALSE, tagged) = tagged
            /\ sanitizeCoreRules({}, FALSE, <<rule>>) = sanitizeRules(<<rule>>)
            /\ sanitizeCoreRules({"xss"}, TRUE, <<rule>>) = Refused
       /\ ~Accepts(rule) => sanitizeRules(<<Plain, rule>>) = Refused
=============================================================================

---------------------------- MODULE RewriteRules ----------------------------
(***************************************************************************)
(* The Rewrite rules of the configuration file (config.c 1968-2506): the   *)
(* parser tables of a request and a response rule and of their Else       *)
(* branches, parse_rewrite, the Else chain closed by one End               *)
(* (parse_end_else), and the SetHeader/SetURL/HeaderRemove statements      *)
(* written directly in a Service or ListenHTTP section, which              *)
(* rewrite_rule_last_uncond appends to the last unconditional rule.       *)
(*                                                                         *)
(* A configuration text is a sequence of statements, each abstracted to   *)
(* its keyword; the arguments are left out.  "URL" stands for the request *)
(* conditions ACL, URL, Path, Query, QueryParam and Host; BasicAuth is     *)
(* kept apart for the password-file fix-up of parse_config_file;          *)
(* "Header" for those a response rule has too (Header, StringMatch);       *)
(* "SetURL" for SetURL, SetPath, SetQuery and SetQueryParam.  A top-level *)
(* Rewrite is "Rewrite", "RewriteRequest", "RewriteResponse", or           *)
(* "RewriteOther" for another word after it.                               *)
(*                                                                         *)
(* cfgparser_loop is not in the repository: a statement is looked up in   *)
(* the table, its parser consumes what follows, CFGPARSER_END ends the     *)
(* loop, and a keyword the table lacks or the end of the text before End  *)
(* fails the parse.                                                        *)
(***************************************************************************)
EXTENDS Naturals, Sequences

\* A rule: its conditions (ANDed), its operations, and the Else rule
\* (<<>> for none).  A condition is [k, sub]: sub holds the operand of NOT
\* and the conditions of a Match block.  An operation is [k, sub]: sub
\* holds the rule of a nested Rewrite.
NewRule == [cond |-> <<>>, ops |-> <<>>, else |-> <<>>]
Leaf(k) == [k |-> k, sub |-> <<>>]

RequestConds == {"URL", "BasicAuth", "Header", "Match", "Not"} \* match_conditions
ResponseConds == {"Header", "Match", "Not"}           \* match_response_conditions
RequestOps == {"SetURL", "SetHeader", "DeleteHeader"} \* rewrite_ops
ResponseOps == {"SetHeader", "DeleteHeader"}          \* rewrite_response_ops

\* A parser table: what End does (cfg_parse_end, or parse_end_else), the
\* tables a nested Rewrite and an Else are parsed with, and the condition
\* and operation keywords of its KWT_SOFTREF entries.
Tab(end, rw, els, conds, ops) == [end |-> end, rewrite |-> rw, else |-> els, conds |-> conds, ops |-> ops]

\* rewrite_rule_parsetab: a request rule.
RuleTab == Tab("end", "rule", "else", RequestConds, RequestOps)

\* An Else table ending at End with cfg_parse_end, as the rule tables do.
ElseTab_End == Tab("end", "rule", "else", RequestConds, RequestOps)

\* else_rule_parsetab: the Else of a request rule; its End is
\* parse_end_else, which puts the End back for the enclosing table.
ElseTab == Tab("end_else", "rule", "else", RequestConds, RequestOps)

\* response_rewrite_rule_parsetab: a response rule, with
\* parse_response_sub_rewrite and parse_response_else.
RespTab == Tab("end", "resp", "resp_else", ResponseConds, ResponseOps)

\* response_else_rule_parsetab: its Else entry is parse_else, the request
\* Else, not parse_response_else.
RespElseTab == Tab("end_else", "resp", "else", ResponseConds, ResponseOps)

\* logcon_parsetab: the statements of a Match block, up to its End.
LogconTab == Tab("end", "none", "none", RequestConds, {})

Tabs == [rule |-> RuleTab, else |-> ElseTab, resp |-> RespTab, resp_else |-> RespElseTab, logcon |-> LogconTab]

\* What a parse returns: CFGPARSER_OK or FAIL, the text left, the rule built.
Res(ok, rest, val) == [ok |-> ok, rest |-> rest, val |-> val]
Fail == Res(FALSE, <<>>, NewRule)

AddCond(r, c) == [r EXCEPT !.cond = Append(@, c)]
AddOp(r, o) == [r EXCEPT !.ops = Append(@, o)]

RECURSIVE ParseLoop(_, _, _), ParseCond(_, _), ParseMatch(_), ParseNot(_)

\* parse_match: a Match block, read with logcon_parsetab up to its End
\* (parse_cond), is one condition holding the conditions of the block.
ParseMatch(toks) ==
    LET s == ParseLoop(Tabs.logcon, toks, NewRule) IN
    IF s.ok THEN Res(TRUE, s.rest, [k |-> "Match", sub |-> s.val.cond]) ELSE Fail

\* parse_not_cond: exactly one statement of negate_parsetab, that is of
\* match_conditions, the request table, whatever table NOT was found in.
ParseNot(toks) ==
    IF toks # <<>> /\ Head(toks) \in RequestConds
      THEN LET s == ParseCond(Head(toks), Tail(toks)) IN
           IF s.ok THEN Res(TRUE, s.rest, [k |-> "Not", sub |-> <<s.val>>]) ELSE Fail
      ELSE Fail

\* The parser of condition keyword k, given the text after it; the
\* parse_cond_* matchers append one condition (their pattern left out).
ParseCond(k, toks) ==
    CASE k = "Match" -> ParseMatch(toks)
      [] k = "Not"   -> ParseNot(toks)
      [] OTHER       -> Res(TRUE, toks, Leaf(k))

\* cfgparser_loop over table t, building rule r.  End in an Else table is
\* parse_end_else: it puts the End back, so the table the Else was found
\* in ends at it too, and one End closes an Else chain.  parse_sub_rewrite
\* and parse_else build a new rule with rewrite_rule_alloc (NULL) and
\* parse it with their table.
ParseLoop(t, toks, r) ==
    IF toks = <<>> THEN Fail
    ELSE LET k == Head(toks)
             more == Tail(toks) IN
    CASE k = "End" /\ t.end = "end" -> Res(TRUE, more, r)
      [] k = "End" -> Res(TRUE, toks, r)
      [] k = "Rewrite" /\ t.rewrite # "none" ->
           LET s == ParseLoop(Tabs[t.rewrite], more, NewRule) IN
           IF s.ok THEN ParseLoop(t, s.rest, AddOp(r, [k |-> "Rewrite", sub |-> <<s.val>>])) ELSE Fail
      [] k = "Else" /\ t.else # "none" ->
           LET s == ParseLoop(Tabs[t.else], more, NewRule) IN
           IF s.ok THEN ParseLoop(t, s.rest, [r EXCEPT !.else = <<s.val>>]) ELSE Fail
      [] k \in t.conds ->
           LET s == ParseCond(k, more) IN
           IF s.ok THEN ParseLoop(t, s.rest, AddCond(r, s.val)) ELSE Fail
      [] k \in t.ops -> ParseLoop(t, more, AddOp(r, Leaf(k)))
      [] OTHER -> Fail

(***************************************************************************)
(* A Service or ListenHTTP section: rw[REWRITE_REQUEST] and               *)
(* rw[REWRITE_RESPONSE] are the rule lists "request" and "response".       *)
(***************************************************************************)
\* A Service's or listener's lists start empty (SLIST_INIT).
EmptyChains == [request |-> <<>>, response |-> <<>>]

\* The last rule taken whatever its condition.
LastUncondAppend_Any(head, op) ==
    IF head # <<>>
      THEN [head EXCEPT ![Len(head)] = AddOp(@, op)]
      ELSE Append(head, AddOp(NewRule, op))

\* rewrite_rule_last_uncond: the last rule of the list when it has no
\* condition, else a new rule appended to the list; the op is appended to
\* that rule's operations.
LastUncondAppend(head, op) ==
    IF head # <<>> /\ head[Len(head)].cond = <<>>
      THEN [head EXCEPT ![Len(head)] = AddOp(@, op)]
      ELSE Append(head, AddOp(NewRule, op))

\* The op a section statement adds: SETFN_SVC_DECL's parse_svc_* and
\* parse_header_remove, whose op is a REWRITE_HDR_DEL.
BareOp == [SetURL |-> "SetURL", SetHeader |-> "SetHeader", DeleteHeader |-> "DeleteHeader",
           HeaderRemove |-> "DeleteHeader"]

\* parse_rewrite: the word after Rewrite picks the table and the list; the
\* rule is appended (rewrite_rule_alloc (head)) and then parsed.
RewriteTarget == [Rewrite |-> "request", RewriteRequest |-> "request", RewriteResponse |-> "response"]
RewriteTable == [request |-> "rule", response |-> "resp"]

\* The Rewrite statements of a ListenHTTP section (the listener's table;
\* a Service's has the same entries but HeaderRemove), read up to the
\* section's End.  Another word after Rewrite ("RewriteOther") is a
\* conf_error of parse_rewrite.
RECURSIVE ParseSection(_, _)
ParseSection(toks, rw) ==
    IF toks = <<>> THEN Res(FALSE, <<>>, rw)
    ELSE LET k == Head(toks) IN
    CASE k = "End" -> Res(TRUE, Tail(toks), rw)
      [] k \in DOMAIN RewriteTarget ->
           LET h == RewriteTarget[k]
               s == ParseLoop(Tabs[RewriteTable[h]], Tail(toks), NewRule) IN
           IF s.ok THEN ParseSection(s.rest, [rw EXCEPT ![h] = Append(@, s.val)])
                   ELSE Res(FALSE, <<>>, rw)
      [] k \in DOMAIN BareOp ->
           ParseSection(Tail(toks), [rw EXCEPT !.request = LastUncondAppend(@, Leaf(BareOp[k]))])
      [] OTHER -> Res(FALSE, <<>>, rw)

(***************************************************************************)
(* What a rule list does to a request (spec.md 4.2; the code applying the *)
(* rules is not in the repository).  env gives the truth of each basic    *)
(* condition; the result is the sequence of operations applied.            *)
(***************************************************************************)
RECURSIVE EvalCond(_, _)
EvalCond(c, env) ==
    CASE c.k = "Not"   -> ~EvalCond(c.sub[1], env)
      [] c.k = "Match" -> \A i \in DOMAIN c.sub : EvalCond(c.sub[i], env)
      [] OTHER         -> env[c.k]

RECURSIVE ApplyRule(_, _), ApplyOps(_, _)
\* A rule whose conditions all hold applies its operations in order, a
\* nested Rewrite being applied as a rule; otherwise its Else rule is.
ApplyRule(r, env) ==
    IF \A i \in DOMAIN r.cond : EvalCond(r.cond[i], env)
      THEN ApplyOps(r.ops, env)
      ELSE IF r.else # <<>> THEN ApplyRule(r.else[1], env) ELSE <<>>

ApplyOps(os, env) ==
    IF os = <<>> THEN <<>>
    ELSE (IF Head(os).k = "Rewrite" THEN ApplyRule(Head(os).sub[1], env) ELSE <<Head(os).k>>)
         \o ApplyOps(Tail(os), env)

RECURSIVE ApplyChain(_, _)
\* Every rule of a list, in order.
ApplyChain(rules, env) ==
    IF rules = <<>> THEN <<>> ELSE ApplyRule(Head(rules), env) \o ApplyChain(Tail(rules), env)

(***************************************************************************)
(* The password-file fix-up parse_config_file runs on every listener's   *)
(* and service's request rules once the file is read (for a chroot, a     *)
(* BasicAuth condition gets the directory its file is in).  Each result   *)
(* counts the BasicAuth conditions visited.                                *)
(***************************************************************************)
RECURSIVE CondFixup(_)
\* cond_pass_file_fixup: a BasicAuth condition, or the subconditions of a
\* COND_BOOL (NOT and Match) in turn.
CondFixup(c) ==
    IF c.k = "BasicAuth" THEN 1
    ELSE LET RECURSIVE Walk(_)
             Walk(i) == IF i > Len(c.sub) THEN 0 ELSE CondFixup(c.sub[i]) + Walk(i + 1)
         IN  Walk(1)

RECURSIVE RuleFixup(_)
\* rule_pass_file_fixup: the rule's condition (a COND_BOOL over its
\* conditions), then each rule of its iffalse chain.
RuleFixup(r) ==
    CondFixup([k |-> "Bool", sub |-> r.cond]) + (IF r.else # <<>> THEN RuleFixup(r.else[1]) ELSE 0)

RECURSIVE PassFileFixup(_)
\* pass_file_fixup: every rule of a list.
PassFileFixup(head) == IF head = <<>> THEN 0 ELSE RuleFixup(Head(head)) + PassFileFixup(Tail(head))

\* listener_pass_file_fixup: the request rules only.
ListenerPassFileFixup(rw) == PassFileFixup(rw.request)

=============================================================================

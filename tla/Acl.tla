-------------------------------- MODULE Acl ---------------------------------
(***************************************************************************)
(* ACLs of config.c: parsing an ACL body (parse_acl, parse_cidr,           *)
(* masklen_to_netmask), named ACLs and references (parse_named_acl,        *)
(* acl_by_name, parse_acl_ref), and matching an address against an ACL     *)
(* (acl_match, cidr_match, sockaddr_bytes).  These are pure functions of  *)
(* the token stream and the address, so they are operators.                *)
(*                                                                         *)
(* An address is its family and its bytes (a sequence of 4 or 16 numbers  *)
(* 0..255).  A CIDR token is the quoted string split at '/': the address  *)
(* getaddrinfo(AI_NUMERICHOST) parses (family "invalid" when it fails)   *)
(* and the text after the '/' (kind "none" without one), abstracted to    *)
(* what strtoul makes of it.  The lexer's include handling splices the    *)
(* included tokens into the stream; an "include" token records whether    *)
(* cfg_parse_include succeeded.                                            *)
(***************************************************************************)
EXTENDS Integers, Sequences, Bitwise

MAX_INADDR_BYTES == 16

\* sockaddr_bytes: the length of the address, -1 for another family.
SockaddrBytes(sa) ==
    CASE sa.fam = "inet"  -> 4
      [] sa.fam = "inet6" -> 16
      [] OTHER            -> -1

(***************************************************************************)
(* masklen_to_netmask(buf, len, masklen).  masklen is a size_t; the code  *)
(* keeps masklen / 8 in an int, so the loop bound is its low 32 bits.  A  *)
(* masklen is given here by the two numbers the code computes from it:    *)
(* q = (int)(masklen / 8) and r = masklen % 8.  The result is the bytes   *)
(* written, as a function from index to value; indices at or above        *)
(* MAX_INADDR_BYTES are past the mask array.                              *)
(***************************************************************************)
Shifted(cnt) == (255 \div 2^cnt) * 2^cnt     \* (0xff >> cnt) << cnt, cnt in 1..8

\* The partial byte computed from 7 - r instead of 8 - r.
MasklenToNetmask_Shift(q, r) ==
    LET full == IF q > 0 THEN q ELSE 0 IN
    IF full = MAX_INADDR_BYTES
      THEN [i \in 0..full - 1 |-> 255]
      ELSE [i \in 0..(IF full + 1 > MAX_INADDR_BYTES THEN full ELSE MAX_INADDR_BYTES - 1) |->
              IF i < full THEN 255 ELSE IF i = full THEN Shifted(7 - r) ELSE 0]

MasklenToNetmask(q, r) ==
    LET full == IF q > 0 THEN q ELSE 0 IN
    IF full = MAX_INADDR_BYTES
      THEN [i \in 0..full - 1 |-> 255]
      ELSE [i \in 0..(IF full + 1 > MAX_INADDR_BYTES THEN full ELSE MAX_INADDR_BYTES - 1) |->
              IF i < full THEN 255 ELSE IF i = full THEN Shifted(8 - r) ELSE 0]

\* strtoul on the text after '/': [ok, q, r].  A number n; nothing at all
\* (strtoul returns 0 and leaves *p on the terminating NUL); "-1", which
\* strtoul negates to ULONG_MAX, whose masklen / 8 has low 32 bits all
\* ones; anything else leaves *p on a non-digit ("invalid netmask").
StrToUlMask(t) ==
    CASE t.kind = "num"   -> [ok |-> TRUE, q |-> t.n \div 8, r |-> t.n % 8]
      [] t.kind = "empty" -> [ok |-> TRUE, q |-> 0, r |-> 0]
      [] t.kind = "neg1"  -> [ok |-> TRUE, q |-> -1, r |-> 7]
      [] OTHER            -> [ok |-> FALSE, q |-> 0, r |-> 0]

NoCidr == [family |-> "fail"]

\* parse_cidr on one string token: a CIDR record, or NoCidr.  The mask is
\* what masklen_to_netmask wrote; the network address is the written
\* address with the mask applied.
ParseCidr(tok) ==
    LET len == SockaddrBytes(tok.addr)
        m   == IF tok.mask.kind = "none" THEN [ok |-> TRUE, q |-> len, r |-> 0]
                                         ELSE StrToUlMask(tok.mask)
        buf == MasklenToNetmask(m.q, m.r)
    IN  IF tok.type # "string" \/ tok.addr.fam = "invalid" \/ len = -1 \/ ~m.ok
          THEN NoCidr
          ELSE [family |-> tok.addr.fam, len |-> len,
                addr |-> [i \in 0..len - 1 |-> tok.addr.bytes[i + 1] & buf[i]],
                mask |-> buf]

\* cidr_match: 0 on match.  An address of another length "matches".
CidrMatch(cidr, ap, len) ==
    IF cidr.len = len /\ \E i \in 0..len - 1 : cidr.addr[i] # (ap[i + 1] & cidr.mask[i])
      THEN 1 ELSE 0

\* acl_match: 0 when some CIDR of the ACL of the address's family matches,
\* 1 when none does, -1 for an unsupported family.
AclMatch(acl, sa) ==
    IF SockaddrBytes(sa) = -1 THEN -1
    ELSE IF \E k \in DOMAIN acl : acl[k].family = sa.fam
                                  /\ CidrMatch(acl[k], sa.bytes, SockaddrBytes(sa)) = 0
           THEN 0 ELSE 1

(***************************************************************************)
(* parse_acl: a newline, then CIDR strings (each SLIST_PUSHed, so the      *)
(* list is in reverse order), blank lines and "Include" until "End".      *)
(* Result: [rc, acl, rest] with rest the tokens after "End".              *)
(***************************************************************************)
RECURSIVE AclBody(_, _)
AclBody(toks, acl) ==
    IF toks = <<>> THEN [rc |-> "fail", acl |-> acl, rest |-> toks]
    ELSE LET t == Head(toks) IN
    CASE t.type = "nl" -> AclBody(Tail(toks), acl)
      [] t.type = "ident" /\ t.str = "end" -> [rc |-> "ok", acl |-> acl, rest |-> Tail(toks)]
      [] t.type = "ident" /\ t.str = "include" ->
            IF t.ok THEN AclBody(Tail(toks), acl) ELSE [rc |-> "fail", acl |-> acl, rest |-> toks]
      [] t.type = "ident" -> [rc |-> "fail", acl |-> acl, rest |-> toks]
      [] ParseCidr(t) = NoCidr -> [rc |-> "fail", acl |-> acl, rest |-> toks]
      [] OTHER -> AclBody(Tail(toks), <<ParseCidr(t)>> \o acl)

ParseAcl(toks) ==
    IF toks = <<>> \/ Head(toks).type # "nl"
      THEN [rc |-> "fail", acl |-> <<>>, rest |-> toks]
      ELSE AclBody(Tail(toks), <<>>)

\* acl_by_name over the list of named ACLs (a sequence of [name, acl]):
\* whether one is found, and the first one found.
AclNamed(list, name) == \E k \in DOMAIN list : list[k].name = name
AclByName(list, name) == list[CHOOSE k \in DOMAIN list : list[k].name = name].acl

\* parse_named_acl: ACL "name" followed by its body; a second ACL of the
\* same name is an error.  The new ACL is pushed before its body is parsed.
ParseNamedAcl(list, toks) ==
    IF toks = <<>> \/ Head(toks).type # "string" \/ AclNamed(list, Head(toks).str)
      THEN [rc |-> "fail", list |-> list, rest |-> toks]
      ELSE LET b == ParseAcl(Tail(toks)) IN
           [rc |-> b.rc, list |-> <<[name |-> Head(toks).str, acl |-> b.acl]>> \o list, rest |-> b.rest]

\* parse_acl_ref: a newline starts an unnamed ACL, a string names a
\* defined one.
ParseAclRef(list, toks) ==
    CASE toks = <<>> -> [rc |-> "fail", acl |-> <<>>, rest |-> toks]
      [] Head(toks).type = "nl" ->
            LET b == ParseAcl(toks) IN [rc |-> b.rc, acl |-> b.acl, rest |-> b.rest]
      [] Head(toks).type = "string" /\ AclNamed(list, Head(toks).str) ->
            [rc |-> "ok", acl |-> AclByName(list, Head(toks).str), rest |-> Tail(toks)]
      [] OTHER -> [rc |-> "fail", acl |-> <<>>, rest |-> toks]
=============================================================================

------------------------------ MODULE BasicAuth -------------------------------
(***************************************************************************)
(* get_user (http.c): the user name of a Basic Authorization header, for  *)
(* the log.  The header value is its scheme word (Basic in any case, or    *)
(* another) and the bytes after its first five: spaces, double quotes and *)
(* base64 tokens, a token standing for a run of base64 characters that    *)
(* decodes to "user:password" (UP), to text without a colon (U), or to     *)
(* nothing (X).                                                            *)
(*                                                                         *)
(* The operator gives the set of outcomes the libraries allow: BIO_new     *)
(* may fail, and what the base64 BIO makes of input that is not one token *)
(* (spaces, quotes or several tokens in it) is left open.  An outcome     *)
(* counts the BIO_free_all calls on the base64 chain and the BIO_free     *)
(* calls on the memory BIO.                                                *)
(***************************************************************************)
EXTENDS Integers, Sequences

SPC == "sp"
QUOTE == "q"
Tokens == {"UP", "U", "X"}

IsSpace(c) == c = SPC

\* C's s[k] (0-based) of a string s, with its terminating NUL.
CharAt(s, k) == IF k < Len(s) THEN s[k + 1] ELSE "nul"

\* The first index (0-based) from k on that is not a space.
RECURSIVE SkipSpaces(_, _)
SkipSpaces(s, k) == IF k < Len(s) /\ IsSpace(s[k + 1]) THEN SkipSpaces(s, k + 1) ELSE k

\* while (len > 0 && isspace (hdrval[len-1])) len--;
RECURSIVE TrimRight(_, _)
TrimRight(s, len) == IF len > 0 /\ IsSpace(s[len]) THEN TrimRight(s, len - 1) ELSE len

\* [ok, in]: the bytes handed to the base64 BIO, or not ok (return 1).  A
\* quoted value loses its opening quote and trailing spaces, must have a
\* quote at hdrval[len], and loses one more byte.
Credentials(rest) ==
    LET s == SubSeq(rest, SkipSpaces(rest, 0) + 1, Len(rest)) IN
    IF CharAt(s, 0) # QUOTE THEN [ok |-> TRUE, in |-> s]
    ELSE LET q   == Tail(s)
             len == TrimRight(q, Len(q))
         IN  IF len = 0 \/ CharAt(q, len) # QUOTE THEN [ok |-> FALSE, in |-> <<>>]
             ELSE [ok |-> TRUE, in |-> SubSeq(q, 1, len - 1)]

\* What BIO_read on the base64 chain gives for the bytes in: the length
\* read (positive or not) and whether the text has a ':'.  Of bytes that
\* are not one token the BIO may decode nothing, or the tokens.
Decoded(in) ==
    CASE in = <<"UP">> -> {[inlen |-> 1, colon |-> TRUE]}
      [] in = <<"U">>  -> {[inlen |-> 1, colon |-> FALSE]}
      [] in \in {<<>>, <<"X">>} -> {[inlen |-> 0, colon |-> FALSE]}
      [] OTHER -> {[inlen |-> n, colon |-> n > 0 /\ \E k \in DOMAIN in : in[k] = "UP"] : n \in {0, 1}}

Outcome(rc, user, chain, mem) == [rc |-> rc, user |-> user, chainFrees |-> chain, memFrees |-> mem]

\* memchr (buf, ':', inlen) finds a colon.
HasColon(d) == d.colon

\* BIO_free_all (b64) after the read, and on inlen <= 0 once more.
ChainFrees(d) == IF d.inlen <= 0 THEN 2 ELSE 1

\* get_user (hdrval, &u_name): the set of outcomes.
GetUser(v) ==
    LET cred == Credentials(v.rest) IN
    IF v.scheme # "basic" \/ ~cred.ok THEN {Outcome(1, "none", 0, 0)}
    ELSE {Outcome(-1, "none", 0, 0), Outcome(-1, "none", 0, 1)}   \* BIO_new fails
         \cup {IF d.inlen <= 0 \/ ~HasColon(d) \/ nomem
                 THEN Outcome(-1, "none", ChainFrees(d), 0)
                 ELSE Outcome(0, "user", ChainFrees(d), 0) : d \in Decoded(cred.in), nomem \in BOOLEAN}
================================================================================

------------------------------ MODULE Redirect ------------------------------
(***************************************************************************)
(* Redirect backends in http.c: expand_url, which fills the backend's URL  *)
(* template with the submatches of the request URL, and the loop of        *)
(* redirect_reply that makes the Location URL safe by percent-encoding.   *)
(* Strings are sequences of bytes (0..255); the submatches are given as    *)
(* the byte strings they select.                                           *)
(***************************************************************************)
EXTENDS Integers, Sequences
LOCAL INSTANCE SequencesExt

DOLLAR == 36
IsDigit(c) == c \in 48..57

\* The number strtoul reads from the digits at the start of s, and how many
\* digits it read.
RECURSIVE DigitRun(_)
DigitRun(s) == IF s # <<>> /\ IsDigit(Head(s)) THEN 1 + DigitRun(Tail(s)) ELSE 0
RECURSIVE DigitsValue(_)
DigitsValue(s) == IF s = <<>> THEN 0 ELSE DigitsValue(Front(s)) * 10 + (Last(s) - 48)

(***************************************************************************)
(* expand_url(url, orig_url, sm, redir_req): [rc, out, redir].  rc "ok";   *)
(* "hang" when an iteration of the loop leaves url where it was, so the    *)
(* loop never ends; "overread" when url steps over its terminating NUL    *)
(* and the loop goes on reading the bytes after it.                        *)
(***************************************************************************)
RECURSIVE Expand(_, _, _, _)
Expand(url, sm, out, redir) ==
    LET p    == SelectInSeq(url, LAMBDA c : c = DOLLAR)
        len  == IF p = 0 THEN Len(url) ELSE p - 1
        out1 == out \o SubSeq(url, 1, len)
        rest == SubSeq(url, len + 1, Len(url))
        d    == DigitRun(Tail(rest))
        n    == DigitsValue(SubSeq(rest, 2, d + 1))
    IN  CASE rest = <<>>        -> [rc |-> "ok", out |-> out1, redir |-> redir]
          [] Len(rest) = 1      -> [rc |-> "overread", out |-> Append(out1, DOLLAR), redir |-> redir]
          [] rest[2] = DOLLAR   -> Expand(SubSeq(rest, 3, Len(rest)), sm, Append(out1, DOLLAR), redir)
          [] IsDigit(rest[2])   ->
                Expand(SubSeq(rest, d + 2, Len(rest)), sm,
                       out1 \o (IF n < Len(sm) THEN sm[n + 1] ELSE SubSeq(rest, 1, d + 1)), TRUE)
          [] OTHER              -> [rc |-> "hang", out |-> out1, redir |-> redir]

\* Without a $n in the template, the original URL is appended.
ExpandUrl(url, orig, sm, redir_req) ==
    LET e == Expand(url, sm, <<>>, redir_req) IN
    [e EXCEPT !.out = IF e.redir THEN @ ELSE @ \o orig]

(***************************************************************************)
(* The Location URL: isalnum and _ . : / ? & ; - = are kept, every other   *)
(* byte is printed with "%%%02x" from a char, which is a negative int for *)
(* a byte above 127 where char is signed, printed as 8 hex digits.        *)
(***************************************************************************)
SafeByte(c) == c \in (48..57) \cup (65..90) \cup (97..122) \cup {95, 46, 58, 47, 63, 38, 59, 45, 61}

HexChar(d) == IF d < 10 THEN 48 + d ELSE 87 + d

RECURSIVE HexDigits(_, _)
HexDigits(v, w) == IF w = 0 THEN <<>> ELSE Append(HexDigits(v \div 16, w - 1), HexChar(v % 16))

\* printf("%02x", c) for the int c a char promotes to: c - 256, whose 32
\* bits are ffffff and the byte.
Printf02x(c, signed) ==
    IF signed /\ c > 127 THEN <<102, 102, 102, 102, 102, 102>> \o HexDigits(c, 2) ELSE HexDigits(c, 2)

SafeUrl(xurl, signed) ==
    FlattenSeq([i \in 1..Len(xurl) |->
                  IF SafeByte(xurl[i]) THEN <<xurl[i]>> ELSE <<37>> \o Printf02x(xurl[i], signed)])
=============================================================================

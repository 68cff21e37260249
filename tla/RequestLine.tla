---------------------------- MODULE RequestLine ----------------------------
(***************************************************************************)
(* The request line of http.c: find_method, decode_url and                 *)
(* parse_http_request, as operators.  A URL is a sequence of bytes (0..255)*)
(* and decode_url is modelled byte by byte.  The rest of the line is       *)
(* abstracted to its words and the runs of spaces between them: a method   *)
(* word (a name of the method table, or another name, with or without     *)
(* characters after it), a URL word (its bytes), a version word.          *)
(***************************************************************************)
EXTENDS Integers, Sequences
LOCAL INSTANCE SequencesExt

PCT == 37   \* '%'

\* The methods table: name and group (the order does not matter, since no
\* name is a prefix of another).
Methods == [GET |-> 0, POST |-> 0, HEAD |-> 0, PUT |-> 1, PATCH |-> 1, DELETE |-> 1,
            LOCK |-> 2, PROPFIND |-> 2, OPTIONS |-> 2, SUBSCRIBE |-> 3, CONNECT |-> 3,
            RPC_IN_DATA |-> 4, RPC_OUT_DATA |-> 4]

\* A lowercase hex digit taken at its index in xdig, without the -6.
HexVal_NoAdjust(c) ==
    CASE c \in 48..57  -> c - 48
      [] c \in 65..70  -> c - 55
      [] c \in 97..102 -> c - 81
      [] OTHER         -> -1

\* The value of a byte in xdig = "0123456789ABCDEFabcdef", -1 when strchr
\* finds none.
HexVal(c) ==
    CASE c \in 48..57  -> c - 48
      [] c \in 65..70  -> c - 55
      [] c \in 97..102 -> (c - 81) - 6     \* p - xdig is 16..21, less 6
      [] OTHER         -> -1

(***************************************************************************)
(* decode_url(res, src, len): [rc, url].  rc is 0, or 1 when a %XX decodes *)
(* to the byte 0.  The bytes up to the next '%' are copied; a '%' with     *)
(* fewer than two bytes after it ends the copy; a '%' and a non-hex byte   *)
(* are copied as two bytes, a '%', a hex and a non-hex byte as three.     *)
(***************************************************************************)
RECURSIVE Decode(_, _)
Decode(src, out) ==
    LET p    == SelectInSeq(src, LAMBDA c : c = PCT)
        n    == IF p = 0 THEN Len(src) ELSE p - 1
        out1 == out \o SubSeq(src, 1, n)
        rest == SubSeq(src, n + 1, Len(src))
    IN  CASE rest = <<>>                 -> [rc |-> 0, url |-> out1]
          [] Len(rest) < 3              -> [rc |-> 0, url |-> out1 \o rest]
          [] HexVal(rest[2]) = -1       -> Decode(SubSeq(rest, 3, Len(rest)), out1 \o SubSeq(rest, 1, 2))
          [] HexVal(rest[3]) = -1       -> Decode(SubSeq(rest, 4, Len(rest)), out1 \o SubSeq(rest, 1, 3))
          [] HexVal(rest[2]) * 16 + HexVal(rest[3]) = 0 -> [rc |-> 1, url |-> <<>>]
          [] OTHER -> Decode(SubSeq(rest, 4, Len(rest)), Append(out1, HexVal(rest[2]) * 16 + HexVal(rest[3])))

DecodeUrl(src) == Decode(src, <<>>)

\* find_method(str, len): strncasecmp(m->name, str, m->length) on the
\* line, so any word that starts with a method's name finds it.
FindMethod(word) == IF word.k = "meth" /\ word.name \in DOMAIN Methods THEN word.name ELSE "none"

\* The group compared with >=.
MethodRefused_Ge(m, verb) == Methods[m] >= verb

\* md->group > group
MethodRefused(m, verb) == Methods[m] > verb

(***************************************************************************)
(* parse_http_request(req, group) on a line: [rc, method, url, version].  *)
(* A line is a sequence of words and "SP" runs.                            *)
(***************************************************************************)
SP == [k |-> "sp"]
IsSp(e) == e.k = "sp"

\* str += strspn(str, " "): the index of the first element that is not SP.
SkipSp(line, i) == IF i <= Len(line) /\ IsSp(line[i]) THEN i + 1 ELSE i

ParseHttpRequest(line, verb) ==
    LET fail == [rc |-> -1, method |-> "none", url |-> <<>>, version |-> -1]
        m    == IF line = <<>> \/ IsSp(line[1]) THEN "none" ELSE FindMethod(line[1])
        u    == SkipSp(line, 2)                  \* the URL word
        v    == SkipSp(line, u + 1)              \* the version word
        ok   == /\ v = Len(line)
                /\ line[v].k = "ver" /\ line[v].v \in {"HTTP/1.0", "HTTP/1.1"}
        url  == IF line[u].k = "url" THEN line[u].bytes ELSE <<>>
    IN  CASE m = "none" -> fail
          [] MethodRefused(m, verb) -> fail
          [] u > Len(line) -> fail
          [] ~ok -> fail
          [] DecodeUrl(url).rc # 0 -> fail
          [] OTHER -> [rc |-> 0, method |-> m, url |-> DecodeUrl(url).url,
                       version |-> IF line[v].v = "HTTP/1.0" THEN 0 ELSE 1]
=============================================================================

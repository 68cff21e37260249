------------------------------ MODULE HostMatch ------------------------------
(***************************************************************************)
(* Host conditions of config.c: parse_match_mode reads the options before  *)
(* the pattern (-re, -exact, -beg, -end, -contain, -icase, -case, -file,   *)
(* -posix, -pcre), and host_prefix_regex turns the pattern into a POSIX    *)
(* regex over the "Host:" header line, escaping the pattern with           *)
(* stringbuf_escape_regex for the exact, prefix, suffix and contain modes. *)
(*                                                                         *)
(* A regex is a sequence of elements: the anchors "^" and "$", the text    *)
(* "Host:", [[:space:]] repeated, dot-star, an escaped byte, and a byte of *)
(* the pattern copied as it is.  A header line is HOST (the text "Host:") *)
(* followed by bytes.  MatchRegex is regexec's search for the constructs   *)
(* these regexes contain (libc, not pound).                                *)
(***************************************************************************)
EXTENDS Integers, Sequences

\* Bytes used by the model.
SPACE == 32
DOT == 46
HOST == -1

Bol == [k |-> "bol"]
Eol == [k |-> "eol"]
HostText == [k |-> "host"]
Spaces == [k |-> "spaces"]
AnyStar == [k |-> "any"]
Esc(c) == [k |-> "esc", c |-> c]
Raw(c) == [k |-> "raw", c |-> c]

\* The escaped characters without the dot.
RegexSpecials_NoDot == {92, 91, 93, 123, 125, 40, 41, 42, 43, 63}

\* The characters stringbuf_escape_regex escapes: \ [ ] { } ( ) . * + ?
RegexSpecials == {92, 91, 93, 123, 125, 40, 41, 46, 42, 43, 63}

\* stringbuf_escape_regex(sb, p)
EscapeRegex(p) ==
    [i \in 1..Len(p) |-> IF p[i] \in RegexSpecials THEN Esc(p[i]) ELSE Raw(p[i])]

(***************************************************************************)
(* parse_match_mode: the option words up to the pattern string.  Result    *)
(* [rc, gp, icase, file]; an unknown word, or -file where the caller does *)
(* not allow it, fails.                                                    *)
(***************************************************************************)
ModeOf == [re |-> "dfl", exact |-> "EXACT", beg |-> "PREFIX", end |-> "SUFFIX",
           contain |-> "CONTAIN", posix |-> "POSIX", pcre |-> "PCRE"]

RECURSIVE MatchMode(_, _, _, _, _, _)
MatchMode(opts, dfl, gp, icase, file, fileok) ==
    IF opts = <<>> THEN [rc |-> 0, gp |-> gp, icase |-> icase, file |-> file]
    ELSE LET o == Head(opts) IN
    CASE o = "icase" -> MatchMode(Tail(opts), dfl, gp, TRUE, file, fileok)
      [] o = "case"  -> MatchMode(Tail(opts), dfl, gp, FALSE, file, fileok)
      [] o = "file" /\ fileok -> MatchMode(Tail(opts), dfl, gp, icase, TRUE, fileok)
      [] o = "re"    -> MatchMode(Tail(opts), dfl, dfl, icase, file, fileok)
      [] o \in DOMAIN ModeOf -> MatchMode(Tail(opts), dfl, ModeOf[o], icase, file, fileok)
      [] OTHER -> [rc |-> -1, gp |-> gp, icase |-> icase, file |-> file]

ParseMatchMode(opts, dfl, gp, icase, fileok) == MatchMode(opts, dfl, gp, icase, FALSE, fileok)

(***************************************************************************)
(* host_prefix_regex(sb, gp_type, expr): the regex, and the mode it is    *)
(* compiled with.                                                          *)
(***************************************************************************)
HostPrefixRegex(gp, expr) ==
    LET head   == <<Bol, HostText>>
        noCaret == IF expr # <<>> /\ Head(expr) = 94 THEN Tail(expr) ELSE expr
    IN
    CASE gp = "POSIX"   -> [re |-> head \o <<Spaces>> \o [i \in 1..Len(noCaret) |-> Raw(noCaret[i])], gp |-> "POSIX"]
      [] gp \in {"EXACT", "PREFIX"} ->
                           [re |-> head \o <<Spaces>> \o EscapeRegex(expr), gp |-> "POSIX"]
      [] gp = "SUFFIX"  -> [re |-> head \o <<Spaces, AnyStar>> \o EscapeRegex(expr) \o <<Eol>>, gp |-> "POSIX"]
      [] gp = "CONTAIN" -> [re |-> head \o <<Spaces, AnyStar>> \o EscapeRegex(expr), gp |-> "POSIX"]

\* parse_cond_host: a Host condition, exact and case-insensitive unless its
\* options say otherwise, with dfl the configured default regex type.  A
\* pattern read from a file is ParseCondHostFile.
ParseCondHost(opts, dfl, expr) ==
    LET m == ParseMatchMode(opts, dfl, "EXACT", TRUE, TRUE) IN
    IF m.rc # 0 THEN [rc |-> -1, re |-> <<>>]
    ELSE [rc |-> 0, re |-> HostPrefixRegex(m.gp, expr).re]

(***************************************************************************)
(* parse_cond_matcher_0 with -file, for a Host condition: every line of   *)
(* the file, blanks and tabs trimmed, empty and '#' lines skipped, becomes *)
(* a regex of an OR condition.  host_prefix_regex is called with the same *)
(* gp_type variable for every line, and may change it.                    *)
(***************************************************************************)
TAB == 9
HASH == 35
NL == 10

RECURSIVE TrimLead(_)
TrimLead(p) == IF p # <<>> /\ Head(p) \in {SPACE, TAB} THEN TrimLead(Tail(p)) ELSE p

RECURSIVE TrimTrail(_)
TrimTrail(p) == IF p # <<>> /\ p[Len(p)] \in {SPACE, TAB, NL} THEN TrimTrail(SubSeq(p, 1, Len(p) - 1)) ELSE p

TrimLine(p) == TrimTrail(TrimLead(p))

\* The regexes of the lines, gp being the mode the previous line left.
RECURSIVE HostFileRegexes(_, _)
HostFileRegexes(gp, lines) ==
    IF lines = <<>> THEN <<>>
    ELSE LET p == TrimLine(Head(lines)) IN
         IF p = <<>> \/ Head(p) = HASH THEN HostFileRegexes(gp, Tail(lines))
         ELSE LET h == HostPrefixRegex(gp, p) IN <<h.re>> \o HostFileRegexes(h.gp, Tail(lines))

\* parse_cond_host on options that include -file, the file's lines given.
ParseCondHostFile(opts, dfl, lines) ==
    LET m == ParseMatchMode(opts, dfl, "EXACT", TRUE, TRUE) IN
    IF m.rc # 0 THEN [rc |-> -1, res |-> <<>>]
    ELSE [rc |-> 0, res |-> HostFileRegexes(m.gp, lines)]

(***************************************************************************)
(* regexec: some position of the line starts a match of the regex.  A     *)
(* pattern byte copied as it is is a literal, except "." (any byte).       *)
(***************************************************************************)
RECURSIVE MatchAt(_, _, _)
MatchAt(re, line, i) ==
    IF re = <<>> THEN TRUE
    ELSE LET h == Head(re)
             lit(c) == i <= Len(line) /\ line[i] = c /\ MatchAt(Tail(re), line, i + 1)
         IN
    CASE h = Bol -> i = 1 /\ MatchAt(Tail(re), line, i)
      [] h = Eol -> i = Len(line) + 1 /\ MatchAt(Tail(re), line, i)
      [] h = Spaces -> \E j \in i..Len(line) + 1 :
                          (\A k \in i..j - 1 : line[k] = SPACE) /\ MatchAt(Tail(re), line, j)
      [] h = AnyStar -> \E j \in i..Len(line) + 1 : MatchAt(Tail(re), line, j)
      [] h = HostText -> lit(HOST)
      [] h = Raw(DOT) -> i <= Len(line) /\ line[i] # HOST /\ MatchAt(Tail(re), line, i + 1)
      [] OTHER -> lit(h.c)

MatchRegex(re, line) == \E i \in 1..Len(line) + 1 : MatchAt(re, line, i)

\* A BOOL_OR condition of regexes.
MatchAny(res, line) == \E k \in DOMAIN res : MatchRegex(res[k], line)
=============================================================================

------------------------------ MODULE HeaderList ------------------------------
(***************************************************************************)
(* The header list and the request record of http.c: qualify_header, the   *)
(* http_header_* helpers, the http_header_list_* operations, the lookup    *)
(* of a header's value, http_request_free and http_request_read.  Each is  *)
(* an operator from the list (and its arguments) to its result.            *)
(*                                                                         *)
(* A header line is either a text the HEADER regex matches, abstracted to  *)
(* its name, case aside (a name of qualify_header's table, or another      *)
(* one; with or without characters after it) and its value, or Bad, a      *)
(* text it does not match.  A header is [text, code, value], value being   *)
(* the string http_header_get_value caches, NoValue before that.           *)
(* get_line's result on the stream is a sequence of [res, buf]: what it    *)
(* returns and what it leaves in buf; the stream's end is [res 1, Blank].  *)
(***************************************************************************)
EXTENDS Integers, Sequences
LOCAL INSTANCE SequencesExt

Bad == [k |-> "bad"]
Blank == [k |-> "blank"]
NoValue == "none"
Text(name, extra, val) == [k |-> "hdr", name |-> name, extra |-> extra, val |-> val]

\* hd_types of qualify_header, in its order.
HdTypes ==
    <<[h |-> "Transfer-encoding", v |-> "TRANSFER_ENCODING"],
      [h |-> "Content-length",    v |-> "CONTENT_LENGTH"],
      [h |-> "Connection",        v |-> "CONNECTION"],
      [h |-> "Location",          v |-> "LOCATION"],
      [h |-> "Content-location",  v |-> "CONTLOCATION"],
      [h |-> "Host",              v |-> "HOST"],
      [h |-> "Referer",           v |-> "REFERER"],
      [h |-> "User-agent",        v |-> "USER_AGENT"],
      [h |-> "Destination",       v |-> "DESTINATION"],
      [h |-> "Expect",            v |-> "EXPECT"],
      [h |-> "Upgrade",           v |-> "UPGRADE"],
      [h |-> "Authorization",     v |-> "AUTHORIZATION"]>>

\* The name of t has the length of entry i and equals it, case aside.
NameIs(t, i) == t.name = HdTypes[i].h /\ ~t.extra

\* qualify_header: the code of a header text.
Qualify(t) ==
    IF t.k # "hdr" THEN "ILLEGAL"
    ELSE IF \E i \in DOMAIN HdTypes : NameIs(t, i)
      THEN HdTypes[CHOOSE i \in DOMAIN HdTypes : NameIs(t, i)
                      /\ \A j \in 1..i - 1 : ~NameIs(t, j)].v
      ELSE "OTHER"

\* http_header_alloc
HeaderAlloc(t) == [text |-> t, code |-> Qualify(t), value |-> NoValue]

\* http_header_change: the text replaced and qualified again; the cached
\* value is left as it was.
HeaderChange(h, t) == [h EXCEPT !.text = t, !.code = Qualify(t)]

\* http_header_copy_value(hdr, buf, len): the bytes it writes into a
\* buffer of len bytes.  len < n sets len, not n, so nothing is cut.
HeaderCopyValue(n, len) ==
    IF len = 0 THEN [rc |-> -1, written |-> 0]
    ELSE [rc |-> 0, written |-> n + 1]

\* http_header_get_value: the header with its value cached.
HeaderGetValue(h) == IF h.value = NoValue THEN [h EXCEPT !.value = h.text.val] ELSE h

\* http_header_list_append: [rc, list]; an illegal text is not appended.
ListAppend(list, t) ==
    IF Qualify(t) = "ILLEGAL" THEN [rc |-> 1, list |-> list]
    ELSE [rc |-> 0, list |-> Append(list, HeaderAlloc(t))]

\* http_header_list_append_list: the texts of add appended up to the first
\* that fails; that failure is -1, and what was appended stays.
RECURSIVE ListAppendList(_, _)
ListAppendList(list, add) ==
    IF add = <<>> THEN [rc |-> 0, list |-> list]
    ELSE LET r == ListAppend(list, Head(add).text) IN
         IF r.rc # 0 THEN [rc |-> -1, list |-> r.list] ELSE ListAppendList(r.list, Tail(add))

\* http_header_list_remove
ListRemove(list, i) == RemoveAt(list, i)

\* http_header_list_locate: the index of the first header of the code, 0
\* for none.
ListLocate(list, code) ==
    IF \E i \in DOMAIN list : list[i].code = code
      THEN CHOOSE i \in DOMAIN list : list[i].code = code /\ \A j \in 1..i - 1 : list[j].code # code
      ELSE 0

\* http_request_header_value: [list, value], the list with the located
\* header's value cached; NoValue when there is none.
RequestHeaderValue(list, code) ==
    LET i == ListLocate(list, code) IN
    IF i = 0 THEN [list |-> list, value |-> NoValue]
    ELSE LET h == HeaderGetValue(list[i]) IN [list |-> [list EXCEPT ![i] = h], value |-> h.value]

\* http_request_init / http_request_free: no request line, no headers.
EmptyRequest == [request |-> Blank, headers |-> <<>>]

(***************************************************************************)
(* http_request_read(in, lstn, req): [rc, request, headers].  Leading      *)
(* empty lines are skipped; the first other result of get_line is the      *)
(* request line unless it is negative; then header lines until an empty    *)
(* one, each allocated and the illegal ones dropped.  Any nonzero result   *)
(* of get_line for a header line frees the request.                        *)
(***************************************************************************)
LineAt(in, i) == IF i <= Len(in) THEN in[i] ELSE [res |-> 1, buf |-> Blank]

RECURSIVE FirstLine(_, _)
FirstLine(in, i) ==
    IF LineAt(in, i).res = 0 /\ LineAt(in, i).buf = Blank THEN FirstLine(in, i + 1) ELSE i

RECURSIVE ReadHeaders(_, _, _)
ReadHeaders(in, i, req) ==
    LET l == LineAt(in, i) IN
    CASE l.res # 0        -> [rc |-> -1, request |-> Blank, headers |-> <<>>]
      [] l.buf = Blank    -> [rc |-> 0, request |-> req.request, headers |-> req.headers]
      [] Qualify(l.buf) = "ILLEGAL" -> ReadHeaders(in, i + 1, req)
      [] OTHER -> ReadHeaders(in, i + 1, [req EXCEPT !.headers = Append(@, HeaderAlloc(l.buf))])

RequestRead(in) ==
    LET i == FirstLine(in, 1) IN
    IF LineAt(in, i).res < 0 THEN [rc |-> -1, request |-> Blank, headers |-> <<>>]
    ELSE ReadHeaders(in, i + 1, [request |-> LineAt(in, i).buf, headers |-> <<>>])
================================================================================

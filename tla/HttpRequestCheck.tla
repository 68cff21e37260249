-------------------------- MODULE HttpRequestCheck --------------------------
(***************************************************************************)
(* The request-validation part of do_http (src/src/http.c): the request   *)
(* line is checked against the listener's verb group, the header list is  *)
(* scanned once, in order, by the DLIST_FOREACH_SAFE loop (one ScanHeader *)
(* step per header), the listener's HeaderRemove filters are applied, the  *)
(* smuggling and size guards decide the reply, and the body-copy branch    *)
(* decides how the request body is forwarded to the backend.              *)
(*                                                                         *)
(* Data is abstracted to what the guards tell apart: a header is a record  *)
(* with its classification code (qualify_header), an abstract value and a *)
(* form: a Content-length value is "num" (strtol parses all of it, val is *)
(* the number), "list" (it contains a comma) or "junk" (strtol leaves     *)
(* trailing characters or overflows).                                     *)
(***************************************************************************)
EXTENDS Integers, Sequences, FiniteSets

CONSTANTS
    Methods,        \* request methods the client may send
    Requests,       \* the set of possible requests [method, version, headers]
    Verb,           \* listener->verb: highest permitted method group (0..4)
    MaxReq,         \* listener->max_req (0 = unlimited)
    RpcMinLen,      \* 0x20000 in the code, scaled
    RpcMaxLen,      \* 0x80000000 in the code, scaled
    HeadOff         \* header codes removed by the listener's HeaderRemove

ASSUME Verb \in 0..4 /\ MaxReq \in Nat /\ RpcMinLen < RpcMaxLen

\* Group of each method, from the methods[] table.
MethodGroup(m) ==
    CASE m \in {"GET", "POST", "HEAD"} -> 0
      [] m \in {"PUT", "PATCH", "DELETE"} -> 1
      [] m \in {"LOCK", "UNLOCK", "PROPFIND", "PROPPATCH", "SEARCH", "MKCOL", "MOVE",
                "COPY", "OPTIONS", "TRACE", "MKACTIVITY", "CHECKOUT", "MERGE", "REPORT"} -> 2
      [] m \in {"SUBSCRIBE", "UNSUBSCRIBE", "BPROPPATCH", "POLL", "BMOVE", "BCOPY",
                "BDELETE", "BPROPFIND", "NOTIFY", "CONNECT"} -> 3
      [] m \in {"RPC_IN_DATA", "RPC_OUT_DATA"} -> 4

\* L_1, the "no Content-length seen" sentinel of the code.
L_1 == -1

VARIABLES
    req,      \* the request being processed
    i,        \* index of the next header the scan looks at
    status,   \* "scan", "ok" or the error reply: "400", "413", "501"
    chunked,  \* Transfer-encoding: chunked seen
    cont,     \* parsed Content-length, L_1 if none
    is_rpc,   \* -1 none, 0 RPC_OUT_DATA, 1 RPC_IN_DATA
    conn_closed,
    is_ws,    \* set of WSS_REQ_* flags collected so far
    hdrs,     \* the header list that will be forwarded
    framing   \* how the body is copied to the backend

vars == <<req, i, status, chunked, cont, is_rpc, conn_closed, is_ws, hdrs, framing>>

\* strtol on a Content-length value (errno || *p rejects it)
ClParses(h) == h.form = "num"

-----------------------------------------------------------------------------
(* Loop head: request state is reset, the request line parsed             *)
(* (parse_http_request rejects a method of a group above listener->verb   *)
(* with 501), and is_rpc / is_ws seeded from the method.                  *)
Init ==
    /\ req \in Requests
    /\ i = 1
    /\ status = IF MethodGroup(req.method) > Verb THEN "501" ELSE "scan"
    /\ chunked = 0
    /\ cont = L_1
    /\ is_rpc = CASE req.method = "RPC_IN_DATA" -> 1
                  [] req.method = "RPC_OUT_DATA" -> 0
                  [] OTHER -> -1
    /\ conn_closed = FALSE
    /\ is_ws = IF req.method = "GET" THEN {"REQ_GET"} ELSE {}
    /\ hdrs = req.headers
    /\ framing = "none"

\* Remove the header at position k from the forwarded list.
RemoveAt(s, k) == SubSeq(s, 1, k - 1) \o SubSeq(s, k + 1, Len(s))

\* Position in hdrs of the i-th header of the request (removed headers
\* shift the later ones down).
Pos == i - (Len(req.headers) - Len(hdrs))

(* Mutants of ScanContentLength, each a plausible slip in that case:     *)
(* the negative value kept in the forwarded list, the "second             *)
(* Content-length" test dropped, the RPC window one wider at each end.  *)
ScanContentLength_KeepNegative(h) ==
    IF cont # L_1 \/ h.form = "list" \/ ~ClParses(h)
      THEN status' = "400" /\ UNCHANGED <<chunked, cont, is_rpc, conn_closed, is_ws, hdrs>>
      ELSE /\ cont' = h.val
           /\ is_rpc' = IF is_rpc = 1 /\ (h.val < RpcMinLen \/ h.val > RpcMaxLen)
                          THEN -1 ELSE is_rpc
           /\ UNCHANGED <<status, chunked, conn_closed, is_ws, hdrs>>

ScanContentLength_NoDupCheck(h) ==
    IF h.form = "list" \/ ~ClParses(h)
      THEN status' = "400" /\ UNCHANGED <<chunked, cont, is_rpc, conn_closed, is_ws, hdrs>>
      ELSE /\ cont' = h.val
           /\ hdrs' = IF h.val < 0 THEN RemoveAt(hdrs, Pos) ELSE hdrs
           /\ is_rpc' = IF is_rpc = 1 /\ (h.val < RpcMinLen \/ h.val > RpcMaxLen)
                          THEN -1 ELSE is_rpc
           /\ UNCHANGED <<status, chunked, conn_closed, is_ws>>

ScanContentLength_RpcWindowWide(h) ==
    IF cont # L_1 \/ h.form = "list" \/ ~ClParses(h)
      THEN status' = "400" /\ UNCHANGED <<chunked, cont, is_rpc, conn_closed, is_ws, hdrs>>
      ELSE /\ cont' = h.val
           /\ hdrs' = IF h.val < 0 THEN RemoveAt(hdrs, Pos) ELSE hdrs
           /\ is_rpc' = IF is_rpc = 1 /\ (h.val < RpcMinLen - 1 \/ h.val > RpcMaxLen + 1)
                          THEN -1 ELSE is_rpc
           /\ UNCHANGED <<status, chunked, conn_closed, is_ws>>

(* The HEADER_CONTENT_LENGTH case: a second Content-length, a list or an  *)
(* unparsable value is refused with 400; a negative value is removed from *)
(* the forwarded list; RPC_IN_DATA outside the RPC window loses its RPC   *)
(* mode.                                                                  *)
ScanContentLength(h) ==
    IF cont # L_1 \/ h.form = "list" \/ ~ClParses(h)
      THEN /\ status' = "400"
           /\ UNCHANGED <<chunked, cont, is_rpc, conn_closed, is_ws, hdrs>>
      ELSE /\ cont' = h.val
           /\ hdrs' = IF h.val < 0 THEN RemoveAt(hdrs, Pos) ELSE hdrs
           /\ is_rpc' = IF is_rpc = 1 /\ (h.val < RpcMinLen \/ h.val > RpcMaxLen)
                          THEN -1 ELSE is_rpc
           /\ UNCHANGED <<status, chunked, conn_closed, is_ws>>

ScanTransferEncoding_Count(h) ==
    /\ IF h.val = "chunked"
         THEN chunked' = chunked + 1 /\ status' = status
         ELSE status' = "400" /\ chunked' = chunked
    /\ UNCHANGED <<cont, is_rpc, conn_closed, is_ws, hdrs>>

(* The HEADER_TRANSFER_ENCODING case: "chunked" sets the flag, any other  *)
(* coding is refused with 400.                                            *)
ScanTransferEncoding(h) ==
    /\ IF h.val = "chunked"
         THEN chunked' = 1 /\ status' = status
         ELSE status' = "400" /\ chunked' = chunked
    /\ UNCHANGED <<cont, is_rpc, conn_closed, is_ws, hdrs>>

(* One iteration of the header loop over hdr = req.headers[i].           *)
ScanHeader ==
    /\ status = "scan"
    /\ i <= Len(req.headers)
    /\ LET h == req.headers[i] IN
       CASE h.code = "Connection" ->
              /\ conn_closed' = (conn_closed \/ h.val = "close")
              /\ is_ws' = IF h.val = "upgrade" THEN is_ws \cup {"REQ_CONN_UPGRADE"} ELSE is_ws
              /\ UNCHANGED <<status, chunked, cont, is_rpc, hdrs>>
         [] h.code = "Upgrade" ->
              /\ is_ws' = IF h.val = "websocket" THEN is_ws \cup {"REQ_UPGRADE_WS"} ELSE is_ws
              /\ UNCHANGED <<status, chunked, cont, is_rpc, conn_closed, hdrs>>
         [] h.code = "Transfer-encoding" -> ScanTransferEncoding(h)
         [] h.code = "Content-length" -> ScanContentLength(h)
         [] h.code = "Expect" ->
              /\ hdrs' = IF h.val = "100-continue" THEN RemoveAt(hdrs, Pos) ELSE hdrs
              /\ UNCHANGED <<status, chunked, cont, is_rpc, conn_closed, is_ws>>
         [] OTHER ->
              UNCHANGED <<status, chunked, cont, is_rpc, conn_closed, is_ws, hdrs>>
    /\ i' = i + 1
    /\ UNCHANGED <<req, framing>>

(* After the loop: HeaderRemove filters, the Transfer-encoding plus       *)
(* Content-length guard (400), the max_req guard (413), and the choice of *)
(* the body-copy branch for an accepted request.                          *)
CheckRequest ==
    /\ status = "scan"
    /\ i > Len(req.headers)
    /\ hdrs' = SelectSeq(hdrs, LAMBDA h : h.code \notin HeadOff)
    /\ status' = CASE chunked # 0 /\ cont # L_1 -> "400"
                   [] MaxReq > 0 /\ cont > 0 /\ cont > MaxReq /\ is_rpc # 1 -> "413"
                   [] OTHER -> "ok"
    /\ framing' = CASE status' # "ok" -> "none"
                    [] req.version = 1 /\ chunked = 1 -> "chunked"
                    [] cont > 0 /\ is_rpc # 1 -> "length"
                    [] cont > 0 -> "rpc"
                    [] OTHER -> "none"
    /\ UNCHANGED <<req, i, chunked, cont, is_rpc, conn_closed, is_ws>>

\* The request has been answered or handed on: nothing more happens to it.
Done == status # "scan" /\ UNCHANGED vars

Next == ScanHeader \/ CheckRequest \/ Done

Spec == Init /\ [][Next]_vars

-----------------------------------------------------------------------------
TypeOK ==
    /\ req \in Requests
    /\ i \in 1..(Len(req.headers) + 1)
    /\ status \in {"scan", "ok", "400", "413", "501"}
    /\ chunked \in {0, 1}
    /\ cont \in Int
    /\ is_rpc \in {-1, 0, 1}
    /\ conn_closed \in BOOLEAN
    /\ is_ws \subseteq {"REQ_GET", "REQ_CONN_UPGRADE", "REQ_UPGRADE_WS"}
    /\ framing \in {"none", "chunked", "length", "rpc"}

\* Forwarded header codes and Content-length values
Fwd(code) == {k \in 1..Len(hdrs) : hdrs[k].code = code}
FwdChunked == \E k \in Fwd("Transfer-encoding") : hdrs[k].val = "chunked"

(* Request smuggling guard: a request that do_http accepts is never      *)
(* forwarded with both a Content-length and a chunked Transfer-encoding,  *)
(* whatever order and values (negative ones included) the client used.    *)
NoDualFraming ==
    status = "ok" => ~(FwdChunked /\ Fwd("Content-length") # {})

(* When do_http copies cont body bytes (copy_bin or the RPC stream), every *)
(* Content-length the backend receives announces exactly cont bytes, so   *)
(* the backend and the proxy agree where the request ends.                *)
CopiedLengthIsAnnounced ==
    (status = "ok" /\ framing \in {"length", "rpc"}) =>
        /\ Fwd("Content-length") # {}
        /\ \A k \in Fwd("Content-length") : hdrs[k].val = cont

(* An accepted request body copied by length is bounded: by max_req, or,  *)
(* for RPC_IN_DATA streamed until EOF, by the RPC length window.          *)
BodyBounded ==
    (status = "ok" /\ framing \in {"length", "rpc"} /\ MaxReq > 0) =>
        \/ cont <= MaxReq
        \/ framing = "rpc" /\ RpcMinLen <= cont /\ cont <= RpcMaxLen

(* spec.md 4.6: "Multiple conflicting Content-Length -> 400": a request   *)
(* carrying two Content-length headers with different values, one of them *)
(* a valid non-negative length, is refused.                               *)
MultipleCLRejected ==
    (status # "scan" /\
     \E a, b \in 1..Len(req.headers) :
        /\ req.headers[a].code = "Content-length"
        /\ req.headers[b].code = "Content-length"
        /\ {req.headers[a].form, req.headers[b].form} = {"num"}
        /\ req.headers[a].val # req.headers[b].val
        /\ req.headers[b].val >= 0)
      => status \in {"400", "501"}

(* spec.md 4.6 FORWARD_REQUEST "... then CRLF, then body": when the       *)
(* forwarded headers announce a chunked body, do_http forwards the body   *)
(* chunked.                                                               *)
ChunkedBodyForwarded ==
    (status = "ok" /\ FwdChunked) => framing = "chunked"
=============================================================================

---------------------------- MODULE ResponseHead ----------------------------
(***************************************************************************)
(* How do_http (src/src/http.c) takes a backend's answer: the loop that    *)
(* reads response heads while they are "100 Continue", the scan of each    *)
(* head's headers, the choice of how the body is copied to the client, and *)
(* whether the client and backend connections are kept afterwards         *)
(* (noHTTPS11 included).                                                   *)
(*                                                                         *)
(* A head is [v11, code, hdrs]: v11 is the byte at offset 7 of its line    *)
(* (be_11), code its status, hdrs its headers in order as records         *)
(* [code, val] with the qualify_header code and an abstract value; a      *)
(* Content-length value is the number ATOL reads from it.                  *)
(***************************************************************************)
EXTENDS Integers, Sequences, SequencesExt

\* RESP_SKIP (compiled outside src/, "^HTTP/1.1 100"): an HTTP/1.1 "100"
\* head is never forwarded.
RespSkip(h) == h.v11 /\ h.code = 100

\* RESP_IGN: the codes whose answers have no content (1xx but 100, 204, 304,
\* as the comment at its use says).
RespIgnCodes == (101..199) \cup {204, 304}

\* CONN_UPGRD: the Connection value that asks for an upgrade.
ConnUpgrade(v) == v = "upgrade"

\* 0x20000 and 0x80000000, scaled: the Content-length window of RPC_OUT_DATA.
RpcOutMin == 3
RpcOutMax == 5

\* WSS_COMPLETE: the three request flags and the three response flags.
WssComplete == {"REQ_GET", "REQ_CONN", "REQ_UPGRADE", "RESP_101", "RESP_CONN", "RESP_UPGRADE"}

\* The state the loop carries from head to head; no_cont and is_ws start
\* from the request (a HEAD request, its WebSocket flags), is_rpc is 0 for
\* RPC_OUT_DATA and -1 otherwise.
RespState(noCont, ws, rpc) ==
    [be_11 |-> FALSE, skip |-> TRUE, no_cont |-> noCont, is_ws |-> ws, chunked |-> FALSE,
     cont |-> -1, conn_closed |-> FALSE, is_rpc |-> rpc]

\* One header of the DLIST_FOREACH over the response headers.  Location and
\* Content-location only have their text rewritten, which no flag depends on.
ScanRespHeader(s, hd) ==
    CASE hd.code = "Connection" ->
            IF hd.val = "close" THEN [s EXCEPT !.conn_closed = TRUE]
            ELSE IF ConnUpgrade(hd.val) THEN [s EXCEPT !.is_ws = @ \cup {"RESP_CONN"}]
            ELSE s
      [] hd.code = "Upgrade" ->
            IF hd.val = "websocket" THEN [s EXCEPT !.is_ws = @ \cup {"RESP_UPGRADE"}] ELSE s
      [] hd.code = "TE" ->
            IF hd.val = "chunked" THEN [s EXCEPT !.chunked = TRUE, !.no_cont = FALSE] ELSE s
      [] hd.code = "CL" ->
            IF s.is_rpc = 0
            THEN IF hd.val >= RpcOutMin /\ hd.val <= RpcOutMax
                 THEN [s EXCEPT !.cont = -1]
                 ELSE [s EXCEPT !.cont = hd.val, !.is_rpc = -1]
            ELSE [s EXCEPT !.cont = hd.val]
      [] OTHER -> s

\* One pass of the loop body: be_11 from the line, skip, no_cont set by
\* RESP_IGN (never cleared here), the 101 flag, chunked and cont reset, then
\* the headers in order.
ReadHead(s, h) ==
    FoldLeft(ScanRespHeader,
             [s EXCEPT !.be_11 = h.v11, !.skip = RespSkip(h),
                       !.no_cont = @ \/ h.code \in RespIgnCodes,
                       !.is_ws = IF h.code = 101 THEN @ \cup {"RESP_101"} ELSE @,
                       !.chunked = FALSE, !.cont = -1],
             h.hdrs)

\* How the body after the forwarded head is copied: chunks (HTTP/1.1 only),
\* cont bytes, until the backend closes (when it is readable within its
\* timeout; otherwise nothing), the WebSocket tunnel, or nothing.
RespBodyMode(s, readable) ==
    CASE ~s.no_cont /\ s.be_11 /\ s.chunked -> "chunked"
      [] ~s.no_cont /\ s.cont >= 0          -> "len"
      [] ~s.no_cont /\ ~s.skip /\ readable  -> "eof"
      [] ~s.no_cont                         -> "none"
      [] s.is_ws = WssComplete              -> "ws"
      [] OTHER                              -> "none"

\* for (skip = 1; skip;): heads are read from the n-th on until one is not
\* skipped; ok is FALSE when the backend sends no further head (500).  The
\* head that ends the loop, the n-th, is the one sent to the client.  A
\* skipped head is followed by its body read with no_write when the state
\* after it selects chunks or a length (a skipped head never copies until
\* EOF); dropped counts those bodies, each taken to arrive whole.
RECURSIVE ReadResponses(_, _, _, _)
ReadResponses(s, heads, n, dropped) ==
    IF n > Len(heads) THEN [ok |-> FALSE, st |-> s, n |-> n, dropped |-> dropped]
    ELSE LET s1 == ReadHead(s, heads[n]) IN
         IF s1.skip
         THEN ReadResponses(s1, heads, n + 1,
                            dropped + (IF RespBodyMode(s1, FALSE) \in {"chunked", "len"} THEN 1 ELSE 0))
         ELSE [ok |-> TRUE, st |-> s1, n |-> n, dropped |-> dropped]

\* noHTTPS11: 1 forces HTTP/1.0 on TLS, 2 on TLS for an MSIE User-Agent.
NoHttps11Force(mode, ssl, msie) ==
    CASE mode = 1 -> ssl
      [] mode = 2 -> ssl /\ msie
      [] OTHER    -> FALSE

\* The copy until EOF leaving cl_11 and be_11 as they were.
KeepAfter_NoEof(s, mode, cl11, force10) ==
    [client |-> cl11 /\ mode # "ws" /\ ~s.conn_closed /\ ~force10, backend |-> s.be_11 /\ mode # "ws"]

\* The end of one request: a copy until EOF and the tunnel clear cl_11 and
\* be_11; the backend is closed unless be_11, and the client loop goes on
\* only for cl_11 without Connection: close or force_10.
KeepAfter(s, mode, cl11, force10) ==
    LET ended == mode \in {"eof", "ws"} IN
    [client |-> cl11 /\ ~ended /\ ~s.conn_closed /\ ~force10,
     backend |-> s.be_11 /\ ~ended]

\* The whole answer: the loop, the body mode, and the connections kept.
HandleResponse(heads, ctx) ==
    LET r == ReadResponses(RespState(ctx.head, ctx.ws, ctx.rpc), heads, 1, 0)
        m == RespBodyMode(r.st, ctx.readable)
    IN  [ok |-> r.ok, fwd |-> r.n, st |-> r.st, mode |-> m, dropped |-> r.dropped,
         keep |-> KeepAfter(r.st, m, ctx.cl11, NoHttps11Force(ctx.https11, ctx.ssl, ctx.msie))]
=============================================================================

------------------------------- MODULE Proxy -------------------------------
(***************************************************************************)
(* The per-connection loop of do_http (http.c) run by several worker       *)
(* threads (thr_http) that share one service's balancer.  For each client  *)
(* connection a worker reads requests, routes each one to a backend,      *)
(* reuses or (re)opens its backend connection, sends the request, reads   *)
(* the response (skipping "100 Continue"), copies the body in the mode    *)
(* the headers select and decides whether to keep both connections.      *)
(*                                                                         *)
(* The request and its header checks are abstracted to what the loop uses *)
(* afterwards (HttpRequestCheck models the checks).  A backend connection *)
(* is a byte stream: what the server has written but has not yet reached *)
(* the proxy is in transit; what has arrived is readable (is_readable,    *)
(* BIO_pending).  The server answers every request it receives; it may   *)
(* close an idle connection at any time.                                  *)
(***************************************************************************)
EXTENDS Balancer

CONSTANTS
    Workers,        \* worker threads
    Redirect,       \* the BE_REDIRECT backend of the redirect service
    InterimCodes,   \* 1xx codes the servers may send before the final answer
    MaxConns,       \* client connections accepted in a behaviour
    MaxReqs,        \* requests per client connection
    MaxFails,       \* connect failures in a behaviour
    ReqKinds,       \* request classes the clients send (see below)
    ServerModes     \* <<HTTP/1.1?, "Connection: close"?>> of the servers' answers

\* arg->be == NULL: no backend connection.
NoConn == [b |-> NoBackend, arrived |-> <<>>, transit |-> <<>>]
Services == {"app", "redir"}

\* What the loop keeps of a request once parse_http_request and the header
\* scan are done: the method class, the client's HTTP version and whether
\* it sent "Connection: close".  "BAD" stands for every request that the
\* checks answer with 400/413/501.  ReqKinds is a subset of
\* {"GET", "HEAD", "WS", "RPC_IN", "BAD"}.
\* An HTTP/1.0 client closes after each request anyway.
Requests == {r \in [kind : ReqKinds, v11 : BOOLEAN, close : BOOLEAN] : r.v11 \/ ~r.close}

\* An item of a backend stream: a response head (status line and headers),
\* a body, or the server's close.  framing is what the head announces:
\* Content-length, Transfer-encoding: chunked, or neither.
Item(k, c, f, v, cl, id) == [kind |-> k, code |-> c, framing |-> f, v11 |-> v, close |-> cl, id |-> id]
Hdr(c, f, v, cl, id) == Item("hdr", c, f, v, cl, id)
Body(id) == Item("body", 0, "bare", FALSE, FALSE, id)
Eof == Item("eof", 0, "bare", FALSE, FALSE, 0)

Items == [kind : {"hdr", "body", "eof"}, code : {0, 101, 200, 204} \cup InterimCodes,
          framing : {"len", "chunked", "bare"}, v11 : BOOLEAN, close : BOOLEAN, id : 0..MaxReqs]

\* RESP_IGN: codes that carry no content (1xx except 100, 204, 304).
IgnCodes == (101..199) \cup {204, 304}

\* The locals of one do_http activation, as a record per worker.
Frame == [pc : {"Idle", "Request", "Connect", "Reroute", "Send", "Response", "Body"},
          req : [kind : ReqKinds \cup {"none"}, v11 : BOOLEAN, close : BOOLEAN], nreq : 0..MaxReqs,
          backend : BalancedBackends \cup {Redirect, NoBackend},
          cur_backend : BalancedBackends \cup {Redirect, NoBackend},
          be : {NoConn} \cup [b : BalancedBackends, arrived : Seq(Items), transit : Seq(Items)],
          cl_11 : BOOLEAN, be_11 : BOOLEAN, conn_closed : BOOLEAN, no_cont : BOOLEAN,
          skip : BOOLEAN, mode : {"none", "len", "chunked", "eof", "eofcopy", "ws"},
          retries : 0..MaxFails, fwd : 0..MaxReqs, last : {"none", "len", "chunked", "eof", "eofcopy", "ws"}]

VARIABLES
    conns,       \* client connections accepted so far
    fails,       \* connect failures so far
    frame        \* worker -> locals of its do_http

proxyVars == <<conns, fails, frame>>
vars == <<proxyVars, balancerVars>>

IdleFrame == [pc |-> "Idle", req |-> [kind |-> "none", v11 |-> FALSE, close |-> FALSE],
              nreq |-> 0, backend |-> NoBackend, cur_backend |-> NoBackend, be |-> NoConn,
              cl_11 |-> FALSE, be_11 |-> FALSE, conn_closed |-> FALSE, no_cont |-> FALSE,
              skip |-> FALSE, mode |-> "none", retries |-> 0, fwd |-> 0, last |-> "none"]

Init ==
    /\ BalancerInit
    /\ conns = 0
    /\ fails = 0
    /\ frame = [w \in Workers |-> IdleFrame]

\* The whole stream of a backend connection, arrived part first.
Stream(c) == c.arrived \o c.transit
ServerClosed(c) == \E k \in DOMAIN Stream(c) : Stream(c)[k] = Eof

\* What a server writes for request number id of kind k: maybe one interim
\* 1xx head, then the final head with its body; an HTTP/1.0 server, and one
\* that answers "Connection: close" or frames the body by its close, then
\* closes.  HEAD and 204 answers carry no body.
Finals(k, id) ==
    UNION {
      CASE k = "HEAD" ->
             {<<Hdr(200, f, vc[1], vc[2], id)>> : f \in {"len", "chunked", "bare"}}
        [] OTHER ->
             {<<Hdr(200, f, vc[1], vc[2], id), Body(id)>> : f \in {"len", "chunked"}}
             \cup {<<Hdr(200, "bare", vc[1], vc[2], id), Body(id), Eof>>,
                   <<Hdr(204, "bare", vc[1], vc[2], id)>>}
             \cup (IF k = "WS" THEN {<<Hdr(101, "bare", TRUE, FALSE, id), Body(id), Eof>>} ELSE {})
      : vc \in ServerModes}

CloseAfter(s) ==
    IF s[Len(s)] # Eof /\ (~s[1].v11 \/ s[1].close) THEN Append(s, Eof) ELSE s

Replies(k, id) ==
    {i \o CloseAfter(f) : i \in {<<>>} \cup {<<Hdr(c, "bare", TRUE, FALSE, id)>> : c \in InterimCodes},
                          f \in Finals(k, id)}

\* do_http returns: thr_arg_destroy frees both connections and the
\* worker's locals are gone.
Leave(w) == frame' = [frame EXCEPT ![w] = IdleFrame]

(* thr_http dequeues an accepted connection; do_http starts with no      *)
(* backend connection, cur_backend NULL and cl_11 = be_11 = 0.          *)
Accept(w) ==
    /\ frame[w].pc = "Idle"
    /\ conns < MaxConns
    /\ conns' = conns + 1
    /\ frame' = [frame EXCEPT ![w] = [IdleFrame EXCEPT !.pc = "Request"]]
    /\ UNCHANGED <<fails, balancerVars>>

(* http_request_read on the client fails (EOF, error, timeout): return.   *)
ClientEof(w) ==
    /\ frame[w].pc = "Request"
    /\ Leave(w)
    /\ UNCHANGED <<conns, fails, balancerVars>>

\* A backend connection that is readable before a request is sent can only
\* be at EOF (or hold data nobody asked for): close it.
IsReadableClose(c) == IF c # NoConn /\ c.arrived # <<>> THEN NoConn ELSE c

CloseIfOtherBackend_Never(c, b, cb) == c

\* The kept backend connection no longer fits the backend chosen for this
\* request.
CloseIfOtherBackend(c, b, cb) == IF c # NoConn /\ b # cb THEN NoConn ELSE c

(* One request: http_request_read, parse_http_request and the header      *)
(* checks (a "BAD" request is answered with an error and ends the         *)
(* connection); then the stale-connection check, get_service, get_backend *)
(* (NULL: 503 and return) and the close of a connection to another        *)
(* backend.                                                                *)
RecvRequest(w) ==
    LET f == frame[w] IN
    /\ f.pc = "Request"
    /\ f.nreq < MaxReqs
    /\ \E r \in Requests :
         LET f1 == [f EXCEPT !.req = r, !.nreq = f.nreq + 1, !.fwd = 0, !.retries = 0,
                             !.cl_11 = r.v11, !.no_cont = (r.kind = "HEAD"),
                             !.conn_closed = r.close, !.skip = FALSE, !.mode = "none",
                             !.be = IsReadableClose(f.be)]
         IN
         IF r.kind = "BAD"
         THEN Leave(w)
         ELSE \E svc \in Services, b \in GetBackend :
                LET chosen == IF svc = "redir" THEN Redirect ELSE b
                    c == CloseIfOtherBackend(f1.be, chosen, f.cur_backend)
                IN
                IF chosen = NoBackend
                THEN Leave(w)
                ELSE frame' = [frame EXCEPT ![w] =
                                 [f1 EXCEPT !.backend = chosen, !.be = c,
                                            !.pc = IF c = NoConn /\ chosen # Redirect
                                                   THEN "Connect" ELSE "Send"]]
    /\ UNCHANGED <<conns, fails, balancerVars>>

ConnectOk_Cur(w) ==
    /\ frame[w].pc = "Connect"
    /\ frame' = [frame EXCEPT ![w].pc = "Send",
                              ![w].be = [b |-> frame[w].cur_backend, arrived |-> <<>>, transit |-> <<>>]]
    /\ UNCHANGED <<conns, fails, balancerVars>>

(* connect_nb to the chosen backend succeeds: a fresh, empty connection. *)
ConnectOk(w) ==
    /\ frame[w].pc = "Connect"
    /\ frame' = [frame EXCEPT ![w].pc = "Send",
                              ![w].be = [b |-> frame[w].backend, arrived |-> <<>>, transit |-> <<>>]]
    /\ UNCHANGED <<conns, fails, balancerVars>>

(* connect_nb fails: kill_be marks the backend dead, then get_backend is   *)
(* called again (the loop has no bound of its own).                       *)
ConnectFail(w) ==
    /\ frame[w].pc = "Connect"
    /\ fails < MaxFails
    /\ fails' = fails + 1
    /\ KillBe(frame[w].backend)
    /\ frame' = [frame EXCEPT ![w].pc = "Reroute", ![w].retries = @ + 1]
    /\ UNCHANGED conns

(* The second get_backend of the connect loop: NULL is a 503 and return. *)
Reroute(w) ==
    /\ frame[w].pc = "Reroute"
    /\ \E b \in GetBackend :
         IF b = NoBackend
         THEN Leave(w)
         ELSE frame' = [frame EXCEPT ![w].pc = "Connect", ![w].backend = b]
    /\ UNCHANGED <<conns, fails, balancerVars>>

\* End of one pass of the loop: close the backend connection unless the
\* server spoke HTTP/1.1, and stop unless the client spoke HTTP/1.1 and no
\* side asked for "Connection: close".
EndOfRequest(f, c, cl, b11) ==
    LET g == [f EXCEPT !.cl_11 = cl, !.be_11 = b11, !.last = f.mode] IN
    IF ~cl \/ f.conn_closed
    THEN IdleFrame
    ELSE [g EXCEPT !.pc = "Request", !.be = IF b11 THEN c ELSE NoConn]

\* After a head and its body: a skipped "100 Continue" reads the next head.
AfterBody(f, c, cl, b11) ==
    IF f.skip THEN [f EXCEPT !.pc = "Response", !.be = c, !.cl_11 = cl, !.be_11 = b11]
    ELSE EndOfRequest(f, c, cl, b11)

(* Send the request.  A redirect backend answers itself (redirect_reply)  *)
(* after any open backend connection is closed.  To a real backend the   *)
(* request head and body are written (a write, copy or flush failure is  *)
(* a 500 and return); an RPC_IN_DATA request streams its body until the *)
(* client closes and no response is read; otherwise the server answers.  *)
Send(w) ==
    LET f == [frame[w] EXCEPT !.cur_backend = frame[w].backend] IN
    /\ frame[w].pc = "Send"
    /\ IF f.backend = Redirect
       THEN frame' = [frame EXCEPT ![w] =
                        EndOfRequest([f EXCEPT !.be = NoConn, !.fwd = f.nreq],
                                     NoConn, f.cl_11, f.be_11)]
       ELSE \/ Leave(w)
            \/ /\ f.req.kind = "RPC_IN"
               /\ Leave(w)
            \/ /\ f.req.kind # "RPC_IN"
               /\ \E rep \in Replies(f.req.kind, f.nreq) :
                    frame' = [frame EXCEPT ![w] =
                                [f EXCEPT !.pc = "Response",
                                          !.be.transit = IF ServerClosed(f.be) THEN @ ELSE @ \o rep]]
    /\ UNCHANGED <<conns, fails, balancerVars>>

IsSkip_Never(h) == FALSE

\* RESP_SKIP ("^HTTP/1.1 100"): "100 Continue" is never passed back.
IsSkip(h) == h.v11 /\ h.code = 100

\* How the body after head h is copied (the branches after "if (!no_cont)").
BodyMode(nc, sk, ws, h) ==
    CASE ~nc /\ h.v11 /\ h.framing = "chunked" -> "chunked"
      [] ~nc /\ h.framing = "len"              -> "len"
      [] ~nc /\ ~sk                            -> "eof"
      [] nc /\ ws                              -> "ws"
      [] OTHER                                 -> "none"

(* Read one response head.  Anything else at the head of the stream is a *)
(* read error (500, return).  The head sets be_11, skip, no_cont (RESP_IGN *)
(* sets it, "chunked" clears it), conn_closed and the WebSocket state; it *)
(* is sent to the client unless skipped.                                  *)
ReadResponse(w) ==
    LET f == frame[w]
        h == Head(f.be.arrived)
    IN
    /\ f.pc = "Response"
    /\ f.be.arrived # <<>>
    /\ IF h.kind # "hdr"
       THEN Leave(w)
       ELSE LET sk == IsSkip(h)
                nc == IF h.framing = "chunked" THEN FALSE ELSE f.no_cont \/ h.code \in IgnCodes
                m == BodyMode(nc, sk, f.req.kind = "WS" /\ h.code = 101, h)
                f1 == [f EXCEPT !.be_11 = h.v11, !.skip = sk, !.no_cont = nc, !.mode = m,
                                !.conn_closed = @ \/ h.close, !.fwd = IF sk THEN @ ELSE h.id,
                                !.be.arrived = Tail(@)]
            IN frame' = [frame EXCEPT ![w] =
                           IF m # "none" THEN [f1 EXCEPT !.pc = "Body"]
                           ELSE AfterBody(f1, f1.be, f1.cl_11, f1.be_11)]
    /\ UNCHANGED <<conns, fails, balancerVars>>

\* The error reply sent and the loop continued with the next request.
ResponseTimeout_Keep(w) ==
    /\ frame[w].pc = "Response"
    /\ frame[w].be.arrived = <<>>
    /\ frame' = [frame EXCEPT ![w].pc = "Request", ![w].be = NoConn]
    /\ UNCHANGED <<conns, fails, balancerVars>>

(* No response head within the backend timeout: 500 and return. *)
ResponseTimeout(w) ==
    /\ frame[w].pc = "Response"
    /\ frame[w].be.arrived = <<>>
    /\ Leave(w)
    /\ UNCHANGED <<conns, fails, balancerVars>>

Consumed(f) == [f EXCEPT !.be.arrived = Tail(@)]

(* copy_chunks / copy_bin: the announced body arrives and is copied. *)
BodyCopy(w) ==
    LET f == frame[w] IN
    /\ f.pc = "Body"
    /\ f.mode \in {"len", "chunked"}
    /\ f.be.arrived # <<>>
    /\ Head(f.be.arrived).kind = "body"
    /\ frame' = [frame EXCEPT ![w] = AfterBody(Consumed(f), Consumed(f).be, f.cl_11, f.be_11)]
    /\ UNCHANGED <<conns, fails, balancerVars>>

(* copy_bin of a Content-length body: EOF, a read time-out or an error  *)
(* before cont bytes arrived fails the copy and do_http returns.        *)
LenFail(w) ==
    LET f == frame[w] IN
    /\ f.pc = "Body"
    /\ f.mode = "len"
    /\ ~(f.be.arrived # <<>> /\ Head(f.be.arrived).kind = "body")
    /\ Leave(w)
    /\ UNCHANGED <<conns, fails, balancerVars>>

\* The kind of the next item readable on a backend connection.
NextKind(c) == IF c.arrived = <<>> THEN "none" ELSE Head(c.arrived).kind

(* copy_chunks: get_line reports EOF and a read time-out alike as 1, and *)
(* at a chunk-size line that ends the copy with success (return 0): the *)
(* loop goes on as after a complete body, cl_11 and be_11 unchanged.    *)
ChunkedEnd(w) ==
    LET f == frame[w] IN
    /\ f.pc = "Body"
    /\ f.mode = "chunked"
    /\ NextKind(f.be) \in {"none", "eof"}
    /\ frame' = [frame EXCEPT ![w] = AfterBody(f, f.be, f.cl_11, f.be_11)]
    /\ UNCHANGED <<conns, fails, balancerVars>>

(* Body delimited by the server's close: is_readable(be, to) sees nothing *)
(* within the backend timeout, the copy is skipped and cl_11, be_11 stay. *)
EofNotReadable(w) ==
    LET f == frame[w] IN
    /\ f.pc = "Body"
    /\ f.mode = "eof"
    /\ f.be.arrived = <<>>
    /\ frame' = [frame EXCEPT ![w] = AfterBody(f, f.be, f.cl_11, f.be_11)]
    /\ UNCHANGED <<conns, fails, balancerVars>>

(* Body delimited by the server's close is readable: "old-style response",*)
(* cl_11 = be_11 = 0 and copy until EOF.                                 *)
EofStart(w) ==
    LET f == frame[w] IN
    /\ f.pc = "Body"
    /\ f.mode = "eof"
    /\ f.be.arrived # <<>>
    /\ frame' = [frame EXCEPT ![w].mode = "eofcopy", ![w].cl_11 = FALSE, ![w].be_11 = FALSE]
    /\ UNCHANGED <<conns, fails, balancerVars>>

(* Copy until EOF, or the WebSocket tunnel: bytes are passed on. *)
StreamCopy(w) ==
    LET f == frame[w] IN
    /\ f.pc = "Body"
    /\ f.mode \in {"eofcopy", "ws"}
    /\ f.be.arrived # <<>>
    /\ Head(f.be.arrived) # Eof
    /\ frame' = [frame EXCEPT ![w] = Consumed(f)]
    /\ UNCHANGED <<conns, fails, balancerVars>>

(* The copy until EOF, or the tunnel, ends (EOF, read timeout, ws_timeout *)
(* or the client closing); neither connection may be kept.               *)
StreamEnd(w) ==
    LET f == frame[w] IN
    /\ f.pc = "Body"
    /\ f.mode \in {"eofcopy", "ws"}
    /\ ~(f.be.arrived # <<>> /\ Head(f.be.arrived) # Eof)
    /\ frame' = [frame EXCEPT ![w] = AfterBody(f, f.be, FALSE, FALSE)]
    /\ UNCHANGED <<conns, fails, balancerVars>>

(* The network delivers the next item the server wrote. *)
Deliver(w) ==
    LET c == frame[w].be IN
    /\ c # NoConn
    /\ c.transit # <<>>
    /\ frame' = [frame EXCEPT ![w].be = [c EXCEPT !.arrived = Append(@, Head(c.transit)),
                                                  !.transit = Tail(@)]]
    /\ UNCHANGED <<conns, fails, balancerVars>>

(* The server closes a connection it considers idle. *)
ServerClose(w) ==
    LET c == frame[w].be IN
    /\ c # NoConn
    /\ ~ServerClosed(c)
    /\ frame' = [frame EXCEPT ![w].be.transit = Append(@, Eof)]
    /\ UNCHANGED <<conns, fails, balancerVars>>

(* The ticker finds a dead backend answering again. *)
Revive ==
    /\ \E b \in BalancedBackends : Resurrect(b)
    /\ UNCHANGED proxyVars

\* Every accepted connection has been served: the bounded run is over.
Terminated ==
    /\ conns = MaxConns
    /\ \A w \in Workers : frame[w].pc = "Idle"
    /\ UNCHANGED vars

Next ==
    \/ \E w \in Workers :
         \/ Accept(w) \/ ClientEof(w) \/ RecvRequest(w)
         \/ ConnectOk(w) \/ ConnectFail(w) \/ Reroute(w) \/ Send(w)
         \/ ReadResponse(w) \/ ResponseTimeout(w)
         \/ BodyCopy(w) \/ LenFail(w) \/ ChunkedEnd(w)
         \/ EofNotReadable(w) \/ EofStart(w)
         \/ StreamCopy(w) \/ StreamEnd(w)
         \/ Deliver(w) \/ ServerClose(w)
    \/ Revive
    \/ Terminated

Spec == Init /\ [][Next]_vars

-----------------------------------------------------------------------------

TypeOK ==
    /\ conns \in 0..MaxConns
    /\ fails \in 0..MaxFails
    /\ frame \in [Workers -> Frame]
    /\ alive \in [BalancedBackends -> BOOLEAN]

(* A request is written to a connection to the backend get_backend chose  *)
(* for it: a connection kept from an earlier request to another backend  *)
(* (cur_backend) is closed first.                                         *)
ReqOnChosenBackend ==
    \A w \in Workers :
        frame[w].pc \in {"Response", "Body"} => frame[w].be.b = frame[w].backend

(* Every response head passed to the client answers the request being    *)
(* served: no head left over in a kept backend connection from an        *)
(* earlier request is ever taken for the answer to a later one.          *)
ResponseMatchesRequest ==
    \A w \in Workers : frame[w].fwd \in {0, frame[w].nreq}

(* The comment on the copy-until-EOF branch: an old-style response whose  *)
(* body ends with the server's close means the client may not keep using *)
(* the connection; no further request is read after it.                  *)
NoKeepAliveAfterEofBody ==
    \A w \in Workers :
        frame[w].pc = "Request" /\ frame[w].nreq > 0 => frame[w].last \notin {"eof", "eofcopy", "ws"}

(* The comment on "if (!no_cont)": the body copy is skipped when the      *)
(* request was HEAD, whose answer has no body whatever its headers say.   *)
HeadResponseHasNoBody ==
    \A w \in Workers : frame[w].pc = "Body" => frame[w].req.kind # "HEAD"

(* spec.md 4.6: connect failures are retried with another backend at most *)
(* as many times as the group has backends.                              *)
RetriesBounded ==
    \A w \in Workers : frame[w].retries <= Len(NormalSeq)

(* The client's view of the loop: a worker serves a session while it is  *)
(* not idle; nreq counts the requests read, fwd names the request whose  *)
(* answer head was passed to the client (redirect_reply counts as one).  *)
Session == INSTANCE ClientSession
               WITH open <- [w \in Workers |-> frame[w].pc # "Idle"],
                    n    <- [w \in Workers |-> frame[w].nreq],
                    ans  <- [w \in Workers |-> frame[w].fwd]

(* do_http keeps the promise of ClientSession: requests on a connection   *)
(* are read one at a time, the next only after the current one has been  *)
(* answered, and each gets at most one answer head, its own.             *)
SessionRefined == Session!Spec

====

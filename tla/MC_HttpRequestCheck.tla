------------------------ MODULE MC_HttpRequestCheck ------------------------
(* Model-checking instance of HttpRequestCheck: every request of up to     *)
(* three headers drawn from an alphabet that covers each branch of the    *)
(* header loop, for the methods that select each is_rpc / is_ws seed.     *)
EXTENDS HttpRequestCheck

H(c, v) == [code |-> c, val |-> v, form |-> "-"]
CL(n) == [code |-> "Content-length", val |-> n, form |-> "num"]
CLForm(f) == [code |-> "Content-length", val |-> 0, form |-> f]

\* Content-length values: negative (the L_1 sentinel and another), zero,
\* within max_req, each end of the RPC window and the value just outside
\* it (max_req lies below the window, as 0x20000 lies above usual limits).
MC_ClValues == {-2, -1, 0, 3, 7, 8, 16, 17}

MC_Headers ==
    {CL(n) : n \in MC_ClValues}
    \cup {CLForm("list"), CLForm("junk")}
    \cup {H("Transfer-encoding", "chunked"), H("Transfer-encoding", "gzip"),
          H("Connection", "close"), H("Connection", "upgrade"),
          H("Upgrade", "websocket"), H("Expect", "100-continue"), H("Other", "x")}

MC_HeaderSeqs == UNION {[1..n -> MC_Headers] : n \in 0..3}

MC_Methods == {"GET", "POST", "RPC_IN_DATA"}

MC_Requests == [method : MC_Methods, version : {0, 1}, headers : MC_HeaderSeqs]
=============================================================================

------------------------------ MODULE MC_Proxy ------------------------------
(* One worker thread, one service with two normal backends of different  *)
(* weight and one emergency backend, and a redirect service.             *)
EXTENDS Proxy, TLC

CONSTANTS b1, b2, e1, r, w1

MC_NormalSeq == <<b1, b2>>
MC_EmergSeq == <<e1>>
MC_NoEmergSeq == << >>
MC_Priority == (b1 :> 2) @@ (b2 :> 1) @@ (e1 :> 1)
MC_OneWorker == {w1}

\* HTTP/1.1 servers that keep or close the connection, HTTP/1.0 servers.
MC_ServerModes == {<<TRUE, FALSE>>, <<TRUE, TRUE>>, <<FALSE, FALSE>>}
====

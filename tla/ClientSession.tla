---------------------------- MODULE ClientSession ----------------------------
(***************************************************************************)
(* What a client connection to pound is promised, whatever the backends   *)
(* do: its requests are taken one at a time, each gets at most one answer, *)
(* that answer is its own, and a further request on the same connection    *)
(* is read only once the one before it has been answered.  The connection *)
(* may be closed at any point.  One session per worker, since a worker    *)
(* serves one client connection at a time.                                 *)
(***************************************************************************)
EXTENDS Naturals

CONSTANTS Workers, MaxReqs

VARIABLES
    open,   \* worker -> it is serving a client connection
    n,      \* worker -> requests read on that connection
    ans     \* worker -> the request the last answer was for; 0 for none yet

svars == <<open, n, ans>>

Init ==
    /\ open = [w \in Workers |-> FALSE]
    /\ n = [w \in Workers |-> 0]
    /\ ans = [w \in Workers |-> 0]

Open(w) ==
    /\ ~open[w]
    /\ open' = [open EXCEPT ![w] = TRUE]
    /\ UNCHANGED <<n, ans>>

\* A request is read: the first one, or one after the last was answered.
Request(w) ==
    /\ open[w]
    /\ n[w] = 0 \/ ans[w] = n[w]
    /\ n[w] < MaxReqs
    /\ n' = [n EXCEPT ![w] = @ + 1]
    /\ ans' = [ans EXCEPT ![w] = 0]
    /\ UNCHANGED open

\* The current request gets its answer, once.
Answer(w) ==
    /\ open[w]
    /\ n[w] > 0
    /\ ans[w] = 0
    /\ ans' = [ans EXCEPT ![w] = n[w]]
    /\ UNCHANGED <<open, n>>

\* The connection ends, answered or not.
Close(w) ==
    /\ open[w]
    /\ open' = [open EXCEPT ![w] = FALSE]
    /\ n' = [n EXCEPT ![w] = 0]
    /\ ans' = [ans EXCEPT ![w] = 0]

Next == \E w \in Workers : Open(w) \/ Request(w) \/ Answer(w) \/ Close(w)

Spec == Init /\ [][Next]_svars
=============================================================================

------------------------------ MODULE BioTimeout ------------------------------
(***************************************************************************)
(* The I/O time-outs of one do_http activation (http.c): the BIO_ARG of    *)
(* the client connection (ba1) and of the backend connection (ba2), the    *)
(* renegotiation state both of them point to, and bio_callback, which      *)
(* OpenSSL calls before every operation on a BIO that carries it.          *)
(*                                                                         *)
(* The client BIO gets its callback once, when do_http starts; ba2 is      *)
(* reused for every backend connection the activation opens, and only a    *)
(* backend with a positive time-out gets the callback.  The outcome of     *)
(* poll() is a nondeterministic choice: the requested event, another       *)
(* event (POLLHUP, POLLERR), a time-out, or an error.  An EINTR makes the  *)
(* loop poll again with the full time-out, so it is folded into the        *)
(* outcome of the poll that ends the loop.                                 *)
(*                                                                         *)
(* The TLS info callback that moves the renegotiation state is not in      *)
(* the repository; HandshakeDone and HandshakeStart model it from the      *)
(* description of renegotiation cancellation in spec.md.                   *)
(***************************************************************************)
EXTENDS Integers

CONSTANTS
    IntBits,        \* width of int, as the multiplication timeout * 1000 sees it
    ClientTimeouts, \* values of lstn->to
    BackendTimeouts,\* values of backend->to
    MaxBeConns      \* backend connections one activation opens

VARIABLES
    phase,     \* "start" before do_http has set the callbacks up, then "run"
    ba,        \* [side |-> [timeout, installed]]: ba1 / ba2, and whether the
               \* current BIO of that side carries bio_callback
    reneg,     \* reneg_state of do_http
    beConns,   \* backend connections opened so far
    last,      \* the last callback: [bio, cmd, res, err]
    timedOut   \* history: BIOs on which a poll has timed out

vars == <<phase, ba, reneg, beConns, last, timedOut>>

Sides == {"cl", "be"}
Cmds == {"read", "write", "ctrl"}
PollOutcomes == {"ready", "other", "timeout", "error"}
RenegStates == {"INIT", "ALLOW", "REJECT", "ABORT"}

IntMax == 2^(IntBits - 1) - 1
\* int arithmetic as the build does it: the product wraps around.
WrapInt(x) == ((x + IntMax + 1) % (2 * (IntMax + 1))) - (IntMax + 1)

\* static int err_to = -1;
err_to == -1

\* The backend connection numbered from the one to come.
BioOf_Next(s) == IF s = "cl" THEN 0 ELSE beConns + 1

\* A BIO: 0 is the client's, n the n-th backend connection's.
BioOf(s) == IF s = "cl" THEN 0 ELSE beConns

NoCall == [bio |-> -1, cmd |-> "ctrl", res |-> "ok", err |-> "none"]

\* do_http: ba1 and ba2 start with time-out 0; the client BIO gets
\* lstn->to and the callback.
Init ==
    /\ phase = "start"
    /\ ba = [s \in Sides |-> [timeout |-> 0, installed |-> FALSE]]
    /\ reneg = "INIT"
    /\ beConns = 0
    /\ last = NoCall
    /\ timedOut = {}

Setup(lto, allow) ==
    /\ phase = "start"
    /\ phase' = "run"
    /\ reneg' = IF allow THEN "ALLOW" ELSE "INIT"
    /\ ba' = [ba EXCEPT !["cl"] = [timeout |-> lto, installed |-> TRUE]]
    /\ UNCHANGED <<beConns, last, timedOut>>

\* set_callback moved out of the test: every new backend BIO carries ba2,
\* whatever an earlier connection left in it.
BackendConnect_AlwaysInstall(to) ==
    /\ phase = "run"
    /\ beConns < MaxBeConns
    /\ beConns' = beConns + 1
    /\ ba' = [ba EXCEPT !["be"] = [timeout |-> IF to > 0 THEN to ELSE @.timeout,
                                  installed |-> TRUE]]
    /\ UNCHANGED <<phase, reneg, last, timedOut>>

\* A new backend connection: ba2.timeout and the callback only when
\* backend->to > 0; otherwise the new BIO has no callback and ba2 keeps
\* what an earlier connection left in it.
BackendConnect(to) ==
    /\ phase = "run"
    /\ beConns < MaxBeConns
    /\ beConns' = beConns + 1
    /\ ba' = [ba EXCEPT !["be"] = [timeout |-> IF to > 0 THEN to ELSE @.timeout,
                                  installed |-> to > 0]]
    /\ UNCHANGED <<phase, reneg, last, timedOut>>

\* A time-out of 0 taken for one that already occurred.
TimedOutArg_Le(to) == to <= 0

\* The test that the time-out already occurred.
TimedOutArg(to) == to < 0

\* What a poll time-out leaves in bio_arg->timeout.
AfterTimeout(t) == err_to

(***************************************************************************)
(* bio_callback(bio, cmd, ...) on the BIO of side s, with poll outcome p.  *)
(* res "ok" is the callback returning ret (the operation goes on), "fail"  *)
(* -1, "zero" 0, "error" -2.                                               *)
(***************************************************************************)
Callback(s, cmd, p) ==
    LET a  == ba[s]
        to == WrapInt(a.timeout * 1000)
        r  == CASE cmd = "ctrl"       -> [res |-> "ok", err |-> "none"]
                [] TimedOutArg(to)    -> [res |-> "fail", err |-> "ETIMEDOUT"]
                [] reneg = "ABORT"    -> [res |-> "fail", err |-> "ECONNABORTED"]
                [] to = 0             -> [res |-> "ok", err |-> "none"]
                [] p = "ready"        -> [res |-> "ok", err |-> "none"]
                [] p = "other"        -> [res |-> "fail",
                                          err |-> IF cmd = "read" THEN "EIO" ELSE "ECONNRESET"]
                [] p = "timeout"      -> [res |-> "zero", err |-> "ETIMEDOUT"]
                [] OTHER              -> [res |-> "error", err |-> "poll"]
        polled == cmd # "ctrl" /\ ~TimedOutArg(to) /\ reneg # "ABORT" /\ to # 0
    IN
    /\ phase = "run"
    /\ a.installed
    /\ last' = [bio |-> BioOf(s), cmd |-> cmd, res |-> r.res, err |-> r.err]
    /\ IF polled /\ p = "timeout"
         THEN /\ ba' = [ba EXCEPT ![s].timeout = AfterTimeout(@)]
              /\ timedOut' = timedOut \cup {BioOf(s)}
         ELSE UNCHANGED <<ba, timedOut>>
    /\ UNCHANGED <<phase, reneg, beConns>>

\* The TLS info callback: the first handshake done moves INIT to REJECT;
\* a handshake started in REJECT (a renegotiation) moves it to ABORT.
HandshakeDone ==
    /\ phase = "run"
    /\ reneg = "INIT"
    /\ reneg' = "REJECT"
    /\ UNCHANGED <<phase, ba, beConns, last, timedOut>>

HandshakeStart ==
    /\ phase = "run"
    /\ reneg = "REJECT"
    /\ reneg' = "ABORT"
    /\ UNCHANGED <<phase, ba, beConns, last, timedOut>>

Next ==
    \/ \E lto \in ClientTimeouts, allow \in BOOLEAN : Setup(lto, allow)
    \/ \E to \in BackendTimeouts : BackendConnect(to)
    \/ \E s \in Sides, cmd \in Cmds, p \in PollOutcomes : Callback(s, cmd, p)
    \/ HandshakeDone
    \/ HandshakeStart

Spec == Init /\ [][Next]_vars

TypeOK ==
    /\ phase \in {"start", "run"}
    /\ \A s \in Sides : ba[s].timeout \in Int /\ ba[s].installed \in BOOLEAN
    /\ reneg \in RenegStates
    /\ beConns \in 0..MaxBeConns
    /\ timedOut \subseteq 0..MaxBeConns

(***************************************************************************)
(* bio_callback reports ETIMEDOUT only for a BIO on which a poll really    *)
(* timed out: a configured time-out, and a time-out of 0 (none), never     *)
(* fail an operation by themselves, and the err_to that a time-out of one *)
(* backend connection leaves in the shared ba2 never fails a later one.    *)
(***************************************************************************)
NoSpuriousTimeout ==
    last.err = "ETIMEDOUT" => last.bio \in timedOut
================================================================================

------------------------------ MODULE Resolver ------------------------------
(***************************************************************************)
(* dns_lookup and dns_query of resolver.c: one address lookup of the name  *)
(* Query for an address family.  dns_lookup asks dns_query for the A and/or *)
(* AAAA records and merges the answers into one dns_response; dns_query    *)
(* calls adns_synchronous and, when adns refuses a CNAME that points to a  *)
(* CNAME, follows the chain with CNAME queries, recording every name seen  *)
(* in a hash table to detect loops.                                        *)
(*                                                                         *)
(* adns is the environment: Answer gives what adns_synchronous returns for *)
(* a name and a record type of a zone under adns_qf_cname_loose            *)
(* (one CNAME is followed, a CNAME to a CNAME is adns_s_prohibitedcname); *)
(* with Faults it may also time out or fail with a system error.  Names,   *)
(* addresses and the zone are model values and small records.  The zone   *)
(* may change between two queries: each answer comes from one of the      *)
(* versions in Zones.                                                      *)
(***************************************************************************)
EXTENDS Integers, Sequences, FiniteSets

CONSTANTS
    Names,          \* domain names of the zone
    NoName,         \* no CNAME
    Zones,          \* versions of the zone, name -> [exists, cname, a, aaaa, ttl]
    NegTtl,         \* expiry adns gives a negative answer
    Query,          \* the name dns_lookup is called with
    Families,       \* families the caller passes: "UNSPEC", "INET", "INET6"
    MaxCnameChain,  \* conf.max_cname_chain
    Faults          \* adns may time out or fail

ASSUME Query \in Names /\ MaxCnameChain \in Nat

(***************************************************************************)
(* adns, the environment.                                                  *)
(***************************************************************************)
Ans(s, rrs, exp) == [status |-> s, rrs |-> rrs, expires |-> exp]
NoAns == Ans("none", <<>>, 0)      \* a NULL adns_answer pointer

Records(z, t) == IF t = "a" THEN z.a ELSE z.aaaa

Found(z, t, exp) ==
    IF Records(z, t) # <<>> THEN Ans("ok", Records(z, t), exp) ELSE Ans("nodata", <<>>, NegTtl)

Min2(x, y) == IF x < y THEN x ELSE y

\* The answer of adns_synchronous(name n, type t, DEFAULT_QFLAGS) from the
\* zone version zn.
Answer(zn, n, t) ==
    LET z == zn[n] IN
    CASE ~z.exists                       -> Ans("nxdomain", <<>>, NegTtl)
      [] t = "cname" /\ z.cname # NoName -> Ans("ok", <<z.cname>>, z.ttl)
      [] t = "cname"                     -> Ans("nodata", <<>>, NegTtl)
      [] z.cname = NoName                -> Found(z, t, z.ttl)
      [] ~zn[z.cname].exists             -> Ans("nxdomain", <<>>, NegTtl)
      [] zn[z.cname].cname # NoName      -> Ans("prohibitedcname", <<>>, NegTtl)
      [] OTHER                           -> Found(zn[z.cname], t, Min2(z.ttl, zn[z.cname].ttl))

\* What adns_synchronous can return: its int result ("ok" is 0, "errno" a
\* system error, with no answer) and the answer.
AdnsResults(n, t) ==
    {[rc |-> "ok", ans |-> Answer(zn, n, t)] : zn \in Zones}
    \cup (IF Faults THEN {[rc |-> "ok", ans |-> Ans("timeout", <<>>, NegTtl)],
                          [rc |-> "errno", ans |-> NoAns]}
                    ELSE {})

(***************************************************************************)
(* resolver.c                                                              *)
(***************************************************************************)
DnsStatuses == {"success", "not_found", "temp_failure", "failure"}

\* adns_to_dns_status returning a code it has no entry for unconverted.
AdnsToDnsStatus_Raw(e) == IF e = "ok" THEN "success" ELSE e

\* adns_to_dns_status: the table of adns statuses; a system errno is below
\* adns_s_max_localfail and not in the table, so it is a dns_failure.
AdnsToDnsStatus(e) ==
    CASE e = "ok"                                     -> "success"
      [] e = "timeout"                                -> "temp_failure"
      [] e \in {"nxdomain", "nodata", "prohibitedcname"} -> "not_found"
      [] OTHER                                        -> "failure"

NoResp == [set |-> FALSE, count |-> 0, addr |-> <<>>, expires |-> 0]   \* *presp not set
Zero == [fam |-> "unspec", addr |-> "0"]                 \* a calloc'ed slot

VARIABLES
    lpc, family, rc_a, ans_a, ans_aaaa, rc, resp,      \* dns_lookup
    qpc, qtype, ans, qrc, hash, cname_count,           \* dns_query
    nq              \* adns_synchronous calls of this dns_query (history)

lookupVars == <<lpc, family, rc_a, ans_a, ans_aaaa, rc, resp>>
queryVars == <<qpc, qtype, ans, qrc, hash, cname_count, nq>>
vars == <<lookupVars, queryVars>>

TypeOK ==
    /\ lpc \in {"start", "a", "aaaa", "merge", "done"}
    /\ family \in Families
    /\ rc_a \in DnsStatuses \cup {"unset"}
    /\ rc \in DnsStatuses \cup {"unset"}
    /\ qpc \in {"idle", "first", "chain", "ret"}
    /\ qrc \in {"ok", "errno"}
    /\ hash \subseteq Names
    /\ cname_count \in 0..Cardinality(Names)
    /\ resp.set \in BOOLEAN /\ resp.count = Len(resp.addr)
    /\ nq \in Nat

Init ==
    /\ lpc = "start"
    /\ family \in Families
    /\ rc_a = "unset" /\ rc = "unset"
    /\ ans_a = NoAns /\ ans_aaaa = NoAns /\ resp = NoResp
    /\ qpc = "idle" /\ qtype = "a" /\ ans = NoAns /\ qrc = "ok"
    /\ hash = {} /\ cname_count = 0 /\ nq = 0

\* A call of dns_query(name, t, ...): ans = cnans = NULL.
StartQuery(t) ==
    /\ qpc' = "first" /\ qtype' = t /\ ans' = NoAns /\ qrc' = "ok"
    /\ hash' = {} /\ cname_count' = 0 /\ nq' = 0

\* The first adns_synchronous of the requested type; a refused CNAME chain
\* starts the hash table with the queried name.
QueryFirst ==
    /\ qpc = "first"
    /\ \E o \in AdnsResults(Query, qtype) :
         /\ ans' = o.ans /\ qrc' = o.rc
         /\ IF o.rc = "ok" /\ o.ans.status = "prohibitedcname" /\ MaxCnameChain > 1
              THEN qpc' = "chain" /\ hash' = {Query} /\ cname_count' = 1
              ELSE qpc' = "ret" /\ UNCHANGED <<hash, cname_count>>
    /\ nq' = nq + 1
    /\ UNCHANGED <<qtype, lookupVars>>

\* The loop condition of the CNAME walk.
ChainContinues == cname_count - 1 <= MaxCnameChain

\* cname_install: EEXIST when the name is already in the table.
CnameInstalled(n) == n \in hash

\* A CNAME query of the loop that finds a CNAME, with the loop check
\* continuing the walk instead of leaving it.
ChainCname_NoBreak ==
    /\ qpc = "chain" /\ ChainContinues
    /\ \E o \in AdnsResults(Query, "cname") :
         /\ o.rc = "ok" /\ o.ans.status = "ok"
         /\ IF CnameInstalled(o.ans.rrs[1])
              THEN UNCHANGED <<hash, cname_count>>
              ELSE hash' = hash \cup {o.ans.rrs[1]} /\ cname_count' = cname_count + 1
    /\ nq' = nq + 1
    /\ UNCHANGED <<qpc, qtype, ans, qrc, lookupVars>>

\* The CNAME query of the loop finds a CNAME: record its target and go on;
\* a target already recorded is a loop, and the walk ends with rc = 0 and
\* ans still adns_s_prohibitedcname.  The query is for name, the name
\* dns_query was called with, in every round.
ChainCname ==
    /\ qpc = "chain" /\ ChainContinues
    /\ \E o \in AdnsResults(Query, "cname") :
         /\ o.rc = "ok" /\ o.ans.status = "ok"
         /\ IF CnameInstalled(o.ans.rrs[1])
              THEN qpc' = "ret" /\ UNCHANGED <<hash, cname_count>>
              ELSE qpc' = "chain" /\ hash' = hash \cup {o.ans.rrs[1]}
                   /\ cname_count' = cname_count + 1
    /\ nq' = nq + 1
    /\ UNCHANGED <<qtype, ans, qrc, lookupVars>>

\* adns_synchronous fails in the loop: leave it with that rc.
ChainSysError ==
    /\ qpc = "chain" /\ ChainContinues
    /\ \E o \in AdnsResults(Query, "cname") :
         /\ o.rc # "ok"
         /\ qrc' = o.rc /\ qpc' = "ret"
    /\ nq' = nq + 1
    /\ UNCHANGED <<qtype, ans, hash, cname_count, lookupVars>>

\* The name has records of another type: query the requested type again.
ChainNodata ==
    /\ qpc = "chain" /\ ChainContinues
    /\ \E o \in AdnsResults(Query, "cname") :
         /\ o.rc = "ok" /\ o.ans.status = "nodata"
         /\ \E o2 \in AdnsResults(Query, qtype) : ans' = o2.ans /\ qrc' = o2.rc
    /\ qpc' = "ret"
    /\ nq' = nq + 2
    /\ UNCHANGED <<qtype, hash, cname_count, lookupVars>>

\* Another status: the CNAME answer replaces the original one.
ChainOther ==
    /\ qpc = "chain" /\ ChainContinues
    /\ \E o \in AdnsResults(Query, "cname") :
         /\ o.rc = "ok" /\ o.ans.status \notin {"ok", "nodata"}
         /\ ans' = o.ans
    /\ qpc' = "ret"
    /\ nq' = nq + 1
    /\ UNCHANGED <<qtype, qrc, hash, cname_count, lookupVars>>

\* The chain is longer than max_cname_chain.
ChainExit ==
    /\ qpc = "chain" /\ ~ChainContinues
    /\ qpc' = "ret"
    /\ UNCHANGED <<qtype, ans, qrc, hash, cname_count, nq, lookupVars>>

\* What dns_query returns: adns_to_dns_status of the adns_synchronous
\* result, and *ans_ret, set only when that result is 0.
QueryStatus == AdnsToDnsStatus(qrc)
QueryAnswer == IF qrc = "ok" THEN ans ELSE NoAns

(***************************************************************************)
(* dns_lookup                                                              *)
(***************************************************************************)

\* The A query made for every family.
LookupA_Any ==
    /\ lpc = "start"
    /\ lpc' = "a"
    /\ StartQuery("a")
    /\ UNCHANGED <<family, rc_a, ans_a, ans_aaaa, rc, resp>>

\* PF_UNSPEC or PF_INET: look up the A records first.
LookupA ==
    /\ lpc = "start" /\ family \in {"UNSPEC", "INET"}
    /\ lpc' = "a"
    /\ StartQuery("a")
    /\ UNCHANGED <<family, rc_a, ans_a, ans_aaaa, rc, resp>>

\* PF_INET6 skips the A query and leaves rc_a uninitialised: the switch
\* below reads whatever the stack slot holds.
LookupAAAAOnly ==
    /\ lpc = "start" /\ family = "INET6"
    /\ lpc' = "aaaa"
    /\ rc_a' \in DnsStatuses
    /\ StartQuery("aaaa")
    /\ UNCHANGED <<family, ans_a, ans_aaaa, rc, resp>>

\* The A query returns: PF_INET gives up on failure; PF_UNSPEC goes on
\* with AAAA.
AfterA ==
    /\ lpc = "a" /\ qpc = "ret"
    /\ rc_a' = QueryStatus /\ ans_a' = QueryAnswer
    /\ CASE QueryStatus # "success" /\ family = "INET" ->
              lpc' = "done" /\ rc' = QueryStatus /\ UNCHANGED queryVars
         [] family = "UNSPEC" -> lpc' = "aaaa" /\ rc' = rc /\ StartQuery("aaaa")
         [] OTHER -> lpc' = "merge" /\ rc' = rc /\ UNCHANGED queryVars
    /\ UNCHANGED <<family, ans_aaaa, resp>>

\* The switch on the AAAA status: the status dns_lookup returns early, or
\* "none" to go on (dns_temp_failure falls through to dns_failure).
AAAAReturn(s) ==
    CASE s = "success"                        -> "none"
      [] s = "not_found" /\ rc_a # "success"  -> "not_found"
      [] s = "temp_failure" /\ rc_a # "success" -> rc_a
      [] s = "failure" /\ rc_a # "success"    -> s
      [] OTHER                                -> "none"

AfterAAAA ==
    /\ lpc = "aaaa" /\ qpc = "ret"
    /\ ans_aaaa' = QueryAnswer
    /\ rc' = IF AAAAReturn(QueryStatus) = "none" THEN QueryStatus ELSE AAAAReturn(QueryStatus)
    /\ lpc' = IF AAAAReturn(QueryStatus) = "none" THEN "merge" ELSE "done"
    /\ UNCHANGED <<family, rc_a, ans_a, resp, queryVars>>

\* The response: resp->count counts both loops, the A addresses are
\* stored from index 0 and the AAAA addresses from index 0 again; expires
\* starts at 0 (calloc) and is set only from ans_a, then lowered by ans_aaaa.
Slot(f, x) == [fam |-> f, addr |-> x]

FillA(n) == [i \in 1..n |-> IF i <= Len(ans_a.rrs) THEN Slot("inet", ans_a.rrs[i]) ELSE Zero]

FillAAAA(arr) ==
    [i \in DOMAIN arr |-> IF i <= Len(ans_aaaa.rrs) THEN Slot("inet6", ans_aaaa.rrs[i]) ELSE arr[i]]

RespExpires ==
    LET e == IF ans_a # NoAns THEN ans_a.expires ELSE 0 IN
    IF ans_aaaa # NoAns /\ ans_aaaa.expires < e THEN ans_aaaa.expires ELSE e

Merge ==
    /\ lpc = "merge"
    /\ LET count == Len(ans_a.rrs) + Len(ans_aaaa.rrs) IN
       resp' = IF count = 0
                 THEN [set |-> TRUE, count |-> 0, addr |-> <<>>, expires |-> 0]
                 ELSE [set |-> TRUE, count |-> count,
                       addr |-> FillAAAA(FillA(count)), expires |-> RespExpires]
    /\ rc' = "success"
    /\ lpc' = "done"
    /\ UNCHANGED <<family, rc_a, ans_a, ans_aaaa, queryVars>>

\* calloc of the response or of its address array fails (lognomem): the
\* lookup fails and *presp is set to NULL.
MergeNoMem ==
    /\ lpc = "merge" /\ Faults
    /\ resp' = [NoResp EXCEPT !.set = TRUE]
    /\ rc' = "failure"
    /\ lpc' = "done"
    /\ UNCHANGED <<family, rc_a, ans_a, ans_aaaa, queryVars>>

\* dns_lookup has returned.
Done ==
    /\ lpc = "done"
    /\ UNCHANGED vars

Next ==
    \/ QueryFirst \/ ChainCname \/ ChainSysError \/ ChainNodata \/ ChainOther \/ ChainExit
    \/ LookupA \/ LookupAAAAOnly \/ AfterA \/ AfterAAAA \/ Merge \/ MergeNoMem \/ Done

Spec == Init /\ [][Next]_vars

(***************************************************************************)
(* Properties                                                              *)
(***************************************************************************)
RespAddrs == {resp.addr[i] : i \in DOMAIN resp.addr}

\* The address records of type t the name n has in zone zn when at most
\* MaxCnameChain CNAMEs are followed (the reference resolution).
RECURSIVE Resolve(_, _, _, _)
Resolve(zn, n, t, d) ==
    CASE ~zn[n].exists      -> <<>>
      [] zn[n].cname = NoName -> Records(zn[n], t)
      [] d < MaxCnameChain  -> Resolve(zn, zn[n].cname, t, d + 1)
      [] OTHER              -> <<>>

WantAddrs(zn) ==
    LET Want(f, t) == {Slot(f, x) : x \in {Resolve(zn, Query, t, 0)[i] : i \in DOMAIN Resolve(zn, Query, t, 0)}}
    IN  (IF family \in {"UNSPEC", "INET"} THEN Want("inet", "a") ELSE {})
        \cup (IF family \in {"UNSPEC", "INET6"} THEN Want("inet6", "aaaa") ELSE {})

\* dns_lookup returns the addresses of the families the caller asked for
\* and no others: a PF_INET lookup never carries an IPv6 address and a
\* PF_INET6 lookup never an IPv4 one, whatever adns answers.
FamilyRespected ==
    lpc = "done" =>
        \A x \in RespAddrs :
            /\ x.fam = "inet" => family \in {"UNSPEC", "INET"}
            /\ x.fam = "inet6" => family \in {"UNSPEC", "INET6"}

\* dns_query follows "CNAME chains of up to dns_max_cname_chain elements"
\* with, by its FIXME, two extra lookups: one call of dns_query never makes
\* more than max_cname_chain + 3 adns queries, whatever the zone (loops
\* included) and whatever adns fails.
QueriesBounded == nq <= MaxCnameChain + 3

\* With one version of the zone and no failures, a successful dns_lookup
\* returns exactly the A and AAAA addresses the name resolves to, CNAME
\* chains of up to max_cname_chain followed.
ResolvedAddresses ==
    (lpc = "done" /\ rc = "success") => \A zn \in Zones : RespAddrs = WantAddrs(zn)

\* With one version of the zone and no failures, a name without addresses
\* of the family is reported as dns_not_found, as adns_to_dns_status maps
\* adns_s_nxdomain and adns_s_nodata.
NotFoundReported ==
    (lpc = "done" /\ \A zn \in Zones : WantAddrs(zn) = {}) => rc # "success"

\* The response expires when the first of the answers it was built from
\* expires.
ExpiresFromAnswers ==
    (lpc = "done" /\ rc = "success" /\ resp.count > 0) =>
        resp.expires = LET used == {x \in {ans_a, ans_aaaa} : x # NoAns}
                       IN  CHOOSE e \in {x.expires : x \in used} : \A x \in used : e <= x.expires

\* dns_lookup goes on to build a response after the AAAA query only when
\* that query succeeded or the A query made before it did.
FailedQueryNotMerged ==
    [][(lpc = "aaaa" /\ lpc' = "merge") =>
         (rc' = "success" \/ (ans_a # NoAns /\ rc_a = "success"))]_vars
====

------------------------------ MODULE BodyCopy ------------------------------
(***************************************************************************)
(* copy_chunks, copy_bin and get_line of http.c: copying a chunked body   *)
(* from one BIO to the other.  copy_chunks is called for a chunked request *)
(* body with max_size = the listener's max_req, and for a chunked response *)
(* body with max_size = 0 (no limit).  It is a sequential loop over its    *)
(* input, so it is an operator over the input stream.                     *)
(*                                                                         *)
(* The stream is a sequence of items: a line get_line returns whole (a     *)
(* chunk-size line with its hexadecimal value, an empty line, or other     *)
(* text), a line get_line gives up on ("broken": CR not followed by LF, a *)
(* control character, or longer than the buffer, all of which it reads    *)
(* through the next LF and reports as 1), n bytes of chunk data, and the  *)
(* end of the stream.  LONG arithmetic is done at width LongBits, wrapping *)
(* as the two's complement hardware does.                                  *)
(***************************************************************************)
EXTENDS Integers, Sequences

CONSTANT LongBits

LongMax == 2^(LongBits - 1) - 1
LongMin == -(2^(LongBits - 1))

\* tot_size += cont on LONG: the sum wraps.
WrapLong(x) == ((x - LongMin) % 2^LongBits) + LongMin

\* STRTOL(buf, NULL, 16) on a size line: a value above LONG_MAX is ERANGE
\* and gives LONG_MAX.
StrtolHex(v) == IF v > LongMax THEN LongMax ELSE v

\* get_line: 0 for a whole line, 1 for the end of the stream or a line it
\* gives up on.
GetLine(in) == IF in # <<>> /\ Head(in).k = "line" THEN 0 ELSE 1

(***************************************************************************)
(* copy_bin(cl, be, cont, ...): read cont bytes and write them.  Result   *)
(* [rc, in, bytes]: 0, or -2 when the stream ends first; the rest of the   *)
(* stream; the bytes added to res_bytes.                                   *)
(***************************************************************************)
RECURSIVE CopyBin(_, _)
CopyBin(in, cont) ==
    IF cont <= 0 THEN [rc |-> 0, in |-> in, bytes |-> 0]
    ELSE IF in = <<>> \/ Head(in).k # "data" THEN [rc |-> -2, in |-> in, bytes |-> 0]
    ELSE LET n == Head(in).n IN
         IF n > cont
           THEN [rc |-> 0, bytes |-> cont, in |-> <<[k |-> "data", n |-> n - cont]>> \o Tail(in)]
           ELSE LET r == CopyBin(Tail(in), cont - n) IN
                [rc |-> r.rc, in |-> r.in, bytes |-> n + r.bytes]

\* The chunk-size check done before adding the new chunk.
TooLarge_Before(tot, cont, max) == max > 0 /\ tot > max

\* tot_size += cont; max_size > 0 && tot_size > max_size.
TooLarge(tot, cont, max) == max > 0 /\ WrapLong(tot + cont) > max

(***************************************************************************)
(* copy_chunks.  Result [rc, bytes, last]: the return value, the chunk     *)
(* data bytes copied, and whether the last (zero-size) chunk was read.     *)
(***************************************************************************)
RECURSIVE Trailers(_, _)
Trailers(in, bytes) ==
    IF GetLine(in) > 0 \/ Head(in).text = "empty"
      THEN [rc |-> 0, bytes |-> bytes, last |-> TRUE]
      ELSE Trailers(Tail(in), bytes)

RECURSIVE Chunks(_, _, _, _)
Chunks(in, tot, bytes, max) ==
    IF GetLine(in) > 0 THEN [rc |-> 0, bytes |-> bytes, last |-> FALSE]
    ELSE IF Head(in).text # "hex" THEN [rc |-> -2, bytes |-> bytes, last |-> FALSE]
    ELSE LET cont == StrtolHex(Head(in).v) IN
         IF TooLarge(tot, cont, max) THEN [rc |-> -4, bytes |-> bytes, last |-> FALSE]
         ELSE IF cont <= 0 THEN Trailers(Tail(in), bytes)
         ELSE LET cb == CopyBin(Tail(in), cont) IN
              IF cb.rc # 0 THEN [rc |-> -4, bytes |-> bytes + cb.bytes, last |-> FALSE]
              ELSE IF GetLine(cb.in) > 0 THEN [rc |-> -5, bytes |-> bytes + cb.bytes, last |-> FALSE]
              ELSE Chunks(Tail(cb.in), WrapLong(tot + cont), bytes + cb.bytes, max)

CopyChunks(in, max) == Chunks(in, 0, 0, max)

(***************************************************************************)
(* The RPC_IN_DATA body of do_http: the bytes already buffered are copied *)
(* one at a time, then the socket is read in blocks until EOF; res_bytes   *)
(* (0 at the start of each request) counts what was read, and the copy     *)
(* stops without writing the byte or block that takes it past cont.       *)
(* Result [ok, bytes]: EOF reached, and the bytes written to the backend. *)
(***************************************************************************)
\* The buffered bytes tested with ">=" instead of ">".
RpcInPending_Ge(pending, cont) ==
    IF pending >= cont THEN [ok |-> FALSE, bytes |-> cont - 1] ELSE [ok |-> TRUE, bytes |-> pending]

\* while (BIO_pending): if (++res_bytes > cont) return; BIO_write one byte.
RpcInPending(pending, cont) ==
    IF pending > cont THEN [ok |-> FALSE, bytes |-> cont] ELSE [ok |-> TRUE, bytes |-> pending]

\* while (BIO_read (cl_unbuf) > 0): if ((res_bytes += res) > cont) return;
\* BIO_write the block.
RECURSIVE RpcInReads(_, _, _)
RpcInReads(reads, rb, cont) ==
    IF reads = <<>> THEN [ok |-> TRUE, bytes |-> rb]
    ELSE IF rb + Head(reads) > cont THEN [ok |-> FALSE, bytes |-> rb]
    ELSE RpcInReads(Tail(reads), rb + Head(reads), cont)

\* else if (cont > 0 && is_readable (cl, to)): only then is the body
\* copied (and cl_11 = be_11 = 0); otherwise nothing is read from the
\* client, and do_http bails out for is_rpc == 1 either way.
RpcInCopy(pending, reads, cont, readable) ==
    IF ~(cont > 0 /\ readable) THEN [ok |-> TRUE, bytes |-> 0, copied |-> FALSE]
    ELSE LET p == RpcInPending(pending, cont)
             r == IF ~p.ok THEN p ELSE RpcInReads(reads, p.bytes, cont)
         IN  [ok |-> r.ok, bytes |-> r.bytes, copied |-> TRUE]

=============================================================================

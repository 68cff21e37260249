---------------------------- MODULE SpecialReply ----------------------------
(***************************************************************************)
(* The replies do_http sends itself for a backend that is not a real one   *)
(* (http.c): redirect_reply for a Redirect backend, acme_reply for an ACME *)
(* backend, and the http_err_reply the caller adds when either returns a  *)
(* status other than HTTP_STATUS_OK.  The loop then goes on to the next    *)
(* request of a keep-alive connection.                                     *)
(*                                                                         *)
(* What is written to the client is a sequence of replies [code, len,     *)
(* body, loc]: the status, the Content-Length sent, the bytes of body     *)
(* actually written after it, and the Location (<<>> for none).  Text      *)
(* other than the Location is left out.  A status returned is its name in *)
(* the http_status table.                                                  *)
(***************************************************************************)
EXTENDS Redirect, BodyCopy

\* The bytes of the redirect page besides the URL, which it holds twice.
PageText == 118

Reply(code, len, body, loc) == [code |-> code, len |-> len, body |-> body, loc |-> loc]

\* The codes of the http_status entries the replies use.
StatusCode == [OK |-> 200, NOT_FOUND |-> 404, INTERNAL_SERVER_ERROR |-> 500]

\* err_reply(c, err, txt): Content-Length strlen(txt), then txt.
ErrReply(err, txtLen) == Reply(StatusCode[err], txtLen, txtLen, <<>>)

(***************************************************************************)
(* redirect_reply(c, url, be, sm): [rc, sent].  be is [code, url,        *)
(* redir_req]; fail names the stringbuf_finish that returns NULL (the     *)
(* expanded URL, the safe URL, the page), "none" when all succeed.        *)
(***************************************************************************)
RedirectReply(be, url, sm, signed, fail) ==
    LET loc == SafeUrl(ExpandUrl(be.url, url, sm, be.redir_req).out, signed) IN
    IF fail # "none" THEN [rc |-> "INTERNAL_SERVER_ERROR", sent |-> <<>>]
    ELSE [rc |-> "OK", sent |-> <<Reply(be.code, PageText + 2 * Len(loc), PageText + 2 * Len(loc), loc)>>]

(***************************************************************************)
(* acme_reply(c, url, be, sm): [rc, sent].  f is the file the expanded    *)
(* URL names: what open gives ("ok", "ENOENT" or another errno), whether  *)
(* fstat succeeds, st_size, and the data a read of it gives (the file may *)
(* shrink between fstat and the reads).  The status line and the length   *)
(* are sent before copy_bin; its result is only logged.                   *)
(***************************************************************************)
AcmeReply_ErrOnCopy(f) ==
    LET c == CopyBin(f.data, f.size) IN
    CASE f.open = "ENOENT" -> [rc |-> "NOT_FOUND", sent |-> <<>>]
      [] f.open # "ok"     -> [rc |-> "INTERNAL_SERVER_ERROR", sent |-> <<>>]
      [] ~f.stat           -> [rc |-> "INTERNAL_SERVER_ERROR", sent |-> <<>>]
      [] OTHER -> [rc |-> IF c.rc = 0 THEN "OK" ELSE "INTERNAL_SERVER_ERROR",
                   sent |-> <<Reply(200, f.size, c.bytes, <<>>)>>]

AcmeReply(f) ==
    LET c == CopyBin(f.data, f.size) IN
    CASE f.open = "ENOENT" -> [rc |-> "NOT_FOUND", sent |-> <<>>]
      [] f.open # "ok"     -> [rc |-> "INTERNAL_SERVER_ERROR", sent |-> <<>>]
      [] ~f.stat           -> [rc |-> "INTERNAL_SERVER_ERROR", sent |-> <<>>]
      [] OTHER             -> [rc |-> "OK", sent |-> <<Reply(200, f.size, c.bytes, <<>>)>>]

\* do_http for a backend of another type than BE_BACKEND: the reply of r,
\* and http_err_reply(arg, code) when code is not HTTP_STATUS_OK, with the
\* listener's text for it, of length errLen.
SpecialReply(r, errLen) ==
    IF r.rc # "OK" THEN r.sent \o <<ErrReply(r.rc, errLen)>> ELSE r.sent
=============================================================================

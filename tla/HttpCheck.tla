----------------------------- MODULE HttpCheck -----------------------------
(***************************************************************************)
(* http_protcol_check of protocol/http.c: which of the requests that the   *)
(* parser took are served.  They grow header by header.                    *)
(***************************************************************************)
EXTENDS Integers, Sequences

CONSTANT MaxChecked    \* bound: headers of a request

ASSUME CheckAssumption == MaxChecked \in Nat

VARIABLE req

\* What ci_equal tells apart, whatever the case; a folded line has no name.
Names == {"Host", "Content-Length", "Transfer-Encoding", "other", ""}

\* What parse_content_length tells apart: up to 18 digits that are all 0, up to
\* 18 digits, and everything else.
Values == {"zero", "number", "else"}

CheckInit ==
  req \in [minor_version : {0, 1, 2}, method : {"GET", "other"}, safe : BOOLEAN,
           headers : {<< >>}]
CheckNext ==
  /\ Len(req.headers) < MaxChecked
  /\ \E h \in [name : Names, value : Values] :
       /\ h.value # "else" => h.name = "Content-Length"
       /\ req' = [req EXCEPT !.headers = Append(@, h)]
CheckSpec == CheckInit /\ [][CheckNext]_req

\* find_header: the first of that name.  Mutant: the last.
FindHeader_Last(r, name) ==
  LET I == {i \in DOMAIN r.headers : r.headers[i].name = name} IN
  IF I = {} THEN -1 ELSE CHOOSE i \in I : \A j \in I : j <= i
FindHeader(r, name) ==
  LET I == {i \in DOMAIN r.headers : r.headers[i].name = name} IN
  IF I = {} THEN -1 ELSE CHOOSE i \in I : \A j \in I : i <= j

ParseContentLength(v) ==
  CASE v = "zero" -> 0 [] v = "number" -> 1 [] v = "else" -> -1

\* http_protcol_check
Checked(r) ==
  LET cl == FindHeader(r, "Content-Length") IN
  /\ r.minor_version \in {0, 1}
  /\ r.minor_version = 1 => FindHeader(r, "Host") >= 0
  /\ r.method = "GET" /\ r.safe
  /\ \A i \in DOMAIN r.headers : r.headers[i].name # ""
  /\ ~(cl >= 0 /\ FindHeader(r, "Transfer-Encoding") >= 0)
  /\ cl >= 0 => ParseContentLength(r.headers[cl].value) = 0
------------------------------------------------------------------------------
\* No header makes a request right that was refused without it, unless it is the
\* Host that was missing: neither a second length nor anything behind a coding
\* can hide the first.
RefusalStays ==
  [][~Checked(req) /\ Checked(req') =>
       req'.headers[Len(req'.headers)].name = "Host" /\ FindHeader(req, "Host") < 0]_req
=============================================================================

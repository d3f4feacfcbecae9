------------------------------ MODULE HttpPath ------------------------------
(***************************************************************************)
(* What a request path leads to: is_safe_path of protocol/http.c decides   *)
(* whether it is taken, route/router.c picks the handler, and main_static  *)
(* cuts the name of a file out of it.  The paths grow symbol by symbol, so *)
(* that the states are all the paths up to a length.                       *)
(***************************************************************************)
EXTENDS Integers, Sequences

CONSTANTS
  MaxLen,      \* bound: symbols of a path
  MaxPath,     \* the 2048 of is_safe_path, counted in symbols
  MaxName      \* MAX_PATH_LEN, counted in symbols

ASSUME PathAssumption == MaxLen \in Nat /\ MaxPath \in Nat /\ MaxName \in Nat \ {0}

VARIABLE path

\* One symbol for each kind of character the code tells apart; the word
\* "static" is one symbol, a hexadecimal digit is "a", and what
\* is_valid_path_char refuses is "bad".
Symbols == {"/", "static", ".", "%", "a", "?", "bad"}

PathInit == path = << >>
PathNext == Len(path) < MaxLen /\ \E s \in Symbols : path' = Append(path, s)
PathSpec == PathInit /\ [][PathNext]_path
------------------------------------------------------------------------------
Hex(p, i) == i <= Len(p) /\ p[i] = "a"

\* Two dots side by side.  Mutant: they are only looked for in front of
\* a slash.
Dots_BeforeSlash(p, i) == i > 2 /\ p[i] = "/" /\ p[i - 1] = "." /\ p[i - 2] = "."
Dots(p, i) == i > 1 /\ p[i] = "." /\ p[i - 1] = "."

\* The loop goes on behind both digits of an escape.  Mutant: behind one more.
Step_Far(p, i) == IF p[i] = "%" THEN 4 ELSE 1
Step(p, i) == IF p[i] = "%" THEN 3 ELSE 1

\* is_safe_path
IsSafePath(p) ==
  LET safe[i \in 1 .. Len(p) + 4] ==
        i <= Len(p) =>
          /\ p[i] # "bad"
          /\ ~Dots(p, i)
          /\ p[i] = "%" => Hex(p, i + 1) /\ Hex(p, i + 2)
          /\ safe[i + Step(p, i)]
  IN  Len(p) \in 1 .. MaxPath /\ p[1] = "/" /\ safe[1]

StartsWith(p, q) == Len(p) >= Len(q) /\ SubSeq(p, 1, Len(q)) = q

\* get_router_function for a GET, the only method http_protcol_check lets pass:
\* the first entry of router_table that matches.
Route(p) ==
  CASE StartsWith(p, <<"/", "static", "/">>) -> "main_static"
    [] ~StartsWith(p, <<"/", "static", "/">>) /\ p = <<"/">> -> "main_home"
    [] ~StartsWith(p, <<"/", "static", "/">>) /\ p # <<"/">> -> "main_not_found"

\* The path up to its query, without the slash in front.
Query(p) == {i \in 2 .. Len(p) : p[i] = "?"}
NameOf(p) ==
  SubSeq(p, 2, IF Query(p) = {} THEN Len(p)
               ELSE (CHOOSE i \in Query(p) : \A j \in Query(p) : i <= j) - 1)

\* main_static opens a file of that name unless it is too long.
Opened(p) ==
  IF IsSafePath(p) /\ Route(p) = "main_static" /\ Len(NameOf(p)) \in 1 .. MaxName - 1
  THEN {NameOf(p)} ELSE {}

\* content_type_by_name: what stands behind the last dot, unless a slash comes
\* after it.  "a" is the suffix that CONTENT_TYPE_TABLE knows.
Suffixes == {"a"}
Marks(n) == {i \in DOMAIN n : n[i] \in {"/", "."}}
ContentType(n) ==
  LET i == CHOOSE k \in Marks(n) : \A j \in Marks(n) : j <= k
      suffix == SubSeq(n, i + 1, Len(n))
  IN  IF Marks(n) # {} /\ n[i] = "." /\ Len(suffix) = 1 /\ suffix[1] \in Suffixes
      THEN suffix[1] ELSE "text/plain"
------------------------------------------------------------------------------
\* http.c:316: a path is safe when it is not too long, begins with a slash, has
\* no characters of another kind, no two dots side by side and no broken escape.  The loop, which
\* skips the digits of an escape, finds exactly that.
SafePathExact ==
  IsSafePath(path) <=>
    /\ Len(path) \in 1 .. MaxPath /\ path[1] = "/"
    /\ \A i \in DOMAIN path :
         /\ path[i] # "bad"
         /\ ~(i + 1 \in DOMAIN path /\ path[i] = "." /\ path[i + 1] = ".")
         /\ path[i] = "%" => i + 2 \in DOMAIN path /\ path[i + 1] = "a" /\ path[i + 2] = "a"

\* Every file that is opened lies below static/: its name begins there, none of
\* its parts leads up again, and the query is neither part of it nor of the suffix
\* that it is sent by.
StaticConfined ==
  \A n \in Opened(path) :
    /\ StartsWith(n, <<"static", "/">>)
    /\ \A i \in DOMAIN n : n[i] # "?"
    /\ \A i \in 3 .. Len(n) : n[i - 2] = "/" /\ n[i - 1] = "." /\ n[i] = "." =>
         i < Len(n) /\ n[i + 1] # "/"
    /\ ContentType(n) = "a" <=> path[Len(n)] = "." /\ path[Len(n) + 1] = "a"
=============================================================================

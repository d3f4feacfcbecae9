------------------------------- MODULE MCHttp -------------------------------
(***************************************************************************)
(* Instances of what reads and checks HTTP, for TLC: part says which one   *)
(* works, and the others rest.                                             *)
(***************************************************************************)
EXTENDS HttpPath, HttpRead, HttpCheck, ChunkDecoder, MCResponses

VARIABLE part

PartsInit ==
  /\ part \in {"path", "text", "read", "check", "chunks", "responses"}
  /\ PathInit /\ TextInit /\ ReadInit /\ CheckInit /\ ChunkInit /\ Init
  /\ part # "text" => text = << >>
  /\ part # "read" => sent = <<<<"t">>>>
  /\ part # "check" => req = [minor_version |-> 1, method |-> "GET", safe |-> TRUE, headers |-> << >>]
  /\ part # "chunks" => ~decoder.trailer

PartsNext ==
  /\ UNCHANGED part
  /\ \/ part = "path" /\ PathNext /\ UNCHANGED <<textVars, readVars, req, chunkVars, vars>>
     \/ part = "text" /\ TextNext /\ UNCHANGED <<path, readVars, req, chunkVars, vars>>
     \/ part = "read" /\ ReadNext /\ UNCHANGED <<path, textVars, req, chunkVars, vars>>
     \/ part = "check" /\ CheckNext /\ UNCHANGED <<path, textVars, readVars, chunkVars, vars>>
     \/ part = "chunks" /\ ChunkNext /\ UNCHANGED <<path, textVars, readVars, req, vars>>
     \/ part = "responses" /\ Next /\ UNCHANGED <<path, textVars, readVars, req, chunkVars>>

PartsSpec == PartsInit /\ [][PartsNext]_<<path, textVars, readVars, req, chunkVars, vars, part>>
------------------------------------------------------------------------------
Line == <<"t", "SP", "SP", "/", "t", "SP", "V", "1">>

\* Where a text begins: at every part of a request and of a response.
MCStarts ==
  {<< >>, <<"t">>, <<"t", "SP">>, <<"t", "SP", "/">>, <<"LF", "t", "SP", "/">>,
   <<"t", "SP", "/", "SP">>, Line, Line \o <<"LF">>, Line \o <<"CR", "LF", "t">>,
   Line \o <<"CR", "LF", "t", ":">>, Line \o <<"LF", "t", ":", "SP", "t", "HT">>,
   Line \o <<"LF", "t", ":", "SP", "t", "CR", "LF">>, Line \o <<"LF", "t", ":", "LF", "t", ":", "LF">>,
   <<"V", "1">>, <<"V", "1", "SP", "1", "1">>, <<"V", "1", "SP", "1", "1", "1", "SP">>,
   <<"V", "1", "SP", "1", "1", "1", "LF", "t", ":">>, <<"t", ":", "LF">>}

\* What a client sends: bytes one by one, ends of requests, whole requests, with
\* a Host in those that http_protcol_check lets pass.
Get(p) == <<"t", "t", "t", "SP">> \o p \o <<"SP", "V", "1", "LF", "t", "t", "t", "t", ":">>

MCFirsts == {<<"t">>, <<"LF">>, Line, Line \o <<"CR", "LF", "t">>, Get(<<"/">>), Get(<<"/">>) \o <<"LF", "LF">>}
MCPieces == {<<b>> : b \in Bytes} \union {<<"CR", "LF">>, <<"LF", "LF">>, Get(<<"/", "t">>) \o <<"LF", "LF">>}
=============================================================================

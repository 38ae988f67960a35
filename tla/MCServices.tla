----------------------------- MODULE MCServices -----------------------------
(***************************************************************************)
(* The instance of Services that TLC checks.                               *)
(***************************************************************************)
EXTENDS Services

(* HttpConnection: a response without a body, one with three bytes, chunks *)
(* of two and three bytes (sizes of one digit and of two), and one chunk.  *)
SomeResponses ==
  {[kind |-> "length", chunks |-> <<>>], [kind |-> "length", chunks |-> << <<"a", "b", "c">> >>],
   [kind |-> "chunked", chunks |-> << <<"a", "b">>, <<"a", "b", "c">> >>],
   [kind |-> "chunked", chunks |-> << <<"a", "b">> >>]}

(* HttpServer: three requests, the last one without a body, and two, the   *)
(* first one without.                                                      *)
SomeSymbols == {"h1", "h2", "h3", "e1", "e2", "e3", "a", "b", "c", "d"}
Asked(h, e, b) == [head |-> h, end |-> e, body |-> b]
SomeConversations ==
  {<<Asked("h1", "e1", <<"a", "b">>), Asked("h2", "e2", <<"c">>), Asked("h3", "e3", <<>>)>>,
   <<Asked("h1", "e1", <<>>), Asked("h2", "e2", <<"c", "d">>)>>}

(* Log.                                                                    *)
SomeNames     == <<"http", "root">>
SomeAppenders == {<<>>, <<"file">>, <<"file", "stdout">>}
=============================================================================

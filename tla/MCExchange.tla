---------------------------- MODULE MCExchange ----------------------------
(* One call: of a service that is exported, one that is not, and one whose    *)
(* name has a slash; by this package's client or by another one.              *)
EXTENDS Exchange
MCNames == {<<"a">>, <<"b">>, <<"a", "b">>}
MCExported == <<[service |-> "a", methods |-> <<"c">>], [service |-> "a", methods |-> <<"a", "b">>]>>
MCForeign ==
    {Headers(method, content, path, encoding) :
        method \in {"POST", "GET"}, content \in {"application/grpc", "text/plain", Blank},
        path \in {<<>>, <<"a">>, <<Blank, "a">>, <<Blank, "a", "b">>, <<"a", "a", "b">>},
        encoding \in {Blank, "gzip", "zstd"}}
=============================================================================

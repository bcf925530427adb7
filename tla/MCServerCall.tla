---------------------------- MODULE MCServerCall ----------------------------
(* A unary and a bidirectional call that share one thread.                  *)
EXTENDS ServerCall, TLC

CONSTANTS c1, c2

Message(payload) == [flag |-> 0, payload |-> payload]
Compressed(payload) == [flag |-> 1, payload |-> payload]
Undefined == [flag |-> 2, payload |-> <<>>]
End == Message(<<>>)

MCRpcType == (c1 :> "unary") @@ (c2 :> "bi_stream")

MCRequests ==
    (c1 :> {<<Message(<<7>>)>>, <<Message(<<9>>)>>})
    @@ (c2 :> {<<Message(<<1>>), Compressed(<<0>>)>>, <<End, Undefined>>})

MCRefused == {<<9>>}
=============================================================================

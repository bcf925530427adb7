----------------------------- MODULE TriDecoder -----------------------------
(***************************************************************************)
(* TriEncoder and TriDecoder (protocol/triple/coders.py): gRPC messages in *)
(* the bytes of a stream, which DATA frames cut anywhere.                  *)
(*                                                                         *)
(* A byte is a number, and the four bytes of a length are one of them.  A  *)
(* decoder is a value: its owner feeds it and takes its messages step by   *)
(* step, as the loop of _do_decode does.                                   *)
(***************************************************************************)
EXTENDS Naturals, Sequences, SequencesExt

HEADER_LENGTH == 2   \* the compressed flag and the length

Encode(message) == <<message.flag, Len(message.payload)>> \o message.payload

NewDecoder == [state |-> "HEADER", required |-> HEADER_LENGTH, accumulate |-> <<>>]

Feed(d, bytes) == [d EXCEPT !.accumulate = @ \o bytes]

HasEnoughBytes(d) == Len(d.accumulate) >= d.required

Cut(d) == SubSeq(d.accumulate, 1, d.required)
Rest(d) == SubSeq(d.accumulate, d.required + 1, Len(d.accumulate))

AtHeader(d) == d.state = "HEADER" /\ HasEnoughBytes(d)
AtPayload(d) == d.state = "PAYLOAD" /\ HasEnoughBytes(d)

\* Only the lowest bit of the flag is defined.
Malformed(d) == Cut(d)[1] > 1

ProcessHeader(d) ==
    [state |-> "PAYLOAD", required |-> Cut(d)[HEADER_LENGTH], accumulate |-> Rest(d)]

KeepPayload(d) ==
    [state |-> "HEADER", required |-> HEADER_LENGTH, accumulate |-> d.accumulate]
\* The listener is given Cut(d); the next header follows.
ProcessPayload(d) ==
    [state |-> "HEADER", required |-> HEADER_LENGTH, accumulate |-> Rest(d)]
=============================================================================

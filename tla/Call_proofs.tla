----------------------------- MODULE Call_proofs -----------------------------
(***************************************************************************)
(* Safety of a client's call: of ClientCall for any number of messages and *)
(* any size of the read stream, of Exchange for any names, services, codes *)
(* and requests of others.                                                 *)
(***************************************************************************)
EXTENDS ClientCall, Exchange, SequenceTheorems, TLAPS

Op == {"headers", "data", "end", "rst"}

----------------------------------------------------------------------------
(* Types: where the threads are, and what they share                        *)

PlaceTypes ==
    /\ pc \in [Threads -> Labels]
    /\ status \in [Threads -> {"none", "ok", "error"}]

CallTypes ==
    /\ headersSent \in BOOLEAN /\ done \in BOOLEAN /\ writeDone \in BOOLEAN
    /\ writes \in Nat /\ last \in BOOLEAN
    /\ ops \in Seq(Op) /\ localClosed \in BOOLEAN

ServerTypes ==
    /\ peer \in {"idle", "open", "trailers_only", "ended", "reset"}
    /\ rpcStatus \in {"none", "ok", "error"}
    /\ headersReceived \in BOOLEAN /\ decoder \in BOOLEAN /\ received \in Nat

ResultTypes ==
    /\ future \in {"pending", "result", "exception"} /\ message \in Nat
    /\ storage \in Seq(Nat) /\ Len(storage) <= QueueSize /\ readDone \in BOOLEAN
    /\ faults \subseteq Faults

\* The parts are the type invariant.
LEMMA TypeParts ==
    TypeOK <=> rpcType \in RpcTypes /\ PlaceTypes /\ CallTypes /\ ServerTypes /\ ResultTypes
BY DEF TypeOK, PlaceTypes, CallTypes, ServerTypes, ResultTypes, Op

\* The kind of a call does not change.
LEMMA SameType == [Next]_vars => rpcType' = rpcType
<1>1. ASSUME NEW t \in Threads, Step(t) PROVE rpcType' = rpcType
  BY <1>1 DEF Step, Cancel, Cancelling, OnClose
<1>2. CASE Frames
  BY <1>2 DEF Frames, OnHeaders, CancelByRemote, OnTrailers, OnErrorData, OnMalformed, OnData, Frame
<1>3. CASE Caller \/ Listener
  BY <1>3 DEF Caller, SendMessage, PostMessage, SerializeFails, WriteOn, Listener, OnMessage,
              Complete, Completing, TransportError
<1>4. CASE Read \/ CloseLocal \/ UNCHANGED vars
  BY <1>4 DEF Read, CloseLocal, vars
<1> QED
  BY <1>1, <1>2, <1>3, <1>4 DEF Next

\* Threads stay at known places, with a known status.
LEMMA NextPlaceTypes == PlaceTypes /\ ServerTypes /\ [Next]_vars => PlaceTypes'
<1> SUFFICES ASSUME PlaceTypes, ServerTypes, [Next]_vars PROVE PlaceTypes'
  OBVIOUS
<1> USE DEF PlaceTypes
<1>L. /\ "caller" \in Threads /\ "listener" \in Threads
      /\ {"ready", "serialize", "raised", "cancel", "cancelling", "close",
          "complete", "completing", "transport", "message"} \subseteq Labels
  BY DEF Threads, Labels
<1>G. ASSUME NEW t \in Threads, NEW label \in Labels, Goto(t, label), UNCHANGED status
      PROVE  PlaceTypes'
  BY <1>G DEF Goto
<1>C. ASSUME NEW t \in Threads, NEW label \in Labels, NEW st \in {"none", "ok", "error"},
             Close(t, label, st)
      PROVE  PlaceTypes'
  BY <1>C DEF Close, Goto
<1>U. ASSUME UNCHANGED <<pc, status>> PROVE PlaceTypes'
  BY <1>U
<1>1. CASE Caller
  <2>1. ASSUME NEW end \in BOOLEAN, SendMessage(end) PROVE PlaceTypes'
    BY <1>L, <1>G, <1>U, <2>1 DEF SendMessage
  <2>2. CASE PostMessage
    BY <1>L, <1>G, <2>2 DEF PostMessage
  <2>3. CASE SerializeFails
    BY <1>L, <1>C, <2>3 DEF SerializeFails
  <2>4. CASE WriteOn
    BY <1>L, <1>G, <2>4 DEF WriteOn
  <2> QED
    BY <1>1, <2>1, <2>2, <2>3, <2>4 DEF Caller
<1>2. CASE Listener
  <2>1. CASE OnMessage
    BY <1>L, <1>G, <1>C, <2>1 DEF OnMessage
  <2>2. CASE Complete
    BY <1>L, <1>G, <2>2 DEF Complete, Continue
  <2>3. CASE Completing \/ TransportError
    BY <1>L, <1>G, <2>3 DEF Completing, TransportError
  <2> QED
    BY <1>2, <2>1, <2>2, <2>3 DEF Listener
<1>3. CASE Frames
  <2>1. CASE OnHeaders
    BY <1>U, <2>1 DEF OnHeaders
  <2>2. CASE CancelByRemote
    BY <1>L, <1>C, <2>2 DEF CancelByRemote
  <2>3. ASSUME NEW st \in {"ok", "error"}, OnTrailers(st) PROVE PlaceTypes'
    <3>1. FirstStatus(st) \in {"none", "ok", "error"}
      BY DEF FirstStatus, ServerTypes
    <3> QED
      BY <1>L, <1>C, <2>3, <3>1 DEF OnTrailers, CloseCall
  <2>4. ASSUME NEW end \in BOOLEAN, OnErrorData(end) PROVE PlaceTypes'
    BY <1>L, <1>C, <1>U, <2>4 DEF OnErrorData
  <2>5. ASSUME NEW end \in BOOLEAN, OnMalformed(end) PROVE PlaceTypes'
    BY <1>L, <1>G, <2>5 DEF OnMalformed
  <2>6. ASSUME NEW complete \in BOOLEAN, NEW end \in BOOLEAN, OnData(complete, end)
        PROVE  PlaceTypes'
    BY <1>L, <1>G, <2>6 DEF OnData
  <2> QED
    BY <1>3, <2>1, <2>2, <2>3, <2>4, <2>5, <2>6 DEF Frames
<1>4. ASSUME NEW t \in Threads, Step(t) PROVE PlaceTypes'
  <2>1. CASE Cancel(t) \/ Cancelling(t)
    BY <1>L, <1>G, <2>1 DEF Cancel, Cancelling
  <2>2. CASE OnClose(t)
    <3>1. UNCHANGED status /\ \E label \in {"raised", "ready", "transport"} : Goto(t, label)
      BY <2>2 DEF OnClose, CloseFuture, CloseReadStream, Continue
    <3> QED
      BY <1>L, <1>G, <3>1
  <2> QED
    BY <1>4, <2>1, <2>2 DEF Step
<1>5. CASE Read \/ CloseLocal \/ UNCHANGED vars
  BY <1>U, <1>5 DEF Read, CloseLocal, vars
<1> QED
  BY <1>1, <1>2, <1>3, <1>4, <1>5 DEF Next

\* What the caller keeps, and the posted frames, stay well typed.
LEMMA NextCallTypes == CallTypes /\ [Next]_vars => CallTypes'
<1> SUFFICES ASSUME CallTypes, [Next]_vars PROVE CallTypes'
  OBVIOUS
<1> USE DEF CallTypes
<1>1. \A op \in Op : Append(ops, op) \in Seq(Op)
  OBVIOUS
<1>2. Reset \in Seq(Op)
  BY <1>1 DEF Reset, Op
<1>3. ASSUME UNCHANGED <<callVars, streamVars>> PROVE CallTypes'
  BY <1>3 DEF callVars, streamVars
<1>4. ASSUME NEW end \in BOOLEAN, SendMessage(end) PROVE CallTypes'
  <2>1. ops' \in Seq(Op)
    BY <1>1, <1>4 DEF SendMessage, Op
  <2>2. writes' \in Nat
    BY <1>4 DEF SendMessage
  <2>3. headersSent' \in BOOLEAN /\ last' \in BOOLEAN /\ writeDone' \in BOOLEAN
    BY <1>4 DEF SendMessage
  <2> QED
    BY <1>4, <2>1, <2>2, <2>3 DEF SendMessage
<1>5. CASE PostMessage
  BY <1>1, <1>5 DEF PostMessage, Op
<1>6. CASE SerializeFails \/ WriteOn
  BY <1>3, <1>6 DEF SerializeFails, WriteOn
<1>7. CASE OnMessage \/ Complete
  BY <1>3, <1>7 DEF OnMessage, Complete, streamVars
<1>8. CASE Completing
  BY <1>8 DEF Completing, streamVars
<1>9. CASE TransportError
  BY <1>2, <1>9 DEF TransportError, callVars
<1>10. ASSUME NEW t \in Threads, Step(t) PROVE CallTypes'
  <2>1. CASE Cancel(t) \/ OnClose(t)
    BY <1>3, <2>1 DEF Cancel, OnClose
  <2>2. CASE Cancelling(t)
    BY <1>2, <2>2 DEF Cancelling
  <2> QED
    BY <1>10, <2>1, <2>2 DEF Step
<1>11. CASE Frames
  <2>1. UNCHANGED <<callVars, localClosed>> /\ ops' \in {ops, Reset}
    BY <1>11 DEF Frames, Frame, OnHeaders, CancelByRemote, OnTrailers, OnErrorData, OnMalformed,
                 OnData, streamVars
  <2> QED
    BY <1>2, <2>1 DEF callVars
<1>12. CASE Read \/ UNCHANGED vars
  BY <1>3, <1>12 DEF Read, vars
<1>13. CASE CloseLocal
  BY <1>13 DEF CloseLocal, callVars
<1> QED
  BY <1>4, <1>5, <1>6, <1>7, <1>8, <1>9, <1>10, <1>11, <1>12, <1>13 DEF Next, Caller, Listener

\* What is known of the server stays well typed.
LEMMA NextServerTypes == ServerTypes /\ [Next]_vars => ServerTypes'
<1> SUFFICES ASSUME ServerTypes, [Next]_vars PROVE ServerTypes'
  OBVIOUS
<1> USE DEF ServerTypes, peerVars
<1>1. CASE Caller
  BY <1>1 DEF Caller, SendMessage, PostMessage, SerializeFails, WriteOn
<1>2. CASE Listener
  BY <1>2 DEF Listener, OnMessage, Complete, Completing, TransportError
<1>3. ASSUME NEW t \in Threads, Step(t) PROVE ServerTypes'
  BY <1>3 DEF Step, Cancel, Cancelling, OnClose
<1>4. CASE OnHeaders \/ CancelByRemote
  BY <1>4 DEF OnHeaders, CancelByRemote
<1>5. ASSUME NEW st \in {"ok", "error"}, OnTrailers(st) PROVE ServerTypes'
  BY <1>5 DEF OnTrailers, FirstStatus
<1>6. ASSUME NEW end \in BOOLEAN, OnErrorData(end) \/ OnMalformed(end) PROVE ServerTypes'
  BY <1>6 DEF OnErrorData, OnMalformed
<1>7. ASSUME NEW complete \in BOOLEAN, NEW end \in BOOLEAN, OnData(complete, end)
      PROVE  ServerTypes'
  BY <1>7 DEF OnData
<1>8. CASE Read \/ CloseLocal \/ UNCHANGED vars
  BY <1>8 DEF Read, CloseLocal, vars
<1> QED
  BY <1>1, <1>2, <1>3, <1>4, <1>5, <1>6, <1>7, <1>8 DEF Next, Frames

\* The result stays well typed, and the read stream within its queue.
LEMMA NextResultTypes == ServerTypes /\ ResultTypes /\ [Next]_vars => ResultTypes'
<1> SUFFICES ASSUME ServerTypes, ResultTypes, [Next]_vars PROVE ResultTypes'
  OBVIOUS
<1> USE DEF ResultTypes, resultVars
<1>1. ASSUME NEW n \in Nat, ~Full
      PROVE  Append(storage, n) \in Seq(Nat) /\ Len(Append(storage, n)) <= QueueSize
  BY <1>1, ClientCallAssumption DEF Full
<1>2. ASSUME UNCHANGED <<resultVars, faults>> PROVE ResultTypes'
  BY <1>2
<1>3. CASE SerializeFails
  BY <1>3 DEF SerializeFails, Faults
<1>4. ASSUME NEW end \in BOOLEAN, SendMessage(end) PROVE ResultTypes'
  BY <1>2, <1>4 DEF SendMessage
<1>5. CASE PostMessage \/ WriteOn \/ Complete \/ Completing \/ TransportError \/ CloseLocal \/ UNCHANGED vars
  BY <1>2, <1>5 DEF PostMessage, WriteOn, Complete, Completing, TransportError, CloseLocal, vars
<1>6. CASE Frames
  BY <1>2, <1>6 DEF Frames, Frame, OnHeaders, CancelByRemote, OnTrailers, OnErrorData, OnMalformed,
                    OnData
<1>7. CASE OnMessage
  <2>1. received \in Nat
    BY DEF ServerTypes
  <2>2. faults' \subseteq Faults
    BY <1>7 DEF OnMessage, Faults
  <2> QED
    BY <1>1, <1>7, <2>1, <2>2 DEF OnMessage
<1>8. CASE Read
  <2>1. Tail(storage) \in Seq(Nat) /\ Len(Tail(storage)) <= QueueSize
    BY <1>8, ClientCallAssumption DEF Read
  <2> QED
    BY <1>8, <2>1 DEF Read
<1>9. ASSUME NEW t \in Threads, Cancel(t) \/ Cancelling(t) PROVE ResultTypes'
  BY <1>2, <1>9 DEF Cancel, Cancelling
<1>10. ASSUME NEW t \in Threads, OnClose(t) PROVE ResultTypes'
  <2>1. CASE CloseFuture(t)
    <3>1. faults' \subseteq Faults
      BY <2>1 DEF CloseFuture, Faults
    <3> QED
      BY <1>10, <2>1, <3>1 DEF OnClose, CloseFuture
  <2>2. CASE CloseReadStream(t)
    BY <1>1, <1>10, <2>2 DEF OnClose, CloseReadStream, EOF
  <2> QED
    BY <1>10, <2>1, <2>2 DEF OnClose
<1> QED
  BY <1>3, <1>4, <1>5, <1>6, <1>7, <1>8, <1>9, <1>10 DEF Next, Caller, Listener, Step

\* Every reachable state is well typed: a read stream never exceeds its queue.
THEOREM TypeCorrect == Spec => []TypeOK
<1>1. Init => TypeOK
  <2> SUFFICES ASSUME Init PROVE TypeOK
    OBVIOUS
  <2>1. PlaceTypes
    BY DEF Init, PlaceTypes, Threads, Labels
  <2>2. CallTypes /\ ServerTypes
    <3>1. <<>> \in Seq(Op)
      OBVIOUS
    <3> QED
      BY <3>1 DEF Init, CallTypes, ServerTypes
  <2>3. ResultTypes
    <3>1. <<>> \in Seq(Nat) /\ Len(<<>>) = 0
      OBVIOUS
    <3>2. 0 <= QueueSize
      BY ClientCallAssumption
    <3>3. storage \in Seq(Nat) /\ Len(storage) <= QueueSize
      BY <3>1, <3>2 DEF Init
    <3> QED
      BY <3>3 DEF Init, ResultTypes
  <2> QED
    BY <2>1, <2>2, <2>3, TypeParts DEF Init
<1>2. TypeOK /\ [Next]_vars => TypeOK'
  <2> SUFFICES ASSUME TypeOK, [Next]_vars PROVE TypeOK'
    OBVIOUS
  <2>1. rpcType' \in RpcTypes
    BY SameType, TypeParts
  <2>2. PlaceTypes' /\ CallTypes' /\ ServerTypes' /\ ResultTypes'
    BY TypeParts, NextPlaceTypes, NextCallTypes, NextServerTypes, NextResultTypes
  <2> QED
    BY <2>1, <2>2 DEF TypeOK, PlaceTypes, CallTypes, ServerTypes, ResultTypes, Op
<1> QED
  BY <1>1, <1>2, PTL DEF Spec

----------------------------------------------------------------------------
(* Completing the future once                                              *)

\* Where the listener has found the call not done, and has not completed it.
Finishing == {"message", "cancel", "cancelling", "completing"}

\* What makes CompletedOnce inductive.  While every message of the caller can be
\* serialized, only the listener ends the call: it has not when it is about to,
\* and what it is about to complete is pending.
Sole == "unserializable" \notin faults =>
    /\ pc["caller"] \notin {"cancel", "cancelling", "close"}
    /\ pc["listener"] \in Finishing => ~done
    /\ pc["listener"] = "close" => done /\ future = "pending"
    /\ future # "pending" => done
    /\ "closed_twice" \notin faults

\* Every step keeps Sole.
LEMMA NextSole == PlaceTypes /\ Sole /\ [Next]_vars => Sole'
<1> SUFFICES ASSUME PlaceTypes, Sole, [Next]_vars, "unserializable" \notin faults'
             PROVE  Sole'
  BY DEF Sole
<1>M. faults \subseteq faults'
  <2>1. ASSUME NEW t \in Threads, Step(t) PROVE faults \subseteq faults'
    BY <2>1 DEF Step, Cancel, Cancelling, OnClose, CloseFuture, CloseReadStream
  <2>2. CASE Caller \/ Listener
    BY <2>2 DEF Caller, SendMessage, PostMessage, SerializeFails, WriteOn, Listener, OnMessage,
                Complete, Completing, TransportError
  <2>3. CASE Frames
    BY <2>3 DEF Frames, Frame, OnHeaders, CancelByRemote, OnTrailers, OnErrorData, OnMalformed, OnData
  <2>4. CASE Read \/ CloseLocal \/ UNCHANGED vars
    BY <2>4 DEF Read, CloseLocal, vars
  <2> QED
    BY <2>1, <2>2, <2>3, <2>4 DEF Next
<1>S. /\ pc["caller"] \notin {"cancel", "cancelling", "close"}
      /\ pc["listener"] \in Finishing => ~done
      /\ pc["listener"] = "close" => done /\ future = "pending"
      /\ future # "pending" => done
      /\ "closed_twice" \notin faults
  BY <1>M DEF Sole
<1>G. ASSUME NEW t \in Threads, NEW label, Goto(t, label)
      PROVE  pc'[t] = label /\ \A s \in Threads \ {t} : pc'[s] = pc[s]
  BY <1>G DEF Goto, PlaceTypes
<1>L. "caller" \in Threads \ {"listener"} /\ "listener" \in Threads \ {"caller"}
  BY DEF Threads
<1> USE DEF Sole, Finishing
\* Steps that neither end the call nor move to where it is ended.
<1>0. ASSUME UNCHANGED <<done, future, faults>>,
             \/ UNCHANGED pc
             \/ \E t \in Threads, label \in {"ready", "serialize", "raised", "complete", "transport"} :
                  Goto(t, label)
      PROVE  Sole'
  <2>1. CASE UNCHANGED pc
    BY <1>0, <1>S, <2>1
  <2>2. ASSUME NEW t \in Threads, NEW label \in {"ready", "serialize", "raised", "complete", "transport"},
               Goto(t, label)
        PROVE  Sole'
    BY <1>0, <1>S, <1>G, <1>L, <2>2 DEF Threads
  <2> QED
    BY <1>0, <2>1, <2>2
<1>1. CASE Caller
  <2>1. CASE SerializeFails
    BY <1>L, <1>S, <1>G, <2>1 DEF SerializeFails, Close, callVars, resultVars
  <2>2. ASSUME NEW end \in BOOLEAN, SendMessage(end) PROVE Sole'
    BY <1>0, <1>L, <2>2 DEF SendMessage, resultVars
  <2>3. CASE PostMessage \/ WriteOn
    BY <1>0, <1>L, <2>3 DEF PostMessage, WriteOn, callVars, resultVars
  <2> QED
    BY <1>1, <2>1, <2>2, <2>3 DEF Caller
<1>2. CASE OnMessage
  <2>1. UNCHANGED <<done, future>> /\ "closed_twice" \notin faults' /\ pc["listener"] = "message"
    BY <1>S, <1>2 DEF OnMessage, callVars
  <2>2. \E label \in {"ready", "raised", "cancel"} : Goto("listener", label)
    BY <1>2 DEF OnMessage, Close
  <2> QED
    BY <1>S, <1>G, <1>L, <2>1, <2>2
<1>3. CASE Complete
  <2>1. CASE MayComplete
    BY <1>S, <1>G, <1>L, <1>3, <2>1 DEF Complete, MayComplete, callVars, resultVars
  <2>2. CASE ~MayComplete
    BY <1>0, <1>L, <1>3, <2>2 DEF Complete, Continue, callVars, resultVars
  <2> QED
    BY <2>1, <2>2
<1>4. CASE Completing
  BY <1>S, <1>G, <1>L, <1>4 DEF Completing, resultVars
<1>5. CASE TransportError
  BY <1>0, <1>L, <1>5 DEF TransportError, callVars, resultVars
<1>6. CASE Frames
  <2>1. CASE OnHeaders
    BY <1>0, <2>1 DEF OnHeaders, Frame, callVars, resultVars
  <2>2. CASE CancelByRemote
    BY <1>0, <1>L, <2>2 DEF CancelByRemote, Close, Frame, callVars, resultVars
  <2>3. ASSUME NEW st \in {"ok", "error"}, OnTrailers(st) PROVE Sole'
    BY <1>0, <1>L, <2>3 DEF OnTrailers, CloseCall, Close, Frame, callVars, resultVars
  <2>4. ASSUME NEW end \in BOOLEAN, OnErrorData(end) \/ OnMalformed(end) PROVE Sole'
    BY <1>0, <1>L, <2>4 DEF OnErrorData, OnMalformed, Close, Frame, callVars, resultVars
  <2>5. ASSUME NEW complete \in BOOLEAN, NEW end \in BOOLEAN, OnData(complete, end) PROVE Sole'
    <3>1. CASE complete /\ ~done
      BY <1>S, <1>G, <1>L, <2>5, <3>1 DEF OnData, Frame, callVars, resultVars
    <3>2. CASE ~(complete /\ ~done)
      BY <1>0, <1>L, <2>5, <3>2 DEF OnData, Frame, callVars, resultVars
    <3> QED
      BY <3>1, <3>2
  <2> QED
    BY <1>6, <2>1, <2>2, <2>3, <2>4, <2>5 DEF Frames
<1>7. ASSUME NEW t \in Threads, Step(t) PROVE Sole'
  <2>1. t = "listener"
    BY <1>S, <1>7 DEF Step, Cancel, Cancelling, OnClose, Threads
  <2>2. CASE Cancel(t)
    BY <1>S, <1>G, <1>L, <2>1, <2>2 DEF Cancel, callVars, resultVars
  <2>3. CASE Cancelling(t)
    BY <1>S, <1>G, <1>L, <2>1, <2>3 DEF Cancelling, resultVars
  <2>4. CASE OnClose(t)
    <3>1. pc["listener"] = "close" /\ done /\ done' = done /\ future = "pending"
      BY <1>S, <2>1, <2>4 DEF OnClose, callVars
    <3>2. faults' = faults /\ \E label \in {"ready", "raised", "transport"} : Goto("listener", label)
      BY <2>1, <2>4, <3>1 DEF OnClose, CloseFuture, CloseReadStream, Continue
    <3> QED
      BY <1>S, <1>G, <1>L, <3>1, <3>2
  <2> QED
    BY <1>7, <2>2, <2>3, <2>4 DEF Step
<1>8. CASE Read \/ CloseLocal \/ UNCHANGED vars
  BY <1>0, <1>8 DEF Read, CloseLocal, vars, callVars, resultVars
<1> QED
  BY <1>1, <1>2, <1>3, <1>4, <1>5, <1>6, <1>7, <1>8 DEF Next, Listener

\* Frames alone, in whatever order and with whatever contents, and a future's
\* listener on another thread than its caller, complete the future once: only a
\* message that cannot be serialized can meet the answer of the server.
THEOREM CompletedOnceCorrect == Spec => []CompletedOnce
<1>1. Init => Sole
  BY DEF Init, Sole, Finishing, Threads
<1>2. Sole => CompletedOnce
  BY DEF Sole, CompletedOnce
<1>3. TypeOK => PlaceTypes
  BY TypeParts
<1> QED
  BY <1>1, <1>2, <1>3, NextSole, TypeCorrect, PTL DEF Spec

----------------------------------------------------------------------------
(* What is posted on the stream *)

Ordered(s) == \A i \in DOMAIN s :
    /\ s[i] = "headers" <=> i = 1
    /\ s[i] = "end" => \A j \in i + 1..Len(s) : s[j] = "rst"

Ends(s) == \E i \in DOMAIN s : s[i] = "end"

\* Posting after the headers keeps the order, a message before the last one only.
LEMMA PostOrdered ==
    ASSUME NEW s \in Seq(Op), s # <<>>, Ordered(s), NEW op \in Op \ {"headers"},
           Ends(s) => op = "rst"
    PROVE  /\ Ordered(Append(s, op)) /\ Append(s, op) # <<>>
           /\ Ends(Append(s, op)) <=> Ends(s) \/ op = "end"
<1> DEFINE a == Append(s, op)
<1>1. /\ Len(s) \in Nat \ {0} /\ DOMAIN s = 1..Len(s)
      /\ Len(a) = Len(s) + 1 /\ DOMAIN a = 1..(Len(s) + 1)
      /\ \A i \in 1..Len(s) : a[i] = s[i]
      /\ a[Len(s) + 1] = op
  OBVIOUS
<1>2. Ordered(a)
  <2>1. ASSUME NEW i \in DOMAIN a PROVE a[i] = "headers" <=> i = 1
    BY <1>1 DEF Ordered
  <2>2. ASSUME NEW i \in DOMAIN a, a[i] = "end", NEW j \in i + 1..Len(a) PROVE a[j] = "rst"
    <3>1. i \in 1..Len(s) /\ s[i] = "end" /\ j \in i + 1..Len(s) + 1
      BY <1>1, <2>2
    <3>2. Ends(s)
      BY <1>1, <3>1 DEF Ends
    <3> QED
      BY <1>1, <3>1, <3>2 DEF Ordered
  <2> QED
    BY <2>1, <2>2 DEF Ordered
<1>3. Ends(a) <=> Ends(s) \/ op = "end"
  BY <1>1 DEF Ends
<1>4. a # <<>>
  BY <1>1
<1> QED
  BY <1>2, <1>3, <1>4

\* What makes RequestWellFormed inductive: the headers are the first thing that is
\* posted, everything else happens after them, and nothing but a reset is posted
\* when the caller has written its last message.
Posting ==
    /\ headersSent <=> ops # <<>>
    /\ Ordered(ops)
    /\ Ends(ops) => writeDone
    /\ pc["caller"] = "serialize" => headersSent /\ ~writeDone
    /\ pc["caller"] \in {"cancel", "cancelling"} => headersSent
    /\ pc["listener"] # "ready" => headersSent
    /\ peer # "idle" => headersSent

\* Every step keeps Posting.
LEMMA NextPosting == PlaceTypes /\ CallTypes /\ Posting /\ [Next]_vars => Posting'
<1> SUFFICES ASSUME PlaceTypes, CallTypes, Posting, [Next]_vars PROVE Posting'
  OBVIOUS
<1>G. ASSUME NEW t \in Threads, NEW label, Goto(t, label)
      PROVE  pc'[t] = label /\ \A s \in Threads \ {t} : pc'[s] = pc[s]
  BY <1>G DEF Goto, PlaceTypes
<1>L. "caller" \in Threads \ {"listener"} /\ "listener" \in Threads \ {"caller"}
  BY DEF Threads
<1>R. headersSent => /\ Ordered(Reset) /\ Reset # <<>> /\ (Ends(Reset) => writeDone)
  <2>1. ops \in Seq(Op) /\ "rst" \in Op \ {"headers"} /\ "rst" # "end"
    BY DEF CallTypes, Op
  <2> QED
    BY <2>1, PostOrdered DEF Posting, Reset
\* Steps of the listener, and of a caller that ends the call.
<1>0. ASSUME UNCHANGED <<headersSent, writeDone>>, ops' = ops \/ (headersSent /\ ops' = Reset),
             headersSent \/ (UNCHANGED <<pc, peer>>),
             pc'["caller"] = pc["caller"] \/ pc'["caller"] \in {"ready", "raised", "cancel", "cancelling", "close"}
      PROVE  Posting'
  BY <1>0, <1>R DEF Posting
<1>1. ASSUME NEW end \in BOOLEAN, SendMessage(end) PROVE Posting'
  <2>1. CASE done
    BY <1>1, <2>1 DEF SendMessage, Posting, peerVars
  <2>2. CASE ~done
    <3>1. /\ pc'["caller"] = "serialize" /\ pc'["listener"] = pc["listener"]
          /\ headersSent' /\ writeDone' = writeDone /\ ~writeDone /\ peer' = peer
          /\ ops' = IF HeadersFirst THEN Append(ops, "headers") ELSE ops
      BY <1>1, <1>G, <1>L, <2>2 DEF SendMessage, peerVars
    <3>2. CASE headersSent
      BY <3>1, <3>2 DEF HeadersFirst, Posting
    <3>3. CASE ~headersSent
      <4>1. ops' = <<"headers">>
        <5>1. ops = <<>> /\ ops' = Append(ops, "headers")
          BY <3>1, <3>3 DEF HeadersFirst, Posting
        <5> QED
          BY <5>1
      <4>2. Ordered(<<"headers">>) /\ ~Ends(<<"headers">>) /\ <<"headers">> # <<>>
        BY DEF Ordered, Ends
      <4> QED
        BY <3>1, <4>1, <4>2 DEF Posting
    <3> QED
      BY <3>2, <3>3
  <2> QED
    BY <2>1, <2>2
<1>2. CASE PostMessage
  <2>1. CASE localClosed
    <3>1. /\ UNCHANGED <<headersSent, writeDone, ops, peer>>
          /\ pc'["caller"] = "raised" /\ pc'["listener"] = pc["listener"]
      BY <1>2, <1>G, <1>L, <2>1 DEF PostMessage, peerVars
    <3> QED
      BY <3>1 DEF Posting
  <2>2. CASE ~localClosed
    <3> DEFINE op == IF last THEN "end" ELSE "data"
    <3>1. /\ UNCHANGED <<headersSent, peer>> /\ ops' = Append(ops, op) /\ writeDone' = last
          /\ pc'["caller"] = "ready" /\ pc'["listener"] = pc["listener"]
          /\ headersSent /\ ~writeDone
      BY <1>2, <1>G, <1>L, <2>2 DEF PostMessage, peerVars, Posting
    <3>2. ops \in Seq(Op) /\ op \in Op \ {"headers"} /\ ops # <<>> /\ Ordered(ops) /\ ~Ends(ops)
      BY <3>1 DEF CallTypes, Posting, Op
    <3>3. Ordered(Append(ops, op)) /\ Append(ops, op) # <<>> /\ (Ends(Append(ops, op)) <=> op = "end")
      BY <3>2, PostOrdered
    <3> QED
      BY <3>1, <3>3 DEF Posting
  <2> QED
    BY <2>1, <2>2
<1>3. CASE SerializeFails \/ WriteOn
  <2>1. /\ UNCHANGED <<headersSent, writeDone, ops, peer>>
        /\ pc'["listener"] = pc["listener"]
        /\ pc["caller"] \in {"serialize", "raised"} /\ pc'["caller"] \in {"cancel", "raised", "ready"}
        /\ pc["caller"] = "raised" => pc'["caller"] = "ready"
    BY <1>3, <1>G, <1>L DEF SerializeFails, WriteOn, Close, callVars, streamVars, peerVars
  <2> QED
    BY <2>1 DEF Posting
<1>4. CASE Listener
  <2>1. /\ headersSent /\ UNCHANGED <<headersSent, writeDone>> /\ ops' \in {ops, Reset}
    BY <1>4 DEF Listener, OnMessage, Complete, Completing, TransportError, Posting, callVars, streamVars
  <2>2. \E label \in Labels : Goto("listener", label)
    BY <1>4 DEF Listener, OnMessage, Complete, Completing, TransportError, Continue, Close, Labels
  <2> QED
    BY <1>0, <1>G, <1>L, <2>1, <2>2
<1>5. CASE Frames
  <2>1. /\ headersSent /\ UNCHANGED <<headersSent, writeDone>> /\ ops' \in {ops, Reset}
    BY <1>5 DEF Frames, Frame, OnHeaders, CancelByRemote, OnTrailers, OnErrorData, OnMalformed,
                OnData, Posting, callVars, streamVars
  <2>2. UNCHANGED pc \/ \E label \in Labels : Goto("listener", label)
    BY <1>5 DEF Frames, OnHeaders, CancelByRemote, OnTrailers, OnErrorData, OnMalformed,
                OnData, CloseCall, Close, Labels
  <2> QED
    BY <1>0, <1>G, <1>L, <2>1, <2>2
<1>6. ASSUME NEW t \in Threads, Step(t) PROVE Posting'
  <2>1. CASE Cancel(t) \/ Cancelling(t)
    <3>1. headersSent /\ UNCHANGED <<headersSent, writeDone>> /\ ops' \in {ops, Reset}
      BY <2>1 DEF Cancel, Cancelling, Posting, Threads, callVars, streamVars
    <3>2. \E label \in {"cancelling", "close"} : Goto(t, label)
      BY <2>1 DEF Cancel, Cancelling
    <3> QED
      BY <1>0, <1>G, <1>L, <3>1, <3>2 DEF Threads
  <2>2. CASE OnClose(t)
    <3>1. UNCHANGED <<headersSent, writeDone, ops, peer>> /\ pc[t] = "close"
      BY <2>2 DEF OnClose, callVars, streamVars, peerVars
    <3>2. \E label \in {"ready", "raised", "transport"} :
            Goto(t, label) /\ (label = "transport" => t = "listener")
      BY <2>2 DEF OnClose, CloseFuture, CloseReadStream, Continue
    <3> QED
      BY <1>G, <1>L, <3>1, <3>2 DEF Posting, Threads
  <2> QED
    BY <1>6, <2>1, <2>2 DEF Step
<1>7. CASE Read \/ CloseLocal \/ UNCHANGED vars
  BY <1>7 DEF Read, CloseLocal, vars, callVars, streamVars, peerVars, Posting
<1> QED
  BY <1>1, <1>2, <1>3, <1>4, <1>5, <1>6, <1>7 DEF Next, Caller

\* Headers first and once, and nothing but resets after the last message: the
\* stream's sending side never refuses what a call posts for its order.
THEOREM RequestWellFormedCorrect == Spec => []RequestWellFormed
<1>1. Init => Posting
  BY DEF Init, Posting, Ordered, Ends, Threads
<1>2. Posting => RequestWellFormed
  BY DEF Posting, Ordered, RequestWellFormed
<1>3. TypeOK => PlaceTypes /\ CallTypes
  BY TypeParts
<1> QED
  BY <1>1, <1>2, <1>3, NextPosting, TypeCorrect, PTL DEF Spec

----------------------------------------------------------------------------
(* The result is the server's *)

\* Every message of the server was deserialized, and the last one is kept.
AllKept == message = received /\ "undeserializable" \notin faults

\* The listener has a message in hand, or gives the call up for one.
InMessage == pc["listener"] \in {"message", "cancel", "cancelling"}

Valid == headersReceived => decoder

\* What makes ResultIsServers inductive: only trailers make a status OK, after
\* them the server is silent, and a listener that is to complete a unary call
\* has kept all messages.
Serving ==
    /\ status["caller"] # "ok"
    /\ rpcStatus # "error" => Valid
    /\ status["listener"] = "ok" =>
         rpcStatus = "ok" /\ peer \in {"ended", "trailers_only"} /\ ~InMessage
    /\ Unary /\ ~done /\ ~InMessage => AllKept
    /\ Unary /\ ~done /\ pc["listener"] = "message" => "undeserializable" \notin faults
    /\ Unary /\ pc["listener"] = "completing" => AllKept
    /\ Unary /\ pc["listener"] = "close" /\ status["listener"] = "ok" => AllKept
    /\ future = "result" => Unary /\ status["listener"] = "ok" /\ AllKept

\* Every step keeps Serving.
LEMMA NextServing == PlaceTypes /\ Serving /\ [Next]_vars => Serving'
<1> SUFFICES ASSUME PlaceTypes, Serving, [Next]_vars PROVE Serving'
  OBVIOUS
<1>U. Unary' = Unary
  BY SameType DEF Unary
<1>G. ASSUME NEW t \in Threads, NEW label, Goto(t, label)
      PROVE  pc'[t] = label /\ \A s \in Threads \ {t} : pc'[s] = pc[s]
  BY <1>G DEF Goto, PlaceTypes
<1>C. ASSUME NEW t \in Threads, NEW label, NEW st, Close(t, label, st)
      PROVE  /\ pc'[t] = label /\ \A s \in Threads \ {t} : pc'[s] = pc[s]
             /\ status'[t] = st /\ \A s \in Threads \ {t} : status'[s] = status[s]
  BY <1>C DEF Close, Goto, PlaceTypes
<1>L. /\ "caller" \in Threads \ {"listener"} /\ "listener" \in Threads \ {"caller"}
      /\ \A t \in Threads : t \in {"caller", "listener"}
  BY DEF Threads
<1> USE DEF Serving, InMessage, AllKept, Valid
\* The caller's steps do not touch what the listener knows.
<1>0. ASSUME pc'["listener"] = pc["listener"], status'["listener"] = status["listener"],
             status'["caller"] # "ok", done => done', UNCHANGED <<peerVars, future, message>>,
             "undeserializable" \in faults' => "undeserializable" \in faults
      PROVE  Serving'
  BY <1>0, <1>U DEF peerVars
<1>1. CASE Caller
  <2>1. CASE SerializeFails
    BY <1>0, <1>C, <1>L, <2>1 DEF SerializeFails, callVars, resultVars
  <2>2. ASSUME NEW end \in BOOLEAN, SendMessage(end) PROVE Serving'
    BY <1>0, <1>G, <1>L, <2>2 DEF SendMessage, resultVars
  <2>3. CASE PostMessage \/ WriteOn
    BY <1>0, <1>G, <1>L, <2>3 DEF PostMessage, WriteOn, callVars, resultVars
  <2> QED
    BY <1>1, <2>1, <2>2, <2>3 DEF Caller
<1>2. CASE OnMessage
  <2>1. /\ pc["listener"] = "message" /\ status["listener"] # "ok" /\ future # "result"
        /\ UNCHANGED <<done, peerVars, future>> /\ status'["caller"] = status["caller"]
        /\ pc'["listener"] \in {"ready", "raised", "cancel"} /\ status'["listener"] # "ok"
    BY <1>2, <1>G, <1>C, <1>L DEF OnMessage, callVars
  <2>2. CASE Unary /\ pc'["listener"] # "cancel"
    <3>1. message' = received
      BY <1>2, <1>G, <1>C, <1>L, <2>2 DEF OnMessage
    <3>2. faults' = faults
      BY <1>2, <1>G, <1>C, <1>L, <2>2 DEF OnMessage
    <3>3. Unary /\ ~done => "undeserializable" \notin faults
      BY <2>1
    <3> QED
      BY <1>U, <2>1, <3>1, <3>2, <3>3 DEF peerVars
  <2> QED
    BY <1>U, <2>1, <2>2 DEF peerVars
<1>3. CASE Complete
  <2>1. /\ UNCHANGED <<status, done, peerVars, future, message, faults>> /\ pc["listener"] = "complete"
        /\ (pc'["listener"] = "completing" /\ ~done) \/ pc'["listener"] \in {"ready", "transport"}
    BY <1>3, <1>G, <1>L DEF Complete, MayComplete, Continue, callVars, resultVars
  <2> QED
    BY <1>U, <2>1 DEF peerVars
<1>4. CASE Completing
  <2>1. /\ UNCHANGED <<status, peerVars, future, message, faults>> /\ pc["listener"] = "completing"
        /\ pc'["listener"] = "close" /\ done'
    BY <1>4, <1>G, <1>L DEF Completing, resultVars
  <2> QED
    BY <1>U, <2>1 DEF peerVars
<1>5. CASE TransportError
  <2>1. /\ UNCHANGED <<status, done, future, message, faults, rpcStatus, headersReceived, decoder, received>>
        /\ pc["listener"] = "transport" /\ pc'["listener"] = "complete" /\ peer' = "ended"
    BY <1>5, <1>G, <1>L DEF TransportError, callVars, resultVars
  <2> QED
    BY <1>U, <2>1
<1>6. CASE Frames
  <2>0. /\ pc["listener"] = "ready" /\ UNCHANGED <<done, future, message, faults>>
    BY <1>6 DEF Frames, OnHeaders, CancelByRemote, OnTrailers, OnErrorData, OnMalformed, OnData,
                Frame, callVars, resultVars
  <2>1. CASE OnHeaders
    <3>1. /\ UNCHANGED <<pc, status, received>> /\ peer = "idle" /\ (rpcStatus' = "error" \/ decoder')
      BY <2>1 DEF OnHeaders
    <3> QED
      BY <1>U, <2>0, <3>1
  <2>2. CASE CancelByRemote
    <3>1. /\ peer \in {"idle", "open"} /\ rpcStatus' = "error" /\ UNCHANGED received
          /\ pc'["listener"] = "complete" /\ status'["listener"] = "error"
          /\ status'["caller"] = status["caller"]
      BY <1>C, <1>L, <2>2 DEF CancelByRemote
    <3> QED
      BY <1>U, <2>0, <3>1
  <2>3. ASSUME NEW st \in {"ok", "error"}, OnTrailers(st) PROVE Serving'
    <3>1. /\ peer \in {"idle", "open"} /\ peer' \in {"ended", "trailers_only"}
          /\ rpcStatus' = FirstStatus(st) /\ UNCHANGED <<headersReceived, decoder, received>>
          /\ pc'["listener"] = "complete" /\ status'["listener"] = FirstStatus(st)
          /\ status'["caller"] = status["caller"]
      BY <1>C, <1>L, <2>3 DEF OnTrailers, CloseCall
    <3>2. rpcStatus' # "error" => rpcStatus # "error"
      BY <3>1 DEF FirstStatus
    <3> QED
      BY <1>U, <2>0, <3>1, <3>2
  <2>4. ASSUME NEW end \in BOOLEAN, OnErrorData(end) PROVE Serving'
    <3>1. /\ peer = "open" /\ UNCHANGED <<rpcStatus, headersReceived, decoder, received>>
          /\ \/ pc'["listener"] = "complete" /\ status'["listener"] = "error"
                /\ status'["caller"] = status["caller"]
             \/ UNCHANGED <<pc, status>>
      BY <1>C, <1>L, <2>4 DEF OnErrorData
    <3> QED
      BY <1>U, <2>0, <3>1
  <2>5. ASSUME NEW end \in BOOLEAN, OnMalformed(end) PROVE Serving'
    <3>1. /\ peer \in {"idle", "open"} /\ UNCHANGED <<status, rpcStatus, headersReceived, decoder, received>>
          /\ pc'["listener"] = "raised"
      BY <1>G, <1>L, <2>5 DEF OnMalformed
    <3> QED
      BY <1>U, <2>0, <3>1
  <2>6. ASSUME NEW complete \in BOOLEAN, NEW end \in BOOLEAN, OnData(complete, end) PROVE Serving'
    <3>1. /\ peer = "open" /\ UNCHANGED <<status, rpcStatus, headersReceived, decoder>>
          /\ pc'["listener"] = IF complete /\ ~done THEN "message" ELSE "ready"
          /\ ~complete => received' = received
      BY <1>G, <1>L, <2>6 DEF OnData
    <3> QED
      BY <1>U, <2>0, <3>1
  <2> QED
    BY <1>6, <2>1, <2>2, <2>3, <2>4, <2>5, <2>6 DEF Frames
<1>7. ASSUME NEW t \in Threads, Step(t) PROVE Serving'
  <2>1. CASE Cancel(t) \/ Cancelling(t)
    <3>1. /\ UNCHANGED <<status, peerVars, future, message, faults>> /\ (done => done')
          /\ pc[t] \in {"cancel", "cancelling"}
          /\ (pc'[t] = "cancelling" /\ pc[t] = "cancel") \/ (pc'[t] = "close" /\ done')
          /\ \A s \in Threads \ {t} : pc'[s] = pc[s]
      BY <1>G, <2>1 DEF Cancel, Cancelling, callVars, resultVars
    <3>2. CASE t = "caller"
      BY <1>0, <1>L, <3>1, <3>2
    <3>3. CASE t = "listener"
      BY <1>U, <3>1, <3>3 DEF peerVars
    <3> QED
      BY <1>L, <3>2, <3>3
  <2>2. CASE OnClose(t)
    <3>1. /\ UNCHANGED <<status, done, peerVars, message>> /\ pc[t] = "close"
          /\ pc'[t] \in {"ready", "raised", "transport"}
          /\ \A s \in Threads \ {t} : pc'[s] = pc[s]
          /\ faults' \subseteq faults \cup {"closed_twice"}
      BY <1>G, <2>2 DEF OnClose, CloseFuture, CloseReadStream, Continue, callVars
    <3>2. future' = future \/ (Unary /\ future = "pending" /\ (future' = "result" => status[t] = "ok"))
      BY <2>2 DEF OnClose, CloseFuture, CloseReadStream
    <3>3. future' # "result" \/ future' = future \/ (Unary /\ t = "listener" /\ status["listener"] = "ok" /\ AllKept)
      BY <1>L, <3>1, <3>2
    <3>4. CASE t = "caller"
      BY <1>0, <1>L, <1>U, <3>1, <3>3, <3>4 DEF peerVars
    <3>5. CASE t = "listener"
      BY <1>L, <1>U, <3>1, <3>3, <3>5 DEF peerVars
    <3> QED
      BY <1>L, <3>4, <3>5
  <2> QED
    BY <1>7, <2>1, <2>2 DEF Step
<1>8. CASE Read \/ CloseLocal \/ UNCHANGED vars
  BY <1>0, <1>8 DEF Read, CloseLocal, vars, callVars, resultVars
<1> QED
  BY <1>1, <1>2, <1>3, <1>4, <1>5, <1>6, <1>7, <1>8 DEF Next, Listener

\* A future never has a result its server did not give: not after a reset, with
\* invalid headers, with a message dropped or refused, or from the caller's side.
THEOREM ResultIsServersCorrect == Spec => []ResultIsServers
<1>1. Init => Serving
  BY DEF Init, Serving, InMessage, AllKept, Valid, Threads
<1>2. Serving => ResultIsServers
  BY DEF Serving, AllKept, Valid, ResultIsServers
<1>3. TypeOK => PlaceTypes
  BY TypeParts
<1> QED
  BY <1>1, <1>2, <1>3, NextServing, TypeCorrect, PTL DEF Spec

----------------------------------------------------------------------------
(* The status of a call: lemmas *)

LEMMA Tuple1 == \A a : Head(<<a>>) = a /\ Tail(<<a>>) = <<>> /\ <<a>> # <<>>
  OBVIOUS

LEMMA Tuple2 == \A a, b : Head(<<a, b>>) = a /\ Tail(<<a, b>>) = <<b>> /\ <<a, b>> # <<>>
  OBVIOUS

LEMMA Tuple3 == \A a, b, c : Head(<<a, b, c>>) = a /\ Tail(<<a, b, c>>) = <<b, c>> /\ <<a, b, c>> # <<>>
<1> SUFFICES ASSUME NEW a, NEW b, NEW c
             PROVE  Head(<<a, b, c>>) = a /\ Tail(<<a, b, c>>) = <<b, c>> /\ <<a, b, c>> # <<>>
  OBVIOUS
<1>1. Head(<<a, b, c>>) = a /\ <<a, b, c>> # <<>>
  OBVIOUS
<1>2. Tail(<<a, b, c>>) = <<b, c>>
  OBVIOUS
<1> QED
  BY <1>1, <1>2

LEMMA Appended ==
    ASSUME NEW S, NEW s \in Seq(S), NEW a \in S
    PROVE  /\ Append(s, a) \in Seq(S) /\ Append(s, a) # <<>>
           /\ ToSet(Append(s, a)) = ToSet(s) \cup {a}
           /\ s # <<>> => Append(s, a)[1] = s[1]
           /\ s = <<>> => Append(s, a)[1] = a
<1>1. Append(s, a) \in Seq(S) /\ Append(s, a) # <<>>
  BY SMTT(20)
<1>2. DOMAIN Append(s, a) = 1..(Len(s) + 1) /\ DOMAIN s = 1..Len(s)
  OBVIOUS
<1>3. ToSet(Append(s, a)) = ToSet(s) \cup {a}
  <2>1. \A i \in 1..Len(s) : Append(s, a)[i] = s[i]
    OBVIOUS
  <2>2. Append(s, a)[Len(s) + 1] = a
    OBVIOUS
  <2>3. ToSet(Append(s, a)) = {Append(s, a)[i] : i \in 1..(Len(s) + 1)}
    BY <1>2 DEF ToSet
  <2>4. ToSet(s) = {s[i] : i \in 1..Len(s)}
    BY <1>2 DEF ToSet
  <2>5. 1..(Len(s) + 1) = 1..Len(s) \cup {Len(s) + 1}
    OBVIOUS
  <2> QED
    BY <2>1, <2>2, <2>3, <2>4, <2>5
<1>4. (s # <<>> => Append(s, a)[1] = s[1]) /\ (s = <<>> => Append(s, a)[1] = a)
  OBVIOUS
<1> QED
  BY <1>1, <1>3, <1>4

\* No status of HTTP stands for OK.
LEMMA HttpIsNotOk ==
    ASSUME NEW n
    PROVE  FromHttpCode(n) # OK /\ FromHttpCode(n) \in 0..16
  BY DEF FromHttpCode, OK, INTERNAL, UNAUTHENTICATED, PERMISSION_DENIED, NOT_FOUND, UNAVAILABLE, UNKNOWN

LEMMA StatusIsNotOk ==
    ASSUME NEW h
    PROVE  StatusOf(h) # OK /\ StatusOf(h) \in 0..16
  BY HttpIsNotOk DEF StatusOf, OK, INTERNAL

LEMMA CodesAreKnown == ASSUME NEW n \in Nat PROVE FromCode(n) \in 0..16 /\ FromCode(FromCode(n)) = FromCode(n)
  BY DEF FromCode, UNKNOWN

----------------------------------------------------------------------------
(* The status of a call: what is on the wire, and what the client made of it *)

Codes == 0..16
Listeners ==
    [headersReceived : BOOLEAN, code : {Missing} \cup Codes, decoder : BOOLEAN, raised : BOOLEAN,
     completed : Seq(Codes)]

Texts == {Blank, "text/plain", "application/grpc", "application/grpc+data"}
Responses ==
    [status : {Missing} \cup Nat, content : Texts, code : {Missing} \cup Nat, encoding : {Blank}]
WireFrames == [kind : {"headers", "data", "reset"}, headers : Responses, end : BOOLEAN]

\* The listener after the headers of an answer of the method.
Started == [Silent EXCEPT !.headersReceived = TRUE, !.decoder = TRUE]

Succeeded == OK \in ToSet(listener.completed)
DataFrame(end) == WireFrame("data", NoHeaders, end)
LastFrame(wrote) == WireFrame("headers", Trailers(wrote, attached, said), TRUE)

NoAnswer == answered = "none" => wire = <<>> /\ listener = Silent

\* An answer of the method: all of it, the rest of it after the headers, or nothing.
MethodAnswer ==
    answered = "method" =>
        /\ said \in Codes /\ attached \in Contents
        /\ \/ listener = Silent /\ wire = <<FirstHeaders, DataFrame(FALSE), LastFrame(TRUE)>>
           \/ listener = Started /\ wire = <<DataFrame(FALSE), LastFrame(TRUE)>>
           \/ listener = Started /\ wire = <<LastFrame(TRUE)>>
           \/ listener = Silent /\ wire = <<LastFrame(FALSE)>>
           \/ /\ wire = <<>> /\ listener.completed # <<>>
              /\ Succeeded => said = OK
              /\ attached # "text/plain" => CompletedWith = said

RefusedAnswer ==
    answered = "refused" =>
        /\ said = UNIMPLEMENTED
        /\ \/ listener = Silent /\ wire = <<WireFrame("headers", RefusalHeaders(Error(said)), TRUE)>>
           \/ wire = <<>> /\ ~Succeeded /\ listener.completed # <<>> /\ CompletedWith = said

\* The headers of an answer that is not one of gRPC, or without a status of gRPC.
NoStatus(h) == h.code = Missing \/ Invalid(h)

\* Plain text, and the answers of a proxy.
OtherAnswer ==
    answered \in {"plain", "proxy"} =>
        \/ /\ listener = Silent
           /\ \E h : NoStatus(h) /\ wire = <<WireFrame("headers", h, TRUE)>>
        \/ /\ listener = Silent
           /\ \E h : wire = <<WireFrame("headers", h, FALSE), DataFrame(TRUE)>>
        \/ listener.completed = <<>> /\ listener.code # OK /\ wire = <<DataFrame(TRUE)>>
        \/ wire = <<>> /\ ~Succeeded

ResetAnswer ==
    answered = "reset" =>
        /\ ~Succeeded
        /\ \A i \in DOMAIN wire : wire[i].end => wire[i].kind = "reset"

AnswerInv ==
    /\ wire \in Seq(WireFrames) /\ listener \in Listeners
    /\ place = "answered" <=> answered # "none"
    /\ answered \in {"none", "method", "refused", "plain", "proxy", "reset"}
    /\ NoAnswer /\ MethodAnswer /\ RefusedAnswer /\ OtherAnswer /\ ResetAnswer

LEMMA Silence ==
    /\ Silent \in Listeners /\ Started \in Listeners
    /\ Silent.completed = <<>> /\ Started.completed = <<>>
    /\ Silent.code = Missing /\ Started.code = Missing
    /\ ~Silent.headersReceived /\ Started.headersReceived /\ ~Silent.raised /\ ~Started.raised
<1>1. <<>> \in Seq(Codes)
  OBVIOUS
<1> QED
  BY <1>1 DEF Silent, Started, Listeners

\* Nothing that is completed is no success.
LEMMA Success == ToSet(<<>>) = {}
  BY DEF ToSet

\* The listener has told the call this status, and no other.
Told(l, code) == l.completed # <<>> /\ l.completed[1] = code /\ ToSet(l.completed) = {code}

LEMMA CompletesOnce ==
    ASSUME NEW l \in Listeners, NEW code \in Codes, l.completed = <<>> \/ Told(l, code)
    PROVE  LET once == Completes(l, code)
           IN once \in Listeners /\ once.code = code /\ Told(once, code)
<1> DEFINE once == Completes(l, code)
           s == Append(l.completed, code)
<1>1. ToSet(<<>>) = {} /\ l.completed \in Seq(Codes)
  BY DEF ToSet, Listeners
<1>2. s \in Seq(Codes) /\ s # <<>> /\ s[1] = code /\ ToSet(s) = {code}
  <2>1. /\ s \in Seq(Codes) /\ s # <<>> /\ ToSet(s) = ToSet(l.completed) \cup {code}
        /\ l.completed # <<>> => s[1] = l.completed[1]
        /\ l.completed = <<>> => s[1] = code
    BY <1>1, Appended
  <2> QED
    BY <1>1, <2>1 DEF Told
<1> HIDE DEF s
<1>3. once.code = code /\ once.completed = s
  BY DEF Completes, Listeners, s
<1>4. once \in Listeners
  BY <1>2 DEF Completes, Listeners, s
<1> QED
  BY <1>2, <1>3, <1>4 DEF Told

\* The trailers are taken by a listener that has completed nothing.
LEMMA TrailersTaken ==
    ASSUME AnswerInv, OnResponseTrailers, listener.completed = <<>>,
           TrailersStatus(Head(wire).headers) \in Codes
    PROVE  LET result == TrailersStatus(Head(wire).headers)
           IN /\ UNCHANGED <<place, request, own, answered, said, attached>> /\ wire' = Tail(wire)
              /\ listener' \in Listeners
              /\ \/ listener'.completed = <<>> /\ Untold(Head(wire).headers)
                    /\ listener.code = Missing /\ ~listener.headersReceived
                    /\ NoStatus(Head(wire).headers)
                 \/ Told(listener', result)
<1> DEFINE h == Head(wire).headers
           result == TrailersStatus(h)
           once == Completes(listener, result)
           needsHttp == listener.code = Missing /\ ~listener.headersReceived
                            /\ (Invalid(h) \/ h.code = Missing)
<1>1. listener \in Listeners
  BY DEF AnswerInv
<1>2. /\ once \in Listeners /\ Completes(once, once.code) \in Listeners
      /\ Told(once, result) /\ Told(Completes(once, once.code), result)
  BY <1>1, CompletesOnce
<1>3. CASE needsHttp /\ Untold(h) /\ Raises
  <2>1. listener' = [listener EXCEPT !.raised = TRUE] /\ wire' = Tail(wire)
        /\ UNCHANGED <<place, request, own, answered, said, attached>>
    BY <1>3 DEF Raises, Takes
  <2>2. listener' \in Listeners /\ listener'.completed = <<>>
    BY <1>1, <2>1 DEF Listeners
  <2> QED
    BY <1>3, <2>1, <2>2 DEF NoStatus
<1>4. CASE Takes(IF listener.headersReceived THEN once ELSE Completes(once, once.code))
  BY <1>2, <1>4 DEF Takes
<1> QED
  BY <1>3, <1>4 DEF OnResponseTrailers

----------------------------------------------------------------------------
(* The status of a call: the client's listener *)

LEMMA ResponseTypes ==
    ASSUME NEW number \in {Missing} \cup Nat, NEW content \in Texts, NEW code \in {Missing} \cup Nat
    PROVE  Response(number, content, code) \in Responses
  BY DEF Response, Responses

LEMMA FrameTypes ==
    ASSUME NEW h \in Responses
    PROVE  /\ WireFrame("headers", h, TRUE) \in WireFrames
           /\ WireFrame("headers", h, FALSE) \in WireFrames
           /\ WireFrame("data", h, TRUE) \in WireFrames
           /\ WireFrame("data", h, FALSE) \in WireFrames
           /\ WireFrame("reset", h, TRUE) \in WireFrames
<1>1. \A kind \in {"headers", "data", "reset"}, end \in BOOLEAN : WireFrame(kind, h, end) \in WireFrames
  BY DEF WireFrame, WireFrames
<1>2. TRUE \in BOOLEAN /\ FALSE \in BOOLEAN
  OBVIOUS
<1> QED
  BY <1>1, <1>2, Zenon

LEMMA FixedFrames ==
    FirstHeaders \in WireFrames /\ DataFrame(FALSE) \in WireFrames /\ DataFrame(TRUE) \in WireFrames
<1>1. NoHeaders \in Responses
  BY ResponseTypes DEF NoHeaders, Texts
<1>2. Response(200, "application/grpc+data", Missing) \in Responses
  BY ResponseTypes DEF Texts
<1> QED
  BY <1>1, <1>2, FrameTypes, Zenon DEF FirstHeaders, DataFrame

\* What is left of the wire when its first frame is taken.
LEMMA Rest ==
    ASSUME wire \in Seq(WireFrames), wire # <<>>
    PROVE  /\ Tail(wire) \in Seq(WireFrames) /\ Head(wire) = wire[1] /\ 1 \in DOMAIN wire
           /\ Head(wire) \in WireFrames
           /\ \A i \in DOMAIN Tail(wire) : i + 1 \in DOMAIN wire /\ Tail(wire)[i] = wire[i + 1]
  OBVIOUS

\* A frame of an answer that was reset.
LEMMA ResetTakes ==
    ASSUME AnswerInv, answered = "reset", wire # <<>>, wire' = Tail(wire),
           UNCHANGED <<place, answered, said, attached>>, listener' \in Listeners,
           OK \notin ToSet(listener'.completed)
    PROVE  AnswerInv'
<1>1. wire' \in Seq(WireFrames) /\ \A i \in DOMAIN wire' : wire'[i].end => wire'[i].kind = "reset"
  BY Rest DEF AnswerInv, ResetAnswer
<1> QED
  BY <1>1 DEF AnswerInv, NoAnswer, MethodAnswer, RefusedAnswer, OtherAnswer, ResetAnswer, Succeeded

\* The frame that is next, and those behind it.
Ahead(frame, rest) == wire # <<>> /\ Head(wire) = frame /\ Tail(wire) = rest

LEMMA NextFrames ==
    ASSUME NEW a, NEW b, NEW c
    PROVE  /\ wire = <<a>> => Ahead(a, <<>>)
           /\ wire = <<a, b>> => Ahead(a, <<b>>)
           /\ wire = <<a, b, c>> => Ahead(a, <<b, c>>)
<1>1. wire = <<a>> => Ahead(a, <<>>)
  BY Tuple1, Zenon DEF Ahead
<1>2. wire = <<a, b>> => Ahead(a, <<b>>)
  BY Tuple2, Zenon DEF Ahead
<1>3. wire = <<a, b, c>> => Ahead(a, <<b, c>>)
  BY Tuple3, Zenon DEF Ahead
<1> QED
  BY <1>1, <1>2, <1>3

LEMMA MethodNext ==
    ASSUME MethodAnswer, answered = "method", wire # <<>>
    PROVE  \/ listener = Silent /\ Ahead(FirstHeaders, <<DataFrame(FALSE), LastFrame(TRUE)>>)
           \/ listener = Started /\ Ahead(DataFrame(FALSE), <<LastFrame(TRUE)>>)
           \/ listener = Started /\ Ahead(LastFrame(TRUE), <<>>)
           \/ listener = Silent /\ Ahead(LastFrame(FALSE), <<>>)
  BY NextFrames, Zenon DEF MethodAnswer

LEMMA RefusedNext ==
    ASSUME RefusedAnswer, answered = "refused", wire # <<>>
    PROVE  listener = Silent /\ Ahead(WireFrame("headers", RefusalHeaders(Error(said)), TRUE), <<>>)
  BY NextFrames, Zenon DEF RefusedAnswer

LEMMA OtherNext ==
    ASSUME OtherAnswer, answered \in {"plain", "proxy"}, wire # <<>>
    PROVE  \/ listener = Silent /\ \E h : NoStatus(h) /\ Ahead(WireFrame("headers", h, TRUE), <<>>)
           \/ listener = Silent /\ \E h : Ahead(WireFrame("headers", h, FALSE), <<DataFrame(TRUE)>>)
           \/ listener.completed = <<>> /\ listener.code # OK /\ Ahead(DataFrame(TRUE), <<>>)
  BY NextFrames, Zenon DEF OtherAnswer

\* Which frame a step of the listener is about.
LEMMA Kinds ==
    /\ FirstHeaders.kind = "headers" /\ ~FirstHeaders.end
    /\ \A end \in BOOLEAN : DataFrame(end).kind = "data" /\ (DataFrame(end).end <=> end)
    /\ \A wrote \in BOOLEAN : LastFrame(wrote).kind = "headers" /\ LastFrame(wrote).end
    /\ \A h : WireFrame("headers", h, TRUE).kind = "headers" /\ WireFrame("headers", h, TRUE).end
    /\ \A h : WireFrame("headers", h, FALSE).kind = "headers" /\ ~WireFrame("headers", h, FALSE).end
    /\ \A h : WireFrame("headers", h, TRUE).headers = h /\ WireFrame("headers", h, FALSE).headers = h
  BY DEF FirstHeaders, DataFrame, LastFrame, WireFrame

LEMMA HeadersTaken == ASSUME AnswerInv, OnResponseHeaders PROVE AnswerInv'
<1> DEFINE h == Head(wire).headers
           l == [listener EXCEPT !.headersReceived = TRUE]
<1>1. /\ wire' = Tail(wire) /\ UNCHANGED <<place, request, own, answered, said, attached>>
      /\ \/ Invalid(h) /\ listener' = [listener EXCEPT !.raised = TRUE]
         \/ Invalid(h) /\ listener' = [l EXCEPT !.code = StatusOf(h)]
         \/ ~Invalid(h) /\ h.encoding \notin Encodings \cup {Blank} /\ listener' = [l EXCEPT !.code = UNIMPLEMENTED]
         \/ ~Invalid(h) /\ h.encoding \in Encodings \cup {Blank} /\ listener' = [l EXCEPT !.decoder = TRUE]
  BY DEF OnResponseHeaders, Raises, Takes
<1>2. wire # <<>> /\ Head(wire).kind = "headers" /\ ~Head(wire).end
  BY DEF OnResponseHeaders
<1>3. listener' \in Listeners /\ listener'.completed = listener.completed
  <2>1. StatusOf(h) \in Codes /\ UNIMPLEMENTED \in Codes /\ listener \in Listeners
    BY StatusIsNotOk DEF AnswerInv, Codes, UNIMPLEMENTED
  <2>2. l \in Listeners /\ l.completed = listener.completed
    BY <2>1 DEF Listeners
  <2> HIDE DEF l
  <2>3. CASE listener' = [listener EXCEPT !.raised = TRUE]
    BY <2>1, <2>3 DEF Listeners
  <2>4. CASE listener' = [l EXCEPT !.code = StatusOf(h)] \/ listener' = [l EXCEPT !.code = UNIMPLEMENTED]
    BY <2>1, <2>2, <2>4 DEF Listeners
  <2>5. CASE listener' = [l EXCEPT !.decoder = TRUE]
    BY <2>2, <2>5 DEF Listeners
  <2> QED
    BY <1>1, <2>3, <2>4, <2>5
<1>4. wire' \in Seq(WireFrames)
  BY <1>1, <1>2, Rest DEF AnswerInv
<1>5. CASE answered = "method"
  <2>1. listener = Silent /\ Ahead(FirstHeaders, <<DataFrame(FALSE), LastFrame(TRUE)>>)
    BY <1>2, <1>5, MethodNext, Kinds DEF AnswerInv, Ahead
  <2>2. h = Response(200, "application/grpc+data", Missing) /\ wire' = <<DataFrame(FALSE), LastFrame(TRUE)>>
    <3>1. Head(wire) = FirstHeaders /\ Tail(wire) = <<DataFrame(FALSE), LastFrame(TRUE)>>
      BY <2>1 DEF Ahead
    <3>2. FirstHeaders.headers = Response(200, "application/grpc+data", Missing)
      BY DEF FirstHeaders, WireFrame
    <3> QED
      BY <1>1, <3>1, <3>2
  <2>3. ~Invalid(h) /\ h.encoding = Blank
    BY <2>2 DEF Invalid, Response, IsGrpc, Missing
  <2>4. listener' = [l EXCEPT !.decoder = TRUE]
    BY <1>1, <2>3
  <2>5. listener' = Started
    BY <2>1, <2>4 DEF Started, Silent
  <2>6. (DataFrame(FALSE))' = DataFrame(FALSE) /\ (LastFrame(TRUE))' = LastFrame(TRUE)
    BY <1>1 DEF DataFrame, LastFrame
  <2> QED
    BY <1>1, <1>3, <1>4, <1>5, <2>2, <2>5, <2>6
    DEF AnswerInv, NoAnswer, MethodAnswer, RefusedAnswer, OtherAnswer, ResetAnswer
<1>6. CASE answered = "refused"
  BY <1>2, <1>6, RefusedNext, Kinds DEF AnswerInv, Ahead
<1>7. CASE answered \in {"plain", "proxy"}
  <2>1. listener = Silent /\ \E g : Ahead(WireFrame("headers", g, FALSE), <<DataFrame(TRUE)>>)
    BY <1>2, <1>7, OtherNext, Kinds DEF AnswerInv, Ahead
  <2>2. wire' = <<DataFrame(TRUE)>>
    BY <1>1, <2>1 DEF Ahead
  <2>3. listener'.completed = <<>>
    BY <1>3, <2>1, Silence
  <2>4. listener'.code # OK
    <3>1. listener.code = Missing /\ l \in Listeners /\ l.code = Missing
      BY <2>1, Silence DEF Listeners, Missing
    <3> HIDE DEF l
    <3> QED
      BY <1>1, <2>1, <3>1, Silence, StatusIsNotOk DEF Listeners, OK, UNIMPLEMENTED, Missing
  <2> QED
    BY <1>1, <1>3, <1>4, <1>7, <2>2, <2>3, <2>4
    DEF AnswerInv, NoAnswer, MethodAnswer, RefusedAnswer, OtherAnswer, ResetAnswer, DataFrame
<1>8. CASE answered = "reset"
  BY <1>1, <1>2, <1>3, <1>8, ResetTakes DEF AnswerInv, ResetAnswer, Succeeded
<1>9. answered # "none"
  BY <1>2 DEF AnswerInv, NoAnswer
<1> QED
  BY <1>5, <1>6, <1>7, <1>8, <1>9 DEF AnswerInv

\* What an answer that has been taken leaves behind.
LEMMA AllTaken ==
    ASSUME AnswerInv, wire # <<>>, wire' = <<>>, UNCHANGED <<place, answered, said, attached>>,
           listener' \in Listeners, answered # "reset",
           answered = "method" /\ Succeeded' => said = OK,
           answered = "method" /\ attached # "text/plain" => CompletedWith' = said,
           answered = "refused" => CompletedWith' = said,
           answered \in {"method", "refused"} => listener'.completed # <<>>,
           answered \in {"refused", "plain", "proxy"} => ~Succeeded'
    PROVE  AnswerInv'
<1>1. wire' \in Seq(WireFrames) /\ answered # "none"
  BY DEF AnswerInv, NoAnswer
<1> QED
  BY <1>1 DEF AnswerInv, NoAnswer, MethodAnswer, RefusedAnswer, OtherAnswer, ResetAnswer

LEMMA DataTaken == ASSUME AnswerInv, OnResponseData PROVE AnswerInv'
<1>1. /\ wire # <<>> /\ Head(wire).kind = "data" /\ wire' = Tail(wire)
      /\ UNCHANGED <<place, request, own, answered, said, attached>>
      /\ listener' = IF listener.code # Missing /\ Head(wire).end
                     THEN Completes(listener, listener.code) ELSE listener
  BY DEF OnResponseData, Takes
<1>2. wire' \in Seq(WireFrames) /\ listener \in Listeners /\ answered # "none"
  BY <1>1, Rest DEF AnswerInv, NoAnswer
<1>3. CASE answered = "method"
  <2>1. listener = Started /\ Ahead(DataFrame(FALSE), <<LastFrame(TRUE)>>)
    BY <1>1, <1>3, MethodNext, Kinds DEF AnswerInv, Ahead
  <2>2. listener' = Started /\ wire' = <<LastFrame(TRUE)>>
    BY <1>1, <2>1, Silence DEF Ahead
  <2>3. (LastFrame(TRUE))' = LastFrame(TRUE)
    BY <1>1 DEF LastFrame
  <2> QED
    BY <1>1, <1>2, <1>3, <2>2, <2>3, Silence
    DEF AnswerInv, NoAnswer, MethodAnswer, RefusedAnswer, OtherAnswer, ResetAnswer
<1>4. answered # "refused"
  BY <1>1, RefusedNext, Kinds DEF AnswerInv, Ahead
<1>5. CASE answered \in {"plain", "proxy"}
  <2>1. listener.completed = <<>> /\ listener.code # OK /\ Ahead(DataFrame(TRUE), <<>>)
    BY <1>1, <1>5, OtherNext, Kinds DEF AnswerInv, Ahead
  <2>2. wire' = <<>>
    BY <1>1, <2>1 DEF Ahead
  <2>3. CASE listener.code = Missing
    <3>1. ~Succeeded'
      BY <1>1, <2>1, <2>3, Success DEF Succeeded
    <3> QED
      BY <1>1, <1>2, <1>5, <2>2, <2>3, <3>1, AllTaken
  <2>4. CASE listener.code # Missing
    <3>1. listener.code \in Codes /\ listener' = Completes(listener, listener.code)
      BY <1>1, <1>2, <2>1, <2>4, Kinds DEF Listeners, Ahead
    <3>2. listener' \in Listeners /\ Told(listener', listener.code)
      BY <1>2, <2>1, <3>1, CompletesOnce
    <3>3. ~Succeeded'
      BY <2>1, <3>2 DEF Succeeded, Told
    <3> QED
      BY <1>1, <1>5, <2>2, <3>2, <3>3, AllTaken
  <2> QED
    BY <2>3, <2>4
<1>6. CASE answered = "reset"
  <2>1. ~Head(wire).end
    BY <1>1, <1>6, Rest DEF AnswerInv, ResetAnswer
  <2>2. listener' = listener
    BY <1>1, <2>1
  <2> QED
    BY <1>1, <1>2, <1>6, <2>2, ResetTakes DEF AnswerInv, ResetAnswer, Succeeded
<1> QED
  BY <1>2, <1>3, <1>4, <1>5, <1>6 DEF AnswerInv

LEMMA ResetTaken == ASSUME AnswerInv, OnReset PROVE AnswerInv'
<1>1. /\ wire # <<>> /\ Head(wire).kind = "reset" /\ wire' = Tail(wire)
      /\ UNCHANGED <<place, request, own, answered, said, attached>>
      /\ listener' = Completes(listener, CANCELLED)
  BY DEF OnReset, Takes
<1>2. listener \in Listeners /\ answered # "none"
  BY <1>1 DEF AnswerInv, NoAnswer
<1>3. answered # "method"
  BY <1>1, MethodNext, Kinds DEF AnswerInv, Ahead
<1>4. answered # "refused"
  BY <1>1, RefusedNext, Kinds DEF AnswerInv, Ahead
<1>5. answered \notin {"plain", "proxy"}
  BY <1>1, OtherNext, Kinds DEF AnswerInv, Ahead
<1>6. answered = "reset"
  BY <1>2, <1>3, <1>4, <1>5 DEF AnswerInv
<1>7. /\ listener.completed \in Seq(Codes) /\ CANCELLED \in Codes /\ CANCELLED # OK
      /\ OK \notin ToSet(listener.completed)
  BY <1>2, <1>6 DEF Listeners, AnswerInv, ResetAnswer, Succeeded, Codes, CANCELLED, OK
<1>8. listener'.completed = Append(listener.completed, CANCELLED) /\ listener' \in Listeners
  <2>1. Append(listener.completed, CANCELLED) \in Seq(Codes)
    BY <1>7, Appended
  <2> QED
    BY <1>1, <1>2, <1>7, <2>1 DEF Completes, Listeners
<1>9. OK \notin ToSet(listener'.completed)
  BY <1>7, <1>8, Appended
<1> QED
  BY <1>1, <1>6, <1>8, <1>9, ResetTakes

LEMMA TrailersEnd == ASSUME AnswerInv, OnResponseTrailers PROVE AnswerInv'
<1> DEFINE h == Head(wire).headers
<1>1. wire # <<>> /\ Head(wire).kind = "headers" /\ Head(wire).end
  BY DEF OnResponseTrailers
<1>2. answered \notin {"none", "reset"}
  BY <1>1, Rest DEF AnswerInv, NoAnswer, ResetAnswer
<1>3. CASE answered = "method"
  <2>1. PICK wrote \in BOOLEAN :
            Ahead(LastFrame(wrote), <<>>) /\ listener = IF wrote THEN Started ELSE Silent
    BY <1>1, <1>3, MethodNext, Kinds DEF AnswerInv, Ahead
  <2>2. h = Trailers(wrote, attached, said) /\ Tail(wire) = <<>>
    BY <2>1 DEF Ahead, LastFrame, WireFrame
  <2>3. said \in Codes /\ attached \in Contents /\ h.code = said /\ said # Missing
    BY <1>3, <2>2 DEF AnswerInv, MethodAnswer, Trailers, Response, Codes, Missing
  <2>4. listener.code = Missing /\ listener.completed = <<>> /\ (listener.headersReceived <=> wrote)
    BY <2>1, Silence
  <2>5. ~Untold(h) \/ wrote
    BY <2>2 DEF Untold, Trailers, Response, HttpStatus
  <2>6. ~wrote /\ attached # "text/plain" => ~Invalid(h)
    <3>1. h = Response(IF wrote THEN Missing ELSE 200,
                       IF attached = Blank THEN "application/grpc+data" ELSE attached, said)
      BY <2>2 DEF Trailers
    <3>2. h.status = (IF wrote THEN Missing ELSE 200)
          /\ h.content = IF attached = Blank THEN "application/grpc+data" ELSE attached
      BY <3>1 DEF Response
    <3>3. attached # "text/plain" => h.content \in {"application/grpc+data", "application/grpc"}
      BY <2>3, <3>2 DEF Contents
    <3> QED
      BY <3>2, <3>3 DEF Invalid, IsGrpc, Missing
  <2>7. FromTrailers(h) = said
    BY <2>3 DEF FromTrailers, FromCode, Codes
  <2>8. /\ TrailersStatus(h) \in Codes
        /\ TrailersStatus(h) = OK => said = OK
        /\ attached # "text/plain" => TrailersStatus(h) = said
    BY <2>3, <2>4, <2>6, <2>7, StatusIsNotOk DEF TrailersStatus, Codes
  <2>9. /\ UNCHANGED <<place, request, own, answered, said, attached>> /\ wire' = <<>>
        /\ listener' \in Listeners /\ Told(listener', TrailersStatus(h))
    BY <2>2, <2>4, <2>5, <2>8, TrailersTaken
  <2>10. /\ Succeeded' => said = OK
         /\ attached # "text/plain" => CompletedWith' = said
         /\ listener'.completed # <<>>
    BY <2>8, <2>9 DEF Told, Succeeded, CompletedWith
  <2> QED
    BY <1>1, <1>3, <2>9, <2>10, AllTaken
<1>4. CASE answered = "refused"
  <2>1. listener = Silent /\ Ahead(WireFrame("headers", RefusalHeaders(Error(said)), TRUE), <<>>)
    BY <1>1, <1>4, RefusedNext DEF AnswerInv
  <2>2. h = RefusalHeaders(Error(said)) /\ Tail(wire) = <<>> /\ said = UNIMPLEMENTED
    BY <1>4, <2>1, Kinds DEF Ahead, AnswerInv, RefusedAnswer
  <2>3. h = Response(200, "application/grpc+data", UNIMPLEMENTED)
    BY <2>2 DEF RefusalHeaders, Error, Refusal
  <2>4. h.code = UNIMPLEMENTED /\ ~Invalid(h)
    BY <2>3 DEF Response, Invalid, IsGrpc, Missing
  <2>5. listener.code = Missing /\ listener.completed = <<>> /\ ~listener.headersReceived
    BY <2>1, Silence
  <2>6. TrailersStatus(h) = UNIMPLEMENTED /\ UNIMPLEMENTED \in Codes /\ UNIMPLEMENTED # OK
    BY <2>4, <2>5 DEF TrailersStatus, FromTrailers, FromCode, UNIMPLEMENTED, Codes, OK, Missing
  <2>7. ~NoStatus(h)
    BY <2>4 DEF NoStatus, UNIMPLEMENTED, Missing
  <2>8. /\ UNCHANGED <<place, request, own, answered, said, attached>> /\ wire' = <<>>
        /\ listener' \in Listeners /\ Told(listener', UNIMPLEMENTED)
    BY <2>2, <2>5, <2>6, <2>7, TrailersTaken
  <2>9. ~Succeeded' /\ CompletedWith' = said /\ listener'.completed # <<>>
    BY <2>2, <2>6, <2>8 DEF Told, Succeeded, CompletedWith
  <2> QED
    BY <1>1, <1>4, <2>8, <2>9, AllTaken
<1>5. CASE answered \in {"plain", "proxy"}
  <2>1. listener = Silent /\ NoStatus(h) /\ Tail(wire) = <<>>
    <3>1. listener = Silent /\ \E g : NoStatus(g) /\ Ahead(WireFrame("headers", g, TRUE), <<>>)
      BY <1>1, <1>5, OtherNext, Kinds DEF AnswerInv, Ahead
    <3>2. PICK g : NoStatus(g) /\ Ahead(WireFrame("headers", g, TRUE), <<>>)
      BY <3>1
    <3>3. h = g
      BY <3>2 DEF Ahead, WireFrame
    <3> QED
      BY <3>1, <3>2, <3>3 DEF Ahead
  <2>2. listener.code = Missing /\ listener.completed = <<>> /\ ~listener.headersReceived
    BY <2>1, Silence
  <2>3. TrailersStatus(h) \in Codes /\ TrailersStatus(h) # OK
    BY <2>1, <2>2, StatusIsNotOk DEF TrailersStatus, FromTrailers, WithoutCode, NoStatus, Codes
  <2>4. /\ UNCHANGED <<place, request, own, answered, said, attached>> /\ wire' = <<>>
        /\ listener' \in Listeners
        /\ listener'.completed = <<>> \/ Told(listener', TrailersStatus(h))
    BY <2>1, <2>2, <2>3, TrailersTaken
  <2>5. ~Succeeded'
    BY <2>3, <2>4, Success DEF Told, Succeeded
  <2> QED
    BY <1>1, <1>5, <2>4, <2>5, AllTaken
<1> QED
  BY <1>2, <1>3, <1>4, <1>5 DEF AnswerInv

----------------------------------------------------------------------------
(* The status of a call: those who answer *)

LEMMA Joined ==
    ASSUME NEW a \in WireFrames, NEW b \in WireFrames, NEW c \in WireFrames
    PROVE  /\ <<>> \o <<a>> = <<a>> /\ <<a>> \o <<>> = <<a>>
           /\ <<a>> \o <<b>> = <<a, b>> /\ <<a, b>> \o <<c>> = <<a, b, c>>
           /\ <<a>> \in Seq(WireFrames) /\ <<a, b>> \in Seq(WireFrames) /\ <<a, b, c>> \in Seq(WireFrames)
<1>1. <<a>> \in Seq(WireFrames) /\ <<b>> \in Seq(WireFrames) /\ <<c>> \in Seq(WireFrames)
  OBVIOUS
<1>2. <<a, b>> \in Seq(WireFrames)
  OBVIOUS
<1>3. <<a, b, c>> \in Seq(WireFrames)
  OBVIOUS
<1>4. <<>> \o <<a>> = <<a>> /\ <<a>> \o <<>> = <<a>>
  BY <1>1, ConcatEmptySeq
<1>5. <<a>> \o <<b>> = <<a, b>>
  <2> DEFINE s == <<a>> \o <<b>>
  <2>1. s \in Seq(WireFrames) /\ Len(s) = 2 /\ s[1] = a /\ s[2] = b
    BY <1>1, ConcatProperties
  <2> HIDE DEF s
  <2>2. \A i \in 1..2 : s[i] = <<a, b>>[i]
    BY <2>1
  <2>3. s = <<a, b>>
    BY <1>2, <2>1, <2>2, SeqEqual
  <2> QED
    BY <2>3 DEF s
<1>6. <<a, b>> \o <<c>> = <<a, b, c>>
  <2> DEFINE s == <<a, b>> \o <<c>>
  <2>1. s \in Seq(WireFrames) /\ Len(s) = 3 /\ s[1] = a /\ s[2] = b /\ s[3] = c
    BY <1>1, <1>2, ConcatProperties
  <2> HIDE DEF s
  <2>2. \A i \in 1..3 : s[i] = <<a, b, c>>[i]
    BY <2>1
  <2>3. s = <<a, b, c>>
    BY <1>3, <2>1, <2>2, SeqEqual
  <2> QED
    BY <2>3 DEF s
<1> QED
  BY <1>1, <1>2, <1>3, <1>4, <1>5, <1>6

\* An answer of the server is made when there is none.
LEMMA Unanswered ==
    ASSUME AnswerInv, place \in {"new", "sent", "called"}
    PROVE  answered = "none" /\ wire = <<>> /\ listener = Silent
  BY DEF AnswerInv, NoAnswer

LEMMA MethodAnswers ==
    ASSUME AnswerInv, NEW wrote \in BOOLEAN, NEW c \in Contents, NEW n \in RpcCodes,
           MethodEnds(wrote, c, n)
    PROVE  AnswerInv'
<1>1. listener = Silent /\ UNCHANGED listener /\ place' = "answered" /\ answered' = "method"
      /\ said' = FromCode(n) /\ attached' = c
  BY Unanswered DEF MethodEnds, AnswerWith
<1>2. said' \in Codes /\ said' \in Nat /\ attached' \in Contents
  <2>1. n \in Nat
    BY ExchangeAssumption
  <2> QED
    BY <1>1, <2>1, CodesAreKnown DEF Codes
<1> DEFINE final == WireFrame("headers", Trailers(wrote, c, FromCode(n)), TRUE)
<1>3. final \in WireFrames /\ FirstHeaders \in WireFrames /\ DataFrame(FALSE) \in WireFrames
  <2>2. (IF c = Blank THEN "application/grpc+data" ELSE c) \in Texts
    BY DEF Texts, Contents
  <2>3. Trailers(wrote, c, FromCode(n)) \in Responses
    BY <1>1, <1>2, <2>2, ResponseTypes DEF Trailers
  <2> QED
    BY <2>3, FrameTypes, FixedFrames, Zenon
<1>4. wire' = (IF wrote THEN <<FirstHeaders, DataFrame(FALSE)>> ELSE <<>>) \o <<final>>
  BY DEF MethodEnds, AnswerWith, DataFrame
<1>5. final = LastFrame(wrote)' /\ DataFrame(FALSE)' = DataFrame(FALSE) /\ FirstHeaders' = FirstHeaders
  BY <1>1 DEF LastFrame, DataFrame, FirstHeaders
<1> HIDE DEF final
<1>6. CASE wrote
  <2>1. wire' = <<FirstHeaders, DataFrame(FALSE), final>>
    BY <1>3, <1>4, <1>6, Joined
  <2>2. wire' \in Seq(WireFrames)
    BY <1>3, <2>1, Joined
  <2> QED
    BY <1>1, <1>2, <1>5, <1>6, <2>1, <2>2, Silence
    DEF AnswerInv, NoAnswer, MethodAnswer, RefusedAnswer, OtherAnswer, ResetAnswer
<1>7. CASE ~wrote
  <2>1. wire' = <<final>>
    BY <1>3, <1>4, <1>7, Joined
  <2>2. wire' \in Seq(WireFrames)
    BY <1>3, <2>1, Joined
  <2> QED
    BY <1>1, <1>2, <1>5, <1>7, <2>1, <2>2, Silence
    DEF AnswerInv, NoAnswer, MethodAnswer, RefusedAnswer, OtherAnswer, ResetAnswer
<1> QED
  BY <1>6, <1>7

\* The verdicts that on_headers can come to.
LEMMA Verdicts ==
    ASSUME NEW h
    PROVE  Verdict(h) \in {Plain(405, INTERNAL), Plain(415, UNIMPLEMENTED), Plain(404, UNIMPLEMENTED),
                           Error(UNIMPLEMENTED), Accepted}
  BY DEF Verdict

LEMMA RequestAnswered == ASSUME AnswerInv, OnRequestHeaders PROVE AnswerInv'
<1> DEFINE verdict == Verdict(request)
<1>1. listener = Silent /\ wire = <<>> /\ answered = "none" /\ UNCHANGED listener
  BY Unanswered DEF OnRequestHeaders, AnswerWith
<1>2. CASE verdict = Accepted
  <2>1. place' = "called" /\ UNCHANGED <<request, own, answered, said, attached, wire, listener>>
    BY <1>2 DEF OnRequestHeaders
  <2> QED
    BY <1>1, <2>1 DEF AnswerInv, NoAnswer, MethodAnswer, RefusedAnswer, OtherAnswer, ResetAnswer
<1>3. CASE verdict # Accepted
  <2>1. /\ place' = "answered" /\ answered' = verdict.kind /\ said' = verdict.code
        /\ wire' = <<WireFrame("headers", RefusalHeaders(verdict), TRUE)>>
    BY <1>3 DEF OnRequestHeaders, AnswerWith
  <2>2. CASE verdict = Error(UNIMPLEMENTED)
    <3>1. answered' = "refused" /\ said' = UNIMPLEMENTED
      BY <2>1, <2>2 DEF Error, Refusal
    <3>2. WireFrame("headers", RefusalHeaders(verdict), TRUE) \in WireFrames
      <4>1. RefusalHeaders(verdict) = Response(200, "application/grpc+data", UNIMPLEMENTED)
        BY <2>2 DEF RefusalHeaders, Error, Refusal
      <4>2. RefusalHeaders(verdict) \in Responses
        BY <4>1, ResponseTypes DEF UNIMPLEMENTED, Texts
      <4> QED
        BY <4>2, FrameTypes, Zenon
    <3>3. wire' = <<WireFrame("headers", RefusalHeaders(Error(said')), TRUE)>>
      BY <2>1, <2>2, <3>1
    <3>4. wire' \in Seq(WireFrames)
      BY <2>1, <3>2, Joined
    <3> QED
      BY <1>1, <2>1, <3>1, <3>3, <3>4
      DEF AnswerInv, NoAnswer, MethodAnswer, RefusedAnswer, OtherAnswer, ResetAnswer
  <2>3. ASSUME NEW number \in Nat, NEW code \in Nat, verdict = Plain(number, code) PROVE AnswerInv'
    <3>1. answered' = "plain"
      BY <2>1, <2>3 DEF Plain, Refusal
    <3>2. RefusalHeaders(verdict) = Response(number, "text/plain", code)
      BY <2>3 DEF RefusalHeaders, Plain, Refusal
    <3>3. NoStatus(RefusalHeaders(verdict))
      BY <3>2 DEF NoStatus, Invalid, IsGrpc, Response
    <3>4. WireFrame("headers", RefusalHeaders(verdict), TRUE) \in WireFrames
      <4>1. RefusalHeaders(verdict) \in Responses
        BY <3>2, ResponseTypes DEF Texts
      <4> QED
        BY <4>1, FrameTypes, Zenon
    <3>5. wire' \in Seq(WireFrames)
      BY <2>1, <3>4, Joined
    <3> QED
      BY <1>1, <2>1, <3>1, <3>3, <3>5
      DEF AnswerInv, NoAnswer, MethodAnswer, RefusedAnswer, OtherAnswer, ResetAnswer
  <2> QED
    BY <1>3, <2>2, <2>3, Verdicts DEF INTERNAL, UNIMPLEMENTED
<1> QED
  BY <1>2, <1>3

LEMMA ProxyAnswered ==
    ASSUME AnswerInv, NEW number \in HttpCodes, NEW c \in Contents, NEW page \in BOOLEAN,
           ProxyAnswers(number, c, page)
    PROVE  AnswerInv'
<1> DEFINE h == Response(number, c, Missing)
<1>1. listener = Silent /\ UNCHANGED listener /\ place' = "answered" /\ answered' = "proxy"
  BY Unanswered DEF ProxyAnswers, AnswerWith
<1>2. /\ WireFrame("headers", h, TRUE) \in WireFrames /\ WireFrame("headers", h, FALSE) \in WireFrames
      /\ h.code = Missing
  <2>1. number \in Nat /\ c \in Texts
    BY ExchangeAssumption DEF Contents, Texts
  <2>2. h \in Responses
    BY <2>1, ResponseTypes
  <2>3. h.code = Missing
    BY DEF Response
  <2> QED
    BY <2>2, <2>3, FrameTypes, Zenon
<1>3. wire' = IF page THEN <<WireFrame("headers", h, FALSE)>> \o <<DataFrame(TRUE)>>
              ELSE <<WireFrame("headers", h, TRUE)>> \o <<>>
  <2>1. wire' = <<WireFrame("headers", h, ~page)>> \o IF page THEN <<DataFrame(TRUE)>> ELSE <<>>
    BY Zenon DEF ProxyAnswers, AnswerWith, DataFrame
  <2>2. CASE page = TRUE
    BY <2>1, <2>2, Zenon
  <2>3. CASE page = FALSE
    BY <2>1, <2>3, Zenon
  <2> QED
    BY <2>2, <2>3
<1> HIDE DEF h
<1>4. CASE page
  <2>1. wire' = <<WireFrame("headers", h, FALSE), DataFrame(TRUE)>>
    <3> DEFINE f == WireFrame("headers", h, FALSE)
               g == DataFrame(TRUE)
    <3>1. f \in WireFrames /\ g \in WireFrames /\ wire' = <<f>> \o <<g>>
      BY <1>2, <1>3, <1>4, FixedFrames, Zenon
    <3> HIDE DEF f, g
    <3>2. <<f>> \o <<g>> = <<f, g>>
      <4>1. \A a \in WireFrames, b \in WireFrames : <<a>> \o <<b>> = <<a, b>>
        BY Joined
      <4> QED
        BY <3>1, <4>1, Zenon
    <3>3. wire' = <<f, g>>
      BY <3>1, <3>2
    <3> QED
      BY <3>3 DEF f, g
  <2>2. wire' \in Seq(WireFrames)
    BY <1>2, <2>1, Joined, FixedFrames
  <2> QED
    BY <1>1, <2>1, <2>2, Silence
    DEF AnswerInv, NoAnswer, MethodAnswer, RefusedAnswer, OtherAnswer, ResetAnswer, DataFrame
<1>5. CASE ~page
  <2>1. wire' = <<WireFrame("headers", h, TRUE)>>
    BY <1>2, <1>3, <1>5, Joined
  <2>2. wire' \in Seq(WireFrames)
    BY <1>2, <1>5, <2>1, Joined
  <2>3. NoStatus(h)
    BY <1>2 DEF NoStatus
  <2> QED
    BY <1>1, <2>1, <2>2, <2>3, Silence
    DEF AnswerInv, NoAnswer, MethodAnswer, RefusedAnswer, OtherAnswer, ResetAnswer
<1> QED
  BY <1>4, <1>5

\* Until the last frame of an answer, none ends the stream and nothing is completed.
LEMMA OnlyLastEnds ==
    ASSUME AnswerInv, answered # "reset", wire # <<>>
    PROVE  ~Succeeded /\ \A i \in 1..(Len(wire) - 1) : ~wire[i].end
<1>1. listener.completed = <<>> => ~Succeeded
  BY Success DEF Succeeded
<1>2. ASSUME NEW a, wire = <<a>> PROVE \A i \in 1..(Len(wire) - 1) : ~wire[i].end
  BY <1>2
<1>3. ASSUME NEW a, NEW b, wire = <<a, b>>, ~a.end PROVE \A i \in 1..(Len(wire) - 1) : ~wire[i].end
  BY <1>3
<1>4. ASSUME NEW a, NEW b, NEW c, wire = <<a, b, c>>, ~a.end, ~b.end
      PROVE  \A i \in 1..(Len(wire) - 1) : ~wire[i].end
  BY <1>4
<1>5. answered # "none"
  BY DEF AnswerInv, NoAnswer
<1>6. CASE answered = "method"
  <2>1. ~FirstHeaders.end /\ ~DataFrame(FALSE).end
    BY Kinds
  <2> QED
    BY <1>1, <1>2, <1>3, <1>4, <1>6, <2>1, Silence, Zenon DEF AnswerInv, MethodAnswer
<1>7. CASE answered = "refused"
  BY <1>1, <1>2, <1>7, Silence, Zenon DEF AnswerInv, RefusedAnswer
<1>8. CASE answered \in {"plain", "proxy"}
  <2>1. listener.completed = <<>>
    BY <1>8, Silence, Zenon DEF AnswerInv, OtherAnswer
  <2>2. \/ \E h : wire = <<WireFrame("headers", h, TRUE)>>
        \/ \E h : wire = <<WireFrame("headers", h, FALSE), DataFrame(TRUE)>>
        \/ wire = <<DataFrame(TRUE)>>
    BY <1>8, Zenon DEF AnswerInv, OtherAnswer
  <2>3. \A h : ~WireFrame("headers", h, FALSE).end
    BY Kinds
  <2> QED
    BY <1>1, <1>2, <1>3, <2>1, <2>2, <2>3, Zenon
<1> QED
  BY <1>5, <1>6, <1>7, <1>8 DEF AnswerInv

LEMMA PeerReset ==
    ASSUME AnswerInv, NEW n \in 0..Len(wire), NEW error \in ErrorCodes, PeerResets(n, error)
    PROVE  AnswerInv'
<1> DEFINE s == SubSeq(wire, 1, n)
           f == WireFrame("reset", Response(Missing, Blank, GetError(error)), TRUE)
<1>1. /\ wire' = Append(s, f) /\ answered' = "reset" /\ place' = "answered"
      /\ UNCHANGED <<said, attached, listener>> /\ answered # "reset"
      /\ n < Len(wire) \/ answered = "none"
  BY DEF PeerResets
<1>2. f \in WireFrames /\ f.kind = "reset"
  <2>1. GetError(error) \in Nat
    BY DEF GetError, Http2ErrorCode, INTERNAL_ERROR
  <2> QED
    <3>1. Response(Missing, Blank, GetError(error)) \in Responses
      BY <2>1, ResponseTypes DEF Texts
    <3>2. f \in WireFrames
      BY <3>1, FrameTypes, Zenon
    <3>3. f.kind = "reset"
      BY DEF WireFrame
    <3> QED
      BY <3>2, <3>3
<1>3. wire \in Seq(WireFrames)
  BY DEF AnswerInv
<1>4. /\ s \in Seq(WireFrames) /\ Len(s) = n
      /\ \A i \in 1..n : s[i] = wire[i]
  BY <1>3
<1>5. ~Succeeded /\ \A i \in 1..n : ~wire[i].end
  <2>1. CASE answered = "none"
    <3>1. wire = <<>> /\ listener.completed = <<>>
      BY <2>1, Silence DEF AnswerInv, NoAnswer
    <3> QED
      BY <3>1, Success DEF Succeeded
  <2>2. CASE n < Len(wire)
    BY <1>1, <1>3, <2>2, OnlyLastEnds
  <2> QED
    BY <1>1, <2>1, <2>2
<1> HIDE DEF s, f
<1>6. wire' \in Seq(WireFrames) /\ \A i \in DOMAIN wire' : wire'[i].end => wire'[i].kind = "reset"
  BY <1>1, <1>2, <1>4, <1>5
<1>7. ~Succeeded'
  BY <1>1, <1>5 DEF Succeeded
<1> QED
  BY <1>1, <1>6, <1>7 DEF AnswerInv, NoAnswer, MethodAnswer, RefusedAnswer, OtherAnswer, ResetAnswer

\* What does not touch the answer.
LEMMA AnswerKept ==
    ASSUME AnswerInv, UNCHANGED <<answered, said, attached, wire, listener>>,
           place' = "answered" <=> place = "answered"
    PROVE  AnswerInv'
  BY DEF AnswerInv, NoAnswer, MethodAnswer, RefusedAnswer, OtherAnswer, ResetAnswer, Succeeded,
         CompletedWith, LastFrame

LEMMA AnswerStart == ExchangeInit => AnswerInv
<1> SUFFICES ASSUME ExchangeInit PROVE AnswerInv
  OBVIOUS
<1>1. wire \in Seq(WireFrames) /\ listener \in Listeners
  BY Silence DEF ExchangeInit
<1> QED
  BY <1>1 DEF ExchangeInit, AnswerInv, NoAnswer, MethodAnswer, RefusedAnswer, OtherAnswer, ResetAnswer

LEMMA AnswerNext == AnswerInv /\ [ExchangeNext]_exchangeVars => AnswerInv'
<1> SUFFICES ASSUME AnswerInv, [ExchangeNext]_exchangeVars PROVE AnswerInv'
  OBVIOUS
<1>1. ASSUME NEW h, NEW mine, Send(h, mine) PROVE AnswerInv'
  BY <1>1, AnswerKept DEF Send
<1>2. CASE Client
  BY <1>1, <1>2, HeadersTaken, TrailersEnd, DataTaken, ResetTaken DEF Client, Invoke
<1>3. CASE Server
  BY <1>3, RequestAnswered, MethodAnswers DEF Server
<1>4. CASE Others
  BY <1>1, <1>4, ProxyAnswered, PeerReset DEF Others
<1>5. CASE UNCHANGED exchangeVars
  BY <1>5, AnswerKept DEF exchangeVars
<1> QED
  BY <1>2, <1>3, <1>4, <1>5 DEF ExchangeNext

THEOREM AnswerCorrect == ExchangeSpec => []AnswerInv
  BY AnswerStart, AnswerNext, PTL DEF ExchangeSpec

\* A call that the server answered, and that was not reset, is completed at the client, with
\* the status the server gave it, whatever the names, the codes and the proxy.
THEOREM StatusIsReported == ExchangeSpec => []StatusReported
<1>1. AnswerInv => StatusReported
  <2> SUFFICES ASSUME AnswerInv, wire = <<>>, answered \in {"method", "refused"}, attached # "text/plain"
               PROVE  listener.completed # <<>> /\ CompletedWith = said
    BY DEF StatusReported
  <2>1. \A a, b, c : <<a>> # <<>> /\ <<a, b>> # <<>> /\ <<a, b, c>> # <<>>
    BY Tuple1, Tuple2, Tuple3
  <2>2. CASE answered = "method"
    BY <2>1, <2>2, Zenon DEF AnswerInv, MethodAnswer
  <2>3. CASE answered = "refused"
    BY <2>1, <2>3, Zenon DEF AnswerInv, RefusedAnswer
  <2> QED
    BY <2>2, <2>3
<1> QED
  BY <1>1, AnswerCorrect, PTL

\* The client reports success only for a call whose method ended it with OK.
THEOREM SuccessIsServers == ExchangeSpec => []OkIsServers
<1>1. AnswerInv => OkIsServers
  <2> SUFFICES ASSUME AnswerInv, Succeeded PROVE said = OK /\ answered = "method"
    BY DEF OkIsServers, Succeeded
  <2>1. CASE answered \in {"none", "plain", "proxy", "reset", "refused"}
    <3>1. listener.completed # <<>>
      BY Success DEF Succeeded
    <3>2. listener # Silent
      BY <3>1, Silence
    <3> QED
      BY <2>1, <3>1, <3>2, Zenon
      DEF AnswerInv, NoAnswer, RefusedAnswer, OtherAnswer, ResetAnswer
  <2>2. CASE answered = "method"
    <3>1. listener.completed # <<>>
      BY Success DEF Succeeded
    <3>2. listener # Silent /\ listener # Started
      BY <3>1, Silence
    <3> QED
      BY <2>2, <3>2, Zenon DEF AnswerInv, MethodAnswer
  <2> QED
    BY <2>1, <2>2 DEF AnswerInv
<1> QED
  BY <1>1, AnswerCorrect, PTL

----------------------------------------------------------------------------
(* The headers of a request, and the verdict they were given *)

RequestInv ==
    /\ own => /\ request.method = "POST" /\ IsGrpc(request.content)
              /\ request.path # <<>> /\ request.path[1] = Blank
              /\ request.encoding \in Encodings \cup {Blank}
    /\ answered \in {"plain", "refused"} => Verdict(request).kind = answered

LEMMA OwnHeaders ==
    ASSUME NEW s \in Names, NEW m \in Names, NEW c \in Compressions, Invoke(s, m, c)
    PROVE  /\ request'.method = "POST" /\ IsGrpc(request'.content)
           /\ request'.path # <<>> /\ request'.path[1] = Blank
           /\ request'.encoding \in Encodings \cup {Blank}
<1> DEFINE encoding == IF c = Identity THEN Blank ELSE c
           path == <<Blank>> \o s \o m
<1>1. c \in Encodings /\ request' = Headers("POST", "application/grpc+data", path, encoding)
  BY DEF Invoke, Send, ToHeaders, CreateInvocation, Callable
<1>2. path # <<>> /\ path[1] = Blank
  <2> DEFINE S == STRING \cup {Blank}
  <2>1. s \in Seq(S) /\ m \in Seq(S)
    BY ExchangeAssumption
  <2>2. <<Blank>> \in Seq(S)
    OBVIOUS
  <2>3. <<Blank>> \o s \in Seq(S) /\ Len(<<Blank>> \o s) > 0 /\ (<<Blank>> \o s)[1] = Blank
    BY <2>1, <2>2
  <2>4. path \in Seq(S) /\ Len(path) > 0 /\ path[1] = Blank
    BY <2>1, <2>3, ConcatProperties
  <2> QED
    BY <2>4
<1> HIDE DEF path
<1>3. /\ request'.method = "POST" /\ request'.content = "application/grpc+data"
      /\ request'.path = path /\ request'.encoding = encoding
  BY <1>1 DEF Headers
<1> QED
  BY <1>1, <1>2, <1>3 DEF IsGrpc

LEMMA RequestNext ==
    AnswerInv /\ RequestInv /\ [ExchangeNext]_exchangeVars => RequestInv'
<1> SUFFICES ASSUME AnswerInv, RequestInv, [ExchangeNext]_exchangeVars PROVE RequestInv'
  OBVIOUS
<1>1. ASSUME NEW s \in Names, NEW m \in Names, NEW c \in Compressions, Invoke(s, m, c)
      PROVE  RequestInv'
  <2>1. answered' = "none"
    BY <1>1, Unanswered DEF Invoke, Send
  <2> QED
    BY <1>1, <2>1, OwnHeaders DEF RequestInv
<1>2. ASSUME NEW h \in Foreign, Send(h, FALSE) PROVE RequestInv'
  <2>1. answered' = "none" /\ own' = FALSE
    BY <1>2, Unanswered DEF Send
  <2> QED
    BY <2>1 DEF RequestInv
<1>3. ASSUME UNCHANGED <<request, own>>, UNCHANGED answered \/ answered' \notin {"plain", "refused"}
      PROVE  RequestInv'
  BY <1>3 DEF RequestInv, Verdict, Handled, BadPath
<1>4. CASE OnRequestHeaders
  <2>1. CASE Verdict(request) = Accepted
    BY <1>3, <1>4, <2>1 DEF OnRequestHeaders
  <2>2. CASE Verdict(request) # Accepted
    <3>1. UNCHANGED <<request, own>> /\ answered' = Verdict(request).kind
      BY <1>4, <2>2 DEF OnRequestHeaders, AnswerWith
    <3>2. Verdict(request)' = Verdict(request)
      BY <3>1 DEF Verdict, Handled, BadPath
    <3> QED
      BY <3>1, <3>2, Zenon DEF RequestInv
  <2> QED
    BY <2>1, <2>2
<1>5. CASE OnResponseHeaders \/ OnResponseTrailers \/ OnResponseData \/ OnReset
  <2>1. ASSUME NEW l, Takes(l) PROVE UNCHANGED <<request, own, answered>>
    BY <2>1 DEF Takes
  <2>2. UNCHANGED <<request, own, answered>>
    BY <1>5, <2>1, Zenon DEF OnResponseHeaders, OnResponseTrailers, OnResponseData, OnReset, Raises
  <2> QED
    BY <1>3, <2>2
<1>6. ASSUME NEW wrote \in BOOLEAN, NEW c \in Contents, NEW n \in RpcCodes, MethodEnds(wrote, c, n)
      PROVE  RequestInv'
  BY <1>3, <1>6 DEF MethodEnds, AnswerWith
<1>7. ASSUME NEW n \in HttpCodes, NEW c \in Contents, NEW page \in BOOLEAN, ProxyAnswers(n, c, page)
      PROVE  RequestInv'
  BY <1>3, <1>7 DEF ProxyAnswers, AnswerWith
<1>8. ASSUME NEW n \in 0..Len(wire), NEW error \in ErrorCodes, PeerResets(n, error)
      PROVE  RequestInv'
  BY <1>3, <1>8 DEF PeerResets
<1>9. CASE UNCHANGED exchangeVars
  BY <1>3, <1>9 DEF exchangeVars
<1> QED
  BY <1>1, <1>2, <1>4, <1>5, <1>6, <1>7, <1>8, <1>9 DEF ExchangeNext, Client, Server, Others

LEMMA OwnRequests == AnswerInv /\ RequestInv => OwnIsServed
<1> SUFFICES ASSUME AnswerInv, RequestInv, own, answered \in {"plain", "refused"}
             PROVE  /\ answered = "refused"
                    /\ Len(request.path) # 3 \/ ~Handled(request.path[2], request.path[3])
  BY DEF OwnIsServed
<1>1. Verdict(request) =
          IF BadPath(request) \/ ~Handled(request.path[2], request.path[3])
          THEN Error(UNIMPLEMENTED) ELSE Accepted
  BY DEF RequestInv, Verdict
<1>2. Error(UNIMPLEMENTED).kind = "refused" /\ Accepted.kind = "none"
  BY DEF Error, Accepted, Refusal
<1> QED
  BY <1>1, <1>2 DEF RequestInv, BadPath

\* The requests of this package's invoker are never answered with plain text, and refused
\* only when there is no such method, whatever was exported and whoever else calls.
THEOREM OwnRequestsAreServed == ExchangeSpec => []OwnIsServed
<1>1. ExchangeInit => RequestInv
  BY DEF ExchangeInit, RequestInv
<1> QED
  BY <1>1, AnswerCorrect, RequestNext, OwnRequests, PTL DEF ExchangeSpec
==============================================================================

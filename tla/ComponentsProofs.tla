-------------------------- MODULE ComponentsProofs --------------------------
(***************************************************************************)
(* What the components of Components promise, for all values of their      *)
(* constants: one section for each, with its own inductive invariant.      *)
(* InputProofs has the sections on forms, header values and patterns.      *)
(***************************************************************************)
EXTENDS Components, FiniteSetTheorems, SequenceTheorems, WellFoundedInduction, TLAPS

-----------------------------------------------------------------------------
(* Induction on numbers, for the sums and the texts below.                 *)

\* A set of numbers has a least element: what fails for some number has a first failure.
Below == {p \in Nat \X Nat : p[1] < p[2]}

LEMMA LeastElement ==
    ASSUME NEW T, T \subseteq Nat, T # {}
    PROVE  \E x \in T : \A y \in T : x <= y
<1>1. Below = OpToRel(<, Nat)
  BY Zenon DEF Below, OpToRel
<1>2. IsWellFoundedOn(Below, Nat)
  BY <1>1, NatLessThanWellFounded, Zenon
<1>3. PICK x \in T : \A y \in T : ~(<<y, x>> \in Below)
  BY <1>2, WFMin, Zenon
<1>4. ASSUME NEW y \in T PROVE x <= y
  <2>1. ~(<<y, x>> \in Below)
    BY <1>3
  <2>2. x \in Nat /\ y \in Nat
    OBVIOUS
  <2>3. ~(y < x)
    BY <2>1, <2>2 DEF Below
  <2> QED BY <2>2, <2>3
<1> QED BY <1>4

-----------------------------------------------------------------------------
(* UploadStream: for all bodies, declared lengths and ways of cutting a    *)
(* body into frames.                                                       *)

\* As long as nothing failed, what was forwarded is what was hashed and what
\* arrived; the digest has been compared before the state says so; and a failed
\* stream has not forwarded a whole body unless it was the right one.
Forwarding ==
    state # "Failed" => out = hasher /\ arrived = hasher
Accounting ==
    /\ Len(hasher) + remaining_length = length
    /\ state = "Reading" => ~taken /\ (remaining_length = 0 => length = 0)
Verified ==
    state \in {"AwaitingEof", "Finished"} => hasher = expected /\ remaining_length = 0
FailedShort ==
    state = "Failed" => Len(out) < length \/ length = 0 \/ out = expected

UploadInv == TypeOK /\ Forwarding /\ Accounting /\ Verified /\ FailedShort

\* A frame is a sequence of bytes.
LEMMA FrameSeq == \A f \in Frame : f \in Seq(Byte) /\ Len(f) \in Nat
  BY UploadStreamAssumption DEF Frame

\* Bytes that are hashed are no longer to come.
LEMMA Moved ==
  \A part, left, n \in Nat : n < left => (part + n) + (left - n) = part + left /\ left - n # 0
  OBVIOUS

\* A stream starts in the invariant.
LEMMA UploadInit == Init => UploadInv
<1> SUFFICES ASSUME Init PROVE UploadInv
  OBVIOUS
<1>1. TypeOK
  <2>1. taken \in BOOLEAN
    BY Zenon DEF Init
  <2> QED BY <2>1, UploadStreamAssumption DEF Init, TypeOK, State, Errors
<1>2. Accounting
  <2>1. ~taken
    BY Zenon DEF Init
  <2> QED BY <2>1, UploadStreamAssumption DEF Init, Accounting
<1> QED
  BY <1>1, <1>2 DEF Init, UploadInv, Forwarding, Verified, FailedShort

\* Every answer of the inner stream keeps the invariant.
LEMMA UploadNext == UploadInv /\ [Next]_vars => UploadInv'
<1> SUFFICES ASSUME UploadInv, [Next]_vars PROVE UploadInv'
  OBVIOUS
<1> USE UploadStreamAssumption DEF UploadInv, TypeOK, Forwarding, Accounting, Verified, FailedShort,
        State, Errors, args
<1>1. CASE FinalizeEmpty
  <2>1. taken' \in BOOLEAN /\ ~taken
    BY <1>1, Zenon DEF FinalizeEmpty
  <2> QED BY <1>1, <2>1 DEF FinalizeEmpty, HashOk, Error
<1>2. ASSUME NEW f \in Frame, ForwardFrame(f) PROVE UploadInv'
  <2>1. /\ f \in Seq(Byte)
        /\ Len(f) \in Nat
        /\ hasher \o f \in Seq(Byte)
        /\ Len(hasher \o f) = Len(hasher) + Len(f)
    BY FrameSeq
  <2>2. out = hasher /\ arrived = hasher /\ taken' = taken /\ state = "Reading" /\ state' = state
    BY <1>2 DEF ForwardFrame
  <2>3. TypeOK'
    BY <1>2, <2>1, <2>2 DEF ForwardFrame
  <2>4. Accounting'
    <3>1. ~taken'
      BY <2>2, Zenon
    <3>2. /\ length \in Nat /\ remaining_length \in Nat /\ Len(hasher) \in Nat
          /\ Len(hasher) + remaining_length = length
      OBVIOUS
    <3>3. /\ Len(hasher') = Len(hasher) + Len(f) /\ length' = length
          /\ remaining_length' = remaining_length - Len(f) /\ Len(f) < remaining_length
      BY <1>2, <2>1 DEF ForwardFrame
    <3>4. Len(hasher') + remaining_length' = length' /\ remaining_length' # 0
      BY <2>1, <3>2, <3>3, Moved
    <3> QED BY <3>1, <3>4, Zenon DEF Accounting
  <2> QED BY <1>2, <2>2, <2>3, <2>4 DEF ForwardFrame
<1>3. ASSUME NEW f \in Frame, ForwardLastFrame(f) PROVE UploadInv'
  <2>1. /\ f \in Seq(Byte)
        /\ Len(f) \in Nat
        /\ hasher \o f \in Seq(Byte)
        /\ Len(hasher \o f) = Len(hasher) + Len(f)
    BY FrameSeq
  <2>2. taken' \in BOOLEAN /\ ~taken
    BY <1>3, Zenon DEF ForwardLastFrame
  <2>3. CASE HashOk(hasher \o f)
    <3>1. /\ out = hasher /\ arrived = hasher
          /\ hasher \o f = expected
          /\ state' = "AwaitingEof"
      BY <1>3, <2>2, <2>3 DEF ForwardLastFrame, HashOk
    <3>2. TypeOK'
      BY <1>3, <2>1, <2>2, <2>3, <3>1 DEF ForwardLastFrame
    <3>3. Accounting'
      BY <1>3, <2>1, <2>3, <3>1 DEF ForwardLastFrame
    <3> QED BY <1>3, <2>3, <3>1, <3>2, <3>3 DEF ForwardLastFrame
  <2>4. CASE ~HashOk(hasher \o f)
    BY <1>3, <2>1, <2>2, <2>4 DEF ForwardLastFrame, Error
  <2> QED BY <2>3, <2>4
<1>4. ASSUME NEW f \in Frame, Overrun(f) PROVE UploadInv'
  <2>1. f \in Seq(Byte) /\ arrived \o f \in Seq(Byte)
    BY FrameSeq
  <2> QED BY <1>4, <2>1 DEF Overrun, Error
<1>5. ASSUME NEW f \in Frame, ExtraFrame(f) PROVE UploadInv'
  <2>1. f \in Seq(Byte) /\ arrived \o f \in Seq(Byte)
    BY FrameSeq
  <2> QED BY <1>5, <2>1 DEF ExtraFrame, Error
<1>6. CASE InnerError
  BY <1>6 DEF InnerError, Error
<1>7. CASE InnerEof
  BY <1>7 DEF InnerEof, Error
<1>8. CASE PollTerminal
  BY <1>8 DEF PollTerminal
<1>9. CASE UNCHANGED vars
  BY <1>9 DEF vars
<1> QED
  BY <1>1, <1>2, <1>3, <1>4, <1>5, <1>6, <1>7, <1>8, <1>9 DEF Next

\* The invariant holds as long as the stream is polled.
THEOREM UploadAlways == Spec => []UploadInv
  BY UploadInit, UploadNext, PTL DEF Spec

\* Nobody receives as many bytes as were declared unless they are the signed
\* body, however the body is cut into frames (poll_next).
THEOREM NoWholeBodyUnverifiedHolds == Spec => []NoWholeBodyUnverified
<1>1. UploadInv => NoWholeBodyUnverified
  BY UploadStreamAssumption
  DEF UploadInv, TypeOK, Forwarding, Accounting, Verified, FailedShort, State, NoWholeBodyUnverified
<1> QED BY <1>1, UploadAlways, PTL

\* A stream that ends without an error has received and forwarded the signed
\* body and nothing else.
THEOREM FinishedIsExactHolds == Spec => []FinishedIsExact
<1>1. UploadInv => FinishedIsExact
  BY DEF UploadInv, TypeOK, Forwarding, Verified, State, FinishedIsExact
<1> QED BY <1>1, UploadAlways, PTL

\* The outcome of a stream is final: a failed or finished stream forwards
\* nothing more and does not change its mind.
THEOREM TerminalIsFinalHolds == Spec => TerminalIsFinal
<1>1. [Next]_vars => [(state = "Finished" \/ state = "Failed") => (state' = state /\ out' = out)]_vars
  BY DEF Next, vars, FinalizeEmpty, ForwardFrame, ForwardLastFrame, Overrun, ExtraFrame,
         InnerError, InnerEof, PollTerminal
<1> QED BY <1>1, PTL DEF Spec, TerminalIsFinal

-----------------------------------------------------------------------------
(* Http3Server: for any number of connections and requests and any         *)
(* responses.  ResponsesReachClient is not inductive: the server also      *)
(* closes connections in the handshake, at the end of their tasks and when *)
(* all are drained.  What it rests on is where a task can be when its      *)
(* connection is closed, and which requests a connection can then have.    *)

ServingTypes ==
    /\ main \in {"accept", "drain", "returned"}
    /\ task \in [Connection -> Http3!Tasks]
    /\ quic \in [Connection -> {"open", "broken", "peer", "server"}]
    /\ req \in [Request -> Http3!Running \cup Http3!Settled \cup {"finished"}]
    /\ sent \in [Request -> Nat]
    /\ DOMAIN response = Request

\* Before its task accepts, a connection has no requests.
NoEarlyRequests ==
    \A r \in Request : task[Owner[r]] \in {"none", "handshake"} => req[r] = "unsent"

\* A connection without a task is closed, and only such a one has been closed by the server.
ClosedWithTask ==
    \A c \in Connection : /\ task[c] = "gone" => quic[c] # "open"
                          /\ quic[c] = "server" => task[c] = "gone"

\* Requests that are being sent have a response to send.
HasResponse ==
    \A r \in Request : req[r] = "send" =>
        response[r] \in [frames : Nat, fails : BOOLEAN, trailers : BOOLEAN]

ServingInv == ServingTypes /\ NoEarlyRequests /\ ClosedWithTask /\ HasResponse
        /\ Http3!ResponsesReachClient /\ Http3!CompleteIsWhole

-----------------------------------------------------------------------------
\* The server starts without connections and requests.
LEMMA ServingInit == ASSUME Http3!ConstantsOK, Http3!Init PROVE ServingInv
BY DEF Http3!ConstantsOK, Http3!Init, ServingInv, ServingTypes, NoEarlyRequests, ClosedWithTask, HasResponse,
       Http3!ResponsesReachClient, Http3!CompleteIsWhole, Http3!Tasks, Http3!Running, Http3!Settled

\* Ending tasks whose connections are closed already, or have no requests, keeps IInv (the
\* drop of handle_connection's state).
LEMMA ServingEnd ==
    ASSUME Http3!ConstantsOK, ServingInv, NEW cs \in SUBSET Connection, Http3!End(cs),
           main' \in {"accept", "drain", "returned"},
           UNCHANGED <<response, sent>>,
           timed_out => timed_out',
           timed_out' \/ \A c \in cs : quic[c] # "open" \/ task[c] \in {"none", "handshake"}
    PROVE  ServingInv'
<1> USE DEF ServingInv
<1>1. ServingTypes'
  BY DEF ServingTypes, Http3!End, Http3!Tasks, Http3!Running, Http3!Settled
<1>2. NoEarlyRequests'
  BY DEF Http3!ConstantsOK, ServingTypes, NoEarlyRequests, Http3!End, Http3!Running
<1>3. ClosedWithTask'
  BY DEF ServingTypes, ClosedWithTask, Http3!End
<1>4. HasResponse'
  BY DEF ServingTypes, HasResponse, Http3!End, Http3!Running
<1>5. Http3!ResponsesReachClient'
  BY DEF Http3!ConstantsOK, ServingTypes, NoEarlyRequests, ClosedWithTask, Http3!ResponsesReachClient, Http3!End, Http3!Running, Http3!Settled
<1>6. Http3!CompleteIsWhole'
  BY DEF ServingTypes, Http3!CompleteIsWhole, Http3!End, Http3!Running
<1>7. QED
  BY <1>1, <1>2, <1>3, <1>4, <1>5, <1>6

\* What clients do keeps IInv.
LEMMA ServingClient == ASSUME Http3!ConstantsOK, ServingInv, Http3!Client PROVE ServingInv'
<1> USE DEF ServingInv, Http3!ConstantsOK, ServingTypes, Http3!Tasks, Http3!Running, Http3!Settled, NoEarlyRequests, ClosedWithTask, HasResponse,
            Http3!ResponsesReachClient, Http3!CompleteIsWhole, Http3!server, Http3!conns, Http3!reqs, Http3!Unclosed
<1>1. ASSUME NEW c \in Connection, Http3!Connect(c) PROVE ServingInv'
  BY <1>1 DEF Http3!Connect
<1>2. ASSUME NEW c \in Connection, Http3!PeerCloses(c) PROVE ServingInv'
  BY <1>2 DEF Http3!PeerCloses
<1>3. ASSUME NEW r \in Request, Http3!Send(r) PROVE ServingInv'
  BY <1>3 DEF Http3!Send
<1>4. ASSUME NEW r \in Request, Http3!Reads(r) PROVE ServingInv'
  BY <1>4 DEF Http3!Reads
<1>5. ASSUME NEW c \in Connection, Http3!PeerErrs(c) PROVE ServingInv'
  BY <1>5 DEF Http3!PeerErrs
<1>6. QED
  BY <1>1, <1>2, <1>3, <1>4, <1>5 DEF Http3!Client

\* What the task of a connection does keeps IInv (handle_incoming, handle_connection).
LEMMA ServingConnection ==
    ASSUME Http3!ConstantsOK, ServingInv, NEW c \in Connection, Http3!ConnectionTask(c) PROVE ServingInv'
<1> USE DEF Http3!server, Http3!conns, Http3!reqs, Http3!Unclosed
<1>1. ASSUME Http3!End({c}), UNCHANGED Http3!server, UNCHANGED <<response, sent>>,
             quic[c] # "open" \/ task[c] \in {"none", "handshake"}
      PROVE  ServingInv'
  BY <1>1, ServingEnd DEF ServingInv, ServingTypes
<1>2. CASE Http3!Handshake(c) /\ ~Http3!End({c})
  BY <1>2 DEF Http3!Handshake, ServingInv, Http3!ConstantsOK, ServingTypes, Http3!Tasks, NoEarlyRequests, ClosedWithTask,
              HasResponse, Http3!ResponsesReachClient, Http3!CompleteIsWhole
<1>3. CASE Http3!AcceptNone(c) /\ ~Http3!End({c})
  BY <1>3 DEF Http3!AcceptNone, ServingInv, Http3!ConstantsOK, ServingTypes, Http3!Tasks, NoEarlyRequests, ClosedWithTask,
              HasResponse, Http3!ResponsesReachClient, Http3!CompleteIsWhole
<1>4. CASE Http3!AcceptDrained(c)
  BY <1>4 DEF Http3!AcceptDrained, ServingInv, Http3!ConstantsOK, ServingTypes, Http3!Tasks, NoEarlyRequests, ClosedWithTask,
              HasResponse, Http3!ResponsesReachClient, Http3!CompleteIsWhole
<1>5. CASE Http3!Cancelled(c) /\ ~Http3!End({c})
  BY <1>5 DEF Http3!Cancelled, ServingInv, Http3!ConstantsOK, ServingTypes, NoEarlyRequests, ClosedWithTask,
              HasResponse, Http3!ResponsesReachClient, Http3!CompleteIsWhole
<1>6. CASE Http3!Joined(c)
  BY <1>6 DEF Http3!Joined, ServingInv, Http3!ConstantsOK, ServingTypes, Http3!Tasks, NoEarlyRequests, ClosedWithTask,
              HasResponse, Http3!ResponsesReachClient, Http3!CompleteIsWhole
<1>7. CASE Http3!End({c}) /\ (Http3!Handshake(c) \/ Http3!AcceptNone(c) \/ Http3!Closed(c))
  BY <1>1, <1>7 DEF Http3!Handshake, Http3!AcceptNone, Http3!Closed
<1>8. CASE Http3!End({c}) /\ Http3!Cancelled(c)
  <2>1. CASE quic[c] \in Http3!Unclosed
    BY <1>8, <2>1 DEF Http3!Cancelled, ServingInv, Http3!ConstantsOK, ServingTypes, NoEarlyRequests, ClosedWithTask,
                      HasResponse, Http3!ResponsesReachClient, Http3!CompleteIsWhole
  <2>2. CASE quic[c] \notin Http3!Unclosed
    BY <1>1, <1>8, <2>2 DEF Http3!Cancelled
  <2>3. QED
    BY <2>1, <2>2
<1>9. ASSUME NEW r \in Http3!Of(c), Http3!Accept(r) PROVE ServingInv'
  BY <1>9 DEF Http3!Of, Http3!Accept, ServingInv, Http3!ConstantsOK, ServingTypes, Http3!Running, Http3!Settled, NoEarlyRequests,
              ClosedWithTask, HasResponse, Http3!ResponsesReachClient, Http3!CompleteIsWhole
<1>10. QED
  BY <1>2, <1>3, <1>4, <1>5, <1>6, <1>7, <1>8, <1>9 DEF Http3!ConnectionTask, Http3!Closed

\* What the task of a request does keeps IInv (handle_request, send_response).
LEMMA ServingRequest ==
    ASSUME Http3!ConstantsOK, ServingInv, NEW r \in Request, Http3!RequestTask(r) PROVE ServingInv'
<1> USE DEF ServingInv, Http3!ConstantsOK, ServingTypes, Http3!Running, Http3!Settled, NoEarlyRequests, ClosedWithTask,
            HasResponse, Http3!ResponsesReachClient, Http3!CompleteIsWhole, Http3!server, Http3!conns, Http3!To
<1>1. CASE Http3!Resolve(r)
  BY <1>1 DEF Http3!Resolve
<1>2. CASE Http3!Serve(r)
  <2>1. CASE Http3!To(r, "panicked") /\ UNCHANGED response
    BY <1>2, <2>1 DEF Http3!Serve
  <2>2. ASSUME NEW x \in Responses, response' = [response EXCEPT ![r] = x],
               Http3!To(r, IF x = None THEN "reset" ELSE "send")
        PROVE  ServingInv'
    BY <1>2, <2>2 DEF Http3!Serve
  <2>3. QED
    BY <1>2, <2>1, <2>2 DEF Http3!Serve
<1>3. CASE Http3!SendResponse(r)
  <2>1. CASE quic[Owner[r]] # "open" /\ Http3!To(r, "reset") /\ UNCHANGED sent
    BY <1>3, <2>1 DEF Http3!SendResponse
  <2>2. CASE sent' = [sent EXCEPT ![r] = @ + 1] /\ UNCHANGED req
    BY <1>3, <2>2 DEF Http3!SendResponse
  <2>3. CASE /\ sent[r] = response[r].frames
             /\ Http3!To(r, IF response[r].fails THEN "reset" ELSE "finished")
             /\ sent' = IF response[r].trailers /\ ~response[r].fails
                        THEN [sent EXCEPT ![r] = @ + 1] ELSE sent
    BY <1>3, <2>3 DEF Http3!SendResponse
  <2>4. QED
    BY <1>3, <2>1, <2>2, <2>3 DEF Http3!SendResponse
<1>4. QED
  BY <1>1, <1>2, <1>3 DEF Http3!RequestTask

\* The accept loop, the drain and its timeout keep IInv (serve).
LEMMA ServingServing == ASSUME Http3!ConstantsOK, ServingInv, Http3!Serving PROVE ServingInv'
<1>1. CASE Http3!Cancel
  BY <1>1 DEF Http3!Cancel, ServingInv, ServingTypes, NoEarlyRequests, ClosedWithTask, HasResponse,
              Http3!ResponsesReachClient, Http3!CompleteIsWhole, Http3!conns, Http3!reqs
<1>2. CASE Http3!Drained
  <2>1. \A c \in Connection : quic[c] # "open" \/ task[c] \in {"none", "handshake"}
    BY <1>2 DEF Http3!Drained, ServingInv, ClosedWithTask
  <2>2. QED
    BY <1>2, <2>1, ServingEnd DEF Http3!Drained, Http3!Return
<1>3. CASE Http3!Timeout
  BY <1>3, ServingEnd DEF Http3!Timeout, Http3!Return
<1>4. QED
  BY <1>1, <1>2, <1>3 DEF Http3!Serving

\* Every step keeps IInv.
LEMMA ServingNext == ASSUME Http3!ConstantsOK, ServingInv, [Http3!Next]_(Http3!vars) PROVE ServingInv'
<1>1. CASE Http3!Client
  BY <1>1, ServingClient
<1>2. CASE Http3!Serving
  BY <1>2, ServingServing
<1>3. ASSUME NEW c \in Connection, Http3!ConnectionTask(c) PROVE ServingInv'
  BY <1>3, ServingConnection
<1>4. ASSUME NEW r \in Request, Http3!RequestTask(r) PROVE ServingInv'
  BY <1>4, ServingRequest
<1>5. CASE Http3!Shutdown \/ Http3!Returned \/ UNCHANGED Http3!vars
  BY <1>5 DEF Http3!Shutdown, Http3!Returned, Http3!vars, Http3!server, Http3!conns, Http3!reqs, ServingInv, ServingTypes, NoEarlyRequests,
              ClosedWithTask, HasResponse, Http3!ResponsesReachClient, Http3!CompleteIsWhole
<1>6. CASE Http3!EndpointClosed
  <2>1. /\ main' = "drain" /\ UNCHANGED <<task, req, response, sent, timed_out>>
        /\ quic' = [c \in Connection |-> IF quic[c] \in Http3!Unclosed /\ task[c] # "none" THEN "peer" ELSE quic[c]]
    BY <1>6 DEF Http3!EndpointClosed, Http3!reqs
  <2>2. \A c \in Connection : quic'[c] = quic[c] \/ quic'[c] = "peer"
    BY <2>1
  <2>3. ServingTypes'
    BY <2>1 DEF ServingInv, ServingTypes
  <2>4. NoEarlyRequests' /\ HasResponse' /\ Http3!CompleteIsWhole'
    BY <2>1 DEF ServingInv, NoEarlyRequests, HasResponse, Http3!CompleteIsWhole
  <2>5. ClosedWithTask' /\ Http3!ResponsesReachClient'
    BY <2>1, <2>2 DEF ServingInv, ClosedWithTask, Http3!ConstantsOK, Http3!ResponsesReachClient
  <2> QED BY <2>3, <2>4, <2>5 DEF ServingInv
<1>7. QED
  BY <1>1, <1>2, <1>3, <1>4, <1>5, <1>6 DEF Http3!Next

-----------------------------------------------------------------------------
\* The server never takes a queued response from a client that stays and keeps to the protocol,
\* unless the endpoint was closed or the shutdown timed out, and a response that ends as complete
\* has all its frames and trailers and comes from a body that did not fail (serve,
\* handle_connection, send_response).
THEOREM ResponsesArriveHolds == Http3!Spec => []ResponsesArrive
<1>1. Http3!Init => ServingInv
  BY ServingInit, ComponentsAssumption
<1>2. ServingInv /\ [Http3!Next]_(Http3!vars) => ServingInv'
  BY ServingNext, ComponentsAssumption
<1>3. ServingInv => ResponsesArrive
  BY DEF ServingInv, ResponsesArrive, Http3!ResponsesArrive
<1>4. QED
  BY <1>1, <1>2, <1>3, PTL DEF Http3!Spec

-----------------------------------------------------------------------------
(* KeepAliveBody: for every order in which the future completes, the       *)
(* interval ticks and the connection polls, and for any number of ticks.   *)

Items == {"decl", "space", "document", "trailers", "error", "end"}

\* What has been yielded is the declaration, k - 1 spaces, and what the state says of the rest.
Shape(k) ==
    /\ Len(yielded) >= k /\ yielded[1] = "decl"
    /\ \A i \in 2..k : yielded[i] = "space"
    /\ ~done => IF document = "none" THEN Len(yielded) = k ELSE Len(yielded) = k + 1
    /\ document = "read" => Len(yielded) >= k + 1 /\ yielded[k + 1] = "document"
    /\ done /\ document = "read" =>
         /\ Len(yielded) >= k + 2 /\ yielded[k + 2] = IF allow_trailers THEN "trailers" ELSE "end"
         /\ \A i \in k + 3..Len(yielded) : yielded[i] = "end"
    /\ document = "empty" =>
         /\ done /\ Len(yielded) >= k + 1 /\ yielded[k + 1] = IF allow_trailers THEN "trailers" ELSE "end"
         /\ \A i \in k + 2..Len(yielded) : yielded[i] = "end"
    /\ done /\ document = "none" =>
         /\ Len(yielded) >= k + 1 /\ yielded[k + 1] = "error"
         /\ \A i \in k + 2..Len(yielded) : yielded[i] = "end"

DocumentInv ==
    /\ yielded \in Seq(Items)
    /\ done \in BOOLEAN /\ initial_body \in BOOLEAN /\ allow_trailers \in BOOLEAN
    /\ document \in {"none", "read", "empty"}
    /\ initial_body => yielded = <<>> /\ ~done /\ document = "none"
    /\ ~initial_body => \E k \in Nat \ {0} : Shape(k)
    /\ ~done /\ document = "none" => inner # "taken"

\* A body starts with nothing yielded.
LEMMA DocumentInit == KeepAlive!Init => DocumentInv
<1> SUFFICES ASSUME KeepAlive!Init PROVE DocumentInv
  OBVIOUS
<1>1. done \in BOOLEAN /\ initial_body \in BOOLEAN /\ initial_body /\ ~done
  BY Zenon DEF KeepAlive!Init
<1>2. <<>> \in Seq(Items)
  OBVIOUS
<1> QED BY <1>1, <1>2 DEF KeepAlive!Init, DocumentInv

\* One more item behind what was yielded.
LEMMA Appended ==
    ASSUME NEW s \in Seq(Items), NEW x \in Items
    PROVE  /\ Append(s, x) \in Seq(Items) /\ Len(Append(s, x)) = Len(s) + 1 /\ Len(s) \in Nat
           /\ \A i \in 1..Len(s) : Append(s, x)[i] = s[i]
           /\ Append(s, x)[Len(s) + 1] = x
  OBVIOUS

\* Every poll keeps the shape.
LEMMA DocumentNext == DocumentInv /\ [KeepAlive!Next]_(KeepAlive!vars) => DocumentInv'
<1> SUFFICES ASSUME DocumentInv, [KeepAlive!Next]_(KeepAlive!vars) PROVE DocumentInv'
  OBVIOUS
<1> USE DEF DocumentInv
<1>1. CASE UNCHANGED <<yielded, KeepAlive!body>> /\ (inner' = inner \/ inner' \in KeepAlive!Results)
  BY <1>1 DEF KeepAlive!body, Shape, KeepAlive!Results
<1>2. ASSUME ~initial_body, NEW x \in Items, yielded' = Append(yielded, x), initial_body' = initial_body,
             NEW k \in Nat \ {0}, Shape(k)
      PROVE  /\ yielded' \in Seq(Items) /\ Len(yielded') = Len(yielded) + 1 /\ Len(yielded) \in Nat
             /\ \A i \in 1..Len(yielded) : yielded'[i] = yielded[i]
             /\ yielded'[Len(yielded) + 1] = x
             /\ yielded'[1] = "decl" /\ \A i \in 2..k : yielded'[i] = "space"
             /\ yielded'[k] = yielded[k]
  <2>1. /\ yielded' \in Seq(Items) /\ Len(yielded') = Len(yielded) + 1 /\ Len(yielded) \in Nat
        /\ \A i \in 1..Len(yielded) : yielded'[i] = yielded[i]
        /\ yielded'[Len(yielded) + 1] = x
    BY <1>2, Appended
  <2> QED BY <1>2, <2>1 DEF Shape
<1>3. CASE KeepAlive!PollDone
  <2>1. /\ yielded' = Append(yielded, "end") /\ "end" \in Items /\ done /\ done' = done /\ inner' = inner
        /\ UNCHANGED <<initial_body, document, allow_trailers>>
    BY <1>3 DEF KeepAlive!PollDone, KeepAlive!Yields, Items
  <2>2. ~initial_body
    BY <2>1
  <2>3. PICK k \in Nat \ {0} : Shape(k)
    BY <2>2
  <2>4. /\ yielded' \in Seq(Items) /\ Len(yielded') = Len(yielded) + 1 /\ Len(yielded) \in Nat
        /\ \A i \in 1..Len(yielded) : yielded'[i] = yielded[i]
        /\ yielded'[Len(yielded) + 1] = "end"
        /\ yielded'[1] = "decl" /\ \A i \in 2..k : yielded'[i] = "space"
    BY <1>2, <2>1, <2>2, <2>3
  <2>5. Shape(k)'
    <3>1. CASE document = "read"
      <4>1. /\ Len(yielded) >= k + 2 /\ yielded[k + 1] = "document"
            /\ yielded[k + 2] = IF allow_trailers THEN "trailers" ELSE "end"
            /\ \A i \in k + 3..Len(yielded) : yielded[i] = "end"
        BY <2>1, <2>3, <3>1 DEF Shape
      <4>2. /\ Len(yielded') >= k + 2 /\ yielded'[k + 1] = "document"
            /\ yielded'[k + 2] = yielded[k + 2]
            /\ \A i \in k + 3..Len(yielded') : yielded'[i] = "end"
        BY <2>4, <4>1
      <4>3. document' = "read" /\ done' /\ yielded'[k + 2] = IF allow_trailers' THEN "trailers" ELSE "end"
        BY <2>1, <3>1, <4>1, <4>2
      <4> HIDE DEF DocumentInv
      <4> QED BY <2>4, <4>2, <4>3 DEF Shape
    <3>2. CASE document = "none"
      BY <2>1, <2>3, <2>4, <3>2 DEF Shape
    <3>3. CASE document = "empty"
      <4>1. /\ Len(yielded) >= k + 1 /\ yielded[k + 1] = IF allow_trailers THEN "trailers" ELSE "end"
            /\ \A i \in k + 2..Len(yielded) : yielded[i] = "end"
        BY <2>3, <3>3 DEF Shape
      <4>2. /\ Len(yielded') >= k + 1 /\ yielded'[k + 1] = yielded[k + 1]
            /\ \A i \in k + 2..Len(yielded') : yielded'[i] = "end"
        BY <2>4, <4>1
      <4>3. document' = "empty" /\ done' /\ yielded'[k + 1] = IF allow_trailers' THEN "trailers" ELSE "end"
        BY <2>1, <3>3, <4>1, <4>2
      <4> HIDE DEF DocumentInv
      <4> QED BY <2>4, <4>2, <4>3 DEF Shape
    <3> QED BY <3>1, <3>2, <3>3
  <2> QED BY <2>1, <2>2, <2>4, <2>5
<1>4. CASE KeepAlive!PollInitial
  <2>1. /\ yielded' = Append(yielded, "decl") /\ yielded = <<>> /\ ~done /\ done' = done /\ inner' = inner
        /\ initial_body' = FALSE /\ UNCHANGED <<document, allow_trailers>> /\ document = "none"
    BY <1>4 DEF KeepAlive!PollInitial, KeepAlive!Yields
  <2>2. yielded' \in Seq(Items) /\ Len(yielded') = 1 /\ yielded'[1] = "decl"
    BY <2>1 DEF Items
  <2>3. Shape(1)'
    BY <2>1, <2>2 DEF Shape
  <2>4. initial_body' \in BOOLEAN /\ ~initial_body' /\ done' \in BOOLEAN /\ ~done'
        /\ allow_trailers' \in BOOLEAN
    BY <2>1, Zenon
  <2> QED BY <2>1, <2>2, <2>3, <2>4
<1>5. CASE KeepAlive!PollLoop
  <2>1. ~done /\ ~initial_body
    BY <1>5 DEF KeepAlive!PollLoop
  <2>2. PICK k \in Nat \ {0} : Shape(k)
    BY <2>1
  <2>3. CASE document # "none" /\ KeepAlive!PollTrailers
    <3> DEFINE x == IF allow_trailers THEN "trailers" ELSE "end"
    <3>1. /\ yielded' = Append(yielded, x) /\ x \in Items /\ done' /\ done' \in BOOLEAN /\ document = "read"
          /\ UNCHANGED <<initial_body, document, allow_trailers, inner>>
      BY <2>1, <2>2, <2>3 DEF KeepAlive!PollTrailers, KeepAlive!Yields, Items, Shape
    <3> HIDE DEF x
    <3>2. /\ yielded' \in Seq(Items) /\ Len(yielded') = Len(yielded) + 1 /\ Len(yielded) \in Nat
          /\ \A i \in 1..Len(yielded) : yielded'[i] = yielded[i]
          /\ yielded'[Len(yielded) + 1] = x
          /\ yielded'[1] = "decl" /\ \A i \in 2..k : yielded'[i] = "space"
      BY <1>2, <2>1, <2>2, <3>1
    <3>3. Len(yielded) = k + 1 /\ yielded[k + 1] = "document"
      BY <2>1, <2>2, <3>1 DEF Shape
    <3>4. Shape(k)'
      BY <2>1, <2>2, <3>1, <3>2, <3>3 DEF Shape, x
    <3> QED BY <2>1, <3>1, <3>2, <3>4
  <2>4. CASE document = "none" /\ inner \in {"completed", "s3_error"} /\ KeepAlive!PollDocument
    <3>1. /\ yielded' = Append(yielded, "document") /\ "document" \in Items /\ document' = "read"
          /\ UNCHANGED <<initial_body, done, allow_trailers>>
      BY <2>4 DEF KeepAlive!PollDocument, KeepAlive!Yields, Items
    <3>2. /\ yielded' \in Seq(Items) /\ Len(yielded') = Len(yielded) + 1 /\ Len(yielded) \in Nat
          /\ \A i \in 1..Len(yielded) : yielded'[i] = yielded[i]
          /\ yielded'[Len(yielded) + 1] = "document"
          /\ yielded'[1] = "decl" /\ \A i \in 2..k : yielded'[i] = "space"
      BY <1>2, <2>1, <2>2, <3>1
    <3>3. Len(yielded) = k
      BY <2>1, <2>2, <2>4 DEF Shape
    <3>4. Shape(k)'
      BY <2>1, <2>2, <3>1, <3>2, <3>3 DEF Shape
    <3> QED BY <2>1, <3>1, <3>2, <3>4
  <2>5. CASE document = "none" /\ inner = "failed" /\ KeepAlive!PollFailure
    <3>1. /\ yielded' = Append(yielded, "error") /\ "error" \in Items /\ done' /\ done' \in BOOLEAN
          /\ UNCHANGED <<initial_body, document, allow_trailers>>
      BY <2>5 DEF KeepAlive!PollFailure, KeepAlive!Yields, Items
    <3>2. /\ yielded' \in Seq(Items) /\ Len(yielded') = Len(yielded) + 1 /\ Len(yielded) \in Nat
          /\ \A i \in 1..Len(yielded) : yielded'[i] = yielded[i]
          /\ yielded'[Len(yielded) + 1] = "error"
          /\ yielded'[1] = "decl" /\ \A i \in 2..k : yielded'[i] = "space"
      BY <1>2, <2>1, <2>2, <3>1
    <3>3. Len(yielded) = k
      BY <2>1, <2>2, <2>5 DEF Shape
    <3>4. Shape(k)'
      BY <2>1, <2>2, <2>5, <3>1, <3>2, <3>3 DEF Shape
    <3> QED BY <2>1, <3>1, <3>2, <3>4
  <2>7. CASE document = "none" /\ inner = "bodyless" /\ KeepAlive!PollBodyless
    <3> DEFINE x == IF allow_trailers THEN "trailers" ELSE "end"
    <3>1. /\ yielded' = Append(yielded, x) /\ x \in Items /\ done' /\ done' \in BOOLEAN /\ document' = "empty"
          /\ UNCHANGED <<initial_body, allow_trailers>>
      BY <2>7 DEF KeepAlive!PollBodyless, KeepAlive!Yields, Items
    <3> HIDE DEF x
    <3>2. /\ yielded' \in Seq(Items) /\ Len(yielded') = Len(yielded) + 1 /\ Len(yielded) \in Nat
          /\ \A i \in 1..Len(yielded) : yielded'[i] = yielded[i]
          /\ yielded'[Len(yielded) + 1] = x
          /\ yielded'[1] = "decl" /\ \A i \in 2..k : yielded'[i] = "space"
      BY <1>2, <2>1, <2>2, <3>1
    <3>3. Len(yielded) = k
      BY <2>1, <2>2, <2>7 DEF Shape
    <3>4. Shape(k)'
      BY <2>1, <2>2, <3>1, <3>2, <3>3 DEF Shape, x
    <3> QED BY <2>1, <3>1, <3>2, <3>4
  <2>6. CASE document = "none" /\ inner = "pending" /\ KeepAlive!PollPending
    <3>1. CASE interval
      <4>1. /\ yielded' = Append(yielded, "space") /\ "space" \in Items
            /\ UNCHANGED <<initial_body, document, done, allow_trailers, inner>>
        BY <2>6, <3>1 DEF KeepAlive!PollPending, KeepAlive!Yields, Items
      <4>2. /\ yielded' \in Seq(Items) /\ Len(yielded') = Len(yielded) + 1 /\ Len(yielded) \in Nat
            /\ \A i \in 1..Len(yielded) : yielded'[i] = yielded[i]
            /\ yielded'[Len(yielded) + 1] = "space"
            /\ yielded'[1] = "decl" /\ \A i \in 2..k : yielded'[i] = "space"
        BY <1>2, <2>1, <2>2, <4>1
      <4>3. Len(yielded) = k
        BY <2>1, <2>2, <2>6 DEF Shape
      <4>4. Shape(k + 1)'
        BY <2>1, <2>2, <2>6, <4>1, <4>2, <4>3 DEF Shape
      <4> QED BY <2>1, <4>1, <4>2, <4>4
    <3>2. CASE ~interval
      BY <1>1, <2>6, <3>2 DEF KeepAlive!PollPending, KeepAlive!body
    <3> QED BY <3>1, <3>2
  <2> QED BY <1>5, <2>3, <2>4, <2>5, <2>6, <2>7 DEF KeepAlive!PollLoop
<1>6. CASE KeepAlive!InnerCompletes \/ KeepAlive!Tick \/ KeepAlive!Asleep \/ UNCHANGED KeepAlive!vars
  BY <1>1, <1>6 DEF KeepAlive!InnerCompletes, KeepAlive!Tick, KeepAlive!Asleep, KeepAlive!vars, KeepAlive!body
<1> QED BY <1>3, <1>4, <1>5, <1>6 DEF KeepAlive!Next, KeepAlive!Poll

\* How often an item is in what was yielded, from where it can be.
LEMMA Counts ==
    ASSUME NEW item, NEW n \in Nat, yielded \in Seq(Items)
    PROVE  /\ (\A i \in DOMAIN yielded : yielded[i] # item) => KeepAlive!Count(item) = 0
           /\ (\A i \in DOMAIN yielded : yielded[i] = item <=> i = n) /\ n \in DOMAIN yielded => KeepAlive!Count(item) = 1
           /\ (\E i \in DOMAIN yielded : yielded[i] = item) => KeepAlive!Count(item) # 0 
<1> DEFINE spots == {i \in DOMAIN yielded : yielded[i] = item}
<1>1. KeepAlive!Count(item) = Cardinality(spots)
  <2>1. KeepAlive!Cardinality(spots) = Cardinality(spots)
    BY DEF KeepAlive!Cardinality, Cardinality
  <2> QED BY <2>1 DEF KeepAlive!Count
<1>2. IsFiniteSet(spots)
  <2>1. spots \subseteq 1..Len(yielded)
    OBVIOUS
  <2>2. IsFiniteSet(1..Len(yielded))
    BY FS_Interval
  <2> QED BY <2>1, <2>2, FS_Subset
<1>3. Cardinality(spots) = 0 <=> spots = {}
  BY <1>2, FS_EmptySet
<1>4. spots = {n} => Cardinality(spots) = 1
  BY FS_Singleton
<1> QED BY <1>1, <1>3, <1>4

\* Where the items of a body of that shape are.
Item(i, k) ==
    /\ yielded[i] = "decl" <=> i = 1
    /\ yielded[i] = "space" => i <= k
    /\ yielded[i] = "document" <=> i = k + 1 /\ document = "read"
    /\ yielded[i] = "trailers" <=>
         /\ done /\ allow_trailers
         /\ (document = "read" /\ i = k + 2) \/ (document = "empty" /\ i = k + 1)
    /\ yielded[i] = "error" <=> i = k + 1 /\ document = "none" /\ done
    /\ yielded[i] = "end" => done
LEMMA Places ==
    ASSUME yielded \in Seq(Items), NEW k \in Nat \ {0}, Shape(k), document \in {"none", "read", "empty"}, NEW i \in DOMAIN yielded
    PROVE  Item(i, k)
<1>0. i \in 1..Len(yielded) /\ Len(yielded) \in Nat
  OBVIOUS
<1>1. CASE i = 1
  BY <1>1 DEF Shape, Item
<1>2. CASE i \in 2..k
  <2>1. yielded[i] = "space"
    BY <1>2 DEF Shape
  <2> QED BY <1>2, <2>1 DEF Item
<1>3. CASE i = k + 1
  <2>1. CASE document = "read"
    BY <1>3, <2>1 DEF Shape, Item
  <2>2. CASE document = "none" /\ done
    BY <1>3, <2>2 DEF Shape, Item
  <2>3. CASE document = "none" /\ ~done
    BY <1>0, <1>3, <2>3 DEF Shape
  <2>4. CASE document = "empty"
    BY <1>3, <2>4 DEF Shape, Item
  <2> QED BY <2>1, <2>2, <2>3, <2>4
<1>4. CASE i = k + 2
  <2>1. CASE document = "read" /\ done
    BY <1>4, <2>1 DEF Shape, Item
  <2>2. CASE document = "none" /\ done
    BY <1>0, <1>4, <2>2 DEF Shape, Item
  <2>3. CASE ~done
    BY <1>0, <1>4, <2>3 DEF Shape
  <2>4. CASE document = "empty"
    BY <1>0, <1>4, <2>4 DEF Shape, Item
  <2> QED BY <2>1, <2>2, <2>3, <2>4
<1>5. CASE i >= k + 3
  <2>1. CASE done
    <3>1. yielded[i] = "end"
      BY <1>0, <1>5, <2>1 DEF Shape
    <3> QED BY <1>5, <2>1, <3>1 DEF Item
  <2>2. CASE ~done
    BY <1>0, <1>5, <2>2 DEF Shape
  <2> QED BY <2>1, <2>2
<1> QED BY <1>0, <1>1, <1>2, <1>3, <1>4, <1>5

\* The client gets one document with the result of the completion, or an error, and only spaces before it,
\* however the future and the interval interleave (poll_frame); it gets neither only if the completion failed
\* with a bodyless status (serialize_error).
THEOREM OneDocumentHolds == KeepAlive!Spec => []OneDocument
<1>1. DocumentInv => OneDocument
  <2> SUFFICES ASSUME DocumentInv PROVE OneDocument
    OBVIOUS
  <2>0. /\ yielded \in Seq(Items) /\ document \in {"none", "read", "empty"}
        /\ initial_body => yielded = <<>> /\ ~done /\ document = "none"
        /\ ~initial_body => \E k \in Nat \ {0} : Shape(k)
        /\ ~done /\ document = "none" => inner # "taken"
    BY DEF DocumentInv
  <2>1. CASE initial_body
    <3>1. \A item : KeepAlive!Count(item) = 0
      BY <2>0, <2>1, Counts, 0 \in Nat
    <3> QED BY <2>0, <2>1, <3>1 DEF OneDocument, KeepAlive!OneDocument, KeepAlive!WellFormed, KeepAlive!CleanEndHasResult, KeepAlive!CompletedNotPolled
  <2>2. CASE ~initial_body
    <3>1. PICK k \in Nat \ {0} : Shape(k)
      BY <2>0, <2>2
    <3>2. DOMAIN yielded = 1..Len(yielded) /\ Len(yielded) \in Nat /\ k + 1 \in Nat /\ k + 2 \in Nat
          /\ yielded \in Seq(Items) /\ document \in {"none", "read", "empty"}
      BY <2>0
    <3>3. \A i \in DOMAIN yielded : Item(i, k)
      BY <3>1, <3>2, Places
    <3>4. /\ KeepAlive!Count("document") = IF document = "read" THEN 1 ELSE 0
          /\ KeepAlive!Count("trailers") = IF document # "none" /\ done /\ allow_trailers THEN 1 ELSE 0
      <4>1. ASSUME document = "read" PROVE k + 1 \in DOMAIN yielded
        <5>1. Len(yielded) >= k + 1
          BY <3>1, <4>1 DEF Shape
        <5> QED BY <3>2, <5>1
      <4>2. document = "read" /\ done => k + 2 \in DOMAIN yielded
        BY <3>1, <3>2 DEF Shape
      <4>3. document = "read" => KeepAlive!Count("document") = 1
        BY <3>2, <3>3, <4>1, Counts DEF Item
      <4>4. document # "read" => KeepAlive!Count("document") = 0
        BY <3>2, <3>3, Counts DEF Item
      <4>5. document = "read" /\ done /\ allow_trailers => KeepAlive!Count("trailers") = 1
        BY <3>2, <3>3, <4>2, Counts DEF Item
      <4>6. ~(document # "none" /\ done /\ allow_trailers) => KeepAlive!Count("trailers") = 0
        BY <3>2, <3>3, Counts DEF Item
      <4>7. document = "empty" /\ allow_trailers => done /\ KeepAlive!Count("trailers") = 1
        <5>1. document = "empty" => done /\ k + 1 \in DOMAIN yielded
          BY <3>1, <3>2 DEF Shape
        <5> QED BY <3>2, <3>3, <5>1, Counts DEF Item
      <4> QED BY <3>2, <4>3, <4>4, <4>5, <4>6, <4>7
    <3>5. KeepAlive!WellFormed
      <4>1. \A i \in DOMAIN yielded : yielded[i] = "space" => \A j \in 2..i : yielded[j] = "space"
        <5>1. \A j \in 2..k : yielded[j] = "space"
          BY <3>1 DEF Shape
        <5> QED BY <3>2, <3>3, <5>1 DEF Item
      <4> QED BY <3>3, <3>4, <4>1 DEF KeepAlive!WellFormed, Item
    <3>6. KeepAlive!CleanEndHasResult
      <4>1. KeepAlive!Count("end") # 0 => done
        BY <3>2, <3>3, Counts DEF Item
      <4>2. done /\ document = "none" => KeepAlive!Count("error") # 0
        BY <3>1, <3>2, <3>3, Counts DEF Shape, Item
      <4>3. CASE KeepAlive!Count("end") > 0 /\ KeepAlive!Count("error") = 0
        <5>1. done /\ document # "none"
          BY <3>2, <4>1, <4>2, <4>3
        <5> QED BY <3>2, <3>4, <5>1 DEF KeepAlive!CleanEndHasResult
      <4> QED BY <4>3 DEF KeepAlive!CleanEndHasResult
    <3> QED BY <2>0, <3>5, <3>6 DEF OneDocument, KeepAlive!OneDocument, KeepAlive!CompletedNotPolled
  <2> QED BY <2>1, <2>2
<1> QED BY <1>1, DocumentInit, DocumentNext, PTL DEF KeepAlive!Spec

-----------------------------------------------------------------------------
(* FsRange: for every length of the object and of the copy that overwrites *)
(* it, every range, and pieces of any size.                                *)

Bytes == [at : Nat, version : {0, 1}]

\* The half-open range that is answered for a file of length n.
Answered(n) == IF range = None THEN <<0, n>> ELSE FsRead!check(range, n)

ReplyTypes ==
    /\ file \in Seq({0, 1})
    /\ copy_len \in CopyLengths \cup {None}
    /\ range \in Ranges
    /\ pc \in {"open", "seek", "stream"} \cup FsRead!Final
    /\ file_len \in Nat /\ pos \in Nat /\ remaining \in Nat /\ content_length \in Nat
    /\ body \in Seq(Bytes)

\* Before a range is accepted nothing is promised; then what is sent and what remains is what
\* was promised.
Promised ==
    /\ pc \in {"open", "InvalidRange"} => content_length = 0
    /\ pc = "InvalidRange" => Answered(file_len) = None
    /\ pc \notin {"open", "InvalidRange"} =>
         /\ Answered(file_len) # None
         /\ content_length = Answered(file_len)[2] - Answered(file_len)[1]
         /\ content_range # None /\ file_len > 0 =>
              content_range = <<Answered(file_len)[1], Answered(file_len)[2] - 1>>
    /\ Len(body) + remaining = content_length
    /\ pc = "seek" => body = <<>>

\* The bytes that are sent are in one piece, and the handle is behind them as long as some remain.
OnePiece ==
    body # <<>> =>
        /\ \A i \in DOMAIN body : body[i].at = body[1].at + i - 1
        /\ remaining > 0 => pos = body[1].at + Len(body)

\* Without a copy the file is the one that was opened and the piece is the range.
Undisturbed ==
    copy_len = None =>
        /\ pc # "open" => Len(file) = file_len
        /\ pc \in {"stream", "done"} =>
             /\ \A i \in DOMAIN body : body[i].at = Answered(file_len)[1] + i - 1
             /\ remaining > 0 => pos = Answered(file_len)[1] + Len(body)
        /\ pc = "done" => remaining = 0

ReplyInv == ReplyTypes /\ Promised /\ OnePiece /\ Undisturbed

\* Range::check answers the positions that are wanted.
LEMMA AnsweredIsWanted ==
    ASSUME FsRead!RangesOK, range \in Ranges, NEW n \in Nat
    PROVE  /\ Answered(n) = None => FsRead!Wanted(n) = {}
           /\ Answered(n) # None =>
                /\ Answered(n)[1] \in Nat /\ Answered(n)[2] \in Nat
                /\ Answered(n)[1] <= Answered(n)[2] /\ Answered(n)[2] <= n
                /\ FsRead!Wanted(n) = Answered(n)[1]..Answered(n)[2] - 1
                /\ Answered(n)[2] = 0 => n = 0
<1>0. \A a, b \in Nat : <<a, b>> # None
  BY DEF FsRead!RangesOK
<1>1. CASE range = None
  <2>1. Answered(n) = <<0, n>> /\ Answered(n) # None
    BY <1>0, <1>1 DEF Answered
  <2>2. FsRead!Wanted(n) = 0..n - 1
    BY <1>1 DEF FsRead!Wanted
  <2> QED BY <2>1, <2>2
<1>2. CASE range # None /\ range.kind = "int"
  <2>1. /\ range.first \in Nat /\ range.last \in Nat \cup {None} /\ None \notin Nat
        /\ range.last # None => range.first <= range.last
    BY <1>2 DEF FsRead!RangesOK
  <2>2. FsRead!Wanted(n) = {p \in 0..n - 1 : range.first <= p /\ (range.last = None \/ p <= range.last)}
    BY <1>2 DEF FsRead!Wanted
  <2>3. Answered(n) = IF range.first >= n THEN None
           ELSE <<range.first, IF range.last = None THEN n ELSE FsRead!MinOf(range.last, n - 1) + 1>>
    BY <1>2 DEF Answered, FsRead!check
  <2>4. CASE range.first >= n
    BY <2>1, <2>2, <2>3, <2>4
  <2>5. CASE range.first < n /\ range.last = None
    <3>1. Answered(n) = <<range.first, n>> /\ Answered(n) # None
      BY <1>0, <2>1, <2>3, <2>5
    <3>2. FsRead!Wanted(n) = range.first..n - 1
      BY <2>1, <2>2, <2>5
    <3> QED BY <2>1, <2>5, <3>1, <3>2
  <2>6. CASE range.first < n /\ range.last # None
    <3> DEFINE e == FsRead!MinOf(range.last, n - 1) + 1
    <3>1. e \in Nat /\ range.first < e /\ e <= n /\ \A p \in 0..n - 1 : p <= range.last <=> p < e
      BY <2>1, <2>6 DEF FsRead!MinOf
    <3>2. Answered(n) = <<range.first, e>>
      BY <2>1, <2>3, <2>6
    <3>3. Answered(n) # None
      BY <1>0, <2>1, <3>1, <3>2
    <3> HIDE DEF e
    <3>4. FsRead!Wanted(n) = range.first..e - 1
      BY <2>1, <2>2, <2>6, <3>1
    <3> QED BY <2>1, <3>1, <3>2, <3>3, <3>4
  <2> QED BY <2>1, <2>4, <2>5, <2>6
<1>3. CASE range # None /\ range.kind = "suffix"
  <2>1. range.length \in Nat
    BY <1>3 DEF FsRead!RangesOK
  <2>2. FsRead!Wanted(n) = {p \in 0..n - 1 : p >= n - range.length}
    BY <1>3 DEF FsRead!Wanted
  <2>3. Answered(n) = IF range.length = 0 THEN None ELSE <<n - FsRead!MinOf(range.length, n), n>>
    BY <1>3 DEF Answered, FsRead!check
  <2>4. CASE range.length = 0
    BY <2>2, <2>3, <2>4
  <2>5. CASE range.length # 0
    <3> DEFINE b == n - FsRead!MinOf(range.length, n)
    <3>1. b \in Nat /\ b <= n /\ \A p \in 0..n - 1 : p >= n - range.length <=> p >= b
      BY <2>1, <2>5 DEF FsRead!MinOf
    <3>2. Answered(n) = <<b, n>>
      BY <2>3, <2>5
    <3> HIDE DEF b
    <3>3. Answered(n) # None
      BY <1>0, <3>1, <3>2
    <3>4. FsRead!Wanted(n) = b..n - 1
      BY <2>2, <3>1
    <3> QED BY <3>1, <3>2, <3>3, <3>4
  <2> QED BY <2>4, <2>5
<1> QED BY <1>1, <1>2, <1>3 DEF FsRead!RangesOK

\* Nothing has been opened.
LEMMA ReplyInit == ASSUME FsRead!RangesOK, FsRead!Init PROVE ReplyInv
<1>1. ReplyTypes
  BY DEF FsRead!Init, ReplyTypes, FsRead!RangesOK
<1> QED BY <1>1 DEF FsRead!Init, ReplyInv, Promised, OnePiece, Undisturbed

\* A copy that starts or goes on.
LEMMA ReplyCopy == ASSUME FsRead!RangesOK, ReplyInv, FsRead!Truncate \/ FsRead!Rewrite PROVE ReplyInv'
<1> USE DEF ReplyInv
<1>1. copy_len' # None
  BY DEF FsRead!Truncate, FsRead!Rewrite, ReplyTypes, FsRead!RangesOK
<1>2. UNCHANGED <<range, pc, file_len, content_length, content_range, pos, remaining, body>>
  BY DEF FsRead!Truncate, FsRead!Rewrite, FsRead!reply
<1>3. file' \in Seq({0, 1}) /\ copy_len' \in CopyLengths \cup {None}
  <2>1. CASE FsRead!Truncate
    BY <2>1 DEF FsRead!Truncate
  <2>2. CASE FsRead!Rewrite
    <3>1. file \in Seq({0, 1}) /\ 1 \in {0, 1} /\ copy_len \in CopyLengths \cup {None}
      BY DEF ReplyTypes
    <3> QED BY <2>2, <3>1, AppendProperties DEF FsRead!Rewrite
  <2> QED BY <2>1, <2>2
<1>4. ReplyTypes' /\ Undisturbed'
  BY <1>1, <1>2, <1>3 DEF ReplyTypes, Undisturbed
<1>5. Promised' /\ OnePiece'
  BY <1>2 DEF Promised, OnePiece, Answered, ReplyTypes
<1> QED BY <1>4, <1>5

\* The file is opened and the range checked.
LEMMA ReplyOpen == ASSUME FsRead!RangesOK, ReplyInv, FsRead!Open PROVE ReplyInv'
<1> DEFINE n == Len(file)
           r == Answered(n)
<1>0. /\ pc = "open" /\ n \in Nat /\ file_len' = n /\ content_length = 0 /\ range \in Ranges
      /\ UNCHANGED <<file, copy_len, range, pos, body>>
  BY DEF ReplyInv, ReplyTypes, FsRead!Open, FsRead!copying, Promised
<1>1. Len(body) = 0 /\ body = <<>> /\ remaining = 0 /\ body' = <<>>
  BY <1>0 DEF ReplyInv, ReplyTypes, Promised
<1>2. Answered(n)' = Answered(n) /\ Answered(file_len)' = r
  BY <1>0 DEF Answered
<1>3. CASE r = None
  <2>1. pc' = "InvalidRange" /\ UNCHANGED <<content_length, content_range, remaining>>
    BY <1>3 DEF FsRead!Open, Answered
  <2> QED BY <1>0, <1>1, <1>2, <1>3, <2>1 DEF ReplyInv, ReplyTypes, Promised, OnePiece, Undisturbed, FsRead!Final
<1>4. CASE r # None
  <2>1. /\ r[1] \in Nat /\ r[2] \in Nat /\ r[1] <= r[2] /\ r[2] <= n /\ (r[2] = 0 => n = 0)
    BY <1>0, <1>4, AnsweredIsWanted
  <2>2. /\ content_length' = r[2] - r[1] /\ remaining' = r[2] - r[1] /\ pc' \in {"seek", "panic"}
        /\ \/ range = None /\ content_range' = None
           \/ range # None /\ r[2] > 0 /\ content_range' = <<r[1], r[2] - 1>>
           \/ range # None /\ r[2] = 0
    BY <1>4 DEF FsRead!Open, Answered
  <2> HIDE DEF r, n
  <2>3. ReplyTypes'
    BY <1>0, <2>1, <2>2 DEF ReplyInv, ReplyTypes, FsRead!Final
  <2>4. Promised'
    BY <1>0, <1>1, <1>2, <1>4, <2>1, <2>2 DEF Promised
  <2> QED BY <1>0, <1>1, <2>2, <2>3, <2>4 DEF ReplyInv, OnePiece, Undisturbed, n
<1> QED BY <1>3, <1>4

\* The handle is set to the first position.
LEMMA ReplySeek == ASSUME FsRead!RangesOK, ReplyInv, FsRead!Seek PROVE ReplyInv'
<1>1. /\ pc = "seek" /\ pc' \in {"stream", "panic", "InternalError"} /\ body = <<>>
      /\ UNCHANGED <<file, copy_len, range, file_len, content_length, content_range, remaining, body>>
  BY DEF FsRead!Seek, FsRead!copying, FsRead!reply, ReplyInv, Promised
<1>2. Answered(file_len)' = Answered(file_len) /\ Answered(file_len) # None
  BY <1>1 DEF Answered, ReplyInv, Promised
<1>3. /\ range \in Ranges /\ Len(file) \in Nat /\ file_len \in Nat
      /\ copy_len = None => Len(file) = file_len
  BY <1>1 DEF ReplyInv, ReplyTypes, Undisturbed
<1>4. pos' \in Nat /\ (pc' = "stream" /\ copy_len = None => pos' = Answered(file_len)[1])
  <2>1. CASE range = None
    BY <2>1 DEF FsRead!Seek, Answered
  <2>2. CASE range # None /\ range.kind = "int"
    <3>1. range.first \in Nat /\ pos' = range.first
      BY <1>3, <2>2 DEF FsRead!Seek, FsRead!RangesOK
    <3>2. Answered(file_len)[1] = range.first
      BY <1>2, <2>2 DEF Answered, FsRead!check
    <3> QED BY <3>1, <3>2
  <2>3. CASE range # None /\ range.kind = "suffix"
    <3>1. /\ range.length \in Nat /\ pos' = FsRead!MaxOf(0, Len(file) - range.length)
          /\ pc' = "stream" => range.length <= Len(file)
      BY <1>3, <2>3 DEF FsRead!Seek, FsRead!RangesOK
    <3>2. Answered(file_len)[1] = file_len - FsRead!MinOf(range.length, file_len)
      BY <1>2, <2>3 DEF Answered, FsRead!check
    <3> QED BY <1>3, <3>1, <3>2 DEF FsRead!MaxOf, FsRead!MinOf
  <2> QED BY <1>3, <2>1, <2>2, <2>3 DEF FsRead!RangesOK
<1>5. ReplyTypes'
  BY <1>1, <1>4 DEF ReplyInv, ReplyTypes, FsRead!Final
<1>6. Promised'
  BY <1>1, <1>2 DEF ReplyInv, Promised
<1>7. Undisturbed'
  BY <1>1, <1>2, <1>3, <1>4 DEF ReplyInv, ReplyTypes, Undisturbed
<1> QED BY <1>1, <1>5, <1>6, <1>7 DEF ReplyInv, OnePiece

\* A piece is read and cut to what remains.
LEMMA Cut ==
    ASSUME NEW b \in Nat, NEW r \in Nat, NEW m \in Nat
    PROVE  (b + m) + (r - m) = b + r
  OBVIOUS

\* A byte of the body has a position.
LEMMA HasPosition ==
    ASSUME NEW s \in Seq(Bytes), s # <<>>
    PROVE  1 \in DOMAIN s /\ s[1].at \in Nat
<1>1. Len(s) \in Nat /\ Len(s) # 0 /\ DOMAIN s = 1..Len(s)
  OBVIOUS
<1>2. 1 \in DOMAIN s /\ s[1] \in Bytes
  BY <1>1
<1> QED BY <1>2 DEF Bytes

LEMMA ReplyRead == ASSUME FsRead!RangesOK, ReplyInv, FsRead!Read PROVE ReplyInv'
<1>0. /\ pc = "stream" /\ pos < Len(file)
      /\ UNCHANGED <<file, copy_len, range, pc, file_len, content_length, content_range>>
  BY DEF FsRead!Read, FsRead!copying, FsRead!reply
<1>1. /\ file \in Seq({0, 1}) /\ Len(file) \in Nat /\ pos \in Nat /\ remaining \in Nat
      /\ body \in Seq(Bytes) /\ Len(body) \in Nat /\ content_length \in Nat
      /\ Len(body) + remaining = content_length
  BY DEF ReplyInv, ReplyTypes, Promised
<1>2. PICK n \in 1..FsRead!MinOf(Capacity, Len(file) - pos) :
        LET m == FsRead!MinOf(n, remaining) IN
        /\ body' = body \o [i \in 1..m |-> [at |-> pos + i - 1, version |-> file[pos + i]]]
        /\ remaining' = remaining - m
        /\ pos' = pos + n
  BY DEF FsRead!Read
<1> DEFINE m == FsRead!MinOf(n, remaining)
           new == [i \in 1..m |-> [at |-> pos + i - 1, version |-> file[pos + i]]]
<1>3. /\ n \in Nat /\ n >= 1 /\ pos + n <= Len(file)
      /\ m \in Nat /\ m <= n /\ m <= remaining /\ (m < n => m = remaining)
  BY <1>0, <1>1, <1>2 DEF FsRead!MinOf, FsRead!RangesOK
<1> HIDE DEF m
<1>4. new \in Seq(Bytes) /\ Len(new) = m
  <2>1. \A i \in 1..m : pos + i - 1 \in Nat /\ file[pos + i] \in {0, 1}
    BY <1>1, <1>3
  <2>2. \A i \in 1..m : new[i] \in Bytes
    BY <2>1 DEF Bytes
  <2> QED BY <1>3, <2>2
<1>5. /\ body' \in Seq(Bytes) /\ Len(body') = Len(body) + m
      /\ \A i \in 1..Len(body) : body'[i] = body[i]
      /\ \A i \in Len(body) + 1..Len(body) + m : body'[i].at = pos + (i - Len(body)) - 1
  <2>1. body' = body \o new
    BY <1>2 DEF m
  <2>2. /\ body \o new \in Seq(Bytes) /\ Len(body \o new) = Len(body) + m
        /\ \A i \in 1..Len(body) : (body \o new)[i] = body[i]
        /\ \A i \in Len(body) + 1..Len(body) + m : (body \o new)[i] = new[i - Len(body)]
    <3> HIDE DEF new
    <3>1. /\ body \o new \in Seq(Bytes) /\ Len(body \o new) = Len(body) + Len(new)
          /\ \A i \in 1..Len(body) + Len(new) :
               (body \o new)[i] = IF i <= Len(body) THEN body[i] ELSE new[i - Len(body)]
      BY <1>1, <1>4, ConcatProperties
    <3> QED BY <1>1, <1>3, <1>4, <3>1
  <2>3. \A i \in 1..m : new[i].at = pos + i - 1
    OBVIOUS
  <2>4. \A i \in Len(body) + 1..Len(body) + m : i - Len(body) \in 1..m
    BY <1>1, <1>3
  <2> HIDE DEF new
  <2>5. \A i \in Len(body) + 1..Len(body) + m : (body \o new)[i].at = pos + (i - Len(body)) - 1
    BY <2>2, <2>3, <2>4
  <2> QED BY <2>1, <2>2, <2>5
<1> HIDE DEF new
<1>6. remaining' = remaining - m /\ pos' = pos + n /\ remaining' \in Nat /\ pos' \in Nat
  BY <1>1, <1>2, <1>3 DEF m
<1>7. ReplyTypes'
  BY <1>0, <1>5, <1>6 DEF ReplyInv, ReplyTypes
<1>8. Answered(file_len)' = Answered(file_len)
  BY <1>0 DEF Answered
<1>9. Promised'
  <2>1. Len(body') + remaining' = content_length
    <3>1. /\ Len(body') = Len(body) + m /\ remaining' = remaining - m /\ m \in Nat
          /\ Len(body) \in Nat /\ remaining \in Nat
      BY <1>1, <1>3, <1>5, <1>6
    <3>2. (Len(body) + m) + (remaining - m) = Len(body) + remaining
      BY <3>1, Cut
    <3> QED BY <1>1, <3>1, <3>2
  <2> QED BY <1>0, <1>8, <2>1 DEF ReplyInv, Promised
<1>10. DOMAIN body = 1..Len(body) /\ DOMAIN body' = 1..Len(body) + m
  BY <1>1, <1>5
<1>11. OnePiece'
  <2>1. CASE body = <<>>
    <3>1. Len(body) = 0
      BY <2>1
    <3>2. \A i \in DOMAIN body' : body'[i].at = pos + i - 1
      BY <1>1, <1>3, <1>5, <1>10, <3>1
    <3>3. remaining' > 0 => m = n
      BY <1>1, <1>3, <1>6
    <3>4. body' # <<>> => 1 \in DOMAIN body'
      BY <1>5
    <3> QED BY <1>1, <1>3, <1>5, <1>6, <3>1, <3>2, <3>3, <3>4 DEF OnePiece
  <2>2. CASE body # <<>>
    <3>1. /\ \A i \in DOMAIN body : body[i].at = body[1].at + i - 1
          /\ remaining > 0 => pos = body[1].at + Len(body)
      BY <2>2 DEF ReplyInv, OnePiece
    <3>2. 1 \in DOMAIN body /\ body[1].at \in Nat /\ body'[1] = body[1]
      BY <1>1, <1>5, <1>10, <2>2, HasPosition
    <3>3. CASE m = 0
      <4>1. remaining' = 0
        BY <1>1, <1>3, <1>6, <3>3
      <4> QED BY <1>1, <1>3, <1>5, <1>10, <3>1, <3>2, <3>3, <4>1 DEF OnePiece
    <3>4. CASE m > 0
      <4>1. pos = body[1].at + Len(body)
        BY <1>1, <1>3, <3>1, <3>4
      <4>2. \A i \in 1..Len(body) + m : body'[i].at = body[1].at + i - 1
        <5> SUFFICES ASSUME NEW i \in 1..Len(body) + m PROVE body'[i].at = body[1].at + i - 1
          OBVIOUS
        <5>1. CASE i \in 1..Len(body)
          BY <1>5, <1>10, <3>1, <5>1
        <5>2. CASE i \in Len(body) + 1..Len(body) + m
          <6>1. body'[i].at = pos + (i - Len(body)) - 1 /\ i \in Nat
            BY <1>5, <5>2
          <6> DEFINE b == body[1].at
                     l == Len(body)
          <6>2. b \in Nat /\ l \in Nat
            BY <1>1, <3>2
          <6>3. \A x, y, z \in Nat : (x + y) + (z - y) - 1 = x + z - 1
            OBVIOUS
          <6> HIDE DEF b, l
          <6>4. (b + l) + (i - l) - 1 = b + i - 1
            BY <6>1, <6>2, <6>3
          <6> QED BY <4>1, <6>1, <6>4 DEF b, l
        <5> QED BY <1>1, <1>3, <5>1, <5>2
      <4>3. remaining' > 0 => m = n
        BY <1>1, <1>3, <1>6
      <4>4. remaining' > 0 => pos' = body'[1].at + Len(body')
        BY <1>1, <1>3, <1>5, <1>6, <3>2, <4>1, <4>3
      <4> QED BY <1>10, <3>2, <4>2, <4>4 DEF OnePiece
    <3> QED BY <1>3, <3>3, <3>4
  <2> QED BY <2>1, <2>2
<1>12. Undisturbed'
  <2> SUFFICES ASSUME copy_len = None PROVE Undisturbed'
    BY <1>0 DEF Undisturbed
  <2> DEFINE a == Answered(file_len)[1]
  <2>1. /\ Len(file) = file_len
        /\ \A i \in DOMAIN body : body[i].at = a + i - 1
        /\ remaining > 0 => pos = a + Len(body)
    BY <1>0 DEF ReplyInv, Undisturbed
  <2>2. a \in Nat
    BY <1>0, AnsweredIsWanted DEF ReplyInv, ReplyTypes, Promised
  <2>3. \A i \in 1..Len(body) + m : body'[i].at = a + i - 1
    <3> HIDE DEF a
    <3>1. CASE m = 0
      BY <1>1, <1>3, <1>5, <1>10, <2>1, <3>1
    <3>2. CASE m > 0
      <4>1. pos = a + Len(body)
        BY <1>1, <1>3, <2>1, <3>2
      <4> SUFFICES ASSUME NEW i \in 1..Len(body) + m PROVE body'[i].at = a + i - 1
        OBVIOUS
      <4>2. CASE i \in 1..Len(body)
        BY <1>5, <1>10, <2>1, <4>2
      <4>3. CASE i \in Len(body) + 1..Len(body) + m
        <5>1. body'[i].at = pos + (i - Len(body)) - 1 /\ i \in Nat
          BY <1>5, <4>3
        <5> QED BY <1>1, <2>2, <4>1, <5>1
      <4> QED BY <1>1, <1>3, <4>2, <4>3
    <3> QED BY <1>3, <3>1, <3>2
  <2>4. remaining' > 0 => pos' = a + Len(body')
    <3> HIDE DEF a
    <3>1. remaining' > 0 => m = n /\ remaining > 0
      BY <1>1, <1>3, <1>6
    <3> QED BY <1>1, <1>3, <1>5, <1>6, <2>1, <2>2, <3>1
  <2> QED BY <1>0, <1>8, <1>10, <2>1, <2>3, <2>4 DEF Undisturbed
<1> QED BY <1>7, <1>9, <1>11, <1>12 DEF ReplyInv

\* The file ends: without a copy, not before the range does.
LEMMA ReplyEnd == ASSUME FsRead!RangesOK, ReplyInv, FsRead!End PROVE ReplyInv'
<1>0. /\ pc = "stream" /\ pos >= Len(file) /\ pc' = "done"
      /\ UNCHANGED <<file, copy_len, range, file_len, content_length, content_range, pos, remaining, body>>
  BY DEF FsRead!End, FsRead!copying, FsRead!reply
<1>1. Answered(file_len)' = Answered(file_len)
  BY <1>0 DEF Answered
<1>2. ReplyTypes' /\ Promised' /\ OnePiece'
  BY <1>0, <1>1 DEF ReplyInv, ReplyTypes, Promised, OnePiece, FsRead!Final
<1>3. copy_len = None => remaining = 0
  <2> SUFFICES ASSUME copy_len = None, remaining # 0 PROVE FALSE
    OBVIOUS
  <2> DEFINE a == Answered(file_len)[1]
             z == Answered(file_len)[2]
  <2>1. a \in Nat /\ z \in Nat /\ z <= file_len /\ content_length = z - a
    BY <1>0, AnsweredIsWanted DEF ReplyInv, ReplyTypes, Promised
  <2>2. Len(file) = file_len /\ (remaining > 0 => pos = a + Len(body))
    BY <1>0 DEF ReplyInv, Undisturbed
  <2>3. /\ Len(body) \in Nat /\ remaining \in Nat /\ Len(body) + remaining = content_length
        /\ file_len \in Nat
    BY DEF ReplyInv, ReplyTypes, Promised
  <2> HIDE DEF a, z
  <2> QED BY <1>0, <2>1, <2>2, <2>3
<1>4. Undisturbed'
  BY <1>0, <1>1, <1>3 DEF ReplyInv, Undisturbed
<1> QED BY <1>2, <1>4 DEF ReplyInv

LEMMA ReplyNext == ASSUME FsRead!RangesOK, ReplyInv, [FsRead!Next]_(FsRead!vars) PROVE ReplyInv'
<1>1. CASE UNCHANGED FsRead!vars
  <2>1. UNCHANGED <<file, copy_len, range, pc, file_len, content_length, content_range, pos, remaining, body>>
    BY <1>1 DEF FsRead!vars, FsRead!copying, FsRead!reply
  <2> QED BY <2>1 DEF ReplyInv, ReplyTypes, Promised, OnePiece, Undisturbed, Answered
<1> QED BY <1>1, ReplyCopy, ReplyOpen, ReplySeek, ReplyRead, ReplyEnd DEF FsRead!Next, FsRead!GetObject, FsRead!Over

\* Only suffixes fail behind the check; without a copy, those that are longer than the file.
IsSuffix == range # None /\ range.kind = "suffix"
Refused ==
    /\ pc \in {"InternalError", "panic"} => IsSuffix
    /\ IsSuffix /\ copy_len = None =>
        /\ pc = "InternalError" => range.length > file_len
        /\ pc = "panic" => file_len = 0 \/ range.length > I64Max
        /\ pc \in {"stream", "done"} => range.length <= file_len

\* Every step refuses only those.
LEMMA RefusedNext ==
    ASSUME FsRead!RangesOK, ReplyInv, Refused, [FsRead!Next]_(FsRead!vars)
    PROVE  Refused'
<1>1. CASE FsRead!Truncate \/ FsRead!Rewrite
  <2>1. copy_len' # None /\ UNCHANGED <<range, pc>>
    BY <1>1 DEF FsRead!Truncate, FsRead!Rewrite, ReplyInv, ReplyTypes, FsRead!RangesOK
  <2> QED BY <2>1 DEF Refused, IsSuffix
<1>2. CASE FsRead!Open
  <2>1. /\ file_len' = Len(file) /\ Len(file) \in Nat /\ range \in Ranges /\ UNCHANGED <<range, copy_len>>
        /\ pc' \in {"InvalidRange", "seek", "panic"}
        /\ pc' = "panic" => range # None /\ Answered(Len(file)) # None /\ Answered(Len(file))[2] = 0
    BY <1>2 DEF FsRead!Open, FsRead!copying, Answered, ReplyInv, ReplyTypes
  <2>2. pc' = "panic" => Len(file) = 0
    BY <2>1, AnsweredIsWanted
  <2>3. pc' = "panic" => IsSuffix
    BY <2>1, <2>2 DEF Answered, FsRead!check, FsRead!RangesOK, IsSuffix
  <2> QED BY <2>1, <2>2, <2>3 DEF Refused, IsSuffix
<1>3. CASE FsRead!Seek
  <2>1. /\ pc = "seek" /\ UNCHANGED <<range, copy_len, file_len>> /\ range \in Ranges
        /\ copy_len = None => Len(file) = file_len
    BY <1>3 DEF FsRead!Seek, FsRead!copying, FsRead!reply, ReplyInv, ReplyTypes, Undisturbed
  <2>2. CASE IsSuffix
    <3>1. /\ range.length \in Nat /\ Len(file) \in Nat /\ I64Max \in Nat
          /\ pc' = IF range.length > I64Max THEN "panic"
                   ELSE IF range.length > Len(file) THEN "InternalError" ELSE "stream"
      BY <1>3, <2>1, <2>2 DEF FsRead!Seek, FsRead!RangesOK, IsSuffix, ReplyInv, ReplyTypes
    <3> QED BY <2>1, <2>2, <3>1 DEF Refused, IsSuffix
  <2>3. CASE ~IsSuffix
    BY <1>3, <2>1, <2>3 DEF FsRead!Seek, Refused, IsSuffix
  <2> QED BY <2>2, <2>3
<1>4. CASE FsRead!Read \/ FsRead!End
  BY <1>4 DEF FsRead!Read, FsRead!End, FsRead!copying, FsRead!reply, Refused, IsSuffix
<1>5. CASE FsRead!Over \/ UNCHANGED FsRead!vars
  BY <1>5 DEF FsRead!Over, FsRead!vars, FsRead!copying, FsRead!reply, Refused, IsSuffix
<1> QED BY <1>1, <1>2, <1>3, <1>4, <1>5 DEF FsRead!Next, FsRead!GetObject

\* For every length, range and size of the pieces that are read, and a copy at any moment: the headers are
\* the range of the file that was opened, the body is in one piece, never longer than promised and, without
\* a copy, that range; InvalidRange is answered only to an empty range, and without a copy an internal error
\* to exactly the suffixes that are longer than the file (Range::check, get_object, bytes_stream).
THEOREM ReplyIsTheRangeHolds == FsRead!Spec => []ReplyIsTheRange
<1>1. ReplyInv /\ Refused => ReplyIsTheRange
  <2> SUFFICES ASSUME ReplyInv, Refused
               PROVE  FsRead!HeadersAreTheRange /\ FsRead!RefusalsAreDue /\ FsRead!BodyIsTheRange
    BY DEF ReplyIsTheRange, FsRead!ReplyIsTheRange
  <2> DEFINE a == Answered(file_len)[1]
             z == Answered(file_len)[2]
  <2>1. /\ Answered(file_len) = None => FsRead!Wanted(file_len) = {}
        /\ Answered(file_len) # None =>
             /\ a \in Nat /\ z \in Nat /\ a <= z /\ z <= file_len /\ FsRead!Wanted(file_len) = a..z - 1
    BY AnsweredIsWanted, ComponentsAssumption DEF ReplyInv, ReplyTypes
  <2>2. /\ body \in Seq(Bytes) /\ DOMAIN body = 1..Len(body) /\ Len(body) \in Nat /\ remaining \in Nat
        /\ content_length \in Nat /\ Len(body) + remaining = content_length
    BY DEF ReplyInv, ReplyTypes, Promised
  <2>3. pc \in {"stream", "done"} => Answered(file_len) # None /\ content_length = z - a
    BY DEF ReplyInv, Promised
  <2>4. FsRead!HeadersAreTheRange
    <3>1. ASSUME pc \in {"stream", "done"} PROVE content_length = FsRead!Cardinality(FsRead!Wanted(file_len))
      <4>1. a \in Int /\ z - 1 \in Int /\ content_length = z - a /\ a <= z /\ z \in Nat
        BY <2>1, <2>3, <3>1
      <4>2. FsRead!Wanted(file_len) = a..z - 1
        BY <2>1, <2>3, <3>1
      <4> HIDE DEF a, z
      <4>3. Cardinality(a..z - 1) = IF a > z - 1 THEN 0 ELSE (z - 1) - a + 1
        BY <4>1, FS_Interval
      <4>4. FsRead!Cardinality(a..z - 1) = Cardinality(a..z - 1)
        BY DEF FsRead!Cardinality, Cardinality
      <4> QED BY <4>1, <4>2, <4>3, <4>4
    <3>2. ASSUME pc \in {"stream", "done"}, content_range # None, file_len > 0
          PROVE  FsRead!Wanted(file_len) = content_range[1]..content_range[2]
      BY <2>1, <3>2 DEF ReplyInv, Promised
    <3> QED BY <3>1, <3>2 DEF FsRead!HeadersAreTheRange
  <2>6. FsRead!RefusalsAreDue
    <3>1. pc = "InvalidRange" => FsRead!Wanted(file_len) = {}
      BY <2>1 DEF ReplyInv, Promised
    <3> QED BY <3>1 DEF FsRead!RefusalsAreDue, Refused, IsSuffix
  <2>5. FsRead!BodyIsTheRange
    <3>1. Len(body) <= content_length
      BY <2>2
    <3>2. \A i \in 1..Len(body) - 1 : body[i + 1].at = body[i].at + 1
      <4> SUFFICES ASSUME NEW i \in 1..Len(body) - 1 PROVE body[i + 1].at = body[i].at + 1
        OBVIOUS
      <4>1. i \in DOMAIN body /\ i + 1 \in DOMAIN body /\ 1 \in DOMAIN body /\ body # <<>>
        BY <2>2
      <4>2. body[1].at \in Nat
        BY <2>2, <4>1, HasPosition
      <4>3. body[i].at = body[1].at + i - 1 /\ body[i + 1].at = body[1].at + (i + 1) - 1
        BY <4>1 DEF ReplyInv, OnePiece
      <4> QED BY <4>2, <4>3
    <3>3. ASSUME pc = "done", copy_len = None PROVE {body[i].at : i \in DOMAIN body} = FsRead!Wanted(file_len)
      <4>1. (\A i \in DOMAIN body : body[i].at = a + i - 1) /\ remaining = 0
        BY <3>3 DEF ReplyInv, Undisturbed
      <4>2. a \in Nat /\ z \in Nat /\ a <= z /\ FsRead!Wanted(file_len) = a..z - 1 /\ Len(body) = z - a
        BY <2>1, <2>2, <2>3, <3>3, <4>1
      <4> HIDE DEF a, z
      <4>3. ASSUME NEW p \in a..z - 1 PROVE p - a + 1 \in DOMAIN body /\ body[p - a + 1].at = p
        <5>1. p \in Nat /\ p - a + 1 \in 1..Len(body)
          BY <4>2
        <5>2. p - a + 1 \in DOMAIN body
          BY <2>2, <5>1
        <5>3. body[p - a + 1].at = a + (p - a + 1) - 1
          BY <4>1, <5>2
        <5> QED BY <4>2, <5>1, <5>2, <5>3
      <4>4. \A i \in DOMAIN body : body[i].at \in a..z - 1
        BY <2>2, <4>1, <4>2
      <4> QED BY <4>2, <4>3, <4>4
    <3> QED BY <3>1, <3>2, <3>3 DEF FsRead!BodyIsTheRange
  <2> QED BY <2>4, <2>5, <2>6
<1>2. FsRead!Init => ReplyInv /\ Refused
  BY ReplyInit, ComponentsAssumption DEF FsRead!Init, Refused
<1>3. ReplyInv /\ Refused /\ [FsRead!Next]_(FsRead!vars) => (ReplyInv /\ Refused)'
  BY ReplyNext, RefusedNext, ComponentsAssumption
<1> QED BY <1>1, <1>2, <1>3, PTL DEF FsRead!Spec

-----------------------------------------------------------------------------
(* RequestBody: for all bodies, declared lengths and limits, and for       *)
(* readers that poll on after an error. What has been received is held     *)
(* against the declared length only until the client is stopped, so the    *)
(* invariant says up to when the count is right and what is then known.    *)

\* A running sum of the first m sizes.
SumUpTo(sizes, m, f) ==
    f = [n \in 0..m |-> IF n = 0 THEN 0 ELSE f[n - 1] + sizes[n]]

\* There is one: otherwise take the least m without, and extend the sum for m - 1.
LEMMA SumExists ==
    ASSUME NEW sizes \in Seq(Nat), NEW m \in 0..Len(sizes)
    PROVE  \E f : SumUpTo(sizes, m, f)
<1> DEFINE T == {n \in 0..Len(sizes) : ~\E f : SumUpTo(sizes, n, f)}
<1> SUFFICES ASSUME m \in T PROVE FALSE
  OBVIOUS
<1>1. PICK x \in T : \A y \in T : x <= y
  <2>1. T \subseteq Nat /\ T # {}
    OBVIOUS
  <2> HIDE DEF T
  <2> QED BY <2>1, LeastElement
<1>2. SumUpTo(sizes, 0, [n \in 0..0 |-> 0])
  BY DEF SumUpTo
<1>3. x # 0 /\ x \in Nat /\ x \in 0..Len(sizes)
  BY <1>1, <1>2
<1>4. x - 1 \notin T /\ x - 1 \in 0..Len(sizes)
  BY <1>1, <1>3
<1>5. PICK f : SumUpTo(sizes, x - 1, f)
  BY <1>4
<1> DEFINE g == [n \in 0..x |-> IF n = x THEN f[x - 1] + sizes[x] ELSE f[n]]
<1>6. ASSUME NEW n \in 0..x PROVE g[n] = IF n = 0 THEN 0 ELSE g[n - 1] + sizes[n]
  <2>1. CASE n = x
    BY <2>1, <1>3
  <2>2. CASE n # x
    <3>1. n \in 0..x - 1
      BY <2>2, <1>3
    <3>2. f[n] = IF n = 0 THEN 0 ELSE f[n - 1] + sizes[n]
      BY <3>1, <1>5 DEF SumUpTo
    <3> QED BY <3>1, <3>2, <1>3
  <2> QED BY <2>1, <2>2
<1>7. SumUpTo(sizes, x, g)
  <2>1. g = [n \in 0..x |-> g[n]]
    OBVIOUS
  <2> HIDE DEF g
  <2> QED BY <1>6, <2>1 DEF SumUpTo
<1> QED BY <1>1, <1>7

\* What Bytes computes, step by step.
LEMMA BytesDef ==
    ASSUME NEW sizes \in Seq(Nat)
    PROVE  /\ Body!Bytes(sizes)[0] = 0
           /\ \A n \in 1..Len(sizes) : Body!Bytes(sizes)[n] = Body!Bytes(sizes)[n - 1] + sizes[n]
<1>1. PICK f : SumUpTo(sizes, Len(sizes), f)
  <2>1. Len(sizes) \in 0..Len(sizes)
    OBVIOUS
  <2> QED BY SumExists, <2>1
<1>2. Body!Bytes(sizes) = CHOOSE g : SumUpTo(sizes, Len(sizes), g)
  BY Zenon DEF Body!Bytes, SumUpTo
<1>3. SumUpTo(sizes, Len(sizes), Body!Bytes(sizes))
  BY <1>1, <1>2, Zenon
<1> DEFINE b == Body!Bytes(sizes)
<1> HIDE DEF b
<1>4. b = [n \in 0..Len(sizes) |-> IF n = 0 THEN 0 ELSE b[n - 1] + sizes[n]]
  BY <1>3 DEF SumUpTo, b
<1>5. \A n \in 0..Len(sizes) : b[n] = IF n = 0 THEN 0 ELSE b[n - 1] + sizes[n]
  BY <1>4
<1>6. b[0] = 0 /\ \A n \in 1..Len(sizes) : b[n] = b[n - 1] + sizes[n]
  <2>1. Len(sizes) \in Nat
    OBVIOUS
  <2> QED BY <1>5, <2>1
<1> QED BY <1>6 DEF b

\* Sequences that agree have the same sums: a first difference would be one of the elements.
LEMMA BytesAgree ==
    ASSUME NEW s \in Seq(Nat), NEW t \in Seq(Nat), Len(s) <= Len(t),
           \A n \in 1..Len(s) : s[n] = t[n], NEW m \in 0..Len(s)
    PROVE  Body!Bytes(s)[m] = Body!Bytes(t)[m]
<1> DEFINE T == {n \in 0..Len(s) : Body!Bytes(s)[n] # Body!Bytes(t)[n]}
<1> SUFFICES ASSUME m \in T PROVE FALSE
  OBVIOUS
<1>1. PICK x \in T : \A y \in T : x <= y
  <2>1. T \subseteq Nat
    OBVIOUS
  <2>2. T # {}
    BY Zenon
  <2> HIDE DEF T
  <2> QED BY <2>1, <2>2, LeastElement
<1>2. x # 0
  BY BytesDef
<1>3. x \in 1..Len(s) /\ x \in 1..Len(t) /\ x - 1 \in 0..Len(s) /\ x - 1 < x
  BY <1>2
<1>4. x - 1 \notin T
  BY <1>1, <1>3
<1>5. Body!Bytes(s)[x - 1] = Body!Bytes(t)[x - 1]
  BY <1>3, <1>4
<1>6. Body!Bytes(s)[x] = Body!Bytes(s)[x - 1] + s[x] /\ Body!Bytes(t)[x] = Body!Bytes(t)[x - 1] + t[x]
  BY <1>3, BytesDef
<1> QED BY <1>3, <1>5, <1>6

\* The sums are numbers and grow.
LEMMA BytesNat ==
    ASSUME NEW s \in Seq(Nat), NEW m \in 0..Len(s)
    PROVE  Body!Bytes(s)[m] \in Nat
<1> DEFINE T == {n \in 0..Len(s) : Body!Bytes(s)[n] \notin Nat}
<1> SUFFICES ASSUME m \in T PROVE FALSE
  OBVIOUS
<1>1. PICK x \in T : \A y \in T : x <= y
  <2>1. T \subseteq Nat /\ T # {}
    OBVIOUS
  <2> HIDE DEF T
  <2> QED BY <2>1, LeastElement
<1>2. x # 0
  BY BytesDef
<1>3. x \in 1..Len(s) /\ x - 1 \in 0..Len(s) /\ x - 1 < x /\ s[x] \in Nat
  BY <1>2
<1>4. Body!Bytes(s)[x - 1] \in Nat
  BY <1>1, <1>3
<1>5. Body!Bytes(s)[x] = Body!Bytes(s)[x - 1] + s[x]
  BY <1>3, BytesDef
<1> QED BY <1>3, <1>4, <1>5

LEMMA BytesGrow ==
    ASSUME NEW s \in Seq(Nat), NEW k \in 0..Len(s)
    PROVE  Body!Bytes(s)[k] <= Body!Bytes(s)[Len(s)]
<1> DEFINE T == {n \in 0..Len(s) : k <= n /\ ~(Body!Bytes(s)[k] <= Body!Bytes(s)[n])}
<1> SUFFICES ASSUME Len(s) \in T PROVE FALSE
  OBVIOUS
<1>1. PICK x \in T : \A y \in T : x <= y
  <2>1. T \subseteq Nat /\ T # {}
    OBVIOUS
  <2> HIDE DEF T
  <2> QED BY <2>1, LeastElement
<1>2. Body!Bytes(s)[k] \in Nat
  BY BytesNat
<1>3. x # k
  BY <1>2
<1>4. x \in 1..Len(s) /\ x - 1 \in 0..Len(s) /\ x - 1 < x /\ s[x] \in Nat /\ k <= x - 1
  BY <1>3
<1>5. Body!Bytes(s)[k] <= Body!Bytes(s)[x - 1]
  BY <1>1, <1>4
<1>6. Body!Bytes(s)[x] = Body!Bytes(s)[x - 1] + s[x] /\ Body!Bytes(s)[x - 1] \in Nat
  BY <1>4, BytesDef, BytesNat
<1> QED BY <1>2, <1>4, <1>5, <1>6

\* One more frame.
LEMMA BytesAppend ==
    ASSUME NEW s \in Seq(Nat), NEW n \in Nat
    PROVE  Body!Bytes(Append(s, n))[Len(s) + 1] = Body!Bytes(s)[Len(s)] + n
<1> DEFINE t == Append(s, n)
<1>1. t \in Seq(Nat) /\ Len(t) = Len(s) + 1 /\ Len(s) \in Nat /\ t[Len(s) + 1] = n
  OBVIOUS
<1>2. ASSUME NEW i \in 1..Len(s) PROVE s[i] = t[i]
  OBVIOUS
<1>3. Len(s) \in 0..Len(s) /\ Len(s) <= Len(t) /\ Len(s) + 1 \in 1..Len(t)
  <2> HIDE DEF t
  <2> QED BY <1>1
<1> HIDE DEF t
<1>4. Body!Bytes(s)[Len(s)] = Body!Bytes(t)[Len(s)]
  BY <1>1, <1>2, <1>3, BytesAgree
<1>5. Body!Bytes(t)[Len(s) + 1] = Body!Bytes(t)[Len(s) + 1 - 1] + t[Len(s) + 1]
  <2>1. \A k \in 1..Len(t) : Body!Bytes(t)[k] = Body!Bytes(t)[k - 1] + t[k]
    BY <1>1, BytesDef
  <2> DEFINE k == Len(s) + 1
  <2>2. k \in 1..Len(t)
    BY <1>3
  <2>3. Body!Bytes(t)[k] = Body!Bytes(t)[k - 1] + t[k]
    <3> HIDE DEF k
    <3> QED BY <2>1, <2>2
  <2> QED BY <2>3
<1>6. Len(s) + 1 - 1 = Len(s)
  BY <1>1
<1>7. Body!Bytes(t)[Len(s) + 1] = Body!Bytes(s)[Len(s)] + n
  BY <1>1, <1>4, <1>5, <1>6
<1> QED BY <1>7 DEF t

\* The body is being read, or about to be.
Live == mode \in {"prepare", "stream", "store"}

BodyTypes ==
    /\ wire.sizes \in Seq(Nat)
    /\ expected_length \in Nat \cup {None} /\ limit \in Nat \cup {None}
    /\ next \in 1..Len(wire.sizes) + 1
    /\ body_state \in {"Data", "Trailers", "Done"}
    /\ received_length \in Nat /\ stopped \in BOOLEAN /\ runtime \in BOOLEAN
    /\ remaining_limit \in Nat \cup {None} /\ allowance \in Nat
    /\ mode \in Body!Modes /\ got \in Seq(DOMAIN wire.sizes) /\ errors \in Nat

\* While the body is read and the client not stopped, what was received is what came before next.
Counted ==
    Live /\ ~stopped /\ expected_length # None => received_length = Body!Bytes(wire.sizes)[next - 1]
\* Without an error nothing is missing.
NothingMissing ==
    Live /\ errors = 0 => ~stopped /\ got = [j \in 1..next - 1 |-> j]
\* Past the data the length was the declared one.
DataWasWhole ==
    Live /\ body_state # "Data" =>
        next = Len(wire.sizes) + 1 /\ (~stopped => expected_length \in {None, Body!WireSize})
\* A limit is what was given plus what is left.
LimitKept ==
    /\ remaining_limit # None => limit # None /\ Body!GotSize + remaining_limit = limit
    /\ mode \in {"prepare", "store"} => remaining_limit = None /\ Body!GotSize + allowance = XmlMax
    /\ mode = "prepare" => got = <<>>
NotYetAnswered == Live => status # "ok"
\* A client is stopped for its length, or when the body is dropped outside of a runtime.
Aborted == stopped => Body!Mismatch \/ (mode = "closed" /\ ~runtime)

BodyInv ==
    /\ BodyTypes /\ Counted /\ NothingMissing /\ DataWasWhole /\ LimitKept /\ NotYetAnswered
    /\ Body!CleanEndIsWhole /\ Aborted


\* What the reader has been given is a number of bytes, and a frame adds its own.
LEMMA GotMore ==
    ASSUME BodyTypes
    PROVE  /\ Body!GotSize \in Nat
           /\ \A i \in DOMAIN wire.sizes :
                got' = Append(got, i) /\ wire' = wire => Body!GotSize' = Body!GotSize + wire.sizes[i]
<1> DEFINE f == [j \in DOMAIN got |-> wire.sizes[got[j]]]
<1>1. wire.sizes \in Seq(Nat) /\ got \in Seq(DOMAIN wire.sizes) /\ Len(got) \in Nat
  BY DEF BodyTypes
<1>2. f \in Seq(Nat) /\ Len(f) = Len(got)
  BY <1>1
<1>3. Body!GotSize = Body!Bytes(f)[Len(f)]
  BY <1>2 DEF Body!GotSize
<1>4. Body!GotSize \in Nat
  <2>1. Len(f) \in 0..Len(f)
    BY <1>1, <1>2
  <2> HIDE DEF f
  <2> QED BY <1>2, <1>3, <2>1, BytesNat
<1>5. ASSUME NEW i \in DOMAIN wire.sizes, got' = Append(got, i), wire' = wire
      PROVE  Body!GotSize' = Body!GotSize + wire.sizes[i]
  <2> DEFINE g == [j \in DOMAIN Append(got, i) |-> wire.sizes[Append(got, i)[j]]]
  <2>1. Body!GotSize' = Body!Bytes(g)[Len(Append(got, i))]
    BY <1>5 DEF Body!GotSize
  <2>2. wire.sizes[i] \in Nat
    BY <1>1
  <2>3. g = Append(f, wire.sizes[i])
    BY <1>1, <1>2
  <2>4. Len(Append(got, i)) = Len(f) + 1
    BY <1>1, <1>2
  <2> HIDE DEF f, g
  <2> QED BY <1>2, <1>3, <2>1, <2>2, <2>3, <2>4, BytesAppend
<1> QED BY <1>4, <1>5

\* What is given is taken from what is left.
LEMMA Spent ==
  \A have, left, n, all : have \in Nat /\ left \in Nat /\ n \in Nat /\ have + left = all /\ n <= left =>
    left - n \in Nat /\ (have + n) + (left - n) = all
  OBVIOUS

\* A body starts unread.
LEMMA BodyInit == ASSUME Body!BodyOK PROVE Body!Init => BodyInv
<1> SUFFICES ASSUME Body!Init PROVE BodyInv
  OBVIOUS
<1>1. ~stopped /\ stopped \in BOOLEAN /\ runtime \in BOOLEAN
  BY Zenon DEF Body!Init
<1>2. BodyTypes
  BY <1>1 DEF Body!Init, Body!BodyOK, BodyTypes, Body!Modes
<1>3. Body!Bytes(wire.sizes)[0] = 0
  BY <1>2, BytesDef DEF BodyTypes
<1>4. Counted
  BY <1>3 DEF Body!Init, Counted
<1>5. NothingMissing
  BY <1>1 DEF Body!Init, NothingMissing
<1>6. Body!GotSize = 0
  <2> DEFINE f == [j \in DOMAIN got |-> wire.sizes[got[j]]]
  <2>1. f = <<>> /\ f \in Seq(Nat) /\ Len(got) = 0
    BY DEF Body!Init
  <2>2. Body!GotSize = Body!Bytes(f)[0]
    BY <2>1 DEF Body!GotSize
  <2> HIDE DEF f
  <2> QED BY <2>1, <2>2, BytesDef
<1>7. LimitKept
  BY <1>6 DEF Body!Init, LimitKept, Body!BodyOK
<1>8. DataWasWhole /\ NotYetAnswered /\ Body!CleanEndIsWhole
  BY DEF Body!Init, DataWasWhole, NotYetAnswered, Body!CleanEndIsWhole
<1>9. Aborted
  BY <1>1 DEF Aborted
<1> QED BY <1>2, <1>4, <1>5, <1>7, <1>8, <1>9 DEF BodyInv

\* What a frame of the HTTP/3 body changes.
LEMMA DataStep ==
    ASSUME BodyInv, Live, NEW i, Body!H3Data(i)
    PROVE  /\ i = next /\ i \in 1..Len(wire.sizes) /\ wire.sizes[i] \in Nat
           /\ body_state = "Data" /\ body_state' = body_state /\ next' = next + 1 /\ stopped' = stopped
           /\ next + 1 \in 1..Len(wire.sizes) + 1 /\ next + 1 - 1 = next
           /\ received_length' \in Nat
           /\ ~stopped /\ expected_length # None => received_length' = Body!Bytes(wire.sizes)[next]
<1>1. /\ wire.sizes \in Seq(Nat) /\ next \in 1..Len(wire.sizes) + 1 /\ received_length \in Nat
      /\ Len(wire.sizes) \in Nat
  BY DEF BodyInv, BodyTypes
<1>2. /\ i = next /\ i <= Len(wire.sizes) /\ body_state = "Data" /\ next' = next + 1
      /\ body_state' = body_state
  BY DEF Body!H3Data
<1>3. stopped' = stopped
  BY Zenon DEF Body!H3Data
<1>4. i \in 1..Len(wire.sizes) /\ wire.sizes[i] \in Nat /\ next + 1 \in 1..Len(wire.sizes) + 1
      /\ next + 1 - 1 = next
  BY <1>1, <1>2
<1>5. received_length' = IF expected_length = None THEN received_length
                         ELSE received_length + wire.sizes[i]
  BY DEF Body!H3Data
<1>6. received_length' \in Nat
  BY <1>1, <1>4, <1>5
<1>7. ASSUME ~stopped, expected_length # None PROVE received_length' = Body!Bytes(wire.sizes)[next]
  <2>1. received_length = Body!Bytes(wire.sizes)[next - 1]
    BY <1>7 DEF BodyInv, Counted
  <2>2. Body!Bytes(wire.sizes)[next] = Body!Bytes(wire.sizes)[next - 1] + wire.sizes[next]
    BY <1>1, <1>2, <1>4, BytesDef
  <2> QED BY <1>2, <1>5, <1>7, <2>1, <2>2
<1> QED BY <1>2, <1>3, <1>4, <1>6, <1>7

\* What the HTTP/3 body changes when it reports an error.
LEMMA ErrorStep ==
    ASSUME BodyInv, Live, Body!H3Error
    PROVE  /\ next' \in 1..Len(wire.sizes) + 1 /\ stopped' \in BOOLEAN
           /\ body_state' = body_state /\ received_length' = received_length
           /\ stopped' \/ next' = next
           /\ body_state # "Data" => stopped' = stopped /\ next' = next
           /\ ~stopped' => ~stopped
           /\ stopped' => expected_length \notin {None, Body!WireSize}
<1>1. /\ wire.sizes \in Seq(Nat) /\ next \in 1..Len(wire.sizes) + 1 /\ received_length \in Nat
      /\ Len(wire.sizes) \in Nat /\ expected_length \in Nat \cup {None}
  BY DEF BodyInv, BodyTypes
<1>2. stopped \in BOOLEAN
  BY Zenon DEF BodyInv, BodyTypes
<1>3. body_state' = body_state /\ received_length' = received_length
  BY DEF Body!H3Error
<1>4. stopped => expected_length \notin {None, Body!WireSize}
  BY DEF BodyInv, Aborted, Live, Body!Mismatch
<1>5. CASE body_state = "Data" /\ next <= Len(wire.sizes) /\ Body!TooLong(wire.sizes[next])
           /\ next' = next + 1 /\ stopped' = TRUE
  <2>1. next \in 1..Len(wire.sizes) /\ next + 1 \in 1..Len(wire.sizes) + 1
    BY <1>1, <1>5
  <2>2. stopped' \in BOOLEAN /\ stopped'
    BY <1>5, Zenon
  <2>3. expected_length # None /\ received_length + wire.sizes[next] > expected_length
    BY <1>5 DEF Body!TooLong
  <2>4. ASSUME ~stopped PROVE expected_length # Body!WireSize
    <3>1. received_length = Body!Bytes(wire.sizes)[next - 1]
      BY <2>3, <2>4 DEF BodyInv, Counted
    <3>2. Body!Bytes(wire.sizes)[next] = Body!Bytes(wire.sizes)[next - 1] + wire.sizes[next]
      BY <1>1, <2>1, BytesDef
    <3>3. Body!Bytes(wire.sizes)[next] <= Body!WireSize
      <4>1. next \in 0..Len(wire.sizes)
        BY <2>1
      <4> QED BY <1>1, <4>1, BytesGrow DEF Body!WireSize
    <3>4. wire.sizes[next] \in Nat /\ Body!WireSize \in Nat
      <4>1. Len(wire.sizes) \in 0..Len(wire.sizes)
        BY <1>1
      <4> QED BY <1>1, <2>1, <4>1, BytesNat DEF Body!WireSize
    <3>5. received_length + wire.sizes[next] <= Body!WireSize
      BY <3>1, <3>2, <3>3
    <3> QED BY <1>1, <2>3, <3>4, <3>5
  <2> QED BY <1>3, <1>4, <1>5, <2>1, <2>2, <2>3, <2>4
<1>6. CASE Body!DataOver /\ expected_length \notin {None, received_length} /\ stopped' = TRUE
           /\ next' = next
  <2>1. body_state = "Data" /\ next = Len(wire.sizes) + 1
    BY <1>1, <1>6 DEF Body!DataOver
  <2>2. stopped' \in BOOLEAN /\ stopped'
    BY <1>6, Zenon
  <2>3. ASSUME ~stopped PROVE expected_length # Body!WireSize
    <3>1. received_length = Body!Bytes(wire.sizes)[next - 1]
      BY <1>6, <2>3 DEF BodyInv, Counted
    <3>2. next - 1 = Len(wire.sizes)
      BY <1>1, <2>1
    <3> QED BY <1>6, <3>1, <3>2 DEF Body!WireSize
  <2> QED BY <1>1, <1>3, <1>4, <1>6, <2>1, <2>2, <2>3
<1>7. CASE next' = next /\ stopped' = stopped
  BY <1>1, <1>2, <1>3, <1>4, <1>7
<1>8. \/ body_state = "Data" /\ next <= Len(wire.sizes) /\ Body!TooLong(wire.sizes[next])
         /\ next' = next + 1 /\ stopped' = TRUE
      \/ Body!DataOver /\ expected_length \notin {None, received_length} /\ stopped' = TRUE
         /\ next' = next
      \/ next' = next /\ stopped' = stopped
  BY Zenon DEF Body!H3Error
<1> QED BY <1>5, <1>6, <1>7, <1>8


\* What is not being read stays what it was.
LEMMA BodyNext == ASSUME Body!BodyOK PROVE BodyInv /\ [Body!Next]_(Body!vars) => BodyInv'
<1> SUFFICES ASSUME BodyInv, [Body!Next]_(Body!vars) PROVE BodyInv'
  OBVIOUS
<1>1. /\ wire.sizes \in Seq(Nat) /\ next \in 1..Len(wire.sizes) + 1 /\ received_length \in Nat
      /\ Len(wire.sizes) \in Nat /\ expected_length \in Nat \cup {None}
      /\ limit \in Nat \cup {None} /\ body_state \in {"Data", "Trailers", "Done"}
      /\ remaining_limit \in Nat \cup {None} /\ allowance \in Nat /\ mode \in Body!Modes
      /\ got \in Seq(DOMAIN wire.sizes) /\ errors \in Nat /\ DOMAIN wire.sizes = 1..Len(wire.sizes)
  BY DEF BodyInv, BodyTypes
<1>2. stopped \in BOOLEAN /\ runtime \in BOOLEAN
  BY Zenon DEF BodyInv, BodyTypes
<1>3. None \notin Nat /\ XmlMax \in Nat
  BY DEF Body!BodyOK
<1>4. Body!GotSize \in Nat
  BY GotMore DEF BodyInv
<1>5. Live /\ ~stopped /\ expected_length # None => received_length = Body!Bytes(wire.sizes)[next - 1]
  BY DEF BodyInv, Counted
<1>6. Live /\ errors = 0 => ~stopped /\ got = [j \in 1..next - 1 |-> j]
  BY DEF BodyInv, NothingMissing
<1>7. Live /\ body_state # "Data" =>
        next = Len(wire.sizes) + 1 /\ (~stopped => expected_length \in {None, Body!WireSize})
  BY DEF BodyInv, DataWasWhole
<1>8. /\ remaining_limit # None => limit # None /\ Body!GotSize + remaining_limit = limit
      /\ mode \in {"prepare", "store"} => remaining_limit = None /\ Body!GotSize + allowance = XmlMax
      /\ mode = "prepare" => got = <<>>
  BY DEF BodyInv, LimitKept
<1>9. Live => status # "ok"
  BY DEF BodyInv, NotYetAnswered
<1>10. status = "ok" /\ errors = 0 =>
        got = [i \in DOMAIN wire.sizes |-> i] /\ expected_length \in {None, Body!WireSize}
  BY DEF BodyInv, Body!CleanEndIsWhole
<1>11. stopped /\ mode # "closed" => expected_length \notin {None, Body!WireSize}
  BY DEF BodyInv, Aborted, Body!Mismatch
<1> DEFINE Same == wire' = wire /\ expected_length' = expected_length /\ limit' = limit /\ runtime' = runtime
\* A step that leaves the body alone or that ends the reading.
<1>12. ASSUME Same, got' = got, errors' = errors, remaining_limit' = remaining_limit,
              allowance' = allowance, mode' \in {"dropped", "draining", "closed"},
              next' \in 1..Len(wire.sizes) + 1, received_length' \in Nat,
              body_state' \in {"Data", "Trailers", "Done"}, stopped' \in BOOLEAN,
              stopped' => expected_length \notin {None, Body!WireSize} \/ (mode' = "closed" /\ ~runtime),
              status' = "ok" /\ errors = 0 =>
                got = [i \in DOMAIN wire.sizes |-> i] /\ expected_length \in {None, Body!WireSize}
       PROVE  BodyInv'
  <2>1. BodyTypes'
    <3>1. stopped' \in BOOLEAN /\ runtime' \in BOOLEAN
      BY <1>2, <1>12, Zenon
    <3> QED BY <1>1, <1>12, <3>1 DEF BodyTypes, Body!Modes
  <2>2. ~Live'
    BY <1>12 DEF Live
  <2>3. Counted' /\ NothingMissing' /\ DataWasWhole' /\ NotYetAnswered'
    BY <2>2 DEF Counted, NothingMissing, DataWasWhole, NotYetAnswered
  <2>4. Body!GotSize' = Body!GotSize /\ Body!WireSize' = Body!WireSize
    BY <1>12 DEF Body!GotSize, Body!WireSize
  <2>5. LimitKept'
    BY <1>8, <1>12, <2>4 DEF LimitKept
  <2>6. Body!CleanEndIsWhole'
    BY <1>12, <2>4 DEF Body!CleanEndIsWhole
  <2>7. Aborted'
    BY <1>12, <2>4 DEF Aborted, Body!Mismatch
  <2> QED BY <2>1, <2>3, <2>5, <2>6, <2>7 DEF BodyInv
\* A step that leads on with the reading.
<1>13. ASSUME Same, Live, Live', got' \in Seq(DOMAIN wire.sizes), errors' \in Nat,
              remaining_limit' \in Nat \cup {None}, allowance' \in Nat, mode' \in Body!Modes,
              next' \in 1..Len(wire.sizes) + 1, received_length' \in Nat,
              body_state' \in {"Data", "Trailers", "Done"}, stopped' \in BOOLEAN,
              status' = status,
              stopped' => expected_length \notin {None, Body!WireSize},
              ~stopped' /\ expected_length # None =>
                received_length' = Body!Bytes(wire.sizes)[next' - 1],
              errors' = 0 => ~stopped' /\ got' = [j \in 1..next' - 1 |-> j],
              body_state' # "Data" =>
                next' = Len(wire.sizes) + 1 /\ (~stopped' => expected_length \in {None, Body!WireSize}),
              LimitKept'
       PROVE  BodyInv'
  <2>1. BodyTypes'
    <3>1. stopped' \in BOOLEAN /\ runtime' \in BOOLEAN
      BY <1>2, <1>13, Zenon
    <3> QED BY <1>1, <1>13, <3>1 DEF BodyTypes
  <2>2. Body!WireSize' = Body!WireSize
    BY <1>13 DEF Body!WireSize
  <2>3. Counted'
    BY <1>13 DEF Counted
  <2>4. NothingMissing'
    BY <1>13 DEF NothingMissing
  <2>5. DataWasWhole'
    BY <1>13, <2>2 DEF DataWasWhole
  <2>6. NotYetAnswered' /\ Body!CleanEndIsWhole'
    BY <1>9, <1>13 DEF NotYetAnswered, Body!CleanEndIsWhole
  <2>7. Aborted'
    BY <1>13, <2>2 DEF Aborted, Body!Mismatch
  <2> QED BY <1>13, <2>1, <2>3, <2>4, <2>5, <2>6, <2>7 DEF BodyInv
\* At the end of the stream.
<1>14. ASSUME Live, Body!H3End
       PROVE  /\ next' = next /\ body_state' = "Done" /\ received_length' = received_length
              /\ stopped' = stopped
              /\ errors = 0 =>
                   got = [i \in DOMAIN wire.sizes |-> i] /\ expected_length \in {None, Body!WireSize}
              /\ stopped' => expected_length \notin {None, Body!WireSize}
  <2>1. /\ next' = next /\ body_state' = "Done" /\ received_length' = received_length
        /\ body_state = "Trailers"
    BY <1>14 DEF Body!H3End
  <2>2. stopped' = stopped
    BY <1>14, Zenon DEF Body!H3End
  <2>3. next - 1 = Len(wire.sizes)
    BY <1>1, <1>7, <1>14, <2>1
  <2>4. mode # "closed"
    BY <1>14 DEF Live
  <2> QED BY <1>1, <1>6, <1>7, <1>11, <1>14, <2>1, <2>2, <2>3, <2>4
<1>15. CASE Body!PrepareStreaming
  <2>1. /\ mode = "prepare" /\ Same /\ allowance' = allowance /\ got' = got /\ errors' = errors
        /\ next' = next /\ body_state' = body_state /\ received_length' = received_length
    BY <1>15 DEF Body!PrepareStreaming, Body!request, Body!h3
  <2>2. stopped' = stopped
    BY <1>15, Zenon DEF Body!PrepareStreaming, Body!h3
  <2>3. CASE mode' = "dropped" /\ status' = "EntityTooLarge" /\ remaining_limit' = remaining_limit
    BY <1>1, <1>2, <1>11, <1>12, <2>1, <2>2, <2>3
  <2>4. CASE mode' = "stream" /\ remaining_limit' = limit /\ status' = status
    <3>1. Live /\ Live' /\ mode' \in Body!Modes
      BY <2>1, <2>4 DEF Live, Body!Modes
    <3>2. Body!GotSize' = Body!GotSize
      BY <2>1 DEF Body!GotSize
    <3>3. Body!GotSize = 0
      <4> DEFINE f == [j \in DOMAIN got |-> wire.sizes[got[j]]]
      <4>1. f = <<>> /\ f \in Seq(Nat) /\ Len(got) = 0
        BY <1>8, <2>1
      <4>2. Body!GotSize = Body!Bytes(f)[0]
        BY <4>1 DEF Body!GotSize
      <4> HIDE DEF f
      <4> QED BY <4>1, <4>2, BytesDef
    <3>4. LimitKept'
      BY <1>1, <2>1, <2>4, <3>2, <3>3 DEF LimitKept
    <3> QED BY <1>1, <1>2, <1>5, <1>6, <1>7, <1>11, <1>13, <2>1, <2>2, <2>4, <3>1, <3>4
  <2> QED BY <1>15, <2>3, <2>4 DEF Body!PrepareStreaming
<1>16. CASE Body!PrepareFull
  <2>1. /\ mode = "prepare" /\ Same /\ allowance' = allowance /\ got' = got /\ errors' = errors
        /\ next' = next /\ body_state' = body_state /\ received_length' = received_length
        /\ mode' = "store" /\ status' = status /\ remaining_limit' = remaining_limit
    BY <1>16 DEF Body!PrepareFull, Body!request, Body!h3
  <2>2. stopped' = stopped
    BY <1>16, Zenon DEF Body!PrepareFull, Body!h3
  <2>3. Live /\ Live' /\ mode' \in Body!Modes
    BY <2>1 DEF Live, Body!Modes
  <2>4. Body!GotSize' = Body!GotSize
    BY <2>1 DEF Body!GotSize
  <2>5. LimitKept'
    BY <1>8, <2>1, <2>4 DEF LimitKept
  <2> QED BY <1>1, <1>2, <1>5, <1>6, <1>7, <1>11, <1>13, <2>1, <2>2, <2>3, <2>5
<1>17. CASE Body!EndOfData
  <2>1. /\ mode \in {"stream", "store"} /\ Same /\ allowance' = allowance /\ got' = got
        /\ errors' = errors /\ mode' = mode /\ status' = status
        /\ remaining_limit' = remaining_limit
    BY <1>17 DEF Body!EndOfData, Body!request
  <2>2. /\ next' = next /\ body_state' = "Trailers" /\ received_length' = received_length
        /\ body_state = "Data" /\ next > Len(wire.sizes) /\ expected_length \in {None, received_length}
    BY <1>17 DEF Body!EndOfData, Body!H3EndOfData, Body!DataOver
  <2>3. stopped' = stopped
    BY <1>17, Zenon DEF Body!EndOfData, Body!H3EndOfData
  <2>4. Live /\ Live' /\ mode' \in Body!Modes
    BY <2>1 DEF Live, Body!Modes
  <2>5. Body!GotSize' = Body!GotSize
    BY <2>1 DEF Body!GotSize
  <2>6. LimitKept'
    BY <1>8, <2>1, <2>5 DEF LimitKept
  <2>7. next = Len(wire.sizes) + 1 /\ next - 1 = Len(wire.sizes)
    BY <1>1, <2>2
  <2>8. ~stopped => expected_length \in {None, Body!WireSize}
    BY <1>5, <2>2, <2>4, <2>7 DEF Body!WireSize
  <2> QED BY <1>1, <1>2, <1>5, <1>6, <1>11, <1>13, <2>1, <2>2, <2>3, <2>4, <2>6, <2>7, <2>8
<1>18. CASE Body!Read
  <2>1. PICK i \in DOMAIN wire.sizes : Body!PollsData(i)
    BY <1>18 DEF Body!Read
  <2>2. mode = "stream" /\ Same /\ allowance' = allowance /\ mode' = mode /\ status' = status
    BY <1>18 DEF Body!Read, Body!request
  <2>3. Live /\ Live' /\ mode' \in Body!Modes
    BY <2>2 DEF Live, Body!Modes
  <2>4. Body!H3Data(i)
    BY <2>1 DEF Body!PollsData
  <2>5. /\ i = next /\ i \in 1..Len(wire.sizes) /\ wire.sizes[i] \in Nat
        /\ body_state = "Data" /\ body_state' = body_state /\ next' = next + 1 /\ stopped' = stopped
        /\ next + 1 \in 1..Len(wire.sizes) + 1 /\ next + 1 - 1 = next
        /\ received_length' \in Nat
        /\ ~stopped /\ expected_length # None => received_length' = Body!Bytes(wire.sizes)[next]
    BY <2>3, <2>4, DataStep
  <2>6. CASE /\ remaining_limit = None \/ wire.sizes[i] <= remaining_limit
             /\ got' = Append(got, i)
             /\ remaining_limit' = IF remaining_limit = None THEN None
                                   ELSE remaining_limit - wire.sizes[i]
             /\ errors' = errors
    <3>1. Body!GotSize' = Body!GotSize + wire.sizes[i]
      BY <2>1, <2>2, <2>6, GotMore DEF BodyInv
    <3>2. remaining_limit' \in Nat \cup {None}
      <4> HIDE DEF Same
      <4>1. CASE remaining_limit = None
        BY <2>6, <4>1
      <4>2. CASE remaining_limit # None
        <5>1. remaining_limit' = remaining_limit - wire.sizes[i] /\ wire.sizes[i] <= remaining_limit
          BY <2>6, <4>2
        <5>2. remaining_limit \in Nat /\ Body!GotSize + remaining_limit = limit /\ wire.sizes[i] \in Nat
          BY <1>1, <1>8, <2>5, <4>2
        <5> QED BY <1>4, <5>1, <5>2, Spent
      <4> QED BY <4>1, <4>2
    <3>3. LimitKept'
      <4>1. CASE remaining_limit = None
        BY <2>2, <2>6, <4>1 DEF LimitKept
      <4>2. CASE remaining_limit # None
        <5>1. remaining_limit' = remaining_limit - wire.sizes[i] /\ wire.sizes[i] <= remaining_limit
          BY <2>6, <4>2
        <5>2. /\ remaining_limit \in Nat /\ Body!GotSize + remaining_limit = limit
              /\ wire.sizes[i] \in Nat /\ limit # None
          BY <1>1, <1>8, <2>5, <4>2
        <5>3. Body!GotSize' + remaining_limit' = limit
          BY <1>4, <3>1, <5>1, <5>2, Spent
        <5> QED BY <2>2, <5>2, <5>3 DEF LimitKept
      <4> QED BY <4>1, <4>2
    <3>4. got' \in Seq(DOMAIN wire.sizes)
      BY <1>1, <2>1, <2>6
    <3>5. ASSUME errors = 0 PROVE ~stopped /\ got' = [j \in 1..next |-> j]
      <4>1. got = [j \in 1..next - 1 |-> j] /\ ~stopped
        BY <1>6, <2>3, <3>5
      <4>2. Append([j \in 1..next - 1 |-> j], next) = [j \in 1..next |-> j]
        BY <1>1
      <4> QED BY <2>5, <2>6, <4>1, <4>2
    <3> QED BY <1>1, <1>2, <1>11, <1>13, <2>2, <2>3, <2>5, <2>6, <3>2, <3>3, <3>4, <3>5
  <2>7. CASE errors' = errors + 1 /\ got' = got /\ remaining_limit' = remaining_limit
    <3>1. Body!GotSize' = Body!GotSize
      BY <2>2, <2>7 DEF Body!GotSize
    <3>2. LimitKept'
      BY <1>8, <2>2, <2>7, <3>1 DEF LimitKept
    <3>3. errors' \in Nat /\ errors' # 0
      BY <1>1, <2>7
    <3> QED BY <1>1, <1>2, <1>11, <1>13, <2>2, <2>3, <2>5, <2>7, <3>2, <3>3
  <2> QED BY <2>1, <2>6, <2>7 DEF Body!PollsData
<1>19. CASE Body!ReadError
  <2>1. /\ mode = "stream" /\ Same /\ allowance' = allowance /\ mode' = mode /\ status' = status
        /\ got' = got /\ errors' = errors + 1 /\ remaining_limit' = remaining_limit /\ Body!H3Error
    BY <1>19 DEF Body!ReadError, Body!request
  <2>2. Live /\ Live' /\ mode' \in Body!Modes
    BY <2>1 DEF Live, Body!Modes
  <2>3. /\ next' \in 1..Len(wire.sizes) + 1 /\ stopped' \in BOOLEAN
        /\ body_state' = body_state /\ received_length' = received_length
        /\ stopped' \/ next' = next
        /\ body_state # "Data" => stopped' = stopped /\ next' = next
        /\ ~stopped' => ~stopped
        /\ stopped' => expected_length \notin {None, Body!WireSize}
    BY <2>1, <2>2, ErrorStep
  <2>4. Body!GotSize' = Body!GotSize
    BY <2>1 DEF Body!GotSize
  <2>5. LimitKept'
    BY <1>8, <2>1, <2>4 DEF LimitKept
  <2>6. errors' \in Nat /\ errors' # 0
    BY <1>1, <2>1
  <2>7. ~stopped' /\ expected_length # None => received_length' = Body!Bytes(wire.sizes)[next' - 1]
    BY <1>5, <2>2, <2>3
  <2>8. body_state' # "Data" =>
          next' = Len(wire.sizes) + 1 /\ (~stopped' => expected_length \in {None, Body!WireSize})
    BY <1>7, <2>2, <2>3
  <2> QED BY <1>1, <1>13, <2>1, <2>2, <2>3, <2>5, <2>6, <2>7, <2>8
<1>20. CASE Body!ReadEnd
  <2>1. /\ mode = "stream" /\ Same /\ allowance' = allowance /\ mode' = "dropped"
        /\ got' = got /\ errors' = errors /\ remaining_limit' = remaining_limit /\ Body!H3End
    BY <1>20 DEF Body!ReadEnd, Body!request
  <2>2. Live
    BY <2>1 DEF Live
  <2> QED BY <1>1, <1>2, <1>12, <1>14, <2>1, <2>2
<1>21. CASE Body!GiveUp
  <2>1. /\ Same /\ allowance' = allowance /\ mode' = "dropped" /\ status' = "failed"
        /\ got' = got /\ errors' = errors /\ remaining_limit' = remaining_limit
        /\ next' = next /\ body_state' = body_state /\ received_length' = received_length
    BY <1>21 DEF Body!GiveUp, Body!request, Body!h3
  <2>2. stopped' = stopped
    BY <1>21, Zenon DEF Body!GiveUp, Body!h3
  <2>3. mode = "stream"
    BY <1>21 DEF Body!GiveUp
  <2> QED BY <1>1, <1>2, <1>11, <1>12, <2>1, <2>2, <2>3
<1>22. CASE Body!Store
  <2>1. PICK i \in DOMAIN wire.sizes :
          /\ Body!H3Data(i)
          /\ \/ /\ wire.sizes[i] <= allowance /\ allowance' = allowance - wire.sizes[i]
                /\ got' = Append(got, i) /\ mode' = mode /\ status' = status
             \/ /\ mode' = "dropped" /\ status' = "InternalError" /\ allowance' = allowance
                /\ got' = got
    BY <1>22 DEF Body!Store
  <2>2. mode = "store" /\ Same /\ remaining_limit' = remaining_limit /\ errors' = errors
    BY <1>22 DEF Body!Store, Body!request
  <2>3. Live
    BY <2>2 DEF Live
  <2>5. /\ i = next /\ i \in 1..Len(wire.sizes) /\ wire.sizes[i] \in Nat
        /\ body_state = "Data" /\ body_state' = body_state /\ next' = next + 1 /\ stopped' = stopped
        /\ next + 1 \in 1..Len(wire.sizes) + 1 /\ next + 1 - 1 = next
        /\ received_length' \in Nat
        /\ ~stopped /\ expected_length # None => received_length' = Body!Bytes(wire.sizes)[next]
    BY <2>1, <2>3, DataStep
  <2>6. CASE /\ wire.sizes[i] <= allowance /\ allowance' = allowance - wire.sizes[i]
             /\ got' = Append(got, i) /\ mode' = mode /\ status' = status
    <3>1. Body!GotSize' = Body!GotSize + wire.sizes[i]
      BY <2>1, <2>2, <2>6, GotMore DEF BodyInv
    <3>2. Live' /\ mode' \in Body!Modes /\ allowance' \in Nat
      <4>1. Body!GotSize + allowance = XmlMax
        BY <1>8, <2>2
      <4>2. wire.sizes[i] <= allowance /\ allowance' = allowance - wire.sizes[i]
        BY <2>6
      <4>3. wire.sizes[i] \in Nat /\ allowance \in Nat
        BY <1>1, <2>5
      <4>4. allowance' \in Nat
        BY <1>4, <4>1, <4>2, <4>3, Spent
      <4> QED BY <2>2, <2>6, <4>4 DEF Live, Body!Modes
    <3>3. LimitKept'
      <4>1. Body!GotSize + allowance = XmlMax /\ remaining_limit = None
        BY <1>8, <2>2
      <4>2. wire.sizes[i] <= allowance /\ allowance' = allowance - wire.sizes[i]
        BY <2>6
      <4>3. wire.sizes[i] \in Nat /\ allowance \in Nat
        BY <1>1, <2>5
      <4>4. Body!GotSize' + allowance' = XmlMax
        BY <1>4, <3>1, <4>1, <4>2, <4>3, Spent
      <4>5. mode' = "store" /\ remaining_limit' = None
        BY <2>2, <2>6, <4>1
      <4> QED BY <4>4, <4>5 DEF LimitKept
    <3>4. got' \in Seq(DOMAIN wire.sizes)
      BY <1>1, <2>1, <2>6
    <3>5. ASSUME errors = 0 PROVE ~stopped /\ got' = [j \in 1..next |-> j]
      <4>1. got = [j \in 1..next - 1 |-> j] /\ ~stopped
        BY <1>6, <2>3, <3>5
      <4>2. Append([j \in 1..next - 1 |-> j], next) = [j \in 1..next |-> j]
        BY <1>1
      <4> QED BY <2>5, <2>6, <4>1, <4>2
    <3>6. stopped' => expected_length \notin {None, Body!WireSize}
      BY <1>11, <2>2, <2>5
    <3>7. /\ next' \in 1..Len(wire.sizes) + 1 /\ body_state' = "Data" /\ status' = status
          /\ next' - 1 = next /\ errors' \in Nat /\ remaining_limit' \in Nat \cup {None}
      BY <1>1, <2>2, <2>5, <2>6
    <3>8. ~stopped' /\ expected_length # None => received_length' = Body!Bytes(wire.sizes)[next' - 1]
      BY <2>5, <3>7
    <3>9. errors' = 0 => ~stopped' /\ got' = [j \in 1..next' - 1 |-> j]
      BY <2>2, <2>5, <3>5, <3>7
    <3>10. stopped' \in BOOLEAN
      BY <1>2, <2>5, Zenon
    <3> QED BY <1>13, <2>2, <2>3, <2>5, <3>2, <3>3, <3>4, <3>6, <3>7, <3>8, <3>9, <3>10
  <2>7. CASE mode' = "dropped" /\ status' = "InternalError" /\ allowance' = allowance
             /\ got' = got
    BY <1>1, <1>2, <1>11, <1>12, <2>2, <2>5, <2>7
  <2> QED BY <2>1, <2>6, <2>7
<1>23. CASE Body!StoreError
  <2>1. /\ mode = "store" /\ Same /\ allowance' = allowance /\ mode' = "dropped"
        /\ status' = "InternalError"
        /\ got' = got /\ errors' = errors /\ remaining_limit' = remaining_limit /\ Body!H3Error
    BY <1>23 DEF Body!StoreError, Body!request
  <2>2. Live
    BY <2>1 DEF Live
  <2>3. /\ next' \in 1..Len(wire.sizes) + 1 /\ stopped' \in BOOLEAN
        /\ body_state' = body_state /\ received_length' = received_length
        /\ stopped' => expected_length \notin {None, Body!WireSize}
    BY <2>1, <2>2, ErrorStep
  <2> QED BY <1>1, <1>12, <2>1, <2>3
<1>24. CASE Body!StoreEnd
  <2>1. /\ mode = "store" /\ Same /\ allowance' = allowance /\ mode' = "dropped"
        /\ got' = got /\ errors' = errors /\ remaining_limit' = remaining_limit /\ Body!H3End
    BY <1>24 DEF Body!StoreEnd, Body!request
  <2>2. Live
    BY <2>1 DEF Live
  <2> QED BY <1>1, <1>2, <1>12, <1>14, <2>1, <2>2
<1>25. CASE Body!Drop
  <2>1. /\ Same /\ allowance' = allowance /\ mode = "dropped" /\ status' = status
        /\ got' = got /\ errors' = errors /\ remaining_limit' = remaining_limit /\ next' = next
        /\ body_state' = body_state /\ received_length' = received_length
    BY <1>25 DEF Body!Drop, Body!request
  <2>2. CASE stopped' = stopped /\ mode' \in {"draining", "closed"}
    BY <1>1, <1>2, <1>10, <1>11, <1>12, <2>1, <2>2
  <2>3. CASE stopped' = TRUE /\ mode' = "closed" /\ ~runtime
    <3>1. stopped' \in BOOLEAN
      BY <2>3, Zenon
    <3> QED BY <1>1, <1>10, <1>12, <2>1, <2>3, <3>1
  <2>4. \/ stopped' = stopped /\ mode' \in {"draining", "closed"}
        \/ stopped' = TRUE /\ mode' = "closed" /\ ~runtime
    BY <1>25, Zenon DEF Body!Drop
  <2> QED BY <2>2, <2>3, <2>4
<1>26. CASE Body!Drain
  <2>1. /\ Same /\ allowance' = allowance /\ mode = "draining" /\ mode' \in {"draining", "closed"} /\ status' = status
        /\ got' = got /\ errors' = errors /\ remaining_limit' = remaining_limit
        /\ next' = next \/ (next <= Len(wire.sizes) /\ next' = next + 1)
        /\ body_state' = body_state /\ received_length' = received_length
    BY <1>26 DEF Body!Drain, Body!request
  <2>2. stopped' = stopped
    BY <1>26, Zenon DEF Body!Drain
  <2>3. next' \in 1..Len(wire.sizes) + 1
    BY <1>1, <2>1
  <2> QED BY <1>1, <1>2, <1>10, <1>11, <1>12, <2>1, <2>2, <2>3
<1>27. CASE UNCHANGED Body!vars
  <2>1. /\ Same /\ allowance' = allowance /\ mode' = mode /\ status' = status
        /\ got' = got /\ errors' = errors /\ remaining_limit' = remaining_limit
        /\ next' = next /\ body_state' = body_state /\ received_length' = received_length
    BY <1>27 DEF Body!vars, Body!request, Body!h3
  <2>2. stopped' = stopped
    BY <1>27, Zenon DEF Body!vars, Body!h3
  <2>3. CASE Live
    <3>1. Live'
      BY <2>1, <2>3 DEF Live
    <3>2. LimitKept'
      BY <1>8, <2>1 DEF LimitKept, Body!GotSize
    <3>3. mode # "closed"
      BY <2>3 DEF Live
    <3> QED BY <1>1, <1>2, <1>5, <1>6, <1>7, <1>11, <1>13, <2>1, <2>2, <2>3, <3>1, <3>2, <3>3
  <2>4. CASE ~Live
    <3>1. mode' \in {"dropped", "draining", "closed"}
      BY <1>1, <2>1, <2>4 DEF Live, Body!Modes
    <3>2. stopped => expected_length \notin {None, Body!WireSize} \/ (mode = "closed" /\ ~runtime)
      BY DEF BodyInv, Aborted, Body!Mismatch
    <3> QED BY <1>1, <1>2, <1>10, <1>12, <2>1, <2>2, <3>1, <3>2
  <2> QED BY <2>3, <2>4
<1> QED BY <1>15, <1>16, <1>17, <1>18, <1>19, <1>20, <1>21, <1>22, <1>23, <1>24, <1>25, <1>26, <1>27
        DEF Body!Next, Body!Closed


\* What is left of a limit is not negative.
LEMMA BodyInvIntact == ASSUME Body!BodyOK PROVE BodyInv => Body!BodyIntact
<1> SUFFICES ASSUME BodyInv PROVE Body!BodyIntact
  OBVIOUS
<1>1. Body!GotSize \in Nat
  BY GotMore DEF BodyInv
<1>2. remaining_limit \in Nat \cup {None} /\ limit \in Nat \cup {None} /\ allowance \in Nat
  BY DEF BodyInv, BodyTypes
<1>3. Body!YieldedWithinLimit
  BY <1>1, <1>2 DEF Body!BodyOK, BodyInv, LimitKept, Body!YieldedWithinLimit
<1>4. Body!AbortedOnlyOnMismatch
  BY DEF BodyInv, Aborted, Body!AbortedOnlyOnMismatch
<1> QED BY <1>3, <1>4 DEF BodyInv, Body!BodyIntact

\* A body is neither cut off quietly, nor aborted without a reason, nor let beyond its limit
\* (poll_frame of both bodies, prepare, extract_full_body): for all bodies, declared lengths
\* and limits, and for readers that go on after an error.
THEOREM BodyIntactHolds == Body!Spec => []BodyIntact
<1>1. Body!Init => BodyInv
  BY BodyInit, ComponentsAssumption
<1>2. BodyInv /\ [Body!Next]_(Body!vars) => BodyInv'
  BY BodyNext, ComponentsAssumption
<1>3. BodyInv => BodyIntact
  BY BodyInvIntact, ComponentsAssumption DEF BodyIntact
<1> QED BY <1>1, <1>2, <1>3, PTL DEF Body!Spec

-----------------------------------------------------------------------------
(* AwsChunkedStream: for all bodies, whatever became of them on the way,   *)
(* all chains of signatures and all ways of cutting a body into frames.    *)
(* FlattenSeq is computed by a recursive function; what the proof needs of *)
(* it comes first.                                                         *)

\* The sequences joined so far, for the first m of them.
JoinedUpTo(seqs, m, f) ==
    f = [j \in 1..m |-> IF j = 1 THEN seqs[j] ELSE f[j - 1] \o seqs[j]]

LEMMA JoinExists ==
    ASSUME NEW seqs, Len(seqs) \in Nat, NEW m \in 1..Len(seqs)
    PROVE  \E f : JoinedUpTo(seqs, m, f)
<1> DEFINE T == {n \in 1..Len(seqs) : ~\E f : JoinedUpTo(seqs, n, f)}
<1> SUFFICES ASSUME m \in T PROVE FALSE
  OBVIOUS
<1>1. PICK x \in T : \A y \in T : x <= y
  <2>1. T \subseteq Nat /\ T # {}
    OBVIOUS
  <2> HIDE DEF T
  <2> QED BY <2>1, LeastElement
<1>2. JoinedUpTo(seqs, 1, [j \in 1..1 |-> seqs[1]])
  BY DEF JoinedUpTo
<1>3. x # 1 /\ x \in 1..Len(seqs)
  BY <1>1, <1>2
<1>4. x - 1 \notin T /\ x - 1 \in 1..Len(seqs)
  BY <1>1, <1>3
<1>5. PICK f : JoinedUpTo(seqs, x - 1, f)
  BY <1>4
<1> DEFINE g == [j \in 1..x |-> IF j = x THEN f[x - 1] \o seqs[x] ELSE f[j]]
<1>6. ASSUME NEW n \in 1..x PROVE g[n] = IF n = 1 THEN seqs[n] ELSE g[n - 1] \o seqs[n]
  <2>1. CASE n = x
    <3>1. x \in 1..x /\ x - 1 \in 1..x /\ x - 1 # x
      BY <1>3
    <3>2. g[x] = f[x - 1] \o seqs[x] /\ g[x - 1] = f[x - 1]
      BY <3>1, Zenon
    <3> QED BY <1>3, <2>1, <3>2, Zenon
  <2>2. CASE n # x
    <3>1. n \in 1..x - 1
      BY <2>2, <1>3
    <3>2. f[n] = IF n = 1 THEN seqs[n] ELSE f[n - 1] \o seqs[n]
      BY <3>1, <1>5 DEF JoinedUpTo
    <3> QED BY <3>1, <3>2, <1>3
  <2> QED BY <2>1, <2>2
<1>7. JoinedUpTo(seqs, x, g)
  <2>1. g = [j \in 1..x |-> g[j]]
    OBVIOUS
  <2> HIDE DEF g
  <2> QED BY <1>6, <2>1 DEF JoinedUpTo
<1> QED BY <1>1, <1>7

\* What FlattenSeq computes, step by step.
LEMMA FlattenDef ==
    ASSUME NEW seqs, Len(seqs) \in Nat \ {0}
    PROVE  \E f : /\ Chunked!FlattenSeq(seqs) = f[Len(seqs)] /\ f[1] = seqs[1]
                  /\ \A n \in 2..Len(seqs) : f[n] = f[n - 1] \o seqs[n]
<1> DEFINE b == CHOOSE g : JoinedUpTo(seqs, Len(seqs), g)
<1>1. \E f : JoinedUpTo(seqs, Len(seqs), f)
  <2>1. Len(seqs) \in 1..Len(seqs)
    OBVIOUS
  <2> QED BY JoinExists, <2>1
<1>2. JoinedUpTo(seqs, Len(seqs), b)
  BY <1>1, Zenon
<1>3. Chunked!FlattenSeq(seqs) = b[Len(seqs)]
  <2>1. Len(seqs) # 0
    OBVIOUS
  <2> QED BY <2>1, Zenon DEF Chunked!FlattenSeq, JoinedUpTo
<1> HIDE DEF b
<1>4. \A n \in 1..Len(seqs) : b[n] = IF n = 1 THEN seqs[n] ELSE b[n - 1] \o seqs[n]
  BY <1>2 DEF JoinedUpTo
<1>5. b[1] = seqs[1]
  <2>1. 1 \in 1..Len(seqs)
    OBVIOUS
  <2> QED BY <1>4, <2>1, Zenon
<1>6. ASSUME NEW n \in 2..Len(seqs) PROVE b[n] = b[n - 1] \o seqs[n]
  <2>1. n \in 1..Len(seqs) /\ n # 1
    OBVIOUS
  <2> QED BY <1>4, <2>1, Zenon
<1> QED BY <1>3, <1>5, <1>6

LEMMA FlattenEmpty == Chunked!FlattenSeq(<<>>) = <<>>
  BY DEF Chunked!FlattenSeq

\* One more sequence at the end.
LEMMA FlattenAppend ==
    ASSUME NEW S, NEW seqs \in Seq(Seq(S)), NEW a \in Seq(S)
    PROVE  Chunked!FlattenSeq(Append(seqs, a)) = Chunked!FlattenSeq(seqs) \o a
<1> DEFINE t == Append(seqs, a)
<1>1. /\ t \in Seq(Seq(S)) /\ Len(t) = Len(seqs) + 1 /\ Len(seqs) \in Nat
      /\ t[Len(seqs) + 1] = a
  OBVIOUS
<1>2. \A n \in 1..Len(seqs) : t[n] = seqs[n]
  OBVIOUS
<1> HIDE DEF t
<1>3. PICK h : /\ Chunked!FlattenSeq(t) = h[Len(t)] /\ h[1] = t[1]
               /\ \A n \in 2..Len(t) : h[n] = h[n - 1] \o t[n]
  <2>1. Len(t) \in Nat \ {0}
    BY <1>1
  <2> QED BY <2>1, FlattenDef
<1>4. CASE seqs = <<>>
  <2>1. Len(t) = 1 /\ t[1] = a
    BY <1>1, <1>4
  <2>2. Chunked!FlattenSeq(t) = a
    BY <1>3, <2>1
  <2>3. Chunked!FlattenSeq(seqs) = <<>>
    BY <1>4, FlattenEmpty
  <2>4. <<>> \o a = a
    OBVIOUS
  <2> QED BY <2>2, <2>3, <2>4 DEF t
<1>5. CASE seqs # <<>>
  <2>1. Len(seqs) \in Nat \ {0}
    BY <1>5
  <2>2. PICK g : /\ Chunked!FlattenSeq(seqs) = g[Len(seqs)] /\ g[1] = seqs[1]
                 /\ \A n \in 2..Len(seqs) : g[n] = g[n - 1] \o seqs[n]
    BY <2>1, FlattenDef
  <2> DEFINE T == {n \in 1..Len(seqs) : g[n] # h[n]}
  <2>3. T = {}
    <3> SUFFICES ASSUME T # {} PROVE FALSE
      OBVIOUS
    <3>1. PICK x \in T : \A y \in T : x <= y
      <4>1. T \subseteq Nat
        OBVIOUS
      <4> HIDE DEF T
      <4> QED BY <4>1, LeastElement
    <3>2. x \in 1..Len(seqs) /\ g[x] # h[x]
      OBVIOUS
    <3>3. 1 \in 1..Len(seqs)
      BY <2>1
    <3>4. x # 1
      BY <1>2, <1>3, <2>2, <3>2, <3>3
    <3>5. x \in 2..Len(seqs) /\ x \in 2..Len(t) /\ x - 1 \in 1..Len(seqs) /\ x - 1 < x
      BY <1>1, <3>2, <3>4
    <3>6. g[x - 1] = h[x - 1]
      <4>1. x - 1 \notin T
        <5> HIDE DEF T
        <5> QED BY <3>1, <3>2, <3>5
      <4> QED BY <3>5, <4>1
    <3>7. g[x] = g[x - 1] \o seqs[x] /\ h[x] = h[x - 1] \o t[x]
      BY <1>3, <2>2, <3>5
    <3>8. t[x] = seqs[x]
      BY <1>2, <3>2
    <3> QED BY <3>2, <3>6, <3>7, <3>8
  <2>4. g[Len(seqs)] = h[Len(seqs)]
    <3>1. Len(seqs) \in 1..Len(seqs)
      BY <2>1
    <3> QED BY <2>3, <3>1
  <2>5. h[Len(t)] = h[Len(seqs)] \o a
    <3>1. Len(t) \in 2..Len(t) /\ Len(t) - 1 = Len(seqs)
      BY <1>1, <2>1
    <3>2. h[Len(t)] = h[Len(t) - 1] \o t[Len(t)]
      BY <1>3, <3>1, Zenon
    <3> QED BY <1>1, <3>1, <3>2
  <2> QED BY <1>3, <2>2, <2>4, <2>5 DEF t
<1> QED BY <1>4, <1>5

LEMMA Concat3 ==
    ASSUME NEW S, NEW a \in Seq(S), NEW b \in Seq(S), NEW c \in Seq(S)
    PROVE  (a \o b) \o c = a \o (b \o c)
  OBVIOUS

\* A sequence that is not empty has a last element and the ones before it.
LEMMA LastOf ==
    ASSUME NEW S, NEW s \in Seq(S), Len(s) # 0
    PROVE  \E r \in Seq(S), a \in S : s = Append(r, a) /\ Len(r) = Len(s) - 1
<1>1. s # <<>>
  OBVIOUS
<1>2. PICK r \in Seq(S), a \in S : s = Append(r, a)
  BY <1>1, SequenceEmptyOrAppend
<1>3. Len(r) = Len(s) - 1
  BY <1>2
<1> QED BY <1>2, <1>3

\* Joined sequences over a set are one over the set.
LEMMA FlattenType ==
    ASSUME NEW S, NEW seqs \in Seq(Seq(S))
    PROVE  Chunked!FlattenSeq(seqs) \in Seq(S)
<1> DEFINE T == {n \in Nat : \E s \in Seq(Seq(S)) : Len(s) = n /\ Chunked!FlattenSeq(s) \notin Seq(S)}
<1> SUFFICES ASSUME Chunked!FlattenSeq(seqs) \notin Seq(S) PROVE FALSE
  OBVIOUS
<1>1. Len(seqs) \in T
  BY Zenon, LenProperties
<1>2. PICK x \in T : \A y \in T : x <= y
  <2>1. T \subseteq Nat /\ T # {}
    BY <1>1
  <2> HIDE DEF T
  <2> QED BY <2>1, LeastElement
<1>3. PICK s \in Seq(Seq(S)) : Len(s) = x /\ Chunked!FlattenSeq(s) \notin Seq(S)
  OBVIOUS
<1>4. x # 0
  <2> SUFFICES ASSUME x = 0 PROVE FALSE
    OBVIOUS
  <2>1. s = <<>>
    BY <1>3
  <2>2. Chunked!FlattenSeq(s) = <<>>
    BY <2>1, FlattenEmpty
  <2> QED BY <1>3, <2>2
<1>5. PICK r \in Seq(Seq(S)), a \in Seq(S) : s = Append(r, a) /\ Len(r) = Len(s) - 1
  <2> DEFINE SS == Seq(S)
  <2> HIDE DEF SS
  <2>1. s \in Seq(SS) /\ Len(s) # 0
    BY <1>3, <1>4 DEF SS
  <2>2. \E r \in Seq(SS), a \in SS : s = Append(r, a) /\ Len(r) = Len(s) - 1
    BY <2>1, LastOf
  <2> QED BY <2>2 DEF SS
<1>6. Len(r) \in Nat /\ Len(r) < x /\ x \in Nat
  BY <1>3, <1>4, <1>5
<1>7. Len(r) \notin T
  <2> HIDE DEF T
  <2> QED BY <1>2, <1>6
<1>8. Chunked!FlattenSeq(r) \in Seq(S)
  BY <1>6, <1>7
<1>9. Chunked!FlattenSeq(s) = Chunked!FlattenSeq(r) \o a
  BY <1>5, FlattenAppend
<1>10. Chunked!FlattenSeq(r) \o a \in Seq(S)
  BY <1>8
<1> QED BY <1>3, <1>9, <1>10

\* One more sequence in front.
LEMMA FlattenCons ==
    ASSUME NEW S, NEW seqs \in Seq(Seq(S)), NEW b \in Seq(S)
    PROVE  Chunked!FlattenSeq(<<b>> \o seqs) = b \o Chunked!FlattenSeq(seqs)
<1> DEFINE T == {n \in Nat : \E s \in Seq(Seq(S)) : Len(s) = n /\ Chunked!FlattenSeq(<<b>> \o s) # b \o Chunked!FlattenSeq(s)}
<1> SUFFICES ASSUME Chunked!FlattenSeq(<<b>> \o seqs) # b \o Chunked!FlattenSeq(seqs) PROVE FALSE
  OBVIOUS
<1>1. Len(seqs) \in T
  BY Zenon, LenProperties
<1>2. PICK x \in T : \A y \in T : x <= y
  <2>1. T \subseteq Nat /\ T # {}
    BY <1>1
  <2> HIDE DEF T
  <2> QED BY <2>1, LeastElement
<1>3. PICK s \in Seq(Seq(S)) : Len(s) = x /\ Chunked!FlattenSeq(<<b>> \o s) # b \o Chunked!FlattenSeq(s)
  OBVIOUS
<1>4. x # 0
  <2> SUFFICES ASSUME x = 0 PROVE FALSE
    OBVIOUS
  <2>1. s = <<>>
    BY <1>3
  <2>2. <<b>> \o s = Append(<<>>, b)
    BY <2>1
  <2>3. <<>> \in Seq(Seq(S))
    OBVIOUS
  <2>4. Chunked!FlattenSeq(Append(<<>>, b)) = Chunked!FlattenSeq(<<>>) \o b
    BY <2>3, FlattenAppend
  <2>5. Chunked!FlattenSeq(s) = <<>>
    BY <2>1, FlattenEmpty
  <2>6. <<>> \o b = b /\ b \o <<>> = b
    OBVIOUS
  <2> QED BY <1>3, <2>1, <2>2, <2>4, <2>5, <2>6
<1>5. PICK r \in Seq(Seq(S)), a \in Seq(S) : s = Append(r, a) /\ Len(r) = Len(s) - 1
  <2> DEFINE SS == Seq(S)
  <2> HIDE DEF SS
  <2>1. s \in Seq(SS) /\ Len(s) # 0
    BY <1>3, <1>4 DEF SS
  <2>2. \E r \in Seq(SS), a \in SS : s = Append(r, a) /\ Len(r) = Len(s) - 1
    BY <2>1, LastOf
  <2> QED BY <2>2 DEF SS
<1>6. Len(r) \in Nat /\ Len(r) < x /\ x \in Nat
  BY <1>3, <1>4, <1>5
<1>7. Len(r) \notin T
  <2> HIDE DEF T
  <2> QED BY <1>2, <1>6
<1>8. Chunked!FlattenSeq(<<b>> \o r) = b \o Chunked!FlattenSeq(r)
  BY <1>6, <1>7
<1>9. <<b>> \o s = Append(<<b>> \o r, a) /\ <<b>> \o r \in Seq(Seq(S))
  <2> DEFINE SS == Seq(S)
  <2>1. r \in Seq(SS) /\ a \in SS /\ b \in SS
    OBVIOUS
  <2> HIDE DEF SS
  <2>2. <<b>> \o Append(r, a) = Append(<<b>> \o r, a) /\ <<b>> \o r \in Seq(SS)
    <3>1. <<b>> \in Seq(SS) /\ <<a>> \in Seq(SS)
      BY <2>1
    <3>2. <<b>> \o r \in Seq(SS)
      BY <2>1, <3>1, ConcatProperties
    <3>3. Append(r, a) = r \o <<a>> /\ Append(<<b>> \o r, a) = (<<b>> \o r) \o <<a>>
      BY <2>1, <3>2, AppendIsConcat
    <3>4. (<<b>> \o r) \o <<a>> = <<b>> \o (r \o <<a>>)
      BY ONLY <2>1, <3>1, Concat3
    <3> QED BY <3>2, <3>3, <3>4, Zenon
  <2> QED BY <1>5, <2>2 DEF SS
<1>10. Chunked!FlattenSeq(<<b>> \o s) = (b \o Chunked!FlattenSeq(r)) \o a
  BY <1>8, <1>9, FlattenAppend
<1>11. Chunked!FlattenSeq(s) = Chunked!FlattenSeq(r) \o a
  BY <1>5, FlattenAppend
<1>12. Chunked!FlattenSeq(r) \in Seq(S)
  BY FlattenType
<1>13. (b \o Chunked!FlattenSeq(r)) \o a = b \o (Chunked!FlattenSeq(r) \o a)
  <2> DEFINE m == Chunked!FlattenSeq(r)
  <2>1. m \in Seq(S) /\ b \in Seq(S) /\ a \in Seq(S)
    BY <1>12
  <2> HIDE DEF m
  <2>2. (b \o m) \o a = b \o (m \o a)
    <3> HIDE DEF T
    <3> QED BY ONLY <2>1, Concat3
  <2> QED BY <2>2 DEF m
<1> QED BY <1>3, <1>10, <1>11, <1>13
-----------------------------------------------------------------------------
\* The data of the first n chunks the client signed.
DataOf(n) == Chunked!FlattenSeq([i \in 1..n |-> input.chain[i][2]])

ChunkTypes ==
    /\ input \in Input
    /\ chunked_wire \in Seq(Chunked!Sent(input)) /\ frame \in Seq(Chunked!Sent(input)) /\ buf \in Seq(Chunked!Sent(input))
    /\ data \in Seq(Seq(Chunked!Sent(input))) /\ chunked_out \in Seq(Chunked!Sent(input))
    /\ worker \in {"meta", "data", "cr", "lf", "sign", "yield", "trailers", "stopped"}
    /\ meta = Chunked!Meta(0, NoSig) \/ (meta \in Chunked!Sent(input) /\ meta[1] = "meta")
    /\ need \in Nat /\ chunked_remaining \in Nat

ChunkLengths ==
    /\ Len(chunked_out) + chunked_remaining = input.declared
    /\ chunked_result = "end" => chunked_remaining = 0

\* Where the worker is tells whether there is a chunk with data.
InChunk ==
    /\ worker \in {"data", "cr", "lf"} => meta[2] # 0 /\ (meta[3] = NoSig => data = <<>>)
    /\ worker \in {"cr", "lf"} /\ meta[3] # NoSig => data # <<>>
    /\ worker = "sign" => meta[3] # NoSig /\ (meta[2] = 0 <=> data = <<>>)
    /\ worker = "yield" => data # <<>>
    /\ worker \in {"meta", "trailers"} => data = <<>>

\* In a signed mode, every chunk has its signature.
HasSignature == worker \in {"data", "cr", "lf", "sign", "yield", "trailers"} => meta[3] # NoSig

\* The chain is the client's so far, and its data has been yielded or is about to be.
ChainKept ==
    /\ Len(prev) <= Len(input.chain) /\ prev = SubSeq(input.chain, 1, Len(prev))
    /\ worker \notin {"yield", "stopped"} => chunked_out = DataOf(Len(prev))
    /\ worker = "yield" => chunked_out \o Chunked!FlattenSeq(data) = DataOf(Len(prev))
    /\ worker = "stopped" => Chunked!IsPrefix(chunked_out, Chunked!SignedData)

TrailersKept ==
    trailers # Chunked!NoTrailers =>
        /\ worker = "stopped"
        /\ Chunked!Canonical(trailers) = Chunked!Canonical(input.trailers) /\ prev = input.chain

ChunkInv ==
    /\ ChunkTypes /\ InChunk /\ ChunkLengths
    /\ ~input.unsigned => HasSignature /\ ChainKept /\ TrailersKept


-----------------------------------------------------------------------------
\* A part of a sequence.
LEMMA PartOf ==
    ASSUME NEW S, NEW s \in Seq(S), NEW m \in 1..Len(s) + 1, NEW n \in 0..Len(s)
    PROVE  /\ SubSeq(s, m, n) \in Seq(S)
           /\ Len(SubSeq(s, m, n)) = IF m <= n THEN n - m + 1 ELSE 0
           /\ \A k \in 1..n - m + 1 : SubSeq(s, m, n)[k] = s[m + k - 1]
<1>1. \A k \in m..n : s[k] \in S
  OBVIOUS
<1>2. m \in Int /\ n \in Int
  OBVIOUS
<1> QED BY <1>1, <1>2, SubSeqProperties

LEMMA PrefixIff ==
    ASSUME NEW S, NEW a \in Seq(S), NEW b \in Seq(S)
    PROVE  Chunked!IsPrefix(a, b) <=> Len(a) <= Len(b) /\ \A k \in 1..Len(a) : a[k] = b[k]
<1>1. CASE Len(a) <= Len(b)
  <2> DEFINE p == SubSeq(a, 1, Len(a))
             q == SubSeq(b, 1, Len(a))
  <2>1. 1 \in 1..Len(a) + 1 /\ Len(a) \in 0..Len(a) /\ 1 \in 1..Len(b) + 1 /\ Len(a) \in 0..Len(b)
    BY <1>1
  <2>2. p = a
    BY SubSeqFull
  <2>3. q \in Seq(S) /\ Len(q) = IF 1 <= Len(a) THEN Len(a) - 1 + 1 ELSE 0
    BY <2>1, PartOf
  <2>4. \A k \in 1..Len(a) - 1 + 1 : q[k] = b[1 + k - 1]
    BY <2>1, PartOf
  <2> HIDE DEF p, q
  <2>5. Len(q) = Len(a)
    BY <2>3
  <2>6. \A k \in 1..Len(a) : q[k] = b[k]
    BY <2>4
  <2>7. p = q <=> \A k \in 1..Len(a) : a[k] = b[k]
    <3>1. ASSUME \A k \in 1..Len(a) : a[k] = b[k] PROVE a = q
      BY <2>3, <2>5, <2>6, <3>1, SeqEqual
    <3> QED BY <2>2, <2>6, <3>1
  <2> QED BY <1>1, <2>7 DEF Chunked!IsPrefix, p, q
<1>2. CASE ~(Len(a) <= Len(b))
  BY <1>2 DEF Chunked!IsPrefix
<1> QED BY <1>1, <1>2

LEMMA PrefixCat ==
    ASSUME NEW S, NEW a \in Seq(S), NEW b \in Seq(S)
    PROVE  Chunked!IsPrefix(a, a \o b) /\ Chunked!IsPrefix(a, a)
<1>1. a \o b \in Seq(S) /\ Len(a) <= Len(a \o b) /\ \A k \in 1..Len(a) : a[k] = (a \o b)[k]
  OBVIOUS
<1>2. Chunked!IsPrefix(a, a \o b)
  BY <1>1, PrefixIff
<1>3. Len(a) <= Len(a)
  OBVIOUS
<1> QED BY <1>2, <1>3, PrefixIff

LEMMA PrefixTrans ==
    ASSUME NEW S, NEW a \in Seq(S), NEW b \in Seq(S), NEW c \in Seq(S),
           Chunked!IsPrefix(a, b), Chunked!IsPrefix(b, c)
    PROVE  Chunked!IsPrefix(a, c)
<1>1. Len(a) <= Len(b) /\ \A k \in 1..Len(a) : a[k] = b[k]
  BY PrefixIff
<1>2. Len(b) <= Len(c) /\ \A k \in 1..Len(b) : b[k] = c[k]
  BY PrefixIff
<1>3. Len(a) <= Len(c) /\ \A k \in 1..Len(a) : a[k] = c[k]
  BY <1>1, <1>2
<1> QED BY <1>3, PrefixIff

LEMMA PrefixWhole ==
    ASSUME NEW S, NEW a \in Seq(S), NEW b \in Seq(S), Chunked!IsPrefix(a, b), Len(a) = Len(b)
    PROVE  a = b
<1>1. \A k \in 1..Len(a) : a[k] = b[k]
  BY PrefixIff
<1> QED BY <1>1, SeqEqual

-----------------------------------------------------------------------------
\* What is sent is made of units, as is what was signed.
LEMMA InputTypes ==
    ASSUME Chunked!InputsOK, input \in Input
    PROVE  /\ input.declared \in Nat
           /\ Seq(Chunked!Sent(input)) \subseteq Seq(Chunked!Unit(input))
           /\ input.body \in Seq(Chunked!Sent(input))
           /\ input.chain \in Seq({"chunk"} \X Seq(Chunked!Unit(input)))
           /\ \A u \in Chunked!Sent(input) :
               /\ u[1] = "meta" => u[2] \in Nat /\ u[3] \in {NoSig, Junk} \cup
                                     {SubSeq(input.chain, 1, k) : k \in 1..Len(input.chain)}
               /\ u[1] = "tsig" => u[2] \in {Junk, Chunked!SignTrailers(input.chain, input.trailers)}
<1>1. Chunked!InputOK(input)
  BY DEF Chunked!InputsOK
<1>2. Chunked!Sent(input) \subseteq Chunked!Unit(input)
  BY DEF Chunked!Unit
<1>3. Seq(Chunked!Sent(input)) \subseteq Seq(Chunked!Unit(input))
  BY <1>2, SeqMonotonic
<1> QED BY <1>1, <1>3 DEF Chunked!InputOK

\* The data of the client's chunks, one by one.
LEMMA DataOfStep ==
    ASSUME Chunked!InputsOK, input \in Input
    PROVE  /\ DataOf(0) = <<>> /\ Chunked!SignedData = DataOf(Len(input.chain))
           /\ \A n \in 0..Len(input.chain) : DataOf(n) \in Seq(Chunked!Unit(input))
           /\ \A n \in 1..Len(input.chain) : DataOf(n) = DataOf(n - 1) \o input.chain[n][2]
<1> DEFINE U == Chunked!Unit(input)
           chain == input.chain
           D(n) == [j \in 1..n |-> chain[j][2]]
<1>1. chain \in Seq({"chunk"} \X Seq(U)) /\ Len(chain) \in Nat
  BY InputTypes
<1>2. \A n \in 1..Len(chain) : chain[n][2] \in Seq(U)
  <2> HIDE DEF U, chain
  <2>1. \A n \in 1..Len(chain) : chain[n] \in {"chunk"} \X Seq(U)
    BY <1>1
  <2> QED BY <2>1
<1>3. ASSUME NEW n \in 0..Len(chain) PROVE D(n) \in Seq(Seq(U)) /\ Len(D(n)) = n
  <2> DEFINE SU == Seq(U)
  <2>1. \A j \in 1..n : chain[j][2] \in SU
    BY <1>1, <1>2
  <2> HIDE DEF SU, chain
  <2>2. D(n) \in Seq(SU) /\ Len(D(n)) = n
    BY <2>1
  <2> QED BY <2>2 DEF SU
<1>4. DataOf(0) = <<>>
  <2>1. D(0) = <<>>
    OBVIOUS
  <2> QED BY <2>1, FlattenEmpty DEF DataOf
<1>5. Chunked!SignedData = DataOf(Len(chain))
  BY DEF Chunked!SignedData, DataOf
<1>6. ASSUME NEW n \in 0..Len(chain) PROVE DataOf(n) \in Seq(U)
  <2>1. DataOf(n) = Chunked!FlattenSeq(D(n))
    BY DEF DataOf
  <2> HIDE DEF D, U, chain
  <2> QED BY <1>3, <2>1, FlattenType
<1>7. ASSUME NEW n \in 1..Len(chain) PROVE DataOf(n) = DataOf(n - 1) \o chain[n][2]
  <2>1. n - 1 \in 0..Len(chain) /\ n \in 0..Len(chain)
    BY <1>1
  <2>2. D(n) = Append(D(n - 1), chain[n][2])
    <3> DEFINE SU == Seq(U)
               a == chain[n][2]
               s == D(n - 1)
               t == D(n)
    <3>1. s \in Seq(SU) /\ Len(s) = n - 1 /\ t \in Seq(SU) /\ Len(t) = n /\ a \in SU
      BY <1>2, <1>3, <2>1
    <3>2. \A j \in 1..n - 1 : t[j] = s[j]
      BY <1>1
    <3>3. t[n] = a
      BY <1>1
    <3> HIDE DEF SU, a, s, t, U, chain
    <3>4. Append(s, a) \in Seq(SU) /\ Len(Append(s, a)) = n /\ Append(s, a)[n] = a
      BY <3>1
    <3>5. \A j \in 1..n : t[j] = Append(s, a)[j]
      BY <3>1, <3>2, <3>3, <3>4
    <3>6. t = Append(s, a)
      BY <3>1, <3>4, <3>5, SeqEqual
    <3> QED BY <3>6 DEF s, t, a
  <2>3. DataOf(n) = Chunked!FlattenSeq(D(n)) /\ DataOf(n - 1) = Chunked!FlattenSeq(D(n - 1))
    BY DEF DataOf
  <2>4. D(n - 1) \in Seq(Seq(U)) /\ chain[n][2] \in Seq(U)
    BY <1>2, <1>3, <2>1
  <2> HIDE DEF D, U, chain
  <2> QED BY <2>2, <2>3, <2>4, FlattenAppend
<1> QED BY <1>4, <1>5, <1>6, <1>7

\* The data of some of the client's chunks is a prefix of all.
LEMMA DataOfPrefix ==
    ASSUME Chunked!InputsOK, input \in Input, NEW k \in 0..Len(input.chain)
    PROVE  Chunked!IsPrefix(DataOf(k), Chunked!SignedData)
<1> DEFINE U == Chunked!Unit(input)
           all == Len(input.chain)
           T == {n \in k..all : ~Chunked!IsPrefix(DataOf(k), DataOf(n))}
<1>1. all \in Nat
  BY InputTypes
<1>2. \A n \in 0..all : DataOf(n) \in Seq(U)
  BY DataOfStep
<1>3. T = {}
  <2> SUFFICES ASSUME T # {} PROVE FALSE
    OBVIOUS
  <2>1. T \subseteq Nat
    BY <1>1
  <2>2. PICK x \in T : \A y \in T : x <= y
    <3> HIDE DEF T
    <3> QED BY <2>1, LeastElement
  <2>3. x \in k..all /\ ~Chunked!IsPrefix(DataOf(k), DataOf(x)) /\ x \in Nat
    BY <1>1
  <2>4. x # k
    BY <1>2, <2>3, PrefixCat
  <2>5. x \in 1..all /\ x - 1 \in k..all /\ x - 1 \in 0..all /\ x - 1 < x /\ k \in 0..all
    BY <1>1, <2>3, <2>4
  <2>6. x - 1 \notin T
    <3> HIDE DEF T
    <3> QED BY <2>2, <2>3, <2>5
  <2>7. Chunked!IsPrefix(DataOf(k), DataOf(x - 1))
    BY <2>5, <2>6
  <2>8. DataOf(x) = DataOf(x - 1) \o input.chain[x][2]
    BY <2>5, DataOfStep
  <2>9. input.chain[x][2] \in Seq(U)
    <3>1. input.chain \in Seq({"chunk"} \X Seq(U))
      BY InputTypes
    <3>2. input.chain[x] \in {"chunk"} \X Seq(U)
      <4> HIDE DEF U
      <4> QED BY <2>5, <3>1
    <3> QED BY <3>2
  <2>10. Chunked!IsPrefix(DataOf(x - 1), DataOf(x))
    <3> HIDE DEF U
    <3> QED BY <1>2, <2>5, <2>8, <2>9, PrefixCat
  <2> HIDE DEF U, T
  <2>11. DataOf(k) \in Seq(U) /\ DataOf(x - 1) \in Seq(U) /\ DataOf(x) \in Seq(U)
    BY <1>2, <2>5
  <2> QED BY <2>3, <2>7, <2>10, <2>11, PrefixTrans
<1>4. Chunked!IsPrefix(DataOf(k), DataOf(all))
  BY <1>1, <1>3
<1> QED BY <1>4, DataOfStep

-----------------------------------------------------------------------------
\* A stream starts with nothing read.
LEMMA ChunkTypesInit == ASSUME Chunked!InputsOK, Chunked!Init PROVE ChunkTypes /\ InChunk /\ ChunkLengths
<1>1. input \in Input
  BY DEF Chunked!Init
<1>2. input.body \in Seq(Chunked!Sent(input)) /\ input.declared \in Nat
  BY <1>1, InputTypes
<1>3. <<>> \in Seq(Chunked!Sent(input)) /\ <<>> \in Seq(Seq(Chunked!Sent(input))) /\ Len(<<>>) = 0
  OBVIOUS
<1> QED BY <1>1, <1>2, <1>3 DEF Chunked!Init, ChunkTypes, InChunk, ChunkLengths

\* How a chunk header is read.
LEMMA MetaStep ==
    ASSUME ChunkTypes, Chunked!ReadMeta
    PROVE  /\ input' = input /\ chunked_wire' = chunked_wire /\ data' = data /\ prev' = prev /\ chunked_out' = chunked_out
           /\ chunked_remaining' = chunked_remaining /\ trailers' = trailers
           /\ worker = "meta" /\ frame' = Tail(frame) /\ frame # <<>>
           /\ \/ /\ worker' = "stopped" /\ chunked_result' # "end" /\ buf' \in {buf, <<>>}
                 /\ meta' = meta /\ need' = need
              \/ /\ worker' = worker /\ chunked_result' = chunked_result /\ buf' = Append(buf, Head(frame))
                 /\ meta' = meta /\ need' = need
              \/ /\ Head(frame)[1] = "meta" /\ meta' = Head(frame) /\ need' = Head(frame)[2]
                 /\ IF Head(frame)[3] = NoSig THEN input.unsigned ELSE TRUE
                 /\ worker' = Chunked!AfterMeta(Head(frame)) /\ chunked_result' = chunked_result /\ buf' = <<>>
<1> DEFINE line == Append(buf, Head(frame))
           m == Head(frame)
<1>1. /\ input' = input /\ chunked_wire' = chunked_wire /\ data' = data /\ prev' = prev /\ chunked_out' = chunked_out
      /\ chunked_remaining' = chunked_remaining /\ trailers' = trailers
      /\ worker = "meta" /\ frame' = Tail(frame) /\ frame # <<>>
  BY DEF Chunked!ReadMeta
<1>2. \/ Len(line) > MaxMeta /\ Chunked!Stop("Underlying") /\ UNCHANGED <<buf, meta, need>>
      \/ buf' = line /\ UNCHANGED <<worker, chunked_result, meta, need>>
      \/ /\ buf' = <<>>
         /\ \/ Chunked!Stop("FormatError") /\ UNCHANGED <<meta, need>>
            \/ Chunked!Stop("ChunkDataTooLarge") /\ UNCHANGED <<meta, need>>
            \/ /\ m[1] = "meta" /\ IF m[3] = NoSig THEN input.unsigned ELSE m[2] <= MaxChunk
               /\ meta' = m /\ need' = m[2] /\ Chunked!Goto(Chunked!AfterMeta(m))
  BY Zenon DEF Chunked!ReadMeta
<1> HIDE DEF line, m
<1>3. CASE Chunked!Stop("Underlying") /\ UNCHANGED <<buf, meta, need>>
  BY <1>1, <1>3 DEF Chunked!Stop
<1>4. CASE buf' = line /\ UNCHANGED <<worker, chunked_result, meta, need>>
  BY <1>1, <1>4 DEF line
<1>5. CASE buf' = <<>> /\ Chunked!Stop("FormatError") /\ UNCHANGED <<meta, need>>
  BY <1>1, <1>5 DEF Chunked!Stop
<1>6. CASE buf' = <<>> /\ Chunked!Stop("ChunkDataTooLarge") /\ UNCHANGED <<meta, need>>
  BY <1>1, <1>6 DEF Chunked!Stop
<1>7. CASE /\ buf' = <<>> /\ m[1] = "meta" /\ IF m[3] = NoSig THEN input.unsigned ELSE m[2] <= MaxChunk
           /\ meta' = m /\ need' = m[2] /\ Chunked!Goto(Chunked!AfterMeta(m))
  <2>1. IF m[3] = NoSig THEN input.unsigned ELSE TRUE
    BY <1>7, Zenon
  <2> QED BY <1>1, <1>7, <2>1 DEF Chunked!Goto, m
<1> QED BY <1>2, <1>3, <1>4, <1>5, <1>6, <1>7

\* How data is read: kept in a signed mode, yielded otherwise.
LEMMA DataRead ==
    ASSUME ChunkTypes, Chunked!ReadData
    PROVE  \E f \in Seq(Chunked!Sent(input)) :
             /\ input' = input /\ chunked_wire' = chunked_wire /\ buf' = buf /\ meta' = meta /\ prev' = prev
             /\ trailers' = trailers /\ worker = "data"
             /\ frame' \in Seq(Chunked!Sent(input)) /\ need' \in Nat
             /\ \/ /\ meta[3] # NoSig /\ data' = Append(data, f) /\ worker' \in {"cr", "data"}
                   /\ chunked_result' = chunked_result /\ chunked_out' = chunked_out /\ chunked_remaining' = chunked_remaining
                \/ /\ meta[3] = NoSig /\ data' = data
                   /\ \/ /\ Len(f) <= chunked_remaining /\ chunked_out' = chunked_out \o f /\ chunked_remaining' = chunked_remaining - Len(f)
                         /\ worker' \in {"cr", "data"} /\ chunked_result' = chunked_result
                      \/ /\ worker' = "stopped" /\ chunked_result' # "end" /\ chunked_out' = chunked_out /\ chunked_remaining' = chunked_remaining
<1> DEFINE n == IF need <= Len(frame) THEN need ELSE Len(frame)
           f == SubSeq(frame, 1, n)
           goon == IF n = need THEN "cr" ELSE "data"
<1>1. frame \in Seq(Chunked!Sent(input)) /\ need \in Nat /\ chunked_remaining \in Nat
  BY DEF ChunkTypes
<1>2. n \in 0..Len(frame) /\ need - n \in Nat
  BY <1>1
<1>3. /\ input' = input /\ chunked_wire' = chunked_wire /\ buf' = buf /\ meta' = meta /\ prev' = prev
      /\ trailers' = trailers /\ worker = "data"
      /\ frame' = SubSeq(frame, n + 1, Len(frame)) /\ need' = need - n
      /\ \/ meta[3] # NoSig /\ data' = Append(data, f) /\ Chunked!Goto(goon) /\ UNCHANGED <<chunked_out, chunked_remaining>>
         \/ /\ meta[3] = NoSig /\ UNCHANGED data /\ Chunked!Yield(f) /\ (Len(f) <= chunked_remaining => Chunked!Goto(goon))
  BY DEF Chunked!ReadData
<1>4. goon \in {"cr", "data"}
  OBVIOUS
<1> HIDE DEF n, f, goon
<1>5. f \in Seq(Chunked!Sent(input)) /\ frame' \in Seq(Chunked!Sent(input)) /\ Len(f) \in Nat
  <2>1. 1 \in 1..Len(frame) + 1 /\ n + 1 \in 1..Len(frame) + 1 /\ Len(frame) \in 0..Len(frame)
    BY <1>1, <1>2
  <2>2. f \in Seq(Chunked!Sent(input)) /\ frame' \in Seq(Chunked!Sent(input))
    BY <1>1, <1>2, <1>3, <2>1, PartOf DEF f
  <2> QED BY <2>2
<1>6. ASSUME Chunked!Yield(f), Len(f) <= chunked_remaining => Chunked!Goto(goon)
      PROVE  \/ /\ Len(f) <= chunked_remaining /\ chunked_out' = chunked_out \o f /\ chunked_remaining' = chunked_remaining - Len(f)
                /\ worker' \in {"cr", "data"} /\ chunked_result' = chunked_result
             \/ /\ worker' = "stopped" /\ chunked_result' # "end" /\ chunked_out' = chunked_out /\ chunked_remaining' = chunked_remaining
  <2>1. CASE Len(f) <= chunked_remaining
    BY <1>1, <1>4, <1>5, <1>6, <2>1 DEF Chunked!Yield, Chunked!Goto
  <2>2. CASE ~(Len(f) <= chunked_remaining)
    BY <1>1, <1>5, <1>6, <2>2 DEF Chunked!Yield, Chunked!Stop
  <2> QED BY <2>1, <2>2
<1>7. CASE meta[3] # NoSig /\ data' = Append(data, f) /\ Chunked!Goto(goon) /\ UNCHANGED <<chunked_out, chunked_remaining>>
  BY <1>2, <1>3, <1>4, <1>5, <1>7 DEF Chunked!Goto
<1>8. CASE meta[3] = NoSig /\ UNCHANGED data /\ Chunked!Yield(f) /\ (Len(f) <= chunked_remaining => Chunked!Goto(goon))
  BY <1>2, <1>3, <1>5, <1>6, <1>8
<1> QED BY <1>3, <1>7, <1>8

\* How a fragment is yielded.
LEMMA FragmentStep ==
    ASSUME ChunkTypes, InChunk, Chunked!YieldFragment
    PROVE  /\ input' = input /\ chunked_wire' = chunked_wire /\ frame' = frame /\ buf' = buf /\ meta' = meta
           /\ need' = need /\ prev' = prev /\ trailers' = trailers /\ worker = "yield"
           /\ data' = Tail(data)
           /\ \/ /\ Len(Head(data)) <= chunked_remaining /\ chunked_out' = chunked_out \o Head(data)
                 /\ chunked_remaining' = chunked_remaining - Len(Head(data))
                 /\ worker' = (IF Len(data) = 1 THEN "meta" ELSE "yield") /\ chunked_result' = chunked_result
              \/ /\ worker' = "stopped" /\ chunked_result' # "end" /\ chunked_out' = chunked_out /\ chunked_remaining' = chunked_remaining
           /\ Head(data) \in Seq(Chunked!Sent(input)) /\ data # <<>>
<1>1. /\ input' = input /\ chunked_wire' = chunked_wire /\ frame' = frame /\ buf' = buf /\ meta' = meta
      /\ need' = need /\ prev' = prev /\ trailers' = trailers /\ worker = "yield"
      /\ data' = Tail(data) /\ Chunked!Yield(Head(data))
      /\ Len(Head(data)) <= chunked_remaining => Chunked!Goto(IF Len(data) = 1 THEN "meta" ELSE "yield")
  BY DEF Chunked!YieldFragment
<1>2. data \in Seq(Seq(Chunked!Sent(input))) /\ data # <<>> /\ chunked_remaining \in Nat
  BY <1>1 DEF ChunkTypes, InChunk
<1>3. Head(data) \in Seq(Chunked!Sent(input))
  <2> DEFINE SU == Seq(Chunked!Sent(input))
  <2>1. data \in Seq(SU)
    BY <1>2
  <2> HIDE DEF SU
  <2>2. Head(data) \in SU
    BY <1>2, <2>1
  <2> QED BY <2>2 DEF SU
<1> DEFINE f == Head(data)
           goon == IF Len(data) = 1 THEN "meta" ELSE "yield"
<1>4. Len(f) \in Nat
  BY <1>3
<1> HIDE DEF f, goon
<1>5. Chunked!Yield(f) /\ (Len(f) <= chunked_remaining => Chunked!Goto(goon))
  BY <1>1 DEF f, goon
<1>6. CASE Len(f) <= chunked_remaining
  <2>1. chunked_out' = chunked_out \o f /\ chunked_remaining' = chunked_remaining - Len(f) /\ worker' = goon /\ chunked_result' = chunked_result
    BY <1>2, <1>4, <1>5, <1>6 DEF Chunked!Yield, Chunked!Goto
  <2> QED BY <1>1, <1>2, <1>3, <1>6, <2>1 DEF f, goon
<1>7. CASE ~(Len(f) <= chunked_remaining)
  <2>1. worker' = "stopped" /\ chunked_result' # "end" /\ chunked_out' = chunked_out /\ chunked_remaining' = chunked_remaining
    BY <1>2, <1>4, <1>5, <1>7 DEF Chunked!Yield, Chunked!Stop
  <2> QED BY <1>1, <1>2, <1>3, <2>1
<1> QED BY <1>6, <1>7


\* Reading, checking and yielding keep the types, the place in the chunk and the lengths.
LEMMA ChunkTypesNext ==
    ASSUME Chunked!InputsOK, ChunkTypes, InChunk, ChunkLengths, [Chunked!Next]_(Chunked!vars)
    PROVE  ChunkTypes' /\ InChunk' /\ ChunkLengths'
<1> DEFINE B == Chunked!Sent(input)
<1>1. /\ input \in Input /\ chunked_wire \in Seq(B) /\ frame \in Seq(B) /\ buf \in Seq(B)
      /\ data \in Seq(Seq(B)) /\ chunked_out \in Seq(B)
      /\ worker \in {"meta", "data", "cr", "lf", "sign", "yield", "trailers", "stopped"}
      /\ meta = Chunked!Meta(0, NoSig) \/ (meta \in B /\ meta[1] = "meta")
      /\ need \in Nat /\ chunked_remaining \in Nat
  BY DEF ChunkTypes
<1>2. Len(chunked_out) + chunked_remaining = input.declared /\ Len(chunked_out) \in Nat /\ input.declared \in Nat
  BY <1>1, InputTypes DEF ChunkLengths
<1>3. chunked_result = "end" => chunked_remaining = 0
  BY DEF ChunkLengths
\* Steps that leave what was read alone.
<1>4. ASSUME input' = input, data' = data, chunked_out' = chunked_out, meta' = meta, need' = need,
             chunked_remaining' = chunked_remaining, chunked_wire' \in Seq(B), frame' \in Seq(B), buf' \in Seq(B),
             \/ worker' = worker
             \/ worker' = "stopped"
             \/ worker = "cr" /\ worker' = "lf"
             \/ worker = "lf" /\ meta[3] # NoSig /\ worker' = "sign"
             \/ worker = "lf" /\ meta[3] = NoSig /\ worker' = "meta"
             \/ worker = "sign" /\ meta[2] = 0 /\ worker' = "trailers"
             \/ worker = "sign" /\ meta[2] # 0 /\ worker' = "yield",
             chunked_result' \in {chunked_result} \/ (chunked_result' = "end" => chunked_remaining = 0)
      PROVE  ChunkTypes' /\ InChunk' /\ ChunkLengths'
  <2>1. ChunkTypes'
    <3> HIDE DEF B
    <3>1. B' = B
      BY <1>4 DEF B
    <3> QED BY <1>1, <1>4, <3>1 DEF ChunkTypes, B
  <2>2. InChunk'
    BY <1>4 DEF InChunk
  <2>3. ChunkLengths'
    BY <1>2, <1>3, <1>4 DEF ChunkLengths
  <2> QED BY <2>1, <2>2, <2>3
<1>5. CASE Chunked!NextFrame
  <2>1. PICK n \in 1..Len(chunked_wire) : frame' = SubSeq(chunked_wire, 1, n) /\ chunked_wire' = SubSeq(chunked_wire, n + 1, Len(chunked_wire))
    BY <1>5 DEF Chunked!NextFrame
  <2>2. /\ input' = input /\ data' = data /\ chunked_out' = chunked_out /\ meta' = meta /\ need' = need
        /\ chunked_remaining' = chunked_remaining /\ buf' = buf /\ worker' = worker /\ chunked_result' = chunked_result
    BY <1>5 DEF Chunked!NextFrame
  <2>3. /\ n \in 0..Len(chunked_wire) /\ 1 \in 1..Len(chunked_wire) + 1 /\ n + 1 \in 1..Len(chunked_wire) + 1
        /\ Len(chunked_wire) \in 0..Len(chunked_wire)
    BY <1>1
  <2> HIDE DEF B
  <2>4. frame' \in Seq(B) /\ chunked_wire' \in Seq(B)
    BY <1>1, <2>1, <2>3, PartOf
  <2> QED BY <1>1, <1>4, <2>2, <2>4
<1>6. CASE Chunked!BodyError \/ Chunked!BodyEnd
  <2>1. /\ input' = input /\ data' = data /\ chunked_out' = chunked_out /\ meta' = meta /\ need' = need
        /\ chunked_remaining' = chunked_remaining /\ buf' = buf /\ chunked_wire' = chunked_wire /\ frame' = frame /\ worker' = "stopped"
        /\ chunked_result' = "end" => chunked_remaining = 0
    BY <1>6 DEF Chunked!BodyError, Chunked!BodyEnd, Chunked!Stop, Chunked!End
  <2> HIDE DEF B
  <2> QED BY <1>1, <1>4, <2>1
<1>7. CASE Chunked!ReadMeta
  <2>1. /\ input' = input /\ chunked_wire' = chunked_wire /\ data' = data /\ chunked_out' = chunked_out
        /\ chunked_remaining' = chunked_remaining /\ worker = "meta" /\ frame' = Tail(frame) /\ frame # <<>>
    BY <1>7, MetaStep
  <2>2. frame' \in Seq(B) /\ Head(frame) \in B
    <3> HIDE DEF B
    <3> QED BY <1>1, <2>1, HeadTailProperties
  <2>3. CASE /\ worker' = "stopped" /\ chunked_result' # "end" /\ buf' \in {buf, <<>>}
             /\ meta' = meta /\ need' = need
    <3> HIDE DEF B
    <3>1. <<>> \in Seq(B)
      OBVIOUS
    <3>2. buf' \in Seq(B)
      BY <1>1, <2>3, <3>1
    <3> QED BY <1>1, <1>4, <2>1, <2>2, <2>3, <3>2
  <2>4. CASE /\ worker' = worker /\ chunked_result' = chunked_result /\ buf' = Append(buf, Head(frame))
             /\ meta' = meta /\ need' = need
    <3> HIDE DEF B
    <3>1. buf' \in Seq(B)
      BY <1>1, <2>2, <2>4
    <3> QED BY <1>1, <1>4, <2>1, <2>2, <2>4, <3>1
  <2>5. CASE /\ Head(frame)[1] = "meta" /\ meta' = Head(frame) /\ need' = Head(frame)[2]
             /\ worker' = Chunked!AfterMeta(Head(frame)) /\ chunked_result' = chunked_result /\ buf' = <<>>
    <3>1. Head(frame)[2] \in Nat
      BY <1>1, <2>2, <2>5, InputTypes
    <3>2. /\ worker' \in {"data", "sign", "trailers"}
          /\ worker' = "data" => meta'[2] # 0
          /\ worker' = "sign" => meta'[3] # NoSig /\ meta'[2] = 0
      BY <2>5 DEF Chunked!AfterMeta
    <3>3. data = <<>>
      BY <2>1 DEF InChunk
    <3>4. ChunkTypes'
      <4> HIDE DEF B
      <4>1. B' = B
        BY <2>1 DEF B
      <4>2. <<>> \in Seq(B)
        OBVIOUS
      <4> QED BY <1>1, <2>1, <2>2, <2>5, <3>1, <3>2, <4>1, <4>2 DEF ChunkTypes, B
    <3>5. InChunk'
      BY <2>1, <3>2, <3>3 DEF InChunk
    <3>6. ChunkLengths'
      BY <1>2, <1>3, <2>1, <2>5 DEF ChunkLengths
    <3> QED BY <3>4, <3>5, <3>6
  <2> QED BY <1>7, <2>3, <2>4, <2>5, MetaStep
<1>8. CASE Chunked!ReadData
  <2>1. PICK f \in Seq(B) :
             /\ input' = input /\ chunked_wire' = chunked_wire /\ buf' = buf /\ meta' = meta /\ prev' = prev
             /\ trailers' = trailers /\ worker = "data"
             /\ frame' \in Seq(B) /\ need' \in Nat
             /\ \/ /\ meta[3] # NoSig /\ data' = Append(data, f) /\ worker' \in {"cr", "data"}
                   /\ chunked_result' = chunked_result /\ chunked_out' = chunked_out /\ chunked_remaining' = chunked_remaining
                \/ /\ meta[3] = NoSig /\ data' = data
                   /\ \/ /\ Len(f) <= chunked_remaining /\ chunked_out' = chunked_out \o f /\ chunked_remaining' = chunked_remaining - Len(f)
                         /\ worker' \in {"cr", "data"} /\ chunked_result' = chunked_result
                      \/ /\ worker' = "stopped" /\ chunked_result' # "end" /\ chunked_out' = chunked_out /\ chunked_remaining' = chunked_remaining
    BY <1>8, DataRead
  <2>2. meta[2] # 0 /\ (meta[3] = NoSig => data = <<>>)
    BY <2>1 DEF InChunk
  <2>3. B' = B
    BY <2>1
  <2>4. /\ chunked_wire' \in Seq(B) /\ buf' \in Seq(B) /\ input' \in Input /\ input' = input
        /\ frame' \in Seq(B) /\ need' \in Nat /\ meta' = meta
        /\ meta' = Chunked!Meta(0, NoSig) \/ (meta' \in B /\ meta'[1] = "meta")
    BY <1>1, <2>1
  <2>5. CASE /\ meta[3] # NoSig /\ data' = Append(data, f) /\ worker' \in {"cr", "data"}
             /\ chunked_result' = chunked_result /\ chunked_out' = chunked_out /\ chunked_remaining' = chunked_remaining
    <3>1. data' \in Seq(Seq(B)) /\ data' # <<>>
      <4> DEFINE SB == Seq(B)
      <4>1. data \in Seq(SB) /\ f \in SB
        BY <1>1
      <4> HIDE DEF SB
      <4>2. data' \in Seq(SB) /\ data' # <<>>
        BY <2>5, <4>1, AppendProperties
      <4> QED BY <4>2 DEF SB
    <3>2. ChunkTypes'
      <4> HIDE DEF B
      <4> QED BY <1>1, <2>3, <2>4, <2>5, <3>1 DEF ChunkTypes, B
    <3>3. InChunk'
      BY <2>1, <2>2, <2>5, <3>1 DEF InChunk
    <3>4. ChunkLengths'
      BY <1>2, <1>3, <2>1, <2>5 DEF ChunkLengths
    <3> QED BY <3>2, <3>3, <3>4
  <2>6. CASE /\ meta[3] = NoSig /\ data' = data
             /\ Len(f) <= chunked_remaining /\ chunked_out' = chunked_out \o f /\ chunked_remaining' = chunked_remaining - Len(f)
             /\ worker' \in {"cr", "data"} /\ chunked_result' = chunked_result
    <3>1. chunked_out' \in Seq(B) /\ Len(chunked_out') = Len(chunked_out) + Len(f) /\ Len(f) \in Nat
      <4> HIDE DEF B
      <4> QED BY <1>1, <2>6
    <3>2. chunked_remaining' \in Nat /\ Len(chunked_out') + chunked_remaining' = input.declared
          /\ (chunked_remaining = 0 => chunked_remaining' = 0)
      BY <1>1, <1>2, <2>6, <3>1
    <3>3. ChunkTypes'
      <4> HIDE DEF B
      <4> QED BY <1>1, <2>3, <2>4, <2>6, <3>1, <3>2 DEF ChunkTypes, B
    <3>4. InChunk'
      BY <2>1, <2>2, <2>6 DEF InChunk
    <3>5. ChunkLengths'
      BY <1>3, <2>4, <2>6, <3>2 DEF ChunkLengths
    <3> QED BY <3>3, <3>4, <3>5
  <2>7. CASE /\ data' = data /\ worker' = "stopped" /\ chunked_result' # "end" /\ chunked_out' = chunked_out
             /\ chunked_remaining' = chunked_remaining
    <3>1. ChunkTypes'
      <4> HIDE DEF B
      <4> QED BY <1>1, <2>3, <2>4, <2>7 DEF ChunkTypes, B
    <3>2. InChunk'
      BY <2>7 DEF InChunk
    <3>3. ChunkLengths'
      BY <1>2, <2>4, <2>7 DEF ChunkLengths
    <3> QED BY <3>1, <3>2, <3>3
  <2> QED BY <2>1, <2>5, <2>6, <2>7
<1>9. CASE Chunked!ConsumeCrlf
  <2>1. /\ input' = input /\ data' = data /\ chunked_out' = chunked_out /\ meta' = meta /\ need' = need
        /\ chunked_remaining' = chunked_remaining /\ buf' = buf /\ chunked_wire' = chunked_wire /\ frame # <<>>
        /\ frame' \in {frame, Tail(frame)}
        /\ worker \in {"cr", "lf"}
        /\ \/ worker' = "stopped" /\ chunked_result' # "end"
           \/ /\ chunked_result' = chunked_result
              /\ \/ worker = "cr" /\ worker' = "lf"
                 \/ worker = "lf" /\ meta[3] # NoSig /\ worker' = "sign"
                 \/ worker = "lf" /\ meta[3] = NoSig /\ worker' = "meta"
    BY <1>9 DEF Chunked!ConsumeCrlf, Chunked!Goto, Chunked!Stop
  <2> HIDE DEF B
  <2>2. frame' \in Seq(B)
    BY <1>1, <2>1, HeadTailProperties
  <2> QED BY <1>1, <1>4, <2>1, <2>2
<1>10. CASE Chunked!CheckSignature
  <2>1. /\ input' = input /\ data' = data /\ chunked_out' = chunked_out /\ meta' = meta /\ need' = need
        /\ chunked_remaining' = chunked_remaining /\ buf' = buf /\ chunked_wire' = chunked_wire /\ frame' = frame
        /\ \/ worker' = "stopped" /\ chunked_result' # "end"
           \/ /\ chunked_result' = chunked_result
              /\ \/ worker = "sign" /\ meta[2] = 0 /\ worker' = "trailers"
                 \/ worker = "sign" /\ meta[2] # 0 /\ worker' = "yield"
    BY <1>10 DEF Chunked!CheckSignature, Chunked!Goto, Chunked!Stop
  <2> HIDE DEF B
  <2> QED BY <1>1, <1>4, <2>1
<1>11. CASE Chunked!YieldFragment
  <2> DEFINE f == Head(data)
  <2>1. /\ input' = input /\ chunked_wire' = chunked_wire /\ frame' = frame /\ buf' = buf /\ meta' = meta
        /\ need' = need /\ worker = "yield" /\ data' = Tail(data)
        /\ \/ /\ Len(f) <= chunked_remaining /\ chunked_out' = chunked_out \o f /\ chunked_remaining' = chunked_remaining - Len(f)
              /\ worker' = (IF Len(data) = 1 THEN "meta" ELSE "yield") /\ chunked_result' = chunked_result
           \/ /\ worker' = "stopped" /\ chunked_result' # "end" /\ chunked_out' = chunked_out /\ chunked_remaining' = chunked_remaining
        /\ f \in Seq(B) /\ data # <<>>
    BY <1>11, FragmentStep
  <2>2. data' \in Seq(Seq(B)) /\ (Len(data) = 1 <=> data' = <<>>)
    <3> DEFINE SB == Seq(B)
    <3>1. data \in Seq(SB) /\ data # <<>>
      BY <1>1, <2>1
    <3> HIDE DEF SB, f
    <3>2. Tail(data) \in Seq(SB) /\ Len(Tail(data)) = Len(data) - 1 /\ Len(data) \in Nat
      BY <3>1, HeadTailProperties, LenProperties
    <3>3. Tail(data) = <<>> <=> Len(Tail(data)) = 0
      BY <3>2, EmptySeq
    <3>4. Len(data) = 1 <=> Tail(data) = <<>>
      BY <3>2, <3>3
    <3> QED BY <2>1, <3>2, <3>4 DEF SB
  <2>3. B' = B
    BY <2>1
  <2>4. /\ chunked_wire' \in Seq(B) /\ buf' \in Seq(B) /\ input' \in Input /\ input' = input
        /\ frame' \in Seq(B) /\ need' \in Nat /\ meta' = meta
        /\ meta' = Chunked!Meta(0, NoSig) \/ (meta' \in B /\ meta'[1] = "meta")
    BY <1>1, <2>1
  <2> HIDE DEF f
  <2>5. CASE /\ Len(f) <= chunked_remaining /\ chunked_out' = chunked_out \o f /\ chunked_remaining' = chunked_remaining - Len(f)
             /\ worker' = (IF Len(data) = 1 THEN "meta" ELSE "yield") /\ chunked_result' = chunked_result
    <3>1. chunked_out' \in Seq(B) /\ Len(chunked_out') = Len(chunked_out) + Len(f) /\ Len(f) \in Nat
      <4> HIDE DEF B
      <4> QED BY <1>1, <2>1, <2>5
    <3>2. chunked_remaining' \in Nat /\ Len(chunked_out') + chunked_remaining' = input.declared
          /\ (chunked_remaining = 0 => chunked_remaining' = 0)
      BY <1>1, <1>2, <2>5, <3>1
    <3>3. ChunkTypes'
      <4> HIDE DEF B
      <4> QED BY <1>1, <2>2, <2>3, <2>4, <2>5, <3>1, <3>2 DEF ChunkTypes, B
    <3>4. InChunk'
      BY <2>2, <2>5 DEF InChunk
    <3>5. ChunkLengths'
      BY <1>3, <2>4, <2>5, <3>2 DEF ChunkLengths
    <3> QED BY <3>3, <3>4, <3>5
  <2>6. CASE worker' = "stopped" /\ chunked_result' # "end" /\ chunked_out' = chunked_out /\ chunked_remaining' = chunked_remaining
    <3>1. ChunkTypes'
      <4> HIDE DEF B
      <4> QED BY <1>1, <2>2, <2>3, <2>4, <2>6 DEF ChunkTypes, B
    <3>2. InChunk'
      BY <2>6 DEF InChunk
    <3>3. ChunkLengths'
      BY <1>2, <2>4, <2>6 DEF ChunkLengths
    <3> QED BY <3>1, <3>2, <3>3
  <2> QED BY <2>1, <2>5, <2>6
<1>12. CASE Chunked!ReadTrailers
  <2>1. /\ input' = input /\ data' = data /\ chunked_out' = chunked_out /\ meta' = meta /\ need' = need
        /\ chunked_remaining' = chunked_remaining /\ chunked_wire' = chunked_wire /\ frame' = <<>> /\ buf' \in {buf, buf \o frame}
        /\ (worker' = "stopped" /\ chunked_result' # "end") \/ (worker' = worker /\ chunked_result' = chunked_result)
    BY <1>12 DEF Chunked!ReadTrailers, Chunked!Stop
  <2> HIDE DEF B
  <2>2. frame' \in Seq(B) /\ buf' \in Seq(B)
    <3>1. <<>> \in Seq(B)
      OBVIOUS
    <3>2. buf \o frame \in Seq(B)
      BY <1>1, ConcatProperties
    <3> QED BY <1>1, <2>1, <3>1, <3>2
  <2> QED BY <1>1, <1>4, <2>1, <2>2
<1>13. CASE Chunked!VerifyTrailers
  <2>1. /\ input' = input /\ data' = data /\ chunked_out' = chunked_out /\ meta' = meta /\ need' = need
        /\ chunked_remaining' = chunked_remaining /\ chunked_wire' = chunked_wire /\ frame' = frame /\ buf' = buf
    BY <1>13 DEF Chunked!VerifyTrailers
  <2>2. worker' = "stopped" /\ (chunked_result' = "end" => chunked_remaining = 0)
    <3>1. \/ Chunked!End \/ Chunked!Stop("TooManyTrailerHeaders") \/ Chunked!Stop("FormatError")
          \/ Chunked!Stop(IF Chunked!Provided # {} THEN "SignatureMismatch" ELSE "FormatError")
      BY <1>13, Zenon DEF Chunked!VerifyTrailers
    <3> QED BY <3>1 DEF Chunked!End, Chunked!Stop
  <2> HIDE DEF B
  <2> QED BY <1>1, <1>4, <2>1, <2>2
<1>14. CASE UNCHANGED Chunked!vars
  <2>1. /\ input' = input /\ data' = data /\ chunked_out' = chunked_out /\ meta' = meta /\ need' = need
        /\ chunked_remaining' = chunked_remaining /\ chunked_wire' = chunked_wire /\ frame' = frame /\ buf' = buf
        /\ worker' = worker /\ chunked_result' = chunked_result
    BY <1>14 DEF Chunked!vars
  <2> HIDE DEF B
  <2> QED BY <1>1, <1>4, <2>1
<1> QED BY <1>5, <1>6, <1>7, <1>8, <1>9, <1>10, <1>11, <1>12, <1>13, <1>14 DEF Chunked!Next, Chunked!Progress


\* A set of places in a sequence has a last one.
LEMMA LastPlace ==
    ASSUME NEW n \in Nat, NEW T, T \subseteq 1..n, T # {}
    PROVE  \E x \in T : \A y \in T : y <= x
<1> DEFINE below == {n - m : m \in T}
<1>1. below \subseteq Nat /\ below # {}
  <2>1. \A m \in T : n - m \in Nat
    OBVIOUS
  <2> QED BY <2>1
<1>2. PICK x \in below : \A y \in below : x <= y
  <2> HIDE DEF below
  <2> QED BY <1>1, LeastElement
<1>3. PICK m \in T : x = n - m
  OBVIOUS
<1>4. ASSUME NEW k \in T PROVE k <= m
  <2>1. x <= n - k
    BY <1>2
  <2> QED BY <1>3, <2>1
<1> QED BY <1>4

\* The signature of a chunk is the next of the client's, and so is its data.
LEMMA SignatureStep ==
    ASSUME Chunked!InputsOK, ChunkTypes, InChunk, Len(prev) <= Len(input.chain),
           prev = SubSeq(input.chain, 1, Len(prev)), worker = "sign",
           Chunked!Matches(meta[3], Chunked!Sign(prev, Chunked!FlattenSeq(data)))
    PROVE  LET sig == Chunked!Sign(prev, Chunked!FlattenSeq(data)) IN
           /\ Len(prev) \in Nat /\ Len(sig) = Len(prev) + 1 /\ Len(sig) <= Len(input.chain)
           /\ sig = SubSeq(input.chain, 1, Len(sig))
           /\ Chunked!FlattenSeq(data) = input.chain[Len(sig)][2]
<1> DEFINE C == {"chunk"} \X Seq(Chunked!Unit(input))
           chain == input.chain
           d == Chunked!FlattenSeq(data)
           c == <<"chunk", d>>
<1>1. input \in Input /\ data \in Seq(Seq(Chunked!Sent(input))) /\ meta[3] # NoSig /\ meta[3] # Junk
  BY DEF ChunkTypes, InChunk, Chunked!Matches
<1>2. chain \in Seq(C) /\ Len(chain) \in Nat
  BY <1>1, InputTypes
<1>3. d \in Seq(Chunked!Unit(input))
  <2>1. d \in Seq(Chunked!Sent(input))
    BY <1>1, FlattenType
  <2> QED BY <1>1, <2>1, InputTypes
<1>4. c \in C
  <2> HIDE DEF d
  <2> QED BY <1>3
<1>5. prev \in Seq(C) /\ Len(prev) \in Nat
  <2> HIDE DEF C, c
  <2>1. CASE Len(prev) \in Nat
    <3>1. Len(prev) \in 0..Len(chain) /\ 1 \in 1..Len(chain) + 1
      BY <1>2, <2>1
    <3>2. SubSeq(chain, 1, Len(prev)) \in Seq(C)
      BY <1>2, <3>1, PartOf
    <3> QED BY <2>1, <3>2
  <2> QED BY <2>1
<1>6. meta[3] = Append(prev, c)
  BY DEF Chunked!Matches, Chunked!Sign
<1>7. PICK k \in 1..Len(chain) : meta[3] = SubSeq(chain, 1, k)
  <2>1. meta \in Chunked!Sent(input) /\ meta[1] = "meta"
    BY <1>1 DEF ChunkTypes, Chunked!Meta
  <2> QED BY <1>1, <2>1, InputTypes
<1> HIDE DEF C, c, chain
<1>8. Append(prev, c) \in Seq(C) /\ Len(Append(prev, c)) = Len(prev) + 1
      /\ Append(prev, c)[Len(prev) + 1] = c
  BY <1>4, <1>5, AppendProperties
<1>9. k \in 0..Len(chain) /\ 1 \in 1..Len(chain) + 1 /\ k \in 1..k - 1 + 1 /\ 1 + k - 1 = k
  BY <1>2
<1>10. Len(SubSeq(chain, 1, k)) = k /\ SubSeq(chain, 1, k)[k] = chain[k]
  <2>1. Len(SubSeq(chain, 1, k)) = IF 1 <= k THEN k - 1 + 1 ELSE 0
    BY <1>2, <1>9, PartOf
  <2>2. SubSeq(chain, 1, k)[k] = chain[1 + k - 1]
    BY <1>2, <1>9, PartOf
  <2> QED BY <1>9, <2>1, <2>2
<1>11. k = Len(prev) + 1
  BY <1>6, <1>7, <1>8, <1>10
<1>12. chain[k] = c
  BY <1>6, <1>7, <1>8, <1>10, <1>11
<1>13. Chunked!Sign(prev, d) = Append(prev, c)
  BY DEF Chunked!Sign, c
<1>14. chain[k][2] = d
  BY <1>12 DEF c
<1>15. k <= Len(chain)
  BY <1>2
<1> QED BY <1>5, <1>6, <1>7, <1>8, <1>11, <1>13, <1>14, <1>15 DEF chain

\* Trailers whose signature is right are the client's.
LEMMA TrailerStep ==
    ASSUME Chunked!InputsOK, ChunkTypes, prev \in Seq({"chunk"} \X Seq(Chunked!Unit(input))),
           Chunked!Provided # {}, Chunked!ProvidedMatches
    PROVE  prev = input.chain /\ Chunked!Canonical(Chunked!Entries) = Chunked!Canonical(input.trailers)
<1> DEFINE C == {"chunk"} \X Seq(Chunked!Unit(input))
           chain == input.chain
           last == CHOOSE i \in Chunked!Provided : \A j \in Chunked!Provided : j <= i
           a == <<"trailer", Chunked!Canonical(Chunked!Entries)>>
           b == <<"trailer", Chunked!Canonical(input.trailers)>>
           E == C \cup {a, b}
<1>1. input \in Input /\ buf \in Seq(Chunked!Sent(input)) /\ Len(buf) \in Nat
  BY DEF ChunkTypes
<1>2. chain \in Seq(C) /\ prev \in Seq(C)
  BY <1>1, InputTypes
<1>3. last \in Chunked!Provided
  <2>1. Chunked!Provided \subseteq 1..Len(buf)
    BY DEF Chunked!Provided
  <2>2. \E i \in Chunked!Provided : \A j \in Chunked!Provided : j <= i
    BY <1>1, <2>1, LastPlace
  <2> QED BY <2>2
<1>4. buf[last] \in Chunked!Sent(input) /\ buf[last][1] = "tsig"
  <2>1. last \in 1..Len(buf) /\ buf[last][1] = "tsig"
    BY <1>3 DEF Chunked!Provided
  <2> HIDE DEF last
  <2> QED BY <1>1, <2>1
<1>5. Chunked!Matches(buf[last][2], Chunked!SignTrailers(prev, Chunked!Entries))
  BY DEF Chunked!ProvidedMatches
<1> HIDE DEF last
<1>6. buf[last][2] = Chunked!SignTrailers(chain, input.trailers)
  <2>1. buf[last][2] \in {Junk, Chunked!SignTrailers(input.chain, input.trailers)}
    BY <1>1, <1>4, InputTypes
  <2> QED BY <1>5, <2>1 DEF Chunked!Matches
<1>7. Append(prev, a) = Append(chain, b)
  BY <1>5, <1>6 DEF Chunked!Matches, Chunked!SignTrailers
<1>8. prev \in Seq(E) /\ chain \in Seq(E) /\ a \in E /\ b \in E
  <2>1. C \subseteq E
    OBVIOUS
  <2>2. Seq(C) \subseteq Seq(E)
    <3> HIDE DEF C, E
    <3> QED BY <2>1, SeqMonotonic
  <2>3. a \in E /\ b \in E
    OBVIOUS
  <2> HIDE DEF C, E, a, b, chain
  <2> QED BY <1>2, <2>2, <2>3
<1>9. prev = chain /\ a = b
  <2> HIDE DEF E, a, b, chain
  <2> QED BY <1>7, <1>8, AppendInjective
<1>10. Chunked!Canonical(Chunked!Entries) = Chunked!Canonical(input.trailers)
  <2> DEFINE p == Chunked!Canonical(Chunked!Entries)
             q == Chunked!Canonical(input.trailers)
  <2>1. <<"trailer", p>> = <<"trailer", q>>
    BY <1>9
  <2> HIDE DEF p, q
  <2>2. p = q
    BY <2>1
  <2> QED BY <2>2 DEF p, q
<1> QED BY <1>9, <1>10


\* In the signed modes every step keeps to the client's chain.
LEMMA SignedNext ==
    ASSUME Chunked!InputsOK, ChunkTypes, InChunk, ~input.unsigned, HasSignature, ChainKept, TrailersKept,
           [Chunked!Next]_(Chunked!vars)
    PROVE  HasSignature' /\ ChainKept' /\ TrailersKept'
<1> DEFINE U == Chunked!Unit(input)
<1>1. input \in Input /\ data \in Seq(Seq(Chunked!Sent(input))) /\ chunked_out \in Seq(Chunked!Sent(input))
  BY DEF ChunkTypes
<1>2. chunked_out \in Seq(U)
  BY <1>1, InputTypes
<1>3. Len(prev) <= Len(input.chain) /\ prev = SubSeq(input.chain, 1, Len(prev)) /\ Len(prev) \in Nat
      /\ prev \in Seq({"chunk"} \X Seq(U)) /\ Len(prev) \in 0..Len(input.chain)
  <2>1. Len(prev) <= Len(input.chain) /\ prev = SubSeq(input.chain, 1, Len(prev))
    BY DEF ChainKept
  <2> DEFINE C == {"chunk"} \X Seq(U)
             chain == input.chain
  <2>2. chain \in Seq(C) /\ Len(chain) \in Nat
    BY <1>1, InputTypes
  <2> HIDE DEF C, chain
  <2>3. prev = SubSeq(chain, 1, Len(prev)) /\ Len(prev) <= Len(chain)
    BY <2>1 DEF chain
  <2>4. Len(prev) \in Nat
    BY <2>3
  <2>5. Len(prev) \in 0..Len(chain) /\ 1 \in 1..Len(chain) + 1
    BY <2>2, <2>3, <2>4
  <2>6. SubSeq(chain, 1, Len(prev)) \in Seq(C)
    BY <2>2, <2>5, PartOf
  <2> QED BY <2>3, <2>4, <2>5, <2>6 DEF C, chain
<1>4. worker \notin {"yield", "stopped"} => chunked_out = DataOf(Len(prev))
  BY DEF ChainKept
<1>5. trailers # Chunked!NoTrailers => worker = "stopped"
  BY DEF TrailersKept
\* Outside of "yield" what was yielded is the chain's data, and a step may end the stream.
<1>6. ASSUME input' = input, chunked_out' = chunked_out, prev' = prev, worker \notin {"yield", "stopped"}, worker' # "yield"
      PROVE  ChainKept'
  <2>1. DataOf(Len(prev))' = DataOf(Len(prev)) /\ Chunked!SignedData' = Chunked!SignedData
    BY <1>6 DEF DataOf, Chunked!SignedData
  <2>2. Chunked!IsPrefix(chunked_out, Chunked!SignedData)
    BY <1>1, <1>3, <1>4, <1>6, DataOfPrefix
  <2> QED BY <1>3, <1>4, <1>6, <2>1, <2>2 DEF ChainKept
<1>7. ASSUME input' = input, trailers' = trailers, worker # "stopped" PROVE TrailersKept'
  BY <1>5, <1>7 DEF TrailersKept
<1>8. CASE Chunked!NextFrame
  <2>1. /\ input' = input /\ chunked_out' = chunked_out /\ prev' = prev /\ trailers' = trailers /\ worker' = worker
        /\ meta' = meta /\ worker \notin {"yield", "stopped"}
    BY <1>8 DEF Chunked!NextFrame, Chunked!Waiting
  <2> QED BY <1>6, <1>7, <2>1 DEF HasSignature
<1>9. CASE Chunked!BodyError \/ Chunked!BodyEnd
  <2>1. /\ input' = input /\ chunked_out' = chunked_out /\ prev' = prev /\ trailers' = trailers /\ worker' = "stopped"
        /\ meta' = meta /\ worker \notin {"yield", "stopped"}
    BY <1>9 DEF Chunked!BodyError, Chunked!BodyEnd, Chunked!Waiting, Chunked!Stop, Chunked!End
  <2> QED BY <1>6, <1>7, <2>1 DEF HasSignature
<1>10. CASE Chunked!ReadMeta
  <2>1. /\ input' = input /\ prev' = prev /\ chunked_out' = chunked_out /\ trailers' = trailers /\ worker = "meta"
    BY <1>10, MetaStep
  <2>2. CASE worker' = "stopped"
    BY <1>6, <1>7, <2>1, <2>2 DEF HasSignature
  <2>3. CASE worker' = worker /\ meta' = meta
    BY <1>6, <1>7, <2>1, <2>3 DEF HasSignature
  <2>4. CASE /\ meta' = Head(frame) /\ worker' = Chunked!AfterMeta(Head(frame))
             /\ IF Head(frame)[3] = NoSig THEN input.unsigned ELSE TRUE
    <3>1. Head(frame)[3] # NoSig
      BY <2>4, Zenon
    <3>2. worker' \in {"data", "sign", "trailers"}
      BY <2>4 DEF Chunked!AfterMeta
    <3> QED BY <1>6, <1>7, <2>1, <2>4, <3>1, <3>2 DEF HasSignature
  <2> QED BY <1>10, <2>2, <2>3, <2>4, MetaStep
<1>11. CASE Chunked!ReadData
  <2>1. /\ input' = input /\ prev' = prev /\ trailers' = trailers /\ worker = "data" /\ meta' = meta
        /\ (meta[3] # NoSig => worker' \in {"cr", "data"} /\ chunked_out' = chunked_out)
    BY <1>11, DataRead
  <2>2. meta[3] # NoSig
    BY <2>1 DEF HasSignature
  <2> QED BY <1>6, <1>7, <2>1, <2>2 DEF HasSignature
<1>12. CASE Chunked!ConsumeCrlf
  <2>1. /\ input' = input /\ chunked_out' = chunked_out /\ prev' = prev /\ trailers' = trailers /\ meta' = meta
        /\ worker \in {"cr", "lf"} /\ worker' \in {"stopped", "lf", "sign", "meta"}
    BY <1>12 DEF Chunked!ConsumeCrlf, Chunked!Goto, Chunked!Stop
  <2>2. meta[3] # NoSig
    BY <2>1 DEF HasSignature
  <2> QED BY <1>6, <1>7, <2>1, <2>2 DEF HasSignature
<1>13. CASE Chunked!CheckSignature
  <2> DEFINE sig == Chunked!Sign(prev, Chunked!FlattenSeq(data))
             d == Chunked!FlattenSeq(data)
  <2>1. /\ input' = input /\ chunked_out' = chunked_out /\ data' = data /\ trailers' = trailers /\ meta' = meta
        /\ worker = "sign"
        /\ \/ /\ Chunked!Matches(meta[3], sig) /\ prev' = sig
              /\ worker' = IF meta[2] = 0 THEN "trailers" ELSE "yield"
           \/ worker' = "stopped" /\ prev' = prev
    BY <1>13 DEF Chunked!CheckSignature, Chunked!Goto, Chunked!Stop
  <2>2. meta[3] # NoSig
    BY <2>1 DEF HasSignature
  <2>3. HasSignature'
    BY <2>1, <2>2 DEF HasSignature
  <2>4. TrailersKept'
    BY <1>7, <2>1
  <2>5. CASE worker' = "stopped" /\ prev' = prev
    BY <1>6, <2>1, <2>3, <2>4, <2>5
  <2>6. CASE /\ Chunked!Matches(meta[3], sig) /\ prev' = sig
             /\ worker' = IF meta[2] = 0 THEN "trailers" ELSE "yield"
    <3>1. /\ Len(sig) = Len(prev) + 1 /\ Len(sig) <= Len(input.chain)
          /\ sig = SubSeq(input.chain, 1, Len(sig)) /\ d = input.chain[Len(sig)][2]
      BY <1>3, <2>1, <2>6, SignatureStep
    <3> HIDE DEF sig, d
    <3>2. Len(sig) \in 1..Len(input.chain) /\ Len(sig) - 1 = Len(prev)
      BY <1>3, <3>1
    <3>3. DataOf(Len(sig)) = DataOf(Len(sig) - 1) \o input.chain[Len(sig)][2]
      BY <1>1, <3>2, DataOfStep
    <3>4. DataOf(Len(sig)) = chunked_out \o d
      BY <1>4, <2>1, <3>1, <3>2, <3>3
    <3>5. DataOf(Len(prev))' = chunked_out \o d
      BY <2>1, <2>6, <3>4 DEF DataOf
    <3>6. Chunked!FlattenSeq(data)' = d
      BY <2>1 DEF d
    <3>7. CASE meta[2] # 0
      BY <2>1, <2>3, <2>4, <2>6, <3>1, <3>5, <3>6, <3>7 DEF ChainKept
    <3>8. CASE meta[2] = 0
      <4>1. data = <<>>
        BY <2>1, <3>8 DEF InChunk
      <4>2. d = <<>>
        BY <4>1, FlattenEmpty DEF d
      <4>3. chunked_out \o <<>> = chunked_out
        BY <1>1, ConcatEmptySeq
      <4> QED BY <2>1, <2>3, <2>4, <2>6, <3>1, <3>5, <3>8, <4>2, <4>3 DEF ChainKept
    <3> QED BY <3>7, <3>8
  <2> QED BY <2>1, <2>5, <2>6
<1>14. CASE Chunked!YieldFragment
  <2> DEFINE f == Head(data)
             rest == Chunked!FlattenSeq(Tail(data))
  <2>1. /\ input' = input /\ meta' = meta /\ prev' = prev /\ trailers' = trailers /\ worker = "yield"
        /\ data' = Tail(data)
        /\ \/ /\ chunked_out' = chunked_out \o f /\ worker' = (IF Len(data) = 1 THEN "meta" ELSE "yield")
           \/ worker' = "stopped" /\ chunked_out' = chunked_out
        /\ f \in Seq(Chunked!Sent(input)) /\ data # <<>>
    BY <1>14, FragmentStep
  <2>2. meta[3] # NoSig
    BY <2>1 DEF HasSignature
  <2>3. HasSignature'
    BY <2>1, <2>2 DEF HasSignature
  <2>4. TrailersKept'
    BY <1>7, <2>1
  <2>5. Tail(data) \in Seq(Seq(Chunked!Sent(input))) /\ data = <<f>> \o Tail(data)
        /\ (Len(data) = 1 => Tail(data) = <<>>)
    <3> DEFINE SB == Seq(Chunked!Sent(input))
    <3>1. data \in Seq(SB) /\ data # <<>>
      BY <1>1, <2>1
    <3> HIDE DEF SB
    <3>2. Tail(data) \in Seq(SB) /\ Len(Tail(data)) = Len(data) - 1
      BY <3>1, HeadTailProperties
    <3>3. data = <<Head(data)>> \o Tail(data)
      BY <3>1
    <3>4. Len(data) = 1 => Tail(data) = <<>>
      <4>1. Tail(data) = <<>> <=> Len(Tail(data)) = 0
        BY <3>2, EmptySeq
      <4> QED BY <3>2, <4>1
    <3> QED BY <3>2, <3>3, <3>4 DEF SB
  <2>6. rest \in Seq(Chunked!Sent(input))
    BY <2>5, FlattenType
  <2>7. Chunked!FlattenSeq(data) = f \o rest
    <3> HIDE DEF f
    <3> QED BY <2>1, <2>5, FlattenCons
  <2>8. chunked_out \o Chunked!FlattenSeq(data) = DataOf(Len(prev))
    BY <2>1 DEF ChainKept
  <2>9. (chunked_out \o f) \o rest = DataOf(Len(prev))
    <3>1. chunked_out \in Seq(Chunked!Sent(input)) /\ f \in Seq(Chunked!Sent(input)) /\ rest \in Seq(Chunked!Sent(input))
      BY <1>1, <2>1, <2>6
    <3> HIDE DEF f, rest
    <3>2. (chunked_out \o f) \o rest = chunked_out \o (f \o rest)
      BY ONLY <3>1, Concat3
    <3> QED BY <2>7, <2>8, <3>2
  <2>10. DataOf(Len(prev))' = DataOf(Len(prev)) /\ Chunked!SignedData' = Chunked!SignedData
    BY <2>1 DEF DataOf, Chunked!SignedData
  <2>11. CASE worker' = "stopped" /\ chunked_out' = chunked_out
    <3>1. Chunked!IsPrefix(chunked_out, DataOf(Len(prev)))
      <4>1. f \o rest \in Seq(Chunked!Sent(input))
        BY <2>1, <2>6, ConcatProperties
      <4>2. chunked_out \o (f \o rest) = DataOf(Len(prev))
        BY <2>7, <2>8
      <4> HIDE DEF f, rest
      <4> QED BY <1>1, <4>1, <4>2, PrefixCat
    <3>2. Chunked!IsPrefix(DataOf(Len(prev)), Chunked!SignedData)
      BY <1>1, <1>3, DataOfPrefix
    <3>3. DataOf(Len(prev)) \in Seq(U) /\ Chunked!SignedData \in Seq(U)
      <4>1. Len(input.chain) \in 0..Len(input.chain)
        BY <1>3
      <4> QED BY <1>1, <1>3, <4>1, DataOfStep
    <3>4. Chunked!IsPrefix(chunked_out, Chunked!SignedData)
      <4> HIDE DEF U
      <4> QED BY <1>2, <3>1, <3>2, <3>3, PrefixTrans
    <3>5. ChainKept'
      BY <1>3, <2>1, <2>10, <2>11, <3>4 DEF ChainKept
    <3> QED BY <2>3, <2>4, <3>5
  <2>12. CASE chunked_out' = chunked_out \o f /\ worker' = (IF Len(data) = 1 THEN "meta" ELSE "yield")
    <3>1. CASE Len(data) = 1
      <4>1. rest = <<>>
        BY <2>5, <3>1, FlattenEmpty
      <4>2. chunked_out \o f \in Seq(Chunked!Sent(input))
        BY <1>1, <2>1, ConcatProperties
      <4> HIDE DEF f, rest
      <4>3. (chunked_out \o f) \o <<>> = chunked_out \o f
        BY <4>2, ConcatEmptySeq
      <4>4. chunked_out' = DataOf(Len(prev))
        BY <2>9, <2>12, <4>1, <4>3
      <4>5. ChainKept'
        BY <1>3, <2>1, <2>10, <2>12, <3>1, <4>4 DEF ChainKept
      <4> QED BY <2>3, <2>4, <4>5
    <3>2. CASE Len(data) # 1
      <4>1. Chunked!FlattenSeq(data)' = rest
        BY <2>1
      <4>2. worker' = "yield"
        BY <2>12, <3>2
      <4>3. chunked_out' \o Chunked!FlattenSeq(data)' = DataOf(Len(prev))
        BY <2>9, <2>12, <4>1
      <4>4. ChainKept'
        BY <1>3, <2>1, <2>10, <4>2, <4>3 DEF ChainKept
      <4> QED BY <2>3, <2>4, <4>4
    <3> QED BY <3>1, <3>2
  <2> QED BY <2>1, <2>11, <2>12
<1>15. CASE Chunked!ReadTrailers
  <2>1. /\ input' = input /\ chunked_out' = chunked_out /\ prev' = prev /\ trailers' = trailers /\ meta' = meta
        /\ worker = "trailers" /\ worker' \in {"stopped", "trailers"}
    BY <1>15 DEF Chunked!ReadTrailers, Chunked!Stop
  <2>2. meta[3] # NoSig
    BY <2>1 DEF HasSignature
  <2> QED BY <1>6, <1>7, <2>1, <2>2 DEF HasSignature
<1>16. CASE Chunked!VerifyTrailers
  <2>1. /\ input' = input /\ chunked_out' = chunked_out /\ prev' = prev /\ worker = "trailers"
    BY <1>16 DEF Chunked!VerifyTrailers
  <2>2. /\ \/ Chunked!End \/ Chunked!Stop("TooManyTrailerHeaders") \/ Chunked!Stop("FormatError")
           \/ Chunked!Stop(IF Chunked!Provided # {} THEN "SignatureMismatch" ELSE "FormatError")
        /\ trailers' = trailers \/ (trailers' = Chunked!Entries /\ Chunked!TrailersVerified)
    BY <1>16, Zenon DEF Chunked!VerifyTrailers
  <2>3. worker' = "stopped"
    BY <2>2 DEF Chunked!End, Chunked!Stop
  <2>4. ChainKept' /\ HasSignature'
    BY <1>6, <2>1, <2>3 DEF HasSignature
  <2>5. CASE trailers' = trailers
    BY <1>7, <2>1, <2>4, <2>5
  <2>6. CASE trailers' = Chunked!Entries /\ Chunked!TrailersVerified
    <3>1. Chunked!Provided # {} /\ Chunked!ProvidedMatches
      BY <2>6, Zenon DEF Chunked!TrailersVerified
    <3>2. prev = input.chain /\ Chunked!Canonical(Chunked!Entries) = Chunked!Canonical(input.trailers)
      BY <1>3, <3>1, TrailerStep
    <3> DEFINE e == Chunked!Entries
    <3> HIDE DEF e
    <3>3. trailers' = e /\ Chunked!Canonical(e) = Chunked!Canonical(input.trailers)
      BY <2>6, <3>2 DEF e
    <3>4. Chunked!Canonical(trailers') = Chunked!Canonical(input'.trailers)
      BY <2>1, <3>3
    <3>5. TrailersKept'
      BY <2>1, <2>3, <3>2, <3>4 DEF TrailersKept
    <3> QED BY <2>4, <3>5
  <2> QED BY <2>2, <2>5, <2>6
<1>17. CASE UNCHANGED Chunked!vars
  <2>1. /\ input' = input /\ chunked_out' = chunked_out /\ prev' = prev /\ trailers' = trailers /\ worker' = worker
        /\ meta' = meta /\ data' = data
    BY <1>17 DEF Chunked!vars
  <2> QED BY <2>1 DEF HasSignature, ChainKept, TrailersKept, DataOf, Chunked!SignedData
<1> QED BY <1>8, <1>9, <1>10, <1>11, <1>12, <1>13, <1>14, <1>15, <1>16, <1>17 DEF Chunked!Next, Chunked!Progress


\* The invariant of the decoder.
LEMMA ChunkInvariant == Chunked!Spec => []ChunkInv
<1>1. Chunked!Init => ChunkInv
  <2> SUFFICES ASSUME Chunked!Init PROVE ChunkInv
    OBVIOUS
  <2>1. ChunkTypes /\ InChunk /\ ChunkLengths
    BY ChunkTypesInit, ComponentsAssumption
  <2>2. HasSignature /\ TrailersKept
    BY DEF Chunked!Init, HasSignature, TrailersKept
  <2>3. ChainKept
    <3>1. input \in Input /\ prev = <<>> /\ chunked_out = <<>> /\ worker = "meta"
      BY DEF Chunked!Init
    <3>2. DataOf(0) = <<>>
      BY <3>1, DataOfStep, ComponentsAssumption
    <3>3. Len(input.chain) \in Nat
      BY <3>1, InputTypes, ComponentsAssumption
    <3>4. SubSeq(input.chain, 1, 0) = <<>> /\ Len(<<>>) = 0
      BY SubSeqEmpty
    <3> QED BY <3>1, <3>2, <3>3, <3>4 DEF ChainKept
  <2> QED BY <2>1, <2>2, <2>3 DEF ChunkInv
<1>2. ChunkInv /\ [Chunked!Next]_(Chunked!vars) => ChunkInv'
  <2> SUFFICES ASSUME ChunkInv, [Chunked!Next]_(Chunked!vars) PROVE ChunkInv'
    OBVIOUS
  <2>1. ChunkTypes' /\ InChunk' /\ ChunkLengths'
    BY ChunkTypesNext, ComponentsAssumption DEF ChunkInv
  <2>2. input' = input
    BY DEF Chunked!vars, Chunked!Next, Chunked!Progress, Chunked!NextFrame, Chunked!BodyError, Chunked!BodyEnd, Chunked!ReadMeta, Chunked!ReadData, Chunked!ConsumeCrlf,
           Chunked!CheckSignature, Chunked!YieldFragment, Chunked!ReadTrailers, Chunked!VerifyTrailers
  <2>3. ASSUME ~input.unsigned PROVE HasSignature' /\ ChainKept' /\ TrailersKept'
    BY <2>3, SignedNext, ComponentsAssumption DEF ChunkInv
  <2> QED BY <2>1, <2>2, <2>3 DEF ChunkInv
<1> QED BY <1>1, <1>2, PTL DEF Chunked!Spec

\* What has been yielded in a signed mode is, at every time, a prefix of what the client signed
\* (check_signature, poll): for all bodies, however they were changed on the way, and all ways
\* of cutting them into frames.
THEOREM AuthenticPrefixHolds == Chunked!Spec => []AuthenticPrefix
<1>1. ChunkInv => AuthenticPrefix
  <2> SUFFICES ASSUME ChunkInv, ~input.unsigned PROVE Chunked!IsPrefix(chunked_out, Chunked!SignedData)
    BY DEF AuthenticPrefix, Chunked!AuthenticPrefix
  <2>1. ChunkTypes /\ InChunk /\ ChainKept
    BY DEF ChunkInv
  <2>2. input \in Input /\ chunked_out \in Seq(Chunked!Sent(input)) /\ data \in Seq(Seq(Chunked!Sent(input)))
    BY <2>1 DEF ChunkTypes
  <2>3. Len(prev) \in 0..Len(input.chain)
    <3>1. Len(input.chain) \in Nat
      BY <2>2, InputTypes, ComponentsAssumption
    <3>2. Len(prev) <= Len(input.chain) /\ prev = SubSeq(input.chain, 1, Len(prev))
      BY <2>1 DEF ChainKept
    <3>3. Len(prev) \in Nat
      BY <3>2
    <3> QED BY <3>1, <3>2, <3>3
  <2>4. Chunked!IsPrefix(DataOf(Len(prev)), Chunked!SignedData)
    BY <2>2, <2>3, DataOfPrefix, ComponentsAssumption
  <2>5. CASE worker = "yield"
    <3> DEFINE d == Chunked!FlattenSeq(data)
    <3>1. d \in Seq(Chunked!Sent(input)) /\ chunked_out \o d = DataOf(Len(prev))
      BY <2>1, <2>2, <2>5, FlattenType DEF ChainKept
    <3> HIDE DEF d
    <3>2. Chunked!IsPrefix(chunked_out, DataOf(Len(prev)))
      BY <2>2, <3>1, PrefixCat
    <3> DEFINE U == Chunked!Unit(input)
    <3>3. chunked_out \in Seq(U) /\ DataOf(Len(prev)) \in Seq(U) /\ Chunked!SignedData \in Seq(U)
      <4>1. Len(input.chain) \in 0..Len(input.chain)
        BY <2>3
      <4> QED BY <2>2, <2>3, <4>1, DataOfStep, InputTypes, ComponentsAssumption
    <3> HIDE DEF U
    <3> QED BY <2>4, <3>2, <3>3, PrefixTrans
  <2>6. CASE worker # "yield"
    BY <2>1, <2>4, <2>6 DEF ChainKept
  <2> QED BY <2>5, <2>6
<1> QED BY <1>1, ChunkInvariant, PTL

\* A stream that ends without an error has yielded the declared number of bytes, and all that
\* was signed if that is its number (poll, BodyEnd between chunks included).
THEOREM EndIsWholeHolds == Chunked!Spec => []EndIsWhole
<1>1. ChunkInv /\ AuthenticPrefix => EndIsWhole
  <2> SUFFICES ASSUME ChunkInv, AuthenticPrefix, chunked_result = "end"
               PROVE  /\ Len(chunked_out) = input.declared
                      /\ ~input.unsigned /\ input.declared = Len(Chunked!SignedData) => chunked_out = Chunked!SignedData
    BY DEF EndIsWhole, Chunked!EndIsWhole
  <2>1. ChunkTypes /\ ChunkLengths
    BY DEF ChunkInv
  <2>2. input \in Input /\ chunked_out \in Seq(Chunked!Sent(input)) /\ Len(chunked_out) \in Nat
    BY <2>1 DEF ChunkTypes
  <2>3. Len(chunked_out) = input.declared
    BY <2>1, <2>2 DEF ChunkLengths
  <2>4. ASSUME ~input.unsigned, input.declared = Len(Chunked!SignedData) PROVE chunked_out = Chunked!SignedData
    <3> DEFINE U == Chunked!Unit(input)
    <3>1. Chunked!IsPrefix(chunked_out, Chunked!SignedData)
      BY <2>4 DEF AuthenticPrefix, Chunked!AuthenticPrefix
    <3>2. chunked_out \in Seq(U) /\ Chunked!SignedData \in Seq(U)
      <4>1. Len(input.chain) \in 0..Len(input.chain)
        <5>1. Len(input.chain) \in Nat
          BY <2>2, InputTypes, ComponentsAssumption
        <5> QED BY <5>1
      <4> QED BY <2>2, <4>1, DataOfStep, InputTypes, ComponentsAssumption
    <3> HIDE DEF U
    <3> QED BY <2>3, <2>4, <3>1, <3>2, PrefixWhole
  <2> QED BY <2>3, <2>4
<1> QED BY <1>1, ChunkInvariant, AuthenticPrefixHolds, PTL

\* Trailers that are stored in a signed mode are the client's, after all of its chunks
\* (read_and_verify_trailers).
THEOREM TrailersAuthenticHolds == Chunked!Spec => []TrailersAuthentic
<1>1. ChunkInv => TrailersAuthentic
  BY Zenon DEF ChunkInv, TrailersKept, TrailersAuthentic, Chunked!TrailersAuthentic
<1> QED BY <1>1, ChunkInvariant, PTL
=============================================================================

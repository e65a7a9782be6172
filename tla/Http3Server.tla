---------------------------- MODULE Http3Server -----------------------------
(***************************************************************************)
(* serve of crates/s3s-http3/src/server.rs: the accept loop, a task per    *)
(* connection, a task per request, and the shutdown that sends GOAWAY,     *)
(* drains and, after a timeout, closes the endpoint.                       *)
(*                                                                         *)
(* A response is [frames, fails, trailers]: how many data frames its body  *)
(* yields, and whether it then fails or ends, with or without trailers.    *)
(* QUIC, h3 and the clients are external.                                  *)
(***************************************************************************)
EXTENDS Integers, FiniteSets

CONSTANTS None,
          Connection, Request,
          Owner,         \* [Request -> Connection]: the connection a request is sent on
          Fields,        \* sets of fields a request may carry
          Responses      \* what the service may answer: None is an error of the service

VARIABLES main,          \* serve: "accept", "drain", "returned"
          asked,         \* the shutdown future is ready
          cancelled,     \* the CancellationToken
          timed_out,     \* DEFAULT_SHUTDOWN_TIMEOUT has passed before the drain was over
          task,          \* per connection: where its task is
          shutting_down, \* per connection: GOAWAY has been sent
          quic,          \* per connection: "open", "broken" by a client that violates the protocol
                         \* of HTTP/3, or closed: by the "server", or for another reason ("peer")
          req,           \* per request: where it is
          fields, response, \* per request
          sent           \* per request: frames queued for the client

server == <<main, asked, cancelled, timed_out>>
conns == <<task, shutting_down, quic>>
reqs == <<req, fields, response, sent>>
vars == <<server, conns, reqs>>

Tasks == {"none", "handshake", "accept", "join", "closed", "gone"}
Running == {"resolve", "serve", "send"}
Settled == {"unsent", "sent", "refused", "malformed", "reset", "panicked", "aborted", "read"}

\* What the code's types give: a request belongs to a connection, and a response has a body.
ConstantsOK ==
    /\ Owner \in [Request -> Connection]
    /\ \A x \in Responses : x # None => x \in [frames : Nat, fails : BOOLEAN, trailers : BOOLEAN]

Of(c) == {r \in Request : Owner[r] = c}
Unclosed == {"open", "broken"}

TypeOK ==
    /\ main \in {"accept", "drain", "returned"}
    /\ asked \in BOOLEAN /\ cancelled = (main # "accept") /\ timed_out \in BOOLEAN
    /\ task \in [Connection -> Tasks] /\ shutting_down \in [Connection -> BOOLEAN]
    /\ quic \in [Connection -> {"open", "broken", "peer", "server"}]
    /\ req \in [Request -> Running \cup Settled \cup {"finished"}]
    /\ \A r \in Request : sent[r] > 0 => response[r] # None
    /\ \A r \in Request : req[r] \in Running => task[Owner[r]] \in {"accept", "join"}

Init ==
    /\ main = "accept" /\ asked = FALSE /\ cancelled = FALSE /\ timed_out = FALSE
    /\ task = [c \in Connection |-> "none"]
    /\ shutting_down = [c \in Connection |-> FALSE]
    /\ quic = [c \in Connection |-> "open"]
    /\ req = [r \in Request |-> "unsent"]
    /\ fields \in [Request -> Fields]
    /\ response = [r \in Request |-> None]
    /\ sent = [r \in Request |-> 0]

-----------------------------------------------------------------------------
\* Clients and the network.

Connect(c) ==
    /\ task[c] = "none" /\ main = "accept"
    /\ task' = [task EXCEPT ![c] = "handshake"]
    /\ UNCHANGED <<server, shutting_down, quic, reqs>>

Send(r) ==
    /\ task[Owner[r]] = "accept" /\ quic[Owner[r]] = "open" /\ req[r] = "unsent"
    /\ req' = [req EXCEPT ![r] = "sent"]
    /\ UNCHANGED <<server, conns, fields, response, sent>>

\* What was queued and finished reaches the client as long as the connection is not closed.
Reads(r) ==
    /\ req[r] = "finished" /\ quic[Owner[r]] \in Unclosed
    /\ req' = [req EXCEPT ![r] = "read"]
    /\ UNCHANGED <<server, conns, fields, response, sent>>

\* The client closes the connection, or it is lost.
PeerCloses(c) ==
    /\ task[c] \notin {"none", "gone"} /\ quic[c] \in Unclosed
    /\ quic' = [quic EXCEPT ![c] = "peer"]
    /\ UNCHANGED <<server, task, shutting_down, reqs>>

\* The client sends what is an error of the connection to h3.
PeerErrs(c) ==
    /\ task[c] \in {"handshake", "accept"} /\ quic[c] = "open"
    /\ quic' = [quic EXCEPT ![c] = "broken"]
    /\ UNCHANGED <<server, task, shutting_down, reqs>>

Client ==
    \/ \E c \in Connection : Connect(c) \/ PeerCloses(c) \/ PeerErrs(c)
    \/ \E r \in Request : Send(r) \/ Reads(r)

-----------------------------------------------------------------------------

\* A task that ends, or is dropped, drops its h3 connection, which closes QUIC, and its
\* JoinSet, which aborts its request tasks.
End(cs) ==
    /\ task' = [c \in Connection |-> IF c \in cs THEN "gone" ELSE task[c]]
    /\ quic' = [c \in Connection |-> IF c \notin cs THEN quic[c]
                                   ELSE IF quic[c] = "open" THEN "server"
                                   ELSE IF quic[c] = "broken" THEN "peer" ELSE quic[c]]
    /\ req' = [r \in Request |-> IF Owner[r] \in cs /\ req[r] \in Running THEN "aborted" ELSE req[r]]

\* handle_incoming
Handshake(c) ==
    /\ task[c] = "handshake"
    /\ \/ /\ quic[c] = "open"
          /\ task' = [task EXCEPT ![c] = "accept"]
          /\ UNCHANGED <<quic, req>>
       \/ /\ quic[c] # "open" \/ cancelled
          /\ End({c})
    /\ UNCHANGED <<server, shutting_down, fields, response, sent>>

\* connection.accept() with a request; h3 refuses those behind its GOAWAY.
Accept(r) ==
    /\ task[Owner[r]] = "accept" /\ req[r] = "sent"
    /\ req' = [req EXCEPT ![r] = IF shutting_down[Owner[r]] THEN "refused" ELSE "resolve"]
    /\ UNCHANGED <<server, conns, fields, response, sent>>

\* connection.accept() without one: None when the client is through with the connection or,
\* behind a GOAWAY, every request is; an error, on a connection that is closed or still open,
\* ends the task and its requests.
AcceptNone(c) ==
    /\ task[c] = "accept" /\ quic[c] # "open"
    /\ \/ quic[c] = "peer" /\ task' = [task EXCEPT ![c] = "join"] /\ UNCHANGED <<quic, req>>
       \/ End({c})
    /\ UNCHANGED <<server, shutting_down, fields, response, sent>>

AcceptDrained(c) ==
    /\ task[c] = "accept" /\ shutting_down[c]
    /\ \A r \in Of(c) : req[r] \notin Running \cup {"sent"}
    /\ task' = [task EXCEPT ![c] = "join"]
    /\ UNCHANGED <<server, shutting_down, quic, reqs>>

\* cancellation.cancelled(), if !shutting_down: GOAWAY, which only a closed connection fails.
Cancelled(c) ==
    /\ task[c] = "accept" /\ cancelled /\ ~shutting_down[c]
    /\ shutting_down' = [shutting_down EXCEPT ![c] = TRUE]
    /\ IF quic[c] \in Unclosed THEN UNCHANGED <<task, quic, req>> ELSE End({c})
    /\ UNCHANGED <<server, fields, response, sent>>

\* Mutant: the connection is dropped once the responses are queued.
JoinedEnds(c) ==
    /\ task[c] = "join" /\ \A r \in Of(c) : req[r] \notin Running
    /\ End({c})
    /\ UNCHANGED <<server, shutting_down, fields, response, sent>>

\* The request tasks are joined, whether they end or panic.
Joined(c) ==
    /\ task[c] = "join" /\ \A r \in Of(c) : req[r] \notin Running
    /\ task' = [task EXCEPT ![c] = "closed"]
    /\ UNCHANGED <<server, shutting_down, quic, reqs>>

\* quic.closed()
Closed(c) ==
    /\ task[c] = "closed" /\ quic[c] \notin Unclosed
    /\ End({c})
    /\ UNCHANGED <<server, shutting_down, fields, response, sent>>

ConnectionTask(c) ==
    \/ Handshake(c) \/ AcceptNone(c) \/ AcceptDrained(c) \/ Cancelled(c) \/ Joined(c) \/ Closed(c)
    \/ \E r \in Of(c) : Accept(r)

-----------------------------------------------------------------------------
Forbidden == {"connection", "transfer-encoding", "upgrade", "keep-alive", "proxy-connection"}
disallowed_request_field(fs) == fs \cap Forbidden # {} \/ "te: other" \in fs

To(r, state) == req' = [req EXCEPT ![r] = state]

\* handle_request: what cannot be resolved, for its own sake or its connection's, or carries a
\* field of HTTP/1 is not served.
Resolve(r) ==
    /\ req[r] = "resolve"
    /\ \/ To(r, "reset")
       \/ /\ quic[Owner[r]] \in Unclosed
          /\ To(r, IF disallowed_request_field(fields[r]) THEN "malformed" ELSE "serve")
    /\ UNCHANGED <<server, conns, fields, response, sent>>

\* The service answers, fails or panics.
Serve(r) ==
    /\ req[r] = "serve"
    /\ \/ To(r, "panicked") /\ UNCHANGED response
       \/ \E x \in Responses :
            /\ response' = [response EXCEPT ![r] = x]
            /\ To(r, IF x = None THEN "reset" ELSE "send")
    /\ UNCHANGED <<server, conns, fields, sent>>

\* send_response: a frame, the trailers and the end, or the reset of a body that fails; on a
\* closed connection every write fails.
SendResponse(r) ==
    /\ req[r] = "send"
    /\ \/ quic[Owner[r]] # "open" /\ To(r, "reset") /\ UNCHANGED sent
       \/ /\ sent[r] < response[r].frames
          /\ sent' = [sent EXCEPT ![r] = @ + 1]
          /\ UNCHANGED req
       \/ /\ sent[r] = response[r].frames
          /\ To(r, IF response[r].fails THEN "reset" ELSE "finished")
          /\ sent' = IF response[r].trailers /\ ~response[r].fails THEN [sent EXCEPT ![r] = @ + 1] ELSE sent
    /\ UNCHANGED <<server, conns, fields, response>>

RequestTask(r) == Resolve(r) \/ Serve(r) \/ SendResponse(r)

-----------------------------------------------------------------------------
Shutdown ==
    /\ ~asked
    /\ asked' = TRUE
    /\ UNCHANGED <<main, cancelled, timed_out, conns, reqs>>

\* endpoint.accept() is None: somebody else has closed the endpoint, and with it every connection.
EndpointClosed ==
    /\ main = "accept"
    /\ main' = "drain" /\ cancelled' = TRUE
    /\ quic' = [c \in Connection |-> IF quic[c] \in Unclosed /\ task[c] # "none" THEN "peer" ELSE quic[c]]
    /\ UNCHANGED <<asked, timed_out, task, shutting_down, reqs>>

\* The accept loop ends; connections.join_next() in the loop itself changes nothing.
Cancel ==
    /\ main = "accept" /\ asked
    /\ main' = "drain" /\ cancelled' = TRUE
    /\ UNCHANGED <<asked, timed_out, conns, reqs>>

\* endpoint.close, and return: the tasks that are left are aborted with their JoinSet.
Return ==
    /\ main' = "returned"
    /\ End({c \in Connection : task[c] # "none"})
    /\ UNCHANGED <<asked, cancelled, shutting_down, fields, response, sent>>

\* connections.join_next() until there is none left.
Drained ==
    /\ main = "drain" /\ \A c \in Connection : task[c] \in {"none", "gone"}
    /\ Return /\ UNCHANGED timed_out

\* Mutant: no timeout bounds the drain.
TimeoutNever == FALSE /\ UNCHANGED vars

\* tokio::time::timeout around the drain.
Timeout ==
    /\ main = "drain" /\ \E c \in Connection : task[c] \notin {"none", "gone"}
    /\ timed_out' = TRUE
    /\ Return

Serving == Cancel \/ Drained \/ Timeout

Returned == main = "returned" /\ UNCHANGED vars

Next ==
    \/ Client \/ Shutdown \/ EndpointClosed \/ Serving \/ Returned
    \/ \E c \in Connection : ConnectionTask(c)
    \/ \E r \in Request : RequestTask(r)

\* The runtime runs every task and the timer fires.  Nothing is assumed of the clients, of
\* the network, or that a shutdown is asked for.
Spec ==
    /\ Init /\ [][Next]_vars
    /\ WF_vars(Serving)
    /\ \A c \in Connection : WF_vars(ConnectionTask(c))
    /\ \A r \in Request : WF_vars(RequestTask(r))

-----------------------------------------------------------------------------
\* The server closes no connection under a request it has accepted: as long as the client
\* stays and keeps to the protocol, the endpoint is left open and the shutdown does not time out, a queued response is read to its end, even
\* though finish() only queues it.
ResponsesReachClient ==
    \A r \in Request : quic[Owner[r]] = "server" /\ req[r] \notin Settled \ {"aborted"} => timed_out

\* A response that the client takes for complete is whole: its body has not failed, and every
\* frame of it, the trailers included, has been queued before the end.
CompleteIsWhole ==
    \A r \in Request : req[r] \in {"finished", "read"} =>
        /\ ~response[r].fails
        /\ sent[r] = response[r].frames + (IF response[r].trailers THEN 1 ELSE 0)

\* Clients get their responses, and get them whole.
ResponsesArrive == ResponsesReachClient /\ CompleteIsWhole

\* "Connections still open after DEFAULT_SHUTDOWN_TIMEOUT are forcibly closed": serve
\* returns, whatever the clients do.
ShutdownReturns == asked ~> (main = "returned")
=============================================================================

--------------------------- MODULE KeepAliveBody ----------------------------
(***************************************************************************)
(* The answer to a complete_multipart_upload that takes its time:          *)
(* KeepAliveBody of crates/s3s/src/http/keep_alive_body.rs around the      *)
(* future of ops/multipart.rs, polled by a connection that sleeps until    *)
(* one of the wakers it left is called.                                    *)
(*                                                                         *)
(* The connection is sent "decl", "space", "document", "trailers", "error" *)
(* and "end".                                                              *)
(***************************************************************************)
EXTENDS Integers, Sequences, FiniteSets, SequencesExt

CONSTANTS MaxTicks       \* how often the interval ticks while it is watched

VARIABLES inner,         \* the future: "pending", its result, or "taken"
          interval,      \* a tick is due
          initial_body, response, done, allow_trailers,
          out,           \* what the connection got
          wakers,        \* where a waker of the connection is registered
          awake,         \* it will poll
          ticks

body == <<initial_body, response, done, allow_trailers>>
vars == <<inner, interval, body, out, wakers, awake, ticks>>

\* A completion that succeeds, one that fails and is answered with an error document or, if
\* the error's status is 1xx, 204, 205 or 304, without a body, and one whose answer cannot be
\* serialised.
Results == {"completed", "s3_error", "bodyless", "failed"}

Over == out # <<>> /\ Last(out) \in {"end", "error"}
Count(item) == Cardinality({i \in DOMAIN out : out[i] = item})

TypeOK ==
    /\ inner \in {"pending", "taken"} \cup Results
    /\ interval \in BOOLEAN /\ done \in BOOLEAN /\ initial_body \in BOOLEAN /\ allow_trailers \in BOOLEAN
    /\ response \in {"none", "read", "empty"}
    /\ wakers \subseteq {"inner", "interval"}
    /\ awake \in BOOLEAN /\ ticks \in 0..MaxTicks
    /\ response # "none" => inner = "taken"
    /\ ~awake => wakers # {} \/ Over

\* set_keep_alive_xml_body: the declaration, and trailers.  A tokio interval ticks at once.
Init ==
    /\ inner = "pending" /\ interval = TRUE
    /\ initial_body = TRUE /\ response = "none" /\ done = FALSE /\ allow_trailers \in BOOLEAN
    /\ out = <<>> /\ wakers = {} /\ awake = TRUE /\ ticks = 0

-----------------------------------------------------------------------------
Wake(source) ==
    /\ awake' = (awake \/ source \in wakers)
    /\ wakers' = wakers \ {source}

InnerCompletes ==
    /\ inner = "pending"
    /\ inner' \in Results
    /\ Wake("inner")
    /\ UNCHANGED <<interval, body, out, ticks>>

Tick ==
    /\ ~interval /\ ticks < MaxTicks
    /\ interval' = TRUE /\ ticks' = ticks + 1
    /\ Wake("interval")
    /\ UNCHANGED <<inner, body, out>>

-----------------------------------------------------------------------------
\* poll_frame.  A connection that is given a frame polls again; one that is left pending
\* waits; at the end it is through, and at an error unless it is careless.
Yields(item) ==
    /\ out' = Append(out, item)
    /\ awake' \in (CASE item = "end" -> {FALSE} [] item = "error" -> BOOLEAN [] OTHER -> {TRUE})
    /\ UNCHANGED <<ticks, allow_trailers>>

PollDone ==
    /\ done
    /\ Yields("end")
    /\ UNCHANGED <<inner, interval, initial_body, response, done, wakers>>

PollInitial ==
    /\ ~done /\ initial_body
    /\ Yields("decl") /\ initial_body' = FALSE
    /\ UNCHANGED <<inner, interval, response, done, wakers>>

\* The future has completed with a response, whose body is in memory and read at once.
PollDocument ==
    /\ inner' = "taken" /\ response' = "read"
    /\ Yields("document")
    /\ UNCHANGED <<interval, initial_body, done, wakers>>

\* The response's body has ended: its headers are left.
PollTrailers ==
    /\ done' = TRUE
    /\ Yields(IF allow_trailers THEN "trailers" ELSE "end")
    /\ UNCHANGED <<inner, interval, initial_body, response, wakers>>

\* The response of serialize_error has no body: the loop is through with it at once.
PollBodyless ==
    /\ inner' = "taken" /\ response' = "empty" /\ done' = TRUE
    /\ Yields(IF allow_trailers THEN "trailers" ELSE "end")
    /\ UNCHANGED <<interval, initial_body, wakers>>

\* Mutant: an error of the future ends the body like a success.
PollFailureSilent ==
    /\ inner' = "taken" /\ done' = TRUE
    /\ Yields("end")
    /\ UNCHANGED <<interval, initial_body, response, wakers>>

\* The future has completed with an error.
PollFailure ==
    /\ inner' = "taken" /\ done' = TRUE
    /\ Yields("error")
    /\ UNCHANGED <<interval, initial_body, response, wakers>>

\* The future is pending: a space when a tick is due, else both have the waker.
PollPending ==
    /\ IF interval
       THEN Yields("space") /\ interval' = FALSE /\ wakers' = wakers \cup {"inner"}
       ELSE /\ awake' = FALSE /\ wakers' = wakers \cup {"inner", "interval"}
            /\ UNCHANGED <<interval, out, ticks, allow_trailers>>
    /\ UNCHANGED <<inner, initial_body, response, done>>

\* The loop: the response, else the future, else the interval.
PollLoop ==
    /\ ~done /\ ~initial_body
    /\ \/ response # "none" /\ PollTrailers
       \/ /\ response = "none"
          /\ \/ inner \in {"completed", "s3_error"} /\ PollDocument
             \/ inner = "bodyless" /\ PollBodyless
             \/ inner = "failed" /\ PollFailure
             \/ inner = "pending" /\ PollPending

MaxItems == MaxTicks + 6        \* bound: more than a body ever yields
Poll == awake /\ Len(out) < MaxItems /\ (PollDone \/ PollInitial \/ PollLoop)

\* A connection that sleeps may sleep on.
Asleep == ~awake /\ UNCHANGED vars

Next == InnerCompletes \/ Tick \/ Poll \/ Asleep

Spec == Init /\ [][Next]_vars

-----------------------------------------------------------------------------
\* What the client parses is one XML document: the declaration, spaces only until the
\* document begins, the document once, whenever the future completes and the interval ticks.
WellFormed ==
    /\ \A i \in DOMAIN out :
        /\ out[i] = "decl" <=> i = 1
        /\ out[i] = "space" => \A j \in 2..i : out[j] = "space"
    /\ Count("document") <= 1 /\ Count("trailers") <= 1

\* A body that ends without an error has delivered the document, and its trailers if they are
\* allowed.  There is one exception: a completion that failed with a bodyless status is
\* answered, behind the status of 200 that was sent with the headers, by the declaration alone.
CleanEndHasResult ==
    Count("end") > 0 /\ Count("error") = 0 =>
        /\ Count("document") = (IF response = "empty" THEN 0 ELSE 1)
        /\ Count("trailers") = (IF allow_trailers THEN 1 ELSE 0)

\* The future is not polled again once it has completed, even by a connection that polls on
\* after an error.
CompletedNotPolled == awake /\ ~done /\ ~initial_body /\ response = "none" => inner # "taken"

\* The client gets one document with the result, or an error, or learns of a failure with a
\* bodyless status from the lack of both.
OneDocument == WellFormed /\ CleanEndHasResult /\ CompletedNotPolled

=============================================================================

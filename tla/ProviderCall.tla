---------------------------- MODULE ProviderCall ----------------------------
(***************************************************************************)
(* One call of a provider, from the first request to the outcome the caller  *)
(* sees.  BLS and BEA are asked through bounded_http, which streams the body; *)
(* the other clients read a response whole.                                  *)
(***************************************************************************)
EXTENDS Values, Integers, Sequences, FiniteSets

CONSTANTS
    MaxAttempts,   \* of the clients that ask again
    MaxBytes,      \* the bound on a body
    ChunkSizes     \* bound: sizes of the pieces a body comes in

ASSUME CallAssumption ==
    MaxAttempts \in Nat \ {0} /\ MaxBytes \in Nat /\ ChunkSizes \subseteq Nat /\ Null # "OK"

VARIABLE call

Clients == {"bounded", "census", "treasury", "fred"}

Attempts(client) == IF client \in {"bounded", "census"} THEN MaxAttempts ELSE 1

\* How a request may fail before there is a response.
Failures == {"timeout", "unreachable"}

\* What a response may be: "invalid-key" and "missing-key" are the redirects by
\* which Census refuses a key, "bad-key" and "no-series" what FRED's 400 may say.
Responses == {"200", "302", "invalid-key", "missing-key", "400", "bad-key", "no-series", "429", "500"}

FailureError(client, kind) ==
    CASE kind = "timeout" -> "TimeoutError"
      [] kind = "unreachable" -> IF client = "bounded" THEN "UnavailableError" ELSE "UpstreamError"

\* _raise_for_status of bounded_http, and what the other clients make of a status.
ResponseError(client, response) ==
    CASE response = "200" -> Null
      [] response = "429" /\ client = "bounded" -> "RateLimitedError"
      [] response = "500" /\ client = "bounded" -> "UnavailableError"
      [] response \in {"invalid-key", "missing-key"} /\ client = "census" -> "AuthError"
      [] response = "bad-key" /\ client = "fred" -> "AuthError"
      [] response = "no-series" /\ client = "fred" -> "SeriesNotFoundError"
      [] OTHER -> IF client = "bounded" THEN "ResponseError" ELSE "UpstreamError"

\* Mutant: being told to slow down is a reason to ask again at once.
RetriesAnyRefusal(client, response) == client = "bounded" /\ response \in {"429", "500"}

\* Only bounded_http asks again after an answer, and only after a 5xx.
RetriesResponse(client, response) == client = "bounded" /\ response = "500"

---------------------------------------------------------------------------
(* met: what each attempt met; delivered: bytes of each attempt's body that   *)
(* reached the caller; open: the HTTP client has not been closed.            *)

CallInit ==
    \E client \in Clients :
        call = [client |-> client, phase |-> "ready", met |-> <<>>, received |-> 0,
                delivered |-> <<>>, open |-> FALSE, outcome |-> Null]

Attempt == Len(call.delivered)

Send ==
    /\ call.phase = "ready"
    /\ call' = [call EXCEPT !.phase = "asked", !.open = TRUE, !.received = 0,
                            !.delivered = Append(@, 0)]

\* Asks again, or gives up with an error; either way the client is closed.
AgainOr(error, again, met) ==
    call' = [call EXCEPT !.met = Append(@, met), !.open = FALSE,
                         !.phase = IF again THEN "ready" ELSE "ended",
                         !.outcome = IF again THEN Null ELSE error]

Fail(kind) ==
    /\ call.phase = "asked"
    /\ AgainOr(FailureError(call.client, kind), Attempt < Attempts(call.client), kind)

Refuse(response) ==
    /\ call.phase = "asked"
    /\ ResponseError(call.client, response) # Null
    /\ AgainOr(ResponseError(call.client, response),
               RetriesResponse(call.client, response) /\ Attempt < Attempts(call.client), response)

\* A body streamed piece by piece; its declared size (Null when there is none)
\* is believed before the first byte is read.
AcceptStream(declared) ==
    /\ call.phase = "asked" /\ call.client = "bounded"
    /\ IF declared # Null /\ declared > MaxBytes
       THEN AgainOr("ResponseError", FALSE, "too-large")
       ELSE call' = [call EXCEPT !.phase = "body", !.met = Append(@, "200")]

Chunk(size) ==
    /\ call.phase = "body"
    /\ IF call.received + size > MaxBytes
       THEN call' = [call EXCEPT !.phase = "ended", !.open = FALSE, !.outcome = "ResponseError"]
       ELSE call' = [call EXCEPT !.received = @ + size, !.delivered[Attempt] = @ + size]

\* The body breaks off: what was delivered is not asked for again.
BodyFails(kind) ==
    /\ call.phase = "body"
    /\ call' = [call EXCEPT !.phase = "ended", !.open = FALSE, !.outcome = FailureError(call.client, kind)]

\* The body is complete, or the caller's parser gives up on it.
EndOfBody(outcome) ==
    /\ call.phase = "body" /\ outcome \in {"OK", "ResponseError"}
    /\ call' = [call EXCEPT !.phase = "ended", !.open = FALSE, !.outcome = outcome]

\* A whole body; FRED's is not measured.
AcceptWhole(size, readable) ==
    /\ call.phase = "asked" /\ call.client # "bounded"
    /\ LET good == readable /\ (call.client = "fred" \/ size =< MaxBytes)
       IN  call' = [call EXCEPT !.phase = "ended", !.open = FALSE, !.met = Append(@, "200"),
                                !.delivered[Attempt] = IF good THEN size ELSE 0,
                                !.outcome = IF good THEN "OK" ELSE "UpstreamError"]

CallNext ==
    \/ Send
    \/ \E kind \in Failures : Fail(kind) \/ BodyFails(kind)
    \/ \E response \in Responses : Refuse(response)
    \/ \E declared \in {Null, MaxBytes, MaxBytes + 1} : AcceptStream(declared)
    \/ \E size \in ChunkSizes : Chunk(size)
    \/ \E outcome \in {"OK", "ResponseError"} : EndOfBody(outcome)
    \/ \E size \in {MaxBytes, MaxBytes + 1}, readable \in BOOLEAN : AcceptWhole(size, readable)

---------------------------------------------------------------------------
\* clients/bounded_http.py:156 and census.py:307: the caller sees one body at
\* most, never one begun and begun again, within the bound where there is one; a
\* request is repeated only after an attempt that brought no answer (or a server
\* error, for bounded_http); a refusal is final, and no call leaves its client open.
OneBodyAtMost ==
    LET begun == {i \in DOMAIN call.delivered : call.delivered[i] > 0}
    IN  /\ Cardinality(begun) =< 1 /\ begun \subseteq {Len(call.delivered)}
        /\ call.client # "fred" => \A i \in begun : call.delivered[i] =< MaxBytes
        /\ Len(call.delivered) =< Attempts(call.client)
        /\ \A i \in DOMAIN call.met : i < Len(call.delivered) =>
             call.met[i] \in Failures \cup (IF call.client = "bounded" THEN {"500"} ELSE {})
        /\ call.open <=> call.phase \in {"asked", "body"}
        /\ call.outcome = "OK" => call.met[Len(call.met)] = "200"
=============================================================================

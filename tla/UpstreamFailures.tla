-------------------------- MODULE UpstreamFailures --------------------------
(***************************************************************************)
(* How an upstream attempt can fail, and what the gateway concludes        *)
(* (services/failover.py, services/error_detail.py,                        *)
(* services/stream_outcomes.py, the statuses of services/key_pool.py).     *)
(*                                                                         *)
(* A failure is the class of the exception, with the status it carries.    *)
(***************************************************************************)
EXTENDS Naturals, FiniteSets

\* httpx.TimeoutException, httpx.NetworkError and their subclasses
Timeouts      == {"ConnectTimeout", "PoolTimeout", "ReadTimeout", "WriteTimeout"}
NetworkErrors == {"ConnectError", "ReadError", "WriteError", "CloseError"}

Plain(class)    == [class |-> class, status |-> 0, event |-> FALSE, unfinished |-> FALSE]
Status(code)    == [class |-> "HTTPStatusError", status |-> code, event |-> FALSE, unfinished |-> FALSE]

\* UpstreamStreamError is an HTTPStatusError: an error event in a stream that
\* came with HTTP 200, or the end of a stream without a terminal event
ErrorStatus == [invalid_request_error |-> 400, context_length_exceeded |-> 400,
                authentication_error |-> 401, invalid_api_key |-> 401, permission_error |-> 403,
                not_found_error |-> 404, model_not_found |-> 404,
                rate_limit_error |-> 429, rate_limit_exceeded |-> 429, insufficient_quota |-> 429,
                server_is_overloaded |-> 503, overloaded_error |-> 529]
StatusOfEvent(type, code) ==
    IF type \in DOMAIN ErrorStatus THEN ErrorStatus[type]
    ELSE IF code \in DOMAIN ErrorStatus THEN ErrorStatus[code] ELSE 502
EventError(type, code) == [Status(StatusOfEvent(type, code)) EXCEPT !.event = TRUE]
Unfinished == [Status(502) EXCEPT !.event = TRUE, !.unfinished = TRUE]

NoReadyUpstreamKey == Plain("NoReadyUpstreamKey")
Unexpected         == Plain("Exception")   \* anything else that is raised

CredentialStatuses == {401, 403}
KeyStatuses        == {401, 403, 429}

IsRetryable(e) ==
    \/ e.class \in Timeouts \cup NetworkErrors \cup {"RemoteProtocolError"}
    \/ e.status = 429 \/ e.status >= 500

IsCredential(e) == e.status \in CredentialStatuses

ShouldSwitch(e) == IsRetryable(e) \/ IsCredential(e) \/ e.class = "NoReadyUpstreamKey"

NeverReached(e) ==
    \/ e.class \in {"NoReadyUpstreamKey", "ConnectError", "ConnectTimeout", "PoolTimeout"}
    \/ e.status = 429 \/ IsCredential(e)

OutcomeUncertain(e) ==
    IF e.event THEN e.unfinished
    ELSE e.class \in {"ReadTimeout", "WriteTimeout", "ReadError", "WriteError", "RemoteProtocolError"}

\* upstream_json_error and client_status: a 4xx with a JSON body passes as it
\* is, and so does an error that came with HTTP 200, whatever its status;
\* credentials of the platform are never the client's
PassesThrough(e, json) ==
    /\ e.class = "HTTPStatusError" /\ json /\ ~IsCredential(e)
    /\ e.status >= 400 /\ (e.status >= 500 => e.event)
ClientStatus(e, json) ==
    IF e.class = "NoReadyUpstreamKey" THEN 503
    ELSE IF PassesThrough(e, json) THEN e.status ELSE 502

=============================================================================

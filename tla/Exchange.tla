------------------------------ MODULE Exchange ------------------------------
(***** One request and its answer between two endpoints of this library, or between one of them and a peer that
       writes what it likes: from SendRequest over ParseMessage, the request handler and sendResponse to the
       callback of the caller.  The queue in front of the call and the timeout behind it are the dispatchers'. *****)
EXTENDS Endpoint

VARIABLES
    setup,    \* the two endpoints and the feature
    phase,    \* where the exchange is
    request,  \* the payload the caller gave, or none
    call,     \* the message with the request on the wire, or none
    handled,  \* the payload the request handler got, or none
    reply,    \* what the request handler did, or none
    answers,  \* the messages the responder has written
    outcome,  \* what the caller knows
    result,   \* the payload the callback of the caller got, or none
    lost,     \* a write of the responder has failed
    panicked  \* the library has panicked, in a handler, a callback or the validator

vars == <<setup, phase, request, call, handled, reply, answers, outcome, result, lost, panicked>>

None == [path |-> <<>>, value |-> "none"]
NoMessage == Call("", "", None)
NoReply == [kind |-> "none", payload |-> None, code |-> ""]

Caller == setup.caller
Responder == setup.responder
Feature == Features[Caller.version][setup.feature]

\* A peer that is not this library.
IsForeign(e) == e.hook = "foreign"

Pending == IF outcome = "pending" THEN [id \in {"m1"} |-> setup.feature] ELSE [id \in {} |-> ""]

-----------------------------------------------------------------------------
(* The caller sends. *)

\* SendRequest with a payload: an error at once, or a CALL on the wire.
Send(p) ==
    /\ phase = "start" /\ ~IsForeign(Caller)
    /\ request' = p
    /\ panicked' = (Supports(Caller, setup.feature) /\ Caller.validates
                    /\ ValidatorPanics(Caller.version, Feature.request))
    /\ \E out \in {SendRequest(Caller, setup.feature, p).out} :
           /\ call' = IF out = <<>> THEN NoMessage ELSE out[1]
           /\ outcome' = IF out = <<>> THEN "refused" ELSE "pending"
           /\ phase' = IF out = <<>> THEN "done" ELSE "call"
    /\ UNCHANGED <<setup, handled, reply, answers, result, lost>>

\* A peer writes any message.
ForeignCall(msg) ==
    /\ phase = "start" /\ IsForeign(Caller)
    /\ call' = msg
    /\ phase' = "call"
    /\ UNCHANGED <<setup, request, handled, reply, answers, outcome, result, lost, panicked>>

-----------------------------------------------------------------------------
(* The responder. *)

\* ocppMessageHandler, up to the request handler: an invalid message is answered with its error, a request that has no
\* handler is refused.
Receive(written) ==
    /\ phase = "call" /\ ~IsForeign(Responder)
    /\ \E parsed \in {ParseMessage(Responder, call, [id \in {} |-> ""])} :
       \E verdict \in {IF parsed.kind = "call" THEN HandleIncomingRequest(Responder, parsed.name) ELSE parsed.kind} :
           /\ CASE verdict = "run" ->
                     handled' = parsed.payload /\ phase' = "handling" /\ UNCHANGED <<answers, lost>>
                [] OTHER ->
                     /\ answers' = CASE verdict = "invalid" -> ReplyToInvalid(Responder, parsed, written)
                                     [] verdict = "nothing" -> <<>>
                                     [] OTHER -> RefuseRequest(Responder, call.id, verdict, written).out
                     /\ lost' = ~written
                     /\ phase' = "answer"
                     /\ UNCHANGED handled
           /\ panicked' = (panicked \/ verdict = "InternalError" \/ ParsePanics(Responder, call))
    /\ UNCHANGED <<setup, request, call, reply, outcome, result>>

\* The request handler returns or panics, and sendResponse answers.
HandlerReturns(r, written) ==
    /\ phase = "handling"
    /\ reply' = r
    /\ answers' = sendResponse(Responder, call.id, call.name, r, written)
    /\ lost' = \E n \in DOMAIN written : ~written[n]
    /\ panicked' = (\/ panicked
                    \/ r.kind = "response" /\ Responder.validates
                       /\ ValidatorPanics(Responder.version, Features[Responder.version][call.name].response))
    /\ phase' = "answer"
    /\ UNCHANGED <<setup, request, call, handled, outcome, result>>

\* A peer answers with any message.
ForeignAnswer(msg) ==
    /\ phase = "call" /\ IsForeign(Responder)
    /\ answers' = <<msg>>
    /\ phase' = "answer"
    /\ UNCHANGED <<setup, request, call, handled, reply, outcome, result, lost, panicked>>

-----------------------------------------------------------------------------
(* The caller is answered. *)

\* The dispatcher gives the request up; an answer that comes later finds nothing pending.
TimesOut ==
    /\ phase = "answer" /\ outcome = "pending"
    /\ outcome' = "timeout"
    /\ UNCHANGED <<setup, phase, request, call, handled, reply, answers, result, lost, panicked>>

\* ocppMessageHandler and the callback: a typed method asserts the type of the response.  The error that an invalid
\* answer is replied to with finds nothing pending at the responder, and is dropped there.
ReceiveAnswer ==
    LET methods == Methods[Caller.version][Caller.side] IN
    /\ phase = "answer" /\ answers # <<>> /\ ~IsForeign(Caller)
    /\ \E parsed \in {ParseMessage(Caller, answers[1], Pending)} :
           /\ outcome' = IF parsed.kind \in {"result", "error"} THEN parsed.kind ELSE outcome
           /\ result' = IF parsed.kind = "result" THEN parsed.payload ELSE result
           /\ panicked' = (\/ panicked
                           \/ parsed.kind = "result" /\ setup.feature \in DOMAIN methods
                              /\ methods[setup.feature] # Feature.response.type)
    /\ phase' = "done"
    /\ UNCHANGED <<setup, request, call, handled, reply, answers, lost>>

-----------------------------------------------------------------------------
(* Properties. *)

\* The message tells the responder whom to answer: a CALL, or a message of an unknown type, that can be read and has
\* an id that fits.
Addressed(msg) == /\ msg.type \notin {"result", "error"} /\ ~Unreadable(msg)
                  /\ msg.shape \notin {"short", "bad type", "bad id"}
                  /\ msg.id \notin {"", "long"}

Ended == phase = "done" \/ (phase = "answer" /\ (answers = <<>> \/ IsForeign(Caller)))

\* The numbers that validation lets through and float64 does not: the receiver cannot decode the one, and cannot read
\* a message with the other.
Beyond == {"huge", "overflow"}

\* Nobody is left waiting: a CALL that can be read and names its sender's request is answered exactly once, whatever
\* is wrong with it and whatever the request handler returns or does, as long as writes succeed and the
\* invalidMessageHook does not make up an error code; and between two endpoints of this library, of which the
\* responder validates what it sends and responds with no number beyond float64, the answer is one that ends the
\* request of the caller before the timeout has to (sendResponse, HandleFailedResponseError, RecoverPanicGoroutine).
Answered ==
    /\ ~IsForeign(Responder) => Len(answers) <= 1
    /\ (Ended /\ call # NoMessage /\ ~IsForeign(Responder) /\ Addressed(call) /\ ~lost
            /\ Responder.hook # "invalid code")
       => /\ Len(answers) = 1
          /\ (~IsForeign(Caller) /\ Responder.validates /\ outcome # "timeout" /\ reply.payload.value \notin Beyond)
             => outcome \in {"result", "error"}

\* The values that arrive changed: an empty array that is left out, the fraction of a second, an integer beyond
\* 2^53, the Go type behind an interface, bytes that are not UTF-8; and of extensions the spelling, an entry under the
\* reserved name, one without bytes.
Lossy == {<<"empty", "nil">>, <<"sub", "good">>, <<"big", "rounded">>, <<"typed", "generic">>, <<"bytes", "replaced">>,
          <<"lexeme", "plain">>, <<"reserved", "nil">>, <<"blank", "null">>}

Same(p, q) == p.path = q.path /\ (p.value = q.value \/ <<p.value, q.value>> \in Lossy)

\* Two endpoints of this library understand each other: a request that a constructor makes is sent; a request that
\* the caller's validation lets through reaches the request handler, with the payload that was sent, unless it has a
\* number beyond float64, with which it never does; a response reaches the callback with the payload the handler
\* returned; and the tables that have to agree (profiles, features, handlers, routes, type assertions, registered
\* tags) never make the library panic.
Interoperable ==
    /\ ~panicked
    /\ (request = Constructed /\ outcome = "refused") =>
           ~Supports(Caller, setup.feature) \/ setup.feature \notin Sends[Caller.version][Caller.side]
    /\ (phase \notin {"start", "call"} /\ ~IsForeign(Caller) /\ ~IsForeign(Responder) /\ call # NoMessage
            /\ Caller.validates /\ Responder.lacks = {} /\ Responder.nils = {})
       => IF request.value \in Beyond THEN handled = None ELSE handled # None /\ Same(request, handled)
    /\ (result # None /\ ~IsForeign(Responder)) => Same(reply.payload, result)

\* Whatever the peer sends and whatever the way through float64 makes of it, the request handler and the callback of
\* an endpoint that validates only see payloads that satisfy the validation tags of their type (ParseMessage).
OnlyValid ==
    /\ handled # None /\ Responder.validates =>
           Features[Responder.version][call.name].request.errors[handled] = <<>>
    /\ result # None /\ Caller.validates => Feature.response.errors[result] = <<>>

-----------------------------------------------------------------------------
(* What comments say and ParseMessage does not do. *)

\* "When disabled, outgoing and incoming OCPP messages will not be validated anymore" (ocppj/validation.go 27): an
\* endpoint whose validation is switched off refuses no message for a constraint on its fields.
ValidationIsOff ==
    (phase = "answer" /\ ~IsForeign(Responder) /\ ~Responder.validates /\ handled = None /\ answers # <<>>)
    => answers[1].name \notin {"PropertyConstraintViolation", OccurrenceConstraintErrorType(Responder)}

\* "including number formatting (1.00 stays 1.00)" (ocpp2.0.1/types/customdata.go 104-108): an extension reaches the
\* request handler as it was spelled.
ExtensionsKeepSpelling == (handled # None /\ request.value = "lexeme") => handled = request

=============================================================================

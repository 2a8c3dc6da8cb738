------------------------------ MODULE Endpoint ------------------------------
(***** What an endpoint does with one message, as functions of the endpoint and the message: ocppj.go (ParseMessage
       and the Create functions), the sending functions and the message handler that ocppj.Client and ocppj.Server
       share, and what the four facades do with an incoming request. *****)
EXTENDS Payload

M16 == INSTANCE Features16
M201 == INSTANCE Features201
F16 == INSTANCE Facade16
F201 == INSTANCE Facade201

\* An endpoint: its OCPP version, which side it is, the default profiles it was made without, the handlers that are
\* nil, whether outgoing messages are validated (SetMessageValidation), and what its invalidMessageHook does.
Endpoint(version, side, lacks, nils, validates, hook) ==
    [version |-> version, side |-> side, lacks |-> lacks, nils |-> nils, validates |-> validates, hook |-> hook]

\* A message with what happens to each of its payloads, computed once.
Tabulated(m) ==
    LET encoded == [p \in Payloads(m) |-> Marshalled(m, p)]
        decoded == [w \in WirePayloads(m) \cup {encoded[p] : p \in Payloads(m)} |-> Unmarshalled(m, w)]
    IN  [type |-> m.type, tags |-> CustomTags(m.fields), payloads |-> Payloads(m), wire |-> WirePayloads(m),
         encoded |-> encoded, decoded |-> decoded,
         errors |-> [p \in {q \in Payloads(m) \cup {decoded[w] : w \in DOMAIN decoded} : q.value # "error"} |->
                        Errors(m, p)]]

\* The tables of the two versions, by feature name.
ByName(features) ==
    [name \in {f.name : f \in features} |->
        LET f == CHOOSE f \in features : f.name = name IN
        [request |-> Tabulated(f.request), response |-> Tabulated(f.response)]]
Features == [v16 |-> ByName(M16!Features), v201 |-> ByName(M201!Features)]
Registered == [v16 |-> M16!Registered, v201 |-> M201!Registered]
DefaultProfiles == [v16 |-> F16!DefaultProfiles, v201 |-> F201!DefaultProfiles]
Sends == [v16 |-> F16!Sends, v201 |-> F201!Sends]
Methods == [v16 |-> F16!Methods, v201 |-> F201!Methods]
Checks == [v16 |-> F16!Checks, v201 |-> F201!Checks]
Routes == [v16 |-> F16!Routes, v201 |-> F201!Routes]

\* The profiles of the endpoint that have the feature: the first one counts.
GetProfileForFeature(e, name) ==
    SelectSeq(DefaultProfiles[e.version], LAMBDA p : p.name \notin e.lacks /\ name \in p.features)
Supports(e, name) == GetProfileForFeature(e, name) # <<>>

\* The first validation of a struct panics when one of its tags is not registered.
ValidatorPanics(version, m) == ~(m.tags \subseteq Registered[version])

\* ParseMessage validates the request of every CALL it can decode.
ParsePanics(e, msg) ==
    /\ msg.type = "call" /\ msg.shape = "ok" /\ Supports(e, msg.name)
    /\ ValidatorPanics(e.version, Features[e.version][msg.name].request)

-----------------------------------------------------------------------------
(* Error codes. *)

FormatErrorType(e) == IF e.version = "v16" THEN "FormationViolation" ELSE "FormatViolation"
OccurrenceConstraintErrorType(e) ==
    IF e.version = "v16" THEN "OccurenceConstraintViolation" ELSE "OccurrenceConstraintViolation"

\* IsErrorCodeValid
ErrorCodes ==
    {"NotImplemented", "NotSupported", "InternalError", "MessageTypeNotSupported", "ProtocolError", "SecurityError",
     "FormationViolation", "FormatViolation", "PropertyConstraintViolation", "OccurenceConstraintViolation",
     "OccurrenceConstraintViolation", "TypeConstraintViolation", "GenericError"}

\* The first error with one of the listed tags decides.
errorFromValidation(e, errors) ==
    LET known == SelectSeq(errors, LAMBDA t : t \in {"required", "max", "min", "gte", "gt", "lte", "lt"}) IN
    IF known = <<>> THEN "GenericError"
    ELSE IF known[1] = "required" THEN OccurrenceConstraintErrorType(e) ELSE "PropertyConstraintViolation"

-----------------------------------------------------------------------------
(* Messages.  The shape is how the JSON array deviates from what the type calls for. *)

Shapes == {"ok", "not json", "short", "bad type", "bad id", "bad length", "bad name"}

Call(id, action, payload) ==
    [type |-> "call", shape |-> "ok", id |-> id, name |-> action, payload |-> payload]
CallResult(id, payload) ==
    [type |-> "result", shape |-> "ok", id |-> id, name |-> "", payload |-> payload]
CallError(id, code) ==
    [type |-> "error", shape |-> "ok", id |-> id, name |-> code, payload |-> Good]

\* The unique id: required, at most 36 characters.
IdErrors(id) ==
    CASE id = "" -> <<"required">>
      [] id = "long" -> <<"max">>
      [] OTHER -> <<>>

\* What ParseMessage returns: a message, nothing at all, or an ocpp.Error with a code and a message id.
Parsed(kind, payload, name) == [kind |-> kind, payload |-> payload, name |-> name, id |-> ""]
Invalid(code, id) == [kind |-> "invalid", payload |-> Good, name |-> code, id |-> id]
Nothing == Parsed("nothing", Good, "")

\* Mutant of ParsePayload: the payload of a response is not validated.
ParsePayloadOfCalls(e, kind, m, msg) ==
    LET p == m.decoded[msg.payload]
        errors == IF kind = "call" THEN IdErrors(msg.id) \o m.errors[p] ELSE IdErrors(msg.id)
    IN  IF p.value = "error" THEN Invalid(FormatErrorType(e), msg.id)
        ELSE IF errors # <<>> THEN Invalid(errorFromValidation(e, errors), msg.id)
        ELSE Parsed(kind, p, msg.name)

\* A payload that is decoded and, whatever SetMessageValidation says, validated.
ParsePayload(e, kind, m, msg) ==
    LET p == m.decoded[msg.payload]
        errors == IdErrors(msg.id) \o m.errors[p]
    IN  IF p.value = "error" THEN Invalid(FormatErrorType(e), msg.id)
        ELSE IF errors # <<>> THEN Invalid(errorFromValidation(e, errors), msg.id)
        ELSE Parsed(kind, p, msg.name)

ParseCall(e, msg) ==
    IF msg.shape # "ok" THEN Invalid(FormatErrorType(e), msg.id)
    ELSE IF ~Supports(e, msg.name) THEN Invalid("NotSupported", msg.id)
    ELSE ParsePayload(e, "call", Features[e.version][msg.name].request, msg)

\* The feature of the pending request tells which response to expect.
ParseCallResult(e, msg, feature) ==
    IF Supports(e, feature)
    THEN ParsePayload(e, "result", Features[e.version][feature].response, msg)
    ELSE Invalid("InternalError", msg.id)

ParseCallError(e, msg) ==
    LET errors == IdErrors(msg.id) \o IF msg.name \in ErrorCodes THEN <<>> ELSE <<"errorCode">> IN
    IF msg.shape # "ok" THEN Invalid(FormatErrorType(e), IF msg.shape = "bad name" THEN "" ELSE msg.id)
    ELSE IF errors # <<>> THEN Invalid(errorFromValidation(e, errors), msg.id)
    ELSE Parsed("error", Good, msg.name)

\* ParseRawJsonMessage fails, and ocppMessageHandler returns before it knows whom to answer: the message is no JSON,
\* or a number in it is beyond every float64.
Unreadable(msg) == msg.shape = "not json" \/ msg.payload.value = "overflow"

\* pending is a function from the ids of the pending requests to their features.
ParseMessage(e, msg, pending) ==
    IF Unreadable(msg) THEN Nothing
    ELSE IF msg.shape \in {"short", "bad type", "bad id"} \/ msg.id = "" THEN Invalid(FormatErrorType(e), "")
    ELSE IF msg.type \in {"result", "error"} /\ msg.id \notin DOMAIN pending THEN Nothing
    ELSE CASE msg.type = "call" -> ParseCall(e, msg)
           [] msg.type = "result" -> ParseCallResult(e, msg, pending[msg.id])
           [] msg.type = "error" -> ParseCallError(e, msg)
           [] OTHER -> Invalid("MessageTypeNotSupported", msg.id)

-----------------------------------------------------------------------------
(* Sending.  An attempt to answer yields the messages written and the error returned: none, validation errors, or an
   ocpp.Error with a code. *)

Sent(msg) == [out |-> <<msg>>, errors |-> <<>>, code |-> ""]
Refused(errors) == [out |-> <<>>, errors |-> errors, code |-> ""]
Failed(code) == [out |-> <<>>, errors |-> <<>>, code |-> code]

\* SendRequestCtx up to the dispatcher: CreateCall and MarshalJSON.
CreateCall(e, feature, p) ==
    LET m == Features[e.version][feature].request
    IN  IF ~Supports(e, feature) THEN Failed("unsupported")
        ELSE IF e.validates /\ m.errors[p] # <<>> THEN Refused(m.errors[p])
        ELSE IF m.encoded[p].value = "error" THEN Failed("marshal")
        ELSE Sent(Call("m1", feature, m.encoded[p]))

\* The facades' SendRequestAsyncCtx: only the features of the side, and only with the profile.
SendRequest(e, feature, p) ==
    IF Supports(e, feature) /\ feature \in Sends[e.version][e.side] THEN CreateCall(e, feature, p)
    ELSE Failed("unsupported")

SendError(e, id, code, written) ==
    LET errors == IdErrors(id) \o IF code \in ErrorCodes THEN <<>> ELSE <<"errorCode">> IN
    IF e.validates /\ errors # <<>> THEN Refused(errors)
    ELSE IF ~written THEN Failed("GenericError")
    ELSE Sent(CallError(id, code))

SendResponse(e, id, feature, p, written) ==
    LET m == Features[e.version][feature].response
    IN  IF ~Supports(e, feature) THEN Failed("NotSupported")
        ELSE IF e.validates /\ m.errors[p] # <<>> THEN Refused(m.errors[p])
        ELSE IF m.encoded[p].value = "error" \/ ~written THEN Failed("GenericError")
        ELSE Sent(CallResult(id, m.encoded[p]))

\* One more attempt, with an error made from the error that the first one returned.
HandleFailedResponseError(e, id, attempt, written) ==
    SendError(e, id, IF attempt.code = "" THEN errorFromValidation(e, attempt.errors) ELSE attempt.code, written).out

\* invalidMessageHook: it may return an error to use instead, change nothing, or panic; the id is kept.
HookCode(e, code) ==
    CASE e.hook = "valid code" -> "SecurityError"
      [] e.hook = "invalid code" -> "Unknown"
      [] OTHER -> code

\* What ocppMessageHandler writes back for an invalid message.
ReplyToInvalid(e, parsed, written) ==
    IF parsed.id = "" THEN <<>> ELSE SendError(e, parsed.id, HookCode(e, parsed.name), written).out

-----------------------------------------------------------------------------
(* The facades: sendResponse and handleIncomingRequest. *)

\* What a request handler may do: return a response, nil, an ocpp.Error or another error, or panic.
Confirm(p) == [kind |-> "response", payload |-> p, code |-> ""]
NilResponse == [kind |-> "nil", payload |-> Good, code |-> ""]
OcppError(code) == [kind |-> "ocpp error", payload |-> Good, code |-> code]
OtherError == [kind |-> "error", payload |-> Good, code |-> ""]
Panic == [kind |-> "panic", payload |-> Good, code |-> ""]

\* The code of the error that answers a request whose handler panicked.
RecoverPanicGoroutine == "InternalError"

\* notImplementedError and notSupportedError: one attempt, with the code.  RecoverPanicGoroutine makes one too.
RefuseRequest(e, id, code, written) == SendError(e, id, code, written)

\* The code of the error that is sent when there is no response to send.
ReplyCode(reply) ==
    CASE reply.kind = "nil" -> "GenericError"
      [] reply.kind = "ocpp error" -> reply.code
      [] reply.kind = "error" -> "InternalError"
      [] reply.kind = "panic" -> RecoverPanicGoroutine

\* The first attempt to answer.
FirstAnswer(e, id, feature, reply, written) ==
    IF reply.kind = "response" THEN SendResponse(e, id, feature, reply.payload, written)
    ELSE SendError(e, id, ReplyCode(reply), written)

\* Mutant of sendResponse: a failed answer is not followed by an error.
SendResponseOnce(e, id, feature, reply, written) == FirstAnswer(e, id, feature, reply, written[1]).out

\* sendResponse; RecoverPanicGoroutine when the handler panics.  A failed response or error is followed by one more
\* attempt, except for the answer to nil or to a panic.  written[n] says whether the n-th write succeeds.
sendResponse(e, id, feature, reply, written) ==
    LET first == FirstAnswer(e, id, feature, reply, written[1]) IN
    IF first.out # <<>> \/ reply.kind \in {"nil", "panic"} THEN first.out
    ELSE HandleFailedResponseError(e, id, first, written[2])

\* What handleIncomingRequest does with a request of the feature: run the handler, refuse the request with a code, or
\* panic on a nil handler or a request of another type, for which RecoverPanicGoroutine answers InternalError.
HandleIncomingRequest(e, feature) ==
    LET profile == GetProfileForFeature(e, feature)
        checks == Checks[e.version][e.side]
        routes == Routes[e.version][e.side]
    IN  IF profile = <<>> THEN "NotImplemented"
        ELSE IF profile[1].name \in DOMAIN checks /\ checks[profile[1].name] \in e.nils THEN "NotSupported"
        ELSE IF feature \notin DOMAIN routes THEN "NotSupported"
        ELSE IF \/ routes[feature][1] \in e.nils
                \/ routes[feature][2] # Features[e.version][feature].request.type
             THEN RecoverPanicGoroutine ELSE "run"

=============================================================================

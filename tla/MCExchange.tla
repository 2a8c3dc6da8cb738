------------------------------ MODULE MCExchange ------------------------------
(***** Every feature of both versions in both directions, with every payload that deviates in one field.  One thing
       more may be unusual: a handler is not set, a profile is missing, validation is switched off, a hook is set, or
       one of the two is a foreign peer. *****)
EXTENDS Exchange

Versions == {"v16", "v201"}
Sides == {"cp", "cs"}
Other(side) == IF side = "cp" THEN "cs" ELSE "cp"

\* A zero value arrives as the zero value, which the payloads of constructors rely on.
ASSUME ZeroArrives ==
    \A feature \in M16!Features \cup M201!Features : \A m \in {feature.request, feature.response} :
        \A path \in Paths(m.fields) : LET f == FieldAt(m.fields, path) IN Conveyed(f, ZeroValue(f)) = ZeroValue(f)

Library(v, side) == Endpoint(v, side, {}, {}, TRUE, "none")
Foreign(v, side) == Endpoint(v, side, {}, {}, FALSE, "foreign")
Unvalidated(e) == [e EXCEPT !.validates = FALSE]
Hooked(e) == {[e EXCEPT !.hook = h] : h \in {"valid code", "invalid code", "panics"}}

ProfileName(e, feature) == GetProfileForFeature(e, feature)[1].name
WithoutProfile(e, feature) == [e EXCEPT !.lacks = {ProfileName(e, feature)}]

\* The endpoint without the handler that the profile of the feature, or the feature, calls for.
WithoutHandler(e, feature) ==
    LET routes == Routes[e.version][e.side]
        checks == Checks[e.version][e.side]
        needed == {routes[f][1] : f \in {feature} \cap DOMAIN routes}
                  \cup {checks[p] : p \in {ProfileName(e, feature)} \cap DOMAIN checks}
    IN  {[e EXCEPT !.nils = {h}] : h \in needed}

Pairs(v, side, feature) ==
    LET a == Library(v, side)
        b == Library(v, Other(side))
    IN  ({a} \X ({b, Unvalidated(b), WithoutProfile(b, feature)} \cup WithoutHandler(b, feature)))
        \cup ({Unvalidated(a), WithoutProfile(a, feature)} \X {b})
        \cup ({Foreign(v, side)} \X ({b, Unvalidated(b), WithoutProfile(b, feature)} \cup Hooked(b)))
        \cup (({a, Unvalidated(a)} \cup Hooked(a)) \X {Foreign(v, Other(side))})

Setups ==
    UNION {UNION {{[caller |-> e[1], responder |-> e[2], feature |-> f] : e \in Pairs(v, side, f)} :
                  f \in DOMAIN Features[v]} : <<v, side>> \in Versions \X Sides}

Init ==
    /\ setup \in Setups
    /\ phase = "start" /\ request = None /\ call = NoMessage /\ handled = None /\ reply = NoReply
    /\ answers = <<>> /\ outcome = "none" /\ result = None /\ lost = FALSE /\ panicked = FALSE

-----------------------------------------------------------------------------
\* Deviating requests between two complete endpoints; elsewhere the request is not what matters.
GivenRequests ==
    IF /\ Responder.lacks = {} /\ Responder.nils = {} /\ ~IsForeign(Responder)
       /\ setup.feature \in Sends[Caller.version][Caller.side]
    THEN Feature.request.payloads ELSE {Good, Constructed}

\* With a hook only the fields of the message itself deviate: what the hook changes is the code.
Shallow(payloads, e) == IF e.hook = "none" THEN payloads ELSE {p \in payloads : Len(p.path) <= 1}

Misshapen(msg) == {[msg EXCEPT !.shape = s] : s \in Shapes} \cup {[msg EXCEPT !.id = i] : i \in {"", "long", "m2"}}

ForeignCalls ==
    {Call("m1", setup.feature, w) : w \in Shallow(Feature.request.wire, Responder)}
    \cup Misshapen(Call("m1", setup.feature, Good))
    \cup {Call("m1", "Unknown", Good), [Call("m1", setup.feature, Good) EXCEPT !.type = "other"]}
    \cup {CallResult("m1", Good), CallError("m1", "GenericError")}

ForeignAnswers ==
    {CallResult("m1", w) : w \in Shallow(Feature.response.wire, Caller)}
    \cup Misshapen(CallResult("m1", Good)) \cup Misshapen(CallError("m1", "GenericError"))
    \cup {CallError("m1", "Unknown")}

\* The handler of a good request does anything, and writes may fail.
Replies ==
    IF handled # Good THEN {Confirm(Good)}
    ELSE {Confirm(p) : p \in Feature.response.payloads}
         \cup {NilResponse, OcppError("GenericError"), OcppError("Unknown"), OtherError, Panic}

Writes == IF handled = Good THEN [1..2 -> BOOLEAN] ELSE {<<TRUE, TRUE>>}

\* The phases come first: each set belongs to one of them.
Next ==
    \/ phase = "start" /\ \E p \in GivenRequests : Send(p)
    \/ phase = "start" /\ \E msg \in ForeignCalls : ForeignCall(msg)
    \/ \E written \in BOOLEAN : Receive(written)
    \/ phase = "handling" /\ \E r \in Replies, written \in Writes : HandlerReturns(r, written)
    \/ phase = "call" /\ \E msg \in ForeignAnswers : ForeignAnswer(msg)
    \/ TimesOut
    \/ ReceiveAnswer

Spec == Init /\ [][Next]_vars

=============================================================================

------------------------------ MODULE Types201 ------------------------------
(***** The data types shared by the messages of OCPP 2.0.1: ocpp2.0.1/types. *****)
EXTENDS Payload

\* The enumerations: a validator accepts the members and nothing else.
Certificate15118EVStatus == In("15118EVCertificate")
CertificateUse == In("certificateUse")
SignatureMethod == In("signatureMethod")
EncodingMethod == In("encodingMethod")
AttributeType == In("attributeType201")
AuthorizationStatusType == In("authorizationStatusType201")
CertificateSigningUseType == In("certificateSigningUseType201")
ChargingLimitSourceType == In("chargingLimitSourceType201")
ChargingProfileKindType == In("chargingProfileKindType201")
ChargingProfilePurposeType == In("chargingProfilePurposeType201")
ChargingRateUnitType == In("chargingRateUnitType201")
CostKindType == In("costKindType201")
GenericDeviceModelStatusType == In("genericDeviceModelStatusType201")
GenericStatusType == In("genericStatusType201")
HashAlgorithmType == In("hashAlgorithmType201")
IDTokenType == In("idTokenType201")
LocationType == In("locationType201")
MeasurandType == In("measurandType201")
MessageFormatType == In("messageFormatType201")
MessagePriorityType == In("messagePriorityType201")
MessageStateType == In("messageStateType201")
MonitorType == In("monitorType201")
PhaseType == In("phaseType201")
ReadingContextType == In("readingContextType201")
RecurrencyKindType == In("recurrencyKindType201")
RequestStartStopStatusType == In("requestStartStopStatusType201")

CustomData == <<
    Str("vendorId", <<Required, Max>>), Extensions>>

AdditionalInfo == <<
    Opt(Ptr(Obj("customData", <<OmitEmpty>>, CustomData))),
    Str("additionalIdToken", <<Required, Max>>), Str("type", <<Required, Max>>)>>

CertificateHashData == <<
    Opt(Ptr(Obj("customData", <<OmitEmpty>>, CustomData))),
    Str("hashAlgorithm", <<Required, HashAlgorithmType>>),
    Str("issuerNameHash", <<Required, Max>>), Str("issuerKeyHash", <<Required, Max>>),
    Str("serialNumber", <<Required, Max>>)>>

CertificateHashDataChain == <<
    Str("certificateType", <<Required, CertificateUse>>),
    Obj("certificateHashData", <<Required>>, CertificateHashData),
    Opt(Arr("childCertificateHashData", <<OmitEmpty>>, CertificateHashData))>>

ChargingSchedulePeriod == <<
    Opt(Ptr(Obj("customData", <<OmitEmpty>>, CustomData))), Int("startPeriod", <<Required>>),
    Num("limit", <<Required>>), Opt(Ptr(Int("numberPhases", <<OmitEmpty>>))),
    Opt(Ptr(Int("phaseToUse", <<OmitEmpty>>)))>>

RelativeTimeInterval == <<
    Opt(Ptr(Obj("customData", <<OmitEmpty>>, CustomData))), Int("start", <<Required>>),
    Opt(Ptr(Int("duration", <<OmitEmpty>>)))>>

Cost == <<
    Opt(Ptr(Obj("customData", <<OmitEmpty>>, CustomData))),
    Str("costKind", <<Required, CostKindType>>), Int("amount", <<Required>>),
    Opt(Ptr(Int("amountMultiplier", <<OmitEmpty>>)))>>

ConsumptionCost == <<
    Opt(Ptr(Obj("customData", <<OmitEmpty>>, CustomData))), Num("startValue", <<Required>>),
    Arr("cost", <<Required, Min, Max>>, Cost)>>

SalesTariffEntry == <<
    Opt(Ptr(Obj("customData", <<OmitEmpty>>, CustomData))),
    Obj("relativeTimeInterval", <<Required>>, RelativeTimeInterval),
    Opt(Ptr(Int("ePriceLevel", <<OmitEmpty, AtLeast("gte")>>))),
    Opt(Arr("consumptionCost", <<OmitEmpty, Min, Max>>, ConsumptionCost))>>

SalesTariff == <<
    Opt(Ptr(Obj("customData", <<OmitEmpty>>, CustomData))), Int("id", <<Required>>),
    Opt(Str("salesTariffDescription", <<OmitEmpty, Max>>)),
    Opt(Ptr(Int("numEPriceLevels", <<OmitEmpty>>))),
    Arr("salesTariffEntry", <<Required, Min, Max>>, SalesTariffEntry)>>

ChargingSchedule == <<
    Opt(Ptr(Obj("customData", <<OmitEmpty>>, CustomData))), Int("id", <<Required>>),
    Opt(Ptr(Time("startSchedule", <<OmitEmpty>>))), Opt(Ptr(Int("duration", <<OmitEmpty>>))),
    Str("chargingRateUnit", <<Required, ChargingRateUnitType>>),
    Arr("chargingSchedulePeriod", <<Required, Min, Max>>, ChargingSchedulePeriod),
    Opt(Ptr(Num("minChargingRate", <<OmitEmpty>>))),
    Opt(Ptr(Obj("salesTariff", <<OmitEmpty>>, SalesTariff)))>>

ChargingProfile == <<
    Opt(Ptr(Obj("customData", <<OmitEmpty>>, CustomData))), Int("id", <<Required>>),
    Int("stackLevel", <<Required>>),
    Str("chargingProfilePurpose", <<Required, ChargingProfilePurposeType>>),
    Str("chargingProfileKind", <<Required, ChargingProfileKindType>>),
    Opt(Str("recurrencyKind", <<OmitEmpty, RecurrencyKindType>>)),
    Opt(Ptr(Time("validFrom", <<OmitEmpty>>))), Opt(Ptr(Time("validTo", <<OmitEmpty>>))),
    Arr("chargingSchedule", <<Required, Min, Max>>, ChargingSchedule),
    Opt(Str("transactionId", <<OmitEmpty, Max>>))>>

EVSE == <<
    Opt(Ptr(Obj("customData", <<OmitEmpty>>, CustomData))), Int("id", <<Required>>),
    Opt(Ptr(Int("connectorId", <<OmitEmpty>>)))>>

Component == <<
    Opt(Ptr(Obj("customData", <<OmitEmpty>>, CustomData))),
    Opt(Ptr(Obj("evse", <<OmitEmpty>>, EVSE))), Str("name", <<Required, Max>>),
    Opt(Str("instance", <<OmitEmpty, Max>>))>>

Variable == <<
    Opt(Ptr(Obj("customData", <<OmitEmpty>>, CustomData))), Str("name", <<Required, Max>>),
    Opt(Str("instance", <<OmitEmpty, Max>>))>>

ComponentVariable == <<
    Opt(Ptr(Obj("customData", <<OmitEmpty>>, CustomData))),
    Obj("component", <<Required>>, Component), Opt(Ptr(Obj("variable", <<OmitEmpty>>, Variable)))>>

IDToken == <<
    Opt(Ptr(Obj("customData", <<OmitEmpty>>, CustomData))),
    Opt(Arr("additionalInfo", <<OmitEmpty, Min>>, AdditionalInfo)),
    Str("idToken", <<Required, Max>>), Str("type", <<Required, IDTokenType>>)>>

MessageContent == <<
    Opt(Ptr(Obj("customData", <<OmitEmpty>>, CustomData))),
    Str("format", <<Required, MessageFormatType>>), Opt(Str("language", <<OmitEmpty, Max>>)),
    Str("content", <<Required, Max>>)>>

IDTokenInfo == <<
    Opt(Ptr(Obj("customData", <<OmitEmpty>>, CustomData))),
    Str("status", <<Required, AuthorizationStatusType>>),
    Opt(Ptr(Time("cacheExpiryDateTime", <<OmitEmpty>>))),
    Opt(Ptr(Int("chargingPriority", <<OmitEmpty>>))), Opt(Str("language1", <<OmitEmpty, Max>>)),
    Opt(Unchecked("evseId", <<OmitEmpty, Min>>, <<Int("", <<>>)>>)),
    Opt(Ptr(Obj("groupIdToken", <<OmitEmpty>>, IDToken))),
    Opt(Str("language2", <<OmitEmpty, Max>>)),
    Opt(Ptr(Obj("personalMessage", <<OmitEmpty>>, MessageContent)))>>

MessageInfo == <<
    Opt(Ptr(Obj("customData", <<OmitEmpty>>, CustomData))),
    Opt(Ptr(Obj("display", <<OmitEmpty>>, Component))), Int("id", <<Required>>),
    Str("priority", <<Required, MessagePriorityType>>),
    Opt(Str("state", <<OmitEmpty, MessageStateType>>)),
    Opt(Ptr(Time("startDateTime", <<OmitEmpty>>))), Opt(Ptr(Time("endDateTime", <<OmitEmpty>>))),
    Opt(Str("transactionId", <<OmitEmpty, Max>>)), Obj("message", <<Required>>, MessageContent)>>

SignedMeterValue == <<
    Opt(Ptr(Obj("customData", <<OmitEmpty>>, CustomData))),
    Str("signedMeterData", <<Required, Max>>), Str("signingMethod", <<Required, Max>>),
    Str("encodingMethod", <<Required, Max>>), Str("publicKey", <<Required, Max>>)>>

UnitOfMeasure == <<
    Opt(Ptr(Obj("customData", <<OmitEmpty>>, CustomData))), Opt(Str("unit", <<OmitEmpty, Max>>)),
    Opt(Ptr(Int("multiplier", <<OmitEmpty>>)))>>

SampledValue == <<
    Opt(Ptr(Obj("customData", <<OmitEmpty>>, CustomData))), Num("value", <<Required>>),
    Opt(Str("context", <<OmitEmpty, ReadingContextType>>)),
    Opt(Str("measurand", <<OmitEmpty, MeasurandType>>)),
    Opt(Str("phase", <<OmitEmpty, PhaseType>>)),
    Opt(Str("location", <<OmitEmpty, LocationType>>)),
    Opt(Ptr(Obj("signedMeterValue", <<OmitEmpty>>, SignedMeterValue))),
    Opt(Ptr(Obj("unitOfMeasure", <<OmitEmpty>>, UnitOfMeasure)))>>

MeterValue == <<
    Opt(Ptr(Obj("customData", <<OmitEmpty>>, CustomData))),
    Arr("sampledValue", <<Required, Min>>, SampledValue), Ptr(Time("timestamp", <<Required>>))>>

OCSPRequestData == <<
    Opt(Ptr(Obj("customData", <<OmitEmpty>>, CustomData))),
    Str("hashAlgorithm", <<Required, HashAlgorithmType>>),
    Str("issuerNameHash", <<Required, Max>>), Str("issuerKeyHash", <<Required, Max>>),
    Str("serialNumber", <<Required, Max>>), Str("responderURL", <<Required, Max>>)>>

StatusInfo == <<
    Opt(Ptr(Obj("customData", <<OmitEmpty>>, CustomData))), Str("reasonCode", <<Required, Max>>),
    Opt(Str("additionalInfo", <<OmitEmpty, Max>>))>>

RegisteredTypes ==
    {"signatureMethod", "encodingMethod", "certificateUse", "15118EVCertificate"}
RegisteredGenerated ==
    {"attributeType201", "authorizationStatusType201", "certificateSigningUseType201",
     "chargingLimitSourceType201", "chargingProfileKindType201", "chargingProfilePurposeType201",
     "chargingRateUnitType201", "costKindType201", "genericDeviceModelStatusType201",
     "genericStatusType201", "hashAlgorithmType201", "idTokenType201", "locationType201",
     "measurandType201", "messageFormatType201", "messagePriorityType201", "messageStateType201",
     "monitorType201", "phaseType201", "readingContextType201", "recurrencyKindType201",
     "requestStartStopStatusType201"}

\* The tags the package registers.
TypeTags == RegisteredTypes \cup RegisteredGenerated

==============================================================================

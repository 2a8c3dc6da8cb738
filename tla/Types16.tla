------------------------------ MODULE Types16 ------------------------------
(***** The data types shared by the messages of OCPP 1.6: ocpp1.6/types. *****)
EXTENDS Payload

\* The enumerations: a validator accepts the members and nothing else.
CertificateSigningUse == In("certificateSigningUse16")
GenericStatus == In("genericStatus16")
CertificateUse == In("certificateUse16")
HashAlgorithmType == In("hashAlgorithm16")
AuthorizationStatus == In("authorizationStatus16")
ChargingProfilePurposeType == In("chargingProfilePurpose16")
ChargingProfileKindType == In("chargingProfileKind16")
RecurrencyKindType == In("recurrencyKind16")
ChargingRateUnitType == In("chargingRateUnit16")
RemoteStartStopStatus == In("remoteStartStopStatus16")
ReadingContext == In("readingContext16")
ValueFormat == In("valueFormat")
Measurand == In("measurand16")
Phase == In("phase16")
Location == In("location16")
UnitOfMeasure == In("unitOfMeasure")

CertificateHashData == <<
    Str("hashAlgorithm", <<Required, HashAlgorithmType>>),
    Str("issuerNameHash", <<Required, Max>>), Str("issuerKeyHash", <<Required, Max>>),
    Str("serialNumber", <<Required, Max>>)>>

ChargingSchedulePeriod == <<
    Int("startPeriod", <<AtLeast("gte")>>), Num("limit", <<AtLeast("gte")>>),
    Opt(Ptr(Int("numberPhases", <<OmitEmpty, AtLeast("gte")>>)))>>

ChargingSchedule == <<
    Opt(Ptr(Int("duration", <<OmitEmpty, AtLeast("gte")>>))),
    Opt(Ptr(Time("startSchedule", <<>>))),
    Str("chargingRateUnit", <<Required, ChargingRateUnitType>>),
    Unchecked("chargingSchedulePeriod", <<Required, Min>>, ChargingSchedulePeriod),
    Opt(Ptr(Num("minChargingRate", <<OmitEmpty, AtLeast("gte")>>)))>>

ChargingProfile == <<
    Int("chargingProfileId", <<>>), Opt(Int("transactionId", <<>>)),
    Int("stackLevel", <<AtLeast("gte")>>),
    Str("chargingProfilePurpose", <<Required, ChargingProfilePurposeType>>),
    Str("chargingProfileKind", <<Required, ChargingProfileKindType>>),
    Opt(Str("recurrencyKind", <<OmitEmpty, RecurrencyKindType>>)),
    Opt(Ptr(Time("validFrom", <<>>))), Opt(Ptr(Time("validTo", <<>>))),
    Ptr(Obj("chargingSchedule", <<Required>>, ChargingSchedule))>>

IdTagInfo == <<
    Opt(Ptr(Time("expiryDate", <<OmitEmpty>>))), Opt(Str("parentIdTag", <<OmitEmpty, Max>>)),
    Str("status", <<Required, AuthorizationStatus>>)>>

SampledValue == <<
    Str("value", <<Required>>), Opt(Str("context", <<OmitEmpty, ReadingContext>>)),
    Opt(Str("format", <<OmitEmpty, ValueFormat>>)),
    Opt(Str("measurand", <<OmitEmpty, Measurand>>)), Opt(Str("phase", <<OmitEmpty, Phase>>)),
    Opt(Str("location", <<OmitEmpty, Location>>)), Opt(Str("unit", <<OmitEmpty, UnitOfMeasure>>))>>

\* Mutant of MeterValue: an empty array is left out of the message.
MeterValueOmitted == <<
    Ptr(Time("timestamp", <<Required>>)), Opt(Arr("sampledValue", <<Required>>, SampledValue))>>

MeterValue == <<
    Ptr(Time("timestamp", <<Required>>)), Arr("sampledValue", <<Required, Min>>, SampledValue)>>

StatusInfo == <<
    Str("reasonCode", <<Required, Max>>), Opt(Str("additionalInfo", <<OmitEmpty, Max>>))>>

RegisteredSecurity ==
    {"hashAlgorithm16"}
RegisteredTypes ==
    {"authorizationStatus16", "chargingProfilePurpose16", "chargingProfileKind16",
     "recurrencyKind16", "chargingRateUnit16", "remoteStartStopStatus16", "readingContext16",
     "valueFormat", "measurand16", "phase16", "location16", "unitOfMeasure",
     "certificateSigningUse16", "certificateUse16", "genericStatus16"}

\* The tags the package registers.
TypeTags == RegisteredSecurity \cup RegisteredTypes

==============================================================================

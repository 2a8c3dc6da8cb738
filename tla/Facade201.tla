------------------------------ MODULE Facade201 ------------------------------
(***** What the two facades of OCPP 2.0.1 dispatch on (ocpp2.0.1/charging_station.go and
       ocpp2.0.1/csms.go): the profiles and their features, the features a side may send, the response type
       each typed method asserts, the handler that must be set for a profile, and the handler and request type
       a feature is routed to. *****)
EXTENDS Sequences, TLC

\* ocpp.NewProfile: a name and the features registered under it.
NewProfile(name, features) == [name |-> name, features |-> features]

AuthorizationProfile == NewProfile("Authorization", {"Authorize", "ClearCache"})
AvailabilityProfile ==
    NewProfile("Availability",
        {"ChangeAvailability", "Heartbeat", "StatusNotification"})
DataProfile == NewProfile("Data", {"DataTransfer"})
DiagnosticsProfile ==
    NewProfile("Diagnostics",
        {"ClearVariableMonitoring", "CustomerInformation", "GetLog", "GetMonitoringReport",
         "LogStatusNotification", "NotifyCustomerInformation", "NotifyEvent",
         "NotifyMonitoringReport", "SetMonitoringBase", "SetMonitoringLevel",
         "SetVariableMonitoring"})
DisplayProfile ==
    NewProfile("Display",
        {"ClearDisplayMessage", "GetDisplayMessages", "NotifyDisplayMessages", "SetDisplayMessage"})
FirmwareProfile ==
    NewProfile("Firmware",
        {"FirmwareStatusNotification", "PublishFirmware", "PublishFirmwareStatusNotification",
         "UnpublishFirmware", "UpdateFirmware"})
Iso15118Profile ==
    NewProfile("ISO15118",
        {"DeleteCertificate", "Get15118EVCertificate", "GetCertificateStatus",
         "GetInstalledCertificateIds", "InstallCertificate"})
LocalAuthProfile == NewProfile("LocalAuthList", {"GetLocalListVersion", "SendLocalList"})
MeterProfile == NewProfile("Meter", {"MeterValues"})
ProvisioningProfile ==
    NewProfile("Provisioning",
        {"BootNotification", "GetBaseReport", "GetReport", "GetVariables", "NotifyReport", "Reset",
         "SetNetworkProfile", "SetVariables"})
RemotecontrolProfile ==
    NewProfile("RemoteControl",
        {"RequestStartTransaction", "RequestStopTransaction", "TriggerMessage", "UnlockConnector"})
ReservationProfile ==
    NewProfile("Reservation",
        {"CancelReservation", "ReservationStatusUpdate", "ReserveNow"})
SecurityProfile ==
    NewProfile("Security",
        {"CertificateSigned", "SecurityEventNotification", "SignCertificate"})
SmartChargingProfile ==
    NewProfile("SmartCharging",
        {"ClearChargingProfile", "ClearedChargingLimit", "GetChargingProfiles",
         "GetCompositeSchedule", "NotifyChargingLimit", "NotifyEVChargingNeeds",
         "NotifyEVChargingSchedule", "ReportChargingProfiles", "SetChargingProfile"})
TariffcostProfile == NewProfile("TariffCost", {"CostUpdated"})
TransactionsProfile == NewProfile("Transactions", {"GetTransactionStatus", "TransactionEvent"})

DefaultProfiles ==
    <<AuthorizationProfile, AvailabilityProfile, DataProfile, DiagnosticsProfile, DisplayProfile,
      FirmwareProfile, Iso15118Profile, LocalAuthProfile, MeterProfile, ProvisioningProfile,
      RemotecontrolProfile, ReservationProfile, SecurityProfile, SmartChargingProfile,
      TariffcostProfile, TransactionsProfile>>

------------------------------------------------------------------------------
\* The ChargingStation.

ChargingStationSends ==
    {"Authorize", "BootNotification", "ClearedChargingLimit", "DataTransfer",
     "FirmwareStatusNotification", "Get15118EVCertificate", "GetCertificateStatus", "Heartbeat",
     "LogStatusNotification", "MeterValues", "NotifyChargingLimit", "NotifyCustomerInformation",
     "NotifyDisplayMessages", "NotifyEVChargingNeeds", "NotifyEVChargingSchedule", "NotifyEvent",
     "NotifyMonitoringReport", "NotifyReport", "PublishFirmwareStatusNotification",
     "ReportChargingProfiles", "ReservationStatusUpdate", "SecurityEventNotification",
     "SignCertificate", "StatusNotification", "TransactionEvent"}

ChargingStationMethods1 ==
    [BootNotification |-> "BootNotificationResponse", Authorize |-> "AuthorizeResponse",
     ClearedChargingLimit |-> "ClearedChargingLimitResponse",
     DataTransfer |-> "DataTransferResponse",
     FirmwareStatusNotification |-> "FirmwareStatusNotificationResponse",
     Get15118EVCertificate |-> "Get15118EVCertificateResponse",
     GetCertificateStatus |-> "GetCertificateStatusResponse", Heartbeat |-> "HeartbeatResponse",
     LogStatusNotification |-> "LogStatusNotificationResponse",
     MeterValues |-> "MeterValuesResponse", NotifyChargingLimit |-> "NotifyChargingLimitResponse"]

ChargingStationMethods2 ==
    [NotifyCustomerInformation |-> "NotifyCustomerInformationResponse",
     NotifyDisplayMessages |-> "NotifyDisplayMessagesResponse",
     NotifyEVChargingNeeds |-> "NotifyEVChargingNeedsResponse",
     NotifyEVChargingSchedule |-> "NotifyEVChargingScheduleResponse",
     NotifyEvent |-> "NotifyEventResponse",
     NotifyMonitoringReport |-> "NotifyMonitoringReportResponse",
     NotifyReport |-> "NotifyReportResponse",
     PublishFirmwareStatusNotification |-> "PublishFirmwareStatusNotificationResponse",
     ReportChargingProfiles |-> "ReportChargingProfilesResponse",
     ReservationStatusUpdate |-> "ReservationStatusUpdateResponse",
     SecurityEventNotification |-> "SecurityEventNotificationResponse"]

ChargingStationMethods3 ==
    [SignCertificate |-> "SignCertificateResponse",
     StatusNotification |-> "StatusNotificationResponse",
     TransactionEvent |-> "TransactionEventResponse"]

ChargingStationMethods == ChargingStationMethods1 @@ ChargingStationMethods2 @@ ChargingStationMethods3

ChargingStationChecks ==
    ("Authorization" :> "authorizationHandler" @@ "Availability" :> "availabilityHandler" @@
     "Data" :> "dataHandler" @@ "Diagnostics" :> "diagnosticsHandler" @@ "Display" :> "displayHandler" @@
     "Firmware" :> "firmwareHandler" @@ "ISO15118" :> "iso15118Handler" @@
     "LocalAuthList" :> "localAuthListHandler" @@ "Meter" :> "meterHandler" @@
     "Provisioning" :> "provisioningHandler" @@ "RemoteControl" :> "remoteControlHandler" @@
     "Reservation" :> "reservationHandler" @@ "Security" :> "securityHandler" @@
     "SmartCharging" :> "smartChargingHandler" @@ "TariffCost" :> "tariffCostHandler" @@
     "Transactions" :> "transactionsHandler")

ChargingStationRoutes ==
    [CancelReservation |-> <<"reservationHandler", "CancelReservationRequest">>,
     CertificateSigned |-> <<"securityHandler", "CertificateSignedRequest">>,
     ChangeAvailability |-> <<"availabilityHandler", "ChangeAvailabilityRequest">>,
     ClearCache |-> <<"authorizationHandler", "ClearCacheRequest">>,
     ClearChargingProfile |-> <<"smartChargingHandler", "ClearChargingProfileRequest">>,
     ClearDisplayMessage |-> <<"displayHandler", "ClearDisplayRequest">>,
     ClearVariableMonitoring |-> <<"diagnosticsHandler", "ClearVariableMonitoringRequest">>,
     CostUpdated |-> <<"tariffCostHandler", "CostUpdatedRequest">>,
     CustomerInformation |-> <<"diagnosticsHandler", "CustomerInformationRequest">>,
     DataTransfer |-> <<"dataHandler", "DataTransferRequest">>,
     DeleteCertificate |-> <<"iso15118Handler", "DeleteCertificateRequest">>,
     GetBaseReport |-> <<"provisioningHandler", "GetBaseReportRequest">>,
     GetChargingProfiles |-> <<"smartChargingHandler", "GetChargingProfilesRequest">>,
     GetCompositeSchedule |-> <<"smartChargingHandler", "GetCompositeScheduleRequest">>,
     GetDisplayMessages |-> <<"displayHandler", "GetDisplayMessagesRequest">>,
     GetInstalledCertificateIds |-> <<"iso15118Handler", "GetInstalledCertificateIdsRequest">>,
     GetLocalListVersion |-> <<"localAuthListHandler", "GetLocalListVersionRequest">>,
     GetLog |-> <<"diagnosticsHandler", "GetLogRequest">>,
     GetMonitoringReport |-> <<"diagnosticsHandler", "GetMonitoringReportRequest">>,
     GetReport |-> <<"provisioningHandler", "GetReportRequest">>,
     GetTransactionStatus |-> <<"transactionsHandler", "GetTransactionStatusRequest">>,
     GetVariables |-> <<"provisioningHandler", "GetVariablesRequest">>,
     InstallCertificate |-> <<"iso15118Handler", "InstallCertificateRequest">>,
     PublishFirmware |-> <<"firmwareHandler", "PublishFirmwareRequest">>,
     RequestStartTransaction |-> <<"remoteControlHandler", "RequestStartTransactionRequest">>,
     RequestStopTransaction |-> <<"remoteControlHandler", "RequestStopTransactionRequest">>,
     ReserveNow |-> <<"reservationHandler", "ReserveNowRequest">>,
     Reset |-> <<"provisioningHandler", "ResetRequest">>,
     SendLocalList |-> <<"localAuthListHandler", "SendLocalListRequest">>,
     SetChargingProfile |-> <<"smartChargingHandler", "SetChargingProfileRequest">>,
     SetDisplayMessage |-> <<"displayHandler", "SetDisplayMessageRequest">>,
     SetMonitoringBase |-> <<"diagnosticsHandler", "SetMonitoringBaseRequest">>,
     SetMonitoringLevel |-> <<"diagnosticsHandler", "SetMonitoringLevelRequest">>,
     SetNetworkProfile |-> <<"provisioningHandler", "SetNetworkProfileRequest">>,
     SetVariableMonitoring |-> <<"diagnosticsHandler", "SetVariableMonitoringRequest">>,
     SetVariables |-> <<"provisioningHandler", "SetVariablesRequest">>,
     TriggerMessage |-> <<"remoteControlHandler", "TriggerMessageRequest">>,
     UnlockConnector |-> <<"remoteControlHandler", "UnlockConnectorRequest">>,
     UnpublishFirmware |-> <<"firmwareHandler", "UnpublishFirmwareRequest">>,
     UpdateFirmware |-> <<"firmwareHandler", "UpdateFirmwareRequest">>]

------------------------------------------------------------------------------
\* The CSMS.

CSMSSends ==
    {"CancelReservation", "CertificateSigned", "ChangeAvailability", "ClearCache",
     "ClearChargingProfile", "ClearDisplayMessage", "ClearVariableMonitoring", "CostUpdated",
     "CustomerInformation", "DataTransfer", "DeleteCertificate", "GetBaseReport",
     "GetChargingProfiles", "GetCompositeSchedule", "GetDisplayMessages",
     "GetInstalledCertificateIds", "GetLocalListVersion", "GetLog", "GetMonitoringReport",
     "GetReport", "GetTransactionStatus", "GetVariables", "InstallCertificate", "PublishFirmware",
     "RequestStartTransaction", "RequestStopTransaction", "ReserveNow", "Reset", "SendLocalList",
     "SetChargingProfile", "SetDisplayMessage", "SetMonitoringBase", "SetMonitoringLevel",
     "SetNetworkProfile", "SetVariableMonitoring", "SetVariables", "TriggerMessage",
     "UnlockConnector", "UnpublishFirmware", "UpdateFirmware"}

CSMSMethods1 ==
    [CancelReservation |-> "CancelReservationResponse",
     CertificateSigned |-> "CertificateSignedResponse",
     ChangeAvailability |-> "ChangeAvailabilityResponse", ClearCache |-> "ClearCacheResponse",
     ClearChargingProfile |-> "ClearChargingProfileResponse",
     ClearDisplayMessage |-> "ClearDisplayResponse",
     ClearVariableMonitoring |-> "ClearVariableMonitoringResponse",
     CostUpdated |-> "CostUpdatedResponse", CustomerInformation |-> "CustomerInformationResponse"]

CSMSMethods2 ==
    [DataTransfer |-> "DataTransferResponse", DeleteCertificate |-> "DeleteCertificateResponse",
     GetBaseReport |-> "GetBaseReportResponse",
     GetChargingProfiles |-> "GetChargingProfilesResponse",
     GetCompositeSchedule |-> "GetCompositeScheduleResponse",
     GetDisplayMessages |-> "GetDisplayMessagesResponse",
     GetInstalledCertificateIds |-> "GetInstalledCertificateIdsResponse",
     GetLocalListVersion |-> "GetLocalListVersionResponse", GetLog |-> "GetLogResponse"]

CSMSMethods3 ==
    [GetMonitoringReport |-> "GetMonitoringReportResponse", GetReport |-> "GetReportResponse",
     GetTransactionStatus |-> "GetTransactionStatusResponse",
     GetVariables |-> "GetVariablesResponse", InstallCertificate |-> "InstallCertificateResponse",
     PublishFirmware |-> "PublishFirmwareResponse",
     RequestStartTransaction |-> "RequestStartTransactionResponse",
     RequestStopTransaction |-> "RequestStopTransactionResponse",
     ReserveNow |-> "ReserveNowResponse"]

CSMSMethods4 ==
    [Reset |-> "ResetResponse", SendLocalList |-> "SendLocalListResponse",
     SetChargingProfile |-> "SetChargingProfileResponse",
     SetDisplayMessage |-> "SetDisplayMessageResponse",
     SetMonitoringBase |-> "SetMonitoringBaseResponse",
     SetMonitoringLevel |-> "SetMonitoringLevelResponse",
     SetNetworkProfile |-> "SetNetworkProfileResponse",
     SetVariableMonitoring |-> "SetVariableMonitoringResponse",
     SetVariables |-> "SetVariablesResponse"]

CSMSMethods5 ==
    [TriggerMessage |-> "TriggerMessageResponse", UnlockConnector |-> "UnlockConnectorResponse",
     UnpublishFirmware |-> "UnpublishFirmwareResponse", UpdateFirmware |-> "UpdateFirmwareResponse"]

CSMSMethods == CSMSMethods1 @@ CSMSMethods2 @@ CSMSMethods3 @@ CSMSMethods4 @@ CSMSMethods5

CSMSChecks ==
    ("Authorization" :> "authorizationHandler" @@ "Availability" :> "availabilityHandler" @@
     "Data" :> "dataHandler" @@ "Diagnostics" :> "diagnosticsHandler" @@ "Display" :> "displayHandler" @@
     "Firmware" :> "firmwareHandler" @@ "ISO15118" :> "iso15118Handler" @@
     "LocalAuthList" :> "localAuthListHandler" @@ "Meter" :> "meterHandler" @@
     "Provisioning" :> "provisioningHandler" @@ "RemoteControl" :> "remoteControlHandler" @@
     "Reservation" :> "reservationHandler" @@ "Security" :> "securityHandler" @@
     "SmartCharging" :> "smartChargingHandler" @@ "TariffCost" :> "tariffCostHandler" @@
     "Transactions" :> "transactionsHandler")

CSMSRoutes ==
    [BootNotification |-> <<"provisioningHandler", "BootNotificationRequest">>,
     Authorize |-> <<"authorizationHandler", "AuthorizeRequest">>,
     ClearedChargingLimit |-> <<"smartChargingHandler", "ClearedChargingLimitRequest">>,
     DataTransfer |-> <<"dataHandler", "DataTransferRequest">>,
     FirmwareStatusNotification |-> <<"firmwareHandler", "FirmwareStatusNotificationRequest">>,
     Get15118EVCertificate |-> <<"iso15118Handler", "Get15118EVCertificateRequest">>,
     GetCertificateStatus |-> <<"iso15118Handler", "GetCertificateStatusRequest">>,
     Heartbeat |-> <<"availabilityHandler", "HeartbeatRequest">>,
     LogStatusNotification |-> <<"diagnosticsHandler", "LogStatusNotificationRequest">>,
     MeterValues |-> <<"meterHandler", "MeterValuesRequest">>,
     NotifyChargingLimit |-> <<"smartChargingHandler", "NotifyChargingLimitRequest">>,
     NotifyCustomerInformation |-> <<"diagnosticsHandler", "NotifyCustomerInformationRequest">>,
     NotifyDisplayMessages |-> <<"displayHandler", "NotifyDisplayMessagesRequest">>,
     NotifyEVChargingNeeds |-> <<"smartChargingHandler", "NotifyEVChargingNeedsRequest">>,
     NotifyEVChargingSchedule |-> <<"smartChargingHandler", "NotifyEVChargingScheduleRequest">>,
     NotifyEvent |-> <<"diagnosticsHandler", "NotifyEventRequest">>,
     NotifyMonitoringReport |-> <<"diagnosticsHandler", "NotifyMonitoringReportRequest">>,
     NotifyReport |-> <<"provisioningHandler", "NotifyReportRequest">>,
     PublishFirmwareStatusNotification |-> <<"firmwareHandler", "PublishFirmwareStatusNotificationRequest">>,
     ReportChargingProfiles |-> <<"smartChargingHandler", "ReportChargingProfilesRequest">>,
     ReservationStatusUpdate |-> <<"reservationHandler", "ReservationStatusUpdateRequest">>,
     SecurityEventNotification |-> <<"securityHandler", "SecurityEventNotificationRequest">>,
     SignCertificate |-> <<"securityHandler", "SignCertificateRequest">>,
     StatusNotification |-> <<"availabilityHandler", "StatusNotificationRequest">>,
     TransactionEvent |-> <<"transactionsHandler", "TransactionEventRequest">>]

Sends == [cp |-> ChargingStationSends, cs |-> CSMSSends]
Methods == [cp |-> ChargingStationMethods, cs |-> CSMSMethods]
Checks == [cp |-> ChargingStationChecks, cs |-> CSMSChecks]
Routes == [cp |-> ChargingStationRoutes, cs |-> CSMSRoutes]

==============================================================================

------------------------------ MODULE Facade16 ------------------------------
(***** What the two facades of OCPP 1.6 dispatch on (ocpp1.6/charge_point.go and
       ocpp1.6/central_system.go): the profiles and their features, the features a side may send, the response type
       each typed method asserts, the handler that must be set for a profile, and the handler and request type
       a feature is routed to. *****)
EXTENDS Sequences, TLC

\* ocpp.NewProfile: a name and the features registered under it.
NewProfile(name, features) == [name |-> name, features |-> features]

CoreProfile ==
    NewProfile("Core",
        {"BootNotification", "Authorize", "ChangeAvailability", "ChangeConfiguration",
         "ClearCache", "DataTransfer", "GetConfiguration", "Heartbeat", "MeterValues",
         "RemoteStartTransaction", "RemoteStopTransaction", "StartTransaction", "StopTransaction",
         "StatusNotification", "Reset", "UnlockConnector"})
LocalAuthProfile ==
    NewProfile("LocalAuthListManagement",
        {"GetLocalListVersion", "SendLocalList"})
FirmwareProfile ==
    NewProfile("FirmwareManagement",
        {"GetDiagnostics", "DiagnosticsStatusNotification", "FirmwareStatusNotification",
         "UpdateFirmware"})
ReservationProfile == NewProfile("Reservation", {"ReserveNow", "CancelReservation"})
RemotetriggerProfile == NewProfile("RemoteTrigger", {"TriggerMessage"})
SmartChargingProfile ==
    NewProfile("SmartCharging",
        {"SetChargingProfile", "ClearChargingProfile", "GetCompositeSchedule"})
LoggingProfile == NewProfile("Log", {"GetLog", "LogStatusNotification"})
SecurityProfile ==
    NewProfile("Security",
        {"CertificateSigned", "SecurityEventNotification", "SignCertificate"})
ExtendedtriggermessageProfile == NewProfile("ExtendedTriggerMessage", {"ExtendedTriggerMessage"})
CertificatesProfile ==
    NewProfile("Certificates",
        {"InstallCertificate", "DeleteCertificate", "GetInstalledCertificateIds"})
SecurefirmwareProfile ==
    NewProfile("SecureFirmwareUpdate",
        {"SignedFirmwareStatusNotification", "SignedUpdateFirmware"})

DefaultProfiles ==
    <<CoreProfile, LocalAuthProfile, FirmwareProfile, ReservationProfile, RemotetriggerProfile,
      SmartChargingProfile, LoggingProfile, SecurityProfile, ExtendedtriggermessageProfile,
      CertificatesProfile, SecurefirmwareProfile>>

------------------------------------------------------------------------------
\* The ChargePoint.

ChargePointSends ==
    {"Authorize", "BootNotification", "DataTransfer", "Heartbeat", "MeterValues",
     "StartTransaction", "StopTransaction", "StatusNotification", "DiagnosticsStatusNotification",
     "FirmwareStatusNotification", "LogStatusNotification", "SignedFirmwareStatusNotification",
     "SecurityEventNotification", "SignCertificate"}

ChargePointMethods1 ==
    [BootNotification |-> "BootNotificationConfirmation", Authorize |-> "AuthorizeConfirmation",
     DataTransfer |-> "DataTransferConfirmation", Heartbeat |-> "HeartbeatConfirmation",
     MeterValues |-> "MeterValuesConfirmation",
     StartTransaction |-> "StartTransactionConfirmation",
     StopTransaction |-> "StopTransactionConfirmation",
     StatusNotification |-> "StatusNotificationConfirmation",
     DiagnosticsStatusNotification |-> "DiagnosticsStatusNotificationConfirmation",
     FirmwareStatusNotification |-> "FirmwareStatusNotificationConfirmation",
     SecurityEventNotification |-> "SecurityEventNotificationResponse"]

ChargePointMethods2 ==
    [SignCertificate |-> "SignCertificateResponse",
     SignedFirmwareStatusNotification |-> "SignedFirmwareStatusNotificationResponse",
     LogStatusNotification |-> "LogStatusNotificationResponse"]

ChargePointMethods == ChargePointMethods1 @@ ChargePointMethods2

ChargePointChecks ==
    ("Core" :> "coreHandler" @@ "LocalAuthListManagement" :> "localAuthListHandler" @@
     "FirmwareManagement" :> "firmwareHandler" @@ "Reservation" :> "reservationHandler" @@
     "RemoteTrigger" :> "remoteTriggerHandler" @@ "SmartCharging" :> "smartChargingHandler" @@
     "Security" :> "securityHandler" @@ "Log" :> "logHandler" @@
     "ExtendedTriggerMessage" :> "extendedTriggerMessageHandler" @@
     "SecureFirmwareUpdate" :> "secureFirmwareHandler" @@ "Certificates" :> "certificateHandler")

ChargePointRoutes ==
    [ChangeAvailability |-> <<"coreHandler", "ChangeAvailabilityRequest">>,
     ChangeConfiguration |-> <<"coreHandler", "ChangeConfigurationRequest">>,
     ClearCache |-> <<"coreHandler", "ClearCacheRequest">>,
     DataTransfer |-> <<"coreHandler", "DataTransferRequest">>,
     GetConfiguration |-> <<"coreHandler", "GetConfigurationRequest">>,
     RemoteStartTransaction |-> <<"coreHandler", "RemoteStartTransactionRequest">>,
     RemoteStopTransaction |-> <<"coreHandler", "RemoteStopTransactionRequest">>,
     Reset |-> <<"coreHandler", "ResetRequest">>,
     UnlockConnector |-> <<"coreHandler", "UnlockConnectorRequest">>,
     GetLocalListVersion |-> <<"localAuthListHandler", "GetLocalListVersionRequest">>,
     SendLocalList |-> <<"localAuthListHandler", "SendLocalListRequest">>,
     GetDiagnostics |-> <<"firmwareHandler", "GetDiagnosticsRequest">>,
     UpdateFirmware |-> <<"firmwareHandler", "UpdateFirmwareRequest">>,
     ReserveNow |-> <<"reservationHandler", "ReserveNowRequest">>,
     CancelReservation |-> <<"reservationHandler", "CancelReservationRequest">>,
     TriggerMessage |-> <<"remoteTriggerHandler", "TriggerMessageRequest">>,
     SetChargingProfile |-> <<"smartChargingHandler", "SetChargingProfileRequest">>,
     ClearChargingProfile |-> <<"smartChargingHandler", "ClearChargingProfileRequest">>,
     GetCompositeSchedule |-> <<"smartChargingHandler", "GetCompositeScheduleRequest">>,
     CertificateSigned |-> <<"securityHandler", "CertificateSignedRequest">>,
     GetLog |-> <<"logHandler", "GetLogRequest">>,
     SignedUpdateFirmware |-> <<"secureFirmwareHandler", "SignedUpdateFirmwareRequest">>,
     GetInstalledCertificateIds |-> <<"certificateHandler", "GetInstalledCertificateIdsRequest">>,
     DeleteCertificate |-> <<"certificateHandler", "DeleteCertificateRequest">>,
     InstallCertificate |-> <<"certificateHandler", "InstallCertificateRequest">>,
     ExtendedTriggerMessage |-> <<"extendedTriggerMessageHandler", "ExtendedTriggerMessageRequest">>]

------------------------------------------------------------------------------
\* The CentralSystem.

CentralSystemSends ==
    {"ChangeAvailability", "ChangeConfiguration", "ClearCache", "DataTransfer", "GetConfiguration",
     "RemoteStartTransaction", "RemoteStopTransaction", "Reset", "UnlockConnector",
     "GetLocalListVersion", "SendLocalList", "GetDiagnostics", "UpdateFirmware", "ReserveNow",
     "CancelReservation", "TriggerMessage", "SetChargingProfile", "ClearChargingProfile",
     "GetCompositeSchedule", "CertificateSigned", "SignedUpdateFirmware", "GetLog",
     "ExtendedTriggerMessage", "GetInstalledCertificateIds", "DeleteCertificate",
     "InstallCertificate"}

CentralSystemMethods1 ==
    [ChangeAvailability |-> "ChangeAvailabilityConfirmation",
     ChangeConfiguration |-> "ChangeConfigurationConfirmation",
     ClearCache |-> "ClearCacheConfirmation", DataTransfer |-> "DataTransferConfirmation",
     GetConfiguration |-> "GetConfigurationConfirmation",
     RemoteStartTransaction |-> "RemoteStartTransactionConfirmation",
     RemoteStopTransaction |-> "RemoteStopTransactionConfirmation", Reset |-> "ResetConfirmation",
     UnlockConnector |-> "UnlockConnectorConfirmation"]

CentralSystemMethods2 ==
    [GetLocalListVersion |-> "GetLocalListVersionConfirmation",
     SendLocalList |-> "SendLocalListConfirmation",
     GetDiagnostics |-> "GetDiagnosticsConfirmation",
     UpdateFirmware |-> "UpdateFirmwareConfirmation", ReserveNow |-> "ReserveNowConfirmation",
     CancelReservation |-> "CancelReservationConfirmation",
     TriggerMessage |-> "TriggerMessageConfirmation",
     SetChargingProfile |-> "SetChargingProfileConfirmation",
     ClearChargingProfile |-> "ClearChargingProfileConfirmation"]

CentralSystemMethods3 ==
    [GetCompositeSchedule |-> "GetCompositeScheduleConfirmation",
     ExtendedTriggerMessage |-> "ExtendedTriggerMessageResponse",
     CertificateSigned |-> "CertificateSignedResponse",
     SignedUpdateFirmware |-> "SignedUpdateFirmwareResponse",
     GetInstalledCertificateIds |-> "GetInstalledCertificateIdsResponse",
     InstallCertificate |-> "InstallCertificateResponse",
     DeleteCertificate |-> "DeleteCertificateResponse", GetLog |-> "GetLogResponse"]

CentralSystemMethods == CentralSystemMethods1 @@ CentralSystemMethods2 @@ CentralSystemMethods3

CentralSystemChecks ==
    ("Core" :> "coreHandler" @@ "LocalAuthListManagement" :> "localAuthListHandler" @@
     "FirmwareManagement" :> "firmwareHandler" @@ "Reservation" :> "reservationHandler" @@
     "RemoteTrigger" :> "remoteTriggerHandler" @@ "SmartCharging" :> "smartChargingHandler" @@
     "Log" :> "logHandler" @@ "Security" :> "securityHandler" @@
     "SecureFirmwareUpdate" :> "secureFirmwareHandler")

CentralSystemRoutes ==
    [BootNotification |-> <<"coreHandler", "BootNotificationRequest">>,
     Authorize |-> <<"coreHandler", "AuthorizeRequest">>,
     DataTransfer |-> <<"coreHandler", "DataTransferRequest">>,
     Heartbeat |-> <<"coreHandler", "HeartbeatRequest">>,
     MeterValues |-> <<"coreHandler", "MeterValuesRequest">>,
     StartTransaction |-> <<"coreHandler", "StartTransactionRequest">>,
     StopTransaction |-> <<"coreHandler", "StopTransactionRequest">>,
     StatusNotification |-> <<"coreHandler", "StatusNotificationRequest">>,
     DiagnosticsStatusNotification |-> <<"firmwareHandler", "DiagnosticsStatusNotificationRequest">>,
     FirmwareStatusNotification |-> <<"firmwareHandler", "FirmwareStatusNotificationRequest">>,
     SignCertificate |-> <<"securityHandler", "SignCertificateRequest">>,
     SecurityEventNotification |-> <<"securityHandler", "SecurityEventNotificationRequest">>,
     LogStatusNotification |-> <<"logHandler", "LogStatusNotificationRequest">>,
     SignedFirmwareStatusNotification |-> <<"secureFirmwareHandler", "SignedFirmwareStatusNotificationRequest">>]

Sends == [cp |-> ChargePointSends, cs |-> CentralSystemSends]
Methods == [cp |-> ChargePointMethods, cs |-> CentralSystemMethods]
Checks == [cp |-> ChargePointChecks, cs |-> CentralSystemChecks]
Routes == [cp |-> ChargePointRoutes, cs |-> CentralSystemRoutes]

==============================================================================

------------------------------ MODULE Features16 ------------------------------
(***** The features of OCPP 1.6: what every request and response carries, how each field is encoded and
       validated (the json and validate tags of its struct), which fields its constructor sets, and which
       validation tags its package registers.  One definition for each file of ocpp1.6/. *****)
EXTENDS Types16

\* certificates/delete_certificate.go
DeleteCertificate ==
  [name |-> "DeleteCertificate", registers |-> {"deleteCertificateStatus16"},
   request |-> Message("DeleteCertificateRequest", {"certificateHashData"}, <<
       Obj("certificateHashData", <<Required>>, CertificateHashData)>>),
   response |-> Message("DeleteCertificateResponse", {"status"}, <<
       Str("status", <<Required, In("deleteCertificateStatus16")>>)>>)]

\* certificates/get_installed_certificates.go
GetInstalledCertificateIds ==
  [name |-> "GetInstalledCertificateIds", registers |-> {"getInstalledCertificateStatus16"},
   request |-> Message("GetInstalledCertificateIdsRequest", {"certificateType"}, <<
       Str("certificateType", <<Required, CertificateUse>>)>>),
   response |-> Message("GetInstalledCertificateIdsResponse", {"status"}, <<
       Str("status", <<Required, In("getInstalledCertificateStatus16")>>),
       Opt(Arr("certificateHashData", <<OmitEmpty>>, CertificateHashData))>>)]

\* certificates/install_certificate.go
InstallCertificate ==
  [name |-> "InstallCertificate", registers |-> {"installCertificateStatus16"},
   request |-> Message("InstallCertificateRequest", {"certificateType", "certificate"}, <<
       Str("certificateType", <<Required, CertificateUse>>), Str("certificate", <<Required, Max>>)>>),
   response |-> Message("InstallCertificateResponse", {"status"}, <<
       Str("status", <<Required, In("installCertificateStatus16")>>)>>)]

\* core/authorize.go
Authorize ==
  [name |-> "Authorize", registers |-> {},
   request |-> Message("AuthorizeRequest", {"idTag"}, <<
       Str("idTag", <<Required, Max>>)>>),
   response |-> Message("AuthorizeConfirmation", {"idTagInfo"}, <<
       Ptr(Obj("idTagInfo", <<Required>>, IdTagInfo))>>)]

\* core/boot_notification.go
BootNotification ==
  [name |-> "BootNotification", registers |-> {"registrationStatus16"},
   request |-> Message("BootNotificationRequest", {"chargePointModel", "chargePointVendor"}, <<
       Opt(Str("chargeBoxSerialNumber", <<Max>>)), Str("chargePointModel", <<Required, Max>>),
       Opt(Str("chargePointSerialNumber", <<Max>>)), Str("chargePointVendor", <<Required, Max>>),
       Opt(Str("firmwareVersion", <<Max>>)), Opt(Str("iccid", <<Max>>)),
       Opt(Str("imsi", <<Max>>)), Opt(Str("meterSerialNumber", <<Max>>)),
       Opt(Str("meterType", <<Max>>))>>),
   response |-> Message("BootNotificationConfirmation", {"currentTime", "interval", "status"}, <<
       Ptr(Time("currentTime", <<Required>>)), Int("interval", <<AtLeast("gte")>>),
       Str("status", <<Required, In("registrationStatus16")>>)>>)]

\* core/change_availability.go
ChangeAvailability ==
  [name |-> "ChangeAvailability", registers |-> {"availabilityType", "availabilityStatus"},
   request |-> Message("ChangeAvailabilityRequest", {"connectorId", "type"}, <<
       Int("connectorId", <<AtLeast("gte")>>), Str("type", <<Required, In("availabilityType")>>)>>),
   response |-> Message("ChangeAvailabilityConfirmation", {"status"}, <<
       Str("status", <<Required, In("availabilityStatus")>>)>>)]

\* core/change_configuration.go
ChangeConfiguration ==
  [name |-> "ChangeConfiguration", registers |-> {"configurationStatus"},
   request |-> Message("ChangeConfigurationRequest", {"key", "value"}, <<
       Str("key", <<Required, Max>>), Str("value", <<Max>>)>>),
   response |-> Message("ChangeConfigurationConfirmation", {"status"}, <<
       Str("status", <<Required, In("configurationStatus")>>)>>)]

\* core/clear_cache.go
ClearCache ==
  [name |-> "ClearCache", registers |-> {"cacheStatus16"},
   request |-> Message("ClearCacheRequest", {}, <<>>),
   response |-> Message("ClearCacheConfirmation", {"status"}, <<
       Str("status", <<Required, In("cacheStatus16")>>)>>)]

\* core/data_transfer.go
DataTransfer ==
  [name |-> "DataTransfer", registers |-> {"dataTransferStatus16"},
   request |-> Message("DataTransferRequest", {"vendorId"}, <<
       Str("vendorId", <<Required, Max>>), Opt(Str("messageId", <<Max>>)), Opt(Any("data", <<>>))>>),
   response |-> Message("DataTransferConfirmation", {"status"}, <<
       Str("status", <<Required, In("dataTransferStatus16")>>), Opt(Any("data", <<>>))>>)]

\* core/get_configuration.go
ConfigurationKey == <<
    Str("key", <<Required, Max>>), Bool("readonly", <<>>),
    Opt(Ptr(Str("value", <<OmitEmpty, Max>>)))>>

GetConfiguration ==
  [name |-> "GetConfiguration", registers |-> {},
   request |-> Message("GetConfigurationRequest", {"key"}, <<
       Opt(Arr("key", <<OmitEmpty, Unique>>, <<Str("", <<Max>>)>>))>>),
   response |-> Message("GetConfigurationConfirmation", {"configurationKey"}, <<
       Opt(Arr("configurationKey", <<OmitEmpty>>, ConfigurationKey)),
       Opt(Arr("unknownKey", <<OmitEmpty>>, <<Str("", <<Max>>)>>))>>)]

\* core/heartbeat.go
Heartbeat ==
  [name |-> "Heartbeat", registers |-> {},
   request |-> Message("HeartbeatRequest", {}, <<>>),
   response |-> Message("HeartbeatConfirmation", {"currentTime"}, <<
       NotNull(Ptr(Time("currentTime", <<Required>>)))>>)]

\* core/meter_values.go
MeterValues ==
  [name |-> "MeterValues", registers |-> {},
   request |-> Message("MeterValuesRequest", {"connectorId", "meterValue"}, <<
       Int("connectorId", <<AtLeast("gte")>>), Opt(Ptr(Int("transactionId", <<>>))),
       Arr("meterValue", <<Required, Min>>, MeterValue)>>),
   response |-> Message("MeterValuesConfirmation", {}, <<>>)]

\* core/remote_start_transaction.go
RemoteStartTransaction ==
  [name |-> "RemoteStartTransaction", registers |-> {},
   request |-> Message("RemoteStartTransactionRequest", {"idTag"}, <<
       Opt(Ptr(Int("connectorId", <<OmitEmpty, Gt>>))), Str("idTag", <<Required, Max>>),
       Opt(Ptr(Obj("chargingProfile", <<>>, ChargingProfile)))>>),
   response |-> Message("RemoteStartTransactionConfirmation", {"status"}, <<
       Str("status", <<Required, RemoteStartStopStatus>>)>>)]

\* core/remote_stop_transaction.go
RemoteStopTransaction ==
  [name |-> "RemoteStopTransaction", registers |-> {},
   request |-> Message("RemoteStopTransactionRequest", {"transactionId"}, <<
       Int("transactionId", <<>>)>>),
   response |-> Message("RemoteStopTransactionConfirmation", {"status"}, <<
       Str("status", <<Required, RemoteStartStopStatus>>)>>)]

\* core/reset.go
Reset ==
  [name |-> "Reset", registers |-> {"resetType16", "resetStatus16"},
   request |-> Message("ResetRequest", {"type"}, <<
       Str("type", <<Required, In("resetType16")>>)>>),
   response |-> Message("ResetConfirmation", {"status"}, <<
       Str("status", <<Required, In("resetStatus16")>>)>>)]

\* core/start_transaction.go
StartTransaction ==
  [name |-> "StartTransaction", registers |-> {},
   request |-> Message("StartTransactionRequest", {"connectorId", "idTag", "meterStart", "timestamp"}, <<
       Int("connectorId", <<Gt>>), Str("idTag", <<Required, Max>>),
       Int("meterStart", <<AtLeast("gte")>>), Opt(Ptr(Int("reservationId", <<OmitEmpty>>))),
       Ptr(Time("timestamp", <<Required>>))>>),
   response |-> Message("StartTransactionConfirmation", {"idTagInfo", "transactionId"}, <<
       Ptr(Obj("idTagInfo", <<Required>>, IdTagInfo)), Int("transactionId", <<>>)>>)]

\* core/status_notification.go
StatusNotification ==
  [name |-> "StatusNotification", registers |-> {"chargePointErrorCode", "chargePointStatus"},
   request |-> Message("StatusNotificationRequest", {"connectorId", "errorCode", "status"}, <<
       Int("connectorId", <<AtLeast("gte")>>),
       Str("errorCode", <<Required, In("chargePointErrorCode")>>), Opt(Str("info", <<Max>>)),
       Str("status", <<Required, In("chargePointStatus")>>),
       Opt(Ptr(Time("timestamp", <<OmitEmpty>>))), Opt(Str("vendorId", <<Max>>)),
       Opt(Str("vendorErrorCode", <<Max>>))>>),
   response |-> Message("StatusNotificationConfirmation", {}, <<>>)]

\* core/stop_transaction.go
StopTransaction ==
  [name |-> "StopTransaction", registers |-> {"reason"},
   request |-> Message("StopTransactionRequest", {"meterStop", "timestamp", "transactionId"}, <<
       Opt(Str("idTag", <<Max>>)), Int("meterStop", <<>>), Ptr(Time("timestamp", <<Required>>)),
       Int("transactionId", <<>>), Opt(Str("reason", <<OmitEmpty, In("reason")>>)),
       Opt(Arr("transactionData", <<OmitEmpty>>, MeterValue))>>),
   response |-> Message("StopTransactionConfirmation", {}, <<
       Opt(Ptr(Obj("idTagInfo", <<OmitEmpty>>, IdTagInfo)))>>)]

\* core/unlock_connector.go
UnlockConnector ==
  [name |-> "UnlockConnector", registers |-> {"unlockStatus16"},
   request |-> Message("UnlockConnectorRequest", {"connectorId"}, <<
       Int("connectorId", <<Gt>>)>>),
   response |-> Message("UnlockConnectorConfirmation", {"status"}, <<
       Str("status", <<Required, In("unlockStatus16")>>)>>)]

\* extendedtriggermessage/extended_trigger_message.go
ExtendedTriggerMessage ==
  [name |-> "ExtendedTriggerMessage", registers |-> {"extendedTriggerMessageType", "extendedTriggerMessageStatus"},
   request |-> Message("ExtendedTriggerMessageRequest", {"requestedMessage"}, <<
       Str("requestedMessage", <<Required, In("extendedTriggerMessageType")>>),
       Opt(Ptr(Int("connectorId", <<OmitEmpty, AtLeast("gte")>>)))>>),
   response |-> Message("ExtendedTriggerMessageResponse", {"status"}, <<
       Str("status", <<Required, In("extendedTriggerMessageStatus")>>)>>)]

\* firmware/diagnostics_status_notification.go
DiagnosticsStatusNotification ==
  [name |-> "DiagnosticsStatusNotification", registers |-> {"diagnosticsStatus"},
   request |-> Message("DiagnosticsStatusNotificationRequest", {"status"}, <<
       Str("status", <<Required, In("diagnosticsStatus")>>)>>),
   response |-> Message("DiagnosticsStatusNotificationConfirmation", {}, <<>>)]

\* firmware/firmware_status_notification.go
FirmwareStatusNotification ==
  [name |-> "FirmwareStatusNotification", registers |-> {"firmwareStatus16"},
   request |-> Message("FirmwareStatusNotificationRequest", {"status"}, <<
       Str("status", <<Required, In("firmwareStatus16")>>)>>),
   response |-> Message("FirmwareStatusNotificationConfirmation", {}, <<>>)]

\* firmware/get_diagnostics.go
GetDiagnostics ==
  [name |-> "GetDiagnostics", registers |-> {},
   request |-> Message("GetDiagnosticsRequest", {"location"}, <<
       Str("location", <<Required, Uri>>),
       Opt(Ptr(Int("retries", <<OmitEmpty, AtLeast("gte")>>))),
       Opt(Ptr(Int("retryInterval", <<OmitEmpty, AtLeast("gte")>>))),
       Opt(Ptr(Time("startTime", <<>>))), Opt(Ptr(Time("stopTime", <<>>)))>>),
   response |-> Message("GetDiagnosticsConfirmation", {}, <<
       Opt(Str("fileName", <<Max>>))>>)]

\* firmware/update_firmware.go
UpdateFirmware ==
  [name |-> "UpdateFirmware", registers |-> {},
   request |-> Message("UpdateFirmwareRequest", {"location", "retrieveDate"}, <<
       Str("location", <<Required, Uri>>),
       Opt(Ptr(Int("retries", <<OmitEmpty, AtLeast("gte")>>))),
       Ptr(Time("retrieveDate", <<Required>>)),
       Opt(Ptr(Int("retryInterval", <<OmitEmpty, AtLeast("gte")>>)))>>),
   response |-> Message("UpdateFirmwareConfirmation", {}, <<>>)]

\* localauth/get_local_list_version.go
GetLocalListVersion ==
  [name |-> "GetLocalListVersion", registers |-> {},
   request |-> Message("GetLocalListVersionRequest", {}, <<>>),
   response |-> Message("GetLocalListVersionConfirmation", {"listVersion"}, <<
       Int("listVersion", <<AtLeast("gte")>>)>>)]

\* localauth/send_local_list.go
AuthorizationData == <<
    Str("idTag", <<Required, Max>>), Opt(Ptr(Obj("idTagInfo", <<>>, IdTagInfo)))>>

SendLocalList ==
  [name |-> "SendLocalList", registers |-> {"updateStatus", "updateType16"},
   request |-> Message("SendLocalListRequest", {"listVersion", "updateType"}, <<
       Int("listVersion", <<AtLeast("gte")>>),
       Opt(Arr("localAuthorizationList", <<OmitEmpty>>, AuthorizationData)),
       Str("updateType", <<Required, In("updateType16")>>)>>),
   response |-> Message("SendLocalListConfirmation", {"status"}, <<
       Str("status", <<Required, In("updateStatus")>>)>>)]

\* logging/get_log.go
LogParameters == <<
    Str("remoteLocation", <<Required, Max, Url>>),
    Opt(Ptr(Time("oldestTimestamp", <<OmitEmpty>>))),
    Opt(Ptr(Time("latestTimestamp", <<OmitEmpty>>)))>>

GetLog ==
  [name |-> "GetLog", registers |-> {"logType16", "logStatus16"},
   request |-> Message("GetLogRequest", {"logType", "requestId", "log"}, <<
       Str("logType", <<Required, In("logType16")>>), Int("requestId", <<AtLeast("gte")>>),
       Opt(Ptr(Int("retries", <<OmitEmpty, AtLeast("gte")>>))),
       Opt(Ptr(Int("retryInterval", <<OmitEmpty, AtLeast("gte")>>))),
       Obj("log", <<Required>>, LogParameters)>>),
   response |-> Message("GetLogResponse", {"status"}, <<
       Str("status", <<Required, In("logStatus16")>>), Opt(Str("filename", <<OmitEmpty, Max>>))>>)]

\* logging/log_status_notification.go
LogStatusNotification ==
  [name |-> "LogStatusNotification", registers |-> {"uploadLogStatus16"},
   request |-> Message("LogStatusNotificationRequest", {"status", "requestId"}, <<
       Str("status", <<Required, In("uploadLogStatus16")>>), Int("requestId", <<AtLeast("gte")>>)>>),
   response |-> Message("LogStatusNotificationResponse", {}, <<>>)]

\* remotetrigger/trigger_message.go
TriggerMessage ==
  [name |-> "TriggerMessage", registers |-> {"triggerMessageStatus16", "messageTrigger16"},
   request |-> Message("TriggerMessageRequest", {"requestedMessage"}, <<
       Str("requestedMessage", <<Required, In("messageTrigger16")>>),
       Opt(Ptr(Int("connectorId", <<OmitEmpty, AtLeast("gte")>>)))>>),
   response |-> Message("TriggerMessageConfirmation", {"status"}, <<
       Str("status", <<Required, In("triggerMessageStatus16")>>)>>)]

\* reservation/cancel_reservation.go
CancelReservation ==
  [name |-> "CancelReservation", registers |-> {"cancelReservationStatus16"},
   request |-> Message("CancelReservationRequest", {"reservationId"}, <<
       Int("reservationId", <<>>)>>),
   response |-> Message("CancelReservationConfirmation", {"status"}, <<
       Str("status", <<Required, In("cancelReservationStatus16")>>)>>)]

\* reservation/reserve_now.go
ReserveNow ==
  [name |-> "ReserveNow", registers |-> {"reservationStatus"},
   request |-> Message("ReserveNowRequest", {"connectorId", "expiryDate", "idTag", "reservationId"}, <<
       Int("connectorId", <<AtLeast("gte")>>), Ptr(Time("expiryDate", <<Required>>)),
       Str("idTag", <<Required, Max>>), Opt(Str("parentIdTag", <<Max>>)),
       Int("reservationId", <<>>)>>),
   response |-> Message("ReserveNowConfirmation", {"status"}, <<
       Str("status", <<Required, In("reservationStatus")>>)>>)]

\* securefirmware/signed_update_firmware.go
Firmware == <<
    Str("location", <<Required, Max, Uri>>), Ptr(Time("retrieveDateTime", <<Required>>)),
    Opt(Ptr(Time("installDateTime", <<OmitEmpty>>))), Opt(Str("signingCertificate", <<Max>>)),
    Opt(Str("signature", <<Max>>))>>

SignedUpdateFirmware ==
  [name |-> "SignedUpdateFirmware", registers |-> {"signedUpdateFirmwareStatus"},
   request |-> Message("SignedUpdateFirmwareRequest", {"requestId", "firmware"}, <<
       Opt(Ptr(Int("retries", <<OmitEmpty, AtLeast("gte")>>))),
       Opt(Ptr(Int("retryInterval", <<OmitEmpty, AtLeast("gte")>>))),
       Int("requestId", <<AtLeast("gte")>>), Obj("firmware", <<Required>>, Firmware)>>),
   response |-> Message("SignedUpdateFirmwareResponse", {"status"}, <<
       Str("status", <<Required, In("signedUpdateFirmwareStatus")>>)>>)]

\* securefirmware/signed_update_firmware_status_notitfication.go
SignedFirmwareStatusNotification ==
  [name |-> "SignedFirmwareStatusNotification", registers |-> {"signedFirmwareStatus"},
   request |-> Message("SignedFirmwareStatusNotificationRequest", {"status"}, <<
       Str("status", <<Required, In("signedFirmwareStatus")>>),
       Opt(Ptr(Int("requestId", <<OmitEmpty, AtLeast("gte")>>)))>>),
   response |-> Message("SignedFirmwareStatusNotificationResponse", {}, <<>>)]

\* security/certificate_signed.go
CertificateSigned ==
  [name |-> "CertificateSigned", registers |-> {"certificateSignedStatus16"},
   request |-> Message("CertificateSignedRequest", {"certificateChain"}, <<
       Str("certificateChain", <<Required, Max>>)>>),
   response |-> Message("CertificateSignedResponse", {"status"}, <<
       Str("status", <<Required, In("certificateSignedStatus16")>>)>>)]

\* security/security_event_notification.go
SecurityEventNotification ==
  [name |-> "SecurityEventNotification", registers |-> {},
   request |-> Message("SecurityEventNotificationRequest", {"type", "timestamp"}, <<
       Str("type", <<Required, Max>>), Ptr(Time("timestamp", <<Required>>)),
       Opt(Str("techInfo", <<OmitEmpty, Max>>))>>),
   response |-> Message("SecurityEventNotificationResponse", {}, <<>>)]

\* security/sign_certificate.go
SignCertificate ==
  [name |-> "SignCertificate", registers |-> {},
   request |-> Message("SignCertificateRequest", {"csr"}, <<
       Str("csr", <<Required, Max>>),
       Opt(Str("certificateType", <<OmitEmpty, CertificateSigningUse>>))>>),
   response |-> Message("SignCertificateResponse", {"status"}, <<
       Str("status", <<Required, GenericStatus>>)>>)]

\* smartcharging/clear_charging_profile.go
ClearChargingProfile ==
  [name |-> "ClearChargingProfile", registers |-> {"clearChargingProfileStatus16"},
   request |-> Message("ClearChargingProfileRequest", {}, <<
       Opt(Ptr(Int("id", <<OmitEmpty>>))),
       Opt(Ptr(Int("connectorId", <<OmitEmpty, AtLeast("gte")>>))),
       Opt(Str("chargingProfilePurpose", <<OmitEmpty, ChargingProfilePurposeType>>)),
       Opt(Ptr(Int("stackLevel", <<OmitEmpty, AtLeast("gte")>>)))>>),
   response |-> Message("ClearChargingProfileConfirmation", {"status"}, <<
       Str("status", <<Required, In("clearChargingProfileStatus16")>>)>>)]

\* smartcharging/get_composite_schedule.go
GetCompositeSchedule ==
  [name |-> "GetCompositeSchedule", registers |-> {"compositeScheduleStatus"},
   request |-> Message("GetCompositeScheduleRequest", {"connectorId", "duration"}, <<
       Int("connectorId", <<AtLeast("gte")>>), Int("duration", <<AtLeast("gte")>>),
       Opt(Str("chargingRateUnit", <<OmitEmpty, ChargingRateUnitType>>))>>),
   response |-> Message("GetCompositeScheduleConfirmation", {"status"}, <<
       Str("status", <<Required, In("compositeScheduleStatus")>>),
       Opt(Ptr(Int("connectorId", <<OmitEmpty, AtLeast("gte")>>))),
       Opt(Ptr(Time("scheduleStart", <<>>))),
       Opt(Ptr(Obj("chargingSchedule", <<OmitEmpty>>, ChargingSchedule)))>>)]

\* smartcharging/set_charging_profile.go
SetChargingProfile ==
  [name |-> "SetChargingProfile", registers |-> {"chargingProfileStatus16"},
   request |-> Message("SetChargingProfileRequest", {"connectorId", "csChargingProfiles"}, <<
       Int("connectorId", <<AtLeast("gte")>>),
       Ptr(Obj("csChargingProfiles", <<Required>>, ChargingProfile))>>),
   response |-> Message("SetChargingProfileConfirmation", {"status"}, <<
       Str("status", <<Required, In("chargingProfileStatus16")>>)>>)]

Features ==
    {DeleteCertificate, GetInstalledCertificateIds, InstallCertificate, Authorize,
     BootNotification, ChangeAvailability, ChangeConfiguration, ClearCache, DataTransfer,
     GetConfiguration, Heartbeat, MeterValues, RemoteStartTransaction, RemoteStopTransaction,
     Reset, StartTransaction, StatusNotification, StopTransaction, UnlockConnector,
     ExtendedTriggerMessage, DiagnosticsStatusNotification, FirmwareStatusNotification,
     GetDiagnostics, UpdateFirmware, GetLocalListVersion, SendLocalList, GetLog,
     LogStatusNotification, TriggerMessage, CancelReservation, ReserveNow, SignedUpdateFirmware,
     SignedFirmwareStatusNotification, CertificateSigned, SecurityEventNotification,
     SignCertificate, ClearChargingProfile, GetCompositeSchedule, SetChargingProfile}

\* Every tag some init function has registered when an endpoint of this version runs.
Registered ==
    TypeTags \cup UNION {f.registers : f \in Features}

==============================================================================

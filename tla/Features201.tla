------------------------------ MODULE Features201 ------------------------------
(***** The features of OCPP 2.0.1: what every request and response carries, how each field is encoded and
       validated (the json and validate tags of its struct), which fields its constructor sets, and which
       validation tags its package registers.  One definition for each file of ocpp2.0.1/. *****)
EXTENDS Types201

\* authorization/authorize.go
Authorize ==
  [name |-> "Authorize", registers |-> {"authorizeCertificateStatus"},
   request |-> Message("AuthorizeRequest", {"idToken"}, <<
       Opt(Str("certificate", <<Max>>)), Obj("idToken", <<Required>>, IDToken),
       Opt(Arr("iso15118CertificateHashData", <<Max>>, OCSPRequestData))>>),
   response |-> Message("AuthorizeResponse", {"idTokenInfo"}, <<
       Opt(Str("certificateStatus", <<OmitEmpty, In("authorizeCertificateStatus")>>)),
       Obj("idTokenInfo", <<Required>>, IDTokenInfo)>>)]

\* authorization/clear_cache.go
ClearCache ==
  [name |-> "ClearCache", registers |-> {"cacheStatus201"},
   request |-> Message("ClearCacheRequest", {}, <<>>),
   response |-> Message("ClearCacheResponse", {"status"}, <<
       Str("status", <<Required, In("cacheStatus201")>>),
       Opt(Ptr(Obj("statusInfo", <<OmitEmpty>>, StatusInfo)))>>)]

\* availability/change_availability.go
ChangeAvailability ==
  [name |-> "ChangeAvailability", registers |-> {"operationalStatus", "changeAvailabilityStatus"},
   request |-> Message("ChangeAvailabilityRequest", {"operationalStatus"}, <<
       Str("operationalStatus", <<Required, In("operationalStatus")>>),
       Opt(Ptr(Obj("evse", <<OmitEmpty>>, EVSE)))>>),
   response |-> Message("ChangeAvailabilityResponse", {"status"}, <<
       Str("status", <<Required, In("changeAvailabilityStatus")>>),
       Opt(Ptr(Obj("statusInfo", <<OmitEmpty>>, StatusInfo)))>>)]

\* availability/heartbeat.go
Heartbeat ==
  [name |-> "Heartbeat", registers |-> {},
   request |-> Message("HeartbeatRequest", {}, <<
       Opt(Ptr(Obj("customData", <<OmitEmpty>>, CustomData)))>>),
   response |-> Message("HeartbeatResponse", {"currentTime"}, <<
       Opt(Ptr(Obj("customData", <<OmitEmpty>>, CustomData))),
       Ptr(Time("currentTime", <<Required>>))>>)]

\* availability/status_notification.go
StatusNotification ==
  [name |-> "StatusNotification", registers |-> {"connectorStatus"},
   request |-> Message("StatusNotificationRequest", {"timestamp", "connectorStatus", "evseId", "connectorId"}, <<
       Ptr(Time("timestamp", <<Required>>)),
       Str("connectorStatus", <<Required, In("connectorStatus")>>),
       Int("evseId", <<AtLeast("gte")>>), Int("connectorId", <<AtLeast("gte")>>)>>),
   response |-> Message("StatusNotificationResponse", {}, <<>>)]

\* data/data_transfer.go
DataTransfer ==
  [name |-> "DataTransfer", registers |-> {"dataTransferStatus201"},
   request |-> Message("DataTransferRequest", {"vendorId"}, <<
       Opt(Str("messageId", <<Max>>)), Opt(Any("data", <<>>)), Str("vendorId", <<Required, Max>>)>>),
   response |-> Message("DataTransferResponse", {"status"}, <<
       Str("status", <<Required, In("dataTransferStatus201")>>), Opt(Any("data", <<>>)),
       Opt(Ptr(Obj("statusInfo", <<OmitEmpty>>, StatusInfo)))>>)]

\* diagnostics/clear_variable_monitoring.go
ClearMonitoringResult == <<
    Int("id", <<Required, AtLeast("gte")>>),
    Str("status", <<Required, In("clearMonitoringStatus")>>)>>

ClearVariableMonitoring ==
  [name |-> "ClearVariableMonitoring", registers |-> {"clearMonitoringStatus"},
   request |-> Message("ClearVariableMonitoringRequest", {"id"}, <<
       Arr("id", <<Required, Min>>, <<Int("", <<AtLeast("gte")>>)>>)>>),
   response |-> Message("ClearVariableMonitoringResponse", {"clearMonitoringResult"}, <<
       Arr("clearMonitoringResult", <<Required, Min>>, ClearMonitoringResult)>>)]

\* diagnostics/customer_information.go
CustomerInformation ==
  [name |-> "CustomerInformation", registers |-> {"customerInformationStatus"},
   request |-> Message("CustomerInformationRequest", {"requestId", "report", "clear"}, <<
       Int("requestId", <<AtLeast("gte")>>), Bool("report", <<>>), Bool("clear", <<>>),
       Opt(Str("customerIdentifier", <<Max>>)), Opt(Ptr(Obj("idToken", <<OmitEmpty>>, IDToken))),
       Opt(Ptr(Obj("customerCertificate", <<OmitEmpty>>, CertificateHashData)))>>),
   response |-> Message("CustomerInformationResponse", {"status"}, <<
       Str("status", <<Required, In("customerInformationStatus")>>),
       Opt(Ptr(Obj("statusInfo", <<OmitEmpty>>, StatusInfo)))>>)]

\* diagnostics/get_log.go
LogParameters == <<
    Str("remoteLocation", <<Required, Max, Url>>),
    Opt(Ptr(Time("oldestTimestamp", <<OmitEmpty>>))),
    Opt(Ptr(Time("latestTimestamp", <<OmitEmpty>>)))>>

GetLog ==
  [name |-> "GetLog", registers |-> {"logType", "logStatus"},
   request |-> Message("GetLogRequest", {"logType", "requestId", "log"}, <<
       Str("logType", <<Required, In("logType")>>), Int("requestId", <<AtLeast("gte")>>),
       Opt(Ptr(Int("retries", <<OmitEmpty, AtLeast("gte")>>))),
       Opt(Ptr(Int("retryInterval", <<OmitEmpty, AtLeast("gte")>>))),
       Obj("log", <<Required>>, LogParameters)>>),
   response |-> Message("GetLogResponse", {"status"}, <<
       Str("status", <<Required, In("logStatus")>>), Opt(Str("filename", <<OmitEmpty, Max>>))>>)]

\* diagnostics/get_monitoring_report.go
GetMonitoringReport ==
  [name |-> "GetMonitoringReport", registers |-> {"monitoringCriteria"},
   request |-> Message("GetMonitoringReportRequest", {}, <<
       Opt(Ptr(Int("requestId", <<OmitEmpty, AtLeast("gte")>>))),
       Opt(Arr("monitoringCriteria", <<OmitEmpty, Max>>, <<Str("", <<In("monitoringCriteria")>>)>>)),
       Opt(Arr("componentVariable", <<OmitEmpty>>, ComponentVariable))>>),
   response |-> Message("GetMonitoringReportResponse", {"status"}, <<
       Str("status", <<Required, GenericDeviceModelStatusType>>)>>)]

\* diagnostics/log_status_notification.go
LogStatusNotification ==
  [name |-> "LogStatusNotification", registers |-> {"uploadLogStatus"},
   request |-> Message("LogStatusNotificationRequest", {"status", "requestId"}, <<
       Str("status", <<Required, In("uploadLogStatus")>>), Int("requestId", <<AtLeast("gte")>>)>>),
   response |-> Message("LogStatusNotificationResponse", {}, <<>>)]

\* diagnostics/notify_customer_information.go
NotifyCustomerInformation ==
  [name |-> "NotifyCustomerInformation", registers |-> {},
   request |-> Message("NotifyCustomerInformationRequest", {"data", "seqNo", "generatedAt", "requestId"}, <<
       Str("data", <<Required, Max>>), Opt(Bool("tbc", <<OmitEmpty>>)),
       Int("seqNo", <<AtLeast("gte")>>), Time("generatedAt", <<Required>>),
       Int("requestId", <<AtLeast("gte")>>)>>),
   response |-> Message("NotifyCustomerInformationResponse", {}, <<>>)]

\* diagnostics/notify_event.go
EventData == <<
    Int("eventId", <<AtLeast("gte")>>), Ptr(Time("timestamp", <<Required>>)),
    Str("trigger", <<Required, In("eventTrigger")>>), Opt(Ptr(Int("cause", <<OmitEmpty>>))),
    Str("actualValue", <<Required, Max>>), Opt(Str("techCode", <<OmitEmpty, Max>>)),
    Opt(Str("techInfo", <<OmitEmpty, Max>>)), Opt(Bool("cleared", <<>>)),
    Opt(Str("transactionId", <<OmitEmpty, Max>>)),
    Opt(Ptr(Int("variableMonitoringId", <<OmitEmpty>>))),
    Str("eventNotificationType", <<Required, In("eventNotification")>>),
    Obj("component", <<Required>>, Component), Obj("variable", <<Required>>, Variable)>>

NotifyEvent ==
  [name |-> "NotifyEvent", registers |-> {"eventTrigger", "eventNotification"},
   request |-> Message("NotifyEventRequest", {"generatedAt", "seqNo", "eventData"}, <<
       Ptr(Time("generatedAt", <<Required>>)), Int("seqNo", <<AtLeast("gte")>>),
       Opt(Bool("tbc", <<OmitEmpty>>)), Arr("eventData", <<Required, Min>>, EventData)>>),
   response |-> Message("NotifyEventResponse", {}, <<>>)]

\* diagnostics/notify_monitoring_report.go
VariableMonitoring == <<
    Int("id", <<AtLeast("gte")>>), Bool("transaction", <<>>), Num("value", <<>>),
    Str("type", <<Required, In("monitorType")>>), Int("severity", <<AtLeast("min"), Max>>)>>

MonitoringData == <<
    Obj("component", <<Required>>, Component), Obj("variable", <<Required>>, Variable),
    Arr("variableMonitoring", <<Required, Min>>, VariableMonitoring)>>

NotifyMonitoringReport ==
  [name |-> "NotifyMonitoringReport", registers |-> {},
   request |-> Message("NotifyMonitoringReportRequest", {"requestId", "seqNo", "generatedAt", "monitor"}, <<
       Int("requestId", <<AtLeast("gte")>>), Opt(Bool("tbc", <<OmitEmpty>>)),
       Int("seqNo", <<AtLeast("gte")>>), Ptr(Time("generatedAt", <<Required>>)),
       Opt(Arr("monitor", <<OmitEmpty>>, MonitoringData))>>),
   response |-> Message("NotifyMonitoringReportResponse", {}, <<>>)]

\* diagnostics/set_monitoring_base.go
SetMonitoringBase ==
  [name |-> "SetMonitoringBase", registers |-> {"monitoringBase"},
   request |-> Message("SetMonitoringBaseRequest", {"monitoringBase"}, <<
       Str("monitoringBase", <<Required, In("monitoringBase")>>)>>),
   response |-> Message("SetMonitoringBaseResponse", {"status"}, <<
       Str("status", <<Required, GenericDeviceModelStatusType>>),
       Opt(Ptr(Obj("statusInfo", <<OmitEmpty>>, StatusInfo)))>>)]

\* diagnostics/set_monitoring_level.go
SetMonitoringLevel ==
  [name |-> "SetMonitoringLevel", registers |-> {},
   request |-> Message("SetMonitoringLevelRequest", {"severity"}, <<
       Int("severity", <<AtLeast("min"), Max>>)>>),
   response |-> Message("SetMonitoringLevelResponse", {"status"}, <<
       Str("status", <<Required, GenericDeviceModelStatusType>>),
       Opt(Ptr(Obj("statusInfo", <<OmitEmpty>>, StatusInfo)))>>)]

\* diagnostics/set_variable_monitoring.go
SetMonitoringData == <<
    Opt(Ptr(Int("id", <<OmitEmpty>>))), Opt(Bool("transaction", <<>>)), Num("value", <<>>),
    Str("type", <<Required, In("monitorType")>>), Int("severity", <<AtLeast("min"), Max>>),
    Obj("component", <<Required>>, Component), Obj("variable", <<Required>>, Variable)>>

SetMonitoringResult == <<
    Opt(Ptr(Int("id", <<OmitEmpty>>))), Str("status", <<Required, In("setMonitoringStatus")>>),
    Str("type", <<Required, In("monitorType")>>), Int("severity", <<AtLeast("min"), Max>>),
    Obj("component", <<Required>>, Component), Obj("variable", <<Required>>, Variable),
    Opt(Ptr(Obj("statusInfo", <<OmitEmpty>>, StatusInfo)))>>

SetVariableMonitoring ==
  [name |-> "SetVariableMonitoring", registers |-> {"setMonitoringStatus"},
   request |-> Message("SetVariableMonitoringRequest", {"setMonitoringData"}, <<
       Arr("setMonitoringData", <<Required, Min>>, SetMonitoringData)>>),
   response |-> Message("SetVariableMonitoringResponse", {"setMonitoringResult"}, <<
       Arr("setMonitoringResult", <<Required, Min>>, SetMonitoringResult)>>)]

\* diagnostics/types.go
DiagnosticsTags ==
    {"monitorType"}

\* display/clear_display_message.go
ClearDisplayMessage ==
  [name |-> "ClearDisplayMessage", registers |-> {"clearMessageStatus"},
   request |-> Message("ClearDisplayRequest", {"id"}, <<
       Int("id", <<>>)>>),
   response |-> Message("ClearDisplayResponse", {"status"}, <<
       Str("status", <<Required, In("clearMessageStatus")>>),
       Opt(Ptr(Obj("statusInfo", <<OmitEmpty>>, StatusInfo)))>>)]

\* display/get_display_messages.go
GetDisplayMessages ==
  [name |-> "GetDisplayMessages", registers |-> {},
   request |-> Message("GetDisplayMessagesRequest", {"requestId"}, <<
       Int("requestId", <<AtLeast("gte")>>),
       Opt(Str("priority", <<OmitEmpty, In("messagePriority")>>)),
       Opt(Str("state", <<OmitEmpty, In("messageState")>>)),
       Opt(Arr("id", <<OmitEmpty>>, <<Int("", <<AtLeast("gte")>>)>>))>>),
   response |-> Message("GetDisplayMessagesResponse", {"status"}, <<
       Str("status", <<Required, In("messageStatus")>>)>>)]

\* display/notify_display_messages.go
DisplayMessageInfo == <<
    Int("id", <<AtLeast("gte")>>), Str("priority", <<Required, In("messagePriority")>>),
    Opt(Str("state", <<OmitEmpty, In("messageState")>>)),
    Opt(Ptr(Time("startDateTime", <<OmitEmpty>>))), Opt(Ptr(Time("endDateTime", <<OmitEmpty>>))),
    Opt(Str("transactionId", <<OmitEmpty, Max>>)), Obj("message", <<Required>>, MessageContent),
    Opt(Ptr(Obj("display", <<OmitEmpty>>, Component)))>>

NotifyDisplayMessages ==
  [name |-> "NotifyDisplayMessages", registers |-> {},
   request |-> Message("NotifyDisplayMessagesRequest", {"requestId"}, <<
       Int("requestId", <<AtLeast("gte")>>), Opt(Bool("tbc", <<OmitEmpty>>)),
       Opt(Arr("messageInfo", <<OmitEmpty>>, DisplayMessageInfo))>>),
   response |-> Message("NotifyDisplayMessagesResponse", {}, <<>>)]

\* display/set_display_message.go
SetDisplayMessage ==
  [name |-> "SetDisplayMessage", registers |-> {"displayMessageStatus"},
   request |-> Message("SetDisplayMessageRequest", {"message"}, <<
       Obj("message", <<Required>>, DisplayMessageInfo)>>),
   response |-> Message("SetDisplayMessageResponse", {"status"}, <<
       Str("status", <<Required, In("displayMessageStatus")>>),
       Opt(Ptr(Obj("statusInfo", <<OmitEmpty>>, StatusInfo)))>>)]

\* display/types.go
DisplayTags ==
    {"messagePriority", "messageState", "messageStatus"}

\* firmware/firmware_status_notification.go
FirmwareStatusNotification ==
  [name |-> "FirmwareStatusNotification", registers |-> {"firmwareStatus201"},
   request |-> Message("FirmwareStatusNotificationRequest", {"status"}, <<
       Str("status", <<Required, In("firmwareStatus201")>>),
       Opt(Ptr(Int("requestId", <<OmitEmpty, AtLeast("gte")>>)))>>),
   response |-> Message("FirmwareStatusNotificationResponse", {}, <<>>)]

\* firmware/publish_firmware.go
PublishFirmware ==
  [name |-> "PublishFirmware", registers |-> {},
   request |-> Message("PublishFirmwareRequest", {"location", "checksum", "requestId"}, <<
       Str("location", <<Required, Max>>),
       Opt(Ptr(Int("retries", <<OmitEmpty, AtLeast("gte")>>))),
       Str("checksum", <<Required, Max>>), Int("requestId", <<AtLeast("gte")>>),
       Opt(Ptr(Int("retryInterval", <<OmitEmpty, AtLeast("gte")>>)))>>),
   response |-> Message("PublishFirmwareResponse", {"status"}, <<
       Str("status", <<Required, GenericStatusType>>),
       Opt(Ptr(Obj("statusInfo", <<OmitEmpty>>, StatusInfo)))>>)]

\* firmware/publish_firmware_status_notification.go
PublishFirmwareStatusNotification ==
  [name |-> "PublishFirmwareStatusNotification", registers |-> {"publishFirmwareStatus"},
   request |-> Message("PublishFirmwareStatusNotificationRequest", {"status"}, <<
       Str("status", <<Required, In("publishFirmwareStatus")>>),
       Opt(Arr("location", <<OmitEmpty>>, <<Str("", <<Max>>)>>)),
       Opt(Ptr(Int("requestId", <<OmitEmpty, AtLeast("gte")>>)))>>),
   response |-> Message("PublishFirmwareStatusNotificationResponse", {}, <<>>)]

\* firmware/unpublish_firmware.go
UnpublishFirmware ==
  [name |-> "UnpublishFirmware", registers |-> {"unpublishFirmwareStatus"},
   request |-> Message("UnpublishFirmwareRequest", {"checksum"}, <<
       Str("checksum", <<Required, Max>>)>>),
   response |-> Message("UnpublishFirmwareResponse", {"status"}, <<
       Str("status", <<Required, In("unpublishFirmwareStatus")>>)>>)]

\* firmware/update_firmware.go
Firmware == <<
    Str("location", <<Required, Max, Uri>>), Ptr(Time("retrieveDateTime", <<Required>>)),
    Opt(Ptr(Time("installDateTime", <<OmitEmpty>>))), Opt(Str("signingCertificate", <<Max>>)),
    Opt(Str("signature", <<Max>>))>>

UpdateFirmware ==
  [name |-> "UpdateFirmware", registers |-> {"updateFirmwareStatus"},
   request |-> Message("UpdateFirmwareRequest", {"requestId", "firmware"}, <<
       Opt(Ptr(Int("retries", <<OmitEmpty, AtLeast("gte")>>))),
       Opt(Ptr(Int("retryInterval", <<OmitEmpty, AtLeast("gte")>>))),
       Int("requestId", <<AtLeast("gte")>>), Obj("firmware", <<Required>>, Firmware)>>),
   response |-> Message("UpdateFirmwareResponse", {"status"}, <<
       Str("status", <<Required, In("updateFirmwareStatus")>>),
       Opt(Ptr(Obj("statusInfo", <<OmitEmpty>>, StatusInfo)))>>)]

\* iso15118/delete_certificate.go
DeleteCertificate ==
  [name |-> "DeleteCertificate", registers |-> {"deleteCertificateStatus"},
   request |-> Message("DeleteCertificateRequest", {"certificateHashData"}, <<
       Obj("certificateHashData", <<Required>>, CertificateHashData)>>),
   response |-> Message("DeleteCertificateResponse", {"status"}, <<
       Str("status", <<Required, In("deleteCertificateStatus")>>),
       Opt(Ptr(Obj("statusInfo", <<OmitEmpty>>, StatusInfo)))>>)]

\* iso15118/get_15118ev_certificate.go
Get15118EVCertificate ==
  [name |-> "Get15118EVCertificate", registers |-> {"certificateAction"},
   request |-> Message("Get15118EVCertificateRequest", {"iso15118SchemaVersion", "action", "exiRequest"}, <<
       Str("iso15118SchemaVersion", <<Required, Max>>),
       Str("action", <<Required, In("certificateAction")>>), Str("exiRequest", <<Required, Max>>)>>),
   response |-> Message("Get15118EVCertificateResponse", {"status", "exiResponse"}, <<
       Str("status", <<Required, Certificate15118EVStatus>>),
       Str("exiResponse", <<Required, Max>>),
       Opt(Ptr(Obj("statusInfo", <<OmitEmpty>>, StatusInfo)))>>)]

\* iso15118/get_certificate_status.go
GetCertificateStatus ==
  [name |-> "GetCertificateStatus", registers |-> {},
   request |-> Message("GetCertificateStatusRequest", {"ocspRequestData"}, <<
       Obj("ocspRequestData", <<Required>>, OCSPRequestData)>>),
   response |-> Message("GetCertificateStatusResponse", {"status"}, <<
       Str("status", <<Required, GenericStatusType>>), Opt(Str("ocspResult", <<OmitEmpty, Max>>)),
       Opt(Ptr(Obj("statusInfo", <<OmitEmpty>>, StatusInfo)))>>)]

\* iso15118/get_installed_certificate_ids.go
GetInstalledCertificateIds ==
  [name |-> "GetInstalledCertificateIds", registers |-> {"getInstalledCertificateStatus"},
   request |-> Message("GetInstalledCertificateIdsRequest", {}, <<
       Arr("certificateType", <<OmitEmpty>>, <<Str("", <<CertificateUse>>)>>)>>),
   response |-> Message("GetInstalledCertificateIdsResponse", {"status"}, <<
       Str("status", <<Required, In("getInstalledCertificateStatus")>>),
       Opt(Ptr(Obj("statusInfo", <<OmitEmpty>>, StatusInfo))),
       Opt(Arr("certificateHashDataChain", <<OmitEmpty>>, CertificateHashDataChain))>>)]

\* iso15118/install_certificate.go
InstallCertificate ==
  [name |-> "InstallCertificate", registers |-> {"installCertificateStatus"},
   request |-> Message("InstallCertificateRequest", {"certificateType", "certificate"}, <<
       Str("certificateType", <<Required, CertificateUse>>), Str("certificate", <<Required, Max>>)>>),
   response |-> Message("InstallCertificateResponse", {"status"}, <<
       Str("status", <<Required, In("installCertificateStatus")>>),
       Opt(Ptr(Obj("statusInfo", <<OmitEmpty>>, StatusInfo)))>>)]

\* localauth/get_local_list_version.go
GetLocalListVersion ==
  [name |-> "GetLocalListVersion", registers |-> {},
   request |-> Message("GetLocalListVersionRequest", {}, <<>>),
   response |-> Message("GetLocalListVersionResponse", {"versionNumber"}, <<
       Int("versionNumber", <<AtLeast("gte")>>)>>)]

\* localauth/send_local_list.go
AuthorizationData == <<
    Opt(Ptr(Obj("idTokenInfo", <<OmitEmpty>>, IDTokenInfo))), Obj("idToken", <<>>, IDToken)>>

SendLocalList ==
  [name |-> "SendLocalList", registers |-> {"updateType201", "sendLocalListStatus"},
   request |-> Message("SendLocalListRequest", {"versionNumber", "updateType"}, <<
       Int("versionNumber", <<AtLeast("gte")>>),
       Str("updateType", <<Required, In("updateType201")>>),
       Opt(Arr("localAuthorizationList", <<OmitEmpty>>, AuthorizationData))>>),
   response |-> Message("SendLocalListResponse", {"status"}, <<
       Str("status", <<Required, In("sendLocalListStatus")>>),
       Opt(Ptr(Obj("statusInfo", <<OmitEmpty>>, StatusInfo)))>>)]

\* meter/meter_values.go
MeterValues ==
  [name |-> "MeterValues", registers |-> {},
   request |-> Message("MeterValuesRequest", {"evseId", "meterValue"}, <<
       Int("evseId", <<AtLeast("gte")>>), Arr("meterValue", <<Required, Min>>, MeterValue)>>),
   response |-> Message("MeterValuesResponse", {}, <<>>)]

\* provisioning/boot_notification.go
Modem == <<
    Opt(Ptr(Obj("customData", <<OmitEmpty>>, CustomData))), Opt(Str("iccid", <<OmitEmpty, Max>>)),
    Opt(Str("imsi", <<OmitEmpty, Max>>))>>

ChargingStation == <<
    Opt(Ptr(Obj("customData", <<OmitEmpty>>, CustomData))),
    Opt(Str("serialNumber", <<OmitEmpty, Max>>)), Str("model", <<Required, Max>>),
    Opt(Ptr(Obj("modem", <<OmitEmpty>>, Modem))), Str("vendorName", <<Required, Max>>),
    Opt(Str("firmwareVersion", <<OmitEmpty, Max>>))>>

BootNotification ==
  [name |-> "BootNotification", registers |-> {"bootReasonType201", "registrationStatusType201"},
   request |-> Message("BootNotificationRequest", {"chargingStation", "reason"}, <<
       Opt(Ptr(Obj("customData", <<OmitEmpty>>, CustomData))),
       Obj("chargingStation", <<Required>>, ChargingStation),
       Str("reason", <<Required, In("bootReasonType201")>>)>>),
   response |-> Message("BootNotificationResponse", {"currentTime", "interval", "status"}, <<
       Opt(Ptr(Obj("customData", <<OmitEmpty>>, CustomData))),
       Ptr(Time("currentTime", <<Required>>)), Int("interval", <<Required, AtLeast("gte")>>),
       Str("status", <<Required, In("registrationStatusType201")>>),
       Opt(Ptr(Obj("statusInfo", <<OmitEmpty>>, StatusInfo)))>>)]

\* provisioning/get_base_report.go
GetBaseReport ==
  [name |-> "GetBaseReport", registers |-> {"reportBaseType"},
   request |-> Message("GetBaseReportRequest", {"requestId", "reportBase"}, <<
       Int("requestId", <<>>), Str("reportBase", <<Required, In("reportBaseType")>>)>>),
   response |-> Message("GetBaseReportResponse", {"status"}, <<
       Str("status", <<Required, GenericDeviceModelStatusType>>),
       Opt(Ptr(Obj("statusInfo", <<OmitEmpty>>, StatusInfo)))>>)]

\* provisioning/get_report.go
GetReport ==
  [name |-> "GetReport", registers |-> {"componentCriterion"},
   request |-> Message("GetReportRequest", {}, <<
       Opt(Ptr(Int("requestId", <<OmitEmpty, AtLeast("gte")>>))),
       Opt(Arr("componentCriteria", <<OmitEmpty, Max>>, <<Str("", <<In("componentCriterion")>>)>>)),
       Opt(Arr("componentVariable", <<OmitEmpty>>, ComponentVariable))>>),
   response |-> Message("GetReportResponse", {"status"}, <<
       Str("status", <<Required, GenericDeviceModelStatusType>>)>>)]

\* provisioning/get_variables.go
GetVariableData == <<
    Opt(Str("attributeType", <<OmitEmpty, AttributeType>>)),
    Obj("component", <<Required>>, Component), Obj("variable", <<Required>>, Variable)>>

GetVariableResult == <<
    Str("attributeStatus", <<Required, In("getVariableStatus")>>),
    Opt(Str("attributeType", <<OmitEmpty, AttributeType>>)),
    Opt(Str("attributeValue", <<OmitEmpty, Max>>)), Obj("component", <<Required>>, Component),
    Obj("variable", <<Required>>, Variable)>>

GetVariables ==
  [name |-> "GetVariables", registers |-> {"getVariableStatus"},
   request |-> Message("GetVariablesRequest", {"getVariableData"}, <<
       Arr("getVariableData", <<Required, Min>>, GetVariableData)>>),
   response |-> Message("GetVariablesResponse", {"getVariableResult"}, <<
       Arr("getVariableResult", <<Required, Min>>, GetVariableResult)>>)]

\* provisioning/notify_report.go
VariableCharacteristics == <<
    Opt(Str("unit", <<Max>>)), Str("dataType", <<Required, In("dataTypeEnum")>>),
    Opt(Ptr(Num("minLimit", <<>>))), Opt(Ptr(Num("maxLimit", <<>>))),
    Opt(Str("valuesList", <<Max>>)), Bool("supportsMonitoring", <<>>)>>

VariableAttribute == <<
    Opt(Str("type", <<OmitEmpty, AttributeType>>)), Opt(Str("value", <<Max>>)),
    Opt(Str("mutability", <<OmitEmpty, In("mutability")>>)), Opt(Bool("persistent", <<>>)),
    Opt(Bool("constant", <<>>))>>

ReportData == <<
    Obj("component", <<Required>>, Component), Obj("variable", <<Required>>, Variable),
    Arr("variableAttribute", <<Required, Min, Max>>, VariableAttribute),
    Opt(Ptr(Obj("variableCharacteristics", <<OmitEmpty>>, VariableCharacteristics)))>>

NotifyReport ==
  [name |-> "NotifyReport", registers |-> {"mutability", "dataTypeEnum"},
   request |-> Message("NotifyReportRequest", {"requestId", "generatedAt", "seqNo"}, <<
       Int("requestId", <<AtLeast("gte")>>), Ptr(Time("generatedAt", <<Required>>)),
       Opt(Bool("tbc", <<OmitEmpty>>)), Int("seqNo", <<AtLeast("gte")>>),
       Opt(Arr("reportData", <<OmitEmpty>>, ReportData))>>),
   response |-> Message("NotifyReportResponse", {}, <<>>)]

\* provisioning/reset.go
Reset ==
  [name |-> "Reset", registers |-> {"resetType201", "resetStatus201"},
   request |-> Message("ResetRequest", {"type"}, <<
       Str("type", <<In("resetType201")>>), Opt(Ptr(Int("evseId", <<OmitEmpty, AtLeast("gte")>>)))>>),
   response |-> Message("ResetResponse", {"status"}, <<
       Str("status", <<Required, In("resetStatus201")>>),
       Ptr(Obj("statusInfo", <<OmitEmpty>>, StatusInfo))>>)]

\* provisioning/set_network_profile.go
VPN == <<
    Str("server", <<Required, Max>>), Str("user", <<Required, Max>>),
    Opt(Str("group", <<OmitEmpty, Max>>)), Str("password", <<Required, Max>>),
    Str("key", <<Required, Max>>), Str("type", <<Required, In("vpnType")>>)>>

APN == <<
    Str("apn", <<Required, Max>>), Opt(Str("apnUserName", <<OmitEmpty, Max>>)),
    Opt(Str("apnPassword", <<OmitEmpty, Max>>)),
    Opt(Ptr(Int("simPin", <<OmitEmpty, AtLeast("gte")>>))),
    Opt(Str("preferredNetwork", <<OmitEmpty, Max>>)), Opt(Bool("useOnlyPreferredNetwork", <<>>)),
    Str("apnAuthentication", <<Required, In("apnAuthentication")>>)>>

NetworkConnectionProfile == <<
    Str("ocppVersion", <<Required, In("ocppVersion")>>),
    Str("ocppTransport", <<Required, In("ocppTransport")>>),
    Str("ocppCsmsUrl", <<Required, Max>>), Int("messageTimeout", <<AtLeast("gte")>>),
    Int("securityProfile", <<>>), Str("ocppInterface", <<Required, In("ocppInterface")>>),
    Opt(Ptr(Obj("vpn", <<OmitEmpty>>, VPN))), Opt(Ptr(Obj("apn", <<OmitEmpty>>, APN)))>>

SetNetworkProfile ==
  [name |-> "SetNetworkProfile", registers |-> {"ocppVersion", "ocppTransport", "ocppInterface", "vpnType", "apnAuthentication", "setNetworkProfileStatus"},
   request |-> Message("SetNetworkProfileRequest", {"configurationSlot", "connectionData"}, <<
       Int("configurationSlot", <<AtLeast("gte")>>),
       Obj("connectionData", <<Required>>, NetworkConnectionProfile)>>),
   response |-> Message("SetNetworkProfileResponse", {"status"}, <<
       Str("status", <<Required, In("setNetworkProfileStatus")>>),
       Ptr(Obj("statusInfo", <<OmitEmpty>>, StatusInfo))>>)]

\* provisioning/set_variables.go
SetVariableData == <<
    Opt(Str("attributeType", <<OmitEmpty, AttributeType>>)),
    Str("attributeValue", <<Required, Max>>), Obj("component", <<Required>>, Component),
    Obj("variable", <<Required>>, Variable)>>

SetVariableResult == <<
    Opt(Str("attributeType", <<OmitEmpty, AttributeType>>)),
    Str("attributeStatus", <<Required, In("setVariableStatus")>>),
    Obj("component", <<Required>>, Component), Obj("variable", <<Required>>, Variable),
    Opt(Ptr(Obj("statusInfo", <<OmitEmpty>>, StatusInfo)))>>

SetVariables ==
  [name |-> "SetVariables", registers |-> {"setVariableStatus"},
   request |-> Message("SetVariablesRequest", {"setVariableData"}, <<
       Arr("setVariableData", <<Required, Min>>, SetVariableData)>>),
   response |-> Message("SetVariablesResponse", {"setVariableResult"}, <<
       Arr("setVariableResult", <<Required, Min>>, SetVariableResult)>>)]

\* remotecontrol/request_start_transaction.go
RequestStartTransaction ==
  [name |-> "RequestStartTransaction", registers |-> {"requestStartStopStatus"},
   request |-> Message("RequestStartTransactionRequest", {"remoteStartId", "idToken"}, <<
       Opt(Ptr(Int("evseId", <<OmitEmpty, Gt>>))), Int("remoteStartId", <<AtLeast("gte")>>),
       Obj("idToken", <<>>, IDToken), Opt(Ptr(Obj("chargingProfile", <<>>, ChargingProfile))),
       Opt(Ptr(Obj("groupIdToken", <<OmitEmpty>>, IDToken)))>>),
   response |-> Message("RequestStartTransactionResponse", {"status"}, <<
       Str("status", <<Required, In("requestStartStopStatus")>>),
       Opt(Str("transactionId", <<Max>>)), Opt(Ptr(Obj("statusInfo", <<>>, StatusInfo)))>>)]

\* remotecontrol/request_stop_transaction.go
RequestStopTransaction ==
  [name |-> "RequestStopTransaction", registers |-> {},
   request |-> Message("RequestStopTransactionRequest", {"transactionId"}, <<
       Str("transactionId", <<Required, Max>>)>>),
   response |-> Message("RequestStopTransactionResponse", {"status"}, <<
       Str("status", <<Required, In("requestStartStopStatus")>>),
       Opt(Ptr(Obj("statusInfo", <<>>, StatusInfo)))>>)]

\* remotecontrol/trigger_message.go
TriggerMessage ==
  [name |-> "TriggerMessage", registers |-> {"messageTrigger201", "triggerMessageStatus201"},
   request |-> Message("TriggerMessageRequest", {"requestedMessage"}, <<
       Str("requestedMessage", <<Required, In("messageTrigger201")>>),
       Opt(Ptr(Obj("evse", <<OmitEmpty>>, EVSE)))>>),
   response |-> Message("TriggerMessageResponse", {"status"}, <<
       Str("status", <<Required, In("triggerMessageStatus201")>>),
       Opt(Ptr(Obj("statusInfo", <<>>, StatusInfo)))>>)]

\* remotecontrol/unlock_connector.go
UnlockConnector ==
  [name |-> "UnlockConnector", registers |-> {"unlockStatus201"},
   request |-> Message("UnlockConnectorRequest", {"evseId", "connectorId"}, <<
       Int("evseId", <<AtLeast("gte")>>), Int("connectorId", <<AtLeast("gte")>>)>>),
   response |-> Message("UnlockConnectorResponse", {"status"}, <<
       Str("status", <<Required, In("unlockStatus201")>>),
       Opt(Ptr(Obj("statusInfo", <<>>, StatusInfo)))>>)]

\* reservation/cancel_reservation.go
CancelReservation ==
  [name |-> "CancelReservation", registers |-> {"cancelReservationStatus201"},
   request |-> Message("CancelReservationRequest", {"reservationId"}, <<
       Int("reservationId", <<AtLeast("gte")>>)>>),
   response |-> Message("CancelReservationResponse", {"status"}, <<
       Str("status", <<Required, In("cancelReservationStatus201")>>),
       Opt(Ptr(Obj("statusInfo", <<OmitEmpty>>, StatusInfo)))>>)]

\* reservation/reservation_status_update.go
ReservationStatusUpdate ==
  [name |-> "ReservationStatusUpdate", registers |-> {"reservationUpdateStatus"},
   request |-> Message("ReservationStatusUpdateRequest", {"reservationId", "reservationUpdateStatus"}, <<
       Int("reservationId", <<AtLeast("gte")>>),
       Str("reservationUpdateStatus", <<Required, In("reservationUpdateStatus")>>)>>),
   response |-> Message("ReservationStatusUpdateResponse", {}, <<>>)]

\* reservation/reserve_now.go
ReserveNow ==
  [name |-> "ReserveNow", registers |-> {"reserveNowStatus", "connectorType"},
   request |-> Message("ReserveNowRequest", {"id", "expiryDateTime", "idToken"}, <<
       Int("id", <<AtLeast("gte")>>), Ptr(Time("expiryDateTime", <<Required>>)),
       Opt(Str("connectorType", <<OmitEmpty, In("connectorType")>>)),
       Opt(Ptr(Int("evseId", <<OmitEmpty, AtLeast("gte")>>))),
       Obj("idToken", <<Required>>, IDToken),
       Opt(Ptr(Obj("groupIdToken", <<OmitEmpty>>, IDToken)))>>),
   response |-> Message("ReserveNowResponse", {"status"}, <<
       Str("status", <<Required, In("reserveNowStatus")>>),
       Opt(Ptr(Obj("statusInfo", <<OmitEmpty>>, StatusInfo)))>>)]

\* security/certificate_signed.go
CertificateSigned ==
  [name |-> "CertificateSigned", registers |-> {"certificateSignedStatus"},
   request |-> Message("CertificateSignedRequest", {"certificateChain"}, <<
       Str("certificateChain", <<Required, Max>>),
       Opt(Str("certificateType", <<OmitEmpty, CertificateSigningUseType>>))>>),
   response |-> Message("CertificateSignedResponse", {"status"}, <<
       Str("status", <<Required, In("certificateSignedStatus")>>),
       Opt(Ptr(Obj("statusInfo", <<OmitEmpty>>, StatusInfo)))>>)]

\* security/security_event_notification.go
SecurityEventNotification ==
  [name |-> "SecurityEventNotification", registers |-> {},
   request |-> Message("SecurityEventNotificationRequest", {"type", "timestamp"}, <<
       Str("type", <<Required, Max>>), Ptr(Time("timestamp", <<Required>>)),
       Opt(Str("techInfo", <<OmitEmpty, Max>>))>>),
   response |-> Message("SecurityEventNotificationResponse", {}, <<>>)]

\* security/sign_certificate.go
SignCertificate ==
  [name |-> "SignCertificate", registers |-> {},
   request |-> Message("SignCertificateRequest", {"csr"}, <<
       Str("csr", <<Required, Max>>),
       Opt(Str("certificateType", <<OmitEmpty, CertificateSigningUseType>>))>>),
   response |-> Message("SignCertificateResponse", {"status"}, <<
       Str("status", <<Required, GenericStatusType>>),
       Opt(Ptr(Obj("statusInfo", <<OmitEmpty>>, StatusInfo)))>>)]

\* smartcharging/clear_charging_profile.go
ClearChargingProfileType == <<
    Opt(Ptr(Int("evseId", <<OmitEmpty, AtLeast("gte")>>))),
    Opt(Str("chargingProfilePurpose", <<OmitEmpty, ChargingProfilePurposeType>>)),
    Opt(Ptr(Int("stackLevel", <<OmitEmpty, Gt>>)))>>

ClearChargingProfile ==
  [name |-> "ClearChargingProfile", registers |-> {"clearChargingProfileStatus201"},
   request |-> Message("ClearChargingProfileRequest", {}, <<
       Opt(Ptr(Int("chargingProfileId", <<OmitEmpty>>))),
       Opt(Ptr(Obj("chargingProfileCriteria", <<OmitEmpty>>, ClearChargingProfileType)))>>),
   response |-> Message("ClearChargingProfileResponse", {"status"}, <<
       Str("status", <<Required, In("clearChargingProfileStatus201")>>),
       Opt(Ptr(Obj("statusInfo", <<OmitEmpty>>, StatusInfo)))>>)]

\* smartcharging/cleared_charging_limit.go
ClearedChargingLimit ==
  [name |-> "ClearedChargingLimit", registers |-> {},
   request |-> Message("ClearedChargingLimitRequest", {"chargingLimitSource"}, <<
       Str("chargingLimitSource", <<Required, ChargingLimitSourceType>>),
       Opt(Ptr(Int("evseId", <<OmitEmpty, AtLeast("gte")>>)))>>),
   response |-> Message("ClearedChargingLimitResponse", {}, <<>>)]

\* smartcharging/get_charging_profiles.go
ChargingProfileCriterion == <<
    Opt(Str("chargingProfilePurpose", <<OmitEmpty, ChargingProfilePurposeType>>)),
    Opt(Ptr(Int("stackLevel", <<OmitEmpty, AtLeast("gte")>>))),
    Opt(Unchecked("chargingProfileId", <<OmitEmpty>>, <<Int("", <<>>)>>)),
    Opt(Arr("chargingLimitSource", <<OmitEmpty, Max>>, <<Str("", <<ChargingLimitSourceType>>)>>))>>

GetChargingProfiles ==
  [name |-> "GetChargingProfiles", registers |-> {"getChargingProfileStatus"},
   request |-> Message("GetChargingProfilesRequest", {"chargingProfile"}, <<
       Int("requestId", <<>>), Opt(Ptr(Int("evseId", <<OmitEmpty, AtLeast("gte")>>))),
       Obj("chargingProfile", <<Required>>, ChargingProfileCriterion)>>),
   response |-> Message("GetChargingProfilesResponse", {"status"}, <<
       Str("status", <<Required, In("getChargingProfileStatus")>>),
       Opt(Ptr(Obj("statusInfo", <<OmitEmpty>>, StatusInfo)))>>)]

\* smartcharging/get_composite_schedule.go
CompositeSchedule == <<
    Opt(Ptr(Time("startDateTime", <<OmitEmpty>>))),
    Opt(Ptr(Obj("chargingSchedule", <<OmitEmpty>>, ChargingSchedule)))>>

GetCompositeSchedule ==
  [name |-> "GetCompositeSchedule", registers |-> {"getCompositeScheduleStatus"},
   request |-> Message("GetCompositeScheduleRequest", {"duration", "evseId"}, <<
       Int("duration", <<AtLeast("gte")>>),
       Opt(Str("chargingRateUnit", <<OmitEmpty, ChargingRateUnitType>>)),
       Int("evseId", <<AtLeast("gte")>>)>>),
   response |-> Message("GetCompositeScheduleResponse", {"status"}, <<
       Str("status", <<Required, In("getCompositeScheduleStatus")>>),
       Opt(Ptr(Obj("statusInfo", <<OmitEmpty>>, StatusInfo))),
       Opt(Ptr(Obj("schedule", <<OmitEmpty>>, CompositeSchedule)))>>)]

\* smartcharging/notify_charging_limit.go
ChargingLimit == <<
    Str("chargingLimitSource", <<Required, ChargingLimitSourceType>>),
    Opt(Ptr(Bool("isGridCritical", <<OmitEmpty>>)))>>

NotifyChargingLimit ==
  [name |-> "NotifyChargingLimit", registers |-> {},
   request |-> Message("NotifyChargingLimitRequest", {"chargingLimit"}, <<
       Opt(Ptr(Int("evseId", <<OmitEmpty, AtLeast("gte")>>))),
       Obj("chargingLimit", <<Required>>, ChargingLimit),
       Opt(Arr("chargingSchedule", <<OmitEmpty>>, ChargingSchedule))>>),
   response |-> Message("NotifyChargingLimitResponse", {}, <<>>)]

\* smartcharging/notify_ev_charging_needs.go
ACChargingParameters == <<
    Int("energyAmount", <<AtLeast("gte")>>), Int("evMinCurrent", <<AtLeast("gte")>>),
    Int("evMaxCurrent", <<AtLeast("gte")>>), Int("evMaxVoltage", <<AtLeast("gte")>>)>>

DCChargingParameters == <<
    Int("evMaxCurrent", <<AtLeast("gte")>>), Int("evMaxVoltage", <<AtLeast("gte")>>),
    Opt(Ptr(Int("energyAmount", <<OmitEmpty, AtLeast("gte")>>))),
    Opt(Ptr(Int("evMaxPower", <<OmitEmpty, AtLeast("gte")>>))),
    Opt(Ptr(Int("stateOfCharge", <<OmitEmpty, AtLeast("gte"), Lte>>))),
    Opt(Ptr(Int("evEnergyCapacity", <<OmitEmpty, AtLeast("gte")>>))),
    Opt(Ptr(Int("fullSoC", <<OmitEmpty, AtLeast("gte"), Lte>>))),
    Opt(Ptr(Int("bulkSoC", <<OmitEmpty, AtLeast("gte"), Lte>>)))>>

ChargingNeeds == <<
    Str("requestedEnergyTransfer", <<Required, In("energyTransferMode")>>),
    Opt(Ptr(Time("departureTime", <<OmitEmpty>>))),
    Opt(Ptr(Obj("acChargingParameters", <<OmitEmpty>>, ACChargingParameters))),
    Opt(Ptr(Obj("dcChargingParameters", <<OmitEmpty>>, DCChargingParameters)))>>

NotifyEVChargingNeeds ==
  [name |-> "NotifyEVChargingNeeds", registers |-> {"energyTransferMode", "evChargingNeedsStatus"},
   request |-> Message("NotifyEVChargingNeedsRequest", {"evseId", "chargingNeeds"}, <<
       Opt(Ptr(Int("maxScheduleTuples", <<OmitEmpty, AtLeast("gte")>>))), Int("evseId", <<Gt>>),
       Obj("chargingNeeds", <<Required>>, ChargingNeeds)>>),
   response |-> Message("NotifyEVChargingNeedsResponse", {"status"}, <<
       Str("status", <<Required, In("evChargingNeedsStatus")>>),
       Opt(Ptr(Obj("statusInfo", <<OmitEmpty>>, StatusInfo)))>>)]

\* smartcharging/notify_ev_charging_schedule.go
NotifyEVChargingSchedule ==
  [name |-> "NotifyEVChargingSchedule", registers |-> {},
   request |-> Message("NotifyEVChargingScheduleRequest", {"timeBase", "evseId", "chargingSchedule"}, <<
       Ptr(Time("timeBase", <<Required>>)), Int("evseId", <<Gt>>),
       Obj("chargingSchedule", <<Required>>, ChargingSchedule)>>),
   response |-> Message("NotifyEVChargingScheduleResponse", {"status"}, <<
       Str("status", <<Required, GenericStatusType>>),
       Opt(Ptr(Obj("statusInfo", <<OmitEmpty>>, StatusInfo)))>>)]

\* smartcharging/report_charging_profiles.go
ReportChargingProfiles ==
  [name |-> "ReportChargingProfiles", registers |-> {},
   request |-> Message("ReportChargingProfilesRequest", {"requestId", "chargingLimitSource", "evseId", "chargingProfile"}, <<
       Int("requestId", <<AtLeast("gte")>>),
       Str("chargingLimitSource", <<Required, ChargingLimitSourceType>>),
       Opt(Bool("tbc", <<OmitEmpty>>)), Int("evseId", <<AtLeast("gte")>>),
       Arr("chargingProfile", <<Required, Min>>, ChargingProfile)>>),
   response |-> Message("ReportChargingProfilesResponse", {}, <<>>)]

\* smartcharging/set_charging_profile.go
SetChargingProfile ==
  [name |-> "SetChargingProfile", registers |-> {"chargingProfileStatusType201"},
   request |-> Message("SetChargingProfileRequest", {"evseId", "chargingProfile"}, <<
       Opt(Ptr(Obj("customData", <<OmitEmpty>>, CustomData))), Int("evseId", <<Required>>),
       Obj("chargingProfile", <<Required>>, ChargingProfile)>>),
   response |-> Message("SetChargingProfileResponse", {"status"}, <<
       Opt(Ptr(Obj("customData", <<OmitEmpty>>, CustomData))),
       Str("status", <<Required, In("chargingProfileStatusType201")>>),
       Opt(Ptr(Obj("statusInfo", <<OmitEmpty>>, StatusInfo)))>>)]

\* tariffcost/cost_updated.go
CostUpdated ==
  [name |-> "CostUpdated", registers |-> {},
   request |-> Message("CostUpdatedRequest", {"totalCost", "transactionId"}, <<
       Num("totalCost", <<Required>>), Str("transactionId", <<Required, Max>>)>>),
   response |-> Message("CostUpdatedResponse", {}, <<>>)]

\* transactions/get_transaction_status.go
GetTransactionStatus ==
  [name |-> "GetTransactionStatus", registers |-> {},
   request |-> Message("GetTransactionStatusRequest", {}, <<
       Opt(Str("transactionId", <<OmitEmpty, Max>>))>>),
   response |-> Message("GetTransactionStatusResponse", {"messagesInQueue"}, <<
       Opt(Ptr(Bool("ongoingIndicator", <<OmitEmpty>>))), Bool("messagesInQueue", <<>>)>>)]

\* transactions/transaction_event.go
Transaction == <<
    Opt(Ptr(Obj("customData", <<OmitEmpty>>, CustomData))),
    Str("transactionId", <<Required, Max>>),
    Opt(Str("chargingState", <<OmitEmpty, In("chargingStateType201")>>)),
    Opt(Ptr(Int("timeSpentCharging", <<OmitEmpty>>))),
    Opt(Str("stoppedReason", <<OmitEmpty, In("reasonType201")>>)),
    Opt(Ptr(Int("remoteStartId", <<OmitEmpty>>)))>>

TransactionEvent ==
  [name |-> "TransactionEvent", registers |-> {"chargingStateType201", "reasonType201", "transactionEventType201", "triggerReasonType201"},
   request |-> Message("TransactionEventRequest", {"eventType", "timestamp", "triggerReason", "seqNo", "transactionInfo"}, <<
       Opt(Ptr(Obj("customData", <<OmitEmpty>>, CustomData))),
       Str("eventType", <<Required, In("transactionEventType201")>>),
       Opt(Arr("meterValue", <<OmitEmpty, Min>>, MeterValue)),
       Ptr(Time("timestamp", <<Required>>)),
       Str("triggerReason", <<Required, In("triggerReasonType201")>>), Int("seqNo", <<Required>>),
       Opt(Ptr(Bool("offline", <<OmitEmpty>>))),
       Opt(Ptr(Int("numberOfPhasesUsed", <<OmitEmpty>>))),
       Opt(Ptr(Int("cableMaxCurrent", <<OmitEmpty>>))),
       Opt(Ptr(Int("reservationId", <<OmitEmpty>>))),
       Obj("transactionInfo", <<Required>>, Transaction),
       Opt(Ptr(Obj("evse", <<OmitEmpty>>, EVSE))),
       Opt(Ptr(Obj("idToken", <<OmitEmpty>>, IDToken)))>>),
   response |-> Message("TransactionEventResponse", {}, <<
       Opt(Ptr(Obj("customData", <<OmitEmpty>>, CustomData))),
       Opt(Ptr(Num("totalCost", <<OmitEmpty>>))),
       Opt(Ptr(Int("chargingPriority", <<OmitEmpty>>))),
       Opt(Ptr(Obj("idTokenInfo", <<OmitEmpty>>, IDTokenInfo))),
       Opt(Ptr(Obj("updatedPersonalMessage", <<OmitEmpty>>, MessageContent)))>>)]

Features ==
    {Authorize, ClearCache, ChangeAvailability, Heartbeat, StatusNotification, DataTransfer,
     ClearVariableMonitoring, CustomerInformation, GetLog, GetMonitoringReport,
     LogStatusNotification, NotifyCustomerInformation, NotifyEvent, NotifyMonitoringReport,
     SetMonitoringBase, SetMonitoringLevel, SetVariableMonitoring, ClearDisplayMessage,
     GetDisplayMessages, NotifyDisplayMessages, SetDisplayMessage, FirmwareStatusNotification,
     PublishFirmware, PublishFirmwareStatusNotification, UnpublishFirmware, UpdateFirmware,
     DeleteCertificate, Get15118EVCertificate, GetCertificateStatus, GetInstalledCertificateIds,
     InstallCertificate, GetLocalListVersion, SendLocalList, MeterValues, BootNotification,
     GetBaseReport, GetReport, GetVariables, NotifyReport, Reset, SetNetworkProfile, SetVariables,
     RequestStartTransaction, RequestStopTransaction, TriggerMessage, UnlockConnector,
     CancelReservation, ReservationStatusUpdate, ReserveNow, CertificateSigned,
     SecurityEventNotification, SignCertificate, ClearChargingProfile, ClearedChargingLimit,
     GetChargingProfiles, GetCompositeSchedule, NotifyChargingLimit, NotifyEVChargingNeeds,
     NotifyEVChargingSchedule, ReportChargingProfiles, SetChargingProfile, CostUpdated,
     GetTransactionStatus, TransactionEvent}

\* Every tag some init function has registered when an endpoint of this version runs.
Registered ==
    TypeTags \cup DiagnosticsTags \cup DisplayTags \cup UNION {f.registers : f \in Features}

==============================================================================

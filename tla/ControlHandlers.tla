--------------------------- MODULE ControlHandlers ---------------------------
(***************************************************************************)
(* The handlers of ChtP2PCameraControlHandler as operators: what a handler *)
(* makes of a request and the parameters it reads.  A request is a record  *)
(* of the fields the handler asks for; a field is a JSON value whose type  *)
(* matters, because GetStringMember and GetIntMember throw on any other.   *)
(* Every throw ends in the same error response, so a handler's outcome is  *)
(* a plan: whether it goes on at all, whether it calls the system service  *)
(* and with which values, and the parameters it then sets, in order.       *)
(***************************************************************************)
EXTENDS Integers, Sequences, FiniteSets

CONSTANT StringSize   \* ZWSYSTEM_IPC_STRING_SIZE, 256 in the code

ASSUME StringSizeAssumption == StringSize \in Nat \ {0}

-----------------------------------------------------------------------------
(* JSON fields *)

Str(v)   == [json |-> "string", val |-> v]
Loose(n) == [json |-> "loose", val |-> n]   \* a string: number n, then other text
Num(n)   == [json |-> "int", val |-> n]
Bool(b)  == [json |-> "bool", val |-> b]
List(s)  == [json |-> "list", val |-> s]    \* a string: numbers and commas
Missing  == [json |-> "none", val |-> 0]    \* absent, or of any other type
Word     == Str(-1000)                      \* a string that is not a number

GetStringMember(f) == f.json \in {"string", "loose", "list"}
GetIntMember(f)    == f.json = "int"

StringIn(f, S) == f.json = "string" /\ f.val \in S
IntIn(f, S)    == GetIntMember(f) /\ f.val \in S

\* std::stoi reads the number a string begins with.
jsonStr2int(f)    == GetStringMember(f) /\ f # Word
NumberIn(f, S)    == jsonStr2int(f) /\ f.val \in S

-----------------------------------------------------------------------------
(* UTF-8, byte by byte *)

Bytes == 0..255

Byte(s, i, k) == s[i + k] % 64
Tail10(s, i, k) == s[i + k] \div 64 = 2

\* How long a sequence its first byte c announces, 0 if none begins with c.
Utf8Need(c) ==
  IF c < 128 THEN 1 ELSE IF c \div 32 = 6 THEN 2
  ELSE IF c \div 16 = 14 THEN 3 ELSE IF c \div 8 = 30 THEN 4 ELSE 0

\* The number that need bytes from byte i on encode.
Utf8Value(s, i, need) ==
  CASE need = 2 -> (s[i] % 32) * 64 + Byte(s, i, 1)
    [] need = 3 -> (s[i] % 16) * 4096 + Byte(s, i, 1) * 64 + Byte(s, i, 2)
    [] need = 4 -> (s[i] % 8) * 262144 + Byte(s, i, 1) * 4096
                   + Byte(s, i, 2) * 64 + Byte(s, i, 3)
    [] OTHER    -> s[i]

\* s_osd_render_utf8_next at byte i: the length of the sequence there, 0 if it
\* is not valid.
Utf8Next(s, i) ==
  LET need == Utf8Need(s[i])
      v    == Utf8Value(s, i, need)
      valid == /\ need > 0 /\ i + need - 1 <= Len(s)
               /\ \A k \in 1..need - 1 : Tail10(s, i, k)
               /\ need = 2 => v >= 128
               /\ need = 3 => v >= 2048 /\ (v < 55296 \/ v > 57343)
               /\ need = 4 => v >= 65536 /\ v <= 1114111
  IN IF valid THEN need ELSE 0

\* Mutant of IsValidUtf8: overlong and surrogate encodings pass.
IsValidUtf8Lax(s) == \A i \in 1..Len(s) : s[i] < 248

\* is_valid_utf8: whether the loop over s ends at its end; from[i] tells it of
\* the loop that starts at byte i.
IsValidUtf8(s) ==
  LET from[i \in 1..Len(s) + 5] ==
        IF i > Len(s) THEN TRUE
        ELSE Utf8Next(s, i) > 0 /\ from[i + Utf8Next(s, i)]
  IN from[1]

Text(f) == GetStringMember(f) /\ Len(f.val) < StringSize /\ IsValidUtf8(f.val)
Name(f) == Text(f) /\ f.val # <<>>

-----------------------------------------------------------------------------
(* Plans *)

Reject == [ok |-> FALSE, call |-> FALSE, wire |-> <<>>, todo |-> <<>>]

\* Validated, given to the system service, and no more.
Relay(valid, wire) ==
  IF valid THEN [ok |-> TRUE, call |-> TRUE, wire |-> wire, todo |-> <<>>] ELSE Reject

\* Validated and stored; the system service is not told.
Store(valid, todo) ==
  IF valid THEN [ok |-> TRUE, call |-> FALSE, wire |-> <<>>, todo |-> todo] ELSE Reject

RelayAndStore(valid, wire, todo) ==
  IF valid THEN [ok |-> TRUE, call |-> TRUE, wire |-> wire, todo |-> todo] ELSE Reject

Switch(f) == Relay(StringIn(f, 0..1), <<f.val>>)

-----------------------------------------------------------------------------
(* Time zones *)

NoTimezone == -1          \* the empty string
DefaultTimezoneId == 51   \* Taipei

TimezoneMap ==
  [id \in 0..24 \cup {50, 51} |->
     IF id = 50 THEN "PST8" ELSE IF id = 51 THEN "CST-8" ELSE
     <<"WAT-1", "GMT0", "CET-1", "EET-2", "MSK-3", "GST-4", "PKT-5", "BDT-6", "ICT-7",
       "CST-8", "JST-9", "AEST-10", "NCT-11", "NZST-12", "SST11", "HST10", "AKST9",
       "PST8", "MST7", "CST6", "EST5", "AST4", "BRT3", "MAT2", "AZOT1">>[id + 1]]

ZoneStrings == {TimezoneMap[id] : id \in DOMAIN TimezoneMap}

SetsTimeZone(id) ==
  RelayAndStore(TRUE, <<TimezoneMap[id]>>, << <<"timeZone", id>> >>)

HandleSetTimeZone(r) ==
  IF StringIn(r.tId, DOMAIN TimezoneMap) THEN SetsTimeZone(r.tId.val) ELSE Reject

HandleGetTimeZone(r, mem) ==
  IF mem.timeZone = NoTimezone THEN SetsTimeZone(DefaultTimezoneId) ELSE Store(TRUE, <<>>)

-----------------------------------------------------------------------------
(* The camera and its binding *)

\* netNo is read from the member tenantId.
HandleGetCamStatusById(r, mem) ==
  Relay(/\ GetStringMember(r.tenantId) /\ GetIntMember(r.camSid) /\ GetStringMember(r.userId)
        /\ r.tenantId.val = mem.tenantId /\ r.tenantId.val = mem.netNo
        /\ r.userId.val = mem.userId, <<>>)

\* The parameters cleared are the ones this model keeps; camSid, vsDomain,
\* vsToken and publicIp go the same way (see Binding).
HandleDeleteCameraInfo(r) ==
  RelayAndStore(TRUE, <<>>,
    << <<"tenantId", "">>, <<"userId", "">>, <<"netNo", "">>, <<"isCheckHioss", FALSE>>,
       <<"HiOssStatus", FALSE>>, <<"timeZone", DefaultTimezoneId>> >>)

HandleGetHamiCamBindList(r) == Relay(TRUE, <<>>)

HandleUpdateCameraName(r) == Relay(Name(r.name), <<r.name.val>>)

HandleSetCameraOSD(r) == Relay(Text(r.osdRule), <<r.osdRule.val>>)

-----------------------------------------------------------------------------
(* Image and sound *)

\* <UDP/Relay>_<kind>_<userId>_<token>; the model keeps the kind.
IsValidRequestId(f, kind) == StringIn(f, {kind})

HandleSetCameraHD(r) ==
  Store(IsValidRequestId(r.requestId, "live") /\ StringIn(r.isHd, 0..1),
        << <<"requestId", r.requestId.val>>, <<"isHd", r.isHd.val>> >>)

HandleSetImageQuality(r) ==
  Store(IsValidRequestId(r.requestId, "live") /\ StringIn(r.imageQuality, 0..2),
        << <<"requestId", r.requestId.val>>, <<"imageQuality", r.imageQuality.val>> >>)

HandleSetFlicker(r) == Relay(StringIn(r.flicker, 0..2), <<r.flicker.val>>)

\* Mutant of HandleSetMicrophone: an upper bound is missing.
HandleSetMicrophoneUnbounded(r) ==
  Relay(jsonStr2int(r.microphoneSensitivity) /\ r.microphoneSensitivity.val >= 0,
        <<r.microphoneSensitivity.val>>)

HandleSetMicrophone(r) ==
  Relay(NumberIn(r.microphoneSensitivity, 0..10), <<r.microphoneSensitivity.val>>)

HandleSetNightMode(r) == Switch(r.nightMode)

HandleSetAutoNightVision(r) == Switch(r.autoNightVision)

HandleSetSpeak(r) == Relay(NumberIn(r.speakVolume, 0..10), <<r.speakVolume.val>>)

HandleSetFlipUpDown(r) == Switch(r.isFlipUpDown)

HandleSetLED(r) == Switch(r.statusIndicatorLight)

HandleSetCameraPower(r) == Switch(r.camera)

-----------------------------------------------------------------------------
(* The device and its storage *)

HandleGetSnapshotHamiCamDevice(r) == Relay(GetStringMember(r.eventId), <<>>)

HandleRestartHamiCamDevice(r) == Relay(TRUE, <<>>)

HandleSetCamStorageDay(r) == Relay(NumberIn(r.storageDay, 0..365), <<r.storageDay.val>>)

HandleSetCamEventStorageDay(r) ==
  Relay(NumberIn(r.eventStorageDay, 0..365), <<r.eventStorageDay.val>>)

HandleHamiCamFormatSDCard(r) == Relay(TRUE, <<>>)

\* validateFirmwareFile: it exists, is a regular file of 1 KB or more, readable.
ValidateFirmwareFile(path) == path = "firmware"

HandleUpgradeHamiCamOTA(r) ==
  Relay(/\ GetStringMember(r.upgradeMode) /\ GetStringMember(r.filePath)
        /\ r.filePath.val \notin {"empty", "long"} /\ ValidateFirmwareFile(r.filePath.val)
        /\ StringIn(r.upgradeMode, 0..1), <<r.upgradeMode.val>>)

-----------------------------------------------------------------------------
(* Pan, tilt, zoom *)

MoveCmds == {"left", "right", "up", "down", "stop", "pan"}

HandleHamiCamPtzControlMove(r) == Relay(StringIn(r.cmd, MoveCmds), <<r.cmd.val>>)

HandleHamiCamPtzControlConfigSpeed(r) == Relay(IntIn(r.speed, 0..2), <<r.speed.val>>)

HandleHamiCamGetPtzControl(r) == Relay(TRUE, <<>>)

\* Numbers separated by commas, as the pattern asks; the preset points it names
\* are not looked at.  The model keeps the numbers; other texts are a Word.
IsValidIndexSequence(f) == f.json = "list" /\ f.val # <<>> /\ Len(f.val) < StringSize

HandleHamiCamPtzControlTourGo(r) ==
  Relay(IsValidIndexSequence(r.indexSequence), r.indexSequence.val)

HandleHamiCamPtzControlGoPst(r) == Relay(IntIn(r.index, 1..4), <<r.index.val>>)

HandleHamiCamPtzControlConfigPst(r) ==
  Relay(IntIn(r.index, 1..4) /\ StringIn(r.remove, 0..1) /\ Name(r.positionName),
        <<r.index.val, r.remove.val, r.positionName.val>>)

HandleHamiCamHumanTracking(r) == Relay(IntIn(r.val, 0..2), <<r.val.val>>)

HandleHamiCamPetTracking(r) == Relay(IntIn(r.val, 0..2), <<r.val.val>>)

-----------------------------------------------------------------------------
(* AI settings: one key stands for all keys of its kind *)

AiKeys == {"alert", "sen", "fencePos", "fenceDir", "features", "fallTime"}

ParseAlert(f) == f.json = "bool" \/ IntIn(f, 0..1) \/ StringIn(f, 0..2)
ParseSen(f)   == IntIn(f, 0..2) \/ StringIn(f, 0..2)
\* Both coordinates, both at least 0: the model keeps the smaller one.
ParseFencePos(f) == GetIntMember(f) /\ f.val >= 0
ParseFenceDir(f) == StringIn(f, 0..1)
\* Every record complete, its id an int of at least 0, its level 1 or 2: the
\* model keeps the level.
ParseFeature(f)  == IntIn(f, 1..2)

\* Keys without a rule, fallTime among them, are passed over.
AiParsed == {"alert", "sen", "fencePos", "fenceDir", "features"}
AiValid(k, f) ==
  CASE k = "alert" -> ParseAlert(f) [] k = "sen" -> ParseSen(f)
    [] k = "fencePos" -> ParseFencePos(f) [] k = "fenceDir" -> ParseFenceDir(f)
    [] k = "features" -> ParseFeature(f) [] OTHER -> TRUE

\* An alert given as "2" is on; parseAlert stores a bool.
AiConvert(k, f) ==
  IF k = "alert" THEN (IF f.json = "bool" THEN f.val ELSE f.val # 0) ELSE f.val

\* updateBit and the fields it announces, or a failure.
ParseJson2AiSettingStruct(obj) ==
  Relay(\A k \in DOMAIN obj : AiValid(k, obj[k]),
        <<[k \in DOMAIN obj \cap AiParsed |-> AiConvert(k, obj[k])]>>)

HandleUpdateCameraAISetting(r) == ParseJson2AiSettingStruct(r.hamiAiSettings)

HandleGetCameraAISetting(r) == Relay(TRUE, <<>>)

-----------------------------------------------------------------------------
(* Streams *)

FrameTypes == {"rtp", "raw"}

HandleGetVideoLiveStream(r) ==
  Relay(/\ IsValidRequestId(r.requestId, "live") /\ StringIn(r.frameType, FrameTypes)
        /\ StringIn(r.imageQuality, 0..2), <<r.imageQuality.val, r.frameType.val>>)

HandleStopVideoLiveStream(r) == Relay(IsValidRequestId(r.requestId, "live"), <<>>)

HandleGetVideoHistoryStream(r) ==
  Relay(/\ IsValidRequestId(r.requestId, "history") /\ StringIn(r.frameType, FrameTypes)
        /\ GetIntMember(r.startTime), <<r.frameType.val, r.startTime.val>>)

HandleStopVideoHistoryStream(r) == Relay(IsValidRequestId(r.requestId, "history"), <<>>)

\* The codec is read from the member code.
AudioFields(r) ==
  /\ GetIntMember(r.code) /\ GetIntMember(r.bitRate) /\ GetIntMember(r.sampleRate)
  /\ GetStringMember(r.sdp) /\ IsValidRequestId(r.requestId, "audio")

HandleSendAudioStream(r) ==
  Relay(/\ AudioFields(r) /\ r.bitRate.val >= 0 /\ r.sampleRate.val >= 0
        /\ Len(r.sdp.val) < StringSize /\ r.code.val \in 11..13, <<r.code.val, r.bitRate.val, r.sampleRate.val>>)

HandleStopAudioStream(r) == Relay(AudioFields(r), <<>>)

=============================================================================

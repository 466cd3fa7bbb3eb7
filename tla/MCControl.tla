------------------------------ MODULE MCControl ------------------------------
(* Controls at the edges of what each handler accepts. *)
EXTENDS Control, TLC

Field(type, key, vals) == {[type |-> type, cam |-> TRUE] @@ (key :> v) : v \in vals}
Plain(types) == {[type |-> t, cam |-> TRUE] : t \in types}

Digits(lo, hi) == {Str(lo), Str(hi + 1), Num(lo)}
Numbers(lo, hi) == {Str(lo - 1), Str(hi), Loose(hi), Loose(hi + 1), Num(lo), Word}
Ints(lo, hi) == {Num(lo - 1), Num(hi), Num(hi + 1), Str(lo)}

\* One to four bytes around the borders of the encoding, and one name too long.
Names ==
  {Str(s) : s \in { <<>>, <<65>>, <<128>>, <<193, 191>>, <<194, 128>>, <<223, 191>>,
     <<194>>, <<194, 65>>, <<224, 159, 191>>, <<224, 160, 128>>, <<237, 159, 191>>,
     <<237, 160, 128>>, <<239, 191, 191>>, <<240, 143, 191, 191>>, <<240, 144, 128, 128>>,
     <<244, 143, 191, 191>>, <<244, 144, 128, 128>>, <<248, 136, 128, 128>>,
     <<65, 194, 128, 66>>, <<228, 184, 173, 65>>, <<65, 66, 67, 68, 69>> }} \cup {Missing}

Switches ==
  UNION {Field("SetNightMode", "nightMode", Digits(0, 1)),
         Field("SetAutoNightVision", "autoNightVision", Digits(0, 1)),
         Field("SetFlipUpDown", "isFlipUpDown", Digits(0, 1)),
         Field("SetLED", "statusIndicatorLight", Digits(0, 1)),
         Field("SetCameraPower", "camera", Digits(0, 1)),
         Field("SetFlicker", "flicker", Digits(0, 2))}

Ranges ==
  UNION {Field("SetMicrophone", "microphoneSensitivity", Numbers(0, 10)),
         Field("SetSpeak", "speakVolume", Numbers(0, 10)),
         Field("SetCamStorageDay", "storageDay", Numbers(0, 365)),
         Field("SetCamEventStorageDay", "eventStorageDay", Numbers(0, 365)),
         Field("HamiCamPtzControlConfigSpeed", "speed", Ints(0, 2)),
         Field("HamiCamPtzControlGoPst", "index", Ints(1, 4)),
         Field("HamiCamHumanTracking", "val", Ints(0, 2)),
         Field("HamiCamPetTracking", "val", Ints(0, 2)),
         Field("HamiCamPtzControlMove", "cmd", {Str("pan"), Str("fly")})}

Live(v) == {Str("live"), Str("other")} \X v

ImageAndHd ==
  {[type |-> "SetCameraHD", cam |-> TRUE, requestId |-> p[1], isHd |-> p[2]]
     : p \in Live({Str(1), Str(2), Missing})}
  \cup {[type |-> "SetImageQuality", cam |-> TRUE, requestId |-> p[1], imageQuality |-> p[2]]
     : p \in Live({Str(2), Str(3)})}

Texts ==
  Field("UpdateCameraName", "name", Names)
  \cup Field("SetCameraOSD", "osdRule", {Str(<<>>), Str(<<65>>), Str(<<128>>)})
  \cup {[type |-> "HamiCamPtzControlConfigPst", cam |-> TRUE, index |-> i, remove |-> v,
         positionName |-> n] : i \in {Num(4), Num(5)}, v \in {Str(0), Str(2)},
                               n \in {Str(<<>>), Str(<<65>>)}}
  \cup Field("HamiCamPtzControlTourGo", "indexSequence",
             {List(<<>>), List(<<2, 1>>), List(<<9>>), Word})

Ai ==
  {[type |-> "UpdateCameraAISetting", cam |-> TRUE, hamiAiSettings |-> (p[1] :> p[2])]
     : p \in {"alert", "sen", "fencePos", "features", "fallTime"}
             \X {Num(-1), Num(2), Str(2)}}
  \cup {[type |-> "UpdateCameraAISetting", cam |-> TRUE, hamiAiSettings |-> ("alert" :> Bool(TRUE))]}
  \cup {[type |-> "UpdateCameraAISetting", cam |-> TRUE,
         hamiAiSettings |-> ("fenceDir" :> Str(d) @@ "sen" :> Num(1))] : d \in 1..2}

Streams ==
  {[type |-> "GetVideoLiveStream", cam |-> TRUE, requestId |-> p[1], frameType |-> Str(t),
    imageQuality |-> p[2]] : p \in Live({Str(0), Str(3)}), t \in {"rtp", "h264"}}
  \cup {[type |-> "GetVideoHistoryStream", cam |-> TRUE, requestId |-> Str(k),
         frameType |-> Str("raw"), startTime |-> t]
           : k \in {"live", "history"}, t \in {Num(0), Str(0)}}
  \cup Field("StopVideoLiveStream", "requestId", {Str("live"), Str("audio")})
  \cup Field("StopVideoHistoryStream", "requestId", {Str("live"), Str("history")})
  \cup {[type |-> t, cam |-> TRUE, requestId |-> Str("audio"), code |-> c,
         bitRate |-> b, sampleRate |-> Num(8), sdp |-> Str(<<>>)]
           : t \in {"SendAudioStream", "StopAudioStream"}, c \in Ints(11, 13),
             b \in {Num(-1), Num(64)}}
  \cup {[type |-> t, cam |-> TRUE, requestId |-> Str("audio"), code |-> Num(11),
         bitRate |-> Num(64), sampleRate |-> Num(8), sdp |-> s]
           : t \in {"SendAudioStream", "StopAudioStream"},
             s \in {Missing, Str(<<65, 66, 67, 68>>), Str(<<65, 66, 67, 68, 69>>)}}

Status ==
  {[type |-> "GetCamStatusById", cam |-> TRUE, tenantId |-> Str(i), camSid |-> Num(1),
    userId |-> Str("user")] : i \in {"tenant", "net"}}

Upgrades ==
  {[type |-> "UpgradeHamiCamOTA", cam |-> TRUE, upgradeMode |-> u, filePath |-> Str(f)]
     : u \in {Str(1), Str(2)}, f \in {"empty", "firmware", "missing"}}

Plains == {"RestartHamiCamDevice", "Unknown", "HamiCamFormatSDCard", "HamiCamGetPtzControl",
           "GetHamiCamBindList", "GetCameraAISetting"}

\* The controls that read or write the parameters.
Storage ==
  Field("SetTimeZone", "tId", {Str(10), Str(49)})
  \cup {[type |-> "SetCameraHD", cam |-> TRUE, requestId |-> Str("live"), isHd |-> Str(1)]}
  \cup Plain({"DeleteCameraInfo", "GetTimeZone"})

\* Every control at the edges of its checks, in a session of its own.
Edges ==
  UNION {Switches, Ranges, ImageAndHd, Texts, Ai, Streams, Status, Upgrades,
         Field("SetTimeZone", "tId", {Num(9)}), Plain(Plains),
         {[type |-> "DeleteCameraInfo", cam |-> FALSE]},
         Field("GetSnapshotHamiCamDevice", "eventId", {Word, Missing})}

MCRequests == [storage |-> Storage, edges |-> Edges]

=============================================================================

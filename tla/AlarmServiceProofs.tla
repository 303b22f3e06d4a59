------------------------- MODULE AlarmServiceProofs -------------------------
(***************************************************************************)
(* For every set of camera tables and any number of alarms: the startup,   *)
(* the main loop and the clean-up of mdalarm, with the SDK thread, the     *)
(* owners of the cameras and SIGTERM at any moment.                        *)
(***************************************************************************)
EXTENDS AlarmService, SharedLemmas

(* The places of main: the startup, the alarm loop, the way out. *)
Starting == {"pid", "csv", "connect", "sdk", "login", "motion", "set", "callback",
             "channel", "open"}
Loop     == {"alarm", "send", "release"}
Ending   == {"remove", "close", "deinit", "exited"}

(* The phones of the table. *)
Phones == UNION {ToSet(cameras[c].phones) : c \in DOMAIN cameras}

(* The types. The table is one of the tables of the database, or empty. *)
TypeInv ==
    /\ pc \in Starting \cup Loop \cup Ending \cup {"while", "aborted"}
    /\ ServiceRun \in BOOLEAN /\ sdk \in BOOLEAN /\ callback \in BOOLEAN
    /\ cameras \in CameraTables \cup {<<>>}
    /\ cam \in Nat \ {0}
    /\ motion \in [DOMAIN cameras -> Settings] /\ wanted \in [DOMAIN cameras -> Settings]
    /\ touched \in [DOMAIN cameras -> {"no", "yes", "lost"}]
    /\ armed \subseteq DOMAIN cameras

(* A step that failed has cleared ServiceRun, and nothing sets it again:   *)
(* while it is set, every step main has behind it has succeeded.           *)
ReadyInv ==
    /\ ServiceRun => /\ pc # "pid" => pidFile = "self"
                     /\ pc \notin {"pid", "csv", "connect", "sdk", "aborted"} => sdk
                     /\ pc \in Loop \cup {"while"} => serial = "normal"
                     /\ pc \notin Ending
    /\ HandlesOnlyWhenReady

(* What HikDevStartAlarm has done for the camera it is at; it comes to     *)
(* each camera once.                                                       *)
ArmInv ==
    /\ pc \in {"pid", "csv", "connect"} => cameras = <<>>
    /\ pc \in {"motion", "set", "callback", "channel"} => cam \in DOMAIN cameras
    /\ pc \in {"callback", "channel"} => motion[cam].on \/ touched[cam] = "yes"
    /\ pc = "channel" => callback
    /\ \A c \in armed : c < cam
    /\ ArmedDetects

(* A change is lost only on a camera whose settings are not read again. *)
LostBehind ==
    \A c \in DOMAIN touched :
        touched[c] = "lost" => c < cam \/ (c = cam /\ pc \in {"callback", "channel"})

(* What is about to be written to the camera: what it has, switched on,    *)
(* unless its owner has changed it since the read.                         *)
SettingsInv ==
    /\ SettingsKept
    /\ LostBehind
    /\ pc = "set" =>
          /\ struPicCfg \in Settings /\ struPicCfg.on
          /\ touched[cam] = "no" =>
                /\ ~wanted[cam].on
                /\ struPicCfg = [wanted[cam] EXCEPT !.on = TRUE, !.sensitive = 4]

(* What the clean-up has done so far. *)
EndInv ==
    /\ pc \in {"close", "deinit", "exited"} => pidFile = "none" \/ "remove" \in failed
    /\ pc \in {"deinit", "exited"} => serial = "closed"
    /\ pc = "exited" => (~sdk /\ armed = {}) \/ "cleanup" \in failed

(* The ring holds the alarms that have not been released, the batch in     *)
(* hand is a part of it, and alarms are those of a table that was read.    *)
QueueInv ==
    /\ raised \in Seq(Ips)
    /\ released \in 0 .. Len(raised)
    /\ queue = SubSeq(raised, released + 1, Len(raised))
    /\ raised # <<>> => cameras # <<>>
    /\ pc \in Loop => batch \in 1 .. Len(queue)

(* All of it but the messages. *)
StateInv == TypeInv /\ ReadyInv /\ ArmInv /\ SettingsInv /\ EndInv /\ QueueInv

USE DEF Starting, Loop, Ending

-----------------------------------------------------------------------------

(* A camera table is a sequence. *)
LEMMA TableIsSequence ==
    ASSUME cameras \in CameraTables \cup {<<>>}
    PROVE  /\ cameras \in Seq(ToSet(cameras))
           /\ Len(cameras) \in Nat /\ DOMAIN cameras = 1 .. Len(cameras)
           /\ \A c \in DOMAIN cameras : cameras[c].phones \in Seq(ToSet(cameras[c].phones))
<1>1. CASE cameras = <<>>
  BY <1>1 DEF ToSet
<1>2. CASE cameras \in CameraTables
  BY <1>2, ServiceAssumption
<1> QED BY <1>1, <1>2

(* A process that has just been started. *)
LEMMA InitStateInv == Init => StateInv
<1> SUFFICES ASSUME Init PROVE StateInv
  OBVIOUS
<1>1. TypeInv
  <2>1. cameras = <<>> /\ motion = <<>> /\ wanted = <<>> /\ touched = <<>> /\ DOMAIN <<>> = {}
    BY DEF Init
  <2>2. ASSUME NEW S PROVE <<>> \in [{} -> S]
    <3>1. <<>> = [c \in {} |-> <<>>[c]]
      OBVIOUS
    <3> QED BY <3>1, Zenon
  <2>3. /\ motion \in [DOMAIN cameras -> Settings] /\ wanted \in [DOMAIN cameras -> Settings]
        /\ touched \in [DOMAIN cameras -> {"no", "yes", "lost"}]
    BY <2>1, <2>2, Zenon
  <2>4. ServiceRun \in BOOLEAN /\ sdk \in BOOLEAN /\ callback \in BOOLEAN
    BY DEF Init
  <2>5. cam \in Nat \ {0} /\ cameras \in CameraTables \cup {<<>>} /\ armed \subseteq DOMAIN cameras
    BY DEF Init
  <2>6. pc \in Starting
    BY DEF Init
  <2> QED BY <2>3, <2>4, <2>5, <2>6 DEF TypeInv
<1>2. ReadyInv /\ ArmInv /\ SettingsInv /\ EndInv
  BY DEF Init, ReadyInv, HandlesOnlyWhenReady, ArmInv, ArmedDetects, SettingsInv,
         SettingsKept, LostBehind, EndInv
<1>3. QueueInv
  BY DEF Init, QueueInv
<1> QED BY <1>1, <1>2, <1>3 DEF StateInv

(* The parts of the invariant about the ring and the alarms keep, when     *)
(* main does something else than taking or releasing a batch.              *)
LEMMA QueueKept ==
    ASSUME QueueInv, UNCHANGED <<sdkVars, released>>,
           UNCHANGED cameras \/ raised = <<>>,
           pc' \in Loop => pc \in Loop /\ batch' = batch
    PROVE  QueueInv'
<1>1. CASE UNCHANGED cameras
  BY <1>1 DEF QueueInv, sdkVars, Ips
<1>2. CASE raised = <<>>
  BY <1>2 DEF QueueInv, sdkVars, Ips
<1> QED BY <1>1, <1>2

(* Settings with the motion detection switched on. *)
LEMMA SwitchedOnType ==
    ASSUME NEW p \in Settings
    PROVE  /\ SwitchedOn(p) = [p EXCEPT !.on = TRUE, !.sensitive = 4]
           /\ SwitchedOn(p) \in Settings /\ SwitchedOn(p).on
  BY DEF SwitchedOn, Settings

(* The parts of the invariant about the settings keep, when neither main   *)
(* nor an owner is at them.                                                *)
LEMMA SettingsUntouched ==
    ASSUME SettingsInv, TypeInv, UNCHANGED cameraVars, pc' = "set" => pc = "set" /\ cam' = cam,
           \/ cam' = cam + 1
           \/ cam' = cam /\ (pc \in {"callback", "channel"} => pc' \in {"callback", "channel"})
    PROVE  SettingsInv'
<1>1. \A c \in DOMAIN touched : c \in Nat
  BY TableIsSequence DEF TypeInv
<1>2. LostBehind'
  BY <1>1 DEF SettingsInv, LostBehind, cameraVars, TypeInv
<1> QED BY <1>2 DEF SettingsInv, SettingsKept, cameraVars

(* The steps of the startup that no camera takes part in: each either      *)
(* succeeds or clears ServiceRun and goes on.                              *)
LEMMA StartupStateInv ==
    ASSUME StateInv,
           CreatePidFile \/ ParseCsvData \/ ConnectDataBase \/ InitialSDK \/ OpenSerial
    PROVE  StateInv'
<1> USE DEF StateInv, startVars, loopVars, Outcome
<1>1. UNCHANGED <<sdkVars, released>> /\ pc' \notin Loop
  BY DEF CreatePidFile, ParseCsvData, ConnectDataBase, InitialSDK, OpenSerial, AfterSDK
<1>2. UNCHANGED cameras \/ raised = <<>>
  BY DEF CreatePidFile, ParseCsvData, ConnectDataBase, InitialSDK, OpenSerial, ArmInv,
         QueueInv
<1>3. QueueInv'
  BY <1>1, <1>2, QueueKept
<1>9. CASE ConnectDataBase
  <2> USE DEF ConnectDataBase
  <2>1. armed = {} /\ DOMAIN motion' = DOMAIN cameras'
    BY <1>9, SettingsAssumption DEF ArmInv, TypeInv
  <2>2. TypeInv'
    BY <1>9, <2>1, SettingsAssumption DEF TypeInv
  <2>3. SettingsInv'
    BY <1>9 DEF SettingsInv, SettingsKept, LostBehind
  <2> QED BY <1>3, <1>9, <2>1, <2>2, <2>3 DEF ReadyInv, HandlesOnlyWhenReady, ArmInv,
                                              ArmedDetects, EndInv
<1>10. ASSUME ~ConnectDataBase PROVE SettingsInv'
  BY <1>10, SettingsUntouched
     DEF CreatePidFile, ParseCsvData, InitialSDK, AfterSDK, OpenSerial
<1> USE DEF TypeInv, ReadyInv, HandlesOnlyWhenReady, ArmInv, ArmedDetects, EndInv, cameraVars
<1>4. CASE CreatePidFile
  BY <1>3, <1>4, <1>10 DEF CreatePidFile, ConnectDataBase
<1>5. CASE ParseCsvData
  BY <1>3, <1>5, <1>10 DEF ParseCsvData, ConnectDataBase
<1>7. CASE InitialSDK
  BY <1>3, <1>7, <1>10 DEF InitialSDK, AfterSDK, ConnectDataBase
<1>8. CASE OpenSerial
  BY <1>3, <1>8, <1>10 DEF OpenSerial, Opened, ConnectDataBase
<1> QED BY <1>4, <1>5, <1>7, <1>8, <1>9

(* The steps of the startup that go through the cameras. *)
LEMMA ArmingStateInv ==
    ASSUME StateInv,
           \/ HikDevLogin \/ GetDVRConfig \/ SetDVRConfig \/ SetMessageCallBack
           \/ SetupAlarmChan
    PROVE  StateInv'
<1> USE DEF StateInv, startVars, loopVars, NextCamera
<1>1. UNCHANGED <<sdkVars, released, cameras>> /\ pc' \notin Loop
  BY DEF HikDevLogin, GetDVRConfig, SetDVRConfig, SetMessageCallBack, SetupAlarmChan
<1>2. QueueInv'
  BY <1>1, QueueKept
<1>3. Len(cameras) \in Nat /\ DOMAIN cameras = 1 .. Len(cameras)
  BY TableIsSequence DEF TypeInv
<1>4. CASE GetDVRConfig
  <2> USE DEF GetDVRConfig
  <2>1. cam \in DOMAIN cameras /\ motion[cam] \in Settings /\ wanted[cam] \in Settings
    BY <1>4 DEF TypeInv, ArmInv
  <2>2. SwitchedOn(motion[cam]) \in Settings /\ SwitchedOn(motion[cam]).on
    BY <2>1, SwitchedOnType
  <2>3. TypeInv'
    BY <1>4, <2>1 DEF TypeInv
  <2>4. ArmInv'
    BY <1>3, <1>4, <2>1 DEF ArmInv, ArmedDetects, TypeInv, IsNeedToSetCfg
  <2>5. SettingsKept' /\ LostBehind'
    <3>1. touched[cam] # "lost" /\ cam \in Nat
      BY <1>4, <2>1 DEF SettingsInv, LostBehind, TypeInv
    <3>2. \A c \in DOMAIN touched : c \in Nat
      BY <1>3 DEF TypeInv
    <3>3. \A c \in DOMAIN touched' :
             c \in DOMAIN touched /\ (touched'[c] = "lost" <=> touched[c] = "lost")
      BY <1>4, <3>1 DEF TypeInv
    <3>4. cam' = cam \/ cam' = cam + 1
      BY <1>4
    <3>5. LostBehind'
      BY <1>4, <3>1, <3>2, <3>3, <3>4 DEF SettingsInv, LostBehind
    <3>6. UNCHANGED <<motion, wanted>> /\ DOMAIN motion = DOMAIN touched
      BY <1>4 DEF TypeInv
    <3>7. DOMAIN touched' = DOMAIN touched
      BY <1>4 DEF TypeInv
    <3> QED BY <3>3, <3>5, <3>6, <3>7 DEF SettingsInv, SettingsKept
  <2>6. ASSUME ~motion[cam].on
        PROVE  ~wanted[cam].on /\ motion[cam] = wanted[cam]
    <3>1. [wanted[cam] EXCEPT !.on = TRUE, !.sensitive = 4].on
      BY <2>1 DEF Settings
    <3> QED BY <2>1, <2>6, <3>1 DEF SettingsInv, SettingsKept, TypeInv
  <2>7. SettingsInv'
    BY <1>4, <2>1, <2>2, <2>5, <2>6 DEF SettingsInv, IsNeedToSetCfg, SwitchedOn
  <2> QED BY <1>2, <1>4, <2>3, <2>4, <2>7 DEF ReadyInv, HandlesOnlyWhenReady, EndInv
<1>5. CASE SetDVRConfig
  <2> USE DEF SetDVRConfig
  <2>1. cam \in DOMAIN cameras /\ cam \in Nat /\ struPicCfg \in Settings /\ struPicCfg.on
    BY <1>5 DEF TypeInv, ArmInv, SettingsInv
  <2>2. TypeInv'
    BY <1>5, <2>1 DEF TypeInv
  <2>3. ArmInv'
    BY <1>3, <1>5, <2>1 DEF ArmInv, ArmedDetects, TypeInv
  <2>4. SettingsInv'
    <3>1. \A c \in DOMAIN touched : c \in Nat
      BY <1>3 DEF TypeInv
    <3>2. DOMAIN touched' = DOMAIN touched
             /\ \A c \in DOMAIN touched \ {cam} : touched'[c] = touched[c]
      BY <1>5 DEF TypeInv
    <3>3. (cam' = cam /\ pc' = "callback") \/ cam' = cam + 1
      BY <1>5
    <3>4. LostBehind'
      BY <1>5, <2>1, <3>1, <3>2, <3>3 DEF SettingsInv, LostBehind
    <3> QED BY <1>5, <2>1, <3>4 DEF SettingsInv, SettingsKept, TypeInv
  <2> QED BY <1>2, <1>5, <2>2, <2>3, <2>4 DEF ReadyInv, HandlesOnlyWhenReady, EndInv
<1>6. ASSUME ~GetDVRConfig, ~SetDVRConfig PROVE SettingsInv'
  BY <1>6, SettingsUntouched DEF HikDevLogin, SetMessageCallBack, SetupAlarmChan
<1> USE DEF TypeInv, ReadyInv, HandlesOnlyWhenReady, ArmInv, ArmedDetects, EndInv, cameraVars
<1>7. CASE HikDevLogin
  BY <1>2, <1>3, <1>6, <1>7 DEF HikDevLogin, GetDVRConfig, SetDVRConfig
<1>8. CASE SetMessageCallBack
  <2>1. CASE callback' = TRUE /\ pc' = "channel" /\ UNCHANGED cam
    BY <1>2, <1>6, <1>8, <2>1 DEF SetMessageCallBack, GetDVRConfig, SetDVRConfig
  <2>2. CASE NextCamera /\ UNCHANGED callback
    BY <1>2, <1>6, <1>8, <2>2 DEF SetMessageCallBack, GetDVRConfig, SetDVRConfig
  <2> QED BY <1>8, <2>1, <2>2 DEF SetMessageCallBack
<1>9. CASE SetupAlarmChan
  BY <1>2, <1>3, <1>6, <1>9 DEF SetupAlarmChan, GetDVRConfig, SetDVRConfig
<1> QED BY <1>4, <1>5, <1>7, <1>8, <1>9

(* The alarm loop: Release gives back what the loop has handled, and the   *)
(* callback may have appended to the ring meanwhile.                       *)
LEMMA LoopStateInv ==
    ASSUME StateInv, While \/ Alarm \/ Send \/ Release
    PROVE  StateInv'
<1> USE DEF StateInv, startVars, loopVars, sdkVars
<1>0. SettingsInv'
  BY SettingsUntouched DEF While, Alarm, SkipAlarm, Send, Release
<1> USE DEF cameraVars
<1>1. TypeInv' /\ ArmInv' /\ SettingsInv' /\ EndInv'
  BY <1>0 DEF TypeInv, ArmInv, ArmedDetects, EndInv, While, Alarm, SkipAlarm, Send, Release
<1>2. queue \in Seq(Ips) /\ Len(raised) \in Nat /\ Len(queue) = Len(raised) - released
  BY DEF QueueInv
<1>3. CASE While
  BY <1>1, <1>2, <1>3 DEF While, ReadyInv, HandlesOnlyWhenReady, QueueInv, Ips
<1>4. CASE Alarm
  <2>1. QueueInv'
    BY <1>4, QueueKept DEF Alarm, SkipAlarm
  <2> QED BY <1>1, <1>4, <2>1 DEF Alarm, SkipAlarm, ReadyInv, HandlesOnlyWhenReady
<1>5. CASE Send
  <2>1. QueueInv'
    BY <1>5, QueueKept DEF Send
  <2> QED BY <1>1, <1>5, <2>1 DEF Send, ReadyInv, HandlesOnlyWhenReady
<1>6. CASE Release
  <2>1. ReadyInv'
    BY <1>6 DEF Release, ReadyInv, HandlesOnlyWhenReady
  <2>2. SubSeq(queue, batch + 1, Len(queue)) = SubSeq(raised, released + batch + 1, Len(raised))
    <3>1. batch \in 0 .. Len(raised) - released /\ released \in 0 .. Len(raised)
      BY <1>2, <1>6 DEF Release, QueueInv
    <3>2. SubSeq(SubSeq(raised, released + 1, Len(raised)), batch + 1, Len(raised) - released)
             = SubSeq(raised, released + batch + 1, Len(raised))
      BY <3>1, SuffixOfSuffix DEF QueueInv
    <3> QED BY <1>2, <3>2 DEF QueueInv
  <2>3. QueueInv'
    <3>1. Ips' = Ips /\ raised' = raised /\ cameras' = cameras /\ pc' \notin Loop
      BY <1>6 DEF Release, Ips
    <3>2. queue' = SubSeq(raised, released' + 1, Len(raised)) /\ released' \in 0 .. Len(raised)
      <4>1. released' = released + batch /\ queue' = SubSeq(queue, batch + 1, Len(queue))
        BY <1>6 DEF Release, Offset
      <4>2. batch \in 1 .. Len(raised) - released /\ released \in 0 .. Len(raised)
        BY <1>2, <1>6 DEF Release, QueueInv
      <4> QED BY <1>2, <2>2, <4>1, <4>2
    <3> QED BY <3>1, <3>2 DEF QueueInv
  <2> QED BY <1>1, <2>1, <2>3
<1> QED BY <1>3, <1>4, <1>5, <1>6

(* The way out undoes the startup, step by step. *)
LEMMA EndStateInv ==
    ASSUME StateInv, RemovePidFile \/ CloseSerial \/ DeinitialSDK
    PROVE  StateInv'
<1> USE DEF StateInv, startVars, loopVars
<1>1. QueueInv'
  BY QueueKept DEF RemovePidFile, CloseSerial, DeinitialSDK
<1>5. SettingsInv'
  BY SettingsUntouched DEF RemovePidFile, CloseSerial, DeinitialSDK
<1> USE DEF TypeInv, ReadyInv, HandlesOnlyWhenReady, ArmInv, ArmedDetects, EndInv, cameraVars
<1>2. CASE RemovePidFile
  BY <1>1, <1>2, <1>5 DEF RemovePidFile
<1>3. CASE CloseSerial
  BY <1>1, <1>3, <1>5 DEF CloseSerial
<1>4. CASE DeinitialSDK
  BY <1>1, <1>4, <1>5 DEF DeinitialSDK
<1> QED BY <1>2, <1>3, <1>4

(* An owner changes the settings of a camera, at any moment. *)
LEMMA OwnerStateInv ==
    ASSUME StateInv, NEW c \in DOMAIN motion, NEW p \in PicCfgs, Owner(c, p)
    PROVE  StateInv'
<1> USE DEF StateInv, Owner
<1>1. QueueInv'
  BY QueueKept DEF loopVars
<1>2. p \in Settings /\ c \in DOMAIN cameras
  BY SettingsAssumption DEF TypeInv
<1>3. TypeInv'
  BY <1>2 DEF TypeInv
<1>4. ArmInv'
  BY <1>2 DEF ArmInv, ArmedDetects, TypeInv
<1>5. SettingsInv'
  <2>1. /\ motion' = [motion EXCEPT ![c] = p] /\ wanted' = [wanted EXCEPT ![c] = p]
        /\ touched' = [touched EXCEPT ![c] = "yes"]
        /\ UNCHANGED <<pc, cam, struPicCfg>>
    OBVIOUS
  <2>2. /\ motion \in [DOMAIN cameras -> Settings] /\ wanted \in [DOMAIN cameras -> Settings]
        /\ touched \in [DOMAIN cameras -> {"no", "yes", "lost"}]
    BY DEF TypeInv
  <2> HIDE DEF Owner
  <2>3. SettingsKept'
    BY <1>2, <2>1, <2>2 DEF SettingsInv, SettingsKept
  <2>4. LostBehind'
    BY <1>2, <2>1, <2>2 DEF SettingsInv, LostBehind
  <2>5. pc = "set" => cam \in DOMAIN cameras
    BY DEF ArmInv
  <2>6. ASSUME pc = "set", touched'[cam] = "no"
        PROVE  cam # c /\ touched[cam] = "no" /\ wanted'[cam] = wanted[cam]
    BY <1>2, <2>1, <2>2, <2>5, <2>6
  <2>7. ASSUME pc = "set"
        PROVE  /\ struPicCfg \in Settings /\ struPicCfg.on
               /\ touched'[cam] = "no" =>
                     /\ ~wanted'[cam].on
                     /\ struPicCfg = [wanted'[cam] EXCEPT !.on = TRUE, !.sensitive = 4]
    BY <2>6, <2>7 DEF SettingsInv
  <2> QED BY <2>1, <2>3, <2>4, <2>7 DEF SettingsInv
<1> QED BY <1>1, <1>3, <1>4, <1>5 DEF ReadyInv, HandlesOnlyWhenReady, EndInv

(* The callback and the signal handler, at any moment. *)
LEMMA AroundStateInv ==
    ASSUME StateInv, (\E c \in armed, ip \in Ips : Motion(c, ip)) \/ Sigterm
    PROVE  StateInv'
<1> USE DEF StateInv, startVars, loopVars, sdkVars
<1>0. SettingsInv'
  BY SettingsUntouched DEF Motion, Sigterm
<1> USE DEF cameraVars
<1>1. CASE \E c \in armed, ip \in Ips : Motion(c, ip)
  <2>1. PICK c \in armed, ip \in Ips : Motion(c, ip)
    BY <1>1
  <2>2. TypeInv' /\ ReadyInv' /\ ArmInv' /\ SettingsInv' /\ EndInv'
    BY <1>0, <2>1 DEF Motion, TypeInv, ReadyInv, HandlesOnlyWhenReady, ArmInv, ArmedDetects,
                EndInv
  <2>3. cameras # <<>>
    BY <2>1 DEF TypeInv
  <2>4. queue' = SubSeq(raised', released' + 1, Len(raised'))
    <3>1. released + 1 \in 1 .. Len(raised) + 1 /\ raised \in Seq(Ips)
      BY DEF QueueInv
    <3>2. SubSeq(Append(raised, ip), released + 1, Len(raised) + 1)
             = Append(SubSeq(raised, released + 1, Len(raised)), ip)
      BY <3>1, SuffixAppend
    <3>3. Len(raised') = Len(raised) + 1
      BY <2>1, <3>1 DEF Motion
    <3> QED BY <2>1, <3>2, <3>3 DEF Motion, QueueInv
  <2>5. Len(queue) \in Nat /\ Len(queue') = Len(queue) + 1
    BY <2>1 DEF Motion, QueueInv
  <2>6. QueueInv'
    <3>1. Ips' = Ips /\ UNCHANGED <<pc, cameras, released, batch>>
      BY <2>1 DEF Motion, Ips
    <3>2. raised' \in Seq(Ips) /\ Len(raised') = Len(raised) + 1
      BY <2>1 DEF Motion, QueueInv
    <3>3. released' \in 0 .. Len(raised') /\ (pc' \in Loop => batch' \in 1 .. Len(queue'))
      BY <2>5, <3>1, <3>2 DEF QueueInv
    <3> QED BY <2>3, <2>4, <3>1, <3>2, <3>3 DEF QueueInv
  <2> QED BY <2>2, <2>6
<1>2. CASE Sigterm
  <2>1. QueueInv'
    BY <1>2, QueueKept DEF Sigterm
  <2> QED BY <1>0, <1>2, <2>1 DEF Sigterm, TypeInv, ReadyInv, HandlesOnlyWhenReady, ArmInv,
                            ArmedDetects, EndInv
<1> QED BY <1>1, <1>2

(* A stuttering step. *)
LEMMA StutterStateInv ==
    ASSUME StateInv, UNCHANGED vars
    PROVE  StateInv'
<1> USE DEF StateInv, vars, startVars, loopVars, sdkVars
<1>1. SettingsInv'
  BY SettingsUntouched
<1>2. QueueInv'
  BY QueueKept
<1> QED BY <1>1, <1>2 DEF cameraVars, TypeInv, ReadyInv, HandlesOnlyWhenReady, ArmInv,
                         ArmedDetects, EndInv

(* Every step keeps it. *)
LEMMA NextStateInv == StateInv /\ [Next]_vars => StateInv'
<1> SUFFICES ASSUME StateInv, [Next]_vars PROVE StateInv'
  OBVIOUS
<1>1. CASE Main
  BY <1>1, StartupStateInv, ArmingStateInv, LoopStateInv, EndStateInv DEF Main
<1>2. CASE (\E c \in armed, ip \in Ips : Motion(c, ip)) \/ Sigterm
  BY <1>2, AroundStateInv
<1>3. CASE Terminated \/ UNCHANGED vars
  BY <1>3, StutterStateInv DEF Terminated
<1>4. CASE \E c \in DOMAIN motion, p \in PicCfgs : Owner(c, p)
  BY <1>4, OwnerStateInv
<1> QED BY <1>1, <1>2, <1>3, <1>4 DEF Next

(* So it is an invariant. *)
LEMMA AlwaysStateInv == Spec => []StateInv
  BY InitStateInv, NextStateInv, PTL DEF Spec

(* For every table, failure and moment of SIGTERM: alarms are handled only *)
(* by a service whose startup has succeeded as a whole.                    *)
THEOREM ReadyCorrect == Spec => []HandlesOnlyWhenReady
<1>1. StateInv => HandlesOnlyWhenReady
  BY DEF StateInv, ReadyInv
<1> QED BY AlwaysStateInv, <1>1, PTL

(* A camera is armed only with the callback registered and its motion      *)
(* detection on, unless its owner has changed its settings since.          *)
THEOREM ArmedCorrect == Spec => []ArmedDetects
<1>1. StateInv => ArmedDetects
  BY DEF StateInv, ArmInv
<1> QED BY AlwaysStateInv, <1>1, PTL

(* A process that returns from main has released everything its startup    *)
(* took, but for what a call of the clean-up itself failed to release.     *)
THEOREM ExitCorrect == Spec => []ExitCleansUp
<1>1. StateInv => ExitCleansUp
  BY DEF StateInv, EndInv, ExitCleansUp
<1> QED BY AlwaysStateInv, <1>1, PTL

(* However the read and the write of a camera's settings interleave with   *)
(* changes by its owner, the camera has what the owner gave it last, with  *)
(* the motion detection switched on; only a change between the two calls   *)
(* gets lost.                                                              *)
THEOREM SettingsCorrect == Spec => []SettingsKept
<1>1. StateInv => SettingsKept
  BY DEF StateInv, SettingsInv
<1> QED BY AlwaysStateInv, <1>1, PTL

-----------------------------------------------------------------------------
(* The messages.  Within a batch, what has been written is the messages of *)
(* the alarms before the one in hand, and those of its phones before j.    *)
SentInv ==
    /\ pc \notin Loop \cup {"aborted"} => i = 1 /\ sent = Messages(released)
    /\ pc = "alarm" => i \in 1 .. batch + 1 /\ sent = Messages(released + i - 1)
    /\ pc = "send" =>
          /\ i \in 1 .. batch /\ queue[i] # NoIp /\ Named(queue[i])
          /\ j \in 1 .. Len(GetCameraWarnPhone(queue[i])) + 1
          /\ sent = Messages(released + i - 1)
                       \o SubSeq(MessagesFor(released + i), 1, j - 1)
    /\ pc = "release" => sent = Messages(released + batch)

(* A named camera has one last row, and its phones are a sequence. *)
LEMMA WarnPhones ==
    ASSUME TypeInv, NEW ip, Named(ip)
    PROVE  GetCameraWarnPhone(ip) \in Seq(Phones)
<1> DEFINE S == {c \in DOMAIN cameras : cameras[c].ip = ip}
<1>1. Len(cameras) \in Nat /\ DOMAIN cameras = 1 .. Len(cameras)
  BY TableIsSequence DEF TypeInv
<1>2. S # {} /\ S \in SUBSET (0 .. Len(cameras))
  BY <1>1 DEF Named
<1>3. \E m \in S : \A d \in S : d <= m
  <2> HIDE DEF S
  <2> QED BY <1>1, <1>2, GreatestElement
<1> DEFINE m == CHOOSE m \in S : \A d \in S : d <= m
<1>4. m \in S
  BY <1>3, Zenon
<1>5. m \in DOMAIN cameras /\ GetCameraWarnPhone(ip) = cameras[m].phones
  BY <1>4, Zenon DEF GetCameraWarnPhone
<1> HIDE DEF m
<1>6. cameras[m].phones \in Seq(ToSet(cameras[m].phones))
  BY <1>5, TableIsSequence DEF TypeInv
<1>7. ToSet(cameras[m].phones) \subseteq Phones
  BY <1>5 DEF Phones
<1> QED BY <1>5, <1>6, <1>7, SeqMonotonic

(* The messages of an alarm are pairs of an alarm and a phone. *)
LEMMA MessagesForType ==
    ASSUME TypeInv, NEW n \in Nat
    PROVE  MessagesFor(n) \in Seq(Nat \X Phones)
<1>1. CASE ~Named(raised[n]) \/ raised[n] = NoIp
  BY <1>1 DEF MessagesFor
<1>2. CASE Named(raised[n]) /\ raised[n] # NoIp
  <2> DEFINE phones == GetCameraWarnPhone(raised[n])
  <2>1. phones \in Seq(Phones)
    BY <1>2, WarnPhones
  <2>2. MessagesFor(n) = [k \in DOMAIN phones |-> <<n, phones[k]>>]
    BY <1>2, Zenon DEF MessagesFor
  <2> HIDE DEF phones
  <2> QED BY <2>1, <2>2
<1> QED BY <1>1, <1>2

(* No alarm, no message. *)
LEMMA NoMessages == Messages(0) = <<>>
<1> DEFINE ss == [k \in 1 .. 0 |-> MessagesFor(k)]
<1>1. ss \in Seq({}) /\ Len(ss) = 0
  OBVIOUS
<1>2. ss = <<>>
  BY <1>1
<1> QED BY <1>1, <1>2 DEF Messages, FlattenSeq

(* One more alarm adds its messages at the end. *)
LEMMA OneMoreAlarm ==
    ASSUME TypeInv, NEW n \in Nat
    PROVE  Messages(n + 1) = Messages(n) \o MessagesFor(n + 1)
<1> DEFINE M == Nat \X Phones
           ss == [k \in 1 .. n |-> MessagesFor(k)]
           tt == [k \in 1 .. n + 1 |-> MessagesFor(k)]
<1>1. \A k \in 1 .. n + 1 : MessagesFor(k) \in Seq(M)
  BY MessagesForType
<1> HIDE DEF M
<1>2. ss \in Seq(Seq(M)) /\ tt \in Seq(Seq(M)) /\ Len(ss) = n /\ Len(tt) = n + 1
  BY <1>1
<1>3. tt = Append(ss, MessagesFor(n + 1))
  BY <1>1, <1>2
<1> HIDE DEF ss, tt
<1>4. FlattenSeq(tt) = FlattenSeq(ss) \o MessagesFor(n + 1)
  BY <1>1, <1>2, <1>3, FlattenAppend
<1> QED BY <1>4 DEF ss, tt, Messages

(* So are those of the first n alarms. *)
LEMMA MessagesType ==
    ASSUME TypeInv, NEW n \in Nat
    PROVE  Messages(n) \in Seq(Nat \X Phones)
<1> DEFINE M == Nat \X Phones
           ss == [k \in 1 .. n |-> MessagesFor(k)]
<1>1. \A k \in 1 .. n : MessagesFor(k) \in Seq(M)
  BY MessagesForType
<1> HIDE DEF M
<1>2. ss \in Seq(Seq(M))
  BY <1>1
<1>3. FlattenSeq(ss) \in Seq(M)
  BY <1>2, FlattenType
<1> QED BY <1>3 DEF Messages, M

(* A step that leaves the table and an alarm alone leaves its messages     *)
(* alone,                                                                  *)
LEMMA MessagesForKept ==
    ASSUME UNCHANGED cameras, NEW n, raised'[n] = raised[n]
    PROVE  MessagesFor(n)' = MessagesFor(n)
<1>1. Named(raised[n])' = Named(raised[n])
  BY DEF Named
<1>2. GetCameraWarnPhone(raised[n])' = GetCameraWarnPhone(raised[n])
  BY DEF GetCameraWarnPhone
<1> QED BY <1>1, <1>2 DEF MessagesFor

(* and the same for the first n alarms, although the callback appends      *)
(* others.                                                                 *)
LEMMA MessagesKept ==
    ASSUME UNCHANGED cameras, NEW n \in Nat, \A k \in 1 .. n : raised'[k] = raised[k]
    PROVE  Messages(n)' = Messages(n)
<1>1. \A k \in 1 .. n : MessagesFor(k)' = MessagesFor(k)
  BY MessagesForKept
<1>2. [k \in 1 .. n |-> MessagesFor(k)]' = [k \in 1 .. n |-> MessagesFor(k)]
  BY <1>1
<1> QED BY <1>2 DEF Messages

(* A step that leaves main's place in the messages alone keeps SentInv,    *)
(* also when it records one more alarm.                                    *)
LEMMA SentKept ==
    ASSUME StateInv, SentInv, UNCHANGED <<cameras, loopVars>>,
           \A k \in 1 .. Len(raised) : raised'[k] = raised[k],
           \A k \in 1 .. Len(queue) : queue'[k] = queue[k],
           \/ pc' = pc
           \/ pc' = "aborted"
           \/ {pc, pc'} \cap (Loop \cup {"aborted"}) = {}
    PROVE  SentInv'
<1> USE DEF loopVars
<1>1. Len(raised) \in Nat /\ Len(queue) = Len(raised) - released /\ released \in 0 .. Len(raised)
  BY DEF StateInv, QueueInv
<1>2. ASSUME NEW n \in 0 .. Len(raised) PROVE Messages(n)' = Messages(n)
  BY <1>1, MessagesKept
<1>3. CASE pc' = "aborted"
  BY <1>3 DEF SentInv
<1>4. CASE {pc, pc'} \cap (Loop \cup {"aborted"}) = {}
  BY <1>1, <1>2, <1>4 DEF SentInv
<1>5. CASE pc' = pc
  <2>1. pc \in Loop => batch \in 1 .. Len(queue)
    BY DEF StateInv, QueueInv
  <2>2. CASE pc \notin Loop
    BY <1>1, <1>2, <1>5, <2>2 DEF SentInv
  <2>3. CASE pc = "alarm"
    <3>1. i \in 1 .. batch + 1 /\ released + i - 1 \in 0 .. Len(raised)
      BY <1>1, <2>1, <2>3 DEF SentInv
    <3> QED BY <1>2, <1>5, <2>3, <3>1 DEF SentInv
  <2>4. CASE pc = "send"
    <3>1. i \in 1 .. Len(queue) /\ i \in 1 .. batch /\ released + i - 1 \in 0 .. Len(raised)
          /\ released + i \in 1 .. Len(raised)
      <4>1. i \in 1 .. batch /\ batch \in 1 .. Len(queue)
        BY <2>1, <2>4 DEF SentInv
      <4> QED BY <1>1, <4>1
    <3>2. queue'[i] = queue[i]
      <4>1. i \in 1 .. Len(queue)
        BY <3>1
      <4> QED BY <4>1, Zenon
    <3>3. Named(queue[i])' = Named(queue[i])
          /\ GetCameraWarnPhone(queue[i])' = GetCameraWarnPhone(queue[i])
      BY <3>2 DEF Named, GetCameraWarnPhone
    <3>4. MessagesFor(released + i)' = MessagesFor(released + i)
      <4> DEFINE n == released + i
      <4>1. n' = n /\ raised'[n] = raised[n]
        BY <3>1
      <4> QED BY <4>1, MessagesForKept DEF MessagesFor, Named, GetCameraWarnPhone
    <3>5. Messages(released + i - 1)' = Messages(released + i - 1)
      BY <1>2, <3>1
    <3> QED BY <1>5, <2>4, <3>1, <3>2, <3>3, <3>4, <3>5 DEF SentInv
  <2>5. CASE pc = "release"
    <3>1. released + batch \in 0 .. Len(raised)
      BY <1>1, <2>1, <2>5
    <3> QED BY <1>2, <1>5, <2>5, <3>1 DEF SentInv
  <2> QED BY <2>2, <2>3, <2>4, <2>5
<1> QED BY <1>3, <1>4, <1>5

(* At the start nothing is sent. *)
LEMMA InitSentInv == Init => SentInv
  BY NoMessages DEF Init, SentInv

(* Outside the loop nothing is sent. *)
LEMMA StartupSentInv ==
    ASSUME StateInv, SentInv,
           \/ CreatePidFile \/ ParseCsvData \/ ConnectDataBase \/ InitialSDK \/ OpenSerial
           \/ HikDevLogin \/ GetDVRConfig \/ SetDVRConfig \/ SetMessageCallBack \/ SetupAlarmChan
           \/ RemovePidFile \/ CloseSerial \/ DeinitialSDK
    PROVE  SentInv'
<1> USE DEF startVars, sdkVars
<1>1. /\ UNCHANGED <<sdkVars, loopVars>>
      /\ pc' = "aborted" \/ {pc, pc'} \cap (Loop \cup {"aborted"}) = {}
  BY DEF CreatePidFile, ParseCsvData, ConnectDataBase, InitialSDK, AfterSDK, OpenSerial,
         HikDevLogin, GetDVRConfig, SetDVRConfig, SetMessageCallBack, SetupAlarmChan,
         NextCamera, RemovePidFile, CloseSerial, DeinitialSDK
<1>2. CASE ConnectDataBase
  <2>1. cameras = <<>> /\ raised = <<>> /\ released = 0 /\ pc' = "sdk"
        /\ pc \notin Loop \cup {"aborted"}
    BY <1>2 DEF ConnectDataBase, StateInv, ArmInv, QueueInv
  <2>2. i = 1 /\ sent = <<>>
    BY <2>1, NoMessages DEF SentInv
  <2>3. Messages(0)' = <<>>
    <3> DEFINE ss == [k \in 1 .. 0 |-> MessagesFor(k)]
    <3>1. ss' \in Seq({}) /\ Len(ss') = 0
      OBVIOUS
    <3>2. ss' = <<>>
      BY <3>1
    <3> QED BY <3>1, <3>2 DEF Messages, FlattenSeq
  <2> QED BY <1>1, <2>1, <2>2, <2>3 DEF SentInv, loopVars
<1>3. CASE ~ConnectDataBase
  <2>1. UNCHANGED cameras
    BY <1>3 DEF CreatePidFile, ParseCsvData, InitialSDK, OpenSerial, HikDevLogin,
                GetDVRConfig, SetDVRConfig, SetMessageCallBack, SetupAlarmChan, RemovePidFile,
                CloseSerial, DeinitialSDK
  <2> QED BY <1>1, <2>1, SentKept
<1> QED BY <1>2, <1>3

(* The alarm in hand is the one after those handled, and its messages are  *)
(* the next to be sent.                                                    *)
LEMMA CurrentAlarm ==
    ASSUME StateInv, i \in 1 .. Len(queue)
    PROVE  /\ queue[i] = raised[released + i]
           /\ released + i - 1 \in Nat
           /\ released + i \in 1 .. Len(raised)
           /\ Messages(released + i) = Messages(released + i - 1) \o MessagesFor(released + i)
           /\ MessagesFor(released + i) \in Seq(Nat \X Phones)
           /\ Messages(released + i - 1) \in Seq(Nat \X Phones)
<1>1. /\ queue[i] = raised[released + i]
      /\ released + i - 1 \in Nat /\ released + i \in Nat
      /\ released + i \in 1 .. Len(raised)
  BY DEF StateInv, QueueInv
<1> DEFINE n == released + i - 1
<1>2. n \in Nat /\ n + 1 = released + i /\ n + 1 \in Nat
  BY <1>1 DEF StateInv, QueueInv
<1> HIDE DEF n
<1>3. TypeInv
  BY DEF StateInv
<1>4. Messages(n + 1) = Messages(n) \o MessagesFor(n + 1)
  BY <1>2, <1>3, OneMoreAlarm
<1>5. MessagesFor(n + 1) \in Seq(Nat \X Phones) /\ Messages(n) \in Seq(Nat \X Phones)
  BY <1>2, <1>3, MessagesForType, MessagesType
<1> QED BY <1>1, <1>2, <1>4, <1>5 DEF n

(* In the loop each Send writes the next message, and an alarm without a   *)
(* name has none.                                                          *)
LEMMA LoopSentInv ==
    ASSUME StateInv, SentInv, While \/ Alarm \/ Send \/ Release
    PROVE  SentInv'
<1> USE DEF startVars, sdkVars, loopVars
<1>1. /\ Len(raised) \in Nat /\ Len(queue) = Len(raised) - released
      /\ released \in 0 .. Len(raised) /\ queue \in Seq(Ips)
      /\ pc \in Loop => batch \in 1 .. Len(queue)
  BY DEF StateInv, QueueInv
<1>2. ASSUME NEW n, UNCHANGED <<cameras, raised>>
      PROVE  Messages(n)' = Messages(n) /\ MessagesFor(n)' = MessagesFor(n)
  BY <1>2 DEF Messages, MessagesFor, Named, GetCameraWarnPhone
<1>3. CASE While
  <2>1. UNCHANGED <<cameras, raised, released, sent, i>> /\ pc = "while"
        /\ pc' \in {"while", "alarm", "remove"} /\ (pc' = "alarm" => batch' = Len(queue))
    BY <1>3 DEF While
  <2>2. i = 1 /\ sent = Messages(released) /\ released + 1 - 1 = released
    BY <1>1, <2>1 DEF SentInv
  <2> QED BY <1>1, <1>2, <2>1, <2>2 DEF SentInv
<1>4. CASE Alarm
  <2> USE DEF Alarm
  <2>1. i \in 1 .. batch + 1 /\ sent = Messages(released + i - 1) /\ batch \in 1 .. Len(queue)
        /\ UNCHANGED <<cameras, raised, queue, batch, released, sent>>
    BY <1>1, <1>4 DEF SentInv
  <2>2. CASE i > batch /\ pc' = "release" /\ UNCHANGED <<i, j>>
    <3>1. released + i - 1 = released + batch
      BY <1>1, <2>1, <2>2
    <3> QED BY <1>2, <2>1, <2>2, <3>1 DEF SentInv
  <2>3. CASE i <= batch /\ (queue[i] = NoIp \/ ~Named(queue[i])) /\ SkipAlarm /\ UNCHANGED j
    <3>1. i \in 1 .. Len(queue) /\ i' = i + 1 /\ pc' = "alarm"
      BY <1>1, <1>4, <2>1, <2>3 DEF SkipAlarm
    <3>2. MessagesFor(released + i) = <<>>
      BY <2>3, <3>1, CurrentAlarm DEF MessagesFor
    <3>3. Messages(released + i) = Messages(released + i - 1)
      <4> DEFINE M == Messages(released + i - 1)
      <4>1. M \in Seq(Nat \X Phones) /\ Messages(released + i) = M \o <<>>
        BY <3>1, <3>2, CurrentAlarm
      <4> HIDE DEF M
      <4>2. M \o <<>> = M
        BY <4>1, ConcatEmptySeq
      <4> QED BY <4>1, <4>2 DEF M
    <3>4. released' + i' - 1 = released + i
      BY <1>1, <2>1, <3>1
    <3> QED BY <1>1, <1>2, <2>1, <2>3, <3>1, <3>3, <3>4 DEF SentInv
  <2>4. CASE i <= batch /\ queue[i] # NoIp /\ Named(queue[i])
             /\ pc' = "send" /\ j' = 1 /\ UNCHANGED i
    <3>1. i \in 1 .. Len(queue) /\ i \in 1 .. batch
      BY <1>1, <2>1, <2>4
    <3>2. Messages(released + i - 1) \o SubSeq(MessagesFor(released + i), 1, 0)
             = Messages(released + i - 1)
      BY <3>1, CurrentAlarm
    <3>3. Named(queue[i])' = Named(queue[i])
          /\ GetCameraWarnPhone(queue[i])' = GetCameraWarnPhone(queue[i])
      BY <2>1, <2>4 DEF Named, GetCameraWarnPhone
    <3>4. Len(GetCameraWarnPhone(queue[i])) \in Nat
      BY <2>4, WarnPhones DEF StateInv
    <3>5. MessagesFor(released + i)' = MessagesFor(released + i)
          /\ Messages(released + i - 1)' = Messages(released + i - 1)
      BY <1>2, <2>1, <2>4
    <3> QED BY <2>1, <2>4, <3>1, <3>2, <3>3, <3>4, <3>5 DEF SentInv
  <2> QED BY <1>4, <2>2, <2>3, <2>4
<1>5. CASE Send
  <2> DEFINE phones == GetCameraWarnPhone(queue[i])
             F == MessagesFor(released + i)
             M == Messages(released + i - 1)
  <2>1. /\ i \in 1 .. batch /\ i \in 1 .. Len(queue) /\ queue[i] # NoIp /\ Named(queue[i])
        /\ j \in 1 .. Len(phones) + 1 /\ sent = M \o SubSeq(F, 1, j - 1)
        /\ UNCHANGED <<cameras, raised, queue, batch, released>> /\ pc = "send"
    <3>1. pc = "send" /\ UNCHANGED <<cameras, raised, queue, batch, released>>
      BY <1>5 DEF Send
    <3>2. batch \in 1 .. Len(queue) /\ i \in 1 .. batch
      BY <1>1, <3>1 DEF SentInv
    <3>3. i \in 1 .. Len(queue)
      BY <1>1, <3>2
    <3>4. /\ queue[i] # NoIp /\ Named(queue[i]) /\ j \in 1 .. Len(phones) + 1
          /\ sent = M \o SubSeq(F, 1, j - 1)
      BY <3>1 DEF SentInv
    <3> QED BY <3>1, <3>2, <3>3, <3>4
  <2>2. phones \in Seq(Phones) /\ Len(phones) \in Nat
    BY <2>1, WarnPhones DEF StateInv
  <2>3. F = [k \in DOMAIN phones |-> <<released + i, phones[k]>>]
    BY <2>1, CurrentAlarm DEF MessagesFor
  <2>4. F \in Seq(Nat \X Phones) /\ Len(F) = Len(phones) /\ M \in Seq(Nat \X Phones)
    BY <2>1, <2>2, <2>3, CurrentAlarm
  <2>5. CASE j <= Len(phones) /\ sent' = Append(sent, <<released + i, phones[j]>>)
             /\ j' = j + 1 /\ UNCHANGED <<pc, i>>
    <3>1. F[j] = <<released + i, phones[j]>> /\ j \in 1 .. Len(F)
      BY <2>1, <2>2, <2>3, <2>4, <2>5
    <3>2. phones' = phones /\ Named(queue[i])' = Named(queue[i]) /\ F' = F /\ M' = M
      <4>1. queue'[i'] = queue[i] /\ released' + i' = released + i
            /\ released' + i' - 1 = released + i - 1 /\ UNCHANGED <<cameras, raised>>
        BY <2>1, <2>5
      <4>2. phones' = phones /\ Named(queue[i])' = Named(queue[i])
        BY <4>1 DEF Named, GetCameraWarnPhone
      <4>3. F' = F /\ M' = M
        BY <1>2, <2>5, <4>1
      <4> QED BY <4>2, <4>3
    <3> HIDE DEF F, M, phones
    <3>3. Append(M \o SubSeq(F, 1, j - 1), F[j]) = M \o SubSeq(F, 1, j)
      BY <2>4, <3>1, AppendNext
    <3>4. sent' = M' \o SubSeq(F', 1, j' - 1)
      <4>1. j' - 1 = j /\ sent' = Append(M \o SubSeq(F, 1, j - 1), F[j])
        BY <2>1, <2>5, <3>1
      <4> QED BY <3>2, <3>3, <4>1
    <3>5. j' \in 1 .. Len(phones') + 1
      BY <2>1, <2>2, <2>5, <3>2
    <3> QED BY <2>1, <2>5, <3>2, <3>4, <3>5 DEF SentInv, F, M, phones
  <2>6. CASE pc' = "aborted"
    BY <2>6 DEF SentInv
  <2>7. CASE j > Len(phones) /\ pc' = "alarm" /\ i' = i + 1 /\ UNCHANGED <<j, sent>>
    <3>1. SubSeq(F, 1, j - 1) = F
      BY <2>1, <2>2, <2>4, <2>7
    <3>2. sent = Messages(released + i)
      BY <2>1, <3>1, CurrentAlarm
    <3>3. released' + i' - 1 = released + i /\ i' \in 1 .. batch' + 1
      BY <1>1, <2>1, <2>7
    <3> QED BY <1>2, <2>1, <2>7, <3>2, <3>3 DEF SentInv
  <2> QED BY <1>5, <2>5, <2>6, <2>7 DEF Send
<1>6. CASE Release
  BY <1>1, <1>2, <1>6 DEF Release, Offset, SentInv
<1> QED BY <1>3, <1>4, <1>5, <1>6

(* The callback, an owner and the signal handler send nothing and change   *)
(* nothing that is sent.                                                   *)
LEMMA AroundSentInv ==
    ASSUME StateInv, SentInv,
           \/ \E c \in armed, ip \in Ips : Motion(c, ip)
           \/ \E c \in DOMAIN motion, p \in PicCfgs : Owner(c, p)
           \/ Sigterm \/ UNCHANGED vars
    PROVE  SentInv'
<1> USE DEF startVars, sdkVars, loopVars
<1>1. CASE \E c \in armed, ip \in Ips : Motion(c, ip)
  <2>1. PICK c \in armed, ip \in Ips : Motion(c, ip)
    BY <1>1
  <2>2. raised \in Seq(Ips) /\ queue \in Seq(Ips)
    BY DEF StateInv, QueueInv
  <2>3. (\A k \in 1 .. Len(raised) : raised'[k] = raised[k])
        /\ (\A k \in 1 .. Len(queue) : queue'[k] = queue[k])
    BY <2>1, <2>2 DEF Motion
  <2> QED BY <2>1, <2>3, SentKept DEF Motion
<1>2. CASE (\E c \in DOMAIN motion, p \in PicCfgs : Owner(c, p)) \/ Sigterm \/ UNCHANGED vars
  BY <1>2, SentKept DEF Owner, Sigterm, vars
<1> QED BY <1>1, <1>2

(* So SentInv is an invariant. *)
LEMMA AlwaysSentInv == Spec => []SentInv
<1>1. StateInv /\ SentInv /\ [Next]_vars => SentInv'
  <2> SUFFICES ASSUME StateInv, SentInv, [Next]_vars PROVE SentInv'
    OBVIOUS
  <2>1. CASE Main
    BY <2>1, StartupSentInv, LoopSentInv DEF Main
  <2>2. CASE \/ \E c \in armed, ip \in Ips : Motion(c, ip)
             \/ \E c \in DOMAIN motion, p \in PicCfgs : Owner(c, p)
             \/ Sigterm \/ UNCHANGED vars
    BY <2>2, AroundSentInv
  <2> QED BY <2>1, <2>2 DEF Next, Terminated
<1> QED BY AlwaysStateInv, InitSentInv, <1>1, PTL DEF Spec

(* Each phone of each alarm gets its message once: between two batches the *)
(* messages written are those of the alarms the ring has got back, for     *)
(* every table, order of the callbacks and moment of SIGTERM.              *)
THEOREM MessagesCorrect == Spec => []EachPhoneOnce
<1>1. StateInv /\ SentInv => EachPhoneOnce
  BY DEF StateInv, QueueInv, SentInv, EachPhoneOnce
<1> QED BY AlwaysStateInv, AlwaysSentInv, <1>1, PTL

=============================================================================

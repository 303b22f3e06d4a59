---------------------------- MODULE AlarmService ----------------------------
(***************************************************************************)
(* The life of one mdalarm process: main() of main.cpp from the pid file   *)
(* to the clean-up, with the calls it makes into CsvParse,                 *)
(* DataBaseOperate, HikDevOperate and SerialPort, each of which may fail,  *)
(* the SDK thread that records motions while main does something else, the *)
(* owners of the cameras, who change their settings, and SIGTERM at any    *)
(* moment.                                                                 *)
(*                                                                         *)
(* The ring is the queue that AlarmRing implements, and no more alarms are *)
(* recorded than it has room for.  A camera of the table has its ip, its   *)
(* phones, and whether its login_port is a number.                         *)
(***************************************************************************)
EXTENDS Integers, SequencesExt

CONSTANTS
    CameraTables,  \* what GetCameraInfoFromDB may have read
    NoIp,          \* an empty ip
    ForeignIp,     \* an ip the table does not have
    ShortPhones,   \* the phone numbers of one to six digits
    PicCfgs,       \* the settings an owner may give a camera
    MaxEvents      \* bound: alarms recorded and changes of settings in a behaviour

ASSUME ServiceAssumption ==
    \A t \in CameraTables :
        /\ t \in Seq(ToSet(t))
        /\ \A c \in DOMAIN t : t[c].phones \in Seq(ToSet(t[c].phones))

(* NET_DVR_PICCFG_V30: byEnableHandleMotion, byMotionSensitive, the rest.  *)
Settings == [on : BOOLEAN, sensitive : Nat, other : {p.other : p \in PicCfgs}]

ASSUME SettingsAssumption == PicCfgs \subseteq Settings

VARIABLES
    pc,          \* where main is
    ServiceRun,  \* the flag of the while loop
    pidFile,     \* /var/run/mdalarm/mdalarm.pid: none, self, empty, or stale
    cameras,     \* CameraInfoFromDB with IpWarnToPhoneFromDB
    sdk,         \* NET_DVR_Init has succeeded, NET_DVR_Cleanup not been called
    cam,         \* the camera the login loop is at
    motion,      \* per camera, the settings it has
    struPicCfg,  \* the settings HikDevMotionDetectCfg has read, with its changes
    callback,    \* HikDevAlarmCallback is registered
    armed,       \* the cameras with an alarm channel
    serial,      \* the port: closed, open (but not set) or normal
    queue,       \* the ips of the alarms in the ring
    batch, i, j, \* uiAlarmNum, the alarm and the phone main is at
    raised,      \* history: the ips of the alarms recorded
    released,    \* history: how many of them the ring has got back
    sent,        \* history: <<alarm, phone>> of every writeBuffer
    wanted,      \* history: per camera, the settings its owner gave it last
    touched,     \* history: per camera, whether its owner has changed them since
                 \* the service read them, and whether that change was lost
    changes,     \* history: how often owners have changed settings
    failed       \* history: the calls of the clean-up that have failed

cameraVars == <<motion, struPicCfg, wanted, touched, changes>>
startVars == <<pidFile, cameras, sdk, cam, cameraVars, callback, armed, serial, failed>>
loopVars  == <<batch, i, j, released, sent>>
sdkVars   == <<queue, raised>>
vars == <<pc, ServiceRun, startVars, loopVars, sdkVars>>

Init ==
    /\ pc = "pid"
    /\ ServiceRun = TRUE
    /\ pidFile \in {"none", "stale"}
    /\ cameras = <<>>
    /\ sdk = FALSE
    /\ cam = 1
    /\ motion = <<>> /\ wanted = <<>> /\ touched = <<>>
    /\ struPicCfg = <<>> /\ changes = 0
    /\ failed = {}
    /\ callback = FALSE
    /\ armed = {}
    /\ serial = "closed"
    /\ queue = <<>> /\ raised = <<>>
    /\ batch = 0 /\ i = 1 /\ j = 1
    /\ released = 0 /\ sent = <<>>

-----------------------------------------------------------------------------
(* Startup: a step that fails clears ServiceRun and main goes on. *)

Outcome(ok) == ServiceRun' = (ServiceRun /\ ok)

(* A file left by an earlier process is taken over.  mkdir, open or        *)
(* ftruncate may fail and leave it, or no file; write may fail and leave   *)
(* it empty.                                                               *)
CreatePidFile ==
    /\ pc = "pid" /\ pc' = "csv"
    /\ \/ pidFile' = "self" /\ Outcome(TRUE)
       \/ pidFile' \in {pidFile, "empty"} /\ Outcome(FALSE)
    /\ UNCHANGED <<cameras, sdk, cam, cameraVars, callback, armed, serial, failed, loopVars,
                   sdkVars>>

(* Reading DbCfg.csv and its port number.  A file that is not there or has *)
(* the wrong columns makes csv.h throw, and nothing catches.               *)
ParseCsvData ==
    /\ pc = "csv"
    /\ \/ pc' = "connect" /\ \E ok \in BOOLEAN : Outcome(ok)
       \/ pc' = "aborted" /\ UNCHANGED ServiceRun
    /\ UNCHANGED <<startVars, loopVars, sdkVars>>

(* A failure leaves no camera (FailureLeavesNoCamera of CameraDb). *)
ConnectDataBase ==
    /\ pc = "connect" /\ pc' = "sdk"
    /\ \/ cameras' \in CameraTables /\ Outcome(TRUE)
       \/ cameras' = <<>> /\ Outcome(FALSE)
    /\ wanted' \in [DOMAIN cameras' -> PicCfgs] /\ motion' = wanted'
    /\ touched' = [c \in DOMAIN cameras' |-> "no"]
    /\ UNCHANGED <<pidFile, sdk, cam, struPicCfg, changes, callback, armed, serial, failed,
                   loopVars, sdkVars>>

AfterSDK_Return(ok) == IF ok THEN "login" ELSE "exited"
AfterSDK(ok) == "login"

InitialSDK ==
    /\ pc = "sdk"
    /\ \E ok \in BOOLEAN : sdk' = ok /\ Outcome(ok) /\ pc' = AfterSDK(ok)
    /\ UNCHANGED <<pidFile, cameras, cam, cameraVars, callback, armed, serial, failed,
                   loopVars, sdkVars>>

(* The login loop.  A camera without an ip or a port, or that refuses the  *)
(* login, is left out for good; the loop does not look at ServiceRun.      *)
NextCamera_Retry == pc' = "login" /\ UNCHANGED cam
NextCamera == pc' = "login" /\ cam' = cam + 1

HikDevLogin ==
    /\ pc = "login"
    /\ \/ /\ cam > Len(cameras)
          /\ pc' = "open" /\ UNCHANGED cam
       \/ /\ cam <= Len(cameras)
          /\ cameras[cam].ip # NoIp /\ cameras[cam].portOk /\ sdk
          /\ pc' = "motion" /\ UNCHANGED cam
       \/ cam <= Len(cameras) /\ NextCamera
    /\ UNCHANGED <<ServiceRun, pidFile, cameras, sdk, cameraVars, callback, armed, serial,
                   failed, loopVars, sdkVars>>

(* HikDevStartAlarm, call by call; main ignores its result.  First the     *)
(* settings of the camera are read.  If its motion detection is off they   *)
(* are written back, all of them, with it switched on.                     *)
SwitchedOn_Skip(p) == p
SwitchedOn(p) == [p EXCEPT !.on = TRUE, !.sensitive = 4]

IsNeedToSetCfg_Always(p) == TRUE
IsNeedToSetCfg(p) == ~p.on

GetDVRConfig ==
    /\ pc = "motion"
    /\ \/ /\ touched' = [touched EXCEPT ![cam] = "no"]
          /\ IF IsNeedToSetCfg(motion[cam])
             THEN struPicCfg' = SwitchedOn(motion[cam]) /\ pc' = "set"
             ELSE struPicCfg' = motion[cam] /\ pc' = "callback"
          /\ UNCHANGED cam
       \/ NextCamera /\ UNCHANGED <<struPicCfg, touched>>
    /\ UNCHANGED <<ServiceRun, pidFile, cameras, sdk, motion, wanted, changes, callback,
                   armed, serial, failed, loopVars, sdkVars>>

(* A call that fails may have reached the camera all the same. *)
SetDVRConfig ==
    /\ pc = "set"
    /\ \/ /\ motion' = [motion EXCEPT ![cam] = struPicCfg]
          /\ touched' = [touched EXCEPT ![cam] = IF @ = "no" THEN "no" ELSE "lost"]
          /\ (pc' = "callback" /\ UNCHANGED cam) \/ NextCamera
       \/ NextCamera /\ UNCHANGED <<motion, touched>>
    /\ UNCHANGED <<ServiceRun, pidFile, cameras, sdk, struPicCfg, wanted, changes, callback,
                   armed, serial, failed, loopVars, sdkVars>>

SetMessageCallBack ==
    /\ pc = "callback"
    /\ \/ callback' = TRUE /\ pc' = "channel" /\ UNCHANGED cam
       \/ NextCamera /\ UNCHANGED callback
    /\ UNCHANGED <<ServiceRun, pidFile, cameras, sdk, cameraVars, armed, serial, failed,
                   loopVars, sdkVars>>

SetupAlarmChan ==
    /\ pc = "channel"
    /\ NextCamera
    /\ armed' \in {armed, armed \cup {cam}}
    /\ UNCHANGED <<ServiceRun, pidFile, cameras, sdk, cameraVars, callback, serial, failed,
                   loopVars, sdkVars>>

(* SerialPort::Open: no device, a device that cannot be set, or success. *)
Opened_Found(state) == state # "closed"
Opened(state) == state = "normal"

OpenSerial ==
    /\ pc = "open" /\ pc' = "while"
    /\ serial' \in {"closed", "open", "normal"}
    /\ Outcome(Opened(serial'))
    /\ UNCHANGED <<pidFile, cameras, sdk, cam, cameraVars, callback, armed, failed, loopVars,
                   sdkVars>>

-----------------------------------------------------------------------------
(* The loop. *)

(* One batch is what is in the ring; main sleeps when that is nothing. *)
While ==
    /\ pc = "while"
    /\ IF ServiceRun
       THEN /\ batch' = Len(queue)
            /\ pc' = IF queue = <<>> THEN "while" ELSE "alarm"
       ELSE pc' = "remove" /\ UNCHANGED batch
    /\ UNCHANGED <<ServiceRun, startVars, i, j, released, sent, sdkVars>>

(* GetCameraName finds the first camera with that ip, GetCameraWarnPhone   *)
(* has the phones of the last; one is found when the other is              *)
(* (NamedMeansPhones of CameraDb).                                         *)
Named(ip) == \E c \in DOMAIN cameras : cameras[c].ip = ip
GetCameraWarnPhone(ip) ==
    LET S == {c \in DOMAIN cameras : cameras[c].ip = ip} IN
    cameras[CHOOSE c \in S : \A d \in S : d <= c].phones

(* An alarm without a valid ip, or of a camera that is not in the table,   *)
(* is skipped.                                                             *)
SkipAlarm_Break == pc' = "release" /\ UNCHANGED i
SkipAlarm == i' = i + 1 /\ UNCHANGED pc

Alarm ==
    /\ pc = "alarm"
    /\ \/ /\ i > batch
          /\ pc' = "release" /\ UNCHANGED <<i, j>>
       \/ /\ i <= batch /\ (queue[i] = NoIp \/ ~Named(queue[i]))
          /\ SkipAlarm /\ UNCHANGED j
       \/ /\ i <= batch /\ queue[i] # NoIp /\ Named(queue[i])
          /\ pc' = "send" /\ j' = 1 /\ UNCHANGED i
    /\ UNCHANGED <<ServiceRun, startVars, batch, released, sent, sdkVars>>

(* PackMsgToAlarm and writeBuffer for each phone.  A short phone number    *)
(* makes PackMsgToAlarm throw (MessageText), and nothing catches.          *)
Send ==
    /\ pc = "send"
    /\ LET phones == GetCameraWarnPhone(queue[i]) IN
       \/ /\ j <= Len(phones) /\ phones[j] \notin ShortPhones
          /\ sent' = Append(sent, <<released + i, phones[j]>>)
          /\ j' = j + 1
          /\ UNCHANGED <<pc, i>>
       \/ /\ j <= Len(phones) /\ phones[j] \in ShortPhones
          /\ pc' = "aborted"
          /\ UNCHANGED <<i, j, sent>>
       \/ /\ j > Len(phones)
          /\ pc' = "alarm" /\ i' = i + 1
          /\ UNCHANGED <<j, sent>>
    /\ UNCHANGED <<ServiceRun, startVars, batch, released, sdkVars>>

(* HikDevSetAlarmIdxOffset gives the whole batch back. *)
Offset_Resampled == Len(queue)
Offset == batch

Release ==
    /\ pc = "release" /\ pc' = "while"
    /\ queue' = SubSeq(queue, Offset + 1, Len(queue))
    /\ released' = released + Offset
    /\ batch' = 0 /\ i' = 1 /\ j' = 1
    /\ UNCHANGED <<ServiceRun, startVars, sent, raised>>

-----------------------------------------------------------------------------
(* The end of main, which goes on whatever its calls answer. *)

(* remove fails without a file to remove, or otherwise, and leaves it. *)
RemovePidFile ==
    /\ pc = "remove" /\ pc' = "close"
    /\ \/ pidFile' = "none" /\ UNCHANGED failed
       \/ failed' = failed \cup {"remove"} /\ UNCHANGED pidFile
    /\ UNCHANGED <<ServiceRun, cameras, sdk, cam, cameraVars, callback, armed, serial,
                   loopVars, sdkVars>>

(* close frees the descriptor also when it reports an error. *)
CloseSerial ==
    /\ pc = "close" /\ pc' = "deinit"
    /\ serial' = "closed"
    /\ UNCHANGED <<ServiceRun, pidFile, cameras, sdk, cam, cameraVars, callback, armed,
                   failed, loopVars, sdkVars>>

(* NET_DVR_Cleanup ends the alarm channels, or fails and leaves them. *)
DeinitialSDK ==
    /\ pc = "deinit" /\ pc' = "exited"
    /\ \/ sdk' = FALSE /\ armed' = {} /\ UNCHANGED failed
       \/ failed' = failed \cup {"cleanup"} /\ UNCHANGED <<sdk, armed>>
    /\ UNCHANGED <<ServiceRun, pidFile, cameras, cam, cameraVars, callback, serial, loopVars,
                   sdkVars>>

Terminated ==
    /\ pc \in {"exited", "aborted"}
    /\ UNCHANGED vars

-----------------------------------------------------------------------------
(* Around main. *)

(* The callback records a motion of an armed camera, with the ip the       *)
(* camera reports.                                                         *)
Motion(c, ip) ==
    /\ c \in armed /\ callback /\ pc \notin {"exited", "aborted"}
    /\ motion[c].on
    /\ Len(raised) + changes < MaxEvents
    /\ ip \in {cameras[c].ip, NoIp, ForeignIp}
    /\ queue' = Append(queue, ip)
    /\ raised' = Append(raised, ip)
    /\ UNCHANGED <<pc, ServiceRun, startVars, loopVars>>

(* The owner of a camera changes its settings, with another client. *)
Owner(c, p) ==
    /\ c \in DOMAIN motion /\ pc \notin {"exited", "aborted"}
    /\ Len(raised) + changes < MaxEvents /\ changes' = changes + 1
    /\ p # motion[c]
    /\ motion' = [motion EXCEPT ![c] = p]
    /\ wanted' = [wanted EXCEPT ![c] = p]
    /\ touched' = [touched EXCEPT ![c] = "yes"]
    /\ UNCHANGED <<pc, ServiceRun, pidFile, cameras, sdk, cam, struPicCfg, callback, armed,
                   serial, failed, loopVars, sdkVars>>

Sigterm ==
    /\ ServiceRun /\ pc \notin {"exited", "aborted"}
    /\ ServiceRun' = FALSE
    /\ UNCHANGED <<pc, startVars, loopVars, sdkVars>>

Main ==
    \/ CreatePidFile \/ ParseCsvData \/ ConnectDataBase \/ InitialSDK
    \/ HikDevLogin \/ GetDVRConfig \/ SetDVRConfig \/ SetMessageCallBack
    \/ SetupAlarmChan \/ OpenSerial
    \/ While \/ Alarm \/ Send \/ Release
    \/ RemovePidFile \/ CloseSerial \/ DeinitialSDK

Ips == {cameras[c].ip : c \in DOMAIN cameras} \cup {NoIp, ForeignIp}

Next ==
    \/ Main
    \/ \E c \in armed, ip \in Ips : Motion(c, ip)
    \/ \E c \in DOMAIN motion, p \in PicCfgs : Owner(c, p)
    \/ Sigterm
    \/ Terminated

(* Every call main makes is taken to return.  The code itself sets a       *)
(* timeout for MySQL's connection only and opens the port without          *)
(* blocking; the rest is up to the SDK and the system.                     *)
Spec == Init /\ [][Next]_vars /\ WF_vars(Main)

-----------------------------------------------------------------------------
(* Properties. *)

(* Alarms are handled only by a service whose startup has succeeded as a   *)
(* whole: one step that failed, however many came after it, keeps main out *)
(* of the loop.                                                            *)
HandlesOnlyWhenReady ==
    pc \in {"alarm", "send", "release"} =>
        pidFile = "self" /\ sdk /\ serial = "normal" /\ cameras # <<>>

(* A camera is armed only with the callback registered and its motion      *)
(* detection on, unless its owner has changed the settings since           *)
(* HikDevMotionDetectCfg looked at them.                                   *)
ArmedDetects ==
    \A c \in armed : callback /\ (motion[c].on \/ touched[c] = "yes")

(* The settings are read and written back as a whole while owners change   *)
(* them.  A camera has what its owner gave it last, or that with the       *)
(* motion detection switched on where the owner had it off; the only       *)
(* change of an owner that can get lost is one that falls between          *)
(* NET_DVR_GetDVRConfig and NET_DVR_SetDVRConfig.                          *)
SettingsKept ==
    \A c \in DOMAIN motion :
        \/ motion[c] = wanted[c]
        \/ ~wanted[c].on /\ motion[c] = [wanted[c] EXCEPT !.on = TRUE, !.sensitive = 4]
        \/ touched[c] = "lost" /\ motion[c].on

(* The messages of the first n alarms: for each alarm of a camera in the   *)
(* table every phone of it, in order, once.                                *)
MessagesFor(n) ==
    IF ~Named(raised[n]) \/ raised[n] = NoIp THEN <<>>
    ELSE LET phones == GetCameraWarnPhone(raised[n]) IN
         [k \in DOMAIN phones |-> <<n, phones[k]>>]
Messages(n) == FlattenSeq([k \in 1 .. n |-> MessagesFor(k)])

(* Between two batches, the messages written are those of the alarms the   *)
(* ring has got back, and the ring holds the others: an alarm that arrives *)
(* during a batch, a skipped alarm or SIGTERM loses and repeats nothing.   *)
EachPhoneOnce ==
    pc \notin {"alarm", "send", "release", "aborted"} =>
        /\ sent = Messages(released)
        /\ queue = SubSeq(raised, released + 1, Len(raised))

(* An alarm of a camera in the table, recorded at any time from the login  *)
(* loop on, is sent to all its phones, unless the service is stopping or a *)
(* short phone number has brought it down.                                 *)
AlarmsAreSent ==
    \A n \in 1 .. MaxEvents :
        (Len(raised) >= n)
            ~> \/ Len(raised) >= n /\ IsPrefix(Messages(n), sent)
               \/ ~ServiceRun
               \/ pc = "aborted"

(* SIGTERM, and every failure of the startup, ends the process, from       *)
(* wherever main is.                                                       *)
StopsInTheEnd == ~ServiceRun ~> pc \in {"exited", "aborted"}

(* A process that returns from main, however far its startup came, has     *)
(* tried to undo all of it: what is left behind is left by the very call   *)
(* that failed to take it away, and a failed remove keeps neither the port *)
(* nor the SDK from being released.                                        *)
ExitCleansUp ==
    pc = "exited" =>
        /\ pidFile = "none" \/ "remove" \in failed
        /\ serial = "closed"
        /\ (~sdk /\ armed = {}) \/ "cleanup" \in failed

=============================================================================

----------------------------- MODULE CameraDemo -----------------------------
(***************************************************************************)
(* The camera demo: one activity that owns a Camera (field mCamera) and a  *)
(* MediaRecorder (field mrec), shared by button listeners, the picture     *)
(* callback, onResume, onPause and the callbacks of the preview surface.   *)
(* All of them run on the main thread, in an order the framework chooses.  *)
(* A tap on a button only queues its click: onClick runs later, and looks  *)
(* neither at the visibility of its button nor for a pause in between.     *)
(* Cameras and recorders are numbered as they are made; 0 is null.         *)
(***************************************************************************)
EXTENDS Integers, Sequences, FiniteSets

CONSTANTS
    MaxCameras,     \* bound on Camera.open
    MaxRecorders,   \* bound on new MediaRecorder()
    MaxFaults,      \* bound on failed library calls and lost surfaces
    MaxQueue        \* bound: a tap finds fewer messages than this waiting

ASSUME CamerasAssumption == MaxCameras \in Nat /\ MaxRecorders \in Nat \ {0}
ASSUME FaultsAssumption == MaxFaults \in Nat
ASSUME QueueAssumption == MaxQueue \in Nat

Cameras == 1..MaxCameras
Recorders == 1..MaxRecorders
Buttons == {"Capture", "Record", "Switch"}
Messages == {"resume", "pause", "picture"} \cup Buttons

VARIABLES
    life,       \* "resumed" or "paused"
    surface,    \* "none"; "new": view set, not laid out; "shown"; "gone"
    sizing,     \* surfaceCreated has returned, surfaceChanged follows
    mCamera, opened, camState, camId,
    current_camera,
    mrec, made, recState,
    recording,
    visible,    \* the buttons that can be seen
    mic,        \* the last CUSTOMIZE_INPUT: 1 internal microphone, 2 line in
    queue,      \* messages of the main thread
    faults,
    lastSwitch, \* history: how the last switchCamera ended
    lastStart,  \* history: how the last startRecording ended
    strays,     \* history: the buttons whose onClick has run in a pause, or
                \* with the button hidden, since the last onResume or onPause
    crashed

camVars == <<mCamera, opened, camState, camId>>
recVars == <<mrec, made, recState>>
screenVars == <<life, surface, sizing>>
vars == <<screenVars, camVars, current_camera, recVars, recording, visible, mic,
          queue, faults, lastSwitch, lastStart, strays, crashed>>

CamStates == {"none", "idle", "preview", "taking", "unlocked", "released"}
RecStates == {"none", "initial", "recording", "released"}

(* The fields, and the cameras, recorders and messages, keep their types.   *)
TypeOK ==
    /\ life \in {"resumed", "paused"}
    /\ surface \in {"none", "new", "shown", "gone"}
    /\ sizing \in BOOLEAN
    /\ mCamera \in Cameras \cup {0} /\ opened \in 0..MaxCameras
    /\ camState \in [Cameras -> CamStates]
    /\ camId \in [Cameras -> {0, 1}]
    /\ current_camera \in {0, 1}
    /\ mrec \in Recorders \cup {0} /\ made \in 1..MaxRecorders
    /\ recState \in [Recorders -> RecStates]
    /\ recording \in BOOLEAN
    /\ visible \subseteq Buttons
    /\ mic \in {1, 2}
    /\ queue \in Seq(Messages)
    /\ faults \in 0..MaxFaults
    /\ lastSwitch \in {"ok", "failed"} /\ lastStart \in {"ok", "failed"}
    /\ strays \subseteq Buttons
    /\ crashed \in BOOLEAN

Init ==
    /\ life = "paused" /\ surface = "none" /\ sizing = FALSE
    /\ mCamera = 0 /\ opened = 0
    /\ camState = [c \in Cameras |-> "none"]
    /\ camId = [c \in Cameras |-> 0]
    /\ current_camera = 0
    /\ mrec = 1 /\ made = 1
    /\ recState = [r \in Recorders |-> IF r = 1 THEN "initial" ELSE "none"]
    /\ recording = FALSE
    /\ visible = {}
    /\ mic = 1
    /\ queue = <<"resume">>
    /\ faults = 0
    /\ lastSwitch = "ok" /\ lastStart = "ok" /\ strays = {}
    /\ crashed = FALSE

-----------------------------------------------------------------------------
(* What the library does.                                                   *)

Fault == faults < MaxFaults /\ faults' = faults + 1

(* An exception nobody catches ends the process.                            *)
Crash ==
    /\ crashed' = TRUE
    /\ UNCHANGED <<screenVars, camVars, current_camera, recVars, recording, mic,
                   lastSwitch, lastStart>>

HeldStates == {"idle", "preview", "taking", "unlocked"}
Held(c) == camState[c] \in HeldStates
Usable(c) == c # 0 /\ camState[c] \in {"idle", "preview"}
Previews(c) == c # 0 /\ camState[c] = "preview"
Unlocks(c) == c # 0 /\ camState[c] \in {"idle", "preview", "taking"}

(* if (null != mCamera) { mCamera.stopPreview(); ... } does not throw.      *)
StopsPreview(c) == c # 0 => camState[c] \in {"idle", "preview", "taking"}

(* Camera.open(current_camera), by the value current_camera has then.       *)
Open(id) ==
    /\ opened < MaxCameras
    /\ opened' = opened + 1
    /\ mCamera' = opened + 1
    /\ camId' = [camId EXCEPT ![opened + 1] = id]

ReleasedCam(c) == IF c = 0 THEN camState ELSE [camState EXCEPT ![c] = "released"]
ReleasedRec(r) == IF r = 0 THEN recState ELSE [recState EXCEPT ![r] = "released"]

(* Mutant: the field is cleared, the recorder is left to the collector.     *)
MutDropRecorder == mrec' = 0 /\ UNCHANGED <<made, recState>>

(* if (null != mrec) { mrec.release(); mrec = null; }                       *)
DropRecorder ==
    /\ recState' = ReleasedRec(mrec)
    /\ mrec' = 0
    /\ UNCHANGED made

-----------------------------------------------------------------------------
(* The activity.                                                            *)

Running == ~crashed /\ ~sizing
Handles(m) == Running /\ queue # <<>> /\ Head(queue) = m /\ queue' = Tail(queue)

(* setContentView takes the surface of an old layout away, which runs       *)
(* surfaceDestroyed at once; a camera that was opened in the pause and is   *)
(* still held is not opened again.  The new layout shows all its buttons.   *)
OnResume ==
    /\ Handles("resume")
    /\ mic' = current_camera + 1
    /\ life' = "resumed" /\ surface' = "new"
    /\ recording' = FALSE
    /\ visible' = Buttons
    /\ IF surface = "shown" THEN DropRecorder ELSE UNCHANGED recVars
    /\ LET stops == surface = "shown" => StopsPreview(mCamera)
           left  == IF surface = "shown" THEN ReleasedCam(mCamera) ELSE camState
           free  == \A c \in Cameras :
                        left[c] \in HeldStates => camId[c] # current_camera
       IN  \/ /\ stops /\ free
              /\ Open(current_camera)
              /\ camState' = [left EXCEPT ![opened + 1] = "idle"]
              /\ strays' = {}
              /\ UNCHANGED <<faults, crashed>>
           \/ /\ IF stops /\ free THEN Fault ELSE UNCHANGED faults
              /\ crashed' = TRUE
              /\ camState' = IF stops THEN left ELSE camState
              /\ UNCHANGED <<mCamera, opened, camId, strays>>
    /\ lastSwitch' = "ok"
    /\ UNCHANGED <<sizing, current_camera, lastStart>>

(* Mutant: the camera is left to the surface, as surfaceDestroyed has it.   *)
MutOnPause ==
    /\ Handles("pause")
    /\ life' = "paused"
    /\ recording' = FALSE
    /\ DropRecorder
    /\ mCamera' = 0
    /\ mic' = 1 /\ strays' = {}
    /\ UNCHANGED <<surface, sizing, opened, camState, camId, current_camera, visible,
                   faults, lastSwitch, lastStart, crashed>>

OnPause ==
    /\ Handles("pause")
    /\ life' = "paused"
    /\ recording' = FALSE
    /\ DropRecorder
    /\ camState' = ReleasedCam(mCamera) /\ mCamera' = 0
    /\ mic' = 1 /\ strays' = {}
    /\ UNCHANGED <<surface, sizing, opened, camId, current_camera, visible,
                   faults, lastSwitch, lastStart, crashed>>

(* The bounds leave a camera and a recorder for every message that waits.   *)
Waiting(b) == Cardinality({k \in DOMAIN queue : queue[k] = b})
RoomFor(b) ==
    /\ b = "Switch" => opened + Waiting(b) < MaxCameras
    /\ b = "Record" => made + Waiting(b) < MaxRecorders

(* The system asks for the other one of onPause and onResume.               *)
SystemAsks ==
    /\ ~crashed
    /\ LET m == IF life = "resumed" THEN "pause" ELSE "resume"
       IN  /\ \A k \in DOMAIN queue : queue[k] # m
           /\ m = "resume" => RoomFor("Switch")
           /\ queue' = Append(queue, m)
    /\ UNCHANGED <<screenVars, camVars, current_camera, recVars, recording, visible,
                   mic, faults, lastSwitch, lastStart, strays, crashed>>

-----------------------------------------------------------------------------
(* The preview surface.                                                     *)

(* Laying out the view creates the surface; so does getting it back.  With  *)
(* mCamera null surfaceCreated only says so and calls finish().             *)
SurfaceCreated ==
    /\ Running
    /\ surface = "new" \/ (surface = "gone" /\ life = "resumed")
    /\ \/ /\ mCamera = 0 \/ Usable(mCamera)
          /\ surface' = "shown" /\ sizing' = TRUE
          /\ UNCHANGED <<life, camVars, current_camera, recVars, recording, mic,
                         lastSwitch, lastStart, faults, crashed>>
       \/ /\ mCamera # 0 /\ ~Usable(mCamera)
          /\ Crash /\ UNCHANGED faults
       \/ /\ Usable(mCamera)
          /\ Fault /\ Crash
    /\ UNCHANGED <<visible, queue, strays>>

(* mCamera.startPreview(), without a test of mCamera.                       *)
SurfaceChanged ==
    /\ ~crashed /\ sizing
    /\ \/ /\ Usable(mCamera)
          /\ sizing' = FALSE
          /\ camState' = [camState EXCEPT ![mCamera] = "preview"]
          /\ UNCHANGED <<life, surface, mCamera, opened, camId, current_camera, recVars,
                         recording, mic, lastSwitch, lastStart, faults, crashed>>
       \/ ~Usable(mCamera) /\ Crash /\ UNCHANGED faults
       \/ Usable(mCamera) /\ Fault /\ Crash
    /\ UNCHANGED <<visible, queue, strays>>

(* The surface goes: when the activity is paused, or, as a fault, before.   *)
(* surfaceDestroyed releases the camera and keeps the field.                *)
SurfaceDestroyed ==
    /\ Running
    /\ surface = "shown"
    /\ IF life = "paused" THEN UNCHANGED faults ELSE Fault
    /\ surface' = "gone"
    /\ DropRecorder
    /\ IF StopsPreview(mCamera)
       THEN camState' = ReleasedCam(mCamera) /\ UNCHANGED crashed
       ELSE crashed' = TRUE /\ UNCHANGED camState
    /\ UNCHANGED <<life, sizing, mCamera, opened, camId, current_camera, recording,
                   visible, mic, queue, lastSwitch, lastStart, strays>>

-----------------------------------------------------------------------------
(* The buttons.                                                             *)

(* A visible button of a laid out, resumed activity can be tapped: the view *)
(* posts its click behind the messages that wait.                           *)
Tap(b) ==
    /\ Running
    /\ life = "resumed" /\ surface \in {"shown", "gone"}
    /\ b \in visible
    /\ Len(queue) < MaxQueue /\ RoomFor(b)
    /\ queue' = Append(queue, b)
    /\ UNCHANGED <<screenVars, camVars, current_camera, recVars, recording, visible,
                   mic, faults, lastSwitch, lastStart, strays, crashed>>

(* onClick begins, whatever has happened since the tap.                     *)
Clicked(b) ==
    /\ Handles(b)
    /\ strays' = IF life = "resumed" /\ b \in visible THEN strays
                                                     ELSE strays \cup {b}

(* Mutant: the buttons stay while the picture is taken.                     *)
MutCapture ==
    /\ Clicked("Capture")
    /\ \/ /\ Previews(mCamera)
          /\ camState' = [camState EXCEPT ![mCamera] = "taking"]
          /\ UNCHANGED <<screenVars, mCamera, opened, camId, current_camera, recVars,
                         recording, mic, lastSwitch, lastStart, faults, crashed>>
       \/ ~Previews(mCamera) /\ Crash /\ UNCHANGED faults
    /\ UNCHANGED visible

(* takePicture needs a preview, and a camera.                               *)
Capture ==
    /\ Clicked("Capture")
    /\ visible' = {}
    /\ \/ /\ Previews(mCamera)
          /\ camState' = [camState EXCEPT ![mCamera] = "taking"]
          /\ UNCHANGED <<screenVars, mCamera, opened, camId, current_camera, recVars,
                         recording, mic, lastSwitch, lastStart, faults, crashed>>
       \/ ~Previews(mCamera) /\ Crash /\ UNCHANGED faults
       \/ Previews(mCamera) /\ Fault /\ Crash

(* The camera posts the picture to the main thread; a preview has to be     *)
(* started again.  The message outlives the release of the camera.          *)
PictureReady(c) ==
    /\ ~crashed
    /\ camState[c] = "taking"
    /\ camState' = [camState EXCEPT ![c] = "idle"]
    /\ queue' = Append(queue, "picture")
    /\ UNCHANGED <<screenVars, mCamera, opened, camId, current_camera, recVars,
                   recording, visible, mic, faults, lastSwitch, lastStart, strays,
                   crashed>>

(* Mutant: the buttons are shown only when the picture could be saved.      *)
MutOnPictureTaken ==
    /\ Handles("picture") /\ UNCHANGED strays
    /\ \/ /\ Usable(mCamera)
          /\ camState' = [camState EXCEPT ![mCamera] = "preview"]
          /\ visible' \in {visible, Buttons}
          /\ UNCHANGED <<screenVars, mCamera, opened, camId, current_camera, recVars,
                         recording, mic, lastSwitch, lastStart, faults, crashed>>
       \/ ~Usable(mCamera) /\ Crash /\ UNCHANGED <<visible, faults>>
       \/ Usable(mCamera) /\ Fault /\ Crash /\ UNCHANGED visible

(* jpegCallback.onPictureTaken: an error while saving is caught; then       *)
(* mCamera.startPreview(), without a test of mCamera.                       *)
OnPictureTaken ==
    /\ Handles("picture") /\ UNCHANGED strays
    /\ \/ /\ Usable(mCamera)
          /\ camState' = [camState EXCEPT ![mCamera] = "preview"]
          /\ visible' = Buttons
          /\ UNCHANGED <<screenVars, mCamera, opened, camId, current_camera, recVars,
                         recording, mic, lastSwitch, lastStart, faults, crashed>>
       \/ ~Usable(mCamera) /\ Crash /\ UNCHANGED <<visible, faults>>
       \/ Usable(mCamera) /\ Fault /\ Crash /\ UNCHANGED visible

(* startRecording: unlock may throw, or something after it (the camera then *)
(* stays unlocked); MediaRecorder.start locks the camera again.  A picture  *)
(* that is being taken goes to nobody once the camera is unlocked.  All     *)
(* exceptions are caught, that of a null mCamera too.                       *)
StartRecording ==
    /\ Clicked("Record") /\ ~recording
    /\ recording' = TRUE
    /\ visible' = visible \ {"Switch", "Capture"}
    /\ made < MaxRecorders
    /\ made' = made + 1 /\ mrec' = made + 1
    /\ \/ /\ Unlocks(mCamera)
          /\ recState' = [recState EXCEPT ![made + 1] = "recording"]
          /\ camState' = [camState EXCEPT ![mCamera] = "preview"]
          /\ lastStart' = "ok"
          /\ UNCHANGED faults
       \/ /\ IF Unlocks(mCamera)
             THEN /\ IF Usable(mCamera) THEN Fault ELSE UNCHANGED faults
                  /\ \/ camState' = [camState EXCEPT ![mCamera] = "unlocked"]
                     \/ UNCHANGED camState
             ELSE UNCHANGED <<faults, camState>>
          /\ recState' = [recState EXCEPT ![made + 1] = "released"]
          /\ lastStart' = "failed"
    /\ UNCHANGED <<screenVars, mCamera, opened, camId, current_camera, mic,
                   lastSwitch, crashed>>

(* Mutant: the flag is not cleared.                                         *)
MutStopRecording ==
    /\ Clicked("Record") /\ recording
    /\ mrec # 0 /\ recState[mrec] = "recording"
    /\ DropRecorder
    /\ visible' = visible \cup {"Switch", "Capture"}
    /\ UNCHANGED <<screenVars, camVars, current_camera, mic, lastSwitch, lastStart,
                   faults, crashed, recording>>

(* mrec.stop(), which throws unless a recording is under way.               *)
StopRecording ==
    /\ Clicked("Record") /\ recording
    /\ LET stops == mrec # 0 /\ recState[mrec] = "recording"
       IN  \/ /\ stops
              /\ DropRecorder
              /\ recording' = FALSE
              /\ visible' = visible \cup {"Switch", "Capture"}
              /\ UNCHANGED <<screenVars, camVars, current_camera, mic, lastSwitch,
                             lastStart, faults, crashed>>
           \/ ~stops /\ Crash /\ UNCHANGED <<visible, faults>>
           \/ stops /\ Fault /\ Crash /\ UNCHANGED visible

(* switchCamera: its exceptions are caught, the buttons stay invisible.     *)
(* It may fail to stop the old preview, to open the other camera (the field *)
(* keeps the released one), or to set up the one it has opened.  Without a  *)
(* camera, in a pause, it opens one.                                        *)
StopFails ==
    /\ ~StopsPreview(mCamera)
    /\ UNCHANGED <<camVars, current_camera, mic, faults>>

(* Mutant: the microphone is switched when the camera has been opened.      *)
MutOpenFails ==
    /\ StopsPreview(mCamera)
    /\ Fault
    /\ camState' = ReleasedCam(mCamera)
    /\ current_camera' = 1 - current_camera
    /\ UNCHANGED <<mCamera, opened, camId, mic>>

OpenFails ==
    /\ StopsPreview(mCamera)
    /\ Fault
    /\ camState' = ReleasedCam(mCamera)
    /\ current_camera' = 1 - current_camera
    /\ mic' = current_camera' + 1
    /\ UNCHANGED <<mCamera, opened, camId>>

(* Mutant: the next camera, without the way back to the first.              *)
MutOpenOther(state) ==
    /\ StopsPreview(mCamera)
    /\ current_camera' = current_camera + 1
    /\ mic' = current_camera' + 1
    /\ Open(current_camera')
    /\ camState' = [ReleasedCam(mCamera) EXCEPT ![opened + 1] = state]

OpenOther(state) ==
    /\ StopsPreview(mCamera)
    /\ current_camera' = 1 - current_camera
    /\ mic' = current_camera' + 1
    /\ Open(current_camera')
    /\ camState' = [ReleasedCam(mCamera) EXCEPT ![opened + 1] = state]

Switch ==
    /\ Clicked("Switch")
    /\ DropRecorder
    /\ \/ /\ StopFails \/ OpenFails \/ (OpenOther("idle") /\ Fault)
          /\ visible' = {} /\ lastSwitch' = "failed"
       \/ /\ OpenOther("preview") /\ UNCHANGED faults
          /\ visible' = Buttons /\ lastSwitch' = "ok"
    /\ UNCHANGED <<screenVars, recording, lastStart, crashed>>

-----------------------------------------------------------------------------
Callback == OnResume \/ OnPause \/ OnPictureTaken \/ SurfaceChanged
Click == Capture \/ StartRecording \/ StopRecording \/ Switch

Next ==
    \/ Callback \/ Click
    \/ SurfaceCreated \/ SurfaceDestroyed
    \/ SystemAsks
    \/ \E b \in Buttons : Tap(b)
    \/ \E c \in Cameras : PictureReady(c)

Spec == Init /\ [][Next]_vars

(* The looper takes its messages, and the camera delivers its pictures.     *)
FairSpec ==
    /\ Spec
    /\ WF_vars(Callback \/ Click)
    /\ \A c \in Cameras : WF_vars(PictureReady(c))

-----------------------------------------------------------------------------
(* Properties.                                                              *)

(* Whatever failed half way, the only camera that is not released is the    *)
(* one in mCamera, it is the one current_camera names, and in a pause there *)
(* is none, unless switchCamera (286) has opened one since.                 *)
HeldCameraIsCurrent ==
    \A c \in Cameras :
        Held(c) => /\ c = mCamera
                   /\ camId[c] = current_camera
                   /\ life = "resumed" \/ "Switch" \in strays

(* "Release camera so other applications can use it." (148): in a pause no  *)
(* camera is held.                                                          *)
NoneHeldInPause == life = "paused" => \A c \in Cameras : ~Held(c)

(* The microphone follows the camera ("InternalMic:1 LineIn:2"), a switch   *)
(* that failed at any point included, and is the internal one in a pause    *)
(* that no late click on Switch disturbs.                                   *)
MicFollowsCamera ==
    mic = IF life = "resumed" \/ "Switch" \in strays THEN current_camera + 1 ELSE 1

(* A recorder that is neither released nor in the field can only be the one *)
(* the field was initialised with, which the first recording replaces.      *)
OnlyFirstRecorderLeaks ==
    \A r \in Recorders :
        recState[r] \in {"initial", "recording"} => r = mrec \/ r = 1

(* The process dies only after a library call failed or the surface went    *)
(* early, in a pause that overtook a picture or the layout of the view, or  *)
(* after an onClick that ran when its button could no longer be tapped; the *)
(* next onResume makes up for what such a click has done.                   *)
CrashNeedsFaultOrPause ==
    crashed => faults > 0 \/ life = "paused" \/ strays # {}

(* While the screen says it records a recorder is running, unless the start *)
(* failed, the surface took the recorder away, or a click came late.        *)
RecordingIsReal ==
    recording /\ lastStart = "ok" /\ surface = "shown" /\ strays = {} /\ ~crashed
        => mrec # 0 /\ recState[mrec] = "recording"

(* Buttons hidden for a picture come back, unless the program dies, is      *)
(* paused, has lost its camera or has run a late click.                     *)
ButtonsComeBack ==
    (life = "resumed" /\ visible = {} /\ lastSwitch = "ok")
        ~> \/ visible # {} \/ crashed \/ life = "paused" \/ strays # {}
           \/ mCamera # 0 /\ camState[mCamera] = "released"

=============================================================================

---------------------------- MODULE CameraProofs ----------------------------
(***************************************************************************)
(* Theorems about CameraDemo, for any number of cameras, recorders and     *)
(* faults.                                                                 *)
(***************************************************************************)
EXTENDS CameraDemo, SequenceTheorems, TLAPS

LEMMA QueueHandled ==
    ASSUME TypeOK, NEW m, Handles(m)
    PROVE  /\ queue' \in Seq(Messages)
           /\ Len(queue') = Len(queue) - 1
           /\ \A k \in 1..Len(queue') : queue'[k] = queue[k + 1]
           /\ Len(queue) >= 1 /\ queue[1] = m
BY HeadTailProperties DEF TypeOK, Handles

LEMMA QueueAppended ==
    ASSUME TypeOK, NEW m \in Messages, queue' = Append(queue, m)
    PROVE  /\ queue' \in Seq(Messages)
           /\ Len(queue') = Len(queue) + 1
           /\ \A k \in 1..Len(queue) : queue'[k] = queue[k]
           /\ queue'[Len(queue) + 1] = m
BY AppendProperties DEF TypeOK

LEMMA ClickedType ==
    ASSUME TypeOK, NEW b \in Buttons, Clicked(b)
    PROVE  queue' \in Seq(Messages) /\ strays' \subseteq Buttons /\ strays \subseteq strays'
BY QueueHandled DEF Clicked, TypeOK

LEMMA DropType ==
    ASSUME TypeOK, DropRecorder
    PROVE  /\ mrec' \in Recorders \cup {0} /\ made' \in 1..MaxRecorders
           /\ recState' \in [Recorders -> RecStates]
BY DEF DropRecorder, ReleasedRec, TypeOK, RecStates

LEMMA OpenType ==
    ASSUME TypeOK, NEW id \in {0, 1}, Open(id)
    PROVE  /\ opened + 1 \in Cameras
           /\ opened' \in 0..MaxCameras /\ mCamera' \in Cameras \cup {0}
           /\ camId' \in [Cameras -> {0, 1}]
BY CamerasAssumption DEF Open, TypeOK, Cameras

LEMMA ReleasedType ==
    ASSUME TypeOK, NEW c \in Cameras \cup {0}
    PROVE  ReleasedCam(c) \in [Cameras -> CamStates]
BY DEF ReleasedCam, TypeOK, CamStates

LEMMA FaultType == TypeOK /\ Fault => faults' \in 0..MaxFaults
BY FaultsAssumption DEF TypeOK, Fault

LEMMA CrashType ==
    ASSUME TypeOK, Crash
    PROVE  /\ life' \in {"resumed", "paused"}
           /\ surface' \in {"none", "new", "shown", "gone"} /\ sizing' \in BOOLEAN
           /\ mCamera' \in Cameras \cup {0} /\ opened' \in 0..MaxCameras
           /\ camState' \in [Cameras -> CamStates] /\ camId' \in [Cameras -> {0, 1}]
           /\ current_camera' \in {0, 1}
           /\ mrec' \in Recorders \cup {0} /\ made' \in 1..MaxRecorders
           /\ recState' \in [Recorders -> RecStates]
           /\ recording' \in BOOLEAN /\ mic' \in {1, 2}
           /\ lastSwitch' \in {"ok", "failed"} /\ lastStart' \in {"ok", "failed"}
           /\ crashed' \in BOOLEAN
BY DEF Crash, TypeOK, screenVars, camVars, recVars

LEMMA TypeInit == Init => TypeOK
<1>. SUFFICES ASSUME Init PROVE TypeOK
  OBVIOUS
<1>1. <<"resume">> \in Seq(Messages) /\ {} \subseteq Buttons
  BY DEF Messages
<1>2. /\ camState \in [Cameras -> CamStates] /\ camId \in [Cameras -> {0, 1}]
      /\ recState \in [Recorders -> RecStates]
  BY DEF Init, CamStates, RecStates
<1>3. 1 \in Recorders /\ 1 \in 1..MaxRecorders /\ 0 \in 0..MaxCameras /\ 0 \in 0..MaxFaults
  BY CamerasAssumption, FaultsAssumption DEF Recorders
<1>. QED  BY <1>1, <1>2, <1>3 DEF Init, TypeOK

LEMMA TypeStep == TypeOK /\ [Next]_vars => TypeOK'
<1>. SUFFICES ASSUME TypeOK, [Next]_vars PROVE TypeOK'
  OBVIOUS
<1>a. \A n \in {0, 1} : n + 1 \in {1, 2} /\ 1 - n \in {0, 1}
  OBVIOUS
<1>b. "pause" \in Messages /\ "resume" \in Messages /\ "picture" \in Messages
  BY DEF Messages
<1>c. \A v \in SUBSET Buttons : \A w \in SUBSET Buttons :
         v \ w \in SUBSET Buttons /\ v \cup w \in SUBSET Buttons
  OBVIOUS
<1>1. CASE OnResume
  <2>1. queue' \in Seq(Messages)
    BY <1>1, QueueHandled DEF OnResume
  <2>2. mic' \in {1, 2}
    BY <1>1, <1>a DEF OnResume, TypeOK
  <2>3. /\ mrec' \in Recorders \cup {0} /\ made' \in 1..MaxRecorders
        /\ recState' \in [Recorders -> RecStates]
    BY <1>1, DropType DEF OnResume, TypeOK, recVars
  <2>4. /\ life' \in {"resumed", "paused"} /\ recording' \in BOOLEAN
        /\ surface' \in {"none", "new", "shown", "gone"} /\ sizing' \in BOOLEAN
        /\ current_camera' \in {0, 1} /\ visible' \subseteq Buttons
        /\ lastSwitch' \in {"ok", "failed"} /\ lastStart' \in {"ok", "failed"}
    BY <1>1 DEF OnResume, TypeOK
  <2>5. /\ ReleasedCam(mCamera) \in [Cameras -> CamStates]
        /\ camState \in [Cameras -> CamStates] /\ "idle" \in CamStates
        /\ current_camera \in {0, 1}
    BY ReleasedType DEF TypeOK, CamStates
  <2>6. PICK left \in [Cameras -> CamStates] :
          \/ /\ Open(current_camera) /\ camState' = [left EXCEPT ![opened + 1] = "idle"]
             /\ strays' = {} /\ UNCHANGED <<faults, crashed>>
          \/ /\ Fault \/ UNCHANGED faults
             /\ crashed' = TRUE /\ camState' = left
             /\ UNCHANGED <<mCamera, opened, camId, strays>>
    BY <1>1, <2>5 DEF OnResume
  <2>7. /\ mCamera' \in Cameras \cup {0} /\ opened' \in 0..MaxCameras
        /\ camState' \in [Cameras -> CamStates] /\ camId' \in [Cameras -> {0, 1}]
        /\ strays' \subseteq Buttons /\ faults' \in 0..MaxFaults /\ crashed' \in BOOLEAN
    BY <2>5, <2>6, OpenType, FaultType DEF TypeOK
  <2>. QED  BY <2>1, <2>2, <2>3, <2>4, <2>7 DEF TypeOK
<1>2. CASE OnPause
  <2>1. queue' \in Seq(Messages)
    BY <1>2, QueueHandled DEF OnPause
  <2>2. camState' \in [Cameras -> CamStates]
    BY <1>2, ReleasedType DEF OnPause, TypeOK
  <2>3. DropRecorder
    BY <1>2 DEF OnPause
  <2>. QED  BY <1>2, <2>1, <2>2, <2>3, DropType DEF OnPause, TypeOK
<1>3. CASE SystemAsks
  <2>1. PICK m \in {"pause", "resume"} : queue' = Append(queue, m)
    BY <1>3 DEF SystemAsks
  <2>2. queue' \in Seq(Messages)
    BY <2>1, <1>b, QueueAppended
  <2>. QED  BY <1>3, <2>2 DEF SystemAsks, TypeOK, screenVars, camVars, recVars
<1>4. CASE SurfaceCreated
  <2>1. CASE Crash
    BY <1>4, <2>1, CrashType, FaultType DEF SurfaceCreated, TypeOK
  <2>2. CASE ~Crash
    BY <1>4, <2>2 DEF SurfaceCreated, TypeOK, camVars, recVars
  <2>. QED  BY <2>1, <2>2
<1>5. CASE SurfaceChanged
  <2>1. CASE Crash
    BY <1>5, <2>1, CrashType, FaultType DEF SurfaceChanged, TypeOK
  <2>2. CASE ~Crash
    <3>1. camState' \in [Cameras -> CamStates]
      BY <1>5, <2>2 DEF SurfaceChanged, TypeOK, CamStates
    <3>. QED  BY <1>5, <2>2, <3>1 DEF SurfaceChanged, TypeOK, recVars
  <2>. QED  BY <2>1, <2>2
<1>6. CASE SurfaceDestroyed
  <2>1. camState' \in [Cameras -> CamStates] /\ crashed' \in BOOLEAN
    BY <1>6, ReleasedType DEF SurfaceDestroyed, TypeOK
  <2>2. faults' \in 0..MaxFaults
    BY <1>6, FaultType DEF SurfaceDestroyed, TypeOK
  <2>3. DropRecorder
    BY <1>6 DEF SurfaceDestroyed
  <2>. QED  BY <1>6, <2>1, <2>2, <2>3, DropType DEF SurfaceDestroyed, TypeOK
<1>7. CASE Capture
  <2>0. queue' \in Seq(Messages) /\ strays' \subseteq Buttons /\ visible' \subseteq Buttons
    BY <1>7, ClickedType DEF Capture, Buttons
  <2>1. CASE Crash
    BY <1>7, <2>0, <2>1, CrashType, FaultType DEF Capture, TypeOK
  <2>2. CASE ~Crash
    <3>1. camState' \in [Cameras -> CamStates]
      BY <1>7, <2>2 DEF Capture, TypeOK, CamStates
    <3>. QED  BY <1>7, <2>0, <2>2, <3>1 DEF Capture, TypeOK, screenVars, recVars
  <2>. QED  BY <2>1, <2>2
<1>8. ASSUME NEW c \in Cameras, PictureReady(c) PROVE TypeOK'
  <2>1. queue' \in Seq(Messages)
    BY <1>8, <1>b, QueueAppended DEF PictureReady
  <2>2. camState' \in [Cameras -> CamStates]
    BY <1>8 DEF PictureReady, TypeOK, CamStates
  <2>. QED  BY <1>8, <2>1, <2>2 DEF PictureReady, TypeOK, screenVars, recVars
<1>9. CASE OnPictureTaken
  <2>1. queue' \in Seq(Messages)
    BY <1>9, QueueHandled DEF OnPictureTaken
  <2>2. CASE Crash
    BY <1>9, <2>1, <2>2, CrashType, FaultType DEF OnPictureTaken, TypeOK
  <2>3. CASE ~Crash
    <3>1. camState' \in [Cameras -> CamStates]
      BY <1>9, <2>3 DEF OnPictureTaken, TypeOK, CamStates
    <3>. QED  BY <1>9, <2>1, <2>3, <3>1 DEF OnPictureTaken, TypeOK, screenVars, recVars
  <2>. QED  BY <2>2, <2>3
<1>10. CASE StartRecording
  <2>0. queue' \in Seq(Messages) /\ strays' \subseteq Buttons
    BY <1>10, ClickedType DEF StartRecording, Buttons
  <2>1. made + 1 \in Recorders /\ made' \in 1..MaxRecorders
    BY <1>10, CamerasAssumption DEF StartRecording, TypeOK, Recorders
  <2>2. camState' \in [Cameras -> CamStates]
    BY <1>10 DEF StartRecording, TypeOK, CamStates
  <2>3. recState' \in [Recorders -> RecStates]
    BY <1>10 DEF StartRecording, TypeOK, RecStates
  <2>4. faults' \in 0..MaxFaults
    BY <1>10, FaultType DEF StartRecording, TypeOK
  <2>5. visible' \subseteq Buttons
    BY <1>10 DEF StartRecording, TypeOK
  <2>6. mrec' \in Recorders \cup {0} /\ lastStart' \in {"ok", "failed"}
    BY <1>10, <2>1 DEF StartRecording
  <2>. QED
    BY <1>10, <2>0, <2>1, <2>2, <2>3, <2>4, <2>5, <2>6 DEF StartRecording, TypeOK, screenVars
<1>11. CASE StopRecording
  <2>0. queue' \in Seq(Messages) /\ strays' \subseteq Buttons
    BY <1>11, ClickedType DEF StopRecording, Buttons
  <2>1. CASE Crash
    BY <1>11, <2>0, <2>1, CrashType, FaultType DEF StopRecording, TypeOK, Buttons, screenVars, camVars
  <2>2. CASE ~Crash
    <3>1. DropRecorder
      BY <1>11, <2>2 DEF StopRecording
    <3>2. visible' \subseteq Buttons
      BY <1>11, <2>2 DEF StopRecording, TypeOK, Buttons
    <3>. QED
      BY <1>11, <2>0, <2>2, <3>1, <3>2, DropType DEF StopRecording, TypeOK, screenVars, camVars
  <2>. QED  BY <2>1, <2>2
<1>12. CASE Switch
  <2>0. queue' \in Seq(Messages) /\ strays' \subseteq Buttons
    BY <1>12, ClickedType DEF Switch, Buttons
  <2>1. DropRecorder
    BY <1>12 DEF Switch
  <2>2. visible' \subseteq Buttons /\ lastSwitch' \in {"ok", "failed"}
    BY <1>12 DEF Switch, Buttons
  <2>3. CASE StopFails
    BY <1>12, <2>0, <2>1, <2>2, <2>3, DropType
    DEF Switch, StopFails, TypeOK, screenVars, camVars
  <2>4. CASE OpenFails
    <3>1. camState' \in [Cameras -> CamStates]
      BY <2>4, ReleasedType DEF OpenFails, TypeOK
    <3>2. current_camera' \in {0, 1} /\ mic' \in {1, 2}
      BY <2>4, <1>a DEF OpenFails, TypeOK
    <3>. QED
      BY <1>12, <2>0, <2>1, <2>2, <2>4, <3>1, <3>2, DropType, FaultType
      DEF Switch, OpenFails, TypeOK, screenVars
  <2>5. ASSUME NEW s \in {"idle", "preview"}, OpenOther(s), Fault \/ UNCHANGED faults
        PROVE  TypeOK'
    <3>1. current_camera' \in {0, 1} /\ mic' \in {1, 2}
      BY <2>5, <1>a DEF OpenOther, TypeOK
    <3>2. Open(current_camera')
      BY <2>5 DEF OpenOther
    <3>3. /\ opened + 1 \in Cameras
          /\ opened' \in 0..MaxCameras /\ mCamera' \in Cameras \cup {0}
          /\ camId' \in [Cameras -> {0, 1}]
      BY <3>1, <3>2, CamerasAssumption DEF Open, TypeOK, Cameras
    <3>4. ReleasedCam(mCamera) \in [Cameras -> CamStates]
      BY ReleasedType DEF TypeOK
    <3>5. camState' \in [Cameras -> CamStates]
      BY <2>5, <3>4 DEF OpenOther, CamStates
    <3>6. faults' \in 0..MaxFaults
      BY <2>5, FaultType DEF TypeOK
    <3>. QED
      BY <1>12, <2>0, <2>1, <2>2, <3>1, <3>3, <3>5, <3>6, DropType DEF Switch, TypeOK, screenVars
  <2>. QED  BY <1>12, <2>3, <2>4, <2>5 DEF Switch
<1>13. ASSUME NEW b \in Buttons, Tap(b) PROVE TypeOK'
  <2>1. queue' \in Seq(Messages)
    BY <1>13, QueueAppended DEF Tap, Messages
  <2>. QED  BY <1>13, <2>1 DEF Tap, TypeOK, screenVars, camVars, recVars
<1>14. CASE UNCHANGED vars
  BY <1>14 DEF vars, screenVars, camVars, recVars, TypeOK
<1>. QED
  BY <1>1, <1>2, <1>3, <1>4, <1>5, <1>6, <1>7, <1>8, <1>9, <1>10, <1>11, <1>12, <1>13, <1>14
  DEF Next, Callback, Click

(* Every variable of the camera demo keeps its type; current_camera and the *)
(* microphone stay among the two there are, however often they are switched.*)
THEOREM TypeCorrect == Spec => []TypeOK
<1>. QED  BY TypeInit, TypeStep, PTL DEF Spec

(* Only one of the messages of the activity manager is under way, and it is *)
(* the one that fits: a resume is never queued for a resumed activity.  So  *)
(* it finds all clicks of the last session ahead of it, and the first ones  *)
(* of the next come when the new view has been laid out.                    *)
Lifecycle(m) == m \in {"pause", "resume"}

QueueInv ==
    /\ \A k \in 1..Len(queue) : queue[k] = "resume" => life = "paused"
    /\ \A k \in 1..Len(queue) : queue[k] = "pause" => life = "resumed"
    /\ \A j, k \in 1..Len(queue) :
           Lifecycle(queue[j]) /\ Lifecycle(queue[k]) => j = k
    /\ \A j, k \in 1..Len(queue) :
           queue[j] = "resume" /\ queue[k] \in Buttons => k < j
    /\ surface \in {"none", "new"} => \A k \in 1..Len(queue) : queue[k] \notin Buttons

(* Cameras are opened in the order of their numbers, and in a pause only by *)
(* a click on Switch.                                                       *)
Unopened ==
    /\ mCamera <= opened
    /\ \A c \in Cameras : c > opened => camState[c] = "none"

ClearedInPause == life = "paused" /\ "Switch" \notin strays => mCamera = 0

CamInv == TypeOK /\ QueueInv /\ Unopened /\ ClearedInPause /\ HeldCameraIsCurrent

(* A message that is handled leaves the others in their order.              *)
LEMMA Shifted ==
    ASSUME TypeOK, NEW m, Handles(m)
    PROVE  /\ 1 \in 1..Len(queue) /\ queue[1] = m
           /\ \A k \in 1..Len(queue') : /\ k + 1 \in 1..Len(queue) /\ k + 1 # 1
                                        /\ queue'[k] = queue[k + 1]
           /\ \A j, k \in 1..Len(queue') : /\ k + 1 < j + 1 => k < j
                                           /\ j + 1 = k + 1 => j = k
           /\ \A j \in 1..Len(queue) : ~(j < 1)
<1>1. /\ queue' \in Seq(Messages)
      /\ Len(queue') = Len(queue) - 1
      /\ \A k \in 1..Len(queue') : queue'[k] = queue[k + 1]
      /\ Len(queue) >= 1 /\ queue[1] = m
  BY QueueHandled
<1>2. Len(queue) \in Nat
  BY LenProperties DEF TypeOK
<1>. QED  BY <1>1, <1>2

(* A message that is posted comes last.                                     *)
LEMMA Grown ==
    ASSUME TypeOK, NEW m \in Messages, queue' = Append(queue, m)
    PROVE  /\ \A k \in 1..Len(queue') : \/ /\ k \in 1..Len(queue) /\ queue'[k] = queue[k]
                                           /\ k < Len(queue) + 1
                                        \/ k = Len(queue) + 1 /\ queue'[k] = m
           /\ \A k \in 1..Len(queue) : k \in 1..Len(queue') /\ queue'[k] = queue[k]
           /\ Len(queue) + 1 \in 1..Len(queue') /\ queue'[Len(queue) + 1] = m
<1>1. /\ Len(queue') = Len(queue) + 1
      /\ \A k \in 1..Len(queue) : queue'[k] = queue[k]
      /\ queue'[Len(queue) + 1] = m
  BY QueueAppended
<1>2. Len(queue) \in Nat
  BY LenProperties DEF TypeOK
<1>3. \A k \in 1..Len(queue') : (k \in 1..Len(queue) /\ k < Len(queue) + 1)
                                \/ k = Len(queue) + 1
  BY <1>1, <1>2
<1>4. /\ Len(queue) + 1 \in 1..Len(queue')
      /\ \A k \in 1..Len(queue) : k \in 1..Len(queue')
  BY <1>1, <1>2
<1>. QED  BY <1>1, <1>3, <1>4

(* What a step does to the queue, the activity and the clicks counted late. *)
LEMMA Steps ==
    ASSUME [Next]_vars
    PROVE  \/ OnResume
           \/ OnPause
           \/ \E m \in {"picture"} \cup Buttons :
                 Handles(m) /\ life' = life /\ surface' = surface
           \/ SystemAsks
           \/ \E b \in Buttons : Tap(b)
           \/ \E c \in Cameras : PictureReady(c)
           \/ /\ queue' = queue /\ life' = life
              /\ surface' = surface \/ surface' \in {"shown", "gone"}
BY DEF Next, Callback, Click, vars, screenVars, SurfaceCreated, SurfaceChanged,
       SurfaceDestroyed, Capture, StartRecording, StopRecording, Switch, OnPictureTaken,
       Clicked, Crash, Buttons

LEMMA QueueInvStep == TypeOK /\ QueueInv /\ [Next]_vars => QueueInv'
<1>. SUFFICES ASSUME TypeOK, QueueInv, [Next]_vars PROVE QueueInv'
  OBVIOUS
<1>b. \A b \in Buttons : b \in Messages /\ b \notin {"pause", "resume", "picture"}
  BY DEF Buttons, Messages
<1>1. ASSUME NEW m \in {"resume", "pause"}, Handles(m),
             life' = IF m = "resume" THEN "resumed" ELSE "paused",
             m = "pause" => surface' = surface
      PROVE  QueueInv'
  <2>1. /\ 1 \in 1..Len(queue) /\ queue[1] = m
        /\ \A k \in 1..Len(queue') : /\ k + 1 \in 1..Len(queue) /\ k + 1 # 1
                                     /\ queue'[k] = queue[k + 1]
        /\ \A j \in 1..Len(queue) : ~(j < 1)
    BY <1>1, Shifted
  <2>2. \A k \in 1..Len(queue') : ~Lifecycle(queue'[k])
    BY <1>1, <2>1 DEF QueueInv, Lifecycle
  <2>3. m = "resume" => \A k \in 1..Len(queue') : queue'[k] \notin Buttons
    BY <2>1 DEF QueueInv
  <2>4. m = "pause" /\ surface \in {"none", "new"}
          => \A k \in 1..Len(queue') : queue'[k] \notin Buttons
    BY <2>1 DEF QueueInv
  <2>. QED  BY <1>1, <2>2, <2>3, <2>4 DEF QueueInv, Lifecycle
<1>2. CASE OnResume
  BY <1>1, <1>2 DEF OnResume
<1>3. CASE OnPause
  BY <1>1, <1>3 DEF OnPause
<1>4. ASSUME NEW m \in {"picture"} \cup Buttons, Handles(m), life' = life, surface' = surface
      PROVE  QueueInv'
  <2>1. /\ \A k \in 1..Len(queue') : /\ k + 1 \in 1..Len(queue)
                                     /\ queue'[k] = queue[k + 1]
        /\ \A j, k \in 1..Len(queue') : /\ k + 1 < j + 1 => k < j
                                        /\ j + 1 = k + 1 => j = k
    BY <1>4, Shifted
  <2>. QED  BY <1>4, <2>1 DEF QueueInv
<1>5. ASSUME NEW m \in Messages, queue' = Append(queue, m), life' = life, surface' = surface,
             m = "resume" => life = "paused", m = "pause" => life = "resumed",
             Lifecycle(m) => \A k \in 1..Len(queue) : ~Lifecycle(queue[k]),
             m \in Buttons => life = "resumed" /\ surface \notin {"none", "new"}
      PROVE  QueueInv'
  <2>1. \A k \in 1..Len(queue') : \/ /\ k \in 1..Len(queue) /\ queue'[k] = queue[k]
                                     /\ k < Len(queue) + 1
                                  \/ k = Len(queue) + 1 /\ queue'[k] = m
    BY <1>5, Grown
  <2>2. m \in Buttons => \A k \in 1..Len(queue) : queue[k] # "resume"
    BY <1>5 DEF QueueInv
  <2>3. m \in Buttons => ~Lifecycle(m) /\ m # "resume"
    BY <1>b DEF Lifecycle
  <2>4. /\ \A k \in 1..Len(queue') : queue'[k] = "resume" => life = "paused"
        /\ \A k \in 1..Len(queue') : queue'[k] = "pause" => life = "resumed"
    BY <1>5, <2>1 DEF QueueInv
  <2>5. \A j, k \in 1..Len(queue') : Lifecycle(queue'[j]) /\ Lifecycle(queue'[k]) => j = k
    BY <1>5, <2>1 DEF QueueInv
  <2>6. \A j, k \in 1..Len(queue') : queue'[j] = "resume" /\ queue'[k] \in Buttons => k < j
    BY <2>1, <2>2, <2>3 DEF QueueInv
  <2>7. surface \in {"none", "new"} => \A k \in 1..Len(queue') : queue'[k] \notin Buttons
    BY <1>5, <2>1 DEF QueueInv
  <2>. QED  BY <1>5, <2>4, <2>5, <2>6, <2>7 DEF QueueInv, Lifecycle
<1>6. CASE SystemAsks
  <2>1. PICK m \in {"pause", "resume"} :
          /\ m = IF life = "resumed" THEN "pause" ELSE "resume"
          /\ \A k \in DOMAIN queue : queue[k] # m
          /\ queue' = Append(queue, m)
    BY <1>6 DEF SystemAsks
  <2>2. DOMAIN queue = 1..Len(queue) /\ life \in {"resumed", "paused"}
    BY LenProperties DEF TypeOK
  <2>3. \A k \in 1..Len(queue) : ~Lifecycle(queue[k])
    BY <2>1, <2>2 DEF QueueInv, Lifecycle
  <2>4. life' = life /\ surface' = surface /\ m \in Messages /\ m \notin Buttons
    BY <1>6, <2>1 DEF SystemAsks, screenVars, Messages, Buttons
  <2>. QED  BY <1>5, <2>1, <2>2, <2>3, <2>4
<1>7. ASSUME NEW b \in Buttons, Tap(b) PROVE QueueInv'
  <2>1. /\ life = "resumed" /\ surface \in {"shown", "gone"} /\ queue' = Append(queue, b)
        /\ life' = life /\ surface' = surface
    BY <1>7 DEF Tap, screenVars
  <2>. QED  BY <1>b, <1>5, <2>1 DEF Lifecycle
<1>8. ASSUME NEW c \in Cameras, PictureReady(c) PROVE QueueInv'
  <2>1. queue' = Append(queue, "picture") /\ life' = life /\ surface' = surface
    BY <1>8 DEF PictureReady, screenVars
  <2>2. "picture" \in Messages /\ "picture" \notin Buttons /\ ~Lifecycle("picture")
    BY DEF Messages, Buttons, Lifecycle
  <2>. QED  BY <1>5, <2>1, <2>2
<1>9. CASE queue' = queue /\ life' = life /\ (surface' = surface \/ surface' \in {"shown", "gone"})
  BY <1>9 DEF QueueInv
<1>. QED  BY <1>2, <1>3, <1>4, <1>6, <1>7, <1>8, <1>9, Steps

(* A step that only moves the current camera between the states in which it *)
(* is held, or releases it, keeps the camera part of the invariant.         *)
LEMMA CamKept ==
    ASSUME CamInv, mCamera' = mCamera, opened' = opened, camId' = camId,
           current_camera' = current_camera,
           life' = "resumed" \/ (life' = life /\ strays \subseteq strays'),
           camState' \in [Cameras -> CamStates],
           \A c \in Cameras :
               \/ camState'[c] = camState[c]
               \/ camState'[c] = "released" /\ camState[c] # "none"
               \/ c = mCamera /\ Held(c)
    PROVE  Unopened' /\ ClearedInPause' /\ HeldCameraIsCurrent'
<1>1. Unopened' /\ ClearedInPause'
  BY DEF CamInv, Unopened, ClearedInPause, Held, HeldStates
<1>2. \A c \in Cameras : Held(c)' => Held(c)
  BY DEF Held, HeldStates
<1>. QED  BY <1>1, <1>2 DEF CamInv, HeldCameraIsCurrent

(* The camera is released and the field cleared, left, or replaced by a     *)
(* camera that has just been opened.                                        *)
LEMMA CamReleased ==
    ASSUME CamInv
    PROVE  /\ ReleasedCam(mCamera) \in [Cameras -> CamStates]
           /\ \A c \in Cameras : ReleasedCam(mCamera)[c] \notin HeldStates
           /\ \A c \in Cameras : c > opened => ReleasedCam(mCamera)[c] = "none"
<1>1. mCamera \in Cameras \cup {0}
  BY DEF CamInv, TypeOK
<1>2. ReleasedCam(mCamera) \in [Cameras -> CamStates]
  BY <1>1, ReleasedType DEF CamInv
<1>3. \A c \in Cameras : ReleasedCam(mCamera)[c] =
                            IF c = mCamera THEN "released" ELSE camState[c]
  BY <1>1 DEF ReleasedCam, CamInv, TypeOK, Cameras
<1>. QED
  BY <1>1, <1>2, <1>3
  DEF CamInv, Unopened, HeldCameraIsCurrent, Held, HeldStates, TypeOK, Cameras

LEMMA CamOpened ==
    ASSUME TypeOK, NEW f \in [Cameras -> CamStates], NEW s \in CamStates,
           NEW id \in {0, 1}, Open(id),
           \A c \in Cameras : f[c] \notin HeldStates,
           \A c \in Cameras : c > opened => f[c] = "none",
           camState' = [f EXCEPT ![opened + 1] = s],
           life' = "resumed" \/ "Switch" \in strays', current_camera' = id
    PROVE  Unopened' /\ ClearedInPause' /\ HeldCameraIsCurrent'
<1>1. opened + 1 \in Cameras /\ opened \in Nat
  BY OpenType DEF TypeOK
<1>2. \A c \in Cameras : camState'[c] = IF c = opened + 1 THEN s ELSE f[c]
  BY <1>1
<1>3. Unopened' /\ ClearedInPause'
  BY <1>1, <1>2 DEF Unopened, Open, Cameras, ClearedInPause
<1>4. camId'[opened + 1] = id
  BY <1>1 DEF Open, TypeOK
<1>5. \A c \in Cameras : Held(c)' => c = opened + 1
  BY <1>2 DEF Held
<1>. QED  BY <1>1, <1>3, <1>4, <1>5 DEF HeldCameraIsCurrent, Open

(* What onResume leaves of the old session: the cameras as they were, or    *)
(* the one in the field released with its surface.                          *)
LEMMA ResumeOpens ==
    ASSUME CamInv, OnResume
    PROVE  \E left \in [Cameras -> CamStates] :
             /\ left = camState \/ (left = ReleasedCam(mCamera) /\ StopsPreview(mCamera))
             /\ \/ /\ Open(current_camera)
                   /\ camState' = [left EXCEPT ![opened + 1] = "idle"]
                   /\ \A c \in Cameras : left[c] \notin HeldStates
                   /\ strays' = {} /\ UNCHANGED <<faults, crashed>>
                \/ /\ camState' = left /\ crashed'
                   /\ surface = "shown" => left = ReleasedCam(mCamera) \/ ~StopsPreview(mCamera)
                   /\ UNCHANGED <<mCamera, opened, camId, strays>>
                   /\ \/ Fault
                      \/ mCamera # 0
<1>. DEFINE left == IF surface = "shown" /\ StopsPreview(mCamera)
                      THEN ReleasedCam(mCamera) ELSE camState
<1>1. left \in [Cameras -> CamStates]
  BY ReleasedType DEF CamInv, TypeOK
<1>2. left = camState \/ (left = ReleasedCam(mCamera) /\ StopsPreview(mCamera))
  OBVIOUS
<1>3. (\A c \in Cameras : left[c] \in HeldStates => camId[c] # current_camera)
        => \A c \in Cameras : left[c] \notin HeldStates
  BY CamReleased DEF CamInv, HeldCameraIsCurrent, Held
<1>4. (\E c \in Cameras : left[c] \in HeldStates) => mCamera # 0
  BY CamReleased DEF CamInv, HeldCameraIsCurrent, Held, Cameras
<1>5. ~StopsPreview(mCamera) => mCamera # 0
  BY DEF StopsPreview
<1>6. \/ /\ Open(current_camera)
         /\ camState' = [left EXCEPT ![opened + 1] = "idle"]
         /\ \A c \in Cameras : left[c] \notin HeldStates
         /\ strays' = {} /\ UNCHANGED <<faults, crashed>>
      \/ /\ camState' = left /\ crashed'
         /\ surface = "shown" => left = ReleasedCam(mCamera) \/ ~StopsPreview(mCamera)
         /\ UNCHANGED <<mCamera, opened, camId, strays>>
         /\ Fault \/ mCamera # 0
  BY <1>3, <1>4, <1>5 DEF OnResume
<1>. QED  BY <1>1, <1>2, <1>6

(* The camera of a click on Switch, the only click that opens one.          *)
LEMMA CamInvStep == CamInv /\ [Next]_vars => CamInv'
<1>. SUFFICES ASSUME CamInv, [Next]_vars
              PROVE  Unopened' /\ ClearedInPause' /\ HeldCameraIsCurrent'
  BY TypeStep, QueueInvStep DEF CamInv
<1>t. TypeOK /\ TypeOK'
  BY TypeStep DEF CamInv
<1>s. camState' \in [Cameras -> CamStates] /\ camState \in [Cameras -> CamStates]
  BY <1>t DEF TypeOK
<1>u. UNCHANGED <<camVars, current_camera, life>> /\ strays \subseteq strays'
        => Unopened' /\ ClearedInPause' /\ HeldCameraIsCurrent'
  BY <1>s, CamKept DEF camVars
<1>1. CASE OnResume
  <2>1. life' = "resumed" /\ current_camera' = current_camera
    BY <1>1 DEF OnResume
  <2>2. PICK left \in [Cameras -> CamStates] :
             /\ left = camState \/ (left = ReleasedCam(mCamera) /\ StopsPreview(mCamera))
             /\ \/ /\ Open(current_camera)
                   /\ camState' = [left EXCEPT ![opened + 1] = "idle"]
                   /\ \A c \in Cameras : left[c] \notin HeldStates
                \/ /\ camState' = left
                   /\ UNCHANGED <<mCamera, opened, camId, strays>>
    BY <1>1, ResumeOpens
  <2>3. CASE camState' = left /\ UNCHANGED <<mCamera, opened, camId, strays>>
    <3>1. \A c \in Cameras :
               \/ camState'[c] = camState[c]
               \/ camState'[c] = "released" /\ camState[c] # "none"
      BY <1>t, <2>2, <2>3 DEF ReleasedCam, StopsPreview, TypeOK
    <3>. QED  BY <1>s, <2>1, <2>3, <3>1, CamKept
  <2>4. CASE Open(current_camera) /\ camState' = [left EXCEPT ![opened + 1] = "idle"]
             /\ \A c \in Cameras : left[c] \notin HeldStates
    <3>1. current_camera \in {0, 1} /\ "idle" \in CamStates
      BY <1>t DEF TypeOK, CamStates
    <3>2. \A c \in Cameras : c > opened => left[c] = "none"
      BY <2>2, CamReleased DEF CamInv, Unopened
    <3>. QED  BY <1>t, <2>1, <2>4, <3>1, <3>2, CamOpened
  <2>. QED  BY <2>2, <2>3, <2>4
<1>2. CASE OnPause
  BY <1>2, <1>t, CamReleased
  DEF OnPause, CamInv, Unopened, ClearedInPause, HeldCameraIsCurrent, Held, TypeOK
<1>3. ASSUME SurfaceChanged \/ Capture \/ OnPictureTaken
      PROVE  Unopened' /\ ClearedInPause' /\ HeldCameraIsCurrent'
  <2>1. strays \subseteq strays'
    BY <1>3, <1>t, ClickedType DEF SurfaceChanged, Capture, OnPictureTaken, Buttons
  <2>2. UNCHANGED <<mCamera, opened, camId, current_camera, life>>
    BY <1>3 DEF SurfaceChanged, Capture, OnPictureTaken, Crash, camVars, screenVars
  <2>3. CASE UNCHANGED camState
    BY <1>u, <2>1, <2>2, <2>3 DEF camVars
  <2>4. CASE /\ Usable(mCamera)
             /\ \E s \in CamStates : camState' = [camState EXCEPT ![mCamera] = s]
    <3>1. mCamera \in Cameras /\ Held(mCamera)
      BY <1>t, <2>4 DEF Usable, Held, HeldStates, TypeOK
    <3>2. \A c \in Cameras : camState'[c] = camState[c] \/ (c = mCamera /\ Held(c))
      BY <1>s, <2>4, <3>1
    <3>. QED  BY <1>s, <2>1, <2>2, <3>2, CamKept
  <2>5. UNCHANGED camState \/ (/\ Usable(mCamera)
                               /\ \E s \in CamStates : camState' = [camState EXCEPT ![mCamera] = s])
    BY <1>3 DEF SurfaceChanged, Capture, OnPictureTaken, Crash, camVars, Usable, Previews,
                CamStates
  <2>. QED  BY <2>3, <2>4, <2>5
<1>4. CASE SurfaceDestroyed
  <2>1. \A c \in Cameras :
           \/ camState'[c] = camState[c]
           \/ camState'[c] = "released" /\ camState[c] # "none"
    BY <1>4, <1>t DEF SurfaceDestroyed, ReleasedCam, StopsPreview, TypeOK
  <2>. QED  BY <1>4, <1>s, <2>1, CamKept DEF SurfaceDestroyed
<1>5. ASSUME NEW c \in Cameras, PictureReady(c)
      PROVE  Unopened' /\ ClearedInPause' /\ HeldCameraIsCurrent'
  <2>1. Held(c) /\ c = mCamera
    BY <1>5 DEF PictureReady, Held, HeldStates, CamInv, HeldCameraIsCurrent
  <2>. QED
    BY <1>5, <1>s, <1>t, <2>1, CamKept DEF PictureReady, TypeOK, screenVars
<1>6. CASE StartRecording
  <2>1. \A c \in Cameras : camState'[c] = camState[c] \/ (c = mCamera /\ Held(c))
    BY <1>6, <1>t DEF StartRecording, Unlocks, Held, HeldStates, TypeOK
  <2>2. strays \subseteq strays'
    BY <1>6, <1>t, ClickedType DEF StartRecording, Buttons
  <2>. QED  BY <1>6, <1>s, <2>1, <2>2, CamKept DEF StartRecording, screenVars
<1>7. CASE Switch
  <2>0. strays \subseteq strays' /\ (life' = "resumed" \/ "Switch" \in strays') /\ life' = life
    <3>1. Clicked("Switch") /\ life' = life
      BY <1>7 DEF Switch, screenVars
    <3>. QED  BY <1>t, <3>1, ClickedType DEF Clicked, Buttons, TypeOK
  <2>1. CASE StopFails
    BY <1>7, <1>u, <2>0, <2>1 DEF StopFails, Switch, screenVars
  <2>2. CASE OpenFails
    BY <2>0, <2>2, CamReleased
    DEF OpenFails, CamInv, Unopened, ClearedInPause, HeldCameraIsCurrent, Held
  <2>3. ASSUME NEW s \in {"idle", "preview"}, OpenOther(s)
        PROVE  Unopened' /\ ClearedInPause' /\ HeldCameraIsCurrent'
    <3>1. current_camera' \in {0, 1} /\ Open(current_camera')
      BY <1>t, <2>3 DEF OpenOther, TypeOK
    <3>2. camState' = [ReleasedCam(mCamera) EXCEPT ![opened + 1] = s]
      BY <2>3 DEF OpenOther
    <3>3. s \in CamStates
      BY DEF CamStates
    <3>. QED  BY <1>t, <2>0, <3>1, <3>2, <3>3, CamReleased, CamOpened
  <2>. QED  BY <1>7, <2>1, <2>2, <2>3 DEF Switch
<1>8. ASSUME \/ SurfaceCreated \/ StopRecording \/ SystemAsks \/ (\E b \in Buttons : Tap(b))
             \/ UNCHANGED vars
      PROVE  Unopened' /\ ClearedInPause' /\ HeldCameraIsCurrent'
  <2>1. strays \subseteq strays'
    BY <1>8, <1>t, ClickedType
    DEF SurfaceCreated, StopRecording, SystemAsks, Tap, vars, Buttons
  <2>2. UNCHANGED <<camVars, current_camera, life>>
    BY <1>8 DEF SurfaceCreated, StopRecording, SystemAsks, Tap, Crash, vars, screenVars
  <2>. QED  BY <1>u, <2>1, <2>2
<1>. QED
  BY <1>1, <1>2, <1>3, <1>4, <1>5, <1>6, <1>7, <1>8 DEF Next, Callback, Click

LEMMA CamInit == Init => CamInv
<1>1. Init => QueueInv
  BY DEF Init, QueueInv, Lifecycle, Buttons
<1>2. Init => Unopened /\ ClearedInPause /\ HeldCameraIsCurrent
  BY CamerasAssumption
  DEF Init, Unopened, ClearedInPause, HeldCameraIsCurrent, Held, HeldStates, Cameras
<1>. QED  BY <1>1, <1>2, TypeInit DEF CamInv

(* Whatever fails half way, the one camera that may be held is the one in   *)
(* mCamera that current_camera names, and a paused activity holds one only  *)
(* if a click on Switch has run since it paused.                            *)
THEOREM HeldCameraStaysCurrent == Spec => []HeldCameraIsCurrent
<1>1. CamInv => HeldCameraIsCurrent
  BY DEF CamInv
<1>. QED  BY <1>1, CamInit, CamInvStep, PTL DEF Spec

(* A step sets the microphone, or leaves it with all it is compared with.   *)
LEMMA MicStep == CamInv /\ MicFollowsCamera /\ [Next]_vars => MicFollowsCamera'
<1>. SUFFICES ASSUME CamInv, MicFollowsCamera, [Next]_vars PROVE MicFollowsCamera'
  OBVIOUS
<1>t. TypeOK /\ life \in {"resumed", "paused"}
  BY DEF CamInv, TypeOK
<1>1. CASE OnResume
  BY <1>1 DEF OnResume, MicFollowsCamera
<1>2. CASE OnPause
  BY <1>2 DEF OnPause, MicFollowsCamera
<1>3. CASE Switch
  <2>1. /\ life' = life /\ (life' = "resumed" \/ "Switch" \in strays')
        /\ StopFails \/ mic' = current_camera' + 1
    BY <1>3, <1>t DEF Switch, Clicked, OpenFails, OpenOther, screenVars
  <2>2. StopFails => life = "resumed" \/ "Switch" \in strays
    BY <1>t DEF StopFails, StopsPreview, CamInv, ClearedInPause
  <2>. QED  BY <2>1, <2>2 DEF StopFails, MicFollowsCamera
<1>4. CASE /\ UNCHANGED <<mic, life, current_camera>>
           /\ "Switch" \in strays' <=> "Switch" \in strays
  BY <1>4 DEF MicFollowsCamera
<1>5. \/ OnResume \/ OnPause \/ Switch
      \/ /\ UNCHANGED <<mic, life, current_camera>>
         /\ strays' = strays \/ \E b \in {"Capture", "Record"} : strays' = strays \cup {b}
  BY DEF Next, Callback, Click, vars, screenVars, SurfaceCreated, SurfaceChanged,
         SurfaceDestroyed, Capture, PictureReady, OnPictureTaken, StartRecording,
         StopRecording, SystemAsks, Tap, Clicked, Crash
<1>. QED  BY <1>1, <1>2, <1>3, <1>4, <1>5

(* The microphone follows the camera, whichever part of a switch fails and  *)
(* whenever its click runs.                                                 *)
THEOREM MicAlwaysFollows == Spec => []MicFollowsCamera
<1>1. Init => MicFollowsCamera
  BY DEF Init, MicFollowsCamera
<1>. QED  BY <1>1, CamInit, CamInvStep, MicStep, PTL DEF Spec

(* A recorder that records is in the field, and the camera it has locked    *)
(* is held; only the first one has never been set up.                       *)
RecInv ==
    \A r \in Recorders :
        /\ recState[r] = "recording" => /\ r = mrec /\ (recording \/ crashed)
                                        /\ mCamera \in Cameras /\ Held(mCamera)
        /\ recState[r] = "initial" => r = 1

LEMMA Dropped ==
    ASSUME TypeOK, RecInv, DropRecorder
    PROVE  \A r \in Recorders :
               /\ recState'[r] # "recording"
               /\ recState'[r] = "initial" => r = 1
BY DEF DropRecorder, ReleasedRec, RecInv, TypeOK, Recorders

LEMMA RecInvStep == CamInv /\ RecInv /\ [Next]_vars => RecInv'
<1>. SUFFICES ASSUME CamInv, RecInv, [Next]_vars PROVE RecInv'
  OBVIOUS
<1>t. /\ TypeOK /\ camState \in [Cameras -> CamStates]
      /\ recState \in [Recorders -> RecStates]
      /\ mCamera \in Cameras \cup {0} /\ 0 \notin Cameras
  BY DEF CamInv, TypeOK, Cameras
<1>1. CASE DropRecorder
  BY <1>1, <1>t, Dropped DEF RecInv
<1>2. CASE OnResume /\ ~DropRecorder
  <2>1. recState' = recState /\ surface # "shown" /\ recording' = FALSE
    BY <1>2 DEF OnResume, recVars
  <2>2. CASE crashed'
    <3>1. camState' = camState /\ mCamera' = mCamera /\ mrec' = mrec
      BY <1>2, <2>1, <2>2 DEF OnResume, Handles, Running, recVars
    <3>. QED  BY <2>1, <2>2, <3>1 DEF RecInv, Held
  <2>3. CASE ~crashed'
    <3>1. \A c \in Cameras : ~Held(c)
      <4>1. \A c \in Cameras : camState[c] \in HeldStates => camId[c] # current_camera
        BY <1>2, <2>1, <2>3 DEF OnResume
      <4>. QED  BY <4>1 DEF Held, CamInv, HeldCameraIsCurrent
    <3>2. \A r \in Recorders : recState[r] # "recording"
      BY <3>1 DEF RecInv
    <3>. QED  BY <2>1, <3>2 DEF RecInv
  <2>. QED  BY <2>2, <2>3
<1>3. CASE StartRecording
  <2>1. \A r \in Recorders : recState[r] # "recording"
    BY <1>3 DEF StartRecording, RecInv, Clicked, Handles, Running
  <2>2. \A r \in Recorders :
           \/ recState'[r] = recState[r]
           \/ recState'[r] = "released"
           \/ /\ r = made + 1 /\ recState'[r] = "recording"
              /\ Unlocks(mCamera) /\ camState' = [camState EXCEPT ![mCamera] = "preview"]
    BY <1>3, <1>t DEF StartRecording
  <2>3. \A r \in Recorders : recState'[r] = "recording" =>
           r = mrec' /\ mCamera' \in Cameras /\ camState'[mCamera'] = "preview"
    BY <1>3, <1>t, <2>1, <2>2 DEF StartRecording, Unlocks
  <2>4. recording' /\ \A r \in Recorders : recState'[r] = "initial" => recState[r] = "initial"
    BY <1>3, <2>2 DEF StartRecording
  <2>. QED  BY <2>3, <2>4 DEF RecInv, Held, HeldStates
<1>4. CASE /\ UNCHANGED <<recVars, mCamera>>
           /\ UNCHANGED recording /\ (crashed' = crashed \/ crashed')
           /\ mCamera \in Cameras /\ Held(mCamera) => Held(mCamera)'
  BY <1>4 DEF RecInv, recVars
<1>5. ASSUME Capture \/ OnPictureTaken \/ SurfaceChanged \/ SurfaceCreated PROVE RecInv'
  <2>1. /\ UNCHANGED <<recVars, mCamera>>
        /\ UNCHANGED recording /\ (crashed' = crashed \/ crashed')
    BY <1>5 DEF Capture, OnPictureTaken, SurfaceChanged, SurfaceCreated, Crash, camVars
  <2>2. \/ camState' = camState
        \/ \E s \in HeldStates : camState' = [camState EXCEPT ![mCamera] = s]
    BY <1>5 DEF Capture, OnPictureTaken, SurfaceChanged, SurfaceCreated, Crash, camVars,
       HeldStates
  <2>3. mCamera \in Cameras /\ Held(mCamera) => Held(mCamera)'
    BY <1>t, <2>1, <2>2 DEF Held
  <2>. QED  BY <1>4, <2>1, <2>3
<1>6. ASSUME NEW c \in Cameras, PictureReady(c) PROVE RecInv'
  <2>1. /\ UNCHANGED <<recVars, mCamera>> /\ UNCHANGED <<recording, crashed>>
        /\ camState' = [camState EXCEPT ![c] = "idle"]
    BY <1>6 DEF PictureReady
  <2>2. mCamera \in Cameras /\ Held(mCamera) => Held(mCamera)'
    BY <1>t, <2>1 DEF Held, HeldStates
  <2>. QED  BY <1>4, <2>1, <2>2
<1>7. CASE \/ SystemAsks \/ (\E b \in Buttons : Tap(b)) \/ UNCHANGED vars
           \/ StopRecording /\ ~DropRecorder
  <2>1. UNCHANGED <<recVars, camVars, recording>> /\ (crashed' = crashed \/ crashed')
    BY <1>7 DEF SystemAsks, Tap, vars, StopRecording, Crash
  <2>. QED  BY <1>4, <2>1 DEF camVars, Held
<1>8. OnPause \/ SurfaceDestroyed \/ Switch => DropRecorder
  BY DEF OnPause, SurfaceDestroyed, Switch
<1>. QED
  BY <1>1, <1>2, <1>3, <1>5, <1>6, <1>7, <1>8 DEF Next, Callback, Click

(* Of all recorders only the one made with the activity can be dropped      *)
(* without being released, late clicks or not.                              *)
THEOREM RecordersReleased == Spec => []OnlyFirstRecorderLeaks
<1>1. Init => RecInv
  BY DEF Init, RecInv
<1>2. RecInv => OnlyFirstRecorderLeaks
  BY DEF RecInv, OnlyFirstRecorderLeaks
<1>. QED  BY <1>1, <1>2, CamInit, CamInvStep, RecInvStep, PTL DEF Spec

-----------------------------------------------------------------------------
(* Pictures and recordings, as long as no click has come late.  A picture   *)
(* is taken with all buttons hidden, so that one is under way at a time.    *)
(* Its message may be that of an earlier session, but it comes before any   *)
(* click on the buttons it shows.                                           *)
PictureQueued == \E k \in 1..Len(queue) : queue[k] = "picture"

PicturesFirst ==
    \A j, k \in 1..Len(queue) : queue[j] \in Buttons /\ queue[k] = "picture" => k < j

OnePicture ==
    \A j, k \in 1..Len(queue) : queue[j] = "picture" /\ queue[k] = "picture" => j = k

LEMMA NoPictures == ~PictureQueued => PicturesFirst /\ OnePicture
BY DEF PictureQueued, PicturesFirst, OnePicture

LEMMA PicturesShifted ==
    ASSUME TypeOK, NEW m, Handles(m)
    PROVE  /\ PictureQueued' => PictureQueued
           /\ PicturesFirst => PicturesFirst'
           /\ OnePicture => OnePicture'
           /\ m = "picture" => PictureQueued
           /\ m = "picture" /\ OnePicture => ~PictureQueued'
           /\ m \in Buttons /\ PicturesFirst => ~PictureQueued
<1>1. /\ 1 \in 1..Len(queue) /\ queue[1] = m
      /\ \A k \in 1..Len(queue') : /\ k + 1 \in 1..Len(queue) /\ k + 1 # 1
                                   /\ queue'[k] = queue[k + 1]
      /\ \A j, k \in 1..Len(queue') : /\ k + 1 < j + 1 => k < j
                                      /\ j + 1 = k + 1 => j = k
      /\ \A j \in 1..Len(queue) : ~(j < 1)
  BY Shifted
<1>2. /\ PictureQueued' => PictureQueued
      /\ m = "picture" => PictureQueued
      /\ m \in Buttons /\ PicturesFirst => ~PictureQueued
  BY <1>1 DEF PictureQueued, PicturesFirst
<1>3. PicturesFirst => PicturesFirst'
  BY <1>1 DEF PicturesFirst
<1>4. OnePicture => OnePicture'
  BY <1>1 DEF OnePicture
<1>5. m = "picture" /\ OnePicture => ~PictureQueued'
  BY <1>1 DEF PictureQueued, OnePicture
<1>. QED  BY <1>2, <1>3, <1>4, <1>5

LEMMA PicturesGrown ==
    ASSUME TypeOK, NEW m \in Messages, m # "picture", queue' = Append(queue, m)
    PROVE  /\ PictureQueued' <=> PictureQueued
           /\ PicturesFirst => PicturesFirst'
           /\ OnePicture => OnePicture'
<1>1. /\ \A k \in 1..Len(queue') : \/ /\ k \in 1..Len(queue) /\ queue'[k] = queue[k]
                                      /\ k < Len(queue) + 1
                                   \/ k = Len(queue) + 1 /\ queue'[k] = m
      /\ \A k \in 1..Len(queue) : k \in 1..Len(queue') /\ queue'[k] = queue[k]
  BY Grown
<1>. QED  BY <1>1 DEF PictureQueued, PicturesFirst, OnePicture

LEMMA PicturePosted ==
    ASSUME TypeOK, ~PictureQueued, queue' = Append(queue, "picture")
    PROVE  PictureQueued' /\ OnePicture'
<1>1. "picture" \in Messages
  BY DEF Messages
<1>2. /\ \A k \in 1..Len(queue') : \/ /\ k \in 1..Len(queue) /\ queue'[k] = queue[k]
                                      /\ k < Len(queue) + 1
                                   \/ k = Len(queue) + 1 /\ queue'[k] = "picture"
      /\ Len(queue) + 1 \in 1..Len(queue') /\ queue'[Len(queue) + 1] = "picture"
  BY <1>1, Grown
<1>. QED  BY <1>2 DEF PictureQueued, OnePicture

LEMMA PicturesSame ==
    queue' = queue => /\ PictureQueued' <=> PictureQueued
                      /\ PicturesFirst' <=> PicturesFirst
                      /\ OnePicture' <=> OnePicture
BY DEF PictureQueued, PicturesFirst, OnePicture

(* A resumed activity has opened a camera, and has lost it with its surface.*)
OwnsCamera ==
    life = "resumed" /\ ~crashed
        => mCamera \in Cameras /\ (surface = "gone" => camState[mCamera] = "released")

(* A click that comes in time finds its session in order.                   *)
Orderly ==
    /\ recording => "Switch" \notin visible /\ "Capture" \notin visible
    /\ camState[mCamera] = "taking" => visible = {} /\ ~PictureQueued
    /\ camState[mCamera] = "taking" \/ PictureQueued => ~recording
    /\ visible = {} => OnePicture
    /\ visible # {} => PicturesFirst
    /\ recording /\ lastStart = "ok" /\ surface # "gone"
          => mrec # 0 /\ recState[mrec] = "recording"

SessionInv == life = "resumed" /\ ~crashed /\ strays = {} => Orderly

QuietPause == life = "paused" /\ ~crashed /\ strays = {} => ~recording

LEMMA DueClick ==
    ASSUME TypeOK, QueueInv, NEW b \in Buttons, Clicked(b), strays' = {}
    PROVE  /\ strays = {} /\ life = "resumed" /\ b \in visible
           /\ surface \in {"shown", "gone"} /\ ~sizing /\ ~crashed
<1>1. strays = {} /\ life = "resumed" /\ b \in visible /\ ~sizing /\ ~crashed /\ Handles(b)
  BY DEF Clicked, Handles, Running
<1>2. 1 \in 1..Len(queue) /\ queue[1] = b
  BY <1>1, Shifted
<1>3. surface \notin {"none", "new"}
  BY <1>2 DEF QueueInv
<1>. QED  BY <1>1, <1>3 DEF TypeOK

LEMMA CameraTypes ==
    ASSUME CamInv
    PROVE  /\ TypeOK /\ QueueInv /\ camState \in [Cameras -> CamStates]
           /\ recState \in [Recorders -> RecStates]
           /\ mCamera \in Cameras \cup {0} /\ 0 \notin Cameras /\ 0 \notin Recorders
           /\ opened \in Nat /\ faults \in Nat /\ visible \subseteq Buttons
           /\ life \in {"resumed", "paused"} /\ strays \subseteq Buttons
BY CamerasAssumption, FaultsAssumption DEF CamInv, TypeOK, Cameras, Recorders

LEMMA OwnsStep == CamInv /\ OwnsCamera /\ [Next]_vars => OwnsCamera'
<1>. SUFFICES ASSUME CamInv, OwnsCamera, [Next]_vars, life' = "resumed", ~crashed'
              PROVE  mCamera' \in Cameras
                     /\ (surface' = "gone" => camState'[mCamera'] = "released")
  BY DEF OwnsCamera
<1>t. /\ TypeOK /\ camState \in [Cameras -> CamStates]
      /\ mCamera \in Cameras \cup {0} /\ 0 \notin Cameras /\ opened \in Nat
  BY CameraTypes
<1>1. CASE OnResume
  <2>1. surface' = "new" /\ Open(current_camera)
    BY <1>1 DEF OnResume
  <2>2. current_camera \in {0, 1}
    BY <1>t DEF TypeOK
  <2>. QED  BY <1>t, <2>1, <2>2, OpenType DEF Open
<1>2. CASE Switch
  <2>1. life = "resumed" /\ ~crashed /\ surface' = surface
    BY <1>2 DEF Switch, Clicked, Handles, Running, screenVars
  <2>2. mCamera \in Cameras /\ (surface = "gone" => camState[mCamera] = "released")
    BY <2>1 DEF OwnsCamera
  <2>3. CASE StopFails
    BY <2>1, <2>2, <2>3 DEF StopFails, camVars
  <2>4. CASE OpenFails
    BY <1>t, <2>1, <2>2, <2>4 DEF OpenFails, ReleasedCam
  <2>5. ASSUME NEW s, OpenOther(s)
        PROVE  mCamera' \in Cameras
               /\ (surface' = "gone" => camState'[mCamera'] = "released")
    <3>1. surface # "gone"
      BY <1>t, <2>2, <2>5 DEF OpenOther, StopsPreview
    <3>2. mCamera' \in Cameras
      BY <1>t, <2>5, CamerasAssumption DEF OpenOther, Open, Cameras
    <3>. QED  BY <2>1, <3>1, <3>2
  <2>. QED  BY <1>2, <2>3, <2>4, <2>5 DEF Switch
<1>3. CASE SurfaceDestroyed
  <2>1. life = "resumed" /\ ~crashed /\ mCamera' = mCamera /\ camState' = ReleasedCam(mCamera)
    BY <1>3 DEF SurfaceDestroyed, Running
  <2>2. mCamera \in Cameras
    BY <2>1 DEF OwnsCamera
  <2>. QED  BY <1>t, <2>1, <2>2 DEF ReleasedCam
<1>4. CASE StartRecording
  <2>1. /\ life = "resumed" /\ ~crashed /\ surface' = surface /\ mCamera' = mCamera
        /\ camState' = camState \/ Unlocks(mCamera)
    BY <1>4 DEF StartRecording, Clicked, Handles, Running, screenVars
  <2>. QED  BY <2>1 DEF OwnsCamera, Unlocks
<1>5. ASSUME NEW c \in Cameras, PictureReady(c)
      PROVE  mCamera' \in Cameras
             /\ (surface' = "gone" => camState'[mCamera'] = "released")
  <2>1. /\ life = "resumed" /\ ~crashed /\ surface' = surface /\ mCamera' = mCamera
        /\ camState[c] = "taking" /\ camState' = [camState EXCEPT ![c] = "idle"]
    BY <1>5 DEF PictureReady, screenVars
  <2>. QED  BY <1>t, <2>1 DEF OwnsCamera
<1>6. CASE Capture \/ OnPictureTaken \/ SurfaceChanged
  <2>1. /\ life = "resumed" /\ ~crashed /\ surface' = surface /\ mCamera' = mCamera
        /\ camState' = camState \/ Usable(mCamera)
    BY <1>6 DEF Capture, OnPictureTaken, SurfaceChanged, Clicked, Handles, Running, Crash,
       screenVars, Previews, Usable
  <2>. QED  BY <2>1 DEF OwnsCamera, Usable
<1>7. CASE SurfaceCreated \/ StopRecording \/ SystemAsks \/ (\E b \in Buttons : Tap(b))
           \/ UNCHANGED vars
  <2>1. /\ life = "resumed" /\ ~crashed /\ UNCHANGED camVars
        /\ surface' = surface \/ surface' = "shown"
    BY <1>7 DEF SurfaceCreated, StopRecording, SystemAsks, Tap, Crash, Clicked, Handles,
       Running, vars, screenVars
  <2>. QED  BY <2>1 DEF OwnsCamera, camVars
<1>. QED
  BY <1>1, <1>2, <1>3, <1>4, <1>5, <1>6, <1>7 DEF Next, Callback, Click, OnPause

LEMMA QuietStep == CamInv /\ QuietPause /\ [Next]_vars => QuietPause'
<1>. SUFFICES ASSUME CamInv, QuietPause, [Next]_vars,
                     life' = "paused", ~crashed', strays' = {}
              PROVE  recording' = FALSE
  BY TypeStep DEF QuietPause, CamInv, TypeOK
<1>t. TypeOK /\ QueueInv /\ recording \in BOOLEAN
  BY DEF CamInv, TypeOK
<1>1. CASE OnPause
  BY <1>1 DEF OnPause
<1>2. \A b \in Buttons : ~Clicked(b) \/ life = "resumed"
  BY <1>t, DueClick
<1>3. CASE Click
  BY <1>2, <1>3 DEF Click, Capture, StartRecording, StopRecording, Switch, Buttons, Crash,
     screenVars
<1>4. CASE ~OnPause /\ ~Click
  <2>1. UNCHANGED <<life, recording>> /\ ~crashed /\ strays = {}
    BY <1>4 DEF Next, Callback, OnResume, SystemAsks, SurfaceCreated, SurfaceChanged,
       SurfaceDestroyed, Tap, PictureReady, OnPictureTaken, Crash, Handles, Running, vars,
       screenVars
  <2>. QED  BY <1>t, <2>1 DEF QuietPause
<1>. QED  BY <1>1, <1>3, <1>4

LEMMA SessionStep == CamInv /\ OwnsCamera /\ SessionInv /\ [Next]_vars => SessionInv'
<1>. SUFFICES ASSUME CamInv, OwnsCamera, SessionInv, [Next]_vars,
                     life' = "resumed", ~crashed', strays' = {}
              PROVE  Orderly'
  BY DEF SessionInv
<1>t. /\ TypeOK /\ QueueInv /\ camState \in [Cameras -> CamStates]
      /\ recState \in [Recorders -> RecStates] /\ mCamera \in Cameras \cup {0}
      /\ 0 \notin Cameras /\ 0 \notin Recorders /\ visible \subseteq Buttons
      /\ opened \in Nat
  BY CameraTypes
<1>m. \A b \in Buttons : b \in Messages /\ b # "picture"
  BY DEF Buttons, Messages
<1>1. CASE OnResume
  <2>1. /\ visible' = Buttons /\ recording' = FALSE /\ Handles("resume")
        /\ Open(current_camera) /\ current_camera \in {0, 1}
    BY <1>1, <1>t DEF OnResume, TypeOK
  <2>2. PICK left \in [Cameras -> CamStates] :
           camState' = [left EXCEPT ![opened + 1] = "idle"]
    BY <1>1, ResumeOpens
  <2>3. camState'[mCamera'] = "idle"
    BY <1>t, <2>1, <2>2, OpenType DEF Open
  <2>4. queue[1] = "resume" /\ 1 \in 1..Len(queue) /\ \A k \in 1..Len(queue) : ~(k < 1)
    BY <1>t, <2>1, Shifted
  <2>5. \A k \in 1..Len(queue) : queue[k] \notin Buttons
    BY <1>t, <2>4 DEF QueueInv
  <2>6. PicturesFirst
    BY <2>5 DEF PicturesFirst
  <2>7. PicturesFirst'
    BY <1>t, <2>1, <2>6, PicturesShifted
  <2>8. visible' # {}
    BY <2>1 DEF Buttons
  <2>. QED  BY <2>1, <2>3, <2>7, <2>8 DEF Orderly
<1>2. ASSUME NEW b \in Buttons, Clicked(b)
      PROVE  /\ Orderly /\ b \in visible /\ mCamera \in Cameras /\ Handles(b)
             /\ ~PictureQueued /\ ~PictureQueued' /\ PicturesFirst' /\ OnePicture'
             /\ camState[mCamera] # "taking"
             /\ surface = "gone" => camState[mCamera] = "released"
  <2>1. /\ strays = {} /\ life = "resumed" /\ b \in visible /\ ~crashed /\ Handles(b)
    BY <1>2, <1>t, DueClick DEF Clicked
  <2>2. Orderly /\ mCamera \in Cameras
        /\ (surface = "gone" => camState[mCamera] = "released")
    BY <2>1 DEF SessionInv, OwnsCamera
  <2>3. visible # {} /\ PicturesFirst /\ camState[mCamera] # "taking"
    BY <2>1, <2>2 DEF Orderly
  <2>4. ~PictureQueued /\ ~PictureQueued'
    BY <1>t, <2>1, <2>3, PicturesShifted
  <2>5. PicturesFirst' /\ OnePicture'
    BY <2>4 DEF PictureQueued, PicturesFirst, OnePicture
  <2>. QED  BY <2>1, <2>2, <2>3, <2>4, <2>5
<1>3. CASE Capture
  <2>1. Clicked("Capture") /\ "Capture" \in Buttons
    BY <1>3 DEF Capture, Buttons
  <2>2. /\ visible' = {} /\ camState' = [camState EXCEPT ![mCamera] = "taking"]
        /\ UNCHANGED <<recording, mrec, recState, surface, lastStart>>
    BY <1>3 DEF Capture, Crash, screenVars, recVars
  <2>3. ~recording
    BY <1>2, <2>1 DEF Orderly
  <2>. QED  BY <1>2, <2>1, <2>2, <2>3 DEF Orderly
<1>4. CASE StartRecording
  <2>1. Clicked("Record") /\ "Record" \in Buttons
    BY <1>4 DEF StartRecording, Buttons
  <2>2. /\ visible' = visible \ {"Switch", "Capture"} /\ mrec' = made + 1
        /\ UNCHANGED <<mCamera, surface>> /\ made < MaxRecorders
    BY <1>4 DEF StartRecording, screenVars
  <2>3. camState'[mCamera] # "taking"
    BY <1>2, <1>4, <1>t, <2>1 DEF StartRecording
  <2>4. made + 1 \in Recorders
    BY <1>t, <2>2, CamerasAssumption DEF TypeOK, Recorders
  <2>5. lastStart' = "ok" => recState'[mrec'] = "recording"
    BY <1>4, <1>t, <2>2, <2>4 DEF StartRecording
  <2>. QED  BY <1>2, <1>t, <2>1, <2>2, <2>3, <2>4, <2>5 DEF Orderly
<1>5. CASE StopRecording
  <2>1. Clicked("Record") /\ "Record" \in Buttons
    BY <1>5 DEF StopRecording, Buttons
  <2>2. recording' = FALSE /\ UNCHANGED camVars
    BY <1>5 DEF StopRecording, Crash
  <2>. QED  BY <1>2, <2>1, <2>2 DEF Orderly, camVars
<1>6. CASE Switch
  <2>1. Clicked("Switch") /\ "Switch" \in Buttons /\ recording' = recording
    BY <1>6 DEF Switch, Buttons
  <2>2. ~recording
    BY <1>2, <2>1 DEF Orderly
  <2>3. camState'[mCamera'] # "taking"
    <3>1. CASE StopFails
      BY <1>2, <2>1, <3>1 DEF StopFails, camVars
    <3>2. CASE OpenFails
      BY <1>2, <1>t, <2>1, <3>2 DEF OpenFails, ReleasedCam
    <3>3. ASSUME NEW s \in {"idle", "preview"}, OpenOther(s)
          PROVE  camState'[mCamera'] # "taking"
      <4>1. mCamera' = opened + 1 /\ opened + 1 \in Cameras
        BY <1>t, <3>3, CamerasAssumption DEF OpenOther, Open, Cameras
      <4>2. ReleasedCam(mCamera) \in [Cameras -> CamStates]
        BY <1>t, ReleasedType
      <4>. QED  BY <3>3, <4>1, <4>2 DEF OpenOther
    <3>. QED  BY <1>6, <3>1, <3>2, <3>3 DEF Switch
  <2>. QED  BY <1>2, <2>1, <2>2, <2>3 DEF Orderly
<1>7. CASE ~OnResume /\ ~Click /\ ~OnPause
  <2>1. /\ life = "resumed" /\ ~crashed /\ strays = {}
    BY <1>7 DEF Next, Callback, SystemAsks, SurfaceCreated, SurfaceChanged,
       SurfaceDestroyed, Tap, PictureReady, OnPictureTaken, Crash, Handles, Running, vars,
       screenVars
  <2>2. Orderly /\ mCamera \in Cameras
    BY <2>1 DEF SessionInv, OwnsCamera
  <2>3. CASE SystemAsks \/ \E b \in Buttons : Tap(b)
    <3>1. PICK m \in {"pause", "resume"} \cup Buttons : queue' = Append(queue, m)
      BY <2>3 DEF SystemAsks, Tap
    <3>2. m \in Messages /\ m # "picture"
      BY <1>m DEF Messages
    <3>3. UNCHANGED <<camVars, recVars, recording, visible, surface, lastStart>>
      BY <2>3 DEF SystemAsks, Tap, screenVars
    <3>. QED
      BY <1>t, <2>2, <3>1, <3>2, <3>3, PicturesGrown DEF Orderly, camVars, recVars
  <2>4. CASE SurfaceCreated \/ UNCHANGED vars
    <3>1. UNCHANGED <<camVars, recVars, recording, visible, lastStart, queue>>
      BY <2>4 DEF SurfaceCreated, Crash, vars
    <3>2. surface' # "gone" => surface # "gone"
      BY <1>t, <2>1, <2>2, <2>4
      DEF OwnsCamera, SurfaceCreated, Usable, Crash, vars, screenVars
    <3>. QED  BY <2>2, <3>1, <3>2, PicturesSame DEF Orderly, camVars, recVars
  <2>5. CASE SurfaceChanged
    <3>1. /\ camState' = [camState EXCEPT ![mCamera] = "preview"] /\ mCamera' = mCamera
          /\ UNCHANGED <<recVars, recording, visible, surface, lastStart, queue>>
    BY <2>5 DEF SurfaceChanged, Crash
    <3>2. camState[mCamera] # "taking" /\ camState'[mCamera] # "taking"
      BY <1>t, <2>2, <2>5, <3>1 DEF SurfaceChanged, Usable, Crash
    <3>. QED  BY <2>2, <3>1, <3>2, PicturesSame DEF Orderly, recVars
  <2>6. CASE SurfaceDestroyed
    <3>1. /\ camState' = ReleasedCam(mCamera) /\ mCamera' = mCamera /\ surface' = "gone"
          /\ UNCHANGED <<recording, visible, queue>>
      BY <2>6 DEF SurfaceDestroyed
    <3>2. camState'[mCamera] = "released"
      BY <1>t, <2>2, <3>1 DEF ReleasedCam
    <3>. QED  BY <2>2, <3>1, <3>2, PicturesSame DEF Orderly
  <2>7. ASSUME NEW c \in Cameras, PictureReady(c) PROVE Orderly'
    <3>1. c = mCamera /\ camState[mCamera] = "taking"
      BY <2>7 DEF PictureReady, CamInv, HeldCameraIsCurrent, Held, HeldStates
    <3>2. /\ camState' = [camState EXCEPT ![mCamera] = "idle"] /\ mCamera' = mCamera
          /\ queue' = Append(queue, "picture")
          /\ UNCHANGED <<recording, visible>>
      BY <2>7, <3>1 DEF PictureReady
    <3>3. visible = {} /\ ~PictureQueued /\ ~recording
      BY <2>2, <3>1 DEF Orderly
    <3>4. OnePicture' /\ camState'[mCamera] = "idle"
      BY <1>t, <2>2, <3>2, <3>3, PicturePosted
    <3>. QED  BY <3>2, <3>3, <3>4 DEF Orderly
  <2>8. CASE OnPictureTaken
    <3>1. /\ camState' = [camState EXCEPT ![mCamera] = "preview"] /\ mCamera' = mCamera
          /\ Handles("picture") /\ visible' = Buttons
          /\ UNCHANGED <<recording>>
      BY <2>8 DEF OnPictureTaken, Crash
    <3>2. PictureQueued /\ ~recording /\ camState'[mCamera] = "preview"
      BY <1>t, <2>2, <3>1, PicturesShifted DEF Orderly
    <3>3. visible' # {}
      BY <3>1 DEF Buttons
    <3>4. PicturesFirst'
      <4>1. CASE visible # {}
        BY <1>t, <2>2, <3>1, <4>1, PicturesShifted DEF Orderly
      <4>2. CASE visible = {}
        <5>1. ~PictureQueued'
          BY <1>t, <2>2, <3>1, <4>2, PicturesShifted DEF Orderly
        <5>. QED  BY <5>1 DEF PictureQueued, PicturesFirst
      <4>. QED  BY <4>1, <4>2
    <3>. QED  BY <3>1, <3>2, <3>3, <3>4 DEF Orderly
  <2>. QED
    BY <1>7, <2>3, <2>4, <2>5, <2>6, <2>7, <2>8 DEF Next, Callback
<1>8. ~OnPause
  BY DEF OnPause
<1>. QED  BY <1>1, <1>3, <1>4, <1>5, <1>6, <1>7, <1>8 DEF Click

(* Nothing has failed and no click has come late: the surface is there, the *)
(* camera is ready for whatever the buttons, the surface or a picture will  *)
(* ask of it.                                                               *)
Calm ==
    /\ surface \in {"new", "shown"}
    /\ sizing => surface = "shown"
    /\ recording => lastStart = "ok"
    /\ surface = "new" \/ sizing
          => camState[mCamera] \in {"idle", "preview"} /\ visible = Buttons /\ ~recording
    /\ PictureQueued => camState[mCamera] \in {"idle", "preview"}
    /\ surface = "shown" /\ ~sizing /\ (visible # {} \/ ~PictureQueued)
          => camState[mCamera] \in {"preview", "taking"}

CalmInv == life = "resumed" /\ ~crashed /\ strays = {} /\ faults = 0 => Calm

LEMMA CalmStep ==
    CamInv /\ OwnsCamera /\ SessionInv /\ CalmInv /\ [Next]_vars => CalmInv'
<1>. SUFFICES ASSUME CamInv, OwnsCamera, SessionInv, CalmInv, [Next]_vars,
                     life' = "resumed", ~crashed', strays' = {}, faults' = 0
              PROVE  Calm'
  BY DEF CalmInv
<1>t. /\ TypeOK /\ QueueInv /\ camState \in [Cameras -> CamStates]
      /\ mCamera \in Cameras \cup {0} /\ 0 \notin Cameras /\ visible \subseteq Buttons
      /\ opened \in Nat /\ faults \in Nat
  BY CameraTypes
<1>f. ~Fault
  BY <1>t DEF Fault
<1>1. CASE OnResume
  <2>1. /\ visible' = Buttons /\ recording' = FALSE /\ surface' = "new"
        /\ sizing' = FALSE
        /\ Open(current_camera) /\ current_camera \in {0, 1}
    BY <1>1, <1>t DEF OnResume, Handles, Running, TypeOK
  <2>2. PICK left \in [Cameras -> CamStates] :
           camState' = [left EXCEPT ![opened + 1] = "idle"]
    BY <1>1, ResumeOpens
  <2>3. camState'[mCamera'] = "idle"
    BY <1>t, <2>1, <2>2, OpenType DEF Open
  <2>. QED  BY <2>1, <2>3 DEF Calm
<1>2. ASSUME NEW b \in Buttons, Clicked(b)
      PROVE  /\ Calm \/ faults # 0
             /\ b \in visible /\ mCamera \in Cameras
             /\ surface \in {"shown", "gone"} /\ ~sizing /\ ~crashed /\ strays = {}
             /\ life = "resumed" /\ Orderly
             /\ ~PictureQueued /\ ~PictureQueued'
             /\ Calm => camState[mCamera] = "preview" /\ surface = "shown"
  <2>1. /\ strays = {} /\ life = "resumed" /\ b \in visible /\ ~crashed /\ Handles(b)
        /\ surface \in {"shown", "gone"} /\ ~sizing
    BY <1>2, <1>t, DueClick DEF Clicked
  <2>2. Orderly /\ mCamera \in Cameras
    BY <2>1 DEF SessionInv, OwnsCamera
  <2>3. visible # {} /\ PicturesFirst /\ camState[mCamera] # "taking"
    BY <2>1, <2>2 DEF Orderly
  <2>4. ~PictureQueued /\ ~PictureQueued'
    BY <1>t, <2>1, <2>3, PicturesShifted
  <2>5. Calm \/ faults # 0
    BY <2>1 DEF CalmInv
  <2>. QED  BY <2>1, <2>2, <2>3, <2>4, <2>5 DEF Calm
<1>3. CASE Capture
  <2>1. Clicked("Capture") /\ "Capture" \in Buttons
    BY <1>3 DEF Capture, Buttons
  <2>2. /\ visible' = {} /\ camState' = [camState EXCEPT ![mCamera] = "taking"]
        /\ UNCHANGED <<surface, sizing, mCamera, recording, lastStart, faults>>
    BY <1>3, <1>f DEF Capture, Crash, screenVars
  <2>3. Calm /\ surface = "shown" /\ ~sizing /\ ~PictureQueued'
    BY <1>2, <2>1, <2>2
  <2>4. camState'[mCamera] = "taking"
    BY <1>2, <1>t, <2>1, <2>2
  <2>. QED  BY <2>2, <2>3, <2>4 DEF Calm
<1>4. CASE StartRecording
  <2>1. Clicked("Record") /\ "Record" \in Buttons
    BY <1>4 DEF StartRecording, Buttons
  <2>2. UNCHANGED <<surface, sizing, mCamera, faults>>
    BY <1>4, <1>f DEF StartRecording, screenVars
  <2>3. /\ Calm /\ surface = "shown" /\ ~sizing /\ ~PictureQueued'
        /\ mCamera \in Cameras /\ camState[mCamera] = "preview"
    BY <1>2, <2>1, <2>2
  <2>4. lastStart' = "ok" /\ camState' = [camState EXCEPT ![mCamera] = "preview"]
    BY <1>4, <1>f, <1>t, <2>3 DEF StartRecording, Usable, Unlocks
  <2>5. camState'[mCamera] = "preview"
    BY <1>t, <2>3, <2>4
  <2>. QED  BY <2>2, <2>3, <2>4, <2>5 DEF Calm
<1>5. CASE StopRecording
  <2>1. Clicked("Record") /\ "Record" \in Buttons
    BY <1>5 DEF StopRecording, Buttons
  <2>2. /\ recording' = FALSE
        /\ UNCHANGED <<surface, sizing, mCamera, camState, faults>>
    BY <1>5, <1>f DEF StopRecording, Crash, screenVars, camVars
  <2>3. /\ Calm /\ surface = "shown" /\ ~sizing /\ ~PictureQueued'
        /\ camState[mCamera] = "preview"
    BY <1>2, <2>1, <2>2
  <2>. QED  BY <2>2, <2>3 DEF Calm
<1>6. CASE Switch
  <2>1. Clicked("Switch") /\ "Switch" \in Buttons
    BY <1>6 DEF Switch, Buttons
  <2>2. UNCHANGED <<surface, sizing, recording, lastStart>>
    BY <1>6 DEF Switch, screenVars
  <2>3. faults = 0
    BY <1>6, <1>f DEF Switch, StopFails, OpenFails
  <2>4. /\ Calm /\ surface = "shown" /\ ~sizing /\ ~PictureQueued'
        /\ mCamera \in Cameras /\ camState[mCamera] = "preview"
    BY <1>2, <2>1, <2>3
  <2>5. OpenOther("preview")
    BY <1>6, <1>f, <2>4 DEF Switch, StopFails, OpenFails, StopsPreview
  <2>6. mCamera' = opened + 1 /\ opened + 1 \in Cameras
    BY <1>t, <2>5, CamerasAssumption DEF OpenOther, Open, Cameras
  <2>7. ReleasedCam(mCamera) \in [Cameras -> CamStates]
    BY <1>t, ReleasedType
  <2>8. camState'[mCamera'] = "preview"
    BY <2>5, <2>6, <2>7 DEF OpenOther
  <2>. QED  BY <2>2, <2>4, <2>8 DEF Calm
<1>7. CASE ~OnResume /\ ~Click /\ ~OnPause
  <2>1. /\ life = "resumed" /\ ~crashed /\ strays = {} /\ faults = 0
    BY <1>7, <1>f DEF Next, Callback, SystemAsks, SurfaceCreated, SurfaceChanged,
       SurfaceDestroyed, Tap, PictureReady, OnPictureTaken, Crash, Handles, Running, vars,
       screenVars
  <2>2. Orderly /\ mCamera \in Cameras /\ Calm
    BY <2>1 DEF SessionInv, OwnsCamera, CalmInv
  <2>3. CASE SystemAsks \/ \E b \in Buttons : Tap(b)
    <3>1. PICK m \in {"pause", "resume"} \cup Buttons : queue' = Append(queue, m)
      BY <2>3 DEF SystemAsks, Tap
    <3>2. m \in Messages /\ m # "picture"
      BY DEF Messages, Buttons
    <3>3. UNCHANGED <<camVars, recording, visible, surface, sizing, lastStart>>
      BY <2>3 DEF SystemAsks, Tap, screenVars
    <3>. QED  BY <1>t, <2>2, <3>1, <3>2, <3>3, PicturesGrown DEF Calm, camVars
  <2>4. CASE SurfaceCreated
    <3>1. /\ UNCHANGED <<camVars, recording, visible, lastStart, queue>>
          /\ surface' = "shown" /\ sizing' = TRUE /\ surface \in {"new", "gone"}
      BY <2>4 DEF SurfaceCreated, Crash
    <3>. QED  BY <2>2, <3>1, PicturesSame DEF Calm, camVars
  <2>5. CASE SurfaceChanged
    <3>1. /\ camState' = [camState EXCEPT ![mCamera] = "preview"] /\ mCamera' = mCamera
          /\ sizing' = FALSE /\ sizing
          /\ UNCHANGED <<recording, visible, surface, lastStart, queue>>
      BY <2>5 DEF SurfaceChanged, Crash
    <3>2. camState'[mCamera] = "preview"
      BY <1>t, <2>2, <3>1
    <3>. QED  BY <2>2, <3>1, <3>2, PicturesSame DEF Calm
  <2>6. CASE SurfaceDestroyed
    BY <1>f, <2>1, <2>6 DEF SurfaceDestroyed
  <2>7. ASSUME NEW c \in Cameras, PictureReady(c) PROVE Calm'
    <3>1. c = mCamera /\ camState[mCamera] = "taking"
      BY <2>7 DEF PictureReady, CamInv, HeldCameraIsCurrent, Held, HeldStates
    <3>2. /\ camState' = [camState EXCEPT ![mCamera] = "idle"] /\ mCamera' = mCamera
          /\ queue' = Append(queue, "picture")
          /\ UNCHANGED <<recording, visible, surface, sizing, lastStart>>
      BY <2>7, <3>1 DEF PictureReady, screenVars
    <3>3. visible = {} /\ ~PictureQueued /\ surface # "new" /\ ~sizing
      BY <2>2, <3>1 DEF Orderly, Calm
    <3>4. PictureQueued' /\ camState'[mCamera] = "idle"
      BY <1>t, <2>2, <3>2, <3>3, PicturePosted
    <3>. QED  BY <2>2, <3>2, <3>3, <3>4 DEF Calm
  <2>8. CASE OnPictureTaken
    <3>1. /\ camState' = [camState EXCEPT ![mCamera] = "preview"] /\ mCamera' = mCamera
          /\ Handles("picture") /\ visible' = Buttons
          /\ UNCHANGED <<recording, surface, sizing, lastStart>>
      BY <2>8 DEF OnPictureTaken, Crash, screenVars
    <3>2. camState'[mCamera] = "preview"
      BY <1>t, <2>2, <3>1
    <3>. QED  BY <2>2, <3>1, <3>2 DEF Calm
  <2>9. CASE UNCHANGED vars
    <3>1. UNCHANGED <<camVars, recording, visible, surface, sizing, lastStart, queue>>
      BY <2>9 DEF vars, screenVars
    <3>. QED  BY <2>2, <3>1, PicturesSame DEF Calm, camVars
  <2>. QED
    BY <1>7, <2>3, <2>4, <2>5, <2>6, <2>7, <2>8, <2>9 DEF Next, Callback
<1>8. ~OnPause
  BY DEF OnPause
<1>. QED  BY <1>1, <1>3, <1>4, <1>5, <1>6, <1>7, <1>8 DEF Click

(* In a resumed activity of which nothing has failed no handler throws that *)
(* runs in time.                                                            *)
LEMMA CrashStep ==
    CamInv /\ OwnsCamera /\ SessionInv /\ CalmInv /\ CrashNeedsFaultOrPause /\ [Next]_vars
        => CrashNeedsFaultOrPause'
<1>. SUFFICES ASSUME CamInv, OwnsCamera, SessionInv, CalmInv, CrashNeedsFaultOrPause,
                     [Next]_vars, crashed', life' # "paused", strays' = {}, ~(faults' > 0)
              PROVE  FALSE
  BY DEF CrashNeedsFaultOrPause
<1>t. /\ TypeOK /\ TypeOK' /\ QueueInv /\ camState \in [Cameras -> CamStates]
      /\ mCamera \in Cameras \cup {0} /\ 0 \notin Cameras /\ visible \subseteq Buttons
      /\ faults \in Nat /\ life \in {"resumed", "paused"}
  BY CameraTypes, TypeStep DEF CamInv
<1>f. ~Fault
  BY <1>t DEF Fault
<1>1. CASE crashed
  <2>1. UNCHANGED vars
    BY <1>1 DEF Next, Callback, Click, OnResume, OnPause, SystemAsks, SurfaceCreated,
       SurfaceChanged, SurfaceDestroyed, Tap, Capture, PictureReady, OnPictureTaken,
       StartRecording, StopRecording, Switch, Clicked, Handles, Running
  <2>. QED  BY <1>1, <2>1 DEF vars, screenVars, CrashNeedsFaultOrPause
<1>2. CASE ~crashed /\ OnResume
  <2>1. 1 \in 1..Len(queue) /\ queue[1] = "resume"
    BY <1>2, <1>t, Shifted DEF OnResume
  <2>2. life = "paused"
    BY <1>t, <2>1 DEF QueueInv
  <2>3. strays = {} /\ mCamera # 0
    BY <1>2, <1>f, ResumeOpens
  <2>. QED  BY <2>2, <2>3 DEF CamInv, ClearedInPause
<1>3. CASE ~crashed /\ ~OnResume
  <2>0. faults = 0
    <3>1. faults' = faults \/ Fault
      BY <1>3 DEF Next, Callback, Click, vars, OnPause, SystemAsks, SurfaceCreated,
         SurfaceChanged, SurfaceDestroyed, Tap, Capture, PictureReady, OnPictureTaken,
         StartRecording, StopRecording, Switch, StopFails, OpenFails
    <3>. QED  BY <1>f, <1>t, <3>1
  <2>1. ASSUME NEW b \in Buttons, Clicked(b)
        PROVE  /\ strays = {} /\ life = "resumed" /\ Orderly /\ Calm
               /\ camState[mCamera] = "preview" /\ mCamera \in Cameras
    <3>1. /\ strays = {} /\ life = "resumed" /\ b \in visible /\ Handles(b)
          /\ surface \in {"shown", "gone"} /\ ~sizing
      BY <1>t, <2>1, DueClick DEF Clicked
    <3>2. Orderly /\ mCamera \in Cameras /\ Calm
      BY <1>3, <2>0, <3>1 DEF SessionInv, OwnsCamera, CalmInv
    <3>3. visible # {} /\ PicturesFirst /\ camState[mCamera] # "taking"
      BY <3>1, <3>2 DEF Orderly
    <3>. QED  BY <3>1, <3>2, <3>3 DEF Calm
  <2>2. CASE Capture
    <3>1. Clicked("Capture") /\ "Capture" \in Buttons
      BY <2>2 DEF Capture, Buttons
    <3>2. Previews(mCamera)
      BY <1>t, <2>1, <3>1 DEF Previews
    <3>. QED  BY <1>3, <1>f, <2>2, <3>2 DEF Capture
  <2>3. CASE StopRecording
    <3>1. Clicked("Record") /\ "Record" \in Buttons /\ recording
      BY <2>3 DEF StopRecording, Buttons
    <3>2. mrec # 0 /\ recState[mrec] = "recording"
      BY <2>1, <3>1 DEF Orderly, Calm
    <3>. QED  BY <1>3, <1>f, <2>3, <3>2 DEF StopRecording
  <2>4. CASE SurfaceCreated \/ SurfaceChanged \/ SurfaceDestroyed \/ OnPictureTaken
    <3>1. life = "resumed" /\ strays = {}
      BY <1>t, <2>4 DEF SurfaceCreated, SurfaceChanged, SurfaceDestroyed, OnPictureTaken,
         Crash, screenVars
    <3>2. Calm /\ mCamera \in Cameras
      BY <1>3, <2>0, <3>1 DEF OwnsCamera, CalmInv
    <3>3. CASE SurfaceCreated
      <4>1. Usable(mCamera)
        BY <1>t, <3>2, <3>3 DEF SurfaceCreated, Calm, Usable
      <4>. QED  BY <1>3, <1>f, <3>3, <4>1 DEF SurfaceCreated
    <3>4. CASE SurfaceChanged
      <4>1. Usable(mCamera)
        BY <1>t, <3>2, <3>4 DEF SurfaceChanged, Calm, Usable
      <4>. QED  BY <1>3, <1>f, <3>4, <4>1 DEF SurfaceChanged
    <3>5. CASE SurfaceDestroyed
      BY <1>f, <3>1, <3>5 DEF SurfaceDestroyed
    <3>6. CASE OnPictureTaken
      <4>1. PictureQueued
        BY <1>t, <3>6, PicturesShifted DEF OnPictureTaken
      <4>2. Usable(mCamera)
        BY <1>t, <3>2, <4>1 DEF Calm, Usable
      <4>. QED  BY <1>3, <1>f, <3>6, <4>2 DEF OnPictureTaken
    <3>. QED  BY <2>4, <3>3, <3>4, <3>5, <3>6
  <2>5. CASE StartRecording \/ Switch
    BY <1>3, <2>5 DEF StartRecording, Switch
  <2>. QED
    BY <1>3, <2>2, <2>3, <2>4, <2>5
    DEF Next, Callback, Click, vars, OnPause, SystemAsks, Tap, PictureReady
<1>. QED  BY <1>1, <1>2, <1>3

DemoInv ==
    CamInv /\ OwnsCamera /\ QuietPause /\ SessionInv /\ CalmInv /\ CrashNeedsFaultOrPause

LEMMA DemoInvAlways == Spec => []DemoInv
<1>1. Init => OwnsCamera /\ QuietPause /\ SessionInv /\ CalmInv /\ CrashNeedsFaultOrPause
  BY DEF Init, OwnsCamera, QuietPause, SessionInv, CalmInv, CrashNeedsFaultOrPause
<1>2. DemoInv /\ [Next]_vars => DemoInv'
  BY CamInvStep, OwnsStep, QuietStep, SessionStep, CalmStep, CrashStep DEF DemoInv
<1>. QED  BY <1>1, <1>2, CamInit, PTL DEF Spec, DemoInv

(* The demo dies only of a failed library call, of a surface lost early, in *)
(* a pause, or of a click that came late: taps, pictures, pauses and        *)
(* resumes alone kill it in no order in which every onClick still finds its *)
(* button on the screen.                                                    *)
THEOREM CrashIsExcused == Spec => []CrashNeedsFaultOrPause
<1>1. DemoInv => CrashNeedsFaultOrPause
  BY DEF DemoInv
<1>. QED  BY <1>1, DemoInvAlways, PTL

(* The screen says that it records only while a recorder is running, unless *)
(* the start failed, the surface took the recorder away, or a click that    *)
(* came late has dropped it.                                                *)
THEOREM RecordingStaysReal == Spec => []RecordingIsReal
<1>1. DemoInv => RecordingIsReal
  BY CameraTypes DEF DemoInv, QuietPause, SessionInv, Orderly, RecordingIsReal
<1>. QED  BY <1>1, DemoInvAlways, PTL

=============================================================================

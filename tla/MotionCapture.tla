---------------------------- MODULE MotionCapture ----------------------------
(***************************************************************************)
(* The loop of WiCaptureSystem::run(): motion detection and the captures   *)
(* it starts and ends.                                                     *)
(*                                                                         *)
(* An iteration holds m_captureMutex from its stop check to its end, so    *)
(* the settings change only between two iterations; here it is three       *)
(* steps, "top", "frame" and "record".  What image processing finds in a   *)
(* frame is the sequence of its contours, small or big.  A time stamp of   *)
(* the code (t2, t4, motionCaptureTimeStamp) is the time passed since,     *)
(* counted up to the largest limit any of them is compared with.           *)
(***************************************************************************)
EXTENDS Integers, Sequences, FiniteSets

CONSTANTS
    Types,          \* the CAPTURE_TYPEs in use
    Triggers,       \* the values of framesTrigger in use
    SecToStop, VideoLen, ImageTimeDiff,  \* the limits of CaptureInfo
    MaxTrigger,     \* bound of the model: frames_motion is counted up to it
    MaxContours,    \* bound of the model: contours in a frame
    MaxClips        \* bound of the model: clips ever recorded

ASSUME TypesAssumption ==
    Types \subseteq {"IMAGE_CAPTURE", "VIDEO_CAPTURE", "SOUND_CAPTURE"}
ASSUME LimitsAssumption ==
    /\ SecToStop \in Nat /\ VideoLen \in Nat /\ ImageTimeDiff \in Nat
    /\ MaxTrigger \in Nat /\ MaxContours \in Nat /\ MaxClips \in Nat
ASSUME TriggersAssumption == Triggers \subseteq 0..MaxTrigger

VARIABLES
    at,                     \* where run() is; "ended" before and after it
    m_capInfo,              \* WiCaptureSystem's fields ...
    m_newSettings,
    m_firstFrame,
    m_motionCaptured,
    m_videoFileName,        \* ... the clips these name, 0 at first
    m_soundFileName,
    frames_motion,          \* run()'s locals ...
    t2,                     \* ... None when the code has it 0
    t4,
    motionCaptureTimeStamp,
    vWriter,                \* the video writer is open
    audioRecorder,          \* the recorder is recording
    clips,                  \* the clips named so far
    files,                  \* the clips with a file in /tmp
    offered,                \* the clips emitted, in order
    sinceMotion,            \* the time since m_motionCaptured was raised
    movingFrames,           \* the frames in a row with a big contour
    disturbed               \* a capture was stopped, or a device or a file failed

settingsVars == <<m_capInfo, m_newSettings>>
nameVars     == <<m_videoFileName, m_soundFileName, clips>>
recordVars   == <<vWriter, audioRecorder, files, offered>>
stampVars    == <<t2, t4, motionCaptureTimeStamp, sinceMotion>>
vars == <<at, settingsVars, m_firstFrame, m_motionCaptured, nameVars, frames_motion, stampVars,
          recordVars, movingFrames, disturbed>>

-----------------------------------------------------------------------------

Larger(m, n) == IF m < n THEN n ELSE m
Capped(n)    == IF n < MaxTrigger THEN n ELSE MaxTrigger

MaxAge == Larger(SecToStop, Larger(VideoLen, ImageTimeDiff))
Ages   == 0..MaxAge
None   == -1    \* the time since a stamp that is not set

CaptureInfos == [captureType : Types, framesTrigger : Triggers]
IsType(t)    == m_capInfo.captureType = t

Contours == UNION {[1..n -> {"small", "big"}] : n \in 0..MaxContours}

\* frames_motion after contour k: it counts the big contours in a row, over
\* the frames, and a small one resets it.
CountAt(cs, k) ==
    LET inARow == {j \in 1..k : \A i \in j..k : cs[i] = "big"} IN
    Cardinality(inARow) + (IF inARow = 1..k THEN frames_motion ELSE 0)

\* Some contour is big and not too early: motion > 0.
Moves(cs) ==
    \E k \in 1..Len(cs) : cs[k] = "big" /\ CountAt(cs, k) >= m_capInfo.framesTrigger

\* The constructors, and loadSettings: whatever the file holds is new.
Init ==
    /\ at = "ended"
    /\ m_capInfo \in CaptureInfos /\ m_newSettings = TRUE
    /\ m_firstFrame = TRUE /\ m_motionCaptured = FALSE
    /\ m_videoFileName = 0 /\ m_soundFileName = 0
    /\ frames_motion = 0 /\ t2 = None
    /\ t4 = MaxAge /\ motionCaptureTimeStamp = MaxAge
    /\ vWriter = FALSE /\ audioRecorder = FALSE
    /\ clips = 0 /\ files = {} /\ offered = <<>>
    /\ sinceMotion = MaxAge /\ movingFrames = 0
    /\ disturbed = FALSE

-----------------------------------------------------------------------------
(* The main thread, and time.                                              *)

\* It waits for the mutex, so for the end of an iteration.
SetCaptureConfigurations ==
    /\ at \in {"ended", "top"}
    /\ m_capInfo' \in CaptureInfos
    /\ m_newSettings' = TRUE
    /\ UNCHANGED <<at, m_firstFrame, m_motionCaptured, nameVars, frames_motion, stampVars,
                   recordVars, movingFrames, disturbed>>

\* start(): the locals of run() are new, the fields are as the last run left them.
Start ==
    /\ at = "ended" /\ at' = "top"
    /\ m_firstFrame' = TRUE
    /\ frames_motion' = 0 /\ movingFrames' = 0
    /\ t2' = None /\ t4' = MaxAge /\ motionCaptureTimeStamp' = MaxAge
    /\ UNCHANGED <<settingsVars, m_motionCaptured, nameVars, recordVars, sinceMotion, disturbed>>

Older(age) == IF age \in 0..(MaxAge - 1) THEN age + 1 ELSE age

Tick ==
    /\ at \in {"ended", "top"}
    /\ t2' = Older(t2) /\ t4' = Older(t4)
    /\ motionCaptureTimeStamp' = Older(motionCaptureTimeStamp)
    /\ sinceMotion' = Older(sinceMotion)
    /\ UNCHANGED <<at, settingsVars, m_firstFrame, m_motionCaptured, nameVars, frames_motion,
                   recordVars, movingFrames, disturbed>>

-----------------------------------------------------------------------------
(* The loop of run().                                                      *)

\* m_doStop is up: run() returns, and with it go the writer and the recorder.
Stop ==
    /\ at = "top" /\ at' = "ended"
    /\ vWriter' = FALSE /\ audioRecorder' = FALSE
    /\ disturbed' = (disturbed \/ m_motionCaptured)
    /\ UNCHANGED <<settingsVars, m_firstFrame, m_motionCaptured, nameVars, frames_motion, stampVars,
                   files, offered, movingFrames>>

\* The clips being recorded.
Recording ==
    (IF vWriter THEN {m_videoFileName} ELSE {}) \cup (IF audioRecorder THEN {m_soundFileName} ELSE {})

\* Mutant: new settings forget the sound.
TakeSettingsKeepsSound ==
    /\ at = "top" /\ at' = "frame"
    /\ IF m_newSettings
       THEN /\ m_firstFrame' = TRUE
            /\ files' = IF vWriter THEN files \ {m_videoFileName} ELSE files
            /\ vWriter' = FALSE
            /\ t2' = None
            /\ m_motionCaptured' = FALSE
            /\ m_newSettings' = FALSE
       ELSE UNCHANGED <<m_firstFrame, files, vWriter, t2, m_motionCaptured, m_newSettings>>
    /\ UNCHANGED <<m_capInfo, nameVars, frames_motion, t4, motionCaptureTimeStamp, sinceMotion,
                   offered, movingFrames, audioRecorder, disturbed>>

\* Mutant: new settings delete the newest video, being recorded or not.
TakeSettingsDeletesVideo ==
    /\ at = "top" /\ at' = "frame"
    /\ IF m_newSettings
       THEN /\ m_firstFrame' = TRUE
            /\ files' = files \ {m_videoFileName, m_soundFileName}
            /\ vWriter' = FALSE /\ audioRecorder' = FALSE
            /\ t2' = None
            /\ m_motionCaptured' = FALSE
            /\ m_newSettings' = FALSE
       ELSE UNCHANGED <<m_firstFrame, files, vWriter, audioRecorder, t2, m_motionCaptured, m_newSettings>>
    /\ UNCHANGED <<m_capInfo, nameVars, frames_motion, t4, motionCaptureTimeStamp, sinceMotion,
                   offered, movingFrames, disturbed>>

\* New settings end a recording, and its file is deleted.
TakeSettings ==
    /\ at = "top" /\ at' = "frame"
    /\ IF m_newSettings
       THEN /\ m_firstFrame' = TRUE
            /\ files' = files \ Recording
            /\ vWriter' = FALSE /\ audioRecorder' = FALSE
            /\ t2' = None
            /\ m_motionCaptured' = FALSE
            /\ m_newSettings' = FALSE
       ELSE UNCHANGED <<m_firstFrame, files, vWriter, audioRecorder, t2, m_motionCaptured, m_newSettings>>
    /\ UNCHANGED <<m_capInfo, nameVars, frames_motion, t4, motionCaptureTimeStamp, sinceMotion,
                   offered, movingFrames, disturbed>>

\* An empty frame, or one beyond the requested fps.
SkipFrame ==
    /\ at = "frame" /\ at' = "top"
    /\ UNCHANGED <<settingsVars, m_firstFrame, m_motionCaptured, nameVars, frames_motion, stampVars,
                   recordVars, movingFrames, disturbed>>

\* Motion starts: take an image, or name a clip and record it.  A writer that
\* cannot be opened leaves the time stamps as they are.
StartImage ==
    /\ IsType("IMAGE_CAPTURE")
    /\ t4' = 0 /\ motionCaptureTimeStamp' = 0
    /\ UNCHANGED <<nameVars, vWriter, audioRecorder, files, disturbed>>

StartVideo ==
    /\ IsType("VIDEO_CAPTURE") /\ clips < MaxClips
    /\ clips' = clips + 1 /\ m_videoFileName' = clips'
    /\ \/ /\ vWriter' = TRUE
          /\ files' = files \cup {clips'}
          /\ t4' = 0 /\ motionCaptureTimeStamp' = 0
          /\ UNCHANGED disturbed
       \/ /\ vWriter' = FALSE
          /\ disturbed' = TRUE
          /\ UNCHANGED <<files, t4, motionCaptureTimeStamp>>
    /\ UNCHANGED <<m_soundFileName, audioRecorder>>

\* Mutant: the time stamps are taken for images and videos only.
StartSoundUnstamped ==
    /\ IsType("SOUND_CAPTURE") /\ clips < MaxClips
    /\ clips' = clips + 1 /\ m_soundFileName' = clips'
    /\ \/ audioRecorder' = TRUE /\ files' = files \cup {clips'} /\ UNCHANGED disturbed
       \/ audioRecorder' = FALSE /\ UNCHANGED files /\ disturbed' = TRUE
    /\ UNCHANGED <<m_videoFileName, vWriter, t4, motionCaptureTimeStamp>>

StartSound ==
    /\ IsType("SOUND_CAPTURE") /\ clips < MaxClips
    /\ clips' = clips + 1 /\ m_soundFileName' = clips'
    /\ \/ audioRecorder' = TRUE /\ files' = files \cup {clips'} /\ UNCHANGED disturbed
       \/ audioRecorder' = FALSE /\ UNCHANGED files /\ disturbed' = TRUE
    /\ t4' = 0 /\ motionCaptureTimeStamp' = 0
    /\ UNCHANGED <<m_videoFileName, vWriter>>

DetectMotion(cs) ==
    /\ at = "frame" /\ at' = "record"
    /\ m_firstFrame => cs = <<>>    \* the first frame is compared with itself
    /\ m_firstFrame' = FALSE
    /\ LET ceases == ~Moves(cs) /\ m_motionCaptured /\ t2 = None IN
       /\ t2' = IF Moves(cs) THEN None ELSE IF ceases THEN 0 ELSE t2
       /\ frames_motion' = IF ceases THEN 0
                           ELSE IF cs = <<>> THEN frames_motion ELSE Capped(CountAt(cs, Len(cs)))
    /\ IF Moves(cs) /\ ~m_motionCaptured
       THEN /\ m_motionCaptured' = TRUE /\ sinceMotion' = 0
            /\ StartImage \/ StartVideo \/ StartSound
       ELSE UNCHANGED <<m_motionCaptured, sinceMotion, nameVars, vWriter, audioRecorder, files, t4,
                        motionCaptureTimeStamp, disturbed>>
    /\ movingFrames' = IF \E k \in 1..Len(cs) : cs[k] = "big" THEN Capped(movingFrames + 1) ELSE 0
    /\ UNCHANGED <<settingsVars, offered>>

\* Mutants: a clip one tick too long; the length of a clip looked at only once
\* motion has ceased.
FullTooLate   == ~IsType("IMAGE_CAPTURE") /\ motionCaptureTimeStamp > VideoLen
FullOnlyQuiet == ~IsType("IMAGE_CAPTURE") /\ t2 # None /\ motionCaptureTimeStamp >= VideoLen

\* The clip in progress has its full length; motion ceased long enough ago.
Full  == ~IsType("IMAGE_CAPTURE") /\ motionCaptureTimeStamp >= VideoLen
Quiet == t2 # None /\ t2 >= SecToStop

\* Mutant: the types are swapped.
EndCaptureSwapped ==
    /\ m_motionCaptured' = FALSE /\ t2' = None
    /\ \/ /\ IsType("SOUND_CAPTURE")
          /\ vWriter' = FALSE /\ offered' = Append(offered, m_videoFileName)
          /\ UNCHANGED audioRecorder
       \/ /\ IsType("VIDEO_CAPTURE")
          /\ audioRecorder' = FALSE /\ offered' = Append(offered, m_soundFileName)
          /\ UNCHANGED vWriter
       \/ IsType("IMAGE_CAPTURE") /\ UNCHANGED <<vWriter, audioRecorder, offered>>

\* Mutant: the motion state goes on.
EndCaptureStillMoving ==
    /\ t2' = None
    /\ \/ /\ IsType("VIDEO_CAPTURE")
          /\ vWriter' = FALSE /\ offered' = Append(offered, m_videoFileName)
          /\ UNCHANGED audioRecorder
       \/ /\ IsType("SOUND_CAPTURE")
          /\ audioRecorder' = FALSE /\ offered' = Append(offered, m_soundFileName)
          /\ UNCHANGED vWriter
       \/ IsType("IMAGE_CAPTURE") /\ UNCHANGED <<vWriter, audioRecorder, offered>>
    /\ UNCHANGED m_motionCaptured

\* Stop the motion state, and close and emit the clip.
EndCapture ==
    /\ m_motionCaptured' = FALSE /\ t2' = None
    /\ \/ /\ IsType("VIDEO_CAPTURE")
          /\ vWriter' = FALSE /\ offered' = Append(offered, m_videoFileName)
          /\ UNCHANGED audioRecorder
       \/ /\ IsType("SOUND_CAPTURE")
          /\ audioRecorder' = FALSE /\ offered' = Append(offered, m_soundFileName)
          /\ UNCHANGED vWriter
       \/ IsType("IMAGE_CAPTURE") /\ UNCHANGED <<vWriter, audioRecorder, offered>>

\* While motion is captured: another image when its time has come, another frame
\* of the video, or the end.
Record ==
    /\ at = "record" /\ at' = "top"
    /\ IF m_motionCaptured /\ (Full \/ Quiet)
       THEN EndCapture
       ELSE UNCHANGED <<m_motionCaptured, t2, vWriter, audioRecorder, offered>>
    /\ t4' = IF m_motionCaptured /\ IsType("IMAGE_CAPTURE") /\ t4 >= ImageTimeDiff THEN 0 ELSE t4
    /\ UNCHANGED <<settingsVars, m_firstFrame, nameVars, frames_motion, motionCaptureTimeStamp,
                   sinceMotion, files, movingFrames, disturbed>>

\* The camera cannot be opened, when run() begins or for new settings: qFatal
\* aborts the program, which is then started anew.
Abort ==
    /\ at = "ended" \/ (at = "top" /\ m_newSettings)
    /\ at' = "ended"
    /\ m_newSettings' = TRUE /\ m_motionCaptured' = FALSE
    /\ m_videoFileName' = 0 /\ m_soundFileName' = 0
    /\ vWriter' = FALSE /\ audioRecorder' = FALSE
    /\ disturbed' = TRUE
    /\ UNCHANGED <<m_capInfo, m_firstFrame, frames_motion, stampVars, clips, files, offered,
                   movingFrames>>

Iteration == TakeSettings \/ SkipFrame \/ (\E cs \in Contours : DetectMotion(cs)) \/ Record

Next == SetCaptureConfigurations \/ Start \/ Tick \/ Stop \/ Iteration \/ Abort

Spec == Init /\ [][Next]_vars

\* What liveness needs.  The loop of run() is not starved, and time passes.  The
\* camera keeps delivering frames that the fps limit lets pass: SkipFrame does
\* not win for ever.  Nothing is assumed of motion, of settings or of stops.
FairSpec ==
    /\ Spec
    /\ WF_vars(TakeSettings) /\ WF_vars(Record)
    /\ SF_vars(\E cs \in Contours : DetectMotion(cs)) /\ SF_vars(Tick)

-----------------------------------------------------------------------------
(* Properties.                                                             *)

\* Every variable keeps its type.
TypeOK ==
    /\ at \in {"ended", "top", "frame", "record"}
    /\ m_capInfo \in CaptureInfos
    /\ m_newSettings \in BOOLEAN /\ m_firstFrame \in BOOLEAN /\ m_motionCaptured \in BOOLEAN
    /\ vWriter \in BOOLEAN /\ audioRecorder \in BOOLEAN
    /\ clips \in 0..MaxClips
    /\ m_videoFileName \in 0..clips /\ m_soundFileName \in 0..clips
    /\ frames_motion \in 0..MaxTrigger /\ movingFrames \in 0..MaxTrigger
    /\ t2 \in Ages \cup {None}
    /\ t4 \in Ages /\ motionCaptureTimeStamp \in Ages /\ sinceMotion \in Ages
    /\ files \subseteq 1..clips
    /\ offered \in Seq(1..clips)
    /\ disturbed \in BOOLEAN

\* A writer or a recorder is never left running: it is open only for the
\* capture in progress and for its type, or new settings are about to end it.
\* Settings may change the type at any time, and run() may end at any time.
NoOrphanRecording ==
    /\ vWriter => m_motionCaptured /\ (IsType("VIDEO_CAPTURE") \/ m_newSettings)
    /\ audioRecorder => m_motionCaptured /\ (IsType("SOUND_CAPTURE") \/ m_newSettings)
    /\ ~(vWriter /\ audioRecorder)

\* A clip is emitted once, and never while it is still being written: the
\* receiver reads it and deletes its file, also across OFF, ON and failures.
OfferedOnce ==
    /\ \A i, j \in DOMAIN offered : offered[i] = offered[j] => i = j
    /\ \A i \in DOMAIN offered : offered[i] \notin Recording

\* No frame is added to a clip that has reached its full length, whatever
\* happened to the earlier captures' time stamps.
ClipsAreBounded == [][at = "record" /\ (vWriter' \/ audioRecorder') => sinceMotion < VideoLen]_vars

\* While nothing disturbs the captures /tmp holds the clip being recorded and those
\* emitted: what new settings interrupt is deleted, and nothing else is.
FilesAccounted ==
    ~disturbed => files = {offered[i] : i \in DOMAIN offered} \cup Recording

\* A motion's time stamp is that of its start, and its clip is being recorded.
MotionIsRecorded ==
    ~disturbed /\ m_motionCaptured =>
        /\ motionCaptureTimeStamp = sinceMotion
        /\ ~m_newSettings => (vWriter <=> IsType("VIDEO_CAPTURE"))
                          /\ (audioRecorder <=> IsType("SOUND_CAPTURE"))

\* Every recording ends, also if the motion it records never does.
ClipsEnd == (vWriter \/ audioRecorder) ~> ~(vWriter \/ audioRecorder)

\* What CaptureInfo says of framesTrigger: the number of consecutive frames with
\* motion that trigger the motion event.
MotionNeedsFrames ==
    [][~m_motionCaptured /\ m_motionCaptured' => movingFrames' >= m_capInfo.framesTrigger]_vars

=============================================================================

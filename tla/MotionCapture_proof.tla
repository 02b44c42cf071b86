------------------------- MODULE MotionCapture_proof -------------------------
(***************************************************************************)
(* Proofs about the capture loop: its variables keep their types, no       *)
(* recording is orphaned, no clip is emitted twice or while it is being    *)
(* written, and none grows past its length; for every set of types and     *)
(* triggers and every limit, whatever is stopped and whatever fails.  As   *)
(* long as nothing does, every file is accounted for and every motion is   *)
(* recorded.                                                               *)
(***************************************************************************)
EXTENDS MotionCapture, FiniteSetTheorems, TLAPS

USE TypesAssumption, LimitsAssumption, TriggersAssumption

-----------------------------------------------------------------------------
(* The operators.                                                          *)

\* The ages are an interval of naturals.
LEMMA MaxAgeNat == MaxAge \in Nat
BY DEF MaxAge, Larger

LEMMA OlderAges == ASSUME NEW age \in Ages PROVE Older(age) \in Ages
BY MaxAgeNat DEF Ages, Older

LEMMA OlderNone == Older(None) = None
BY DEF Older, None

LEMMA CappedRange == ASSUME NEW n \in Nat PROVE Capped(n) \in 0..MaxTrigger
BY DEF Capped

\* A frame has finitely many contours.
LEMMA ContoursLen == ASSUME NEW cs \in Contours PROVE Len(cs) \in Nat
<1>1. PICK n \in 0..MaxContours : cs \in [1..n -> {"small", "big"}]
      BY DEF Contours
<1>2. n \in Nat
      BY <1>1
<1>3. cs \in Seq({"small", "big"})
      BY <1>1, <1>2
<1> QED BY <1>3

\* The count of big contours is a natural number.
LEMMA CountNat ==
    ASSUME NEW cs \in Contours, frames_motion \in Nat
    PROVE  CountAt(cs, Len(cs)) \in Nat
<1> DEFINE inARow == {j \in 1..Len(cs) : \A i \in j..Len(cs) : cs[i] = "big"}
<1>1. IsFiniteSet(1..Len(cs))
      BY ContoursLen, FS_Interval
<1>2. inARow \subseteq 1..Len(cs)
      OBVIOUS
<1>3. IsFiniteSet(inARow)
      BY <1>1, <1>2, FS_Subset
<1>4. Cardinality(inARow) \in Nat
      BY <1>3, FS_CardinalityType
<1>5. CountAt(cs, Len(cs)) = Cardinality(inARow) + (IF inARow = 1..Len(cs) THEN frames_motion ELSE 0)
      BY DEF CountAt
<1>6. frames_motion \in Nat /\ 0 \in Nat
      OBVIOUS
<1> QED BY <1>4, <1>5, <1>6

-----------------------------------------------------------------------------
(* Types.                                                                  *)

LEMMA InitTypes == Init => TypeOK
<1> SUFFICES ASSUME Init PROVE TypeOK
    OBVIOUS
<1>1. 0 \in 0..clips /\ clips \in 0..MaxClips /\ 0 \in 0..MaxTrigger
      BY DEF Init
<1>2. MaxAge \in Ages
      BY MaxAgeNat DEF Ages
<1>3. <<>> \in Seq(1..clips) /\ {} \subseteq 1..clips
      OBVIOUS
<1> QED BY <1>1, <1>2, <1>3 DEF Init, TypeOK

\* Starting a capture names at most one clip more.
LEMMA StartTypes ==
    ASSUME TypeOK, StartImage \/ StartVideo \/ StartSound
    PROVE  /\ clips' \in 0..MaxClips
           /\ m_videoFileName' \in 0..clips' /\ m_soundFileName' \in 0..clips'
           /\ t4' \in Ages /\ motionCaptureTimeStamp' \in Ages
           /\ files' \subseteq 1..clips'
           /\ vWriter' \in BOOLEAN /\ audioRecorder' \in BOOLEAN
           /\ clips <= clips' /\ disturbed' \in BOOLEAN
<1>1. clips \in 0..MaxClips /\ (clips' = clips \/ (clips < MaxClips /\ clips' = clips + 1))
      BY DEF StartImage, StartVideo, StartSound, nameVars, TypeOK
<1>2. clips' \in 0..MaxClips /\ clips <= clips'
      BY <1>1
<1>3. m_videoFileName' \in {m_videoFileName, clips'} /\ m_soundFileName' \in {m_soundFileName, clips'}
      BY DEF StartImage, StartVideo, StartSound, nameVars
<1>4. m_videoFileName' \in 0..clips' /\ m_soundFileName' \in 0..clips'
      BY <1>1, <1>3 DEF TypeOK
<1>5. files' = files \/ (clips' = clips + 1 /\ files' = files \cup {clips'})
      BY DEF StartImage, StartVideo, StartSound
<1>6. files' \subseteq 1..clips'
  <2>1. 1..clips \subseteq 1..clips' /\ files \subseteq 1..clips
        BY <1>1 DEF TypeOK
  <2>2. clips' = clips + 1 => clips' \in 1..clips'
        BY <1>1
  <2> QED BY <1>5, <2>1, <2>2
<1>7. 0 \in Ages
      BY MaxAgeNat DEF Ages
<1>8. t4' \in {0, t4} /\ motionCaptureTimeStamp' \in {0, motionCaptureTimeStamp}
      BY DEF StartImage, StartVideo, StartSound
<1>9. t4' \in Ages /\ motionCaptureTimeStamp' \in Ages
      BY <1>7, <1>8 DEF TypeOK
<1>10. vWriter' \in {TRUE, FALSE, vWriter} /\ audioRecorder' \in {TRUE, FALSE, audioRecorder}
      BY DEF StartImage, StartVideo, StartSound
<1>11. vWriter' \in BOOLEAN /\ audioRecorder' \in BOOLEAN
      BY <1>10 DEF TypeOK
<1>12. disturbed' \in {TRUE, disturbed}
      BY DEF StartImage, StartVideo, StartSound
<1>13. disturbed' \in BOOLEAN
      BY <1>12 DEF TypeOK
<1> QED BY <1>2, <1>4, <1>6, <1>9, <1>11, <1>13

\* A sequence of clips stays one when more clips are named.
LEMMA MoreClips ==
    ASSUME NEW m \in Nat, NEW n \in Nat, m <= n, NEW s \in Seq(1..m)
    PROVE  s \in Seq(1..n)
<1>1. 1..m \subseteq 1..n
      OBVIOUS
<1> QED BY <1>1

LEMMA DetectTypes ==
    ASSUME TypeOK, NEW cs \in Contours, DetectMotion(cs)
    PROVE  TypeOK'
<1>1. at' = "record" /\ m_firstFrame' = FALSE
      BY DEF DetectMotion
<1>2. UNCHANGED <<m_capInfo, m_newSettings, offered>> /\ m_capInfo' \in CaptureInfos
      BY DEF DetectMotion, settingsVars, TypeOK
<1>3. t2' \in Ages \cup {None}
      BY MaxAgeNat DEF DetectMotion, TypeOK, Ages
<1>4. frames_motion' \in 0..MaxTrigger
  <2>1. frames_motion \in Nat /\ frames_motion \in 0..MaxTrigger
        BY DEF TypeOK
  <2>2. Capped(CountAt(cs, Len(cs))) \in 0..MaxTrigger
        BY <2>1, CountNat, CappedRange
  <2>3. frames_motion' \in {0, frames_motion, Capped(CountAt(cs, Len(cs)))}
        BY DEF DetectMotion
  <2> QED BY <2>1, <2>2, <2>3
<1>5. movingFrames' \in 0..MaxTrigger
  <2>1. movingFrames + 1 \in Nat
        BY DEF TypeOK
  <2>2. movingFrames' \in {0, Capped(movingFrames + 1)}
        BY DEF DetectMotion
  <2> QED BY <2>1, <2>2, CappedRange
<1>6. CASE Moves(cs) /\ ~m_motionCaptured
  <2>1. m_motionCaptured' = TRUE /\ sinceMotion' = 0 /\ (StartImage \/ StartVideo \/ StartSound)
        BY <1>6 DEF DetectMotion
  <2>2. offered' \in Seq(1..clips')
        BY <1>2, <2>1, StartTypes, MoreClips DEF TypeOK
  <2>3. /\ clips' \in 0..MaxClips /\ files' \subseteq 1..clips'
        /\ m_videoFileName' \in 0..clips' /\ m_soundFileName' \in 0..clips'
        /\ t4' \in Ages /\ motionCaptureTimeStamp' \in Ages
        /\ vWriter' \in BOOLEAN /\ audioRecorder' \in BOOLEAN /\ disturbed' \in BOOLEAN
        BY <2>1, StartTypes
  <2>4. sinceMotion' \in Ages
        BY <2>1, MaxAgeNat DEF Ages
  <2> QED BY <1>1, <1>2, <1>3, <1>4, <1>5, <2>1, <2>2, <2>3, <2>4 DEF TypeOK
<1>7. CASE ~(Moves(cs) /\ ~m_motionCaptured)
  <2>1. UNCHANGED <<m_motionCaptured, sinceMotion, nameVars, vWriter, audioRecorder, files, t4,
                    motionCaptureTimeStamp, disturbed>>
        BY <1>7 DEF DetectMotion
  <2> QED BY <1>1, <1>2, <1>3, <1>4, <1>5, <2>1 DEF TypeOK, nameVars
<1> QED BY <1>6, <1>7

LEMMA SettingsTypes == TypeOK /\ SetCaptureConfigurations => TypeOK'
BY DEF SetCaptureConfigurations, TypeOK, nameVars, stampVars, recordVars

LEMMA BeginTypes == TypeOK /\ Start => TypeOK'
BY MaxAgeNat DEF Start, TypeOK, Ages, settingsVars, nameVars, recordVars

LEMMA TickTypes == TypeOK /\ Tick => TypeOK'
<1> SUFFICES ASSUME TypeOK, Tick PROVE TypeOK'
    OBVIOUS
<1>1. t4' \in Ages /\ motionCaptureTimeStamp' \in Ages /\ sinceMotion' \in Ages
      BY OlderAges DEF Tick, TypeOK
<1>2. t2' \in Ages \cup {None}
      BY OlderAges, OlderNone DEF Tick, TypeOK
<1> QED BY <1>1, <1>2 DEF Tick, TypeOK, settingsVars, nameVars, recordVars

LEMMA StopTypes == TypeOK /\ (Stop \/ Abort) => TypeOK'
<1>1. TypeOK /\ Stop => TypeOK'
      BY DEF Stop, TypeOK, settingsVars, nameVars, stampVars
<1>2. TypeOK /\ Abort => TypeOK'
  <2>1. TypeOK => 0 \in 0..clips
        BY DEF TypeOK
  <2> QED BY <2>1 DEF Abort, TypeOK, stampVars
<1> QED BY <1>1, <1>2

LEMMA TakeTypes == TypeOK /\ TakeSettings => TypeOK'
<1> SUFFICES ASSUME TypeOK, TakeSettings PROVE TypeOK'
    OBVIOUS
<1>1. files' \subseteq files
      BY DEF TakeSettings
<1> QED BY <1>1 DEF TakeSettings, TypeOK, nameVars

LEMMA SkipTypes == TypeOK /\ SkipFrame => TypeOK'
BY DEF SkipFrame, TypeOK, settingsVars, nameVars, stampVars, recordVars

\* A name is given to a clip before the clip is emitted.
Named ==
    m_motionCaptured /\ ~m_newSettings =>
        /\ IsType("VIDEO_CAPTURE") => m_videoFileName \in 1..clips
        /\ IsType("SOUND_CAPTURE") => m_soundFileName \in 1..clips

\* Settings are taken before a frame is.
Settled == at \in {"frame", "record"} => ~m_newSettings

\* Appending a named clip to a sequence of clips.
LEMMA AppendClip ==
    ASSUME NEW n, NEW s \in Seq(1..n), NEW c \in 1..n
    PROVE  Append(s, c) \in Seq(1..n)
OBVIOUS

LEMMA RecordTypes == ASSUME TypeOK, Named, Settled, Record PROVE TypeOK'
<1>1. ~m_newSettings /\ at' = "top"
      BY DEF Record, Settled
<1>2. UNCHANGED <<m_capInfo, m_newSettings, m_firstFrame, m_videoFileName, m_soundFileName, clips,
                  frames_motion, motionCaptureTimeStamp, sinceMotion, files, movingFrames, disturbed>>
      BY DEF Record, settingsVars, nameVars
<1>3. t4' \in Ages
      BY MaxAgeNat DEF Record, TypeOK, Ages
<1>4. CASE m_motionCaptured /\ (Full \/ Quiet)
  <2>1. EndCapture
        BY <1>4 DEF Record
  <2>2. m_motionCaptured' \in BOOLEAN /\ t2' \in Ages \cup {None}
        BY <2>1 DEF EndCapture
  <2>3. vWriter' \in BOOLEAN /\ audioRecorder' \in BOOLEAN
        BY <2>1 DEF EndCapture, TypeOK
  <2>4. \/ offered' = offered
        \/ IsType("VIDEO_CAPTURE") /\ offered' = Append(offered, m_videoFileName)
        \/ IsType("SOUND_CAPTURE") /\ offered' = Append(offered, m_soundFileName)
        BY <2>1 DEF EndCapture
  <2>5. /\ IsType("VIDEO_CAPTURE") => m_videoFileName \in 1..clips
        /\ IsType("SOUND_CAPTURE") => m_soundFileName \in 1..clips
        BY <1>1, <1>4 DEF Named
  <2>6. offered \in Seq(1..clips)
        BY DEF TypeOK
  <2>7. offered' \in Seq(1..clips)
        BY <2>4, <2>5, <2>6, AppendClip
  <2> QED BY <1>1, <1>2, <1>3, <2>2, <2>3, <2>7 DEF TypeOK
<1>5. CASE ~(m_motionCaptured /\ (Full \/ Quiet))
  <2>1. UNCHANGED <<m_motionCaptured, t2, vWriter, audioRecorder, offered>>
        BY <1>5 DEF Record
  <2> QED BY <1>1, <1>2, <1>3, <2>1 DEF TypeOK
<1> QED BY <1>4, <1>5

-----------------------------------------------------------------------------
(* No recording is orphaned, and clips are emitted once.                   *)

\* Outside run() nothing is recorded; inside it the clip being recorded has the
\* newest time stamp, and the clip of the motion captured has not been emitted.
RecordingInv ==
    /\ at = "ended" => ~vWriter /\ ~audioRecorder
    /\ NoOrphanRecording
    /\ vWriter \/ audioRecorder => motionCaptureTimeStamp = sinceMotion

ClipsInv ==
    /\ \A i, j \in DOMAIN offered : offered[i] = offered[j] => i = j
    /\ m_motionCaptured /\ (vWriter \/ (IsType("VIDEO_CAPTURE") /\ ~m_newSettings)) =>
           \A i \in DOMAIN offered : offered[i] # m_videoFileName
    /\ m_motionCaptured /\ (audioRecorder \/ (IsType("SOUND_CAPTURE") /\ ~m_newSettings)) =>
           \A i \in DOMAIN offered : offered[i] # m_soundFileName

Inv == TypeOK /\ Named /\ Settled /\ RecordingInv /\ ClipsInv

\* The steps that neither start nor end a capture nor take the settings.
LEMMA QuietSteps ==
    ASSUME Inv, SetCaptureConfigurations \/ Start \/ SkipFrame
    PROVE  Named' /\ Settled' /\ RecordingInv' /\ ClipsInv'
<1>1. UNCHANGED <<m_motionCaptured, m_videoFileName, m_soundFileName, clips, vWriter, audioRecorder,
                  offered, sinceMotion>>
      BY DEF SetCaptureConfigurations, Start, SkipFrame, nameVars, recordVars, stampVars
<1>2. m_newSettings' = TRUE \/ (m_newSettings' = m_newSettings /\ m_capInfo' = m_capInfo)
      BY DEF SetCaptureConfigurations, Start, SkipFrame, settingsVars
<1>3. at' # at => at' = "top"
      BY DEF SetCaptureConfigurations, Start, SkipFrame
<1>4. at' \in {"frame", "record"} => FALSE
      BY <1>3 DEF SetCaptureConfigurations, Start, SkipFrame
<1>5. at' = "ended" => at = "ended"
      BY <1>3
<1>6. motionCaptureTimeStamp' = motionCaptureTimeStamp \/ (~vWriter /\ ~audioRecorder)
      BY DEF SetCaptureConfigurations, Start, SkipFrame, stampVars, Inv, RecordingInv
<1>7. Named' /\ Settled'
      BY <1>1, <1>2, <1>4 DEF Inv, Named, Settled, IsType
<1>8. RecordingInv'
      BY <1>1, <1>2, <1>5, <1>6 DEF Inv, RecordingInv, NoOrphanRecording, IsType
<1>9. ClipsInv'
      BY <1>1, <1>2 DEF Inv, ClipsInv, IsType
<1> QED BY <1>7, <1>8, <1>9

LEMMA TickInv ==
    ASSUME Inv, Tick
    PROVE  Named' /\ Settled' /\ RecordingInv' /\ ClipsInv'
<1>1. UNCHANGED <<at, m_newSettings, m_capInfo, m_motionCaptured, m_videoFileName, m_soundFileName,
                  clips, vWriter, audioRecorder, offered>>
      BY DEF Tick, settingsVars, nameVars, recordVars
<1>2. motionCaptureTimeStamp' = Older(motionCaptureTimeStamp) /\ sinceMotion' = Older(sinceMotion)
      BY DEF Tick
<1> QED BY <1>1, <1>2 DEF Inv, Named, Settled, RecordingInv, NoOrphanRecording, ClipsInv, IsType

LEMMA StopInv ==
    ASSUME Inv, Stop
    PROVE  Named' /\ Settled' /\ RecordingInv' /\ ClipsInv'
<1>1. at' = "ended" /\ vWriter' = FALSE /\ audioRecorder' = FALSE
      BY DEF Stop
<1>2. UNCHANGED <<m_newSettings, m_capInfo, m_motionCaptured, m_videoFileName, m_soundFileName,
                  clips, offered>>
      BY DEF Stop, settingsVars, nameVars
<1> QED BY <1>1, <1>2 DEF Inv, Named, Settled, RecordingInv, NoOrphanRecording, ClipsInv, IsType

LEMMA ResetInv ==
    ASSUME Inv, Abort \/ (TakeSettings /\ m_newSettings)
    PROVE  Named' /\ Settled' /\ RecordingInv' /\ ClipsInv'
<1>1. m_motionCaptured' = FALSE /\ vWriter' = FALSE /\ audioRecorder' = FALSE /\ offered' = offered
      BY DEF Abort, TakeSettings
<1>2. at' = "ended" \/ m_newSettings' = FALSE
      BY DEF Abort, TakeSettings
<1> QED BY <1>1, <1>2 DEF Inv, Named, Settled, RecordingInv, NoOrphanRecording, ClipsInv

LEMMA SettledInv ==
    ASSUME Inv, TakeSettings, ~m_newSettings
    PROVE  Named' /\ Settled' /\ RecordingInv' /\ ClipsInv'
<1>1. at' = "frame"
      BY DEF TakeSettings
<1>2. UNCHANGED <<m_newSettings, m_capInfo, m_motionCaptured, m_videoFileName, m_soundFileName,
                  clips, vWriter, audioRecorder, offered, motionCaptureTimeStamp, sinceMotion>>
      BY DEF TakeSettings, nameVars
<1> QED BY <1>1, <1>2 DEF Inv, Named, Settled, RecordingInv, NoOrphanRecording, ClipsInv, IsType

\* Motion starts a capture: whatever is recorded from here on is new.
LEMMA StartInv ==
    ASSUME Inv, NEW cs \in Contours, DetectMotion(cs), Moves(cs), ~m_motionCaptured
    PROVE  Named' /\ RecordingInv' /\ ClipsInv'
<1>1. /\ m_motionCaptured' = TRUE /\ sinceMotion' = 0 /\ (StartImage \/ StartVideo \/ StartSound)
      /\ at' = "record" /\ UNCHANGED <<m_capInfo, m_newSettings, offered>>
      BY DEF DetectMotion, settingsVars
<1>2. ~m_newSettings /\ ~vWriter /\ ~audioRecorder
      BY DEF Inv, Settled, DetectMotion, RecordingInv, NoOrphanRecording
<1>3. clips \in Nat /\ \A i \in DOMAIN offered : offered[i] \in 1..clips
      BY DEF Inv, TypeOK
<1>4. \A i, j \in DOMAIN offered : offered[i] = offered[j] => i = j
      BY DEF Inv, ClipsInv
<1>5. CASE StartImage
      BY <1>1, <1>2, <1>4, <1>5 DEF StartImage, Named, RecordingInv, NoOrphanRecording, ClipsInv, IsType, nameVars
<1>6. CASE StartVideo
  <2>1. clips' = clips + 1 /\ m_videoFileName' = clips' /\ audioRecorder' = audioRecorder
        BY <1>6 DEF StartVideo
  <2>2. IsType("VIDEO_CAPTURE") /\ (vWriter' => motionCaptureTimeStamp' = 0)
        BY <1>6 DEF StartVideo
  <2>3. m_videoFileName' \in 1..clips' /\ \A i \in DOMAIN offered : offered[i] # m_videoFileName'
        BY <1>3, <2>1
  <2> QED BY <1>1, <1>2, <1>4, <2>1, <2>2, <2>3 DEF Named, RecordingInv, NoOrphanRecording, ClipsInv, IsType
<1>7. CASE StartSound
  <2>1. clips' = clips + 1 /\ m_soundFileName' = clips' /\ vWriter' = vWriter
        BY <1>7 DEF StartSound
  <2>2. IsType("SOUND_CAPTURE") /\ motionCaptureTimeStamp' = 0
        BY <1>7 DEF StartSound
  <2>3. m_soundFileName' \in 1..clips' /\ \A i \in DOMAIN offered : offered[i] # m_soundFileName'
        BY <1>3, <2>1
  <2> QED BY <1>1, <1>2, <1>4, <2>1, <2>2, <2>3 DEF Named, RecordingInv, NoOrphanRecording, ClipsInv, IsType
<1> QED BY <1>1, <1>5, <1>6, <1>7

LEMMA DetectInv ==
    ASSUME Inv, NEW cs \in Contours, DetectMotion(cs)
    PROVE  Named' /\ Settled' /\ RecordingInv' /\ ClipsInv'
<1>1. at' = "record" /\ UNCHANGED <<m_capInfo, m_newSettings, offered>> /\ ~m_newSettings
      BY DEF DetectMotion, settingsVars, Inv, Settled
<1>2. CASE Moves(cs) /\ ~m_motionCaptured
      BY <1>1, <1>2, StartInv DEF Settled
<1>3. CASE ~(Moves(cs) /\ ~m_motionCaptured)
  <2>1. UNCHANGED <<m_motionCaptured, sinceMotion, m_videoFileName, m_soundFileName, clips, vWriter,
                    audioRecorder, motionCaptureTimeStamp>>
        BY <1>3 DEF DetectMotion, nameVars
  <2> QED BY <1>1, <2>1 DEF Inv, Named, Settled, RecordingInv, NoOrphanRecording, ClipsInv, IsType
<1> QED BY <1>2, <1>3

\* What is new to a sequence without repetitions may be appended to it.
LEMMA AppendOnce ==
    ASSUME NEW n, NEW s \in Seq(1..n), NEW c, \A i \in DOMAIN s : s[i] # c,
           \A i, j \in DOMAIN s : s[i] = s[j] => i = j
    PROVE  \A i, j \in DOMAIN Append(s, c) : Append(s, c)[i] = Append(s, c)[j] => i = j
OBVIOUS

\* The end of a capture emits its clip, for the first time.
LEMMA EndInv ==
    ASSUME Inv, Record, m_motionCaptured, EndCapture
    PROVE  Named' /\ RecordingInv' /\ ClipsInv' /\ ~vWriter' /\ ~audioRecorder'
<1>1. ~m_newSettings /\ m_motionCaptured' = FALSE
      BY DEF Record, Inv, Settled, EndCapture
<1>2. (vWriter => IsType("VIDEO_CAPTURE")) /\ (audioRecorder => IsType("SOUND_CAPTURE"))
      BY <1>1 DEF Inv, RecordingInv, NoOrphanRecording
<1>3. vWriter \in BOOLEAN /\ audioRecorder \in BOOLEAN /\ offered \in Seq(1..clips)
      BY DEF Inv, TypeOK
<1>4. ~vWriter' /\ ~audioRecorder'
      BY <1>2, <1>3 DEF EndCapture, IsType
<1>5. \A i, j \in DOMAIN offered' : offered'[i] = offered'[j] => i = j
  <2>1. CASE offered' = offered
        BY <2>1 DEF Inv, ClipsInv
  <2>2. CASE IsType("VIDEO_CAPTURE") /\ offered' = Append(offered, m_videoFileName)
    <3>1. \A i \in DOMAIN offered : offered[i] # m_videoFileName
          BY <1>1, <2>2 DEF Inv, ClipsInv
    <3> QED BY <1>3, <2>2, <3>1, AppendOnce DEF Inv, ClipsInv
  <2>3. CASE IsType("SOUND_CAPTURE") /\ offered' = Append(offered, m_soundFileName)
    <3>1. \A i \in DOMAIN offered : offered[i] # m_soundFileName
          BY <1>1, <2>3 DEF Inv, ClipsInv
    <3> QED BY <1>3, <2>3, <3>1, AppendOnce DEF Inv, ClipsInv
  <2> QED BY <2>1, <2>2, <2>3 DEF EndCapture
<1>6. Named' /\ RecordingInv' /\ ClipsInv'
      BY <1>1, <1>4, <1>5 DEF Named, RecordingInv, NoOrphanRecording, ClipsInv
<1> QED BY <1>4, <1>6

LEMMA RecordInv ==
    ASSUME Inv, Record
    PROVE  Named' /\ Settled' /\ RecordingInv' /\ ClipsInv'
<1>1. at' = "top" /\ UNCHANGED <<m_capInfo, m_newSettings, m_videoFileName, m_soundFileName, clips,
                                 motionCaptureTimeStamp, sinceMotion>>
      BY DEF Record, settingsVars, nameVars
<1>2. CASE m_motionCaptured /\ (Full \/ Quiet)
  <2>1. EndCapture
        BY <1>2 DEF Record
  <2> QED BY <1>1, <1>2, <2>1, EndInv DEF Settled
<1>3. CASE ~(m_motionCaptured /\ (Full \/ Quiet))
  <2>1. UNCHANGED <<m_motionCaptured, vWriter, audioRecorder, offered>>
        BY <1>3 DEF Record
  <2> QED BY <1>1, <2>1 DEF Inv, Named, Settled, RecordingInv, NoOrphanRecording, ClipsInv, IsType
<1> QED BY <1>2, <1>3

-----------------------------------------------------------------------------
(* The theorems.                                                           *)

LEMMA InitInv == Init => Inv
<1>1. Init => Named /\ Settled /\ RecordingInv /\ ClipsInv
      BY DEF Init, Named, Settled, RecordingInv, NoOrphanRecording, ClipsInv
<1> QED BY <1>1, InitTypes DEF Inv

LEMMA NextInv == ASSUME Inv, [Next]_vars PROVE Inv'
<1> USE DEF Inv
<1>1. CASE SetCaptureConfigurations \/ Start \/ SkipFrame
      BY <1>1, QuietSteps, SettingsTypes, BeginTypes, SkipTypes
<1>2. CASE Tick
      BY <1>2, TickInv, TickTypes
<1>3. CASE Stop
      BY <1>3, StopInv, StopTypes
<1>4. CASE Abort
      BY <1>4, ResetInv, StopTypes
<1>5. CASE TakeSettings
      BY <1>5, ResetInv, SettledInv, TakeTypes
<1>6. CASE \E cs \in Contours : DetectMotion(cs)
      BY <1>6, DetectInv, DetectTypes
<1>7. CASE Record
      BY <1>7, RecordInv, RecordTypes
<1>8. CASE UNCHANGED vars
  <2>1. UNCHANGED <<at, m_capInfo, m_newSettings, m_firstFrame, m_motionCaptured, m_videoFileName,
                    m_soundFileName, clips, frames_motion, t2, t4, motionCaptureTimeStamp, sinceMotion,
                    vWriter, audioRecorder, files, offered, movingFrames, disturbed>>
        BY <1>8 DEF vars, settingsVars, nameVars, recordVars, stampVars
  <2>2. TypeOK'
        BY <2>1 DEF TypeOK
  <2>3. Named' /\ Settled' /\ RecordingInv' /\ ClipsInv'
        BY <2>1 DEF Named, Settled, RecordingInv, NoOrphanRecording, ClipsInv, IsType
  <2> QED BY <2>2, <2>3
<1> QED BY <1>1, <1>2, <1>3, <1>4, <1>5, <1>6, <1>7, <1>8 DEF Next, Iteration

LEMMA Invariance == Spec => []Inv
<1>1. Inv /\ [Next]_vars => Inv'
      BY NextInv
<1> QED BY <1>1, InitInv, PTL DEF Spec

\* Every variable of the capture loop keeps its type.
THEOREM TypeCorrect == Spec => []TypeOK
<1>1. Inv => TypeOK
      BY DEF Inv
<1> QED BY <1>1, Invariance, PTL

\* Whenever settings change and run() ends, no writer or recorder stays open
\* that the end of a capture will not close (NoOrphanRecording).
THEOREM NoOrphanRecordingAlways == Spec => []NoOrphanRecording
<1>1. Inv => NoOrphanRecording
      BY DEF Inv, RecordingInv
<1> QED BY <1>1, Invariance, PTL

\* A clip is emitted once and never while it is written (OfferedOnce).
THEOREM OfferedOnceAlways == Spec => []OfferedOnce
<1>1. Inv => OfferedOnce
      BY DEF Inv, ClipsInv, OfferedOnce, Recording, RecordingInv, NoOrphanRecording
<1> QED BY <1>1, Invariance, PTL

\* No frame is added to a clip of full length (ClipsAreBounded).
THEOREM ClipsAreBoundedAlways == Spec => ClipsAreBounded
<1>1. ASSUME Inv, Next, at = "record", vWriter' \/ audioRecorder'
      PROVE  sinceMotion < VideoLen
  <2>1. Record
        BY <1>1 DEF Next, Iteration, SetCaptureConfigurations, Start, Tick, Stop, TakeSettings, SkipFrame,
                    DetectMotion, Abort
  <2>2. ~(m_motionCaptured /\ (Full \/ Quiet))
        BY <1>1, <2>1, EndInv DEF Record
  <2>3. (vWriter \/ audioRecorder) /\ ~m_newSettings
        BY <1>1, <2>1, <2>2 DEF Record, Inv, Settled
  <2>4. m_motionCaptured /\ motionCaptureTimeStamp = sinceMotion
        BY <1>1, <2>3 DEF Inv, RecordingInv, NoOrphanRecording
  <2>5. ~IsType("IMAGE_CAPTURE")
        BY <1>1, <2>3 DEF Inv, RecordingInv, NoOrphanRecording, IsType
  <2>6. ~(motionCaptureTimeStamp >= VideoLen)
        BY <2>2, <2>4, <2>5 DEF Full
  <2> QED BY <1>1, <2>4, <2>6, MaxAgeNat DEF Inv, TypeOK, Ages
<1>2. Inv /\ [Next]_vars => [at = "record" /\ (vWriter' \/ audioRecorder') => sinceMotion < VideoLen]_vars
      BY <1>1
<1> QED BY <1>2, Invariance, PTL DEF Spec, ClipsAreBounded

-----------------------------------------------------------------------------
(* The files are accounted for while nothing disturbs the captures.        *)

\* A run that ends in the middle of a capture disturbs it.
StoppedInv == at = "ended" /\ m_motionCaptured => disturbed

CapturesInv == StoppedInv /\ MotionIsRecorded /\ FilesAccounted

\* The clips in a sequence, once one more is appended.
LEMMA AppendRange ==
    ASSUME NEW n, NEW s \in Seq(1..n), NEW c
    PROVE  {Append(s, c)[i] : i \in DOMAIN Append(s, c)} = {s[i] : i \in DOMAIN s} \cup {c}
<1>1. /\ Len(s) \in Nat /\ DOMAIN s = 1..Len(s)
      /\ DOMAIN Append(s, c) = 1..(Len(s) + 1)
      /\ \A i \in 1..Len(s) : Append(s, c)[i] = s[i]
      /\ Append(s, c)[Len(s) + 1] = c
      OBVIOUS
<1>2. \A i \in 1..(Len(s) + 1) : i \in 1..Len(s) \/ i = Len(s) + 1
      BY <1>1
<1> QED BY <1>1, <1>2

\* A step that leaves the captures, their clips and the settings alone.
LEMMA RestCaptures ==
    ASSUME CapturesInv, UNCHANGED <<m_motionCaptured, m_videoFileName, m_soundFileName, vWriter,
                                    audioRecorder, files, offered, disturbed>>,
           at' = "ended" => at = "ended",
           m_newSettings' = TRUE \/ (m_newSettings' = m_newSettings /\ m_capInfo' = m_capInfo),
           m_motionCaptured /\ ~disturbed /\ motionCaptureTimeStamp = sinceMotion =>
               motionCaptureTimeStamp' = sinceMotion'
    PROVE  CapturesInv'
BY DEF CapturesInv, StoppedInv, MotionIsRecorded, FilesAccounted, Recording, IsType

\* The start of a capture whose file can be opened adds that file.
LEMMA StartCaptures ==
    ASSUME Inv, CapturesInv, NEW cs \in Contours, DetectMotion(cs), Moves(cs), ~m_motionCaptured
    PROVE  CapturesInv'
<1>1. /\ m_motionCaptured' = TRUE /\ sinceMotion' = 0 /\ (StartImage \/ StartVideo \/ StartSound)
      /\ at' = "record" /\ UNCHANGED <<m_capInfo, m_newSettings, offered>>
      BY DEF DetectMotion, settingsVars
<1>2. ~vWriter /\ ~audioRecorder
      BY DEF Inv, RecordingInv, NoOrphanRecording
<1>3. ~disturbed => files = {offered[i] : i \in DOMAIN offered}
      BY <1>2 DEF CapturesInv, FilesAccounted, Recording
<1>4. CASE StartImage
      BY <1>1, <1>2, <1>3, <1>4 DEF StartImage, nameVars, CapturesInv, StoppedInv, MotionIsRecorded,
         FilesAccounted, Recording, IsType
<1>5. CASE StartVideo
  <2>1. /\ IsType("VIDEO_CAPTURE") /\ ~audioRecorder' /\ disturbed' \in {TRUE, disturbed}
        /\ \/ /\ vWriter' = TRUE /\ files' = files \cup {m_videoFileName'}
              /\ motionCaptureTimeStamp' = 0 /\ disturbed' = disturbed
           \/ disturbed' = TRUE
        BY <1>2, <1>5 DEF StartVideo
  <2>2. StoppedInv' /\ MotionIsRecorded'
        BY <1>1, <2>1 DEF StoppedInv, MotionIsRecorded, IsType
  <2>3. FilesAccounted'
        BY <1>1, <1>3, <2>1 DEF FilesAccounted, Recording
  <2> QED BY <2>2, <2>3 DEF CapturesInv
<1>6. CASE StartSound
  <2>1. /\ IsType("SOUND_CAPTURE") /\ ~vWriter' /\ disturbed' \in {TRUE, disturbed}
        /\ \/ /\ audioRecorder' = TRUE /\ files' = files \cup {m_soundFileName'}
              /\ motionCaptureTimeStamp' = 0 /\ disturbed' = disturbed
           \/ disturbed' = TRUE
        BY <1>2, <1>6 DEF StartSound
  <2>2. StoppedInv' /\ MotionIsRecorded'
        BY <1>1, <2>1 DEF StoppedInv, MotionIsRecorded, IsType
  <2>3. FilesAccounted'
        BY <1>1, <1>3, <2>1 DEF FilesAccounted, Recording
  <2> QED BY <2>2, <2>3 DEF CapturesInv
<1> QED BY <1>1, <1>4, <1>5, <1>6

\* New settings delete the clip being recorded, which is none of those emitted.
LEMMA ResetCaptures ==
    ASSUME Inv, CapturesInv, TakeSettings, m_newSettings
    PROVE  CapturesInv'
<1>1. /\ at' = "frame" /\ m_motionCaptured' = FALSE /\ vWriter' = FALSE /\ audioRecorder' = FALSE
      /\ files' = files \ Recording /\ UNCHANGED <<offered, disturbed>>
      BY DEF TakeSettings
<1>2. \A i \in DOMAIN offered : offered[i] \notin Recording
      BY DEF Inv, ClipsInv, Recording, RecordingInv, NoOrphanRecording
<1> QED BY <1>1, <1>2 DEF CapturesInv, StoppedInv, MotionIsRecorded, FilesAccounted, Recording

\* The end of a capture emits the clip that is being recorded.
LEMMA EndCaptures ==
    ASSUME Inv, CapturesInv, Record, m_motionCaptured, EndCapture
    PROVE  CapturesInv'
<1>1. /\ at' = "top" /\ ~m_newSettings /\ m_motionCaptured' = FALSE
      /\ UNCHANGED <<files, disturbed>> /\ ~vWriter' /\ ~audioRecorder'
      BY EndInv DEF Record, EndCapture, Inv, Settled
<1>2. StoppedInv' /\ MotionIsRecorded'
      BY <1>1 DEF StoppedInv, MotionIsRecorded
<1>3. ASSUME ~disturbed PROVE files = {offered'[i] : i \in DOMAIN offered'}
  <2>1. /\ files = {offered[i] : i \in DOMAIN offered} \cup Recording
        /\ vWriter <=> IsType("VIDEO_CAPTURE")
        /\ audioRecorder <=> IsType("SOUND_CAPTURE")
        BY <1>1, <1>3 DEF CapturesInv, FilesAccounted, MotionIsRecorded
  <2>2. offered \in Seq(1..clips)
        BY DEF Inv, TypeOK
  <2>3. CASE IsType("VIDEO_CAPTURE")
    <3>1. offered' = Append(offered, m_videoFileName) /\ Recording = {m_videoFileName}
          BY <2>1, <2>3 DEF EndCapture, Recording, IsType
    <3> QED BY <2>1, <2>2, <3>1, AppendRange
  <2>4. CASE IsType("SOUND_CAPTURE")
    <3>1. offered' = Append(offered, m_soundFileName) /\ Recording = {m_soundFileName}
          BY <2>1, <2>4 DEF EndCapture, Recording, IsType
    <3> QED BY <2>1, <2>2, <3>1, AppendRange
  <2>5. CASE IsType("IMAGE_CAPTURE")
    <3>1. offered' = offered /\ Recording = {}
          BY <2>1, <2>5 DEF EndCapture, Recording, IsType
    <3> QED BY <2>1, <3>1
  <2> QED BY <2>3, <2>4, <2>5 DEF EndCapture
<1>4. FilesAccounted'
      BY <1>1, <1>3 DEF FilesAccounted, Recording
<1> QED BY <1>2, <1>4 DEF CapturesInv

LEMMA CapturesStep ==
    ASSUME Inv, CapturesInv, [Next]_vars
    PROVE  CapturesInv'
<1>1. CASE SetCaptureConfigurations \/ SkipFrame \/ Tick \/ UNCHANGED vars
  <2>1. /\ UNCHANGED <<m_motionCaptured, m_videoFileName, m_soundFileName, vWriter, audioRecorder,
                       files, offered, disturbed>>
        /\ at' = "ended" => at = "ended"
        /\ m_newSettings' = TRUE \/ (m_newSettings' = m_newSettings /\ m_capInfo' = m_capInfo)
        /\ motionCaptureTimeStamp = sinceMotion => motionCaptureTimeStamp' = sinceMotion'
        BY <1>1 DEF SetCaptureConfigurations, SkipFrame, Tick, vars, settingsVars, nameVars,
           recordVars, stampVars
  <2> QED BY <2>1, RestCaptures
<1>2. CASE Start
  <2>1. /\ UNCHANGED <<m_motionCaptured, m_videoFileName, m_soundFileName, vWriter, audioRecorder,
                       files, offered, disturbed, m_newSettings, m_capInfo>>
        /\ at = "ended" /\ at' = "top"
        BY <1>2 DEF Start, settingsVars, nameVars, recordVars
  <2>2. ~(m_motionCaptured /\ ~disturbed)
        BY <2>1 DEF CapturesInv, StoppedInv
  <2> QED BY <2>1, <2>2, RestCaptures
<1>3. CASE Stop
  <2>1. /\ vWriter' = FALSE /\ audioRecorder' = FALSE /\ disturbed' = (disturbed \/ m_motionCaptured)
        /\ UNCHANGED <<m_motionCaptured, files, offered>>
        BY <1>3 DEF Stop
  <2>2. ~m_motionCaptured => Recording = {}
        BY DEF Inv, RecordingInv, NoOrphanRecording, Recording
  <2> QED BY <2>1, <2>2 DEF CapturesInv, StoppedInv, MotionIsRecorded, FilesAccounted, Recording
<1>4. CASE Abort
      BY <1>4 DEF Abort, CapturesInv, StoppedInv, MotionIsRecorded, FilesAccounted
<1>5. CASE TakeSettings /\ m_newSettings
      BY <1>5, ResetCaptures
<1>6. CASE TakeSettings /\ ~m_newSettings
  <2>1. /\ UNCHANGED <<m_motionCaptured, m_videoFileName, m_soundFileName, vWriter, audioRecorder,
                       files, offered, disturbed, m_newSettings, m_capInfo, sinceMotion,
                       motionCaptureTimeStamp>>
        /\ at' = "frame"
        BY <1>6 DEF TakeSettings, nameVars
  <2> QED BY <2>1, RestCaptures
<1>7. ASSUME NEW cs \in Contours, DetectMotion(cs) PROVE CapturesInv'
  <2>1. CASE Moves(cs) /\ ~m_motionCaptured
        BY <1>7, <2>1, StartCaptures
  <2>2. CASE ~(Moves(cs) /\ ~m_motionCaptured)
    <3>1. /\ UNCHANGED <<m_motionCaptured, m_videoFileName, m_soundFileName, vWriter, audioRecorder,
                         files, offered, disturbed, m_newSettings, m_capInfo, sinceMotion,
                         motionCaptureTimeStamp>>
          /\ at' = "record"
          BY <1>7, <2>2 DEF DetectMotion, nameVars, settingsVars
    <3> QED BY <3>1, RestCaptures
  <2> QED BY <2>1, <2>2
<1>8. CASE Record
  <2>1. CASE m_motionCaptured /\ (Full \/ Quiet)
    <3>1. EndCapture
          BY <1>8, <2>1 DEF Record
    <3> QED BY <1>8, <2>1, <3>1, EndCaptures
  <2>2. CASE ~(m_motionCaptured /\ (Full \/ Quiet))
    <3>1. /\ UNCHANGED <<m_motionCaptured, m_videoFileName, m_soundFileName, vWriter, audioRecorder,
                         files, offered, disturbed, m_newSettings, m_capInfo, sinceMotion,
                         motionCaptureTimeStamp>>
          /\ at' = "top"
          BY <1>8, <2>2 DEF Record, nameVars, settingsVars
    <3> QED BY <3>1, RestCaptures
  <2> QED BY <2>1, <2>2
<1> QED BY <1>1, <1>2, <1>3, <1>4, <1>5, <1>6, <1>7, <1>8 DEF Next, Iteration

LEMMA CapturesInvariance == Spec => []CapturesInv
<1>1. Init => CapturesInv
      BY DEF Init, CapturesInv, StoppedInv, MotionIsRecorded, FilesAccounted, Recording
<1>2. Inv /\ CapturesInv /\ [Next]_vars => CapturesInv'
      BY CapturesStep
<1> QED BY <1>1, <1>2, Invariance, PTL DEF Spec

\* While nothing disturbs the captures, the files in /tmp are those of the clips
\* emitted and of the one being recorded: new settings delete what they
\* interrupt and nothing else.
THEOREM FilesAccountedAlways == Spec => []FilesAccounted
<1>1. CapturesInv => FilesAccounted
      BY DEF CapturesInv
<1> QED BY <1>1, CapturesInvariance, PTL

\* While nothing disturbs the captures, a motion's time stamp is that of its
\* start and the clip recorded is of the type set, so that its end is found.
THEOREM MotionIsRecordedAlways == Spec => []MotionIsRecorded
<1>1. CapturesInv => MotionIsRecorded
      BY DEF CapturesInv
<1> QED BY <1>1, CapturesInvariance, PTL

=============================================================================

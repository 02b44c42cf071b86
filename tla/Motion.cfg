CONSTANTS
    Types = {"IMAGE_CAPTURE", "VIDEO_CAPTURE", "SOUND_CAPTURE"}
    Triggers = {1, 2}
    SecToStop = 1
    VideoLen = 2
    ImageTimeDiff = 1
    MaxTrigger = 2
    MaxContours = 2
    MaxClips = 2
SPECIFICATION FairSpec
INVARIANTS
    TypeOK
    NoOrphanRecording
    OfferedOnce
    FilesAccounted
    MotionIsRecorded
PROPERTIES
    ClipsAreBounded
    ClipsEnd

CONSTANTS
    Types = {"IMAGE_CAPTURE"}
    Triggers = {2}
    SecToStop = 1
    VideoLen = 2
    ImageTimeDiff = 1
    MaxTrigger = 2
    MaxContours = 2
    MaxClips = 2
SPECIFICATION Spec
PROPERTIES
    MotionNeedsFrames

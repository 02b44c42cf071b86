CONSTANTS
    Forms <- MCForms
    CookieSets <- MCCookieSets
    ForeignCookies <- MCForeignCookies
    Sources <- MCSources
    MaxCount = 2
SPECIFICATION Spec
INVARIANT FieldsAsSent
PROPERTY PageFilled
CHECK_DEADLOCK FALSE

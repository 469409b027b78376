CONSTANTS
    Chars = {11}
    Corps = {21}
    Alliances = {}
    Others = {}
    Texts <- MCTextsQuotes
    Durations = {0, 1}
    Responses = {"accepted", "declined"}
    MaxEvents = 1
    MaxResponses = 2
    MaxDbErrors = 0

SPECIFICATION Spec

INVARIANT TitleStoredAsSent

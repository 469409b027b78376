CONSTANTS
    Chars = {11}
    Corps = {21}
    Alliances = {}
    Others = {}
    Texts <- MCTexts
    Durations = {0, 1}
    Responses = {"accepted", "declined"}
    MaxEvents = 1
    MaxResponses = 2
    MaxDbErrors = 0

SPECIFICATION Spec

INVARIANT InviteesStored

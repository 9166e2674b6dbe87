SPECIFICATION FairHostSpec
CONSTANTS
    c1 = c1
    c2 = c2
    c3 = c3
    Calls = {c1, c2, c3}
    Oversized = {c3}
    MessageOf <- OwnMessages
    Answers = {answer}
    Damages = {"none", "header", "length", "body", "encoding"}
    MaxAnswers = 3
INVARIANTS
    WaitersAreWhoWaits
    AnswersKeepOrder
PROPERTIES
    OutcomesAreFinal
    WaitingEnds

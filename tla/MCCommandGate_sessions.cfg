SPECIFICATION Spec
CONSTANTS
    Sessions = {"typed", "voice"}
    Rank = 1
    Caps = {"locomotion"}
    Chain <- ModelThenParser
PROPERTY ConfirmedWasAsked
PROPERTY RunsArePermitted
PROPERTY SpokenStopNeedsNoModel
PROPERTY LineIsAnswered
PROPERTY LineAdvances

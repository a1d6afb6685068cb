SPECIFICATION SampleSpec
CONSTANTS
    MaxConnects = 2
    MaxSends = 0
    MaxTexts = 1
    TextLength = 1
PROPERTY Reconnects

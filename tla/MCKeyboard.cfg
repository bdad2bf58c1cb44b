CONSTANTS
    Plain <- MCPlain
    Extended <- MCExtended
    WireBound = 1
SPECIFICATION KeyboardSpec
INVARIANT NothingIsOwed
INVARIANT DecoderSettles
PROPERTY DecodesWhatIsTyped

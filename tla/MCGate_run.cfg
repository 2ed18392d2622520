CONSTANTS
    None = None
    Cases <- AllCases
    PartialDetails = FALSE
    Unset = Unset
    Nil = Nil
    Garbage = Garbage
    Inquiries <- SomeInquiries
    Blank = Blank
    Malformed = Malformed
    OffWord = OffWord
    Setups <- SomeSetups
    Files <- SomeFiles
    Scopes = {"acme", "beta"}
SPECIFICATION MCSpec
INVARIANTS
    PassIsWhatItSays CertifyHidesNothing PolicySpeaksUp SettingsAreHonoured PolicyTellsAll

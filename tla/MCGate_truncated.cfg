CONSTANTS
    None = None
    Cases <- StrictCases
    PartialDetails = TRUE
    Unset = Unset
    Nil = Nil
    Garbage = Garbage
    Inquiries <- SomeInquiries
    Blank = Blank
    Malformed = Malformed
    OffWord = OffWord
    Setups = {}
    Files = {}
    Scopes = {}
SPECIFICATION MCSpec
INVARIANTS
    PolicyNeverSilent

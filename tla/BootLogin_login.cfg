CONSTANTS
    N = 3
    Name = 3
    Working = {2, 3}
    Tries = 2
    None = none
SPECIFICATION FairSpec
INVARIANTS
    ShownSessionSpared
    RecordedServerWorked
PROPERTIES
    PasswordShredded
    ComesBack

\* Accounts, devices, the menu, its import and its settings.
CONSTANTS
    Users = {user1, user2}
    Emails = {name1, name2}
    Tokens = {row1, row2, row3}
    Links = {link1}
    Procs = {call1, call2}
    Nobody = Nobody
    Phones = {name1, name2}
    Staff = {user1, user2}
    Calls = {call1, call2}
    NoStaff = NoStaff
    Cats = {row1, row2, row3}
    Prods = {prod1}
    Movers = {call1, call2}
    MaxDepth = 2
    NoCat = NoCat
    CatNames = {name1, name2}
    ProdNames = {prod1}
    Imports = {call1, call2}
    Editor = Editor
    \* The three URLs of the settings row are handled alike.
    Slots = {"qr", "photo"}
    Files = {row1, row2, row3}
    Requests = {call1, call2}
    NoFile = NoFile
SPECIFICATION OfficeSpec
SYMMETRY Symmetry
INVARIANTS OneSession LinkUsedOnce RetryFindsDevice MenuShowsWhatIsLive AllOrNothing PicturesExist
CHECK_DEADLOCK FALSE

SPECIFICATION MCSpec
CONSTANTS
    laptop = laptop
    phone = phone
    ada = ada
    Nothing = Nothing
    Emails = {ada}
    Passwords = {"first", "second"}
    FirstPassword = "first"
    NewPasswords = {"second"}
    Browsers = {laptop, phone}
    Address <- OneAddress
    MaxUsers = 2
    MaxTokens = 2
    Names = {"ada"}
    NoName = ""
    Languages = {"en", "fr"}
    English = "en"
    Pictures = {"profile_image"}
    NoPicture = NoPicture
    MaxRequests = 2
    MaxFiles = 2
    MaxFading = 1
    Words = {"an", "ann"}
    Blank = ""
    Unsaid = "unsaid"
    Others = {"ann", "dan"}
    Fits <- FitsOfNames
    MaxSearches = 3
    TOAST_LIMIT = 1
    MaxToasts = 4
SYMMETRY BrowserSymmetry
INVARIANTS
    BarredCallsFail
    SessionsAreProved
    SettingsAreStored
    ResultsFitText
    NewestToastStays
PROPERTIES
    NewPasswordIsProved
    SignedOutWithReason

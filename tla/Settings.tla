------------------------------ MODULE Settings ------------------------------
(***************************************************************************)
(* What a user changes about itself on the settings page: the names and    *)
(* the text of the account (one value here), the language and the          *)
(* pictures.  The tab holds a copy of the user in the context of its pages *)
(* and fetches it again at every change of the path.  Its requests overlap *)
(* each other, are refused, and break off; other browsers of the user      *)
(* change the row too.  Two uploads never get the same path, as it begins  *)
(* with the millisecond.                                                   *)
(***************************************************************************)
EXTENDS Naturals, FiniteSets

CONSTANTS Names,        \* accounts that have a first and a last name
          NoName,       \* an account that misses one
          Languages,
          English,      \* the language of a user before it is fetched
          Pictures,     \* the columns of the row with the path of a picture
          NoPicture,    \* no path of a picture
          MaxRequests,  \* bound: requests under way
          MaxFiles,     \* bound: files uploaded
          MaxFading     \* bound: pending timers of one form

ASSUME SettingsAssumption ==
    /\ NoName \notin Names
    /\ English \in Languages
    /\ Pictures \subseteq {"profile_image", "cover"}
    /\ {MaxRequests, MaxFiles, MaxFading} \subseteq Nat

VARIABLES stored,    \* the user's row
          uploads,   \* the files on the disk; 0 stands for the default pictures
          tab,       \* what the tab shows and holds
          requests,  \* the requests under way
          landed,    \* history: the last save of the account is stored
          upset      \* history: something was overtaken or failed since the
                     \* profile was fetched
settingsVars == <<stored, uploads, tab, requests, landed, upset>>

Slots == 1 .. MaxRequests
UserRows == [account : Names \cup {NoName}, language : Languages,
             pictures : [Pictures -> 0 .. MaxFiles \cup {NoPicture}]]
EmptyUser == [account |-> NoName, language |-> English,
              pictures |-> [picture \in Pictures |-> NoPicture]]
NoRequest == [op |-> "none", heard |-> TRUE, arg |-> NoName, at |-> "sent",
              was |-> English, seen |-> EmptyUser, file |-> 0, alone |-> FALSE]

Requests == [op : {"none", "profile", "account", "privacy"} \cup Pictures,
             heard : BOOLEAN, arg : Names \cup {NoName} \cup Languages,
             at : {"sent", "written", "done", "refused", "broken"},
             was : Languages, seen : UserRows, file : 0 .. MaxFiles, alone : BOOLEAN]
Tabs == [page : {"closed", "elsewhere", "settings"}, user : UserRows,
         language : Languages, account : Names \cup {NoName},
         saving : {"no", "call", "pause"}, saved : BOOLEAN, fading : 0 .. MaxFading]

SettingsTypeOK ==
    /\ stored \in UserRows
    /\ uploads \subseteq 0 .. MaxFiles
    /\ tab \in Tabs
    /\ requests \in [Slots -> Requests]
    /\ landed \in BOOLEAN /\ upset \in BOOLEAN

SettingsInit ==
    /\ stored \in [account : Names, language : Languages, pictures : [Pictures -> {0}]]
    /\ uploads = {0}
    /\ tab = [page |-> "closed", user |-> EmptyUser, language |-> English,
              account |-> NoName, saving |-> "no", saved |-> FALSE, fading |-> 0]
    /\ requests = [s \in Slots |-> NoRequest]
    /\ landed = FALSE /\ upset = TRUE
-----------------------------------------------------------------------------
\* A request takes the first free slot; whatever else is under way is no longer
\* alone.
Underway == {s \in Slots : requests[s] # NoRequest}
Overlapped(request) == [request EXCEPT !.alone = FALSE]
Sent(op, arg, was) ==
    \E s \in Slots \ Underway :
        /\ 1 .. s - 1 \subseteq Underway
        /\ requests' = [r \in Slots |->
              IF r # s THEN Overlapped(requests[r])
              ELSE [NoRequest EXCEPT !.op = op, !.arg = arg, !.was = was,
                                     !.alone = Underway = {}]]

\* setUser, with the effects of the settings page on a new user: the form is
\* filled in from it, and a language that changes is switched to.
WithUser(t, user) ==
    [t EXCEPT !.user = user,
              !.account = IF t.page = "settings" THEN user.account ELSE @,
              !.language = IF t.page = "settings" /\ user.language # t.user.language
                           THEN user.language ELSE @]

\* A page is left and another one mounted, with a form of its own.
Mounted(t, page) ==
    [t EXCEPT !.page = page, !.saving = "no", !.saved = FALSE, !.fading = 0,
              !.account = IF page = "settings" THEN t.user.account ELSE NoName,
              !.language = IF page = "settings" THEN t.user.language ELSE @]

\* The tab is opened, in the language that the browser's storage has, or goes to
\* another path: the profile is fetched.  The answer to a save of the form that
\* was left changes nothing any more.
LeftListening(request) == Overlapped(request)
Left(request) == [Overlapped(request) EXCEPT !.heard = request.op # "account"]
Fetched ==
    \E s \in Slots \ Underway :
        /\ 1 .. s - 1 \subseteq Underway
        /\ requests' = [r \in Slots |->
              IF r # s
              THEN IF r \in Underway THEN Left(requests[r]) ELSE NoRequest
              ELSE [NoRequest EXCEPT !.op = "profile", !.was = tab.user.language,
                                     !.alone = Underway = {}]]
Open(page, language) ==
    /\ tab.page = "closed"
    /\ tab' = Mounted([tab EXCEPT !.language = language], page)
    /\ Fetched
    /\ UNCHANGED <<stored, uploads, landed, upset>>
GoTo(page) ==
    /\ tab.page # "closed"
    /\ ~(tab.page = "settings" /\ page = "settings")
    /\ tab' = Mounted(tab, page)
    /\ Fetched
    /\ UNCHANGED <<stored, uploads, landed, upset>>

Type(account) ==
    /\ tab.page = "settings"
    /\ tab' = [tab EXCEPT !.account = account]
    /\ UNCHANGED <<stored, uploads, requests, landed, upset>>

\* handleSave of the account form.
Save ==
    /\ tab.page = "settings"
    /\ tab.saving = "no"
    /\ tab' = [tab EXCEPT !.saving = "call", !.saved = FALSE]
    /\ Sent("account", tab.account, English)
    /\ landed' = FALSE
    /\ UNCHANGED <<stored, uploads, upset>>

\* handleLanguageChange: the list offers the languages other than the shown one.
ChooseLanguage(language) ==
    /\ tab.page = "settings"
    /\ language # tab.language
    /\ tab' = WithUser([tab EXCEPT !.language = language],
                       [tab.user EXCEPT !.language = language])
    /\ Sent("privacy", language, English)
    /\ UNCHANGED <<stored, uploads, landed, upset>>

\* handleImageUpload, for any picture.
Uploading == {s \in Underway : requests[s].op \in Pictures /\ requests[s].at = "sent"}
Upload(picture) ==
    /\ tab.page = "settings"
    /\ Cardinality(uploads) + Cardinality(Uploading) <= MaxFiles
    /\ Sent(picture, NoName, English)
    /\ UNCHANGED <<stored, uploads, tab, landed, upset>>
-----------------------------------------------------------------------------
\* The queries of the model, and the handlers of the server: each reads or
\* writes the row in one of them.
updateAccount(account) == [stored EXCEPT !.account = account]
updateUserGeneralInfo(language) == [stored EXCEPT !.language = language]
updateImage(picture, file) == [stored EXCEPT !.pictures[picture] = file]

AtStep(s, op, at) == requests[s].op = op /\ requests[s].at = at

ServeProfile(s) ==
    /\ AtStep(s, "profile", "sent")
    /\ requests' = [requests EXCEPT ![s].at = "done", ![s].seen = stored]
    /\ UNCHANGED <<stored, uploads, tab, landed, upset>>

\* account refuses one that misses a name.
ServeAccount(s) ==
    /\ AtStep(s, "account", "sent")
    /\ requests[s].arg # NoName
    /\ requests' = [requests EXCEPT ![s].at = "done"]
    /\ stored' = updateAccount(requests[s].arg)
    /\ landed' = (landed \/ requests[s].heard)
    /\ UNCHANGED <<uploads, tab, upset>>

ServePrivacy(s) ==
    /\ AtStep(s, "privacy", "sent")
    /\ requests' = [requests EXCEPT ![s].at = "done"]
    /\ stored' = updateUserGeneralInfo(requests[s].arg)
    /\ UNCHANGED <<uploads, tab, landed, upset>>

\* putImage writes the file, and after an await the row.
WriteFile(s) ==
    /\ s \in Uploading
    /\ LET file == Cardinality(uploads)
       IN  /\ uploads' = uploads \cup {file}
           /\ requests' = [requests EXCEPT ![s].at = "written", ![s].file = file]
    /\ UNCHANGED <<stored, tab, landed, upset>>
UpdateImage(s) ==
    /\ requests[s].at = "written"
    /\ requests' = [requests EXCEPT ![s].at = "done"]
    /\ stored' = updateImage(requests[s].op, requests[s].file)
    /\ UNCHANGED <<uploads, tab, landed, upset>>

\* A name that is missing, a type of file that is not allowed, an error that is
\* caught.
Refuse(s) ==
    /\ s \in Underway
    /\ requests[s].at \in {"sent", "written"}
    /\ requests' = [requests EXCEPT ![s].at = "refused"]
    /\ UNCHANGED <<stored, uploads, tab, landed, upset>>

\* The connection breaks off, before the request is handled or after it.
BreakOff(s) ==
    /\ s \in Underway
    /\ requests[s].at \in {"sent", "done", "refused"}
    /\ requests' = [requests EXCEPT ![s].at = "broken", ![s].seen = EmptyUser]
    /\ UNCHANGED <<stored, uploads, tab, landed, upset>>

\* Another browser of the user changes the language.
ChangedElsewhere(language) ==
    /\ stored' = updateUserGeneralInfo(language)
    /\ requests' = [s \in Slots |-> Overlapped(requests[s])]
    /\ upset' = TRUE
    /\ UNCHANGED <<uploads, tab, landed>>
-----------------------------------------------------------------------------
\* The answers.
Answered(s, op) == requests[s].op = op /\ requests[s].at \in {"done", "refused", "broken"}
Taken(s) ==
    /\ requests' = [requests EXCEPT ![s] = NoRequest]
    /\ upset' = IF requests[s].at # "done" \/ ~requests[s].alone THEN TRUE
                ELSE upset /\ requests[s].op # "profile"
    /\ UNCHANGED <<stored, uploads, landed>>

\* The end of fetchProfile.  The language it switches to is the one that the
\* user had in the tab when it began, not the one that has come.
TakeProfile(s) ==
    /\ Answered(s, "profile")
    /\ requests[s].at = "done"
    /\ tab' = WithUser([tab EXCEPT !.language = requests[s].was], requests[s].seen)
    /\ Taken(s)
\* Without an answer that is right the tab goes to the page to sign in.
SentToSignIn(s) ==
    /\ Answered(s, "profile")
    /\ requests[s].at # "done"
    /\ tab' = Mounted(tab, "elsewhere")
    /\ requests' = [r \in Slots |-> IF r = s \/ r \notin Underway THEN NoRequest
                                    ELSE [requests[r] EXCEPT !.heard = @ /\ requests[r].op # "account"]]
    /\ upset' = TRUE
    /\ UNCHANGED <<stored, uploads, landed>>

\* The answer to a save: a success shows only after a pause, and fades later.
Saving(at) == IF at = "done" THEN "pause" ELSE "no"
TakeAccount(s) ==
    /\ Answered(s, "account")
    /\ tab' = IF requests[s].heard THEN [tab EXCEPT !.saving = Saving(requests[s].at)]
              ELSE tab
    /\ Taken(s)
Settle ==
    /\ tab.saving = "pause"
    /\ tab.fading < MaxFading
    /\ tab' = [tab EXCEPT !.saving = "no", !.saved = TRUE, !.fading = @ + 1]
    /\ UNCHANGED <<stored, uploads, requests, landed, upset>>
Fade ==
    /\ tab.fading > 0
    /\ tab' = [tab EXCEPT !.saved = FALSE, !.fading = @ - 1]
    /\ UNCHANGED <<stored, uploads, requests, landed, upset>>

TakePrivacy(s) == Answered(s, "privacy") /\ Taken(s) /\ UNCHANGED tab

\* The path in the answer to an upload; a refusal has none, and is taken alike.
PathOf(request) == IF request.at = "done" THEN request.file ELSE NoPicture
TakePicture(s, picture) ==
    /\ Answered(s, picture)
    /\ tab' = IF requests[s].at = "broken" THEN tab
              ELSE WithUser(tab, [tab.user EXCEPT !.pictures[picture] = PathOf(requests[s])])
    /\ Taken(s)

SettingsNext ==
    \/ \E page \in {"settings", "elsewhere"} :
          GoTo(page) \/ \E language \in Languages : Open(page, language)
    \/ \E account \in Names \cup {NoName} : Type(account)
    \/ \E language \in Languages : ChooseLanguage(language) \/ ChangedElsewhere(language)
    \/ Save \/ Settle \/ Fade
    \/ \E picture \in Pictures : Upload(picture) \/ \E s \in Slots : TakePicture(s, picture)
    \/ \E s \in Slots :
          \/ ServeProfile(s) \/ ServeAccount(s) \/ ServePrivacy(s)
          \/ WriteFile(s) \/ UpdateImage(s) \/ Refuse(s) \/ BreakOff(s)
          \/ TakeProfile(s) \/ SentToSignIn(s) \/ TakeAccount(s) \/ TakePrivacy(s)

SettingsSpec == SettingsInit /\ [][SettingsNext]_settingsVars
-----------------------------------------------------------------------------
\* A path of a picture, stored or shown by the tab, is the path of a file.
PicturesExist ==
    \A picture \in Pictures :
        /\ stored.pictures[picture] \in uploads
        /\ tab.user.pictures[picture] \in uploads \cup {NoPicture}

\* The form says that the account is saved only when its last save is stored,
\* whatever other saves, of forms that were left too, have come to.
SavedIsStored == tab.saved => landed

\* A tab that waits for nothing shows the pictures and the language that are
\* stored, unless one of its requests has overlapped with another or failed,
\* or another browser has changed them, since its profile was fetched.
QuietPageIsStored ==
    (~upset /\ Underway = {}) =>
        /\ tab.user.pictures = stored.pictures
        /\ tab.user.language = stored.language
        /\ tab.page = "settings" => tab.language = stored.language

\* What the settings page shows has been stored, and can be shown
\* (settingsController.js, the settings page and the user provider).
SettingsAreStored ==
    SettingsTypeOK /\ PicturesExist /\ SavedIsStored /\ QuietPageIsStored
=============================================================================

----------------------------- MODULE MCAccounts -----------------------------
(* Two browsers of one person.  The account, what the settings page changes,
   the search in the header and the messages of the pages share nothing that
   they change: each is explored with the others at rest, so that their
   states add up. *)
EXTENDS AuthPages, Settings, SearchBox, Toasts, TLC

CONSTANTS laptop, phone, ada

OneAddress == [b \in {laptop, phone} |-> ada]
BrowserSymmetry == Permutations({laptop, phone})
FitsOfNames == [word \in Words |-> IF word = "an" THEN {"ann", "dan"} ELSE {"ann"}]

VARIABLE scene
MCVars == <<scene, vars, settingsVars, searchVars, toastVars>>
MCInit ==
    /\ scene \in {"account", "settings", "search", "toasts"}
    /\ Init /\ SettingsInit /\ SearchInit /\ ToastsInit
    /\ scene # "account" => lastId = 0
    /\ scene # "settings" => stored.language = English
    /\ scene # "search" => registered = {}
MCNext ==
    /\ UNCHANGED scene
    /\ \/ scene = "account" /\ Next /\ UNCHANGED <<settingsVars, searchVars, toastVars>>
       \/ scene = "settings" /\ SettingsNext /\ UNCHANGED <<vars, searchVars, toastVars>>
       \/ scene = "search" /\ SearchNext /\ UNCHANGED <<vars, settingsVars, toastVars>>
       \/ scene = "toasts" /\ ToastsNext /\ UNCHANGED <<vars, settingsVars, searchVars>>

MCSpec == MCInit /\ [][MCNext]_MCVars
=============================================================================

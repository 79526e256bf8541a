----------------------------- MODULE SearchBox ------------------------------
(***************************************************************************)
(* The search for users in the header of every page: what is typed is sent *)
(* after a pause in the typing, and each answer that comes is shown.       *)
(* Answers may come in another order than the words were sent in, and the  *)
(* box may have been closed, emptied or filled again before they do.       *)
(***************************************************************************)
EXTENDS Naturals, FiniteSets

CONSTANTS Words,       \* what is typed and not blank
          Blank,       \* an empty box, or spaces
          Unsaid,      \* no text waits for the pause
          Others,      \* the other users
          Fits,        \* the users that a word is part of a name of
          MaxSearches  \* bound: the words sent

ASSUME SearchAssumption ==
    /\ Blank \notin Words
    /\ Unsaid \notin Words \cup {Blank}
    /\ Fits \in [Words -> SUBSET Others]
    /\ MaxSearches \in Nat

VARIABLES box,         \* the box in the header and the overlay with the results
          sent,        \* the number of words sent
          searches,    \* the requests under way
          registered,  \* the other users in the table
          answer       \* history: the answer that was taken last
searchVars == <<box, sent, searches, registered, answer>>

Texts == Words \cup {Blank}
Searches == [id : 1 .. MaxSearches, word : Words, at : {"sent", "found", "failed"},
             found : SUBSET Others]
SearchTypeOK ==
    /\ box \in [input : Texts, open : BOOLEAN, searching : BOOLEAN,
                results : SUBSET Others, typed : Texts \cup {Unsaid}]
    /\ sent \in 0 .. MaxSearches
    /\ searches \subseteq Searches
    /\ registered \subseteq Others
    /\ answer \in [id : 0 .. MaxSearches, word : Texts, found : SUBSET Others]

SearchInit ==
    /\ box = [input |-> Blank, open |-> FALSE, searching |-> FALSE, results |-> {},
              typed |-> Unsaid]
    /\ sent = 0
    /\ searches = {}
    /\ registered \in SUBSET Others
    /\ answer = [id |-> 0, word |-> Blank, found |-> {}]
-----------------------------------------------------------------------------
\* setSearchInput, with the effect of a text that is another than before.
WithInput(b, text) ==
    IF text = b.input THEN b
    ELSE [b EXCEPT !.input = text, !.open = text # Blank,
                   !.results = IF text = Blank THEN {} ELSE @]

Focus ==
    /\ box' = [box EXCEPT !.open = TRUE]
    /\ UNCHANGED <<sent, searches, registered, answer>>
TypeTextOnce(text) ==
    /\ box' = [WithInput(box, text) EXCEPT !.typed = IF @ = Unsaid THEN text ELSE @]
    /\ UNCHANGED <<sent, searches, registered, answer>>
TypeText(text) ==
    /\ box' = [WithInput(box, text) EXCEPT !.typed = text]
    /\ UNCHANGED <<sent, searches, registered, answer>>
CloseOverlay ==
    /\ box.open
    /\ box' = [WithInput(box, Blank) EXCEPT !.open = FALSE]
    /\ UNCHANGED <<sent, searches, registered, answer>>
ClearBox ==
    /\ box.input # Blank
    /\ box' = [WithInput(box, Blank) EXCEPT !.open = FALSE, !.results = {}]
    /\ UNCHANGED <<sent, searches, registered, answer>>
\* A result is opened, which leads to another path.
Pick(user) ==
    /\ box.open
    /\ user \in box.results
    /\ box' = [WithInput(box, Blank) EXCEPT !.open = FALSE]
    /\ UNCHANGED <<sent, searches, registered, answer>>
Navigate ==
    /\ box' = WithInput(box, Blank)
    /\ UNCHANGED <<sent, searches, registered, answer>>

\* The pause is over: handleSearch.
HandleSearch ==
    /\ box.typed \in Words
    /\ sent < MaxSearches
    /\ sent' = sent + 1
    /\ searches' = searches \cup {[id |-> sent + 1, word |-> box.typed, at |-> "sent",
                                   found |-> {}]}
    /\ box' = [box EXCEPT !.typed = Unsaid, !.searching = TRUE]
    /\ UNCHANGED <<registered, answer>>
HandleBlank ==
    /\ box.typed = Blank
    /\ box' = [box EXCEPT !.typed = Unsaid, !.results = {}]
    /\ UNCHANGED <<sent, searches, registered, answer>>

\* Nobody found is answered with 404, and read as an error is.
searchForUser(word) == Fits[word] \cap registered
ServeSearch(s) ==
    /\ s.at = "sent"
    /\ searches' = (searches \ {s}) \cup
                      {[s EXCEPT !.at = "found", !.found = searchForUser(s.word)]}
    /\ UNCHANGED <<box, sent, registered, answer>>
FailSearch(s) ==
    /\ s.at # "failed"
    /\ searches' = (searches \ {s}) \cup {[s EXCEPT !.at = "failed", !.found = {}]}
    /\ UNCHANGED <<box, sent, registered, answer>>
TakeSearch(s) ==
    /\ s.at # "sent"
    /\ searches' = searches \ {s}
    /\ box' = [box EXCEPT !.searching = FALSE, !.results = s.found]
    /\ answer' = [id |-> s.id, word |-> s.word, found |-> s.found]
    /\ UNCHANGED <<sent, registered>>

\* Accounts come and go.
RegisterOrDelete(user) ==
    /\ registered' = IF user \in registered THEN registered \ {user}
                     ELSE registered \cup {user}
    /\ UNCHANGED <<box, sent, searches, answer>>

SearchNext ==
    \/ Focus \/ CloseOverlay \/ ClearBox \/ Navigate \/ HandleSearch \/ HandleBlank
    \/ \E text \in Texts : TypeText(text)
    \/ \E user \in Others : Pick(user) \/ RegisterOrDelete(user)
    \/ \E s \in searches : ServeSearch(s) \/ FailSearch(s) \/ TakeSearch(s)

SearchSpec == SearchInit /\ [][SearchNext]_searchVars
-----------------------------------------------------------------------------
\* The overlay turns only while an answer is to come.  When nothing is to come
\* and the answer to the last word came last, it shows what was found for the
\* text in the box, and not what was found for a text that has been cleared or
\* typed over (header-side-bar.tsx, settingsController.js).
Quiet == searches = {} /\ box.typed = Unsaid
ResultsFitText ==
    /\ SearchTypeOK
    /\ box.searching => searches # {}
    /\ (Quiet /\ box.input \in Words /\ answer.id = sent) =>
           box.open /\ answer.word = box.input /\ box.results = answer.found
=============================================================================

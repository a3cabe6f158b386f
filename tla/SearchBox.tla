------------------------------ MODULE SearchBox ------------------------------
(***************************************************************************)
(* The search box of the top bar: what is typed is looked up 300 ms after  *)
(* the last change, and what is found is listed under the box until a      *)
(* click elsewhere closes it.                                              *)
(*                                                                         *)
(* Hits gives the kinds of things the server finds for a text; a result is *)
(* known by its text and kind, and the page a click on it leads to is left *)
(* out.  The server only reads, so a request is answered or fails in one   *)
(* step.  A click on a result clears the box but not the timer, and no     *)
(* answer is compared with what the box holds by then.  MaxSearchSteps     *)
(* bounds what the user does.                                              *)
(***************************************************************************)
EXTENDS Naturals

CONSTANTS Texts, NoText, Hits, MaxSearchSteps

ASSUME SearchBoxAssumption ==
    NoText \notin Texts /\ Hits \in [Texts -> SUBSET {"agent", "knowledge_base", "conversation"}]
    /\ MaxSearchSteps \in Nat

VARIABLES
    searchValue,    \* the text in the box
    searchResults,  \* the text whose results are kept, or NoText
    searchLoading,  \* the spinner
    searchOpen,     \* are the results listed
    debounced,      \* the call that waits for its 300 ms: <<>> or <<text>>
    searchAsked,    \* the requests in flight
    searchSteps,    \* what the user has done so far
    searchCrossed   \* history: an answer came for another text than the box's, or none

searchShown == <<searchValue, searchResults, searchLoading, searchOpen>>
searchVars == <<searchShown, debounced, searchAsked, searchSteps, searchCrossed>>

SearchStep == searchSteps < MaxSearchSteps /\ searchSteps' = searchSteps + 1

HandleSearchChange(v) ==
    /\ SearchStep
    /\ v # searchValue
    /\ searchValue' = v
    /\ debounced' = <<v>>
    /\ UNCHANGED <<searchResults, searchLoading, searchOpen, searchAsked, searchCrossed>>

SearchHits == IF searchOpen /\ searchResults # NoText THEN Hits[searchResults] ELSE {}

HandleSearchResultClick ==
    /\ SearchStep
    /\ SearchHits # {}
    /\ searchOpen' = FALSE
    /\ searchValue' = NoText
    /\ searchResults' = NoText
    /\ UNCHANGED <<searchLoading, debounced, searchAsked, searchCrossed>>

HandleClickOutside ==
    /\ SearchStep
    /\ searchOpen
    /\ searchOpen' = FALSE
    /\ UNCHANGED <<searchValue, searchResults, searchLoading, debounced, searchAsked,
                   searchCrossed>>

FocusSearch ==
    /\ SearchStep
    /\ searchResults # NoText /\ ~searchOpen
    /\ searchOpen' = TRUE
    /\ UNCHANGED <<searchValue, searchResults, searchLoading, debounced, searchAsked,
                   searchCrossed>>

ClearResults == searchResults' = NoText /\ searchOpen' = FALSE

DebouncedSearch ==
    /\ debounced # <<>>
    /\ debounced' = <<>>
    /\ IF debounced[1] = NoText
       THEN ClearResults /\ UNCHANGED <<searchLoading, searchAsked>>
       ELSE /\ searchLoading' = TRUE
            /\ searchAsked' = searchAsked \cup {[n |-> searchSteps, q |-> debounced[1]]}
            /\ UNCHANGED <<searchResults, searchOpen>>
    /\ UNCHANGED <<searchValue, searchSteps, searchCrossed>>

SearchAnswered(r) ==
    /\ searchAsked' = searchAsked \ {r}
    /\ searchLoading' = FALSE
    /\ UNCHANGED <<searchValue, debounced, searchSteps>>

FinishSearchBox(r) ==
    /\ SearchAnswered(r)
    /\ searchResults' = r.q
    /\ searchOpen' = (Hits[r.q] # {})
    /\ searchCrossed' = (searchCrossed \/ r.q # searchValue)

FailSearchBox(r) ==
    /\ SearchAnswered(r)
    /\ ClearResults
    /\ searchCrossed' = TRUE
-----------------------------------------------------------------------------
SearchBoxInit ==
    /\ searchValue = NoText /\ searchResults = NoText
    /\ searchLoading = FALSE /\ searchOpen = FALSE
    /\ debounced = <<>> /\ searchAsked = {}
    /\ searchSteps = 0
    /\ searchCrossed = FALSE

SearchBoxNext ==
    \/ \E v \in Texts \cup {NoText} : HandleSearchChange(v)
    \/ HandleSearchResultClick \/ HandleClickOutside \/ FocusSearch
    \/ DebouncedSearch
    \/ \E r \in searchAsked : FinishSearchBox(r) \/ FailSearchBox(r)

SearchBoxSpec == SearchBoxInit /\ [][SearchBoxNext]_searchVars
-----------------------------------------------------------------------------
(* When nothing is awaited any more the results are those of the text in   *)
(* the box, and none under an empty box, unless an answer was lost or came *)
(* when the box held another text.                                         *)
ResultsBelongToText ==
    debounced = <<>> /\ searchAsked = {} /\ ~searchCrossed => searchResults = searchValue
=============================================================================

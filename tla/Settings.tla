------------------------------- MODULE Settings -------------------------------
(***************************************************************************)
(* The settings of one worker: a file an operator edits while the worker   *)
(* runs, the copy the worker keeps of it, and the watcher that discards    *)
(* the copy.  Every settings() call returns the copy, or loads the file if *)
(* there is none; a file that cannot be read yields the defaults.          *)
(*                                                                         *)
(* The watch is on the file itself, not on its name: an editor that writes *)
(* a new file and renames it over the old one leaves the watch with a file *)
(* that has no name any more.  The watch reports its loss, once.           *)
(***************************************************************************)
EXTENDS Naturals

CONSTANTS
    Versions, \* what a complete settings file may say, merged with the defaults
    First,    \* what the file says when the worker starts
    Default,  \* resources/default-settings.yaml alone
    Partial,  \* what the first lines of a file may say, merged with the defaults
    None,     \* no copy
    MaxEdits  \* bound on the edits of the file

ASSUME SettingsAssumption ==
    /\ Default \notin Versions
    /\ None \notin Versions \cup Partial \cup {Default}
    /\ First \in Versions
    /\ MaxEdits \in Nat

VARIABLES
    file,    \* the version the file holds, or is being overwritten with
    torn,    \* TRUE while the file is being overwritten
    watched, \* TRUE if the watch is on the file that bears the name
    changed, \* TRUE if fs.watch has an event the worker has not seen
    cached,  \* SettingsStatic._settings
    edits,   \* the number of edits begun
    missed   \* history: the last edit began when the watch was lost

settingsVars == <<file, torn, watched, changed, cached, edits, missed>>

SettingsTypeOK ==
    /\ file \in Versions
    /\ torn \in BOOLEAN
    /\ watched \in BOOLEAN
    /\ changed \in BOOLEAN
    /\ cached \in Versions \cup Partial \cup {Default, None}
    /\ edits \in 0..MaxEdits
    /\ missed \in BOOLEAN

SettingsInit ==
    /\ file = First
    /\ torn = FALSE
    /\ watched = TRUE
    /\ changed = FALSE
    /\ cached = file
    /\ edits = 0
    /\ missed = FALSE

(* Mutant: an error while loading leaves the caller without settings.      *)
LoadsOrNothing ==
    IF torn THEN {[returned |-> None, kept |-> None]}
    ELSE {[returned |-> file, kept |-> file]}

(* What loading the file now returns, and what it leaves in _settings: a   *)
(* torn file may not parse, and then the defaults are returned and not     *)
(* kept; or what there is of it does, nothing at all included, and the     *)
(* settings are the defaults but for its first lines.                      *)
Loads ==
    IF torn
    THEN {[returned |-> Default, kept |-> None]}
             \cup {[returned |-> v, kept |-> v] : v \in Partial \cup {Default}}
    ELSE {[returned |-> file, kept |-> file]}

(* createSettings() *)
Reads ==
    IF cached # None THEN {[returned |-> cached, kept |-> cached]} ELSE Loads

(* One settings() call. *)
Consulted == \E r \in Reads : cached' = r.kept

InForce == {r.returned : r \in Reads}

(* Two calls in one run of the event loop: if the first kept nothing, the  *)
(* operator's editor may finish before the second.                         *)
ReadPairs ==
    {p \in Reads \X (Reads \cup {[returned |-> file, kept |-> file]}) :
        p[1].kept # None => p[2] = p[1]}

-----------------------------------------------------------------------------
(* Mutant: a watcher that follows the first event of an edit only. *)
NoticedOnce == changed

Noticed == changed \/ watched

(* writeFileSync and some editors truncate the file before they write it.  *)
(* An edit has something new to say.                                       *)
BeginEdit(v) ==
    /\ ~torn /\ v # file
    /\ edits < MaxEdits
    /\ edits' = edits + 1
    /\ torn' = TRUE
    /\ file' = v
    /\ changed' = (changed \/ watched)
    /\ missed' = ~watched
    /\ UNCHANGED <<watched, cached>>

EndEdit ==
    /\ torn
    /\ torn' = FALSE
    /\ changed' = Noticed
    /\ UNCHANGED <<file, watched, cached, edits, missed>>

(* Other editors, and sed -i, rename a finished file over the old one. *)
ReplaceFile(v) ==
    /\ ~torn /\ v # file
    /\ edits < MaxEdits
    /\ edits' = edits + 1
    /\ file' = v
    /\ changed' = (changed \/ watched)
    /\ watched' = FALSE
    /\ missed' = ~watched
    /\ UNCHANGED <<torn, cached>>

(* The watcher's reload(): the copy is dropped and made again at once. *)
Reload ==
    /\ changed
    /\ changed' = FALSE
    /\ \E r \in Loads : cached' = r.kept
    /\ UNCHANGED <<file, torn, watched, edits, missed>>

(* A settings() call of any other part of the worker. *)
LoadElsewhere ==
    /\ cached = None
    /\ \E r \in Loads : cached' = r.kept
    /\ UNCHANGED <<file, torn, watched, changed, edits, missed>>

SettingsNext ==
    \/ \E v \in Versions : BeginEdit(v) \/ ReplaceFile(v)
    \/ EndEdit
    \/ Reload
    \/ LoadElsewhere

(* The watch's events arrive; nobody has to edit, or to finish an edit.    *)
SettingsSpec == SettingsInit /\ [][SettingsNext]_settingsVars /\ WF_settingsVars(Reload)

-----------------------------------------------------------------------------
(* Once the operator has left a version in the file, the worker goes over  *)
(* to it for good, although a reload may have found the file torn and      *)
(* settled for the defaults.                                               *)
SettingsSettle ==
    \A v \in Versions : <>[](~torn /\ file = v) => <>[](cached = v)

(* The worker does so if the watch is on the file when the last edit       *)
(* begins, be that edit the one that loses the watch.                      *)
SettingsSettleIfWatched ==
    \A v \in Versions : <>[](~torn /\ file = v /\ ~missed) => <>[](cached = v)
=============================================================================

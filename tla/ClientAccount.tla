--------------------------- MODULE ClientAccount ---------------------------
(***************************************************************************)
(* The pages of one's own account in a browser two users take turns at:    *)
(* signing out and leaving the service (MyPage), editing the profile and   *)
(* the region (ProfileEditPage, RegionEditPage, AccountEditPage), the      *)
(* consent to face analysis (ConsentManagePage) and the flag that a        *)
(* session takes from it (analysisConsent).                                *)
(***************************************************************************)
EXTENDS Naturals

CONSTANTS MaxEdits    \* bound on the changes asked for

ASSUME AccountAssumption == MaxEdits \in Nat

VARIABLES
  people,    \* the server: [user -> [gone, agreed, profile]]
  edits,     \* how many changes were asked for, here and on another device
  who,       \* the user who is signed in here
  place,     \* the page
  portrait,  \* [kept, asked, shown]: whose animal the module keeps, the header waits for and shows
  leaving,   \* MyPage: [open, typed, failed, pending]
  form,      \* [phase, initial, now]: what an edit page, the hub or MyPage has loaded
  saving,    \* the request of handleSubmit(): [of, sent], the fields it sends
  agreement, \* ConsentManagePage: [phase, shown, confirming, busy]
  entry,     \* entering a session: [phase, read]
  snapshot   \* sessionStorage: [flag, agreed], the flag and what the consents said of it

accountVars == <<people, edits, who, place, portrait, leaving, form, saving, agreement, entry,
                 snapshot>>
pages == <<form, saving, agreement, entry, snapshot>>

Users == {"A", "B"}
Nobody == "NOBODY"
Fields == {"nickname", "gender", "region"}
FieldsOf(p) == IF p = "REGION" THEN {"region"} ELSE {"nickname", "gender"}
Profiles == [Fields -> 0..1]
Edits == {"PROFILE", "REGION"}
Places == {"LOGIN", "HOME", "MY", "HUB", "CONSENTS"} \cup Edits

Plain == [f \in Fields |-> 0]
NoForm == [phase |-> "NONE", initial |-> Plain, now |-> Plain]
LoadingForm == [NoForm EXCEPT !.phase = "LOADING"]
NoAgreement == [phase |-> "NONE", shown |-> FALSE, confirming |-> FALSE, busy |-> "NO"]
ClosedDialog == [open |-> FALSE, typed |-> FALSE, failed |-> FALSE, pending |-> "NO"]
Unsent == 2
NotSaving == [of |-> "NONE", sent |-> [f \in Fields |-> Unsent]]
NoPortrait == [kept |-> Nobody, asked |-> Nobody, shown |-> Nobody]

AccountTypeOK ==
  /\ people \in [Users -> [gone : BOOLEAN, agreed : BOOLEAN, profile : Profiles]]
  /\ edits \in 0..MaxEdits
  /\ who \in Users \cup {Nobody} /\ place \in Places /\ (who = Nobody <=> place = "LOGIN")
  /\ portrait \in [kept : Users \cup {Nobody}, asked : Users \cup {Nobody},
                   shown : Users \cup {Nobody}]
  /\ leaving \in [open : BOOLEAN, typed : BOOLEAN, failed : BOOLEAN,
                  pending : {"NO", "SIGN_OUT", "WITHDRAW"}]
  /\ form.phase \in {"NONE", "LOADING", "READY", "FAILED", "SAVING"}
  /\ form.phase # "NONE" <=> place \in Edits \cup {"MY", "HUB"}
  /\ {form.initial, form.now} \subseteq Profiles
  /\ saving.of \in {"NONE"} \cup Edits /\ saving.sent \in [Fields -> 0..Unsent]
  /\ form.phase = "SAVING" => saving.of # "NONE"
  /\ agreement.phase \in {"NONE", "LOADING", "READY", "FAILED"}
  /\ agreement.busy \in {"NO", "GRANT", "WITHDRAW"}
  /\ entry.phase \in {"OUT", "READING", "WRITING"} /\ entry.read \in BOOLEAN
  /\ snapshot \in [flag : BOOLEAN, agreed : BOOLEAN]

AccountIdle ==
  /\ people = [u \in Users |-> [gone |-> FALSE, agreed |-> FALSE, profile |-> Plain]]
  /\ edits = 0 /\ who = Nobody /\ place = "LOGIN" /\ portrait = NoPortrait
  /\ leaving = ClosedDialog /\ form = NoForm /\ saving = NotSaving /\ agreement = NoAgreement
  /\ entry = [phase |-> "OUT", read |-> FALSE] /\ snapshot = [flag |-> FALSE, agreed |-> FALSE]
AccountInit == AccountIdle

\* The page that opens loads what it shows; the one that closes forgets it.
Goes(p) ==
  /\ place' = p
  /\ form' = IF p \in Edits \cup {"MY", "HUB"} THEN LoadingForm ELSE NoForm
  /\ agreement' = IF p = "CONSENTS" THEN [NoAgreement EXCEPT !.phase = "LOADING"]
                                    ELSE NoAgreement

----------------------------------------------------------------------------
(* The header, which shows the animal that one request for all asks for. *)

AsksForAnimal(u) ==
  LET kept == IF portrait.kept = Nobody THEN u ELSE portrait.kept
  IN portrait' = [kept |-> kept, asked |-> kept, shown |-> Nobody]

AnimalArrives ==
  /\ portrait.asked # Nobody
  /\ portrait' = [portrait EXCEPT !.asked = Nobody, !.shown = portrait.asked]
  /\ UNCHANGED <<people, edits, who, place, leaving, pages>>

----------------------------------------------------------------------------
(* Signing in and out, and leaving the service. *)

EnterAccount(u) ==
  /\ place = "LOGIN" /\ ~people[u].gone /\ leaving.pending = "NO" /\ saving = NotSaving
  /\ who' = u /\ Goes("HOME") /\ AsksForAnimal(u)
  /\ UNCHANGED <<people, edits, leaving, saving, entry, snapshot>>

\* To the login page with nothing kept: resetMyFaceAnalysis(), then navigate().
SignedOut ==
  /\ who' = Nobody /\ Goes("LOGIN") /\ portrait' = NoPortrait
  /\ leaving' = ClosedDialog
  /\ entry' = [entry EXCEPT !.phase = "OUT"]

OnSignOut ==
  /\ place = "MY" /\ leaving.pending = "NO" /\ ~leaving.open
  /\ leaving' = [leaving EXCEPT !.pending = "SIGN_OUT"]
  /\ UNCHANGED <<people, edits, who, place, portrait, pages>>

\* signOut() clears the session whether the server was told or not.
SignOutAnswers ==
  /\ leaving.pending = "SIGN_OUT"
  /\ SignedOut
  /\ UNCHANGED <<people, edits, saving, snapshot>>

OpenWithdraw ==
  /\ place = "MY" /\ leaving.pending # "SIGN_OUT" /\ ~leaving.open
  /\ leaving' = [leaving EXCEPT !.open = TRUE]
  /\ UNCHANGED <<people, edits, who, place, portrait, pages>>

\* Escape closes the dialog even while the request is on its way.
CloseWithdraw ==
  /\ leaving.open
  /\ leaving' = [ClosedDialog EXCEPT !.pending = leaving.pending]
  /\ UNCHANGED <<people, edits, who, place, portrait, pages>>

TypePassword ==
  /\ leaving.open /\ ~leaving.typed /\ leaving.pending = "NO"
  /\ leaving' = [leaving EXCEPT !.typed = TRUE]
  /\ UNCHANGED <<people, edits, who, place, portrait, pages>>

OnWithdraw ==
  /\ leaving.open /\ leaving.pending = "NO"
  /\ leaving' = IF leaving.typed THEN [leaving EXCEPT !.failed = FALSE, !.pending = "WITHDRAW"]
                                 ELSE [leaving EXCEPT !.failed = TRUE]
  /\ UNCHANGED <<people, edits, who, place, portrait, pages>>

\* Mutant of WithdrawAnswers: the animal is kept for the next user.
WithdrawAnswersKeeping(served, heard) ==
  /\ leaving.pending = "WITHDRAW"
  /\ people' = IF served THEN [people EXCEPT ![who].gone = TRUE] ELSE people
  /\ IF served /\ heard
     THEN /\ who' = Nobody /\ Goes("LOGIN") /\ leaving' = ClosedDialog
          /\ portrait' = [NoPortrait EXCEPT !.kept = portrait.kept]
          /\ entry' = [entry EXCEPT !.phase = "OUT"]
     ELSE /\ leaving' = [leaving EXCEPT !.pending = "NO", !.failed = TRUE]
          /\ UNCHANGED <<who, place, portrait, form, agreement, entry>>
  /\ UNCHANGED <<edits, saving, snapshot>>

\* The local session ends only when the server has confirmed.
WithdrawAnswers(served, heard) ==
  /\ leaving.pending = "WITHDRAW"
  /\ people' = IF served THEN [people EXCEPT ![who].gone = TRUE] ELSE people
  /\ IF served /\ heard
     THEN SignedOut
     ELSE /\ leaving' = [leaving EXCEPT !.pending = "NO", !.failed = TRUE]
          /\ UNCHANGED <<who, place, portrait, form, agreement, entry>>
  /\ UNCHANGED <<edits, saving, snapshot>>

\* The refresh token is refused: the login page is loaded, and all modules with it.
SessionLost ==
  /\ who # Nobody /\ leaving.pending = "NO" /\ saving = NotSaving
  /\ SignedOut
  /\ UNCHANGED <<people, edits, saving, snapshot>>

\* (Whoever has asked to leave waits for the answer on the page.)
Browse(p) ==
  /\ who # Nobody /\ leaving.pending = "NO" /\ ~leaving.open /\ entry.phase = "OUT"
  /\ agreement.busy = "NO" /\ p \in Places \ {"LOGIN", place}
  /\ Goes(p) /\ leaving' = ClosedDialog
  /\ UNCHANGED <<people, edits, who, portrait, saving, entry, snapshot>>

----------------------------------------------------------------------------
(* Editing the profile. *)

FormLoads(ok) ==
  /\ form.phase = "LOADING" /\ place \in Edits
  /\ form' = IF ok THEN [phase |-> "READY", initial |-> people[who].profile,
                         now |-> people[who].profile]
                   ELSE [form EXCEPT !.phase = "FAILED"]
  /\ UNCHANGED <<people, edits, who, place, portrait, leaving, saving, agreement, entry,
                 snapshot>>

Loaded(ok) == [form EXCEPT !.phase = IF ok THEN "READY" ELSE "FAILED",
                           !.initial = IF ok THEN people[who].profile ELSE @]

\* loadSummary(): the survey and the public profile may be missing.
SummaryLoads(profile, rest) ==
  /\ form.phase = "LOADING" /\ place = "MY" /\ (rest => profile)
  /\ form' = Loaded(profile)
  /\ UNCHANGED <<people, edits, who, place, portrait, leaving, saving, agreement, entry, snapshot>>

\* The hub reads three things at once and shows none when one fails.
HubLoads(ok) ==
  /\ form.phase = "LOADING" /\ place = "HUB"
  /\ form' = Loaded(ok)
  /\ UNCHANGED <<people, edits, who, place, portrait, leaving, saving, agreement, entry, snapshot>>

FormReload ==
  /\ form.phase = "FAILED"
  /\ form' = LoadingForm
  /\ UNCHANGED <<people, edits, who, place, portrait, leaving, saving, agreement, entry,
                 snapshot>>

Edit(f) ==
  /\ form.phase = "READY" /\ place \in Edits /\ f \in FieldsOf(place)
  /\ form' = [form EXCEPT !.now[f] = 1 - @]
  /\ UNCHANGED <<people, edits, who, place, portrait, leaving, saving, agreement, entry,
                 snapshot>>

\* Mutant of Changed: everything in the form is sent.
ChangedOrNot(p) == IF form.now = form.initial THEN {} ELSE FieldsOf(p)
\* Only what was changed is sent; the server writes what it is sent.
Changed(p) == {f \in FieldsOf(p) : form.now[f] # form.initial[f]}

HandleSubmit ==
  /\ edits < MaxEdits /\ edits' = edits + 1
  /\ form.phase = "READY" /\ place \in Edits /\ Changed(place) # {} /\ saving = NotSaving
  /\ saving' = [of |-> place, sent |-> [f \in Fields |-> IF f \in Changed(place) THEN form.now[f]
                                                                               ELSE Unsent]]
  /\ form' = [form EXCEPT !.phase = "SAVING"]
  /\ UNCHANGED <<people, who, place, portrait, leaving, agreement, entry, snapshot>>

\* updateProfile(): a saved form goes to the hub, wherever the user went meanwhile.
SaveAnswers(served, heard) ==
  /\ saving # NotSaving /\ who # Nobody
  /\ saving' = NotSaving
  /\ people' = IF served
               THEN [people EXCEPT ![who].profile =
                      [f \in Fields |-> IF saving.sent[f] = Unsent THEN @[f] ELSE saving.sent[f]]]
               ELSE people
  /\ IF served /\ heard
     THEN Goes("HUB") /\ leaving' = ClosedDialog
     ELSE /\ form' = IF form.phase = "SAVING" THEN [form EXCEPT !.phase = "READY"] ELSE form
          /\ UNCHANGED <<place, agreement, leaving>>
  /\ UNCHANGED <<edits, who, portrait, entry, snapshot>>
----------------------------------------------------------------------------
(* The consent to face analysis. *)

ConsentsLoad(ok) ==
  /\ agreement.phase = "LOADING"
  /\ agreement' = IF ok THEN [agreement EXCEPT !.phase = "READY", !.shown = people[who].agreed]
                        ELSE [agreement EXCEPT !.phase = "FAILED"]
  /\ UNCHANGED <<people, edits, who, place, portrait, leaving, form, saving, entry, snapshot>>

\* Switched on at once, switched off after a question.
ToggleConsent ==
  /\ edits < MaxEdits /\ edits' = edits + 1
  /\ agreement.phase = "READY" /\ agreement.busy = "NO" /\ ~agreement.confirming
  /\ agreement' = IF agreement.shown THEN [agreement EXCEPT !.confirming = TRUE]
                                     ELSE [agreement EXCEPT !.busy = "GRANT"]
  /\ UNCHANGED <<people, who, place, portrait, leaving, form, saving, entry, snapshot>>

ConfirmWithdraw(yes) ==
  /\ agreement.confirming
  /\ agreement' = [agreement EXCEPT !.confirming = FALSE, !.busy = IF yes THEN "WITHDRAW" ELSE @]
  /\ UNCHANGED <<people, edits, who, place, portrait, leaving, form, saving, entry, snapshot>>

\* The page shows what the server answers, never what was asked for.
ConsentAnswers(served, heard) ==
  LET agreed == IF served THEN agreement.busy = "GRANT" ELSE people[who].agreed
  IN /\ agreement.busy # "NO"
     /\ people' = [people EXCEPT ![who].agreed = agreed]
     /\ agreement' = [agreement EXCEPT !.busy = "NO", !.shown = IF served /\ heard THEN agreed ELSE @]
     /\ UNCHANGED <<edits, who, place, portrait, leaving, form, saving, entry, snapshot>>

----------------------------------------------------------------------------
(* Entering a session: snapshotAnalysisSettings(). *)

EnterSession ==
  /\ place = "HOME" /\ entry.phase = "OUT"
  /\ entry' = [entry EXCEPT !.phase = "READING"]
  /\ UNCHANGED <<people, edits, who, place, portrait, leaving, form, saving, agreement, snapshot>>

\* Mutant of HasFaceConsent: who cannot be asked has agreed.
HasFaceConsentOrFails(ok) == ~ok \/ people[who].agreed
\* hasFaceConsent(): who cannot be asked has not agreed.
HasFaceConsent(ok) == ok /\ people[who].agreed

ConsentIsRead(ok) ==
  /\ entry.phase = "READING"
  /\ entry' = [phase |-> "WRITING", read |-> HasFaceConsent(ok)]
  /\ snapshot' = [snapshot EXCEPT !.agreed = @ \/ (ok /\ people[who].agreed)]
  /\ UNCHANGED <<people, edits, who, place, portrait, leaving, form, saving, agreement>>

\* updateAnalysisSettings(): a session that has begun refuses, and a flag of before stays.
SettingsAnswer(ok) ==
  /\ entry.phase = "WRITING"
  /\ entry' = [phase |-> "OUT", read |-> FALSE]
  /\ snapshot' = IF ok THEN [snapshot EXCEPT !.flag = entry.read] ELSE snapshot
  /\ UNCHANGED <<people, edits, who, place, portrait, leaving, form, saving, agreement>>

----------------------------------------------------------------------------

\* The same account on another device.
ChangedElsewhere ==
  /\ who # Nobody /\ edits < MaxEdits
  /\ edits' = edits + 1
  /\ \/ people' = [people EXCEPT ![who].agreed = ~@]
     \/ \E f \in Fields : people' = [people EXCEPT ![who].profile[f] = 1 - @]
  /\ UNCHANGED <<who, place, portrait, leaving, pages>>

AccountNext ==
  \/ \E u \in Users : EnterAccount(u)
  \/ AnimalArrives \/ OnSignOut \/ SignOutAnswers \/ SessionLost
  \/ OpenWithdraw \/ CloseWithdraw \/ TypePassword \/ OnWithdraw
  \/ \E p \in Places : Browse(p)
  \/ FormReload \/ HandleSubmit \/ ToggleConsent \/ EnterSession \/ ChangedElsewhere
  \/ \E f \in Fields : Edit(f)
  \/ \E ok \in BOOLEAN : \/ FormLoads(ok) \/ HubLoads(ok) \/ ConsentsLoad(ok) \/ ConfirmWithdraw(ok)
                         \/ ConsentIsRead(ok) \/ SettingsAnswer(ok)
  \/ \E served, heard \in BOOLEAN : \/ WithdrawAnswers(served, heard)
                                   \/ SummaryLoads(served, heard)
                                   \/ SaveAnswers(served, heard)
                                   \/ ConsentAnswers(served, heard)

----------------------------------------------------------------------------
(* Properties. *)

\* No user is shown the animal of another one who used the browser before, however
\* the first one left: the cache outlives the pages (useMyFaceAnalysis).
NoForeignAnimal == {portrait.kept, portrait.asked, portrait.shown} \subseteq {who, Nobody}

\* A session analyses faces only when the consents were read and said yes: not when
\* they could not be read, nor after any order of failing requests (analysisConsent).
AnalysedByAgreement == snapshot.flag => snapshot.agreed

\* Saving a form leaves alone what the user did not change in it, and with it what
\* another device has changed since the form was loaded (updateProfile).
SavesOnlyChanges ==
  [][\A f \in Fields :
       saving # NotSaving /\ saving' = NotSaving
         /\ form.phase = "SAVING" /\ form.now[f] = form.initial[f]
       => people'[who].profile[f] = people[who].profile[f]]_accountVars
============================================================================

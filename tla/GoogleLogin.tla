---------------------------- MODULE GoogleLogin ----------------------------
(***************************************************************************)
(* GoogleLoginMachine of auth.py: how ensure_auth of the backup and of     *)
(* manual_auth.py get from whatever page Google shows to Takeout.          *)
(*                                                                         *)
(* The machine is a queued one like TakeoutMachine, with CheckingEvent     *)
(* turning "no condition holds" into an exception.  Its conditions are     *)
(* tried one after the other and each may wait for the whole timeout, so   *)
(* here each one is a step, and the browser may be redirected in between.  *)
(***************************************************************************)
EXTENDS Naturals, Sequences

CONSTANT MaxRedirects   \* bound on the redirects that the program did not cause

ASSUME LoginAssumption == MaxRedirects \in Nat

VARIABLES
    page,       \* the page that the browser shows
    redirects,  \* redirects so far
    state,      \* model.state
    queue,      \* the events that have been triggered, the current one first
    phase,      \* of the current event: "prepare", "conditions", "enter" or "after"
    candidate,  \* the transition of the current event whose condition is tried
    outcome     \* of sign_in(): "running", "returned" or "raised"

vars == <<page, redirects, state, queue, phase, candidate, outcome>>

\* The pages that the conditions tell apart, "neterror" for Firefox's page for a
\* navigation that failed, and "other" for all the rest (a captcha, a page that
\* is still loading).
Page == {"takeout", "password", "homeaddress", "chooser", "email", "skotp", "selection",
         "confirm", "restore", "neterror", "other"}

States == {"start", "email_entry", "password_entry", "challenge_skotp", "account_chooser",
           "other_challenge_select", "challenge_confirm", "offer_to_restore", "address_entry",
           "auth_success"}

-----------------------------------------------------------------------------
(* The machine's definition *)

\* condition "" always holds; after "" triggers nothing.
T(source, dest, condition, next) ==
    [source |-> source, dest |-> dest, condition |-> condition, after |-> next]

leave_address == <<T("address_entry", "auth_success", "is_takeout_url", "")>>

select_acceptable_mfa == <<T("other_challenge_select", "challenge_confirm", "", "")>>

\* (Mutant: nothing is triggered once the other challenge is asked for.)
skip_skotp_only == <<T("challenge_skotp", "other_challenge_select", "", "")>>
skip_skotp == <<T("challenge_skotp", "other_challenge_select", "", "select_acceptable_mfa")>>

\* (Mutants: the event for the address page is triggered on both ways; the
\* password is asked for again.)
skip_restoration_password ==
    <<T("offer_to_restore", "auth_success", "is_takeout_url", ""),
      T("offer_to_restore", "password_entry", "is_password_challenge", "submit_password")>>
skip_restoration_twice ==
    <<T("offer_to_restore", "auth_success", "is_takeout_url", "leave_address"),
      T("offer_to_restore", "address_entry", "is_on_address_entry_form", "leave_address")>>
skip_restoration ==
    <<T("offer_to_restore", "auth_success", "is_takeout_url", ""),
      T("offer_to_restore", "address_entry", "is_on_address_entry_form", "leave_address")>>

submit_password ==
    <<T("password_entry", "auth_success", "is_takeout_url", ""),
      T("password_entry", "address_entry", "is_on_address_entry_form", "leave_address"),
      T("password_entry", "account_chooser", "is_on_account_choose_form", "select_and_proceed"),
      T("password_entry", "challenge_skotp", "is_skotp", "skip_skotp"),
      T("password_entry", "other_challenge_select", "is_mfa_selection", "select_acceptable_mfa"),
      T("password_entry", "offer_to_restore", "is_restore", "skip_restoration")>>

submit_email == <<T("email_entry", "password_entry", "", "submit_password")>>

select_and_proceed == <<T("account_chooser", "password_entry", "", "submit_password")>>

sign_in ==
    <<T("start", "auth_success", "is_takeout_url", ""),
      T("start", "password_entry", "is_password_challenge", "submit_password"),
      T("start", "address_entry", "is_on_address_entry_form", "leave_address"),
      T("start", "account_chooser", "is_on_account_choose_form", "select_and_proceed"),
      T("start", "email_entry", "is_signin", "submit_email")>>

confirm_mfa ==
    <<T("challenge_confirm", "auth_success", "is_takeout_url", ""),
      T("challenge_confirm", "address_entry", "is_on_address_entry_form", "leave_address"),
      T("challenge_confirm", "offer_to_restore", "is_restore", "skip_restoration")>>

Transitions == [
    leave_address |-> leave_address,
    select_acceptable_mfa |-> select_acceptable_mfa,
    skip_skotp |-> skip_skotp,
    skip_restoration |-> skip_restoration,
    submit_password |-> submit_password,
    submit_email |-> submit_email,
    select_and_proceed |-> select_and_proceed,
    sign_in |-> sign_in,
    confirm_mfa |-> confirm_mfa]

\* The page that a condition looks for.
Shown == [
    is_takeout_url |-> "takeout",
    is_password_challenge |-> "password",
    is_on_address_entry_form |-> "homeaddress",
    is_on_account_choose_form |-> "chooser",
    is_signin |-> "email",
    is_skotp |-> "skotp",
    is_mfa_selection |-> "selection",
    is_restore |-> "restore"]

Holds(condition) == condition # "" => page = Shown[condition]

\* The page on which on_enter works and which it leaves: it fills in and submits
\* what the page asks for, or clicks what leads on from it.
Worked == [
    email_entry |-> "email",
    password_entry |-> "password",
    challenge_skotp |-> "skotp",
    account_chooser |-> "chooser",
    other_challenge_select |-> "selection",
    offer_to_restore |-> "restore"]

TypeOK ==
    /\ page \in Page
    /\ redirects \in 0..MaxRedirects
    /\ state \in States
    /\ queue \in Seq(DOMAIN Transitions)
    /\ phase \in {"prepare", "conditions", "enter", "after"}
    /\ candidate \in 1..7
    /\ queue # <<>> => candidate <= Len(Transitions[Head(queue)]) + 1
    /\ outcome \in {"running", "returned", "raised"}

Init ==
    /\ page \in Page
    /\ redirects = 0
    /\ state = "start"
    /\ queue = <<"sign_in">>
    /\ phase = "prepare"
    /\ candidate = 1
    /\ outcome = "running"

\* The browser is redirected by itself.
Redirect ==
    /\ redirects < MaxRedirects
    /\ redirects' = redirects + 1
    /\ page' \in Page \ {page}
    /\ UNCHANGED <<state, queue, phase, candidate, outcome>>

-----------------------------------------------------------------------------
(* The machine's steps *)

InPhase(p) == outcome = "running" /\ queue # <<>> /\ phase = p
Event == Head(queue)
Raised == outcome' = "raised" /\ queue' = <<>>

\* What the current event does next: an exception if it has no transition from
\* this state (MachineError) or none of which the condition holds.
Candidate == Transitions[Event][candidate]
NoneLeft == candidate > Len(Transitions[Event])

\* prepare_event, wait_for_navigation_settle: it waits until the address is
\* stable, but not beyond its deadline, and navigates away from a network error
\* page, which may lead to another page or to the same error again.
Settle ==
    /\ InPhase("prepare")
    /\ page' \in IF page = "neterror" THEN Page ELSE {page}
    /\ phase' = "conditions"
    /\ UNCHANGED <<redirects, state, queue, candidate, outcome>>

TakeTransition ==
    /\ InPhase("conditions")
    /\ ~NoneLeft
    /\ Candidate.source = state
    /\ Holds(Candidate.condition)
    /\ state' = Candidate.dest
    /\ phase' = "enter"
    /\ UNCHANGED <<page, redirects, queue, candidate, outcome>>

TryNext ==
    /\ InPhase("conditions")
    /\ ~NoneLeft
    /\ Candidate.source = state
    /\ ~Holds(Candidate.condition)
    /\ candidate' = candidate + 1
    /\ UNCHANGED <<page, redirects, state, queue, phase, outcome>>

\* Wrong source, or no condition left to try.
NoTransition ==
    /\ InPhase("conditions")
    /\ ~NoneLeft => Candidate.source # state
    /\ Raised
    /\ UNCHANGED <<page, redirects, state, phase, candidate>>

\* A callback that works on its page, and waits until the page is gone; when the
\* page is not there, it times out (Raise).
WorkPage ==
    /\ InPhase("enter")
    /\ state \in DOMAIN Worked
    /\ page = Worked[state]
    /\ page' \in Page \ {page}
    /\ phase' = "after"
    /\ UNCHANGED <<redirects, state, queue, candidate, outcome>>

\* skip_address navigates on from wherever it is, and waits until the address
\* page is gone.
SkipAddress ==
    /\ InPhase("enter")
    /\ state = "address_entry"
    /\ page' \in Page \ {"homeaddress"}
    /\ phase' = "after"
    /\ UNCHANGED <<redirects, state, queue, candidate, outcome>>

\* handle_challenge_confirm waits until the user has confirmed on another
\* device (the page is no challenge any more), and triggers confirm_mfa itself.
ConfirmChallenge ==
    /\ InPhase("enter")
    /\ state = "challenge_confirm"
    /\ IF page = "confirm" THEN page' \in Page \ {page} ELSE UNCHANGED page
    /\ queue' = Append(queue, "confirm_mfa")
    /\ phase' = "after"
    /\ UNCHANGED <<redirects, state, candidate, outcome>>

EnterSuccess ==
    /\ InPhase("enter")
    /\ state = "auth_success"
    /\ phase' = "after"
    /\ UNCHANGED <<page, redirects, state, queue, candidate, outcome>>

\* An event's conditions are tried from the first one on.
\* (Mutant: from where the event before it has stopped.)
SameCandidate == candidate
FirstCandidate == 1

\* The after callback triggers the next event, and the current one is done.
After ==
    /\ InPhase("after")
    /\ queue' = Tail(IF Candidate.after = "" THEN queue ELSE Append(queue, Candidate.after))
    /\ candidate' = FirstCandidate
    /\ phase' = "prepare"
    /\ UNCHANGED <<page, redirects, state, outcome>>

\* sign_in() returns when the queue is empty.
Return ==
    /\ outcome = "running"
    /\ queue = <<>>
    /\ outcome' = "returned"
    /\ UNCHANGED <<page, redirects, state, queue, phase, candidate>>

\* A wait times out or the driver fails.
Raise ==
    /\ outcome = "running"
    /\ Raised
    /\ UNCHANGED <<page, redirects, state, phase, candidate>>

Step == \/ Settle \/ TakeTransition \/ TryNext \/ NoTransition
        \/ WorkPage \/ SkipAddress \/ ConfirmChallenge \/ EnterSuccess
        \/ After \/ Return \/ Raise

Next == Step \/ Redirect

Spec == Init /\ [][Next]_vars

\* Every wait of a condition or a callback has a timeout.
FairSpec == Spec /\ WF_vars(Step)

-----------------------------------------------------------------------------
(* Properties *)

\* sign_in() returns only when the login has succeeded, so that the check of
\* ensure_auth for a login that got stuck (auth.py:561) never fires: on every way
\* through the machine each event triggers the next one, succeeds or raises.
ReturnsAuthenticated == outcome = "returned" => state = "auth_success"

\* No event is triggered that has no transition from the state the machine is in
\* when its turn comes.
EventFits ==
    InPhase("conditions") => \E i \in DOMAIN Transitions[Event] : Transitions[Event][i].source = state

\* sign_in() ends, unless Google answers the password with the account chooser
\* for ever: that is the only cycle, and nothing in the code bounds it.
LoginEnds == <>(outcome # "running") \/ []<>(state = "account_chooser")
=============================================================================

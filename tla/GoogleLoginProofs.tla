-------------------------- MODULE GoogleLoginProofs --------------------------
(* GoogleLoginMachine never triggers an event that has no transition, and returns logged in. *)
EXTENDS GoogleLogin, TLAPS

(***************************************************************************)
(* What the tables of the machine have in common: an event's transitions   *)
(* all leave the same state, and each leads to a state that the event it   *)
(* triggers leaves, or to success, or to the challenge that the user       *)
(* confirms, where the callback triggers confirm_mfa.                      *)
(***************************************************************************)

Events == DOMAIN Transitions
Conditions == DOMAIN Shown \cup {""}

SourceOf == [
    leave_address |-> "address_entry",
    select_acceptable_mfa |-> "other_challenge_select",
    skip_skotp |-> "challenge_skotp",
    skip_restoration |-> "offer_to_restore",
    submit_password |-> "password_entry",
    submit_email |-> "email_entry",
    select_and_proceed |-> "account_chooser",
    sign_in |-> "start",
    confirm_mfa |-> "challenge_confirm"]

Leads(event, dest, next) ==
    \/ next = "" /\ dest = "auth_success"
    \/ next = "" /\ dest = "challenge_confirm" /\ event = "select_acceptable_mfa"
    \/ next \in Events /\ dest = SourceOf[next] /\ dest # "challenge_confirm"

Fitting(event) ==
    {t \in [source : States, dest : States, condition : Conditions, after : Events \cup {""}] :
        t.source = SourceOf[event] /\ Leads(event, t.dest, t.after)}

(***************************************************************************)
(* The inductive invariant: the places of the machine.                     *)
(***************************************************************************)

Trying(event) ==
    /\ queue = <<event>> /\ phase \in {"prepare", "conditions"}
    /\ state = SourceOf[event]
    /\ candidate <= Len(Transitions[event]) + 1

\* The transition that candidate names has been taken.
Taken(event) ==
    /\ queue = <<event>>
    /\ candidate <= Len(Transitions[event]) /\ state = Transitions[event][candidate].dest
    /\ \/ phase = "enter"
       \/ phase = "after" /\ state # "challenge_confirm"

Confirmed ==
    /\ queue = <<"select_acceptable_mfa", "confirm_mfa">> /\ phase = "after"
    /\ candidate <= Len(Transitions["select_acceptable_mfa"])
    /\ Transitions["select_acceptable_mfa"][candidate].after = ""
    /\ state = "challenge_confirm"

LoggedIn == queue = <<>> /\ state = "auth_success"

Places ==
    outcome = "running" =>
        (\E event \in Events : Trying(event) \/ Taken(event)) \/ Confirmed \/ LoggedIn

IInv == TypeOK /\ Places /\ EventFits /\ ReturnsAuthenticated

-----------------------------------------------------------------------------
(* The queue *)

\* It has one event or two.
LEMMA Queues ==
    ASSUME NEW x, NEW y
    PROVE  /\ Head(<<x>>) = x /\ Tail(<<x>>) = <<>> /\ <<x>> # <<>>
           /\ Append(<<x>>, y) = <<x, y>> /\ Tail(<<x, y>>) = <<y>>
           /\ Head(<<x, y>>) = x /\ <<x, y>> # <<>>
<1>1. Head(<<x>>) = x /\ Tail(<<x>>) = <<>> /\ <<x>> # <<>>
    OBVIOUS
<1>2. Tail(<<x, y>>) = <<y>> /\ Head(<<x, y>>) = x /\ <<x, y>> # <<>>
    OBVIOUS
<1>3. Append(<<x>>, y) = <<x, y>>
  <2> DEFINE both == Append(<<x>>, y)
  <2>1. <<x>> \in Seq({x, y}) /\ y \in {x, y} /\ Len(<<x>>) = 1 /\ <<x>>[1] = x
      OBVIOUS
  <2>2. both \in Seq({x, y}) /\ Len(both) = 2 /\ both[1] = x
      BY <2>1
  <2>3. both[2] = y
      BY <2>1
  <2> HIDE DEF both
  <2>4. DOMAIN both = 1..2 /\ both = [i \in 1..2 |-> both[i]]
      BY <2>2
  <2>5. /\ DOMAIN <<x, y>> = 1..2 /\ <<x, y>> = [i \in 1..2 |-> <<x, y>>[i]]
        /\ <<x, y>>[1] = x /\ <<x, y>>[2] = y
      OBVIOUS
  <2>6. both = <<x, y>>
      BY <2>2, <2>3, <2>4, <2>5
  <2> QED
      BY <2>6 DEF both
<1> QED
    BY <1>1, <1>2, <1>3

-----------------------------------------------------------------------------
(* The tables *)

LEMMA EventNames ==
    Events = {"leave_address", "select_acceptable_mfa", "skip_skotp", "skip_restoration", "submit_password",
              "submit_email", "select_and_proceed", "sign_in", "confirm_mfa"}
BY DEF Events, Transitions

LEMMA Sources ==
    /\ SourceOf["leave_address"] = "address_entry"
    /\ SourceOf["select_acceptable_mfa"] = "other_challenge_select"
    /\ SourceOf["skip_skotp"] = "challenge_skotp"
    /\ SourceOf["skip_restoration"] = "offer_to_restore"
    /\ SourceOf["submit_password"] = "password_entry"
    /\ SourceOf["submit_email"] = "email_entry"
    /\ SourceOf["select_and_proceed"] = "account_chooser"
    /\ SourceOf["sign_in"] = "start"
    /\ SourceOf["confirm_mfa"] = "challenge_confirm"
BY DEF SourceOf

\* A transition that fits, as the tables write it.
LEMMA EntryFits ==
    ASSUME NEW event, NEW source, NEW dest, NEW condition, NEW next,
           event \in Events, source = SourceOf[event], dest \in States, condition \in Conditions,
           Leads(event, dest, next)
    PROVE  T(source, dest, condition, next) \in Fitting(event)
<1>1. next \in Events \cup {""}
    BY DEF Leads
<1>2. /\ T(source, dest, condition, next).source = source
      /\ T(source, dest, condition, next).dest = dest
      /\ T(source, dest, condition, next).after = next
    BY DEF T
<1>3. source \in States
    BY Sources, EventNames DEF States
<1>4. T(source, dest, condition, next) \in
        [source : States, dest : States, condition : Conditions, after : Events \cup {""}]
    BY <1>1, <1>3 DEF T
<1> QED
    BY <1>2, <1>4 DEF Fitting

\* All transitions of every event fit.
LEMMA Table ==
    ASSUME NEW event \in Events
    PROVE  Transitions[event] \in Seq(Fitting(event)) /\ Len(Transitions[event]) \in 1..6
<1>1. CASE event = "leave_address"
  <2> DEFINE t1 == T("address_entry", "auth_success", "is_takeout_url", "")
  <2>1. t1 \in Fitting(event)
    <3>1. Leads(event, "auth_success", "") /\ "address_entry" = SourceOf[event]
        BY <1>1, Sources, EventNames DEF Leads
    <3>2. "auth_success" \in States /\ "is_takeout_url" \in Conditions
        BY DEF States, Conditions, Shown
    <3> QED
        BY <3>1, <3>2, EntryFits, Zenon
  <2>2. Transitions[event] = <<t1>>
      BY <1>1 DEF Transitions, leave_address
  <2> HIDE DEF t1
  <2> QED
      BY <2>1, <2>2
<1>2. CASE event = "select_acceptable_mfa"
  <2> DEFINE t1 == T("other_challenge_select", "challenge_confirm", "", "")
  <2>1. t1 \in Fitting(event)
    <3>1. Leads(event, "challenge_confirm", "") /\ "other_challenge_select" = SourceOf[event]
        BY <1>2, Sources, EventNames DEF Leads
    <3>2. "challenge_confirm" \in States /\ "" \in Conditions
        BY DEF States, Conditions, Shown
    <3> QED
        BY <3>1, <3>2, EntryFits, Zenon
  <2>2. Transitions[event] = <<t1>>
      BY <1>2 DEF Transitions, select_acceptable_mfa
  <2> HIDE DEF t1
  <2> QED
      BY <2>1, <2>2
<1>3. CASE event = "skip_skotp"
  <2> DEFINE t1 == T("challenge_skotp", "other_challenge_select", "", "select_acceptable_mfa")
  <2>1. t1 \in Fitting(event)
    <3>1. Leads(event, "other_challenge_select", "select_acceptable_mfa") /\ "challenge_skotp" = SourceOf[event]
        BY <1>3, Sources, EventNames DEF Leads
    <3>2. "other_challenge_select" \in States /\ "" \in Conditions
        BY DEF States, Conditions, Shown
    <3> QED
        BY <3>1, <3>2, EntryFits, Zenon
  <2>2. Transitions[event] = <<t1>>
      BY <1>3 DEF Transitions, skip_skotp
  <2> HIDE DEF t1
  <2> QED
      BY <2>1, <2>2
<1>4. CASE event = "skip_restoration"
  <2> DEFINE t1 == T("offer_to_restore", "auth_success", "is_takeout_url", "")
  <2> DEFINE t2 == T("offer_to_restore", "address_entry", "is_on_address_entry_form", "leave_address")
  <2>1. t1 \in Fitting(event)
    <3>1. Leads(event, "auth_success", "") /\ "offer_to_restore" = SourceOf[event]
        BY <1>4, Sources, EventNames DEF Leads
    <3>2. "auth_success" \in States /\ "is_takeout_url" \in Conditions
        BY DEF States, Conditions, Shown
    <3> QED
        BY <3>1, <3>2, EntryFits, Zenon
  <2>2. t2 \in Fitting(event)
    <3>1. Leads(event, "address_entry", "leave_address") /\ "offer_to_restore" = SourceOf[event]
        BY <1>4, Sources, EventNames DEF Leads
    <3>2. "address_entry" \in States /\ "is_on_address_entry_form" \in Conditions
        BY DEF States, Conditions, Shown
    <3> QED
        BY <3>1, <3>2, EntryFits, Zenon
  <2>3. Transitions[event] = <<t1, t2>>
      BY <1>4 DEF Transitions, skip_restoration
  <2> HIDE DEF t1, t2
  <2> QED
      BY <2>1, <2>2, <2>3
<1>5. CASE event = "submit_password"
  <2> DEFINE t1 == T("password_entry", "auth_success", "is_takeout_url", "")
  <2> DEFINE t2 == T("password_entry", "address_entry", "is_on_address_entry_form", "leave_address")
  <2> DEFINE t3 == T("password_entry", "account_chooser", "is_on_account_choose_form", "select_and_proceed")
  <2> DEFINE t4 == T("password_entry", "challenge_skotp", "is_skotp", "skip_skotp")
  <2> DEFINE t5 == T("password_entry", "other_challenge_select", "is_mfa_selection", "select_acceptable_mfa")
  <2> DEFINE t6 == T("password_entry", "offer_to_restore", "is_restore", "skip_restoration")
  <2>1. t1 \in Fitting(event)
    <3>1. Leads(event, "auth_success", "") /\ "password_entry" = SourceOf[event]
        BY <1>5, Sources, EventNames DEF Leads
    <3>2. "auth_success" \in States /\ "is_takeout_url" \in Conditions
        BY DEF States, Conditions, Shown
    <3> QED
        BY <3>1, <3>2, EntryFits, Zenon
  <2>2. t2 \in Fitting(event)
    <3>1. Leads(event, "address_entry", "leave_address") /\ "password_entry" = SourceOf[event]
        BY <1>5, Sources, EventNames DEF Leads
    <3>2. "address_entry" \in States /\ "is_on_address_entry_form" \in Conditions
        BY DEF States, Conditions, Shown
    <3> QED
        BY <3>1, <3>2, EntryFits, Zenon
  <2>3. t3 \in Fitting(event)
    <3>1. Leads(event, "account_chooser", "select_and_proceed") /\ "password_entry" = SourceOf[event]
        BY <1>5, Sources, EventNames DEF Leads
    <3>2. "account_chooser" \in States /\ "is_on_account_choose_form" \in Conditions
        BY DEF States, Conditions, Shown
    <3> QED
        BY <3>1, <3>2, EntryFits, Zenon
  <2>4. t4 \in Fitting(event)
    <3>1. Leads(event, "challenge_skotp", "skip_skotp") /\ "password_entry" = SourceOf[event]
        BY <1>5, Sources, EventNames DEF Leads
    <3>2. "challenge_skotp" \in States /\ "is_skotp" \in Conditions
        BY DEF States, Conditions, Shown
    <3> QED
        BY <3>1, <3>2, EntryFits, Zenon
  <2>5. t5 \in Fitting(event)
    <3>1. Leads(event, "other_challenge_select", "select_acceptable_mfa") /\ "password_entry" = SourceOf[event]
        BY <1>5, Sources, EventNames DEF Leads
    <3>2. "other_challenge_select" \in States /\ "is_mfa_selection" \in Conditions
        BY DEF States, Conditions, Shown
    <3> QED
        BY <3>1, <3>2, EntryFits, Zenon
  <2>6. t6 \in Fitting(event)
    <3>1. Leads(event, "offer_to_restore", "skip_restoration") /\ "password_entry" = SourceOf[event]
        BY <1>5, Sources, EventNames DEF Leads
    <3>2. "offer_to_restore" \in States /\ "is_restore" \in Conditions
        BY DEF States, Conditions, Shown
    <3> QED
        BY <3>1, <3>2, EntryFits, Zenon
  <2>7. Transitions[event] = <<t1, t2, t3, t4, t5, t6>>
      BY <1>5 DEF Transitions, submit_password
  <2> HIDE DEF t1, t2, t3, t4, t5, t6
  <2> QED
      BY <2>1, <2>2, <2>3, <2>4, <2>5, <2>6, <2>7
<1>6. CASE event = "submit_email"
  <2> DEFINE t1 == T("email_entry", "password_entry", "", "submit_password")
  <2>1. t1 \in Fitting(event)
    <3>1. Leads(event, "password_entry", "submit_password") /\ "email_entry" = SourceOf[event]
        BY <1>6, Sources, EventNames DEF Leads
    <3>2. "password_entry" \in States /\ "" \in Conditions
        BY DEF States, Conditions, Shown
    <3> QED
        BY <3>1, <3>2, EntryFits, Zenon
  <2>2. Transitions[event] = <<t1>>
      BY <1>6 DEF Transitions, submit_email
  <2> HIDE DEF t1
  <2> QED
      BY <2>1, <2>2
<1>7. CASE event = "select_and_proceed"
  <2> DEFINE t1 == T("account_chooser", "password_entry", "", "submit_password")
  <2>1. t1 \in Fitting(event)
    <3>1. Leads(event, "password_entry", "submit_password") /\ "account_chooser" = SourceOf[event]
        BY <1>7, Sources, EventNames DEF Leads
    <3>2. "password_entry" \in States /\ "" \in Conditions
        BY DEF States, Conditions, Shown
    <3> QED
        BY <3>1, <3>2, EntryFits, Zenon
  <2>2. Transitions[event] = <<t1>>
      BY <1>7 DEF Transitions, select_and_proceed
  <2> HIDE DEF t1
  <2> QED
      BY <2>1, <2>2
<1>8. CASE event = "sign_in"
  <2> DEFINE t1 == T("start", "auth_success", "is_takeout_url", "")
  <2> DEFINE t2 == T("start", "password_entry", "is_password_challenge", "submit_password")
  <2> DEFINE t3 == T("start", "address_entry", "is_on_address_entry_form", "leave_address")
  <2> DEFINE t4 == T("start", "account_chooser", "is_on_account_choose_form", "select_and_proceed")
  <2> DEFINE t5 == T("start", "email_entry", "is_signin", "submit_email")
  <2>1. t1 \in Fitting(event)
    <3>1. Leads(event, "auth_success", "") /\ "start" = SourceOf[event]
        BY <1>8, Sources, EventNames DEF Leads
    <3>2. "auth_success" \in States /\ "is_takeout_url" \in Conditions
        BY DEF States, Conditions, Shown
    <3> QED
        BY <3>1, <3>2, EntryFits, Zenon
  <2>2. t2 \in Fitting(event)
    <3>1. Leads(event, "password_entry", "submit_password") /\ "start" = SourceOf[event]
        BY <1>8, Sources, EventNames DEF Leads
    <3>2. "password_entry" \in States /\ "is_password_challenge" \in Conditions
        BY DEF States, Conditions, Shown
    <3> QED
        BY <3>1, <3>2, EntryFits, Zenon
  <2>3. t3 \in Fitting(event)
    <3>1. Leads(event, "address_entry", "leave_address") /\ "start" = SourceOf[event]
        BY <1>8, Sources, EventNames DEF Leads
    <3>2. "address_entry" \in States /\ "is_on_address_entry_form" \in Conditions
        BY DEF States, Conditions, Shown
    <3> QED
        BY <3>1, <3>2, EntryFits, Zenon
  <2>4. t4 \in Fitting(event)
    <3>1. Leads(event, "account_chooser", "select_and_proceed") /\ "start" = SourceOf[event]
        BY <1>8, Sources, EventNames DEF Leads
    <3>2. "account_chooser" \in States /\ "is_on_account_choose_form" \in Conditions
        BY DEF States, Conditions, Shown
    <3> QED
        BY <3>1, <3>2, EntryFits, Zenon
  <2>5. t5 \in Fitting(event)
    <3>1. Leads(event, "email_entry", "submit_email") /\ "start" = SourceOf[event]
        BY <1>8, Sources, EventNames DEF Leads
    <3>2. "email_entry" \in States /\ "is_signin" \in Conditions
        BY DEF States, Conditions, Shown
    <3> QED
        BY <3>1, <3>2, EntryFits, Zenon
  <2>6. Transitions[event] = <<t1, t2, t3, t4, t5>>
      BY <1>8 DEF Transitions, sign_in
  <2> HIDE DEF t1, t2, t3, t4, t5
  <2> QED
      BY <2>1, <2>2, <2>3, <2>4, <2>5, <2>6
<1>9. CASE event = "confirm_mfa"
  <2> DEFINE t1 == T("challenge_confirm", "auth_success", "is_takeout_url", "")
  <2> DEFINE t2 == T("challenge_confirm", "address_entry", "is_on_address_entry_form", "leave_address")
  <2> DEFINE t3 == T("challenge_confirm", "offer_to_restore", "is_restore", "skip_restoration")
  <2>1. t1 \in Fitting(event)
    <3>1. Leads(event, "auth_success", "") /\ "challenge_confirm" = SourceOf[event]
        BY <1>9, Sources, EventNames DEF Leads
    <3>2. "auth_success" \in States /\ "is_takeout_url" \in Conditions
        BY DEF States, Conditions, Shown
    <3> QED
        BY <3>1, <3>2, EntryFits, Zenon
  <2>2. t2 \in Fitting(event)
    <3>1. Leads(event, "address_entry", "leave_address") /\ "challenge_confirm" = SourceOf[event]
        BY <1>9, Sources, EventNames DEF Leads
    <3>2. "address_entry" \in States /\ "is_on_address_entry_form" \in Conditions
        BY DEF States, Conditions, Shown
    <3> QED
        BY <3>1, <3>2, EntryFits, Zenon
  <2>3. t3 \in Fitting(event)
    <3>1. Leads(event, "offer_to_restore", "skip_restoration") /\ "challenge_confirm" = SourceOf[event]
        BY <1>9, Sources, EventNames DEF Leads
    <3>2. "offer_to_restore" \in States /\ "is_restore" \in Conditions
        BY DEF States, Conditions, Shown
    <3> QED
        BY <3>1, <3>2, EntryFits, Zenon
  <2>4. Transitions[event] = <<t1, t2, t3>>
      BY <1>9 DEF Transitions, confirm_mfa
  <2> HIDE DEF t1, t2, t3
  <2> QED
      BY <2>1, <2>2, <2>3, <2>4
<1> QED
    BY <1>1, <1>2, <1>3, <1>4, <1>5, <1>6, <1>7, <1>8, <1>9, EventNames

\* What that says of one of them.
LEMMA OneTransition ==
    ASSUME NEW event \in Events, NEW i \in 1..Len(Transitions[event])
    PROVE  /\ Transitions[event][i].source = SourceOf[event] /\ Transitions[event][i].dest \in States
           /\ Leads(event, Transitions[event][i].dest, Transitions[event][i].after)
<1>1. Transitions[event][i] \in Fitting(event)
    BY Table
<1> QED
    BY <1>1 DEF Fitting

-----------------------------------------------------------------------------
(* A step of the machine *)

\* One event is being processed, and its transitions leave this state.
LEMMA CurrentEvent ==
    ASSUME TypeOK, NEW event \in Events, queue = <<event>>
    PROVE  Event = event /\ candidate \in Nat \ {0} /\ Len(Transitions[event]) \in 1..6
<1>1. Event = event
    BY Queues DEF Event
<1> QED
    BY <1>1, Table DEF TypeOK

\* What After leaves in the queue leaves the state, or the login is over.
LEMMA AfterQueue ==
    TypeOK /\ Places /\ After =>
        \/ queue' = <<>> /\ state = "auth_success"
        \/ \E event \in Events : queue' = <<event>> /\ state = SourceOf[event]
<1> SUFFICES ASSUME TypeOK, Places, After
             PROVE  \/ queue' = <<>> /\ state = "auth_success"
                    \/ \E event \in Events : queue' = <<event>> /\ state = SourceOf[event]
    OBVIOUS
<1>1. /\ outcome = "running" /\ queue # <<>> /\ phase = "after"
      /\ queue' = Tail(IF Candidate.after = "" THEN queue ELSE Append(queue, Candidate.after))
    BY DEF After, InPhase
<1>2. CASE Confirmed
  <2>1. Event = "select_acceptable_mfa"
      BY <1>2, Queues, Zenon DEF Event, Confirmed
  <2>2. queue' = <<"confirm_mfa">>
    <3>1. Candidate.after = ""
        BY <1>2, <2>1 DEF Confirmed, Candidate
    <3>2. queue' = Tail(<<"select_acceptable_mfa", "confirm_mfa">>)
        BY <1>1, <1>2, <3>1 DEF Confirmed
    <3> QED
        BY <3>2, Queues, Zenon
  <2>3. "confirm_mfa" \in Events /\ state = SourceOf["confirm_mfa"]
      BY <1>2, Sources, EventNames DEF Confirmed
  <2> QED
      BY <2>2, <2>3, Zenon
<1>3. CASE ~Confirmed
  <2>1. PICK event \in Events : Taken(event) /\ state # "challenge_confirm"
      BY <1>1, <1>3 DEF Places, Trying, Taken, LoggedIn
  <2>2. Event = event /\ queue = <<event>> /\ candidate \in 1..Len(Transitions[event])
      BY <2>1, CurrentEvent DEF Taken
  <2> DEFINE next == Transitions[event][candidate].after
  <2>3. Candidate.after = next
      BY <2>2 DEF Candidate
  <2>4. Leads(event, state, next)
      BY <2>1, <2>2, OneTransition DEF Taken
  <2> HIDE DEF next
  <2>5. CASE next = ""
    <3>1. state = "auth_success"
      <4>1. "" \notin Events
          BY EventNames
      <4> QED
          BY <2>1, <2>4, <2>5, <4>1 DEF Leads
    <3>2. queue' = Tail(<<event>>)
        BY <1>1, <2>2, <2>3, <2>5
    <3> QED
        BY <3>1, <3>2, Queues
  <2>6. CASE next # ""
    <3>1. next \in Events /\ state = SourceOf[next]
        BY <2>4, <2>6 DEF Leads
    <3>2. queue' = Tail(Append(<<event>>, next))
        BY <1>1, <2>2, <2>3, <2>6
    <3>3. Append(<<event>>, next) = <<event, next>> /\ Tail(<<event, next>>) = <<next>>
        BY Queues, Zenon
    <3>4. queue' = <<next>>
        BY <3>2, <3>3, Zenon
    <3> QED
        BY <3>1, <3>4
  <2> QED
      BY <2>5, <2>6
<1> QED
    BY <1>2, <1>3

LEMMA TypeStep == TypeOK /\ Places /\ [Next]_vars => TypeOK'
<1> SUFFICES ASSUME TypeOK, Places, [Next]_vars PROVE TypeOK'
    OBVIOUS
\* The queue and the candidate stay as they are.
<1>1. ASSUME UNCHANGED <<queue, candidate>>, page' \in Page, redirects' \in 0..MaxRedirects, state' \in States,
             phase' \in {"prepare", "conditions", "enter", "after"},
             outcome' \in {"running", "returned", "raised"}
      PROVE  TypeOK'
    BY <1>1 DEF TypeOK
<1>2. CASE Redirect
  <2>1. redirects' \in 0..MaxRedirects
    <3>1. redirects \in 0..MaxRedirects
        BY DEF TypeOK
    <3> QED
        BY <1>2, <3>1, LoginAssumption DEF Redirect
  <2> QED
      BY <1>1, <1>2, <2>1 DEF TypeOK, Redirect
<1>3. CASE Settle \/ WorkPage \/ SkipAddress \/ EnterSuccess
    BY <1>1, <1>3 DEF TypeOK, Settle, WorkPage, SkipAddress, EnterSuccess
<1>4. CASE TakeTransition
  <2>1. /\ outcome = "running" /\ queue # <<>> /\ phase = "conditions" /\ ~NoneLeft /\ state' = Candidate.dest
        /\ phase' = "enter" /\ UNCHANGED <<page, redirects, queue, candidate, outcome>>
      BY <1>4 DEF TakeTransition, InPhase
  <2>2. PICK event \in Events : Trying(event)
      BY <2>1 DEF Places, Taken, Confirmed, LoggedIn
  <2>3. Event = event /\ candidate \in 1..Len(Transitions[event])
      BY <2>1, <2>2, CurrentEvent DEF Trying, NoneLeft
  <2>4. state' \in States
      BY <2>1, <2>3, OneTransition DEF Candidate
  <2> QED
      BY <1>1, <2>1, <2>4 DEF TypeOK
<1>5. CASE TryNext
  <2>1. /\ queue # <<>> /\ ~NoneLeft /\ candidate' = candidate + 1
        /\ UNCHANGED <<page, redirects, state, queue, phase, outcome>>
      BY <1>5 DEF TryNext, InPhase
  <2>2. Event \in Events
      BY <2>1 DEF TypeOK, Event, Events
  <2>3. Len(Transitions[Event]) \in 1..6
      BY <2>2, Table
  <2>4. candidate \in 1..7
      BY DEF TypeOK
  <2>5. candidate' \in 1..7 /\ candidate' <= Len(Transitions[Event]) + 1
    <3> DEFINE n == Len(Transitions[Event])
    <3>1. ~(candidate > n) /\ candidate' = candidate + 1
        BY <2>1 DEF NoneLeft
    <3>2. n \in 1..6
        BY <2>3
    <3> HIDE DEF n
    <3>3. candidate' \in 1..7 /\ candidate' <= n + 1
        BY <2>4, <3>1, <3>2
    <3> QED
        BY <3>3 DEF n
  <2> QED
      BY <2>1, <2>5 DEF TypeOK, Event
<1>6. CASE NoTransition \/ Raise
  <2>1. queue' = <<>> /\ outcome' = "raised" /\ UNCHANGED <<page, redirects, state, phase, candidate>>
      BY <1>6 DEF NoTransition, Raise, Raised
  <2>2. queue' \in Seq(DOMAIN Transitions)
      BY <2>1
  <2> QED
      BY <2>1, <2>2 DEF TypeOK
<1>7. CASE ConfirmChallenge
  <2>1. /\ outcome = "running" /\ queue # <<>> /\ phase = "enter" /\ page' \in Page
        /\ queue' = Append(queue, "confirm_mfa") /\ phase' = "after"
        /\ UNCHANGED <<redirects, state, candidate, outcome>>
      BY <1>7 DEF ConfirmChallenge, InPhase, TypeOK
  <2>2. PICK event \in Events : queue = <<event>>
      BY <2>1 DEF Places, Trying, Taken, Confirmed, LoggedIn
  <2>3. Head(queue') = Head(queue)
    <3>1. queue' = <<event, "confirm_mfa">>
        BY <2>1, <2>2, Queues, Zenon
    <3>2. Head(queue') = event /\ Head(queue) = event
        BY <2>2, <3>1, Queues, Zenon
    <3> QED
        BY <3>2
  <2>4. "confirm_mfa" \in Events
      BY EventNames
  <2>5. queue' \in Seq(DOMAIN Transitions)
    <3>1. queue \in Seq(DOMAIN Transitions)
        BY DEF TypeOK
    <3> QED
        BY <2>1, <2>4, <3>1 DEF Events
  <2>6. candidate' \in 1..7 /\ candidate' <= Len(Transitions[Head(queue')]) + 1
      BY <2>1, <2>3 DEF TypeOK
  <2> QED
      BY <2>1, <2>5, <2>6 DEF TypeOK
<1>8. CASE After
  <2>1. /\ candidate' = 1 /\ phase' = "prepare" /\ UNCHANGED <<page, redirects, state, outcome>>
      BY <1>8 DEF After, FirstCandidate
  <2>2. queue' = <<>> \/ \E event \in Events : queue' = <<event>>
      BY <1>8, AfterQueue
  <2>3. queue' \in Seq(DOMAIN Transitions)
    <3>1. ASSUME NEW event \in Events PROVE <<event>> \in Seq(Events)
        OBVIOUS
    <3>2. <<>> \in Seq(Events)
        OBVIOUS
    <3> QED
        BY <2>2, <3>1, <3>2, Zenon DEF Events
  <2>4. candidate' \in 1..7
      BY <2>1
  <2>5. queue' # <<>> => candidate' <= Len(Transitions[Head(queue')]) + 1
    <3>1. ASSUME NEW event \in Events, queue' = <<event>> PROVE candidate' <= Len(Transitions[Head(queue')]) + 1
      <4>1. Head(queue') = event
          BY <3>1, Queues
      <4>2. Len(Transitions[event]) \in 1..6
          BY Table
      <4> QED
          BY <2>1, <4>1, <4>2
    <3> QED
        BY <2>2, <3>1
  <2> QED
      BY <2>1, <2>3, <2>4, <2>5 DEF TypeOK
<1>9. CASE Return
    BY <1>1, <1>9 DEF TypeOK, Return
<1>10. CASE UNCHANGED vars
    BY <1>1, <1>10 DEF TypeOK, vars
<1> QED
    BY <1>2, <1>3, <1>4, <1>5, <1>6, <1>7, <1>8, <1>9, <1>10 DEF Next, Step

-----------------------------------------------------------------------------
(* The places *)

LEMMA PlacesStep == TypeOK /\ Places /\ [Next]_vars => Places'
<1> SUFFICES ASSUME TypeOK, Places, [Next]_vars, outcome' = "running" PROVE Places'
    BY DEF Places
<1>1. CASE UNCHANGED <<state, queue, phase, candidate, outcome>>
  <2>1. outcome = "running"
      BY <1>1
  <2> QED
      BY <1>1, <2>1 DEF Places, Trying, Taken, Confirmed, LoggedIn
<1>2. CASE Redirect \/ UNCHANGED vars
    BY <1>1, <1>2 DEF Redirect, vars
<1>3. CASE NoTransition \/ Raise \/ Return
    BY <1>3 DEF NoTransition, Raise, Raised, Return
\* The transitions of the current event are tried.
<1>4. CASE Settle \/ TryNext \/ TakeTransition
  <2>1. outcome = "running" /\ queue # <<>> /\ phase \in {"prepare", "conditions"} /\ queue' = queue
      BY <1>4 DEF Settle, TryNext, TakeTransition, InPhase
  <2>2. PICK event \in Events : Trying(event)
      BY <2>1 DEF Places, Taken, Confirmed, LoggedIn
  <2>3. Event = event /\ candidate \in Nat \ {0} /\ Len(Transitions[event]) \in 1..6
      BY <2>2, CurrentEvent DEF Trying
  <2>4. CASE Settle \/ TryNext
    <3>1. Trying(event)'
        BY <2>2, <2>3, <2>4 DEF Settle, TryNext, NoneLeft, InPhase, Trying
    <3> QED
        BY <3>1 DEF Places
  <2>5. CASE TakeTransition
    <3>1. Taken(event)'
        BY <2>1, <2>2, <2>3, <2>5 DEF TakeTransition, NoneLeft, Candidate, Trying, Taken
    <3> QED
        BY <3>1 DEF Places
  <2> QED
      BY <1>4, <2>4, <2>5
\* A callback has run.
<1>5. CASE WorkPage \/ SkipAddress \/ EnterSuccess \/ ConfirmChallenge
  <2>1. /\ outcome = "running" /\ queue # <<>> /\ phase = "enter" /\ phase' = "after" /\ UNCHANGED <<state, candidate>>
      BY <1>5 DEF WorkPage, SkipAddress, EnterSuccess, ConfirmChallenge, InPhase
  <2>2. PICK event \in Events : Taken(event)
      BY <2>1 DEF Places, Trying, Confirmed, LoggedIn
  <2>3. CASE WorkPage \/ SkipAddress \/ EnterSuccess
    <3>1. state # "challenge_confirm" /\ queue' = queue
      <4>1. CASE WorkPage
          BY <4>1 DEF WorkPage, Worked
      <4> QED
          BY <2>3, <4>1 DEF SkipAddress, EnterSuccess
    <3>2. Taken(event)'
        BY <2>1, <2>2, <3>1 DEF Taken
    <3> QED
        BY <3>2 DEF Places
  <2>4. CASE ConfirmChallenge
    <3>1. state = "challenge_confirm" /\ queue = <<event>> /\ queue' = Append(queue, "confirm_mfa")
        BY <2>2, <2>4 DEF ConfirmChallenge, Taken
    <3>2. queue' = <<event, "confirm_mfa">>
        BY <3>1, Queues, Zenon
    <3>3. candidate \in 1..Len(Transitions[event])
        BY <2>2, <3>1, CurrentEvent DEF Taken
    <3>4. Leads(event, "challenge_confirm", Transitions[event][candidate].after)
        BY <2>2, <3>1, <3>3, OneTransition DEF Taken
    <3>5. event = "select_acceptable_mfa" /\ Transitions[event][candidate].after = ""
        BY <3>4 DEF Leads
    <3>6. Confirmed'
        BY <2>1, <2>2, <3>1, <3>2, <3>5 DEF Taken, Confirmed
    <3> QED
        BY <3>6 DEF Places
  <2> QED
      BY <1>5, <2>3, <2>4
<1>6. CASE After
  <2>1. /\ candidate' = 1 /\ phase' = "prepare" /\ UNCHANGED <<state, outcome>>
      BY <1>6 DEF After, FirstCandidate
  <2>2. \/ queue' = <<>> /\ state = "auth_success"
        \/ \E event \in Events : queue' = <<event>> /\ state = SourceOf[event]
      BY <1>6, AfterQueue
  <2>3. ASSUME NEW event \in Events, queue' = <<event>>, state = SourceOf[event] PROVE Places'
    <3>1. Len(Transitions[event]) \in 1..6
        BY Table
    <3>2. Trying(event)'
        BY <2>1, <2>3, <3>1 DEF Trying
    <3> QED
        BY <3>2 DEF Places
  <2>4. CASE queue' = <<>> /\ state = "auth_success"
      BY <2>1, <2>4 DEF Places, LoggedIn
  <2> QED
      BY <2>2, <2>3, <2>4
<1> QED
    BY <1>2, <1>3, <1>4, <1>5, <1>6 DEF Next, Step

-----------------------------------------------------------------------------
(* The theorems *)

LEMMA InvInit == Init => IInv
<1> SUFFICES ASSUME Init PROVE IInv
    OBVIOUS
<1>1. /\ page \in Page /\ redirects = 0 /\ state = "start" /\ queue = <<"sign_in">> /\ phase = "prepare"
      /\ candidate = 1 /\ outcome = "running"
    BY DEF Init
<1>2. "sign_in" \in Events /\ Len(Transitions["sign_in"]) \in 1..6
    BY Table, EventNames
<1>3. Head(queue) = "sign_in"
    BY <1>1, Queues, Zenon
<1>4. TypeOK
  <2>1. queue \in Seq(DOMAIN Transitions)
      BY <1>1, <1>2 DEF Events
  <2>2. redirects \in 0..MaxRedirects /\ candidate \in 1..7
      BY <1>1, LoginAssumption
  <2>3. candidate <= Len(Transitions[Head(queue)]) + 1
      BY <1>1, <1>2, <1>3
  <2> QED
      BY <1>1, <2>1, <2>2, <2>3 DEF TypeOK, States
<1>5. Trying("sign_in")
    BY <1>1, <1>2, Sources DEF Trying
<1>6. Places
    BY <1>2, <1>5 DEF Places
<1>7. EventFits /\ ReturnsAuthenticated
    BY <1>1 DEF EventFits, InPhase, ReturnsAuthenticated
<1> QED
    BY <1>4, <1>6, <1>7 DEF IInv

\* The event that is tried leaves the state: its first transition does.
LEMMA TypedPlacesFit == TypeOK /\ Places => EventFits
<1> SUFFICES ASSUME TypeOK, Places, InPhase("conditions")
             PROVE  \E i \in DOMAIN Transitions[Event] : Transitions[Event][i].source = state
    BY DEF EventFits
<1>1. PICK event \in Events : Trying(event)
    BY DEF InPhase, Places, Taken, Confirmed, LoggedIn
<1>2. Event = event /\ Len(Transitions[event]) \in 1..6 /\ state = SourceOf[event]
    BY <1>1, CurrentEvent DEF Trying
<1>3. Transitions[event] \in Seq(Fitting(event))
    BY Table
<1>4. 1 \in DOMAIN Transitions[event] /\ 1 \in 1..Len(Transitions[event])
  <2>1. ASSUME NEW S, NEW s \in Seq(S) PROVE DOMAIN s = 1..Len(s)
      OBVIOUS
  <2>2. DOMAIN Transitions[event] = 1..Len(Transitions[event])
      BY <1>3, <2>1, Zenon
  <2>3. 1 \in 1..Len(Transitions[event])
      BY <1>2
  <2> QED
      BY <2>2, <2>3, Zenon
<1>5. Transitions[event][1].source = state
    BY <1>2, <1>4, OneTransition
<1> QED
    BY <1>2, <1>4, <1>5

LEMMA InvStep == IInv /\ [Next]_vars => IInv'
<1> SUFFICES ASSUME IInv, [Next]_vars PROVE IInv'
    OBVIOUS
<1>1. TypeOK' /\ Places'
    BY TypeStep, PlacesStep DEF IInv
<1>2. EventFits'
  <2>1. (TypeOK /\ Places => EventFits)'
      BY TypedPlacesFit, PTL
  <2> QED
      BY <1>1, <2>1
<1>3. ReturnsAuthenticated'
  <2> SUFFICES ASSUME outcome' = "returned" PROVE state' = "auth_success"
      BY DEF ReturnsAuthenticated
  <2>1. CASE Return
    <3>1. outcome = "running" /\ queue = <<>> /\ state' = state
        BY <2>1 DEF Return
    <3>2. LoggedIn
        BY <3>1 DEF IInv, Places, Trying, Taken, Confirmed
    <3> QED
        BY <3>1, <3>2 DEF LoggedIn
  <2>2. CASE ~Return
    <3>1. outcome = "returned" /\ state' = state
        BY <2>2 DEF Next, Step, Redirect, Settle, TakeTransition, TryNext, NoTransition, WorkPage, SkipAddress,
            ConfirmChallenge, EnterSuccess, After, Raise, Raised, InPhase, vars
    <3> QED
        BY <3>1 DEF IInv, ReturnsAuthenticated
  <2> QED
      BY <2>1, <2>2
<1> QED
    BY <1>1, <1>2, <1>3 DEF IInv

LEMMA InvAlways == Spec => []IInv
<1>1. Init => IInv
    BY InvInit
<1>2. IInv /\ [Next]_vars => IInv'
    BY InvStep
<1> QED
    BY <1>1, <1>2, PTL DEF Spec

\* Every variable of the login has its type.
THEOREM LoginTyped == Spec => []TypeOK
<1>1. IInv => TypeOK
    BY DEF IInv
<1> QED
    BY <1>1, InvAlways, PTL

\* No event is triggered that has no transition from the state of the machine (auth.py's tables).
THEOREM EventsFit == Spec => []EventFits
<1>1. IInv => EventFits
    BY DEF IInv
<1> QED
    BY <1>1, InvAlways, PTL

\* sign_in() returns only when the login has succeeded, so the check of ensure_auth never fires.
THEOREM ReturnsLoggedIn == Spec => []ReturnsAuthenticated
<1>1. IInv => ReturnsAuthenticated
    BY DEF IInv
<1> QED
    BY <1>1, InvAlways, PTL
=============================================================================

------------------------ MODULE TakeoutMachineProofs ------------------------
(* What a run of TakeoutMachine downloads, requests and saves. *)
EXTENDS TakeoutMachine, FiniteSetTheorems, TLAPS

(***************************************************************************)
(* The inductive invariant.  The queue is never longer than two events; the *)
(* places of the machine are these.                                        *)
(***************************************************************************)

Processing(q, phases, states, next) ==
    queue = q /\ phase \in phases /\ state \in states /\ after = next

Begun == {"trigger"}
Running == {"enter", "after"}

Assessing ==
    \/ Processing(<<"assess_manage_page">>, Begun, {"on_manage"}, "")
    \/ Processing(<<"assess_manage_page">>, Running,
                  {"export_in_progress", "backup_fresh", "requesting_archive"}, "")
    \/ Processing(<<"assess_manage_page">>, Running, {"selecting_archive"}, "select_archive")

Selecting ==
    \/ Processing(<<"select_archive">>, Begun, {"selecting_archive"}, "")
    \/ Processing(<<"select_archive">>, Running, {"requesting_archive"}, "")
    \/ Processing(<<"select_archive">>, Running, {"on_archive"}, "start_download")

Downloading ==
    \/ Processing(<<"start_download">>, Begun, {"on_archive"}, "")
    \/ Processing(<<"start_download">>, Running, {"downloading"}, "finish_download")
    \/ Processing(<<"finish_download">>, Begun, {"downloading"}, "")
    \/ Processing(<<"finish_download">>, Running, {"complete"}, "")

\* The quota is used up: an event is queued behind start_download, and what that
\* triggers at its end is left for a state that does not have it.
OverQuota ==
    \/ Processing(<<"start_download", "quota_exceeded">>, {"after"}, {"downloading"}, "finish_download")
    \/ Processing(<<"quota_exceeded", "finish_download">>, Begun, {"downloading"}, "")
    \/ Processing(<<"quota_exceeded", "finish_download">>, Running, {"requesting_archive"}, "")
    \/ Processing(<<"finish_download">>, Begun, {"requesting_archive"}, "")

Settled == Processing(<<>>, Begun, Final, "")

Places == outcome = "running" => Assessing \/ Selecting \/ Downloading \/ OverQuota \/ Settled

Descending(s) == \A i, j \in DOMAIN s : i < j => s[i] > s[j]

\* The links that are left are in the page's order; of those before them none that can
\* still be had is newer than the backup, until one is found.
Search ==
    /\ Descending(page) /\ Descending(links)
    /\ outcome = "running" /\ ~(state = "selecting_archive" /\ phase = "enter") => links = <<>>
    /\ state = "on_manage" \/ (state = "selecting_archive" /\ phase = "enter")
        => target_archive = NoArchive
    /\ target_archive = NoArchive =>
        \A a \in available \cap Members(archive_links) : a \in Members(links) \/ ~IsNewer(a)

Assessed ==
    /\ state \notin {"on_manage", "export_in_progress", "backup_fresh"} => ~exporting /\ ~fresh
    /\ state = "on_manage" => archive_links = <<>>
    /\ requested = IF state = "requesting_archive" /\ phase # "enter" THEN 1 ELSE 0

\* Of the target all parts are listed, or none.
Listed ==
    /\ state \in {"on_archive", "downloading", "complete"} => target_archive # NoArchive
    /\ archive_parts \in {<<>>} \cup {Parts[a] : a \in Archive \cap {target_archive}}

\* What is got and what is left make up the list, unless the quota is used up.
PartsLeft ==
    outcome = "running" /\ state = "downloading" /\ Downloading =>
        /\ got \cup Members(rest) \in {{}, Members(Parts[target_archive])}
        /\ phase # "enter" => rest = <<>>

IInv ==
    /\ TypeOK
    /\ AllOrNothing /\ TargetIsNewest /\ RequestOnlyIfNeeded /\ SavedWhenSettled
    /\ Places /\ Search /\ Assessed /\ Listed /\ PartsLeft

-----------------------------------------------------------------------------
(* Sequences *)

\* Taking the first element off.
LEMMA HeadTail ==
    ASSUME NEW S, NEW s \in Seq(S), s # <<>>
    PROVE  /\ Head(s) \in S /\ Tail(s) \in Seq(S)
           /\ Members(s) = {Head(s)} \cup Members(Tail(s))
<1>1. Head(s) \in S /\ Tail(s) \in Seq(S)
    OBVIOUS
<1>2. Len(s) \in Nat \ {0} /\ DOMAIN s = 1..Len(s) /\ Head(s) = s[1]
    OBVIOUS
<1>3. Len(Tail(s)) = Len(s) - 1 /\ \A i \in 1..(Len(s) - 1) : Tail(s)[i] = s[i + 1]
    OBVIOUS
<1>4. DOMAIN Tail(s) = 1..(Len(s) - 1)
    BY <1>1, <1>3
<1>5. ASSUME NEW i \in 1..Len(s) PROVE s[i] \in {Head(s)} \cup Members(Tail(s))
  <2>1. CASE i = 1
      BY <1>2, <2>1
  <2>2. CASE i # 1
    <3>1. i - 1 \in 1..(Len(s) - 1) /\ s[i] = Tail(s)[i - 1]
        BY <1>2, <1>3, <2>2
    <3> QED
        BY <1>4, <3>1 DEF Members
  <2> QED
      BY <2>1, <2>2
<1>6. ASSUME NEW i \in 1..(Len(s) - 1) PROVE Tail(s)[i] \in Members(s)
  <2>1. i + 1 \in 1..Len(s) /\ Tail(s)[i] = s[i + 1]
      BY <1>2, <1>3
  <2> QED
      BY <1>2, <2>1 DEF Members
<1>7. Head(s) \in Members(s)
  <2>1. 1 \in 1..Len(s)
      BY <1>2
  <2> QED
      BY <1>2, <2>1 DEF Members
<1> QED
    BY <1>1, <1>2, <1>4, <1>5, <1>6, <1>7 DEF Members

\* Putting one at the end.
LEMMA AppendTail ==
    ASSUME NEW S, NEW s \in Seq(S), NEW e \in S
    PROVE  Tail(Append(s, e)) \in Seq(S)
<1> DEFINE t == Append(s, e)
<1>1. t \in Seq(S) /\ Len(t) = Len(s) + 1 /\ Len(s) \in Nat
    OBVIOUS
<1> HIDE DEF t
<1>2. t # <<>>
    BY <1>1
<1>3. Tail(t) \in Seq(S)
    BY <1>1, <1>2
<1> QED
    BY <1>3 DEF t

LEMMA SeqOfMore ==
    ASSUME NEW S, NEW S1, S \subseteq S1, NEW s \in Seq(S)
    PROVE  s \in Seq(S1)
<1>1. Len(s) \in Nat /\ s \in [1..Len(s) -> S]
    OBVIOUS
<1>2. s \in [1..Len(s) -> S1]
    BY <1>1
<1> QED
    BY <1>1, <1>2

\* What is in descending order stays so, and its first element is the greatest.
LEMMA DescendingTail ==
    ASSUME NEW s \in Seq(Nat), s # <<>>, Descending(s)
    PROVE  Descending(Tail(s)) /\ \A a \in Members(s) : a <= Head(s)
<1>1. Len(s) \in Nat \ {0} /\ DOMAIN s = 1..Len(s) /\ Head(s) = s[1]
    OBVIOUS
<1>2. /\ DOMAIN Tail(s) = 1..(Len(s) - 1)
      /\ \A i \in 1..(Len(s) - 1) : Tail(s)[i] = s[i + 1]
    OBVIOUS
<1>3. ASSUME NEW i \in 1..(Len(s) - 1), NEW j \in 1..(Len(s) - 1), i < j PROVE Tail(s)[i] > Tail(s)[j]
  <2>1. i + 1 \in DOMAIN s /\ j + 1 \in DOMAIN s /\ i + 1 < j + 1
      BY <1>1, <1>3
  <2> QED
      BY <1>2, <2>1 DEF Descending
<1>4. ASSUME NEW i \in 1..Len(s) PROVE s[i] <= Head(s)
  <2>1. s[i] \in Nat /\ s[1] \in Nat /\ 1 \in DOMAIN s
      BY <1>1
  <2>2. i = 1 \/ s[1] > s[i]
      BY <1>1, <2>1 DEF Descending
  <2> QED
      BY <1>1, <2>1, <2>2
<1> QED
    BY <1>2, <1>3, <1>4 DEF Descending, Members

\* The queue has one event or two, and for a moment three.
LEMMA ShortQueue ==
    ASSUME NEW x, NEW y
    PROVE  /\ Head(<<x>>) = x /\ Tail(<<x>>) = <<>> /\ <<x>> # <<>>
           /\ Append(<<x>>, y) = <<x, y>> /\ Tail(<<x, y>>) = <<y>>
           /\ Head(<<x, y>>) = x /\ <<x, y>> # <<>>
<1>1. Head(<<x>>) = x /\ Tail(<<x>>) = <<>> /\ <<x>> # <<>>
    OBVIOUS
<1>2. Tail(<<x, y>>) = <<y>> /\ Head(<<x, y>>) = x /\ <<x, y>> # <<>>
    OBVIOUS
<1>3. Append(<<x>>, y) = <<x, y>>
  <2> DEFINE s == Append(<<x>>, y)
  <2>1. <<x>> \in Seq({x, y}) /\ y \in {x, y} /\ Len(<<x>>) = 1 /\ <<x>>[1] = x
      OBVIOUS
  <2>2. s \in Seq({x, y})
      BY <2>1
  <2>3. Len(s) = 2 /\ s[1] = x
      BY <2>1
  <2>4. s[2] = y
      BY <2>1
  <2> HIDE DEF s
  <2>5. DOMAIN s = 1..2 /\ s = [i \in 1..2 |-> s[i]]
      BY <2>2, <2>3
  <2>6. <<x, y>> \in Seq({x, y}) /\ Len(<<x, y>>) = 2 /\ <<x, y>>[1] = x /\ <<x, y>>[2] = y
      OBVIOUS
  <2>7. DOMAIN <<x, y>> = 1..2 /\ <<x, y>> = [i \in 1..2 |-> <<x, y>>[i]]
      OBVIOUS
  <2>8. s = <<x, y>>
      BY <2>3, <2>4, <2>5, <2>6, <2>7
  <2> QED
      BY <2>8 DEF s
<1> QED
    BY <1>1, <1>2, <1>3

LEMMA LongQueue ==
    ASSUME NEW x, NEW y, NEW z
    PROVE  Tail(Append(<<x, y>>, z)) = <<y, z>>
<1> DEFINE s == Append(<<x, y>>, z)
<1> DEFINE t == Tail(s)
<1>1. /\ <<x, y>> \in Seq({x, y, z}) /\ z \in {x, y, z}
      /\ Len(<<x, y>>) = 2 /\ <<x, y>>[1] = x /\ <<x, y>>[2] = y
    OBVIOUS
<1>2. s \in Seq({x, y, z}) /\ Len(s) = 3
    BY <1>1
<1>3. s[2] = y
    BY <1>1
<1>4. s[3] = z
    BY <1>1
<1> HIDE DEF s
<1>5. t \in Seq({x, y, z}) /\ Len(t) = 2
    BY <1>2
<1>6. t[1] = y /\ t[2] = z
    BY <1>2, <1>3, <1>4
<1> HIDE DEF t
<1>7. DOMAIN t = 1..2 /\ t = [i \in 1..2 |-> t[i]]
    BY <1>5
<1>8. /\ DOMAIN <<y, z>> = 1..2 /\ <<y, z>> = [i \in 1..2 |-> <<y, z>>[i]]
      /\ <<y, z>>[1] = y /\ <<y, z>>[2] = z
    OBVIOUS
<1>9. t = <<y, z>>
    BY <1>6, <1>7, <1>8
<1> QED
    BY <1>9 DEF s, t

-----------------------------------------------------------------------------
(* Which transitions there are *)

\* The i-th transition of event e.
Entry(e, i, source, dest, condition, next) ==
    /\ Transitions[e][i].source = source
    /\ Transitions[e][i].dest = dest
    /\ Transitions[e][i].condition = condition
    /\ Transitions[e][i].after = next

LEMMA Table ==
    /\ DOMAIN Transitions["assess_manage_page"] = 1..4
    /\ Entry("assess_manage_page", 1, "on_manage", "export_in_progress", "is_export_running", "")
    /\ Entry("assess_manage_page", 2, "on_manage", "backup_fresh", "is_backup_fresh", "")
    /\ Entry("assess_manage_page", 3, "on_manage", "selecting_archive", "has_archive_links",
             "select_archive")
    /\ Entry("assess_manage_page", 4, "on_manage", "requesting_archive", "", "")
    /\ DOMAIN Transitions["select_archive"] = 1..2
    /\ Entry("select_archive", 1, "selecting_archive", "on_archive", "has_newer_archive",
             "start_download")
    /\ Entry("select_archive", 2, "selecting_archive", "requesting_archive", "", "")
    /\ DOMAIN Transitions["start_download"] = 1..1
    /\ Entry("start_download", 1, "on_archive", "downloading", "", "finish_download")
    /\ DOMAIN Transitions["finish_download"] = 1..1
    /\ Entry("finish_download", 1, "downloading", "complete", "", "")
    /\ DOMAIN Transitions["quota_exceeded"] = 1..1
    /\ Entry("quota_exceeded", 1, "downloading", "requesting_archive", "", "")
<1>1. ASSUME NEW s, NEW a, s = <<a>> PROVE DOMAIN s = 1..1 /\ s[1] = a
    BY <1>1
<1>2. ASSUME NEW s, NEW a, NEW b, s = <<a, b>> PROVE DOMAIN s = 1..2 /\ s[1] = a /\ s[2] = b
    BY <1>2
<1>4. ASSUME NEW e, NEW i, NEW source, NEW dest, NEW condition, NEW next,
             Transitions[e][i] = T(source, dest, condition, next)
      PROVE  Entry(e, i, source, dest, condition, next)
    BY <1>4 DEF T, Entry
<1>5. /\ DOMAIN Transitions["assess_manage_page"] = 1..4
      /\ Entry("assess_manage_page", 1, "on_manage", "export_in_progress", "is_export_running", "")
      /\ Entry("assess_manage_page", 2, "on_manage", "backup_fresh", "is_backup_fresh", "")
      /\ Entry("assess_manage_page", 3, "on_manage", "selecting_archive", "has_archive_links", "select_archive")
      /\ Entry("assess_manage_page", 4, "on_manage", "requesting_archive", "", "")
  <2> DEFINE t1 == T("on_manage", "export_in_progress", "is_export_running", "")
  <2> DEFINE t2 == T("on_manage", "backup_fresh", "is_backup_fresh", "")
  <2> DEFINE t3 == T("on_manage", "selecting_archive", "has_archive_links", "select_archive")
  <2> DEFINE t4 == T("on_manage", "requesting_archive", "", "")
  <2>1. Transitions["assess_manage_page"] = <<t1, t2, t3, t4>>
      BY DEF Transitions
  <2> HIDE DEF t1, t2, t3, t4
  <2>2. /\ DOMAIN Transitions["assess_manage_page"] = 1..4
        /\ Transitions["assess_manage_page"][1] = t1
        /\ Transitions["assess_manage_page"][2] = t2
        /\ Transitions["assess_manage_page"][3] = t3
        /\ Transitions["assess_manage_page"][4] = t4
    <3>1. ASSUME NEW s, s = <<t1, t2, t3, t4>>
          PROVE DOMAIN s = 1..4 /\ s[1] = t1 /\ s[2] = t2 /\ s[3] = t3 /\ s[4] = t4
        BY <3>1
    <3> QED
        BY <2>1, <3>1, Zenon
  <2>3. Entry("assess_manage_page", 1, "on_manage", "export_in_progress", "is_export_running", "")
      BY <1>4, <2>2, Zenon DEF t1
  <2>4. Entry("assess_manage_page", 2, "on_manage", "backup_fresh", "is_backup_fresh", "")
      BY <1>4, <2>2, Zenon DEF t2
  <2>5. Entry("assess_manage_page", 3, "on_manage", "selecting_archive", "has_archive_links", "select_archive")
      BY <1>4, <2>2, Zenon DEF t3
  <2>6. Entry("assess_manage_page", 4, "on_manage", "requesting_archive", "", "")
      BY <1>4, <2>2, Zenon DEF t4
  <2> QED
      BY <2>2, <2>3, <2>4, <2>5, <2>6
<1>6. /\ DOMAIN Transitions["select_archive"] = 1..2
      /\ Entry("select_archive", 1, "selecting_archive", "on_archive", "has_newer_archive", "start_download")
      /\ Entry("select_archive", 2, "selecting_archive", "requesting_archive", "", "")
  <2> DEFINE t1 == T("selecting_archive", "on_archive", "has_newer_archive", "start_download")
  <2> DEFINE t2 == T("selecting_archive", "requesting_archive", "", "")
  <2>1. Transitions["select_archive"] = <<t1, t2>>
      BY DEF Transitions, select_archive
  <2> HIDE DEF t1, t2
  <2>2. /\ DOMAIN Transitions["select_archive"] = 1..2
        /\ Transitions["select_archive"][1] = t1
        /\ Transitions["select_archive"][2] = t2
      BY <1>2, <2>1, Zenon
  <2>3. Entry("select_archive", 1, "selecting_archive", "on_archive", "has_newer_archive", "start_download")
      BY <1>4, <2>2, Zenon DEF t1
  <2>4. Entry("select_archive", 2, "selecting_archive", "requesting_archive", "", "")
      BY <1>4, <2>2, Zenon DEF t2
  <2> QED
      BY <2>2, <2>3, <2>4
<1>7. /\ DOMAIN Transitions["start_download"] = 1..1
      /\ Entry("start_download", 1, "on_archive", "downloading", "", "finish_download")
  <2> DEFINE t1 == T("on_archive", "downloading", "", "finish_download")
  <2>1. Transitions["start_download"] = <<t1>>
      BY DEF Transitions
  <2> HIDE DEF t1
  <2>2. /\ DOMAIN Transitions["start_download"] = 1..1
        /\ Transitions["start_download"][1] = t1
      BY <1>1, <2>1, Zenon
  <2>3. Entry("start_download", 1, "on_archive", "downloading", "", "finish_download")
      BY <1>4, <2>2, Zenon DEF t1
  <2> QED
      BY <2>2, <2>3
<1>8. /\ DOMAIN Transitions["finish_download"] = 1..1
      /\ Entry("finish_download", 1, "downloading", "complete", "", "")
  <2> DEFINE t1 == T("downloading", "complete", "", "")
  <2>1. Transitions["finish_download"] = <<t1>>
      BY DEF Transitions
  <2> HIDE DEF t1
  <2>2. /\ DOMAIN Transitions["finish_download"] = 1..1
        /\ Transitions["finish_download"][1] = t1
      BY <1>1, <2>1, Zenon
  <2>3. Entry("finish_download", 1, "downloading", "complete", "", "")
      BY <1>4, <2>2, Zenon DEF t1
  <2> QED
      BY <2>2, <2>3
<1>9. /\ DOMAIN Transitions["quota_exceeded"] = 1..1
      /\ Entry("quota_exceeded", 1, "downloading", "requesting_archive", "", "")
  <2> DEFINE t1 == T("downloading", "requesting_archive", "", "")
  <2>1. Transitions["quota_exceeded"] = <<t1>>
      BY DEF Transitions
  <2> HIDE DEF t1
  <2>2. /\ DOMAIN Transitions["quota_exceeded"] = 1..1
        /\ Transitions["quota_exceeded"][1] = t1
      BY <1>1, <2>1, Zenon
  <2>3. Entry("quota_exceeded", 1, "downloading", "requesting_archive", "", "")
      BY <1>4, <2>2, Zenon DEF t1
  <2> QED
      BY <2>2, <2>3
<1> QED
    BY <1>5, <1>6, <1>7, <1>8, <1>9

\* What Trigger does when the machine goes to dest.
Goes(dest, next) ==
    /\ state' = dest /\ after' = next /\ phase' = "enter"
    /\ UNCHANGED <<run, available, requested, target_archive, archive_parts, queue, attempt, outcome>>

NoLinks == UNCHANGED <<archive_links, links>>
NoParts == UNCHANGED <<rest, got>>

FiredAssess ==
    /\ queue = <<"assess_manage_page">> /\ state = "on_manage" /\ NoParts
    /\ \/ Goes("export_in_progress", "") /\ NoLinks
       \/ Goes("backup_fresh", "") /\ NoLinks
       \/ /\ Goes("selecting_archive", "select_archive")
          /\ ~exporting /\ ~fresh /\ archive_links' = page /\ links' = page
       \/ Goes("requesting_archive", "") /\ ~exporting /\ ~fresh /\ NoLinks

FiredSelect ==
    /\ queue = <<"select_archive">> /\ state = "selecting_archive" /\ NoLinks /\ NoParts
    /\ \/ Goes("on_archive", "start_download") /\ target_archive # NoArchive
       \/ Goes("requesting_archive", "") /\ target_archive = NoArchive

FiredDownload ==
    /\ NoLinks
    /\ \/ /\ queue = <<"start_download">> /\ state = "on_archive"
          /\ Goes("downloading", "finish_download") /\ rest' = archive_parts /\ got' = {}
       \/ queue = <<"finish_download">> /\ state = "downloading" /\ Goes("complete", "") /\ NoParts
       \/ /\ queue = <<"quota_exceeded", "finish_download">> /\ state = "downloading"
          /\ Goes("requesting_archive", "") /\ NoParts

LEMMA Fires == Places /\ Trigger => FiredAssess \/ FiredSelect \/ FiredDownload
<1> SUFFICES ASSUME Places, Trigger PROVE FiredAssess \/ FiredSelect \/ FiredDownload
    OBVIOUS
<1>1. outcome = "running" /\ phase = "trigger" /\ queue # <<>>
    BY DEF Trigger, InPhase
<1>2. PICK shown \in IF state = "on_manage" THEN {page, <<>>} ELSE {archive_links} :
        \E i \in FirstMatch(Head(queue), shown) : Fire(Transitions[Head(queue)][i], shown)
    BY DEF Trigger
<1>3. PICK i \in FirstMatch(Head(queue), shown) : Fire(Transitions[Head(queue)][i], shown)
    BY <1>2
\* What is known of the entry that is taken.
<1>4. ASSUME NEW e, NEW dest, NEW condition, NEW next, Head(queue) = e,
             Entry(e, i, state, dest, condition, next),
             dest # "selecting_archive", dest # "downloading"
      PROVE  Goes(dest, next) /\ NoLinks /\ NoParts
    BY <1>3, <1>4 DEF Entry, Fire, Goes, NoLinks, NoParts
<1>5. ASSUME NEW e, Head(queue) = e
      PROVE  /\ i \in DOMAIN Transitions[e] /\ Transitions[e][i].source = state
             /\ Holds(Transitions[e][i].condition, shown)
             /\ \A j \in 1..(i - 1) : ~Holds(Transitions[e][j].condition, shown)
    BY <1>5, Zenon DEF FirstMatch
<1>6. CASE Processing(<<"assess_manage_page">>, Begun, {"on_manage"}, "")
  <2> DEFINE e == "assess_manage_page"
  <2>1. queue = <<e>> /\ Head(queue) = e /\ state = "on_manage"
      BY <1>6, ShortQueue DEF Processing
  <2>2. /\ DOMAIN Transitions[e] = 1..4
        /\ Entry(e, 1, state, "export_in_progress", "is_export_running", "")
        /\ Entry(e, 2, state, "backup_fresh", "is_backup_fresh", "")
        /\ Entry(e, 3, state, "selecting_archive", "has_archive_links", "select_archive")
        /\ Entry(e, 4, state, "requesting_archive", "", "")
      BY <2>1, Table, Zenon
  <2>3. /\ i \in 1..4 /\ Holds(Transitions[e][i].condition, shown)
        /\ \A j \in 1..(i - 1) : ~Holds(Transitions[e][j].condition, shown)
      BY <1>5, <2>1, <2>2, Zenon
  <2>4. ASSUME i \in {3, 4} PROVE ~exporting /\ ~fresh
    <3>1. 1 \in 1..(i - 1) /\ 2 \in 1..(i - 1)
        BY <2>4
    <3>2. ~Holds(Transitions[e][1].condition, shown) /\ ~Holds(Transitions[e][2].condition, shown)
        BY <2>3, <3>1
    <3>3. ~Holds("is_export_running", shown) /\ ~Holds("is_backup_fresh", shown)
        BY <2>2, <3>2, Zenon DEF Entry
    <3> QED
        BY <3>3 DEF Holds
  <2>5. CASE i = 1
    <3>1. Goes("export_in_progress", "") /\ NoLinks /\ NoParts
      <4>1. Entry(e, i, state, "export_in_progress", "is_export_running", "")
          BY <2>2, <2>5
      <4> QED
          BY <1>4, <2>1, <4>1, Zenon
    <3> QED
        BY <2>1, <3>1 DEF FiredAssess
  <2>6. CASE i = 2
    <3>1. Goes("backup_fresh", "") /\ NoLinks /\ NoParts
      <4>1. Entry(e, i, state, "backup_fresh", "is_backup_fresh", "")
          BY <2>2, <2>6
      <4> QED
          BY <1>4, <2>1, <4>1, Zenon
    <3> QED
        BY <2>1, <3>1 DEF FiredAssess
  <2>7. CASE i = 3
    <3>1. Entry(e, i, state, "selecting_archive", "has_archive_links", "select_archive")
        BY <2>2, <2>7
    <3>2. Holds("has_archive_links", shown)
        BY <2>3, <3>1, Zenon DEF Entry
    <3>3. shown = page
        BY <2>1, <3>2 DEF Holds
    <3>4. /\ Goes("selecting_archive", "select_archive")
          /\ archive_links' = shown /\ links' = shown /\ NoParts
        BY <1>3, <2>1, <3>1 DEF Entry, Fire, Goes, NoParts
    <3> QED
        BY <2>1, <2>4, <2>7, <3>3, <3>4 DEF FiredAssess
  <2>8. CASE i = 4
    <3>1. Goes("requesting_archive", "") /\ NoLinks /\ NoParts
      <4>1. Entry(e, i, state, "requesting_archive", "", "")
          BY <2>2, <2>8
      <4> QED
          BY <1>4, <2>1, <4>1, Zenon
    <3> QED
        BY <2>1, <2>4, <2>8, <3>1 DEF FiredAssess
  <2> QED
      BY <2>3, <2>5, <2>6, <2>7, <2>8
<1>7. CASE Processing(<<"select_archive">>, Begun, {"selecting_archive"}, "")
  <2> DEFINE e == "select_archive"
  <2>1. queue = <<e>> /\ Head(queue) = e /\ state = "selecting_archive"
      BY <1>7, ShortQueue DEF Processing
  <2>2. /\ DOMAIN Transitions[e] = 1..2
        /\ Entry(e, 1, state, "on_archive", "has_newer_archive", "start_download")
        /\ Entry(e, 2, state, "requesting_archive", "", "")
      BY <2>1, Table, Zenon
  <2>3. /\ i \in 1..2 /\ Holds(Transitions[e][i].condition, shown)
        /\ \A j \in 1..(i - 1) : ~Holds(Transitions[e][j].condition, shown)
      BY <1>5, <2>1, <2>2, Zenon
  <2>4. CASE i = 1
    <3>1. Entry(e, i, state, "on_archive", "has_newer_archive", "start_download")
        BY <2>2, <2>4
    <3>2. Holds("has_newer_archive", shown)
        BY <2>3, <3>1, Zenon DEF Entry
    <3>3. Goes("on_archive", "start_download") /\ NoLinks /\ NoParts
        BY <1>4, <2>1, <3>1, Zenon
    <3> QED
        BY <2>1, <3>2, <3>3 DEF FiredSelect, Holds
  <2>5. CASE i = 2
    <3>1. ~Holds(Transitions[e][1].condition, shown)
      <4>1. 1 \in 1..(i - 1)
          BY <2>5
      <4> QED
          BY <2>3, <4>1
    <3>2. ~Holds("has_newer_archive", shown)
        BY <2>2, <3>1, Zenon DEF Entry
    <3>3. Goes("requesting_archive", "") /\ NoLinks /\ NoParts
      <4>1. Entry(e, i, state, "requesting_archive", "", "")
          BY <2>2, <2>5
      <4> QED
          BY <1>4, <2>1, <4>1, Zenon
    <3> QED
        BY <2>1, <3>2, <3>3 DEF FiredSelect, Holds
  <2> QED
      BY <2>3, <2>4, <2>5
<1>8. CASE Processing(<<"start_download">>, Begun, {"on_archive"}, "")
  <2> DEFINE e == "start_download"
  <2>1. queue = <<e>> /\ Head(queue) = e /\ state = "on_archive"
      BY <1>8, ShortQueue DEF Processing
  <2>2. DOMAIN Transitions[e] = 1..1 /\ Entry(e, 1, state, "downloading", "", "finish_download")
      BY <2>1, Table, Zenon
  <2>3. i = 1
    <3>1. i \in 1..1
        BY <1>5, <2>1, <2>2, Zenon
    <3> QED
        BY <3>1
  <2>4. Entry(e, i, state, "downloading", "", "finish_download")
      BY <2>2, <2>3
  <2>5. Goes("downloading", "finish_download") /\ NoLinks /\ rest' = archive_parts /\ got' = {}
      BY <1>3, <2>1, <2>4 DEF Entry, Fire, Goes, NoLinks
  <2> QED
      BY <2>1, <2>5 DEF FiredDownload
<1>9. CASE Processing(<<"finish_download">>, Begun, {"downloading"}, "")
  <2> DEFINE e == "finish_download"
  <2>1. queue = <<e>> /\ Head(queue) = e /\ state = "downloading"
      BY <1>9, ShortQueue DEF Processing
  <2>2. DOMAIN Transitions[e] = 1..1 /\ Entry(e, 1, state, "complete", "", "")
      BY <2>1, Table, Zenon
  <2>3. i = 1
    <3>1. i \in 1..1
        BY <1>5, <2>1, <2>2, Zenon
    <3> QED
        BY <3>1
  <2>4. Entry(e, i, state, "complete", "", "")
      BY <2>2, <2>3
  <2>5. Goes("complete", "") /\ NoLinks /\ NoParts
      BY <1>4, <2>1, <2>4, Zenon
  <2> QED
      BY <2>1, <2>5 DEF FiredDownload
<1>10. CASE Processing(<<"quota_exceeded", "finish_download">>, Begun, {"downloading"}, "")
  <2> DEFINE e == "quota_exceeded"
  <2>1. queue = <<e, "finish_download">> /\ Head(queue) = e /\ state = "downloading"
      BY <1>10, ShortQueue DEF Processing
  <2>2. DOMAIN Transitions[e] = 1..1 /\ Entry(e, 1, state, "requesting_archive", "", "")
      BY <2>1, Table, Zenon
  <2>3. i = 1
    <3>1. i \in 1..1
        BY <1>5, <2>1, <2>2, Zenon
    <3> QED
        BY <3>1
  <2>4. Entry(e, i, state, "requesting_archive", "", "")
      BY <2>2, <2>3
  <2>5. Goes("requesting_archive", "") /\ NoLinks /\ NoParts
      BY <1>4, <2>1, <2>4, Zenon
  <2> QED
      BY <2>1, <2>5 DEF FiredDownload
\* quota_exceeded has brought the machine to a state that finish_download does not leave.
<1>11. CASE Processing(<<"finish_download">>, Begun, {"requesting_archive"}, "")
  <2> DEFINE e == "finish_download"
  <2>1. Head(queue) = e /\ state = "requesting_archive"
      BY <1>11, ShortQueue DEF Processing
  <2>2. DOMAIN Transitions[e] = 1..1 /\ Transitions[e][1].source = "downloading"
      BY Table, Zenon DEF Entry
  <2>3. i \in 1..1 /\ Transitions[e][i].source = "requesting_archive"
      BY <1>5, <2>1, <2>2, Zenon
  <2>4. i = 1
      BY <2>3
  <2> QED
      BY <2>2, <2>3, <2>4
<1> QED
    BY <1>1, <1>6, <1>7, <1>8, <1>9, <1>10, <1>11
    DEF Places, Assessing, Selecting, Downloading, OverQuota, Settled, Processing, Begun, Running

-----------------------------------------------------------------------------
(* Where the machine can be *)

LEMMA PlacesAfter == Places /\ After => Places'
<1> SUFFICES ASSUME Places, After PROVE Places'
    OBVIOUS
<1>1. /\ outcome = "running" /\ phase = "after" /\ queue # <<>> /\ queue' = Tail(Enqueue(after))
      /\ after' = "" /\ phase' = "trigger" /\ state' = state
    BY DEF After, InPhase, RunAfter
<1> USE <1>1 DEF Processing, Begun, Running
<1>2. CASE Assessing \/ Selecting \/ Downloading
  <2>1. ASSUME NEW e, queue = <<e>>, after = "", state \in Final PROVE Places'
    <3>1. queue' = <<>>
        BY <2>1, ShortQueue DEF Enqueue
    <3> QED
        BY <2>1, <3>1 DEF Settled, Final, Places
  <2>2. ASSUME NEW e, NEW f, queue = <<e>>, after = f, f # "" PROVE queue' = <<f>>
      BY <2>2, ShortQueue DEF Enqueue
  <2>3. CASE Assessing
    <3>1. CASE state = "selecting_archive"
      <4>1. queue = <<"assess_manage_page">> /\ after = "select_archive"
          BY <2>3, <3>1 DEF Assessing
      <4>2. queue' = <<"select_archive">>
          BY <2>2, <4>1, Zenon
      <4> QED
          BY <3>1, <4>2 DEF Selecting, Places
    <3>2. CASE state # "selecting_archive"
      <4>1. /\ queue = <<"assess_manage_page">> /\ after = ""
            /\ state \in Final
          BY <2>3, <3>2 DEF Assessing, Final
      <4> QED
          BY <2>1, <4>1, Zenon
    <3> QED
        BY <3>1, <3>2
  <2>4. CASE Selecting
    <3>1. CASE state = "on_archive"
      <4>1. queue = <<"select_archive">> /\ after = "start_download"
          BY <2>4, <3>1 DEF Selecting
      <4>2. queue' = <<"start_download">>
          BY <2>2, <4>1, Zenon
      <4> QED
          BY <3>1, <4>2 DEF Downloading, Places
    <3>2. CASE state # "on_archive"
      <4>1. queue = <<"select_archive">> /\ after = "" /\ state \in Final
          BY <2>4, <3>2 DEF Selecting, Final
      <4> QED
          BY <2>1, <4>1, Zenon
    <3> QED
        BY <3>1, <3>2
  <2>5. CASE Downloading
    <3>1. CASE state = "downloading"
      <4>1. queue = <<"start_download">> /\ after = "finish_download"
          BY <2>5, <3>1 DEF Downloading
      <4>2. queue' = <<"finish_download">>
          BY <2>2, <4>1, Zenon
      <4> QED
          BY <3>1, <4>2 DEF Downloading, Places
    <3>2. CASE state # "downloading"
      <4>1. queue = <<"finish_download">> /\ after = "" /\ state \in Final
          BY <2>5, <3>2 DEF Downloading, Final
      <4> QED
          BY <2>1, <4>1, Zenon
    <3> QED
        BY <3>1, <3>2
  <2> QED
      BY <1>2, <2>3, <2>4, <2>5
<1>3. CASE OverQuota
  <2>1. CASE state = "downloading"
    <3>1. queue = <<"start_download", "quota_exceeded">> /\ after = "finish_download"
        BY <1>3, <2>1 DEF OverQuota
    <3>2. queue' = Tail(Append(<<"start_download", "quota_exceeded">>, "finish_download"))
        BY <3>1 DEF Enqueue
    <3>3. Tail(Append(<<"start_download", "quota_exceeded">>, "finish_download"))
            = <<"quota_exceeded", "finish_download">>
        BY LongQueue, Zenon
    <3>4. queue' = <<"quota_exceeded", "finish_download">>
        BY <3>2, <3>3, Zenon
    <3> QED
        BY <2>1, <3>4 DEF OverQuota, Places
  <2>2. CASE state # "downloading"
    <3>1. /\ queue = <<"quota_exceeded", "finish_download">> /\ after = ""
          /\ state = "requesting_archive"
        BY <1>3, <2>2 DEF OverQuota
    <3>2. queue' = <<"finish_download">>
        BY <3>1, ShortQueue DEF Enqueue
    <3> QED
        BY <3>1, <3>2 DEF OverQuota, Places
  <2> QED
      BY <2>1, <2>2
<1> QED
    BY <1>1, <1>2, <1>3 DEF Places, Settled

LEMMA PlacesStep == Places /\ [Next]_vars => Places'
<1> SUFFICES ASSUME Places, [Next]_vars PROVE Places'
    OBVIOUS
<1> USE DEF Processing, Begun, Running
<1>1. CASE UNCHANGED <<outcome, queue, phase, state, after>>
    BY <1>1 DEF Places, Assessing, Selecting, Downloading, OverQuota, Settled
<1>2. CASE outcome' # "running"
    BY <1>2 DEF Places
<1>3. CASE Trigger
  <2>1. FiredAssess \/ FiredSelect \/ FiredDownload
      BY <1>3, Fires
  <2>2. CASE FiredAssess
      BY <2>2 DEF FiredAssess, Goes, Places, Assessing
  <2>3. CASE FiredSelect
      BY <2>3 DEF FiredSelect, Goes, Places, Selecting
  <2>4. CASE FiredDownload
      BY <2>4 DEF FiredDownload, Goes, Places, Downloading, OverQuota
  <2> QED
      BY <2>1, <2>2, <2>3, <2>4
<1>4. CASE After
    BY <1>4, PlacesAfter
\* on_enter ends.
<1>5. ASSUME outcome = "running", phase = "enter", phase' = "after", UNCHANGED <<outcome, queue, state, after>>
      PROVE  Places'
    BY <1>5 DEF Places, Assessing, Selecting, Downloading, OverQuota, Settled
<1>6. CASE NothingToEnter \/ FoundArchive \/ NoMoreLinks \/ RequestNewArchive \/ HandleArchivePage
           \/ AllDownloaded
  <2>1. /\ outcome = "running" /\ phase = "enter" /\ phase' = "after"
        /\ UNCHANGED <<outcome, queue, state, after>>
      BY <1>6 DEF NothingToEnter, FoundArchive, StopSearch, NoMoreLinks, RequestNewArchive,
          HandleArchivePage, AllDownloaded, Entering, InPhase, Entered
  <2> QED
      BY <1>5, <2>1
<1>7. CASE QuotaExceeded
  <2>1. /\ outcome = "running" /\ phase = "enter" /\ state = "downloading"
        /\ queue' = Append(queue, "quota_exceeded") /\ phase' = "after"
        /\ UNCHANGED <<outcome, state, after>>
      BY <1>7 DEF QuotaExceeded, Entering, InPhase, TriggerQuota, Entered
  <2>2. queue = <<"start_download">> /\ after = "finish_download"
      BY <2>1 DEF Places, Assessing, Selecting, Downloading, OverQuota, Settled, Final
  <2>3. queue' = <<"start_download", "quota_exceeded">>
      BY <2>1, <2>2, ShortQueue
  <2> QED
      BY <2>1, <2>2, <2>3 DEF Places, OverQuota
<1>8. CASE SkipLink \/ PartDownloaded \/ PartTimeout
    BY <1>1, <1>8 DEF SkipLink, PartDownloaded, PartTimeout
<1>9. CASE SaveCookies \/ Raise
    BY <1>2, <1>9 DEF SaveCookies, Raise
<1>10. ASSUME NEW a \in Archive, Expire(a) PROVE Places'
    BY <1>1, <1>10 DEF Expire
<1> QED
    BY <1>1, <1>3, <1>4, <1>6, <1>7, <1>8, <1>9, <1>10 DEF Next, Step, vars

-----------------------------------------------------------------------------
(* The types *)

LEMMA Events ==
    Event = {"assess_manage_page", "select_archive", "start_download", "finish_download",
             "quota_exceeded"}
BY DEF Event, Transitions

LEMMA ListedType == TypeOK => ListedParts \in Seq(Nat)
<1> SUFFICES ASSUME TypeOK PROVE ListedParts \in Seq(Nat)
    OBVIOUS
<1>1. available \subseteq Archive /\ Parts \in [Archive -> Seq(Nat)]
    BY TakeoutAssumption DEF TypeOK
<1>2. CASE target_archive \in available
  <2>1. target_archive \in Archive /\ ListedParts = Parts[target_archive]
      BY <1>1, <1>2 DEF ListedParts
  <2> QED
      BY <1>1, <2>1
<1>3. CASE target_archive \notin available
    BY <1>3 DEF ListedParts
<1> QED
    BY <1>2, <1>3

\* Every variable keeps its type.
LEMMA TypeStep == TypeOK /\ Places /\ [Next]_vars => TypeOK'
<1> SUFFICES ASSUME TypeOK, Places, [Next]_vars PROVE TypeOK'
    OBVIOUS
<1> USE DEF run, model, callback
<1>1. CASE Trigger
  <2>1. FiredAssess \/ FiredSelect \/ FiredDownload
      BY <1>1, Fires
  <2>2. CASE FiredAssess
      BY <2>2, Events DEF TypeOK, FiredAssess, Goes, NoLinks, NoParts, TakeoutStates
  <2>3. CASE FiredSelect
      BY <2>3, Events DEF TypeOK, FiredSelect, Goes, NoLinks, NoParts, TakeoutStates
  <2>4. CASE FiredDownload
      BY <2>4, Events DEF TypeOK, FiredDownload, Goes, NoLinks, NoParts, TakeoutStates
  <2> QED
      BY <2>1, <2>2, <2>3, <2>4
<1>2. CASE After
  <2>1. queue # <<>> /\ queue' = Tail(Enqueue(after)) /\ after' = "" /\ phase' = "trigger"
      BY <1>2 DEF After, InPhase, RunAfter
  <2>2. UNCHANGED <<run, available, requested, state, model, callback, outcome>>
      BY <1>2 DEF After
  <2>3. CASE after = ""
    <3>1. queue' = Tail(queue)
        BY <2>1, <2>3 DEF Enqueue
    <3>2. queue \in Seq(Event)
        BY DEF TypeOK
    <3>3. queue' \in Seq(Event)
        BY <2>1, <3>1, <3>2, HeadTail, Zenon
    <3> QED
        BY <2>1, <2>2, <3>3 DEF TypeOK
  <2>4. CASE after # ""
    <3>1. queue \in Seq(Event) /\ after \in Event
        BY <2>4 DEF TypeOK
    <3>2. queue' = Tail(Append(queue, after))
        BY <2>1, <2>4 DEF Enqueue
    <3>3. queue' \in Seq(Event)
        BY <3>1, <3>2, AppendTail, Zenon
    <3> QED
        BY <2>1, <2>2, <3>3 DEF TypeOK
  <2> QED
      BY <2>3, <2>4
\* Of the rest of the state one part changes at a time.
<1>3. CASE NothingToEnter \/ NoMoreLinks \/ AllDownloaded \/ RequestNewArchive
  <2>1. requested' \in {requested, requested + 1}
      BY <1>3 DEF NothingToEnter, NoMoreLinks, AllDownloaded, RequestNewArchive
  <2>2. requested' \in Nat
    <3>1. requested \in Nat
        BY DEF TypeOK
    <3> QED
        BY <2>1, <3>1
  <2>3. /\ UNCHANGED <<run, available, state, after, outcome, model, queue, callback>>
        /\ phase' = "after"
      BY <1>3 DEF NothingToEnter, NoMoreLinks, AllDownloaded, RequestNewArchive, Entered
  <2> QED
      BY <2>2, <2>3 DEF TypeOK
<1>4. CASE SkipLink
    BY <1>4, HeadTail DEF TypeOK, SkipLink
<1>5. CASE FoundArchive
  <2>1. target_archive' = Head(links) /\ links # <<>> /\ links' = <<>> /\ phase' = "after"
      BY <1>5 DEF FoundArchive, StopSearch, Entered
  <2>2. UNCHANGED <<run, available, requested, state, archive_links, archive_parts, queue, after, rest,
                    attempt, got, outcome>>
      BY <1>5 DEF FoundArchive, StopSearch, Entered
  <2>3. target_archive' \in Archive
    <3>1. links \in Seq(Archive)
        BY DEF TypeOK
    <3> QED
        BY <2>1, <3>1, HeadTail
  <2>4. links' \in Seq(Archive)
      BY <2>1
  <2> QED
      BY <2>1, <2>2, <2>3, <2>4 DEF TypeOK
<1>6. CASE HandleArchivePage
    BY <1>6, ListedType DEF TypeOK, HandleArchivePage, Entered
<1>7. CASE PartDownloaded
  <2>1. Head(rest) \in Nat /\ Tail(rest) \in Seq(Nat)
      BY <1>7, HeadTail DEF TypeOK, PartDownloaded
  <2>2. 1 \in 1..DOWNLOAD_ATTEMPTS
      BY TakeoutAssumption
  <2> QED
      BY <1>7, <2>1, <2>2 DEF TypeOK, PartDownloaded
<1>8. CASE PartTimeout
  <2>1. attempt < DOWNLOAD_ATTEMPTS
      BY <1>8 DEF PartTimeout, AttemptLeft
  <2>2. attempt + 1 \in 1..DOWNLOAD_ATTEMPTS
    <3>1. attempt \in 1..DOWNLOAD_ATTEMPTS
        BY DEF TypeOK
    <3> QED
        BY <2>1, <3>1, TakeoutAssumption
  <2> QED
      BY <1>8, <2>2, ListedType DEF TypeOK, PartTimeout
<1>9. CASE QuotaExceeded
  <2>1. queue' = Append(queue, "quota_exceeded") /\ rest' = <<>> /\ phase' = "after"
      BY <1>9 DEF QuotaExceeded, TriggerQuota, Entered
  <2>2. UNCHANGED <<run, available, requested, state, model, after, links, attempt, got, outcome>>
      BY <1>9 DEF QuotaExceeded, Entered
  <2>3. "quota_exceeded" \in Event
      BY Events
  <2>4. queue' \in Seq(Event)
    <3>1. queue \in Seq(Event)
        BY DEF TypeOK
    <3> QED
        BY <2>1, <2>3, <3>1
  <2>5. rest' \in Seq(Nat)
      BY <2>1
  <2> QED
      BY <2>1, <2>2, <2>4, <2>5 DEF TypeOK
<1>10. CASE SaveCookies \/ Raise
  <2>1. queue' = <<>> /\ outcome' \in {"saved", "raised"}
      BY <1>10 DEF SaveCookies, Raise
  <2>2. UNCHANGED <<run, available, requested, state, model, phase, after, callback>>
      BY <1>10 DEF SaveCookies, Raise
  <2>3. queue' \in Seq(Event)
      BY <2>1
  <2> QED
      BY <2>1, <2>2, <2>3 DEF TypeOK
<1>11. ASSUME NEW a \in Archive, Expire(a) PROVE TypeOK'
    BY <1>11 DEF TypeOK, Expire
<1>12. CASE UNCHANGED vars
    BY <1>12 DEF TypeOK, vars
<1> QED
    BY <1>1, <1>2, <1>3, <1>4, <1>5, <1>6, <1>7, <1>8, <1>9, <1>10, <1>11, <1>12 DEF Next, Step

-----------------------------------------------------------------------------
(* The search for an archive *)

LEMMA SearchStep == IInv /\ [Next]_vars => Search' /\ TargetIsNewest'
<1> SUFFICES ASSUME IInv, [Next]_vars PROVE Search' /\ TargetIsNewest'
    OBVIOUS
<1> USE DEF IInv, run, model, callback
<1>0. Members(<<>>) = {} /\ Descending(<<>>)
    BY DEF Members, Descending
\* What is searched stays as it is, and fewer archives can be had.
<1>1. ASSUME available' \subseteq available,
             UNCHANGED <<page, last_snapshot_timestamp, target_archive, archive_links, links>>,
             UNCHANGED <<state, phase>>, outcome' # "running" \/ UNCHANGED outcome
      PROVE  Search' /\ TargetIsNewest'
    BY <1>1 DEF Search, TargetIsNewest, IsNewer
<1>2. CASE UNCHANGED vars \/ (\E a \in Archive : Expire(a))
    BY <1>1, <1>2 DEF vars, Expire
<1>3. CASE SaveCookies \/ Raise
    BY <1>1, <1>3 DEF SaveCookies, Raise
\* Elsewhere in the run there is nothing left to search.
<1>4. ASSUME links = <<>>, state' # "on_manage" \/ state = "on_manage",
             ~(state' = "selecting_archive" /\ phase' = "enter"),
             UNCHANGED <<page, available, last_snapshot_timestamp, target_archive, archive_links, links>>
      PROVE  Search' /\ TargetIsNewest'
    BY <1>0, <1>4 DEF Search, TargetIsNewest, IsNewer
<1>5. CASE Trigger
  <2>1. outcome = "running" /\ phase = "trigger" /\ links = <<>>
      BY <1>5 DEF Trigger, InPhase, Search
  <2>2. FiredAssess \/ FiredSelect \/ FiredDownload
      BY <1>5, Fires
  <2>3. CASE FiredSelect \/ FiredDownload
      BY <1>4, <2>1, <2>3 DEF FiredSelect, FiredDownload, Goes, NoLinks
  <2>4. CASE FiredAssess /\ state' # "selecting_archive"
      BY <1>4, <2>1, <2>4 DEF FiredAssess, Goes, NoLinks
  <2>5. CASE FiredAssess /\ state' = "selecting_archive"
    <3>1. /\ links' = page /\ archive_links' = page /\ target_archive' = NoArchive
          /\ UNCHANGED <<page, available>> /\ phase' = "enter"
        BY <2>5 DEF FiredAssess, Goes, Search
    <3> QED
        BY <2>5, <3>1 DEF Search, TargetIsNewest
  <2> QED
      BY <2>2, <2>3, <2>4, <2>5
<1>6. CASE After
    BY <1>4, <1>6 DEF After, InPhase, Search
<1>7. CASE NothingToEnter \/ RequestNewArchive \/ HandleArchivePage \/ AllDownloaded \/ QuotaExceeded
  <2>1. /\ outcome = "running" /\ state # "selecting_archive" /\ phase' = "after" /\ state' = state
        /\ UNCHANGED <<page, available, last_snapshot_timestamp, target_archive, archive_links, links>>
      BY <1>7 DEF NothingToEnter, RequestNewArchive, HandleArchivePage, AllDownloaded, QuotaExceeded,
          Entering, InPhase, Entered
  <2> QED
      BY <1>4, <2>1 DEF Search
<1>8. CASE PartDownloaded \/ PartTimeout
    BY <1>1, <1>8 DEF PartDownloaded, PartTimeout
<1>9. CASE NoMoreLinks
    BY <1>4, <1>9 DEF NoMoreLinks, Entering, InPhase, Entered
\* Of the links to come all are older than the first of them.
<1>10. CASE SkipLink \/ FoundArchive
  <2>1. links \in Seq(Archive) /\ links # <<>> /\ links \in Seq(Nat)
    <3>1. links \in Seq(Archive) /\ links # <<>>
        BY <1>10 DEF TypeOK, SkipLink, FoundArchive
    <3>2. Archive \subseteq Nat
        BY TakeoutAssumption
    <3> QED
        BY <3>1, <3>2, SeqOfMore
  <2>2. Members(links) = {Head(links)} \cup Members(Tail(links)) /\ Head(links) \in Archive
      BY <2>1, HeadTail
  <2>3. Descending(Tail(links)) /\ \A a \in Members(links) : a <= Head(links)
      BY <2>1, DescendingTail DEF Search
  <2>4. state = "selecting_archive" /\ phase = "enter" /\ target_archive = NoArchive
      BY <1>10 DEF SkipLink, FoundArchive, Entering, InPhase, Search
  <2>5. CASE SkipLink
    <3>1. /\ UNCHANGED <<page, available, last_snapshot_timestamp, target_archive, archive_links, state, phase, outcome>>
          /\ links' = Tail(links) /\ (Head(links) \in available => ~IsNewer(Head(links)))
        BY <2>5 DEF SkipLink
    <3> QED
        BY <2>2, <2>3, <2>4, <3>1 DEF Search, TargetIsNewest, IsNewer
  <2>6. CASE FoundArchive
    <3>1. /\ UNCHANGED <<page, available, last_snapshot_timestamp, archive_links, state, outcome>>
          /\ links' = <<>> /\ phase' = "after" /\ target_archive' = Head(links) /\ IsNewer(Head(links))
        BY <2>6 DEF FoundArchive, StopSearch, Entered
    <3>2. Head(links) # NoArchive /\ Head(links) \in Nat
        BY <2>2, TakeoutAssumption
    <3>3. ASSUME NEW a \in available \cap Members(archive_links) PROVE a <= Head(links)
      <4>1. a \in Members(links) \/ ~IsNewer(a)
          BY <2>4, <3>3 DEF Search
      <4>2. a \in Nat
          BY <3>3, TakeoutAssumption DEF TypeOK
      <4>3. ASSUME ~IsNewer(a) PROVE a <= Head(links)
        <5>1. last_snapshot_timestamp \in Nat /\ ~(a > last_snapshot_timestamp)
            BY <4>3 DEF IsNewer, TypeOK
        <5>2. Head(links) > last_snapshot_timestamp
            BY <3>1, <4>3 DEF IsNewer
        <5> QED
            BY <3>2, <4>2, <5>1, <5>2
      <4> QED
          BY <2>3, <4>1, <4>3
    <3> QED
        BY <1>0, <2>4, <3>1, <3>2, <3>3 DEF Search, TargetIsNewest
  <2> QED
      BY <1>10, <2>5, <2>6
<1> QED
    BY <1>2, <1>3, <1>5, <1>6, <1>7, <1>8, <1>9, <1>10 DEF Next, Step

-----------------------------------------------------------------------------
(* The request for an export *)

LEMMA RequestStep == IInv /\ [Next]_vars => Assessed' /\ RequestOnlyIfNeeded'
<1> SUFFICES ASSUME IInv, [Next]_vars PROVE Assessed' /\ RequestOnlyIfNeeded'
    OBVIOUS
<1> USE DEF IInv, run, model, callback
\* Nothing is requested and nothing is assessed.
<1>1. ASSUME available' \subseteq available, phase' = phase \/ state # "requesting_archive" \/ phase = "after",
             phase = "after" => phase' # "enter",
             UNCHANGED <<exporting, fresh, last_snapshot_timestamp, requested, state, target_archive, archive_links>>
      PROVE  Assessed' /\ RequestOnlyIfNeeded'
    BY <1>1 DEF Assessed, RequestOnlyIfNeeded, IsNewer
<1>2. CASE UNCHANGED vars \/ (\E a \in Archive : Expire(a))
    BY <1>1, <1>2 DEF vars, Expire
<1>3. CASE SaveCookies \/ Raise
    BY <1>1, <1>3 DEF SaveCookies, Raise
<1>4. CASE SkipLink \/ NoMoreLinks \/ HandleArchivePage \/ NothingToEnter
    BY <1>1, <1>4 DEF SkipLink, NoMoreLinks, HandleArchivePage, NothingToEnter, Entering, InPhase, Entered
<1>5. CASE PartDownloaded \/ PartTimeout \/ QuotaExceeded \/ AllDownloaded
    BY <1>1, <1>5 DEF PartDownloaded, PartTimeout, QuotaExceeded, AllDownloaded, Entering, InPhase, Entered
<1>6. CASE After
    BY <1>1, <1>6 DEF After, InPhase
<1>7. CASE Trigger
  <2>1. phase = "trigger"
      BY <1>7 DEF Trigger, InPhase
  <2>2. FiredAssess \/ FiredSelect \/ FiredDownload
      BY <1>7, Fires
  <2>3. state # "requesting_archive" /\ phase' = "enter" /\ UNCHANGED <<exporting, fresh, requested>>
      BY <2>2 DEF FiredAssess, FiredSelect, FiredDownload, Goes
  <2>4. requested = 0 /\ requested' = 0
      BY <2>3 DEF Assessed
  <2>5. state' # "on_manage"
      BY <2>2 DEF FiredAssess, FiredSelect, FiredDownload, Goes
  <2>6. state' \notin {"on_manage", "export_in_progress", "backup_fresh"} => ~exporting /\ ~fresh
      BY <2>2 DEF FiredAssess, FiredSelect, FiredDownload, Goes, Assessed
  <2> QED
      BY <2>3, <2>4, <2>5, <2>6 DEF Assessed, RequestOnlyIfNeeded
<1>8. CASE FoundArchive
  <2>1. /\ state = "selecting_archive" /\ UNCHANGED <<exporting, fresh, requested, state>>
        /\ requested = 0
      BY <1>8 DEF FoundArchive, StopSearch, Entering, InPhase, Entered, Assessed
  <2> QED
      BY <2>1 DEF Assessed, RequestOnlyIfNeeded
\* No link is left to visit: what is listed was tried.
<1>9. CASE RequestNewArchive
  <2>1. /\ outcome = "running" /\ state = "requesting_archive" /\ phase = "enter" /\ phase' = "after"
        /\ requested' = requested + 1
        /\ UNCHANGED <<available, exporting, fresh, last_snapshot_timestamp, state, target_archive, archive_links>>
      BY <1>9 DEF RequestNewArchive, Entering, InPhase, Entered
  <2>2. requested' = 1 /\ ~exporting /\ ~fresh
      BY <2>1 DEF Assessed
  <2>3. links = <<>> /\ Members(<<>>) = {}
      BY <2>1 DEF Search, Members
  <2>4. ASSUME NEW a \in available \cap Members(archive_links), IsNewer(a) PROVE target_archive # NoArchive
      BY <2>3, <2>4 DEF Search
  <2> QED
      BY <2>1, <2>2, <2>4 DEF Assessed, RequestOnlyIfNeeded, IsNewer
<1> QED
    BY <1>2, <1>3, <1>4, <1>5, <1>6, <1>7, <1>8, <1>9 DEF Next, Step

-----------------------------------------------------------------------------
(* The parts *)

LEMMA ListedChoice ==
    TypeOK => ListedParts \in {<<>>} \cup {Parts[a] : a \in Archive \cap {target_archive}}
BY DEF TypeOK, ListedParts

LEMMA PartsStep == IInv /\ [Next]_vars => Listed' /\ PartsLeft' /\ AllOrNothing'
<1> SUFFICES ASSUME IInv, [Next]_vars PROVE Listed' /\ PartsLeft' /\ AllOrNothing'
    OBVIOUS
<1> USE DEF IInv, run, model, callback
\* The list stays as it is, and no part is taken from it.
<1>1. ASSUME UNCHANGED <<state, target_archive, archive_parts, rest, got>>,
             outcome' = "running" /\ state = "downloading" /\ Downloading' =>
                 outcome = "running" /\ Downloading /\ (phase' # "enter" => rest = <<>>)
      PROVE  Listed' /\ PartsLeft' /\ AllOrNothing'
    BY <1>1 DEF Listed, PartsLeft, AllOrNothing
<1>2. CASE UNCHANGED vars \/ (\E a \in Archive : Expire(a))
  <2>1. UNCHANGED <<state, target_archive, archive_parts, rest, got, outcome, queue, phase, after>>
      BY <1>2 DEF vars, Expire
  <2>2. Downloading' => Downloading
      BY <2>1 DEF Downloading, Processing
  <2> QED
      BY <1>1, <2>1, <2>2 DEF PartsLeft
<1>3. CASE SaveCookies \/ Raise
    BY <1>1, <1>3 DEF SaveCookies, Raise
<1>4. CASE NothingToEnter \/ RequestNewArchive \/ NoMoreLinks \/ SkipLink
    BY <1>1, <1>4 DEF NothingToEnter, RequestNewArchive, NoMoreLinks, SkipLink, Entering, InPhase, Entered
<1>5. CASE AllDownloaded
  <2>1. /\ outcome = "running" /\ state = "downloading" /\ phase = "enter" /\ rest = <<>> /\ phase' = "after"
        /\ UNCHANGED <<state, target_archive, archive_parts, rest, got, outcome, queue, after>>
      BY <1>5 DEF AllDownloaded, Entering, InPhase, Entered
  <2>2. Downloading' => Downloading
      BY <2>1 DEF Downloading, Processing, Begun, Running
  <2> QED
      BY <1>1, <2>1, <2>2
<1>6. CASE After
  <2>1. /\ outcome = "running" /\ phase = "after" /\ queue' = Tail(Enqueue(after)) /\ phase' = "trigger"
        /\ UNCHANGED <<state, target_archive, archive_parts, rest, got, outcome>>
      BY <1>6 DEF After, InPhase, RunAfter
  <2>2. ASSUME state = "downloading", Downloading' PROVE Downloading
    <3>1. queue' = <<"finish_download">>
        BY <2>1, <2>2 DEF Downloading, Processing, Begun, Running
    <3>2. CASE OverQuota
      <4>1. queue = <<"start_download", "quota_exceeded">> /\ after = "finish_download"
          BY <2>1, <2>2, <3>2 DEF OverQuota, Processing, Begun, Running
      <4>2. queue' = Tail(Append(<<"start_download", "quota_exceeded">>, "finish_download"))
          BY <2>1, <4>1 DEF Enqueue
      <4>3. queue' = <<"quota_exceeded", "finish_download">>
          BY <4>2, LongQueue, Zenon
      <4> QED
          BY <3>1, <4>3
    <3>3. Downloading \/ OverQuota
      <4>1. outcome = "running" /\ state = "downloading"
          BY <2>1, <2>2
      <4>2. ~Assessing /\ ~Selecting /\ ~Settled
          BY <4>1 DEF Assessing, Selecting, Settled, Final, Processing
      <4> QED
          BY <4>1, <4>2 DEF Places
    <3> QED
        BY <3>2, <3>3
  <2> QED
      BY <1>1, <2>1, <2>2 DEF PartsLeft
\* The list is made, or made again.
<1>7. CASE HandleArchivePage \/ PartTimeout
  <2>1. /\ archive_parts' = ListedParts /\ outcome = "running"
        /\ UNCHANGED <<state, target_archive, rest, got, outcome, queue, after>>
        /\ state \in {"on_archive", "downloading"} /\ (state = "downloading" => UNCHANGED phase)
      BY <1>7 DEF HandleArchivePage, PartTimeout, Entering, InPhase, Entered
  <2>2. Listed'
      BY <2>1, ListedChoice DEF Listed
  <2>3. state = "downloading" /\ Downloading' => Downloading
      BY <2>1 DEF Downloading, Processing
  <2> QED
      BY <2>1, <2>2, <2>3 DEF PartsLeft, AllOrNothing
<1>8. CASE FoundArchive
  <2>1. /\ state = "selecting_archive" /\ phase = "enter" /\ UNCHANGED <<state, archive_parts, rest, got>>
      BY <1>8 DEF FoundArchive, StopSearch, Entering, InPhase, Entered
  <2>2. target_archive \notin Archive
      BY <2>1, TakeoutAssumption DEF Search
  <2>3. archive_parts' = <<>>
      BY <2>1, <2>2 DEF Listed
  <2> QED
      BY <2>1, <2>3 DEF Listed, PartsLeft, AllOrNothing
\* A part goes from what is left to what is got.
<1>9. CASE PartDownloaded
  <2>1. /\ outcome = "running" /\ state = "downloading" /\ phase = "enter" /\ rest # <<>> /\ rest \in Seq(Nat)
        /\ got' = got \cup {Head(rest)} /\ rest' = Tail(rest)
        /\ UNCHANGED <<state, target_archive, archive_parts, outcome, queue, phase, after>>
      BY <1>9 DEF PartDownloaded, Entering, InPhase, TypeOK
  <2>2. got' \cup Members(rest') = got \cup Members(rest)
      BY <2>1, HeadTail
  <2>3. Downloading' => Downloading
      BY <2>1 DEF Downloading, Processing
  <2> QED
      BY <2>1, <2>2, <2>3 DEF Listed, PartsLeft, AllOrNothing
\* The quota is used up: another event is waiting.
<1>10. CASE QuotaExceeded
  <2>1. /\ outcome = "running" /\ state = "downloading" /\ phase = "enter"
        /\ queue' = Append(queue, "quota_exceeded")
        /\ UNCHANGED <<state, target_archive, archive_parts, got>>
      BY <1>10 DEF QuotaExceeded, Entering, InPhase, TriggerQuota, Entered
  <2>2. queue = <<"start_download">>
      BY <2>1 DEF Places, Assessing, Selecting, Downloading, OverQuota, Settled, Final, Processing, Begun, Running
  <2>3. queue' = <<"start_download", "quota_exceeded">>
      BY <2>1, <2>2, ShortQueue, Zenon
  <2>4. ~Downloading'
      BY <2>3 DEF Downloading, Processing
  <2> QED
      BY <2>1, <2>4 DEF Listed, PartsLeft, AllOrNothing
<1>11. CASE Trigger
  <2>1. outcome = "running" /\ phase = "trigger"
      BY <1>11 DEF Trigger, InPhase
  <2>2. FiredAssess \/ FiredSelect \/ FiredDownload
      BY <1>11, Fires
  <2>3. CASE FiredAssess
      BY <2>3 DEF FiredAssess, Goes, Listed, PartsLeft, AllOrNothing
  <2>4. CASE FiredSelect
      BY <2>4 DEF FiredSelect, Goes, Listed, PartsLeft, AllOrNothing
  <2>5. CASE FiredDownload
    <3>1. CASE state = "on_archive"
      <4>1. /\ state' = "downloading" /\ phase' = "enter" /\ rest' = archive_parts /\ got' = {}
            /\ UNCHANGED <<target_archive, archive_parts>>
          BY <2>5, <3>1 DEF FiredDownload, Goes
      <4>2. Members(<<>>) = {}
          BY DEF Members
      <4>3. Members(archive_parts) \in {{}, Members(Parts[target_archive])}
          BY <4>2 DEF Listed
      <4> QED
          BY <3>1, <4>1, <4>3 DEF Listed, PartsLeft, AllOrNothing
    <3>2. CASE state = "downloading" /\ state' = "complete"
      <4>1. queue = <<"finish_download">> /\ UNCHANGED <<target_archive, archive_parts, got>>
          BY <2>5, <3>2 DEF FiredDownload, Goes, NoParts
      <4>2. Downloading
          BY <2>1, <3>2, <4>1 DEF Places, Assessing, Selecting, Downloading, OverQuota, Settled, Final,
              Processing, Begun, Running
      <4>3. rest = <<>> /\ got \cup Members(rest) \in {{}, Members(Parts[target_archive])}
          BY <2>1, <3>2, <4>2 DEF PartsLeft
      <4>4. Members(<<>>) = {}
          BY DEF Members
      <4>5. got \in {{}, Members(Parts[target_archive])}
          BY <4>3, <4>4
      <4> QED
          BY <3>2, <4>1, <4>5 DEF Listed, PartsLeft, AllOrNothing
    <3>3. CASE state = "downloading" /\ state' # "complete"
      <4>1. state' = "requesting_archive" /\ UNCHANGED <<target_archive, archive_parts>>
          BY <2>5, <3>3 DEF FiredDownload, Goes
      <4> QED
          BY <4>1 DEF Listed, PartsLeft, AllOrNothing
    <3> QED
        BY <2>5, <3>1, <3>2, <3>3 DEF FiredDownload
  <2> QED
      BY <2>2, <2>3, <2>4, <2>5
<1> QED
    BY <1>2, <1>3, <1>4, <1>5, <1>6, <1>7, <1>8, <1>9, <1>10, <1>11 DEF Next, Step

-----------------------------------------------------------------------------
(* The end of the run, and the theorems *)

LEMMA SavedStep == IInv /\ [Next]_vars => SavedWhenSettled'
<1> SUFFICES ASSUME IInv, [Next]_vars, outcome' = "saved" PROVE state' \in Final /\ queue' = <<>>
    BY DEF SavedWhenSettled
<1> USE DEF IInv
<1>1. CASE SaveCookies
  <2>1. outcome = "running" /\ queue = <<>> /\ UNCHANGED <<state, queue>>
      BY <1>1 DEF SaveCookies
  <2>2. Settled
      BY <2>1 DEF Places, Assessing, Selecting, Downloading, OverQuota, Processing
  <2> QED
      BY <2>1, <2>2 DEF Settled, Processing
<1>2. CASE UNCHANGED <<state, queue, outcome>>
    BY <1>2 DEF SavedWhenSettled
<1>3. CASE Step /\ ~SaveCookies
  <2>1. outcome = "running" /\ outcome' # "saved"
      BY <1>3 DEF Step, Trigger, Fire, After, NothingToEnter, RequestNewArchive, HandleArchivePage, SkipLink,
          FoundArchive, StopSearch, NoMoreLinks, PartDownloaded, PartTimeout, QuotaExceeded, AllDownloaded,
          Raise, Entering, Entered, InPhase
  <2> QED
      BY <2>1
<1>4. ASSUME NEW a \in Archive, Expire(a) PROVE UNCHANGED <<state, queue, outcome>>
    BY <1>4 DEF Expire
<1> QED
    BY <1>1, <1>2, <1>3, <1>4 DEF Next, vars

LEMMA InvInit == Init => IInv
<1> SUFFICES ASSUME Init PROVE IInv
    OBVIOUS
<1>1. page \in Pages /\ available \in SUBSET Members(page)
    BY DEF Init
<1>2. page \in Seq(Archive) /\ Descending(page)
  <2>1. Cardinality(Archive) \in Nat
      BY TakeoutAssumption, FS_CardinalityType
  <2>2. page \in UNION {[1..n -> Archive] : n \in 0..Cardinality(Archive)} /\ Descending(page)
      BY <1>1 DEF Pages, Descending
  <2>3. PICK n \in 0..Cardinality(Archive) : page \in [1..n -> Archive]
      BY <2>2
  <2>4. n \in Nat
      BY <2>1, <2>3
  <2> QED
      BY <2>2, <2>3, <2>4
<1>3. available \subseteq Archive
  <2>1. \A i \in DOMAIN page : page[i] \in Archive
      BY <1>2
  <2> QED
      BY <1>1, <2>1 DEF Members
<1>4. Members(<<>>) = {} /\ Descending(<<>>)
    BY DEF Members, Descending
<1>5. /\ target_archive = NoArchive /\ archive_links = <<>> /\ archive_parts = <<>> /\ links = <<>> /\ rest = <<>>
      /\ attempt = 1 /\ requested = 0 /\ got = {}
    BY DEF Init
<1>6. /\ state = "on_manage" /\ queue = <<"assess_manage_page">> /\ phase = "trigger" /\ after = ""
      /\ outcome = "running"
    BY DEF Init
<1>7. TypeOK
  <2>1. queue \in Seq(Event)
    <3>1. "assess_manage_page" \in Event
        BY Events
    <3>2. <<"assess_manage_page">> \in Seq(Event)
        BY <3>1
    <3> QED
        BY <1>6, <3>2, Zenon
  <2>2. attempt \in 1..DOWNLOAD_ATTEMPTS /\ requested \in Nat /\ got \subseteq Nat
      BY <1>5, TakeoutAssumption
  <2>3. last_snapshot_timestamp \in Nat \cup {NoStamp}
      BY TakeoutAssumption DEF Init
  <2>4. fresh \in BOOLEAN /\ exporting \in BOOLEAN
      BY DEF Init
  <2>5. archive_links \in Seq(Archive) /\ archive_parts \in Seq(Nat) /\ links \in Seq(Archive) /\ rest \in Seq(Nat)
      BY <1>5
  <2>6. /\ state \in TakeoutStates /\ phase \in {"trigger", "enter", "after"} /\ after \in Event \cup {""}
        /\ outcome \in {"running", "saved", "raised"} /\ target_archive \in Archive \cup {NoArchive}
      BY <1>5, <1>6 DEF TakeoutStates
  <2> QED
      BY <1>2, <1>3, <2>1, <2>2, <2>3, <2>4, <2>5, <2>6 DEF TypeOK
<1>8. Places
    BY <1>6 DEF Places, Assessing, Processing, Begun
<1>9. Search
  <2>1. Members(archive_links) = {} /\ Descending(links)
      BY <1>4, <1>5, Zenon
  <2> QED
      BY <1>2, <1>5, <2>1 DEF Search
<1>10. Assessed /\ Listed /\ PartsLeft
  <2>1. Assessed
      BY <1>5, <1>6 DEF Assessed
  <2>2. Listed
      BY <1>5, <1>6 DEF Listed
  <2>3. PartsLeft
      BY <1>6 DEF PartsLeft
  <2> QED
      BY <2>1, <2>2, <2>3
<1>11. AllOrNothing /\ TargetIsNewest /\ RequestOnlyIfNeeded /\ SavedWhenSettled
  <2>1. AllOrNothing /\ SavedWhenSettled
      BY <1>6 DEF AllOrNothing, SavedWhenSettled
  <2>2. TargetIsNewest
      BY <1>5 DEF TargetIsNewest
  <2>3. RequestOnlyIfNeeded
      BY <1>5 DEF RequestOnlyIfNeeded
  <2> QED
      BY <2>1, <2>2, <2>3
<1> QED
    BY <1>7, <1>8, <1>9, <1>10, <1>11 DEF IInv

LEMMA InvStep == IInv /\ [Next]_vars => IInv'
<1> SUFFICES ASSUME IInv, [Next]_vars PROVE IInv'
    OBVIOUS
<1>1. TypeOK' /\ Places'
    BY TypeStep, PlacesStep DEF IInv
<1>2. Search' /\ TargetIsNewest' /\ Assessed' /\ RequestOnlyIfNeeded'
    BY SearchStep, RequestStep
<1>3. Listed' /\ PartsLeft' /\ AllOrNothing' /\ SavedWhenSettled'
    BY PartsStep, SavedStep
<1> QED
    BY <1>1, <1>2, <1>3 DEF IInv

LEMMA InvAlways == Spec => []IInv
<1>1. Init => IInv
    BY InvInit
<1>2. IInv /\ [Next]_vars => IInv'
    BY InvStep
<1> QED
    BY <1>1, <1>2, PTL DEF Spec

\* Every variable of the run has its type.
THEOREM TakeoutTyped == Spec => []TypeOK
<1>1. IInv => TypeOK
    BY DEF IInv
<1> QED
    BY <1>1, InvAlways, PTL

\* A run that completes has downloaded all parts of its archive, or none because the archive expired
\* before they were listed (download_archive_parts, quota_exceeded).
THEOREM ArchiveIsWhole == Spec => []AllOrNothing
<1>1. IInv => AllOrNothing
    BY DEF IInv
<1> QED
    BY <1>1, InvAlways, PTL

\* find_most_recent_archive finds the newest archive that can be had.
THEOREM NewestIsFound == Spec => []TargetIsNewest
<1>1. IInv => TargetIsNewest
    BY DEF IInv
<1> QED
    BY <1>1, InvAlways, PTL

\* An export is requested once, when no export is running, the backup is not fresh and no newer
\* archive can be had.
THEOREM RequestsAreNeeded == Spec => []RequestOnlyIfNeeded
<1>1. IInv => RequestOnlyIfNeeded
    BY DEF IInv
<1> QED
    BY <1>1, InvAlways, PTL

\* main() saves the cookies only of a run that has come to rest in a final state.
THEOREM SavedAtRest == Spec => []SavedWhenSettled
<1>1. IInv => SavedWhenSettled
    BY DEF IInv
<1> QED
    BY <1>1, InvAlways, PTL
=============================================================================

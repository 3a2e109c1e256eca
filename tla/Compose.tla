-------------------------------- MODULE Compose --------------------------------
(***************************************************************************)
(* The compose form: a draft, settings and recipients; POSTs of it to      *)
(* /api/campaigns; and the campaigns that come of them.  Files are read    *)
(* asynchronously, answers may be lost, and a request may reach the server *)
(* after the browser has given it up.                                      *)
(*                                                                         *)
(* Subject and body are one draft, with a number that is new whenever the  *)
(* user writes; 0 is a blank one.  The clock counts minutes.               *)
(***************************************************************************)
EXTENDS Integers, Recipients

CONSTANTS
    Texts,        \* texts to paste or to upload
    Settings,     \* values of [startAt, delaySec, maxPerHour] to choose
    LastMinute,   \* bound: the clock stops here
    MaxDrafts,    \* bound: drafts written
    MaxPresses,   \* bound: presses of "Schedule campaign"
    MaxFiles,     \* bound: files being read at a time
    NoResult

ASSUME ComposeAssumption ==
    /\ Settings \subseteq [startAt : Int, delaySec : Int, maxPerHour : Int]
    /\ Settings # {}
    /\ {LastMinute, MaxDrafts, MaxPresses, MaxFiles} \subseteq Nat
ASSUME TextsAssumption == Texts \subseteq Seq(Tokens)

VARIABLES
    now,          \* the clock
    draft, settings, recipients, problems, submitting,   \* ComposePage
    shown,        \* RecipientUpload: result
    source,       \* history: the text that shown was read from
    reading,      \* files whose text() has not resolved yet
    posts,        \* requests that the server has not answered, or the browser awaits
    campaigns,    \* Postgres: the campaigns, each with its rows
    drafts, presses,   \* history: how many there have been
    errors        \* history: the presses for which an error was shown

form == <<draft, settings, recipients, problems, submitting>>
box  == <<shown, source, reading>>
net  == <<posts, campaigns>>
past == <<drafts, presses, errors>>
vars == <<now, form, box, net, past>>

-----------------------------------------------------------------------------
\* The list under the form ...
DelayMustBePositive(s) == s.delaySec <= 0                         \* mutant
DelayProblem(s) == s.delaySec < 0

Problems(d, s, r) ==
    {p \in {"draft", "recipients", "startAt", "delaySec", "maxPerHour"} :
        \/ p = "draft" /\ d = 0
        \/ p = "recipients" /\ r.valid = <<>>
        \/ p = "startAt" /\ s.startAt < now + 1
        \/ p = "delaySec" /\ DelayProblem(s)
        \/ p = "maxPerHour" /\ s.maxPerHour < 1}

\* ... and createCampaignSchema, on what is posted.
MaxDelay == 300
MaxHourly == 10000

Accepted(p) ==
    /\ p.draft # 0
    /\ AddressesAccepted(p.to)
    /\ p.settings.startAt > now + 1
    /\ p.settings.delaySec \in 0..MaxDelay
    /\ p.settings.maxPerHour \in 1..MaxHourly

\* useMemo: the list is computed again when one of the fields has changed, and
\* not because time has passed.
Edit(d, s, r) ==
    /\ draft' = d
    /\ settings' = s
    /\ recipients' = r
    /\ problems' = IF <<d, s, Len(r.valid)>> = <<draft, settings, Len(recipients.valid)>>
                   THEN problems ELSE Problems(d, s, r)

Write ==
    /\ drafts < MaxDrafts
    /\ drafts' = drafts + 1
    /\ Edit(drafts + 1, settings, recipients)
    /\ UNCHANGED <<now, submitting, box, net, presses, errors>>

Choose(s) ==
    /\ Edit(draft, s, recipients)
    /\ UNCHANGED <<now, submitting, box, net, past>>

-----------------------------------------------------------------------------
\* handle(): the box and the form get the same result.
KeepRecipients(text) ==                                           \* mutant
    /\ source' = text
    /\ IF text = <<>>
       THEN shown' = NoResult /\ Edit(draft, settings, recipients)
       ELSE shown' = Extract(text) /\ Edit(draft, settings, Extract(text))
Handle(text) ==
    /\ source' = text
    /\ IF text = <<>>
       THEN shown' = NoResult /\ Edit(draft, settings, NoAddresses)
       ELSE shown' = Extract(text) /\ Edit(draft, settings, Extract(text))

Paste(text) ==
    /\ Handle(text)
    /\ UNCHANGED <<now, submitting, reading, net, past>>

\* onFile: the text arrives later, whatever has been pasted or picked since.
Pick(text) ==
    /\ Cardinality(reading) < MaxFiles
    /\ reading' = reading \cup {text}
    /\ UNCHANGED <<now, form, shown, source, net, past>>

Read(text) ==
    /\ text \in reading
    /\ reading' = reading \ {text}
    /\ Handle(text)
    /\ UNCHANGED <<now, submitting, net, past>>

-----------------------------------------------------------------------------
\* submit().  The button is disabled while there are problems or a request.
Press ==
    /\ presses < MaxPresses
    /\ presses' = presses + 1
    /\ submitting' = TRUE
    /\ posts' = posts \cup {[no |-> presses + 1, draft |-> draft, to |-> recipients.valid,
                             settings |-> settings, stage |-> "sent", awaited |-> TRUE]}
    /\ UNCHANGED <<now, draft, settings, recipients, problems, box, campaigns, drafts, errors>>

PressTwice == problems = {} /\ Press                              \* mutant
Submit == problems = {} /\ ~submitting /\ Press

\* The server validates, and writes the campaign and its rows in a transaction.
\* The outcome reaches the browser later, if it still waits for it.
Outcome(p, stage) ==
    posts' = (posts \ {p}) \cup (IF p.awaited THEN {[p EXCEPT !.stage = stage]} ELSE {})

Serve(p) ==
    /\ p.stage = "sent"
    /\ IF Accepted(p)
       THEN /\ Outcome(p, "created")
            /\ campaigns' = campaigns \cup
                 {[no |-> p.no, draft |-> p.draft, total |-> Len(p.to), rows |-> RowsOf(p.to)]}
       ELSE Outcome(p, "refused") /\ UNCHANGED campaigns
    /\ UNCHANGED <<now, form, box, past>>

\* 201: the form is emptied, whatever was typed into it meanwhile; the box keeps
\* what it shows.
Succeed(p) ==
    /\ p.stage = "created"
    /\ p.awaited
    /\ posts' = posts \ {p}
    /\ submitting' = FALSE
    /\ Edit(0, settings, NoAddresses)
    /\ UNCHANGED <<now, box, campaigns, past>>

ShowError(p) ==
    /\ errors' = errors \cup {p.no}
    /\ submitting' = FALSE
    /\ UNCHANGED <<now, draft, settings, recipients, problems, box, campaigns, drafts, presses>>

Refuse(p) ==
    /\ p.stage = "refused"
    /\ p.awaited
    /\ posts' = posts \ {p}
    /\ ShowError(p)

GiveUpSilently(p) ==                                              \* mutant
    /\ p.awaited
    /\ posts' = posts \ {p}
    /\ errors' = errors \cup {p.no}
    /\ UNCHANGED <<now, form, box, campaigns, drafts, presses>>

\* No token, no connection, or a server error before or after the commit: the
\* request is lost on the way, still on its way, or its answer is lost.
GiveUp(p) ==
    /\ p.awaited
    /\ posts' \in {posts \ {p}} \cup
                  (IF p.stage = "sent" THEN {(posts \ {p}) \cup {[p EXCEPT !.awaited = FALSE]}} ELSE {})
    /\ ShowError(p)

TimePasses ==
    /\ now < LastMinute
    /\ now' = now + 1
    /\ UNCHANGED <<form, box, net, past>>

Init ==
    /\ now = 0
    /\ draft = 0
    /\ settings \in Settings
    /\ recipients = NoAddresses
    /\ problems = Problems(draft, settings, recipients)
    /\ submitting = FALSE
    /\ shown = NoResult
    /\ source = <<>>
    /\ reading = {}
    /\ posts = {}
    /\ campaigns = {}
    /\ drafts = 0
    /\ presses = 0
    /\ errors = {}

User ==
    \/ Write
    \/ \E s \in Settings : Choose(s)
    \/ \E text \in Texts : Paste(text) \/ Pick(text)
    \/ Submit

Network == \E p \in posts : Serve(p) \/ Succeed(p) \/ Refuse(p) \/ GiveUp(p)

Next == User \/ (\E text \in Texts : Read(text)) \/ Network \/ TimePasses

\* Every request is served and answered in the end, or given up.
Spec == Init /\ [][Next]_vars /\ WF_vars(Network)

-----------------------------------------------------------------------------
Post(n) == [no : n, draft : Nat, to : Seq(Tokens), settings : Settings,
            stage : {"sent", "created", "refused"}, awaited : BOOLEAN]

\* Types.  While the form is submitting it awaits the request of the last press,
\* and otherwise none (app/dashboard/page.tsx:52-73).
TypeOK ==
    /\ now \in 0..LastMinute
    /\ draft \in 0..drafts
    /\ settings \in Settings
    /\ recipients \in ParseResults
    /\ submitting \in BOOLEAN
    /\ shown \in {NoResult} \cup ParseResults
    /\ reading \subseteq Texts
    /\ posts \subseteq Post(1..presses)
    /\ drafts \in 0..MaxDrafts
    /\ presses \in 0..MaxPresses
    /\ errors \subseteq 1..presses
    /\ {p.no : p \in {q \in posts : q.awaited}} = IF submitting THEN {presses} ELSE {}

\* One draft makes one campaign, unless the user was told of an error and pressed
\* again: there is no idempotency key (api/routes/campaigns.ts:29), a request can
\* be carried out after its press has failed, and only the disabled button and
\* the emptied form (app/dashboard/page.tsx:66, 174) stand between two campaigns.
NoSilentDouble ==
    \A a, b \in campaigns : a.draft = b.draft /\ a.no < b.no => a.no \in errors

\* "Scheduled n emails" counts rows, and each row is another mailbox: the length
\* of the request (api/routes/campaigns.ts:42, 114) is the number of rows only if
\* the form has removed what createMany would skip, and skipDuplicates compares
\* spellings where the form compares mailboxes.
TotalsTrue ==
    \A c \in campaigns :
        /\ c.total = Cardinality(c.rows)
        /\ \A t, u \in c.rows : Lower(t) = Lower(u) => t = u

\* What would be posted is what the box under the file button shows, or nothing,
\* though the two components keep it separately and files arrive late
\* (components/RecipientUpload.tsx:52-77, app/dashboard/page.tsx:67).
SentWasShown == recipients.valid # <<>> => recipients = shown

\* "Client-side mirror of the server rules" (app/dashboard/page.tsx:29): the form
\* never holds back what the server would accept, at any time after the list of
\* problems was computed.  (The converse does not hold.)
NeverOverstrict ==
    Accepted([draft |-> draft, to |-> recipients.valid, settings |-> settings])
        => problems = {}

\* Two readers take the same files, with different checks: the box
\* (components/RecipientUpload.tsx:21-43), whose entries with an @ are all
\* accounted for, and the upload endpoint (api/routes/upload.ts:67-95).  They drift
\* apart in two ways and no other: the endpoint drops just those addresses of the
\* box that isEmail refuses, among them some that POST /api/campaigns would take;
\* and it finds addresses that have more around them.  Where neither occurs, both
\* find the same mailboxes in the same order.
UploadDrift ==
    shown # NoResult =>
        LET csv == UploadCsv(source)
            lowered == [i \in DOMAIN shown.valid |-> Lower(shown.valid[i])]
        IN
        /\ Len(shown.valid) + shown.invalid + shown.duplicates =
             Cardinality({i \in DOMAIN source : source[i].kind # "word"})
        /\ \A t \in ToSet(lowered) : t \in ToSet(csv.valid) <=> IsEmail(t)
        /\ \A t \in ToSet(csv.valid) \ ToSet(lowered) :
             \E s \in ToSet(source) : ~s.bare /\ Match(s) = t
        /\ (\A t \in ToSet(source) : HasAddress(t) => (t.bare <=> IsEmail(t))) =>
             csv.valid = lowered /\ csv.duplicates = shown.duplicates

\* "Scheduling..." ends: the finally block runs whatever becomes of the request
\* (app/dashboard/page.tsx:70-72).
SubmitSettles == submitting ~> ~submitting

=============================================================================

------------------------------ MODULE WebMarket ------------------------------
(***************************************************************************)
(* "Configure and run" of the market page: MarketPage.tsx fetches the form *)
(* of a playbook, ConfigureRunPanel.tsx shows form, preview and the button *)
(* that runs what was previewed.  Fetches are answered in any order.       *)
(***************************************************************************)
EXTENDS Naturals, FiniteSets

CONSTANTS
    Cards,       \* playbooks of the market
    WithForm,    \* those that have a form
    NoCard,
    MaxClicks    \* bound: openings, changes of the form and previews

ASSUME MarketAssumption == WithForm \subseteq Cards /\ NoCard \notin Cards

VARIABLES
    panel,       \* configureItem, the panel's mount, and what it shows
    cardForm,    \* configureSchema: whose form it is, NoCard for null
    cardLoads,   \* fetches of forms under way
    asked,       \* previews under way
    submitting, started,
    clicks,
    unsettled    \* ghost: why a run need not be what was shown

marketVars == <<panel, cardForm, cardLoads, asked, submitting, started, clicks, unsettled>>

NoPreview == [card |-> NoCard, of |-> NoCard, vars |-> 0]
Closed == [card |-> NoCard, mount |-> 0, vars |-> 0, preview |-> NoPreview, busy |-> FALSE]
NoRun == [ran |-> NoPreview, shown |-> NoPreview]

MarketInit ==
    /\ panel = Closed /\ cardForm = NoCard
    /\ cardLoads = {} /\ asked = {}
    /\ submitting = FALSE /\ started = NoRun
    /\ clicks = 0 /\ unsettled = {}

Click == clicks < MaxClicks /\ clicks' = clicks + 1
Unsettles(why) == unsettled' = unsettled \cup why

\* What a preview is asked for, and what a run is started with.
PreviewOf(p, of, auto) ==
    [n |-> clicks, mount |-> p.mount, auto |-> auto,
     what |-> [card |-> p.card, of |-> of, vars |-> IF of = NoCard THEN 0 ELSE p.vars]]

\* handleOpenConfigure: the panel is there before its form.  Without a form
\* (or not yet with one) it asks for a preview by itself.
OpenCard(i) ==
    LET p == [Closed EXCEPT !.card = i, !.mount = clicks + 1, !.busy = (cardForm = NoCard)] IN
    /\ Click /\ panel.card = NoCard
    /\ panel' = p
    /\ asked' = asked \cup (IF cardForm = NoCard THEN {PreviewOf(p, NoCard, TRUE)} ELSE {})
    /\ cardLoads' = cardLoads \cup {[n |-> clicks, card |-> i]}
    /\ Unsettles(IF cardLoads # {} \/ cardForm # NoCard THEN {"late form"} ELSE {})
    /\ UNCHANGED <<cardForm, submitting, started>>

Reset(p) == [p EXCEPT !.vars = 0, !.preview = NoPreview, !.busy = FALSE]

\* Seeded fault: a new form leaves the preview where it is.
KeepPreview(p) == [p EXCEPT !.vars = 0, !.busy = FALSE]

\* The effect on [schema]; the preview asked for without a form is dropped.
ForNewForm(p) == Reset(p)

FormArrives(l) ==
    LET has == l.card \in WithForm IN
    /\ cardLoads' = cardLoads \ {l}
    /\ cardForm' = IF has THEN l.card ELSE NoCard
    /\ panel' = IF panel.card # NoCard /\ (has \/ cardForm # NoCard) THEN ForNewForm(panel) ELSE panel
    /\ asked' = IF has THEN {a \in asked : ~a.auto} ELSE asked
    /\ Unsettles(IF {a \in asked : ~a.auto} # {} THEN {"late form"} ELSE {})
    /\ UNCHANGED <<submitting, started, clicks>>

\* A fetch that fails closes the panel that is open.
FormFails(l) ==
    /\ cardLoads' = cardLoads \ {l}
    /\ panel' = Closed
    /\ UNCHANGED <<cardForm, asked, submitting, started, clicks, unsettled>>

ClosePanel ==
    /\ panel.card # NoCard /\ ~submitting
    /\ panel' = Closed /\ cardForm' = NoCard
    /\ UNCHANGED <<cardLoads, asked, submitting, started, clicks, unsettled>>

FormIsShown == panel.card # NoCard /\ cardForm # NoCard /\ panel.preview = NoPreview

\* The fields stay open while a preview is being made.
TypeInForm ==
    /\ Click /\ FormIsShown
    /\ panel' = [panel EXCEPT !.vars = clicks + 1]
    /\ Unsettles(IF panel.busy THEN {"typed"} ELSE {})
    /\ UNCHANGED <<cardForm, cardLoads, asked, submitting, started>>

\* handleShowPreview.
ShowPreview ==
    /\ Click /\ FormIsShown /\ ~submitting /\ ~panel.busy
    /\ asked' = asked \cup {PreviewOf(panel, cardForm, FALSE)}
    /\ panel' = [panel EXCEPT !.busy = TRUE]
    /\ UNCHANGED <<cardForm, cardLoads, submitting, started, unsettled>>

PreviewArrives(a, ok) ==
    /\ asked' = asked \ {a}
    /\ panel' = IF panel.mount # a.mount THEN panel
                ELSE [panel EXCEPT !.busy = FALSE, !.preview = IF ok THEN a.what ELSE @]
    /\ UNCHANGED <<cardForm, cardLoads, submitting, started, clicks, unsettled>>

BackToForm ==
    /\ panel.preview # NoPreview /\ cardForm # NoCard /\ ~submitting
    /\ panel' = [panel EXCEPT !.preview = NoPreview]
    /\ UNCHANGED <<cardForm, cardLoads, asked, submitting, started, clicks, unsettled>>

\* handleConfirm: the variables are read off the form again.
Confirm ==
    /\ panel.preview # NoPreview /\ ~submitting
    /\ submitting' = TRUE
    /\ started' = [ran |-> PreviewOf(panel, cardForm, FALSE).what, shown |-> panel.preview]
    /\ Unsettles(IF cardLoads # {} THEN {"early"} ELSE {})
    /\ UNCHANGED <<panel, cardForm, cardLoads, asked, clicks>>

\* handleConfigureSubmit: the task has begun, or the form was refused.
SubmitAnswered(ok) ==
    /\ submitting /\ submitting' = FALSE
    /\ panel' = IF ok THEN Closed ELSE panel
    /\ cardForm' = IF ok THEN NoCard ELSE cardForm
    /\ UNCHANGED <<cardLoads, asked, started, clicks, unsettled>>

MarketNext ==
    \/ ClosePanel \/ TypeInForm \/ ShowPreview \/ BackToForm \/ Confirm
    \/ \E i \in Cards : OpenCard(i)
    \/ \E l \in cardLoads : FormArrives(l) \/ FormFails(l)
    \/ \E ok \in BOOLEAN : SubmitAnswered(ok) \/ \E a \in asked : PreviewArrives(a, ok)

-----------------------------------------------------------------------------
\* What runs is what the preview showed ("preview, then run"), with the form
\* of that playbook if it has one: unless the user went on typing while the
\* preview was made, confirmed before the form was there, or the form of a
\* playbook that was closed again arrived late.
RunsWhatWasShown ==
    unsettled = {} =>
        /\ started.ran = started.shown
        /\ started.ran.of = IF started.ran.card \in WithForm THEN started.ran.card ELSE NoCard
=============================================================================

------------------------------ MODULE WebForm ------------------------------
(***************************************************************************)
(* The form of a playbook's variables, which is judged twice: in the       *)
(* browser, apps/web/src/components/ConfigureRunPanel.tsx, over what is in *)
(* the form, and by the server, catalog-vars-schema.ts, over what was      *)
(* submitted and the defaults.  A condition show_when hides a field.       *)
(***************************************************************************)
EXTENDS Naturals, Sequences

CONSTANTS
    Schemas,     \* sequences of [name, type, default, required, when]
    Values,      \* what can be typed into a field, "" besides
    Unset,       \* undefined
    Always       \* no condition

\* A schema is an object of fields in their order, so no name is there twice.  A condition is
\* about any name, also one that the form does not have.
Conditions == {Always} \cup [on : STRING, equal : BOOLEAN, value : Values \cup {""}]
FieldShapes ==
    [name : STRING, type : STRING, default : Values \cup {"", Unset}, required : BOOLEAN, when : Conditions]

ASSUME FormAssumption ==
    /\ Unset \notin Values \cup {""}
    /\ \A s \in Schemas : /\ s \in Seq(FieldShapes)
                         /\ \A j, k \in DOMAIN s : s[j].name = s[k].name => j = k

VARIABLES
    schema, filled,
    refused      \* names of the fields the last submission was refused for

formVars == <<schema, filled, refused>>

FormFields == DOMAIN schema
Names == {schema[k].name : k \in FormFields}
FieldOf(n) == LET k == CHOOSE j \in FormFields : schema[j].name = n IN schema[k]

\* evalShowWhen, the same text on both sides: [on, equal, value].
ValueOf(n, vals) == IF n \in DOMAIN vals THEN vals[n] ELSE Unset
Holds(when, vals) ==
    when = Always \/ ((ValueOf(when.on, vals) = when.value) <=> when.equal)

InitialValues(s) ==
    [n \in {s[k].name : k \in DOMAIN s} |->
        LET f == s[CHOOSE j \in DOMAIN s : s[j].name = n]
        IN  IF f.default = Unset THEN "" ELSE f.default]

FormInit == schema \in Schemas /\ filled = InitialValues(schema) /\ refused = {}
FormRests == schema = <<>> /\ filled = InitialValues(schema) /\ refused = {}

\* visibleFields and validateLocally: the browser.
SeenByUser(f) == Holds(f.when, filled)
WrongInForm == {f \in {schema[k] : k \in FormFields} : SeenByUser(f) /\ f.required /\ filled[f.name] = ""}

\* Seeded fault: a box that is not ticked is taken for an empty field.
SubmittedIfTruthy ==
    {f.name : f \in {g \in {schema[k] : k \in FormFields} : SeenByUser(g) /\ filled[g.name] \notin {"", "false"}}}

\* buildSubmittedVars: fields that are seen and not empty.
Submitted ==
    {f.name : f \in {g \in {schema[k] : k \in FormFields} : SeenByUser(g) /\ filled[g.name] # ""}}

\* validateAndNormalise, first pass: what was submitted, the default, or, for
\* a password, one that is made up.
Collected ==
    [n \in Names |->
        IF n \in Submitted THEN filled[n]
        ELSE IF FieldOf(n).default # Unset THEN FieldOf(n).default
        ELSE IF FieldOf(n).type = "password" THEN "generated" ELSE Unset]

\* Second pass: in the order of the schema, what is hidden is deleted.
KeptUpTo ==
    LET kept[k \in 0..Len(schema)] ==
            IF k = 0 THEN Collected
            ELSE IF Holds(schema[k].when, kept[k - 1]) THEN kept[k - 1]
            ELSE [kept[k - 1] EXCEPT ![schema[k].name] = Unset]
    IN  kept

SeenByServer(k) == Holds(schema[k].when, KeptUpTo[k - 1])
WrongForServer ==
    {schema[k].name : k \in {j \in FormFields : /\ SeenByServer(j) /\ schema[j].required
                                            /\ KeptUpTo[j][schema[j].name] \in {"", Unset}}}

TypeValue(n, v) ==
    /\ FieldOf(n).type = "boolean" => v # ""
    /\ filled' = [filled EXCEPT ![n] = v]
    /\ UNCHANGED <<schema, refused>>

ResetDefaults == filled' = InitialValues(schema) /\ refused' = {} /\ UNCHANGED schema

\* handleShowPreview, POST /api/catalog/:id/preview; /api/execute does the same.
SubmitForm ==
    /\ WrongInForm = {}
    /\ refused' = WrongForServer
    /\ UNCHANGED <<schema, filled>>

FormNext ==
    \/ ResetDefaults \/ SubmitForm
    \/ \E n \in Names, v \in Values \cup {""} : TypeValue(n, v)

-----------------------------------------------------------------------------
\* The condition of a field names one that has a condition itself, or one that
\* was emptied, which is not submitted and has its default back on the server.
Unsteady(f) ==
    /\ f.when # Always /\ f.when.on \in Names
    /\ FieldOf(f.when.on).when # Always \/ (filled[f.when.on] = "" /\ FieldOf(f.when.on).default # "")

\* The fields that are shown are those that are checked, so a form that the
\* browser lets pass is not refused for a field that nobody can see, unless a
\* condition is unsteady.
SeenIsChecked ==
    /\ \A k \in FormFields : Unsteady(schema[k]) \/ (SeenByUser(schema[k]) <=> SeenByServer(k))
    /\ (\A k \in FormFields : ~Unsteady(schema[k])) /\ WrongInForm = {} => WrongForServer = {}

\* What ConfigureRunPanel.tsx:24 says of all schemas and forms.
SeenIsExactlyChecked ==
    \A k \in FormFields : SeenByUser(schema[k]) <=> SeenByServer(k)
=============================================================================

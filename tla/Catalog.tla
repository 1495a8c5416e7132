------------------------------- MODULE Catalog -------------------------------
(***************************************************************************)
(* The catalog as administrators change it: overrides in the runtime       *)
(* document on top of the items that come with the server, and the files   *)
(* of a playbook and of the form of its variables, kept beside the         *)
(* document (catalog-overrides.ts, catalog-vars-schema.ts, the routes      *)
(* /api/admin/catalog of routes.ts).  A handler updates the document first *)
(* and writes or deletes the files after it, one by one.                   *)
(***************************************************************************)
EXTENDS Naturals, Sequences, FiniteSets

CONSTANTS
    Shipped,     \* ids of the items that come with the server
    Others,      \* ids that an administrator may add
    Editors,     \* requests of administrators at a time
    NoItem,
    MaxEdits     \* bound: requests ever begun

Ids == Shipped \cup Others

ASSUME CatalogAssumption == Shipped \cap Others = {} /\ NoItem \notin Ids

VARIABLES
    overrides,   \* sequence of [id, base, hidden]
    yaml, form,  \* ids that have a playbook of the administrators, and a form
    edit,        \* requests: [id, todo]
    edits,
    mixed, halfDone   \* ghosts: ids whose edits overlapped; that a crash left half done

catalogVars == <<overrides, yaml, form, edit, edits, mixed, halfDone>>

NoEdit == [id |-> NoItem, todo |-> <<>>]
Editing(i) == {a \in Editors : edit[a].id = i}

CatalogInit ==
    /\ overrides = <<>>
    /\ yaml = {} /\ form = {}
    /\ edit = [a \in Editors |-> NoEdit] /\ edits = 0
    /\ mixed = {} /\ halfDone = {}

\* mergeCatalog: how often an id is listed.  Of several overrides of a shipped
\* item the last counts; what has no base is an item of its own.
Overlays(i) == {k \in DOMAIN overrides : overrides[k].id = i /\ overrides[k].base}
Added(i) == {k \in DOMAIN overrides : overrides[k].id = i /\ ~overrides[k].base}
HiddenByAdmin(i) ==
    \E k \in Overlays(i) : overrides[k].hidden /\ \A l \in Overlays(i) : l <= k
Times(i) == Cardinality(Added(i)) + (IF i \in Shipped /\ ~HiddenByAdmin(i) THEN 1 ELSE 0)

\* filter: the overrides but those at the positions ks.
Without(ks) ==
    LET left[k \in 0..Len(overrides)] ==
            IF k = 0 THEN <<>> ELSE IF k \in ks THEN left[k - 1] ELSE Append(left[k - 1], overrides[k])
    IN  left[Len(overrides)]

BeginEdit(a, i, todo) ==
    /\ edits < MaxEdits /\ edits' = edits + 1
    /\ edit[a].id = NoItem
    /\ edit' = [edit EXCEPT ![a] = [id |-> i, todo |-> todo]]
    /\ mixed' = mixed \cup (IF Editing(i) # {} THEN {i} ELSE {})
    /\ UNCHANGED <<yaml, form, halfDone>>

\* Seeded fault: the id is not looked for.
CreateUnasked(a, i) ==
    /\ BeginEdit(a, i, <<"push", "yaml">>)
    /\ UNCHANGED overrides

\* POST: the id must not be listed; the update comes later, unchecked.
CreateItem(a, i) ==
    /\ BeginEdit(a, i, <<"push", "yaml">>)
    /\ Times(i) = 0
    /\ UNCHANGED overrides

PushItem(a) ==
    /\ edit[a].todo # <<>> /\ Head(edit[a].todo) = "push"
    /\ overrides' = Append(overrides, [id |-> edit[a].id, base |-> FALSE, hidden |-> FALSE])
    /\ edit' = [edit EXCEPT ![a].todo = Tail(@)]
    /\ UNCHANGED <<yaml, form, edits, mixed, halfDone>>

\* PATCH: the first override of the id is changed, or one of a shipped item is
\* made; then the files that the request brings.
PatchItem(a, i, hide, todo) ==
    LET here == Overlays(i) \cup Added(i)
        first == CHOOSE k \in here : \A l \in here : k <= l IN
    /\ BeginEdit(a, i, todo)
    /\ here # {} \/ i \in Shipped
    /\ overrides' = IF here = {} THEN Append(overrides, [id |-> i, base |-> TRUE, hidden |-> hide])
                    ELSE [overrides EXCEPT ![first].hidden = hide]

\* Seeded fault: the files of an item that was added stay.
DeleteEntry(a, i) ==
    LET over == Overlays(i) IN
    /\ BeginEdit(a, i, <<>>)
    /\ overrides' = IF i \in Others THEN Without(Overlays(i) \cup Added(i))
                    ELSE IF over = {} THEN Append(overrides, [id |-> i, base |-> TRUE, hidden |-> TRUE])
                    ELSE [k \in DOMAIN overrides |->
                             IF k \in over THEN [overrides[k] EXCEPT !.hidden = TRUE] ELSE overrides[k]]

\* DELETE: a shipped item is hidden, any other is removed with its playbook,
\* but not with its form.
DeleteItem(a, i) ==
    LET over == Overlays(i) IN
    /\ BeginEdit(a, i, IF i \in Others THEN <<"dropYaml">> ELSE <<>>)
    /\ overrides' = IF i \in Others THEN Without(Overlays(i) \cup Added(i))
                    ELSE IF over = {} THEN Append(overrides, [id |-> i, base |-> TRUE, hidden |-> TRUE])
                    ELSE [k \in DOMAIN overrides |->
                             IF k \in over THEN [overrides[k] EXCEPT !.hidden = TRUE] ELSE overrides[k]]

\* POST reset, of a shipped item only.
ResetItem(a, i) ==
    /\ i \in Shipped
    /\ BeginEdit(a, i, <<"dropYaml", "dropForm">>)
    /\ overrides' = Without(Overlays(i))

\* saveOverrideYaml, deleteOverrideYaml, saveOverrideSchema, deleteOverrideSchema.
WriteFile(a) ==
    LET i == edit[a].id
        do == Head(edit[a].todo) IN
    /\ edit[a].todo # <<>> /\ do # "push"
    /\ yaml' = CASE do = "yaml" -> yaml \cup {i} [] do = "dropYaml" -> yaml \ {i} [] OTHER -> yaml
    /\ form' = CASE do = "form" -> form \cup {i} [] do = "dropForm" -> form \ {i} [] OTHER -> form
    /\ edit' = [edit EXCEPT ![a].todo = Tail(@)]
    /\ UNCHANGED <<overrides, edits, mixed, halfDone>>

Answer(a) ==
    /\ edit[a].id # NoItem /\ edit[a].todo = <<>>
    /\ edit' = [edit EXCEPT ![a] = NoEdit]
    /\ UNCHANGED <<overrides, yaml, form, edits, mixed, halfDone>>

\* The server ends while files are still to be written.
CatalogCrash ==
    /\ \E a \in Editors : edit[a].todo # <<>>
    /\ edit' = [a \in Editors |-> NoEdit]
    /\ halfDone' = halfDone \cup {edit[a].id : a \in {b \in Editors : edit[b].todo # <<>>}}
    /\ UNCHANGED <<overrides, yaml, form, edits, mixed>>

CatalogNext ==
    \/ CatalogCrash
    \/ \E a \in Editors : PushItem(a) \/ WriteFile(a) \/ Answer(a)
    \/ \E a \in Editors, i \in Ids :
           \/ CreateItem(a, i) \/ DeleteItem(a, i) \/ ResetItem(a, i)
           \/ \E hide \in BOOLEAN, todo \in {<<>>, <<"yaml">>, <<"form">>, <<"dropForm">>, <<"yaml", "form">>} :
                  PatchItem(a, i, hide, todo)

-----------------------------------------------------------------------------
Settled(i) == Editing(i) = {} /\ i \notin mixed \cup halfDone

\* An id is listed once ("make sure the id isn't already in use",
\* routes.ts:2967), unless two requests about it overlapped or it is that of a
\* shipped item: one that is hidden can be created again and then reset.
IdsAreListedOnce == \A i \in Others : Times(i) > 1 => i \in mixed

\* A playbook that runs belongs to an item: one that was added has its
\* playbook, and what is removed, or reset, leaves none behind that would be
\* played for the next item of that name, or for the shipped one.
PlaybooksHaveTheirItem ==
    \A i \in Ids : Settled(i) =>
        /\ Overlays(i) \cup Added(i) = {} => i \notin yaml
        /\ i \in Others /\ Added(i) # {} => i \in yaml

\* The two together: list and files of the catalog agree.
CatalogIsWhole == IdsAreListedOnce /\ PlaybooksHaveTheirItem
=============================================================================

--------------------------- MODULE ForwardTargets ---------------------------
(***************************************************************************)
(* Forward targets: the transactions that create, update and delete them   *)
(* (endpoint-forwarding/repository.ts behind the forward-targets routes)   *)
(* and the list that one inspector page shows and edits                    *)
(* (loadForwardTargets and its neighbours in                               *)
(* use-browser-endpoint-session.ts).  Other pages edit the same targets    *)
(* and endpoints are deleted.                                              *)
(*                                                                         *)
(* A key stands for a normalized URL with a path mode.  A save locks the   *)
(* endpoint's row and validates, then writes and commits; a list is one    *)
(* statement.  What a deletion does to deliveries is in EndpointStore.     *)
(* forwardTargetListVersion is compared only with the value a load read    *)
(* when it began: the load is `fresh` while the version is that value.     *)
(***************************************************************************)
EXTENDS Integers, FiniteSets

CONSTANTS
  Endpoint, Key,
  Target,       \* bound: ids of targets created in a behaviour
  Call,         \* bound: requests to the server at a time
  None,
  MaxEnabled,   \* MAX_ENDPOINT_FORWARD_TARGETS
  MaxRows       \* MAX_ENDPOINT_FORWARD_TARGET_ROWS

ASSUME TargetAssumption ==
  /\ MaxEnabled \in Nat \ {0} /\ MaxRows \in Nat \ {0}
  /\ None \notin Endpoint \cup Key \cup Target \cup Call
  /\ IsFiniteSet(Target)

VARIABLES
  alive,       \* server: endpoints that exist
  row,         \* server: the row of each target
  holder,      \* server: the call that has the endpoint's row locked
  call,        \* requests in flight
  active,      \* page: activeEndpointIdRef
  shown,       \* page: forwardTargets
  flags,       \* page: isLoading, isLoadingForwardTargets, isSavingForwardTargetRef
  told         \* history: targets whose deletion the page has been told of

serverVars == <<alive, row, holder>>
pageVars == <<active, shown, flags, told>>
vars == <<serverVars, call, pageVars>>

Row == [endpoint : Endpoint \cup {None}, key : Key \cup {None}, enabled : BOOLEAN,
        deleted : BOOLEAN]
NoRow == [endpoint |-> None, key |-> None, enabled |-> FALSE, deleted |-> FALSE]
GoneRow == [NoRow EXCEPT !.deleted = TRUE]   \* what a deleted row keeps is not read again

Shown == [id : Target, key : Key, enabled : BOOLEAN]
Show(t) == [id |-> t, key |-> row[t].key, enabled |-> row[t].enabled]

Rows(e) == {t \in Target : row[t].endpoint = e}
Enabled(e) == {t \in Rows(e) : row[t].enabled}

\* What is saved: a target's key, or its enabled flag, None when it is to stay.
Change == [target : Target \cup {None}, key : Key \cup {None}, enabled : BOOLEAN \cup {None}]
NoChange == [target |-> None, key |-> None, enabled |-> None]

NewCall(kind, by, e, change) ==
  [kind |-> kind, by |-> by, endpoint |-> e, change |-> change, phase |-> "sent",
   fresh |-> TRUE, beside |-> {}, reply |-> {}]
Save == {"create", "update", "delete"}
Load == {"list", "switch"}
CallState ==
  [kind : Save \cup Load, by : {"page", "other"}, endpoint : Endpoint, change : Change,
   phase : {"sent", "valid", "done"},
   fresh : BOOLEAN, beside : SUBSET Target, reply : SUBSET Shown]
NoCall == [kind |-> "none", by |-> "other", endpoint |-> None, change |-> NoChange,
           phase |-> "done", fresh |-> TRUE, beside |-> {}, reply |-> {}]

TypeOK ==
  /\ alive \in SUBSET Endpoint
  /\ row \in [Target -> Row]
  /\ \A t \in Target : row[t].endpoint # None => row[t].endpoint \in alive /\ row[t].key \in Key
  /\ holder \in [Endpoint -> Call \cup {None}]
  /\ call \in [Call -> CallState \cup {NoCall}]
  /\ active \in Endpoint
  /\ shown \in SUBSET Shown
  /\ \A s, u \in shown : s.id = u.id => s = u
  /\ flags \in [loading : BOOLEAN, listing : BOOLEAN, saving : BOOLEAN]
  /\ told \in SUBSET Target

Init ==
  /\ alive = Endpoint /\ row = [t \in Target |-> NoRow]
  /\ holder = [e \in Endpoint |-> None]
  /\ call = [c \in Call |-> NoCall]
  /\ active \in Endpoint /\ shown = {} /\ told = {}
  /\ flags = [loading |-> FALSE, listing |-> FALSE, saving |-> FALSE]

-----------------------------------------------------------------------------
(* The server. *)

In(c, kinds, phase) == call[c].kind \in kinds /\ call[c].phase = phase

\* The answer is on its way; to another page it is not modelled.
Replies(c, new) == call' = [call EXCEPT ![c] = IF call[c].by = "page" THEN new ELSE NoCall]

\* The key a save leaves the target with.
EffectiveKey(ch) == IF ch.key = None THEN row[ch.target].key ELSE ch.key

\* No other row of the endpoint has the key.
IsUnique(e, ch) ==
  \A t \in Rows(e) : t = ch.target \/ row[t].key # EffectiveKey(ch)

CanEnable(e, ch) ==
  (ch.enabled = TRUE /\ ~row[ch.target].enabled) =>
    Cardinality(Enabled(e) \ {ch.target}) < MaxEnabled

\* assertEndpointCanAddForwardTarget, assertEndpointForwardTargetIsUnique,
\* assertEndpointCanEnableForwardTarget, getEndpointForwardTargetRow.
Valid(kind, e, ch) ==
  CASE kind = "create" -> /\ Cardinality(Enabled(e)) < MaxEnabled
                          /\ Cardinality(Rows(e)) < MaxRows
                          /\ IsUnique(e, ch)
    [] kind = "update" -> ch.target \in Rows(e) /\ IsUnique(e, ch) /\ CanEnable(e, ch)
    [] kind = "delete" -> ch.target \in Rows(e)

BeginSaveMutant(c) ==   \* select without "for update"
  /\ In(c, Save, "sent")
  /\ call[c].endpoint \in alive
  /\ Valid(call[c].kind, call[c].endpoint, call[c].change)
  /\ call' = [call EXCEPT ![c].phase = "valid"]
  /\ holder' = holder
  /\ UNCHANGED <<alive, row, pageVars>>

\* The transaction begins: assertEndpointExistsForUpdate waits for the lock, and
\* what is validated under it stays valid up to the commit.
BeginSave(c) ==
  /\ In(c, Save, "sent")
  /\ holder[call[c].endpoint] = None /\ call[c].endpoint \in alive
  /\ Valid(call[c].kind, call[c].endpoint, call[c].change)
  /\ call' = [call EXCEPT ![c].phase = "valid"]
  /\ holder' = [holder EXCEPT ![call[c].endpoint] = c]
  /\ UNCHANGED <<alive, row, pageVars>>

\* The endpoint, the access to it or the target is missing, the change is not
\* valid or the URL cannot be reached: nothing is left.  The page is told by
\* SaveFails.
Refuse(c) ==
  /\ In(c, Save, "sent") /\ call[c].by = "other"
  /\ call' = [call EXCEPT ![c] = NoCall]
  /\ UNCHANGED <<serverVars, pageVars>>

\* The row a save writes.
Written(t, kind, e, ch) ==
  CASE kind = "create" -> [endpoint |-> e, key |-> ch.key, enabled |-> TRUE, deleted |-> FALSE]
    [] kind = "update" -> [row[t] EXCEPT !.key = EffectiveKey(ch),
                                         !.enabled = IF ch.enabled = None THEN @ ELSE ch.enabled]
    [] kind = "delete" -> GoneRow

\* The insert or update of the target, and the commit.
Write(c) ==
  LET kind == call[c].kind
      ch == call[c].change IN
  /\ In(c, Save, "valid")
  /\ \E t \in Target :
       /\ IF kind = "create" THEN row[t] = NoRow ELSE t = ch.target
       /\ row' = [row EXCEPT ![t] = Written(t, kind, call[c].endpoint, ch)]
       /\ Replies(c, [call[c] EXCEPT !.phase = "done",
                        !.change = [NoChange EXCEPT !.target = t],
                        !.reply = IF kind = "delete" THEN {}
                                  ELSE {[id |-> t, key |-> row'[t].key,
                                         enabled |-> row'[t].enabled]}])
  /\ holder' = [holder EXCEPT ![call[c].endpoint] = None]
  /\ UNCHANGED <<alive, pageVars>>

\* listEndpointForwardTargets, behind the access check.
ReadList(c) ==
  /\ In(c, Load, "sent") /\ call[c].endpoint \in alive
  /\ Replies(c, [call[c] EXCEPT !.phase = "done",
                                !.reply = {Show(t) : t \in Rows(call[c].endpoint)}])
  /\ UNCHANGED <<serverVars, pageVars>>

\* The endpoint's row goes, and with it the targets: it waits for the lock.
DeleteEndpoint(e) ==
  /\ e \in alive /\ holder[e] = None
  /\ alive' = alive \ {e}
  /\ row' = [t \in Target |-> IF row[t].endpoint = e THEN GoneRow ELSE row[t]]
  /\ UNCHANGED <<holder, call, pageVars>>

-----------------------------------------------------------------------------
(* Other pages, of which nothing but the requests is modelled. *)

\* The control saves either the fields of its form or the switch.
Edits(targets) ==
  [target : targets, key : Key, enabled : {None}]
    \cup [target : targets, key : {None}, enabled : BOOLEAN]

Request(c, by, kind, e, change) ==
  call[c] = NoCall /\ call' = [call EXCEPT ![c] = NewCall(kind, by, e, change)]

Elsewhere(c) ==
  /\ \E e \in Endpoint :
       \/ \E k \in Key : Request(c, "other", "create", e, [NoChange EXCEPT !.key = k])
       \/ \E ch \in Edits(Rows(e)) : Request(c, "other", "update", e, ch)
       \/ \E t \in Rows(e) : Request(c, "other", "delete", e, [NoChange EXCEPT !.target = t])
  /\ UNCHANGED <<serverVars, pageVars>>

-----------------------------------------------------------------------------
(* The page. *)

\* Targets that the page is deleting.
BeingDeleted ==
  {t \in Target : \E c \in Call : /\ call[c].by = "page" /\ call[c].kind = "delete"
                                  /\ call[c].change.target = t}

Begin(c, kind, e, calls) ==
  /\ call[c] = NoCall
  /\ call' = [calls EXCEPT ![c] = [NewCall(kind, "page", e, NoChange) EXCEPT
                                     !.beside = BeingDeleted]]

\* Loads that have begun no longer have the current version.
Bumped == [c \in Call |-> IF call[c].kind = "list" THEN [call[c] EXCEPT !.fresh = FALSE]
                          ELSE call[c]]

\* loadForwardTargets, when the control is opened: also while a save is on its way.
LoadForwardTargets(c) ==
  /\ ~flags.loading /\ ~flags.listing
  /\ Begin(c, "list", active, call)
  /\ flags' = [flags EXCEPT !.listing = TRUE]
  /\ UNCHANGED <<serverVars, active, shown, told>>

\* createForwardTarget, updateForwardTarget, deleteForwardTarget.
SaveForwardTarget(c) ==
  /\ ~flags.loading /\ ~flags.saving
  /\ call[c] = NoCall
  /\ \E kind \in Save, ch \in Change :
       /\ \/ kind = "create" /\ ch \in [target : {None}, key : Key, enabled : {None}]
          \/ kind = "update" /\ ch \in Edits({s.id : s \in shown})
          \/ kind = "delete" /\ ch \in [target : {s.id : s \in shown}, key : {None}, enabled : {None}]
       /\ call' = [Bumped EXCEPT ![c] = NewCall(kind, "page", active, ch)]
  /\ flags' = [flags EXCEPT !.saving = TRUE]
  /\ UNCHANGED <<serverVars, active, shown, told>>

\* switchEndpoint with resetEndpointLoadState.
SwitchEndpoint(c, e) ==
  /\ ~flags.loading /\ e # active
  /\ active' = e /\ shown' = {}
  /\ flags' = [loading |-> TRUE, listing |-> FALSE, saving |-> FALSE]
  /\ Begin(c, "switch", e, Bumped)
  /\ UNCHANGED <<serverVars, told>>

Answered(c, kinds) ==
  /\ call[c].by = "page" /\ call[c].kind \in kinds
  /\ call' = [call EXCEPT ![c] = NoCall]
  /\ UNCHANGED <<serverVars, active>>

\* The end of the call for the page that is still on its endpoint.
Lowers(c, flag) ==
  flags' = [flags EXCEPT ![flag] = @ /\ active # call[c].endpoint]

AnswerLoadMutant(c) ==   \* the version is not compared
  /\ Answered(c, {"list"})
  /\ \/ /\ call[c].phase = "done" /\ active = call[c].endpoint
        /\ shown' = call[c].reply
     \/ shown' = shown
  /\ Lowers(c, "listing")
  /\ UNCHANGED told

\* It may fail in any phase.
AnswerLoad(c) ==
  /\ Answered(c, {"list"})
  /\ \/ /\ call[c].phase = "done" /\ active = call[c].endpoint /\ call[c].fresh
        /\ shown' = call[c].reply
     \/ shown' = shown
  /\ Lowers(c, "listing")
  /\ UNCHANGED told

\* The version is not compared.
AnswerSwitch(c) ==
  /\ Answered(c, {"switch"})
  /\ \/ /\ call[c].phase = "done" /\ active = call[c].endpoint
        /\ shown' = call[c].reply
     \/ shown' = shown
  /\ Lowers(c, "loading")
  /\ UNCHANGED told

ShownIds == {s.id : s \in shown}
OthersMutant(id) == shown   \* the target is not taken out before it is added
Others(id) == {s \in shown : s.id # id}

\* mergeForwardTarget, replaceForwardTarget, removeForwardTarget.
AnswerSave(c) ==
  /\ Answered(c, Save) /\ call[c].phase = "done"
  /\ IF active = call[c].endpoint
     THEN LET id == call[c].change.target IN
          /\ shown' = IF call[c].kind = "update" /\ id \notin ShownIds
                      THEN shown ELSE Others(id) \cup call[c].reply
          /\ told' = IF call[c].kind = "delete" THEN told \cup {id} ELSE told
     ELSE UNCHANGED <<shown, told>>
  /\ Lowers(c, "saving")

\* A refusal, or a lost answer: the server may still do what was asked.
SaveFails(c) ==
  /\ call[c].by = "page" /\ call[c].kind \in Save
  /\ call' = [call EXCEPT ![c] = IF call[c].phase = "done" THEN NoCall
                                 ELSE [call[c] EXCEPT !.by = "other"]]
  /\ Lowers(c, "saving")
  /\ UNCHANGED <<serverVars, active, shown, told>>

Server(c) == BeginSave(c) \/ Refuse(c) \/ Write(c) \/ ReadList(c)
Page(c) ==
  \/ LoadForwardTargets(c) \/ SaveForwardTarget(c)
  \/ \E e \in Endpoint : SwitchEndpoint(c, e)
  \/ AnswerLoad(c) \/ AnswerSwitch(c) \/ AnswerSave(c) \/ SaveFails(c)

Next ==
  \/ \E c \in Call : Server(c) \/ Page(c) \/ Elsewhere(c)
  \/ \E e \in Endpoint : DeleteEndpoint(e)

Spec == Init /\ [][Next]_vars

-----------------------------------------------------------------------------
(* Properties. *)

\* forwarding-requests: "Each endpoint can have up to five enabled targets and up
\* to twenty total target rows, including disabled targets."  And no two of them
\* have the same URL and path mode.  However creations, edits and enablings
\* overlap, no two of them together pass what each was checked for.
ValidRows ==
  \A e \in Endpoint :
    /\ Cardinality(Enabled(e)) <= MaxEnabled
    /\ Cardinality(Rows(e)) <= MaxRows
    /\ \A t, u \in Rows(e) : row[t].key = row[u].key => t = u

\* A target whose deletion the page has been told of comes back into its list
\* only by a list that was asked for while that deletion was on its way, or by
\* the late answer of the creation itself.
DeletedStaysHidden ==
  [][\A t \in told \cap (ShownIds' \ ShownIds) :
       \E c \in Call : \/ (AnswerLoad(c) \/ AnswerSwitch(c)) /\ t \in call[c].beside
                       \/ AnswerSave(c) /\ call[c].kind = "create"]_vars
=============================================================================

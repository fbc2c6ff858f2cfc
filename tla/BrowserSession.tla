--------------------------- MODULE BrowserSession ---------------------------
(***************************************************************************)
(* The inspector page: the request list of one browser session             *)
(* (endpoint-session/use-browser-endpoint-session.ts, state.ts,            *)
(* event-stream.ts) against the server it reads.  Each of its operations   *)
(* is a call that the server handles some time later and whose answer      *)
(* arrives some time after that; in between the user goes on, the stream   *)
(* delivers events, and other clients capture, clear and delete.           *)
(*                                                                         *)
(* Requests are numbered in the order of (receivedAt, id) and belong to an *)
(* endpoint; Hit are those that match the search the user may enter.  The  *)
(* list is the set of the requests it shows, each once: in which order it  *)
(* shows them is left out.  The session starts restored: its storage and   *)
(* its account lists are not modelled.  `active` is both the endpointId    *)
(* state and activeEndpointIdRef.  requestListVersion is compared with the *)
(* value a call read when it began and with nothing else: the call is      *)
(* `fresh` until the version is next increased.  A subscription of the     *)
(* stream that belongs to an earlier render lives on until its effect is   *)
(* run again.                                                              *)
(***************************************************************************)
EXTENDS Integers, Sequences, FiniteSets, SequencesExt, FiniteSetsExt

CONSTANTS
  Endpoint,
  None,          \* no endpoint
  LastRequest,   \* bound: requests captured in a behaviour
  Owner,         \* the endpoint of each request
  Hit,           \* requests that match the non-empty search
  History,       \* requests stored when the session starts
  PageSize,      \* the page limit
  Slot           \* bound: calls in flight

Request == 1..LastRequest

ASSUME SessionAssumption ==
  /\ LastRequest \in Nat /\ PageSize \in Nat \ {0}
  /\ Owner \in [Request -> Endpoint] /\ None \notin Endpoint
  /\ {Hit, History} \subseteq SUBSET Request

VARIABLES
  status,        \* server: "unborn", "alive" or "deleted", of each endpoint
  captured,      \* server: requests ever captured
  stored,        \* server: those in the table
  unpublished,   \* server: events of finished operations, not yet published
  connected,     \* the server has the subscription's stream open
  channel,       \* events sent on it and not handled yet
  subscription,  \* the effect's endpointId, its recentEndpointIds, and whether
                 \* both are still those of the state
  active,        \* endpointId
  recent,        \* recentEndpointIds
  list,          \* requestState.requests
  cursor,        \* requestState.nextCursor, 0 when there is none
  search,        \* requestSearch: "all" when empty
  flags,         \* isLoading, isLoadingOlderRequests, isClearing, isDeletingEndpoint
  replaying,     \* replayingRequestIds
  call,          \* calls in flight, by slot
  gone           \* history: requests removed by clears the session was told of

serverVars == <<status, captured, stored, unpublished>>
streamVars == <<connected, channel, subscription>>
listVars == <<list, cursor, search, replaying>>
vars == <<serverVars, streamVars, active, recent, listVars, flags, call, gone>>

Alive == {e \in Endpoint : status[e] = "alive"}
Rows(e) == {r \in stored : Owner[r] = e}
Matches(r, s) == s = "all" \/ r \in Hit

-----------------------------------------------------------------------------
(* Calls. *)

NoPage == [rows |-> {}, next |-> 0]
NoCall == [kind |-> "none"]

\* A call as the browser makes it: what it captured of the state, and what the
\* server has made of it.  `todo` are the endpoints that may replace a deleted
\* one, `deleting` says that deleteEndpoint waits for the call.
NewCall(kind, e) ==
  [kind |-> kind, endpoint |-> e, fresh |-> TRUE, known |-> {}, cursor |-> 0,
   search |-> "all", todo |-> <<>>, deleting |-> FALSE, reply |-> "none", page |-> NoPage]

Kind == {"switch", "new", "refresh", "older", "search", "clear", "delete",
         "replay", "probe", "adopt", "make"}
Is(c, kind) == call[c].kind = kind
Begin(c, new) == call[c] = NoCall /\ call' = [call EXCEPT ![c] = new]
End(c) == call' = [call EXCEPT ![c] = NoCall]

Versioned == {"switch", "refresh", "older", "search"}

\* requestListVersion.current += 1.
Bumped(calls) ==
  [c \in Slot |-> IF calls[c].kind \in Versioned THEN [calls[c] EXCEPT !.fresh = FALSE]
                  ELSE calls[c]]

Id == Seq(Endpoint)
Events == [kind : {"request", "clear", "deleted"}, endpoint : Endpoint,
           requests : SUBSET captured]
Calls ==
  [kind : Kind, endpoint : Endpoint \cup {None}, fresh : BOOLEAN, known : SUBSET captured,
   cursor : 0..LastRequest, search : {"all", "some"}, todo : Id, deleting : BOOLEAN,
   reply : {"none", "ok", "missing"}, page : [rows : SUBSET captured, next : 0..LastRequest]]

TypeOK ==
  /\ status \in [Endpoint -> {"unborn", "alive", "deleted"}]
  /\ captured \in SUBSET Request
  /\ stored \subseteq {r \in captured : status[Owner[r]] = "alive"}
  /\ unpublished \subseteq Events /\ connected \in BOOLEAN /\ channel \in Seq(Events)
  /\ subscription \in [endpoint : Endpoint \cup {None}, recent : Id, current : BOOLEAN]
  /\ active \in Endpoint \cup {None} /\ recent \in Id /\ IsInjective(recent)
  /\ list \subseteq captured /\ cursor \in 0..LastRequest /\ search \in {"all", "some"}
  /\ flags \in [loading : BOOLEAN, older : BOOLEAN, clearing : BOOLEAN, deleting : BOOLEAN]
  /\ replaying \in SUBSET captured /\ gone \in SUBSET captured
  /\ call \in [Slot -> Calls \cup {NoCall}]

\* A page read from `before` on, newest first, and the cursor of the next one.
Page(e, s, before) ==
  LET rest == {r \in Rows(e) : Matches(r, s) /\ (before = 0 \/ r < before)}
      found == {r \in rest : Cardinality({q \in rest : q > r}) < PageSize}
  IN [rows |-> found, next |-> IF rest = found THEN 0 ELSE Min(found)]

\* A session with its first page loaded, on one of its endpoints.
Init ==
  /\ \E e \in Endpoint : active = e
  /\ recent \in {s \in UNION {[1..n -> Endpoint] : n \in 1..Cardinality(Endpoint)} :
                   IsInjective(s) /\ active \in ToSet(s)}
  /\ status = [e \in Endpoint |-> IF e \in ToSet(recent) THEN "alive" ELSE "unborn"]
  /\ captured = {r \in History : Owner[r] \in Alive} /\ stored = captured
  /\ list = Page(active, "all", 0).rows /\ cursor = Page(active, "all", 0).next
  /\ unpublished = {} /\ connected = FALSE /\ channel = <<>>
  /\ subscription = [endpoint |-> active, recent |-> recent, current |-> TRUE]
  /\ search = "all" /\ replaying = {} /\ gone = {}
  /\ flags = [loading |-> FALSE, older |-> FALSE, clearing |-> FALSE, deleting |-> FALSE]
  /\ call = [c \in Slot |-> NoCall]

-----------------------------------------------------------------------------
(* The server, and its other clients. *)

Event(kind, e, S) == [kind |-> kind, endpoint |-> e, requests |-> S]

\* saveCapturedRequest, for a webhook that arrives.
Capture(r) ==
  /\ r \notin captured /\ Owner[r] \in Alive
  /\ captured' = captured \cup {r} /\ stored' = stored \cup {r}
  /\ unpublished' = unpublished \cup {Event("request", Owner[r], {r})}
  /\ UNCHANGED <<status, streamVars, active, recent, listVars, flags, call, gone>>

ClearRows(e) ==
  /\ stored' = stored \ Rows(e)
  /\ unpublished' = unpublished \cup {Event("clear", e, Rows(e))}
  /\ UNCHANGED <<status, captured>>

DeleteRows(e) ==
  /\ status' = [status EXCEPT ![e] = "deleted"]
  /\ stored' = stored \ Rows(e)
  /\ unpublished' = unpublished \cup {Event("deleted", e, {})}
  /\ UNCHANGED captured

\* Another browser, or the command line, clears or deletes the endpoint.
Elsewhere(e) ==
  /\ e \in Alive
  /\ (Rows(e) # {} /\ ClearRows(e)) \/ DeleteRows(e)
  /\ UNCHANGED <<streamVars, active, recent, listVars, flags, call, gone>>

\* The server handles a call; what it answers is on its way.
Reply(c, reply, e, page) ==
  call' = [call EXCEPT ![c].reply = reply, ![c].endpoint = e, ![c].page = page]

\* The routes under /api/endpoints: each finds the endpoint first.
Serve(c) ==
  LET e == call[c].endpoint
      kind == call[c].kind IN
  /\ kind # "none" /\ call[c].reply = "none"
  /\ \/ /\ kind \notin {"new", "make"} /\ e \notin Alive
        /\ Reply(c, "missing", e, NoPage) /\ UNCHANGED serverVars
     \/ /\ kind \in {"switch", "refresh", "older", "search", "adopt", "probe"} /\ e \in Alive
        /\ Reply(c, "ok", e, IF kind = "probe" THEN NoPage
                              ELSE Page(e, call[c].search, call[c].cursor))
        /\ UNCHANGED serverVars
     \/ /\ kind = "clear" /\ e \in Alive
        /\ Reply(c, "ok", e, [NoPage EXCEPT !.rows = Rows(e)]) /\ ClearRows(e)
     \/ /\ kind = "delete" /\ e \in Alive
        /\ Reply(c, "ok", e, NoPage) /\ DeleteRows(e)
     \/ /\ kind = "replay" /\ e \in Alive /\ ~(call[c].known \subseteq Rows(e))
        /\ Reply(c, "missing", e, NoPage) /\ UNCHANGED serverVars
     \/ /\ kind = "replay" /\ call[c].known \subseteq Rows(e)
        /\ \E r \in Request \ captured :
             /\ Owner[r] = e
             /\ Reply(c, "ok", e, [NoPage EXCEPT !.rows = {r}])
             /\ captured' = captured \cup {r} /\ stored' = stored \cup {r}
             /\ unpublished' = unpublished \cup {Event("request", e, {r})}
             /\ UNCHANGED status
     \/ /\ kind \in {"new", "make"}
        /\ \E new \in Endpoint :
             /\ status[new] = "unborn"
             /\ status' = [status EXCEPT ![new] = "alive"]
             /\ Reply(c, "ok", new, NoPage)
             /\ UNCHANGED <<captured, stored, unpublished>>
  /\ UNCHANGED <<streamVars, active, recent, listVars, flags, gone>>

\* publishRequest, publishEndpointCleared, publishEndpointDeleted: outside the
\* transactions and so in any order.  A deletion ends the stream.
Publish(event) ==
  /\ event \in unpublished
  /\ unpublished' = unpublished \ {event}
  /\ LET heard == connected /\ event.endpoint = subscription.endpoint IN
     /\ channel' = IF heard THEN Append(channel, event) ELSE channel
     /\ connected' = (connected /\ ~(heard /\ event.kind = "deleted"))
  /\ UNCHANGED <<status, captured, stored, subscription, active, recent, listVars, flags,
                 call, gone>>

-----------------------------------------------------------------------------
(* The browser's stream. *)

\* EventSource connects, or connects again by itself.
Connect ==
  /\ ~connected /\ channel = <<>> /\ subscription.endpoint \in Alive
  /\ connected' = TRUE
  /\ UNCHANGED <<serverVars, channel, subscription, active, recent, listVars, flags, call,
                 gone>>

\* The connection is lost with what it carried: onError.
Break ==
  /\ connected
  /\ connected' = FALSE /\ channel' = <<>>
  /\ UNCHANGED <<serverVars, subscription, active, recent, listVars, flags, call, gone>>

\* The effect runs again: endpointId, or recentEndpointIds on which
\* loadReplacementEndpointAfterDeletion depends, is not what it was.
Resubscribe ==
  /\ ~subscription.current
  /\ subscription' = [endpoint |-> active, recent |-> recent, current |-> TRUE]
  /\ connected' = FALSE /\ channel' = <<>>
  /\ UNCHANGED <<serverVars, active, recent, listVars, flags, call, gone>>

Outdated == subscription' = [subscription EXCEPT !.current = FALSE]

-----------------------------------------------------------------------------
(* Pieces of the session's state. *)

RememberMutant(e, s) == <<e>> \o s   \* the includes() dropped
Remember(e, s) == IF e \in ToSet(s) THEN s ELSE <<e>> \o s
Forget(e, s) == RemoveFirst(s, e)   \* no endpoint is in it twice

\* mergeCapturedRequest: whatever the age of the request.
Merge(r) == list' = list \cup {r}

EmptyList == list' = {} /\ cursor' = 0

\* resetEndpointLoadState; the request list version is bumped by the caller.
Reset == EmptyList /\ search' = "all" /\ replaying' = {}

\* canRefresh, which enables search, refresh and clear.
CanRefresh == active # None /\ ~flags.loading /\ ~flags.clearing /\ ~flags.deleting

\* endpointControlsDisabled: the switcher and the endpoint's other controls.
ControlsEnabled == active # None /\ ~flags.loading /\ ~flags.deleting

Set(flag, value) == flags' = [flags EXCEPT ![flag] = value]

\* reconcileLoadedRequests: what was shown when the load began gives way to the
\* page, what arrived since stays.
Reconciled(c) == call[c].page.rows \cup (list \ call[c].known)

\* applyLoadedRequests.
ApplyLoaded(c) ==
  IF call[c].fresh THEN list' = Reconciled(c) /\ cursor' = call[c].page.next
                   ELSE UNCHANGED <<list, cursor>>

-----------------------------------------------------------------------------
(* What the user starts. *)

\* switchEndpoint: the reset bumps the version before the call reads it.
SwitchEndpoint(c, e) ==
  /\ ControlsEnabled /\ e \in ToSet(recent) \ {active}
  /\ call[c] = NoCall
  /\ call' = [Bumped(call) EXCEPT ![c] = NewCall("switch", e)]
  /\ active' = e /\ recent' = Remember(e, recent) /\ Outdated
  /\ Reset
  /\ flags' = [flags EXCEPT !.loading = TRUE, !.older = FALSE]
  /\ UNCHANGED <<serverVars, connected, channel, gone>>

StartNewEndpoint(c) ==
  /\ ControlsEnabled
  /\ Begin(c, NewCall("new", None))
  /\ Set("loading", TRUE)
  /\ UNCHANGED <<serverVars, streamVars, active, recent, listVars, gone>>

RefreshEndpoint(c) ==
  /\ CanRefresh
  /\ Begin(c, [NewCall("refresh", active) EXCEPT !.known = list, !.search = search])
  /\ UNCHANGED <<serverVars, streamVars, active, recent, listVars, flags, gone>>

LoadOlder(c) ==
  /\ active # None /\ cursor # 0 /\ ~flags.loading /\ ~flags.older
  /\ Begin(c, [NewCall("older", active) EXCEPT !.cursor = cursor, !.search = search])
  /\ Set("older", TRUE)
  /\ UNCHANGED <<serverVars, streamVars, active, recent, listVars, gone>>

SearchRequestsMutant(c, s) ==   \* the version is not bumped
  /\ CanRefresh /\ s # search
  /\ search' = s /\ EmptyList
  /\ Begin(c, [NewCall("search", active) EXCEPT !.search = s])
  /\ flags' = [flags EXCEPT !.loading = TRUE, !.older = FALSE]
  /\ UNCHANGED <<serverVars, streamVars, active, recent, replaying, gone>>

\* The search is entered or emptied; the call reads the bumped version.
SearchRequests(c, s) ==
  /\ CanRefresh /\ s # search
  /\ search' = s /\ EmptyList
  /\ call[c] = NoCall
  /\ call' = [Bumped(call) EXCEPT ![c] = [NewCall("search", active) EXCEPT !.search = s]]
  /\ flags' = [flags EXCEPT !.loading = TRUE, !.older = FALSE]
  /\ UNCHANGED <<serverVars, streamVars, active, recent, replaying, gone>>

ClearEndpoint(c) ==
  /\ CanRefresh
  /\ Begin(c, NewCall("clear", active))
  /\ Set("clearing", TRUE)
  /\ UNCHANGED <<serverVars, streamVars, active, recent, listVars, gone>>

\* Any endpoint of the switcher; the endpoints that may replace it are those
\* the callback was rendered with.
DeleteEndpoint(c, e) ==
  /\ ControlsEnabled /\ e \in ToSet(recent)
  /\ Begin(c, [NewCall("delete", e) EXCEPT !.todo = Forget(e, recent), !.deleting = TRUE])
  /\ Set("deleting", TRUE)
  /\ UNCHANGED <<serverVars, streamVars, active, recent, listVars, gone>>

ReplayRequest(c, r) ==
  /\ active # None /\ r \in list \ replaying
  /\ Begin(c, [NewCall("replay", active) EXCEPT !.known = {r}])
  /\ replaying' = replaying \cup {r}
  /\ UNCHANGED <<serverVars, streamVars, active, recent, list, cursor, search, flags, gone>>

-----------------------------------------------------------------------------
(* loadReplacementEndpointAfterDeletion, in three kinds of call. *)

\* The next candidate is looked for; when there is none an endpoint is made.
NextCandidate(todo, deleting) ==
  IF todo = <<>> THEN [NewCall("make", None) EXCEPT !.deleting = deleting]
  ELSE [NewCall("probe", Head(todo)) EXCEPT !.todo = Tail(todo), !.deleting = deleting]

\* Up to its first await, in slot c: nothing more than forgetting the endpoint
\* when it is not the active one.
BeginReplacement(c, e, todo, deleting) ==
  /\ recent' = Forget(e, recent) /\ Outdated
  /\ IF active = e
     THEN /\ active' = None /\ Reset
          /\ call' = [Bumped(call) EXCEPT ![c] = NextCandidate(todo, deleting)]
          /\ flags' = [flags EXCEPT !.loading = TRUE, !.older = FALSE]
     ELSE /\ call' = [call EXCEPT ![c] = NoCall]
          /\ flags' = [flags EXCEPT !.deleting = @ /\ ~deleting]
          /\ UNCHANGED <<active, listVars>>

\* The flow ends in slot c, and with it deleteEndpoint.
EndReplacement(c, calls, loading, older) ==
  /\ call' = [calls EXCEPT ![c] = NoCall]
  /\ flags' = [flags EXCEPT !.loading = loading, !.older = older,
                            !.deleting = @ /\ ~call[c].deleting]

\* The candidate has become the active endpoint, with the list of the call.
Adopt(c, rows, next) ==
  /\ active' = call[c].endpoint /\ Outdated
  /\ list' = rows /\ cursor' = next /\ search' = "all" /\ replaying' = {}
  /\ EndReplacement(c, Bumped(call), FALSE, FALSE)

\* An error leaves a session without an endpoint, unless it has got one.
GiveUp(c) ==
  /\ EndReplacement(c, call, flags.loading /\ active # None, flags.older)
  /\ UNCHANGED <<active, listVars, subscription, recent>>

AnswerProbe(c) ==
  /\ Is(c, "probe")
  /\ \/ /\ call[c].reply = "ok"
        /\ call' = [call EXCEPT ![c] = [NewCall("adopt", call[c].endpoint) EXCEPT
                                          !.todo = call[c].todo, !.deleting = call[c].deleting]]
        /\ UNCHANGED <<active, recent, listVars, flags, subscription>>
     \/ /\ call[c].reply = "missing"
        /\ recent' = Forget(call[c].endpoint, recent) /\ Outdated
        /\ call' = [call EXCEPT ![c] = NextCandidate(call[c].todo, call[c].deleting)]
        /\ UNCHANGED <<active, listVars, flags>>
     \/ GiveUp(c)
  /\ UNCHANGED <<serverVars, connected, channel, gone>>

\* The candidate's requests have been read, or not; another flow may have got
\* an endpoint in the meantime.  The version is read only now.
AnswerAdopt(c) ==
  /\ Is(c, "adopt")
  /\ \/ /\ call[c].reply = "ok" /\ active = None
        /\ Adopt(c, call[c].page.rows, call[c].page.next)
     \/ /\ active = None
        /\ Adopt(c, {}, 0)
     \/ /\ active # None
        /\ GiveUp(c)
  /\ UNCHANGED <<serverVars, connected, channel, recent, gone>>

\* applyNewEndpoint: whatever endpoint is active by now.
ApplyNew(c) ==
  /\ active' = call[c].endpoint /\ recent' = Remember(call[c].endpoint, recent) /\ Outdated
  /\ Reset
  /\ EndReplacement(c, Bumped(call), FALSE, FALSE)

AnswerMake(c) ==
  /\ Is(c, "make")
  /\ (call[c].reply = "ok" /\ ApplyNew(c)) \/ GiveUp(c)
  /\ UNCHANGED <<serverVars, connected, channel, gone>>

-----------------------------------------------------------------------------
(* Answers.  A call may fail whatever the server did with it. *)

AnswerNew(c) ==
  /\ Is(c, "new")
  /\ \/ call[c].reply = "ok" /\ ApplyNew(c)
     \/ /\ End(c) /\ Set("loading", FALSE)
        /\ UNCHANGED <<active, recent, listVars, subscription>>
  /\ UNCHANGED <<serverVars, connected, channel, gone>>

AnswerSwitchMutant(c) ==   \* lowered in the try, not in the finally
  /\ Is(c, "switch")
  /\ End(c)
  /\ IF active = call[c].endpoint /\ call[c].reply = "ok"
     THEN Set("loading", FALSE) /\ ApplyLoaded(c)
     ELSE UNCHANGED <<flags, list, cursor>>
  /\ UNCHANGED <<serverVars, streamVars, active, recent, search, replaying, gone>>

\* The finally lowers isLoading for the endpoint that is still active.
AnswerSwitch(c) ==
  /\ Is(c, "switch")
  /\ End(c)
  /\ IF active = call[c].endpoint
     THEN /\ Set("loading", FALSE)
          /\ (call[c].reply = "ok" /\ ApplyLoaded(c)) \/ UNCHANGED <<list, cursor>>
     ELSE UNCHANGED <<flags, list, cursor>>
  /\ UNCHANGED <<serverVars, streamVars, active, recent, search, replaying, gone>>

AnswerRefreshMutant(c) ==   \* the version is not compared
  /\ Is(c, "refresh")
  /\ End(c)
  /\ IF call[c].reply = "ok" /\ active = call[c].endpoint
     THEN list' = Reconciled(c) /\ cursor' = call[c].page.next
     ELSE UNCHANGED <<list, cursor>>
  /\ UNCHANGED <<serverVars, streamVars, active, recent, search, replaying, flags, gone>>

AnswerRefresh(c) ==
  /\ Is(c, "refresh")
  /\ End(c)
  /\ \/ call[c].reply = "ok" /\ active = call[c].endpoint /\ ApplyLoaded(c)
     \/ UNCHANGED <<list, cursor>>
  /\ UNCHANGED <<serverVars, streamVars, active, recent, search, replaying, flags, gone>>

\* mergeCapturedRequestPage; the finally lowers isLoadingOlderRequests always.
AnswerOlder(c) ==
  /\ Is(c, "older")
  /\ End(c) /\ Set("older", FALSE)
  /\ \/ /\ call[c].reply = "ok" /\ active = call[c].endpoint /\ call[c].fresh
        /\ list' = list \cup call[c].page.rows
        /\ cursor' = call[c].page.next
     \/ UNCHANGED <<list, cursor>>
  /\ UNCHANGED <<serverVars, streamVars, active, recent, search, replaying, gone>>

\* The finally lowers isLoading only for the version of the call.
AnswerSearch(c) ==
  /\ Is(c, "search")
  /\ End(c)
  /\ (call[c].reply = "ok" /\ active = call[c].endpoint /\ ApplyLoaded(c))
       \/ UNCHANGED <<list, cursor>>
  /\ Set("loading", flags.loading /\ ~(call[c].fresh /\ active = call[c].endpoint))
  /\ UNCHANGED <<serverVars, streamVars, active, recent, search, replaying, gone>>

\* The list is emptied although another endpoint may be active by now.
AnswerClear(c) ==
  /\ Is(c, "clear")
  /\ \/ /\ call[c].reply = "ok"
        /\ call' = [Bumped(call) EXCEPT ![c] = NoCall]
        /\ EmptyList
        /\ flags' = [flags EXCEPT !.clearing = FALSE, !.older = FALSE]
        /\ gone' = gone \cup call[c].page.rows
     \/ /\ End(c) /\ Set("clearing", FALSE)
        /\ UNCHANGED <<list, cursor, gone>>
  /\ UNCHANGED <<serverVars, streamVars, active, recent, search, replaying>>

AnswerDelete(c) ==
  /\ Is(c, "delete")
  /\ \/ /\ call[c].reply = "ok"
        /\ BeginReplacement(c, call[c].endpoint, call[c].todo, TRUE)
     \/ /\ End(c) /\ Set("deleting", FALSE)
        /\ UNCHANGED <<active, recent, listVars, subscription>>
  /\ UNCHANGED <<serverVars, connected, channel, gone>>

AnswerReplayMutant(c) ==   \* the endpoint is not compared
  /\ Is(c, "replay")
  /\ End(c)
  /\ replaying' = replaying \ call[c].known
  /\ \/ /\ call[c].reply = "ok"
        /\ \E r \in call[c].page.rows : Matches(r, search) /\ Merge(r)
     \/ list' = list
  /\ UNCHANGED <<serverVars, streamVars, active, recent, cursor, search, flags, gone>>

\* The version is not compared.
AnswerReplay(c) ==
  /\ Is(c, "replay")
  /\ End(c)
  /\ replaying' = replaying \ call[c].known
  /\ \/ /\ call[c].reply = "ok" /\ active = call[c].endpoint
        /\ \E r \in call[c].page.rows : Matches(r, search) /\ Merge(r)
     \/ list' = list
  /\ UNCHANGED <<serverVars, streamVars, active, recent, cursor, search, flags, gone>>

Answer(c) ==
  \/ AnswerSwitch(c) \/ AnswerNew(c) \/ AnswerRefresh(c) \/ AnswerOlder(c)
  \/ AnswerSearch(c) \/ AnswerClear(c) \/ AnswerDelete(c) \/ AnswerReplay(c)
  \/ AnswerProbe(c) \/ AnswerAdopt(c) \/ AnswerMake(c)

-----------------------------------------------------------------------------
(* Events of the stream. *)

TakeEvent(kind) == channel # <<>> /\ Head(channel).kind = kind /\ channel' = Tail(channel)

\* onRequest: checked against the search, not against the active endpoint.
OnRequest ==
  /\ TakeEvent("request")
  /\ \/ \E r \in Head(channel).requests : Matches(r, search) /\ Merge(r)
     \/ (\A r \in Head(channel).requests : ~Matches(r, search)) /\ list' = list
  /\ UNCHANGED <<serverVars, connected, subscription, active, recent, cursor, search,
                 replaying, flags, call, gone>>

OnClear ==
  /\ TakeEvent("clear")
  /\ EmptyList /\ Set("older", FALSE)
  /\ call' = Bumped(call)
  /\ gone' = gone \cup Head(channel).requests
  /\ UNCHANGED <<serverVars, connected, subscription, active, recent, search, replaying>>

\* onDeleted: of the endpoint subscribed to, with that render's recent ones.
OnDeleted(c) ==
  /\ TakeEvent("deleted") /\ call[c] = NoCall
  /\ BeginReplacement(c, Head(channel).endpoint,
                      Forget(Head(channel).endpoint, subscription.recent), FALSE)
  /\ UNCHANGED <<serverVars, connected, gone>>

-----------------------------------------------------------------------------
Server ==
  \/ \E r \in Request : Capture(r)
  \/ \E e \in Endpoint : Elsewhere(e)
  \/ \E c \in Slot : Serve(c)
  \/ \E event \in unpublished : Publish(event)

User ==
  \E c \in Slot :
    \/ \E e \in Endpoint : SwitchEndpoint(c, e) \/ DeleteEndpoint(c, e)
    \/ \E s \in {"all", "some"} : SearchRequests(c, s)
    \/ \E r \in Request : ReplayRequest(c, r)
    \/ StartNewEndpoint(c) \/ RefreshEndpoint(c) \/ LoadOlder(c) \/ ClearEndpoint(c)

Stream ==
  \/ Connect \/ Break \/ Resubscribe
  \/ OnRequest \/ OnClear \/ \E c \in Slot : OnDeleted(c)

Next == Server \/ User \/ Stream \/ \E c \in Slot : Answer(c)

Spec == Init /\ [][Next]_vars

-----------------------------------------------------------------------------
(* Properties. *)

\* searching-requests: "Search finds the captured requests you want on the
\* current endpoint."  Whatever answers, events and other searches overlap, the
\* list shows only requests that match the search in force.
OnlyMatchingShown == \A r \in list : Matches(r, search)

\* Requests that a step brings into the list.
Entering == list' \ list
OnAnEvent == OnRequest \/ OnClear \/ \E c \in Slot : OnDeleted(c)

\* A cleared request that the session has been told of does not come back by a
\* page that was read before the clear, however long its answer took; only an
\* event, a replay's answer or the adoption of another endpoint, none of which
\* compares the version, may show it again.
ClearedStaysCleared ==
  [][Entering \cap gone = {} \/ OnAnEvent
       \/ \E c \in Slot : AnswerReplay(c) \/ AnswerAdopt(c)]_vars

\* A request that an answer brings into the list belongs to the endpoint that is
\* active by then, although endpoints are switched, deleted and replaced while
\* calls are in flight.
AnswersKeepToTheirEndpoint ==
  [][(\A r \in Entering : Owner[r] = active') \/ OnAnEvent]_vars

\* A call whose answer, whichever it is, lowers isLoading or begins another one
\* that does.
Lowers(c) ==
  \/ call[c].kind = "new"
  \/ call[c].kind \in {"probe", "adopt", "make"} /\ active = None
  \/ call[c].kind = "switch" /\ call[c].endpoint = active
  \/ call[c].kind = "search" /\ call[c].endpoint = active /\ call[c].fresh
LoadingForEver == flags.loading /\ \A c \in Slot : ~Lowers(c)

\* The loading state, which disables the page's controls, always has a call that
\* will end it: only a clear that arrives during a search takes that away.
OnlyClearStrandsLoading ==
  [][LoadingForEver' => LoadingForEver \/ OnClear \/ \E c \in Slot : AnswerClear(c)]_vars

\* inspecting-requests: "Page back through older requests beyond the most recent
\* ones already shown."  Of the requests there have been from the start, the list
\* skips none between two that it shows.
OlderPagesAreContiguous ==
  LET shown == {r \in Rows(active) \cap History : Matches(r, search)}
  IN \A a, b, c \in shown : (a < b /\ b < c /\ {a, c} \subseteq list) => b \in list
=============================================================================

------------------------ MODULE ForwardTargetsProofs ------------------------
(***************************************************************************)
(* Proofs about ForwardTargets, for any number of endpoints, keys, targets *)
(* and calls and any limits.  The limits and the uniqueness of targets are *)
(* not inductive: a save is validated in one step and writes in a later    *)
(* one.  The invariant says that in between it holds its endpoint's row    *)
(* (Locked), so that nobody else writes that endpoint's targets and what   *)
(* was valid stays valid.  On the page's side the list has one entry for a *)
(* target, because an answer to a save carries its own target only.  The   *)
(* last part is about what a deletion takes from that list: a load that    *)
(* may still replace the list was asked for while the deletion was on its  *)
(* way, or has nothing of the deleted target in its answer.                *)
(***************************************************************************)
EXTENDS ForwardTargets, FiniteSetTheorems, TLAPS

IsNew(ch) == ch.key \in Key /\ ch.target = None

\* What a call carries agrees with its kind and phase.
Fits(x) ==
  /\ \A r, s \in x.reply : r.id = s.id => r = s
  /\ x.kind = "create" /\ x.phase # "done" => IsNew(x.change)
  /\ x.kind \in Save /\ x.phase = "done" =>
       x.change.target \in Target /\ \A r \in x.reply : r.id = x.change.target

CallsFit == \A c \in Call : Fits(call[c])

\* A validated save holds its endpoint's row, and is still valid.
Validated(c, kind, e, ch) ==
  /\ call[c].phase = "valid"
  /\ call[c].kind = kind /\ call[c].endpoint = e /\ call[c].change = ch

Locked ==
  \A c \in Call, kind \in Save, e \in Endpoint, ch \in Change :
    Validated(c, kind, e, ch) => holder[e] = c /\ e \in alive /\ Valid(kind, e, ch)

IInv == TypeOK /\ CallsFit /\ Locked /\ ValidRows

-----------------------------------------------------------------------------
(* Types of calls and rows. *)

LEMMA CallTypes ==
  ASSUME TypeOK, NEW c \in Call, call[c].kind \in Save \cup Load
  PROVE  /\ call[c] \in CallState
         /\ call[c].endpoint \in Endpoint /\ call[c].change \in Change
         /\ call[c].reply \in SUBSET Shown
<1>1. call[c] # NoCall
  BY DEF NoCall, Save, Load
<1>2. QED
  BY <1>1 DEF TypeOK, CallState

LEMMA NewCallTypes ==
  ASSUME NEW kind \in Save \cup Load, NEW by \in {"page", "other"}, NEW e \in Endpoint,
         NEW change \in Change, kind = "create" => IsNew(change)
  PROVE  /\ NewCall(kind, by, e, change) \in CallState
         /\ Fits(NewCall(kind, by, e, change))
         /\ NewCall(kind, by, e, change).phase = "sent"
BY DEF NewCall, CallState, Fits

LEMMA NoCallFits == Fits(NoCall) /\ NoCall.kind \notin Save \cup Load
BY DEF Fits, NoCall, Save, Load

LEMMA NoChangeType == NoChange \in Change
BY DEF NoChange, Change

LEMMA RowsTyped ==
  ASSUME TypeOK, NEW e \in Endpoint
  PROVE  /\ IsFiniteSet(Rows(e)) /\ IsFiniteSet(Enabled(e))
         /\ \A t \in Rows(e) : t \in Target /\ row[t] \in Row /\ row[t].key \in Key
<1>1. Rows(e) \subseteq Target /\ Enabled(e) \subseteq Target
  BY DEF Rows, Enabled
<1>2. IsFiniteSet(Rows(e)) /\ IsFiniteSet(Enabled(e))
  BY <1>1, TargetAssumption, FS_Subset
<1>3. \A t \in Rows(e) : t \in Target /\ row[t] \in Row /\ row[t].key \in Key
  BY TargetAssumption DEF Rows, TypeOK
<1>4. QED
  BY <1>2, <1>3

\* A validity that depends on rows that do not change.
LEMMA ValidElsewhere ==
  ASSUME NEW kind \in Save, NEW e, NEW ch, kind = "create" => IsNew(ch),
         \A t \in Target : row'[t].endpoint = e <=> row[t].endpoint = e,
         \A t \in Target : row[t].endpoint = e => row'[t] = row[t],
         Valid(kind, e, ch)
  PROVE  Valid(kind, e, ch)'
<1>1. Rows(e)' = Rows(e) /\ Enabled(e)' = Enabled(e)
  BY DEF Rows, Enabled
<1>2. \A t \in Rows(e) : row'[t] = row[t]
  BY DEF Rows
<1>3. ASSUME ch.key \in Key \/ ch.target \in Rows(e), IsUnique(e, ch)
      PROVE  IsUnique(e, ch)'
  <2>1. EffectiveKey(ch)' = EffectiveKey(ch)
    BY <1>2, <1>3, TargetAssumption DEF EffectiveKey
  <2>2. QED
    BY <1>1, <1>2, <1>3, <2>1 DEF IsUnique
<1>4. ASSUME ch.target \in Rows(e), CanEnable(e, ch)
      PROVE  CanEnable(e, ch)'
  BY <1>1, <1>2, <1>4 DEF CanEnable
<1>5. CASE kind = "create"
  BY <1>1, <1>3, <1>5 DEF Valid, IsNew
<1>6. CASE kind = "update"
  BY <1>1, <1>3, <1>4, <1>6 DEF Valid
<1>7. CASE kind = "delete"
  BY <1>1, <1>7 DEF Valid
<1>8. QED
  BY <1>5, <1>6, <1>7 DEF Save

-----------------------------------------------------------------------------
(* Steps that leave the server's tables alone. *)

\* A call that is validated after the step was so before, and is the same save.
StaysValidated(d) ==
  call'[d].phase = "valid" =>
    /\ call[d].phase = "valid" /\ call'[d].kind = call[d].kind
    /\ call'[d].endpoint = call[d].endpoint /\ call'[d].change = call[d].change

CallsKept ==
  /\ call' \in [Call -> CallState \cup {NoCall}]
  /\ \A d \in Call : Fits(call'[d]) /\ StaysValidated(d)

LEMMA QuietStep ==
  ASSUME IInv, UNCHANGED serverVars,
         CallsKept,
         active' \in Endpoint, shown' \in SUBSET Shown,
         \A s, u \in shown' : s.id = u.id => s = u,
         flags' \in [loading : BOOLEAN, listing : BOOLEAN, saving : BOOLEAN],
         told' \in SUBSET Target
  PROVE  IInv'
<1>1. TypeOK'
  BY DEF IInv, TypeOK, serverVars, CallsKept
<1>2. CallsFit'
  BY DEF CallsFit, CallsKept
<1>3. Locked'
  <2> SUFFICES ASSUME NEW d \in Call, NEW kind \in Save, NEW e \in Endpoint, NEW ch \in Change,
                      Validated(d, kind, e, ch)'
               PROVE  holder'[e] = d /\ e \in alive' /\ Valid(kind, e, ch)'
    BY DEF Locked
  <2>1. Validated(d, kind, e, ch)
    BY DEF Validated, StaysValidated, CallsKept
  <2>2. holder[e] = d /\ e \in alive /\ Valid(kind, e, ch)
    BY <2>1 DEF IInv, Locked
  <2>3. kind = "create" => IsNew(ch)
    BY <2>1 DEF IInv, CallsFit, Fits, Validated
  <2>4. row' = row
    BY DEF serverVars
  <2>5. Valid(kind, e, ch)'
    BY <2>2, <2>3, <2>4, ValidElsewhere
  <2>6. QED
    BY <2>2, <2>5 DEF serverVars
<1>4. ValidRows'
  <2>1. \A e \in Endpoint : Rows(e)' = Rows(e) /\ Enabled(e)' = Enabled(e)
    BY DEF Rows, Enabled, serverVars
  <2>2. QED
    BY <2>1 DEF IInv, ValidRows, serverVars
<1>5. QED
  BY <1>1, <1>2, <1>3, <1>4 DEF IInv

\* The typing of what a step leaves alone, and of calls that end or go on.
LEMMA StateTypes ==
  ASSUME IInv
  PROVE  /\ call \in [Call -> CallState \cup {NoCall}] /\ active \in Endpoint
         /\ shown \in SUBSET Shown /\ \A s, u \in shown : s.id = u.id => s = u
         /\ flags \in [loading : BOOLEAN, listing : BOOLEAN, saving : BOOLEAN]
         /\ told \in SUBSET Target
         /\ \A d \in Call : Fits(call[d])
BY DEF IInv, TypeOK, CallsFit

LEMMA CallEnds ==
  ASSUME IInv, NEW c \in Call, call' = [call EXCEPT ![c] = NoCall]
  PROVE  CallsKept
<1>1. \A d \in Call : call'[d] = IF d = c THEN NoCall ELSE call[d]
  BY StateTypes
<1>2. NoCall.phase = "done"
  BY DEF NoCall
<1>3. QED
  BY <1>1, <1>2, StateTypes, NoCallFits DEF StaysValidated, CallsKept

\* A call that loses its version keeps the rest.
LEMMA BumpedCalls ==
  ASSUME IInv, NEW d \in Call
  PROVE  /\ Bumped[d] \in CallState \cup {NoCall} /\ Fits(Bumped[d])
         /\ Bumped[d].phase = call[d].phase /\ Bumped[d].kind = call[d].kind
         /\ Bumped[d].endpoint = call[d].endpoint /\ Bumped[d].change = call[d].change
         /\ Bumped[d].by = call[d].by /\ Bumped[d].beside = call[d].beside
         /\ Bumped[d].reply = call[d].reply
         /\ call[d].kind = "list" => ~Bumped[d].fresh
<1>1. CASE call[d].kind = "list"
  <2> DEFINE y == [call[d] EXCEPT !.fresh = FALSE]
  <2>1. call[d] \in CallState
    BY <1>1, CallTypes DEF IInv, Load
  <2>2. y \in CallState /\ ~y.fresh
    BY <2>1 DEF CallState
  <2>3. /\ y.phase = call[d].phase /\ y.kind = call[d].kind /\ y.endpoint = call[d].endpoint
        /\ y.change = call[d].change /\ y.reply = call[d].reply
        /\ y.by = call[d].by /\ y.beside = call[d].beside
    BY <2>1 DEF CallState
  <2>4. Bumped[d] = y
    BY <1>1 DEF Bumped
  <2> HIDE DEF y
  <2>5. Fits(y)
    BY <2>3, StateTypes DEF Fits
  <2>6. QED
    BY <2>2, <2>3, <2>4, <2>5
<1>2. CASE call[d].kind # "list"
  <2>1. Bumped[d] = call[d]
    BY <1>2 DEF Bumped
  <2>2. QED
    BY <1>2, <2>1, StateTypes
<1>3. QED
  BY <1>1, <1>2

\* calls are the ones in flight, some of which may have lost their version.
LEMMA CallBegins ==
  ASSUME IInv, NEW c \in Call, NEW x \in CallState, Fits(x), x.phase = "sent",
         call' = [call EXCEPT ![c] = x] \/ call' = [Bumped EXCEPT ![c] = x]
  PROVE  CallsKept
<1>3. \A d \in Call : /\ Bumped[d] \in CallState \cup {NoCall} /\ Fits(Bumped[d])
                      /\ Bumped[d].phase = call[d].phase /\ Bumped[d].kind = call[d].kind
                      /\ Bumped[d].endpoint = call[d].endpoint
                      /\ Bumped[d].change = call[d].change
  BY BumpedCalls
<1>4. \A d \in Call : (d = c /\ call'[d] = x) \/ call'[d] = call[d] \/ call'[d] = Bumped[d]
  BY StateTypes DEF Bumped
<1>5. call' \in [Call -> CallState \cup {NoCall}]
  <2>1. call' = [d \in Call |-> call'[d]]
    BY StateTypes DEF Bumped
  <2>2. \A d \in Call : call'[d] \in CallState \cup {NoCall}
    BY <1>3, <1>4, StateTypes
  <2>3. QED
    BY <2>1, <2>2
<1>6. \A d \in Call : Fits(call'[d]) /\ StaysValidated(d)
  BY <1>3, <1>4, StateTypes DEF StaysValidated
<1>7. QED
  BY <1>5, <1>6 DEF CallsKept

LEMMA Lowered ==
  ASSUME IInv, NEW c, NEW flag \in {"loading", "listing", "saving"}, Lowers(c, flag)
  PROVE  flags' \in [loading : BOOLEAN, listing : BOOLEAN, saving : BOOLEAN]
<1>1. CASE flag = "loading"
  BY <1>1, StateTypes DEF Lowers
<1>2. CASE flag = "listing"
  BY <1>2, StateTypes DEF Lowers
<1>3. CASE flag = "saving"
  BY <1>3, StateTypes DEF Lowers
<1>4. QED
  BY <1>1, <1>2, <1>3

LEMMA EditsAreChanges ==
  ASSUME NEW targets \in SUBSET Target, NEW ch \in Edits(targets)
  PROVE  ch \in Change
BY DEF Edits, Change

LEMMA Requested ==
  ASSUME IInv, NEW c \in Call, NEW kind \in Save \cup Load, NEW by \in {"page", "other"},
         NEW e \in Endpoint, NEW ch \in Change, kind = "create" => IsNew(ch),
         \/ call' = [call EXCEPT ![c] = NewCall(kind, by, e, ch)]
         \/ call' = [Bumped EXCEPT ![c] = NewCall(kind, by, e, ch)]
  PROVE  CallsKept
BY NewCallTypes, CallBegins

LEMMA RequestedElsewhere ==
  ASSUME IInv, NEW c \in Call, NEW kind \in Save,
         NEW e \in Endpoint, NEW ch \in Change, kind = "create" => IsNew(ch),
         Request(c, "other", kind, e, ch)
  PROVE  CallsKept
<1>1. call' = [call EXCEPT ![c] = NewCall(kind, "other", e, ch)]
  BY DEF Request
<1>2. kind \in Save \cup Load
  OBVIOUS
<1>3. QED
  BY <1>1, <1>2, Requested

LEMMA ElsewhereStep ==
  ASSUME IInv, NEW c \in Call, Elsewhere(c)
  PROVE  IInv'
<1>1. CallsKept
  <2>1. ASSUME NEW e \in Endpoint, NEW k \in Key,
               Request(c, "other", "create", e, [NoChange EXCEPT !.key = k])
        PROVE  CallsKept
    <3>1. [NoChange EXCEPT !.key = k] \in Change /\ IsNew([NoChange EXCEPT !.key = k])
      BY DEF NoChange, Change, IsNew
    <3>2. QED
      BY <2>1, <3>1, RequestedElsewhere DEF Save
  <2>2. ASSUME NEW e \in Endpoint, NEW ch \in Edits(Rows(e)), Request(c, "other", "update", e, ch)
        PROVE  CallsKept
    <3>1. ch \in Change
      BY EditsAreChanges DEF Rows
    <3>2. QED
      BY <2>2, <3>1, RequestedElsewhere DEF Save
  <2>3. ASSUME NEW e \in Endpoint, NEW t \in Rows(e),
               Request(c, "other", "delete", e, [NoChange EXCEPT !.target = t])
        PROVE  CallsKept
    <3>1. [NoChange EXCEPT !.target = t] \in Change
      BY DEF NoChange, Change, Rows
    <3>2. QED
      BY <2>3, <3>1, RequestedElsewhere DEF Save
  <2>4. QED
    BY <2>1, <2>2, <2>3 DEF Elsewhere
<1>2. UNCHANGED <<serverVars, pageVars>>
  BY DEF Elsewhere
<1>3. QED
  BY <1>1, <1>2, StateTypes, QuietStep DEF pageVars

LEMMA RefuseStep ==
  ASSUME IInv, NEW c \in Call, Refuse(c)
  PROVE  IInv'
<1>1. /\ call' = [call EXCEPT ![c] = NoCall] /\ UNCHANGED serverVars
      /\ UNCHANGED <<active, shown, flags, told>>
  BY DEF Refuse, pageVars
<1>2. CallsKept
  BY <1>1, CallEnds
<1>3. QED
  BY <1>1, <1>2, StateTypes, QuietStep

LEMMA ReadListStep ==
  ASSUME IInv, NEW c \in Call, ReadList(c)
  PROVE  IInv'
<1> DEFINE reply == {Show(t) : t \in Rows(call[c].endpoint)}
           x == [call[c] EXCEPT !.phase = "done", !.reply = reply]
<1>1. /\ call[c] \in CallState /\ call[c].endpoint \in Endpoint /\ call[c].kind \in Load
  BY CallTypes DEF ReadList, In, IInv
<1>2. /\ call' = [call EXCEPT ![c] = x] \/ call' = [call EXCEPT ![c] = NoCall]
      /\ UNCHANGED serverVars /\ UNCHANGED <<active, shown, flags, told>>
  BY DEF ReadList, Replies, pageVars
<1>3. \A r \in reply : /\ r \in Shown
                       /\ \E t \in Rows(call[c].endpoint) : r = Show(t) /\ r.id = t
  <2> SUFFICES ASSUME NEW t \in Rows(call[c].endpoint)
               PROVE  Show(t) \in Shown /\ Show(t).id = t
    OBVIOUS
  <2>1. t \in Target /\ row[t].key \in Key /\ row[t].enabled \in BOOLEAN
    BY <1>1, RowsTyped DEF IInv, Row
  <2>2. QED
    BY <2>1 DEF Show, Shown
<1>4. \A r, s \in reply : r.id = s.id => r = s
  BY <1>3
<1> HIDE DEF reply
<1>5. x \in CallState /\ Fits(x) /\ x.phase = "done"
  BY <1>1, <1>3, <1>4 DEF CallState, Fits, Load, Save
<1> HIDE DEF x
<1>6. CallsKept
  <2>1. CASE call' = [call EXCEPT ![c] = NoCall]
    BY <2>1, CallEnds
  <2>2. CASE call' = [call EXCEPT ![c] = x]
    BY <1>5, <2>2, StateTypes DEF CallsKept, StaysValidated
  <2>3. QED
    BY <1>2, <2>1, <2>2
<1>7. QED
  BY <1>2, <1>6, StateTypes, QuietStep

\* The page asks for something.
LEMMA PageAsksStep ==
  ASSUME IInv, NEW c \in Call,
         \/ LoadForwardTargets(c) \/ SaveForwardTarget(c)
         \/ \E e \in Endpoint : SwitchEndpoint(c, e)
  PROVE  IInv'
<1>1. ASSUME NEW kind \in Load, NEW e \in Endpoint, Begin(c, kind, e, call) \/ Begin(c, kind, e, Bumped)
      PROVE  CallsKept
  <2> DEFINE n == NewCall(kind, "page", e, NoChange)
             x == [n EXCEPT !.beside = BeingDeleted]
  <2>1. n \in CallState /\ Fits(n) /\ n.phase = "sent"
    BY NoChangeType, NewCallTypes DEF Load
  <2> HIDE DEF n
  <2>2. BeingDeleted \in SUBSET Target
    BY DEF BeingDeleted
  <2>3. x \in CallState /\ Fits(x) /\ x.phase = "sent"
    BY <2>1, <2>2 DEF CallState, Fits
  <2>4. call' = [call EXCEPT ![c] = x] \/ call' = [Bumped EXCEPT ![c] = x]
    BY <1>1 DEF Begin, n
  <2> HIDE DEF x
  <2>5. QED
    BY <2>3, <2>4, CallBegins
<1>2. CASE LoadForwardTargets(c)
  <2>1. CallsKept
    BY <1>1, <1>2, StateTypes DEF LoadForwardTargets, Load
  <2>2. flags' \in [loading : BOOLEAN, listing : BOOLEAN, saving : BOOLEAN]
    BY <1>2, StateTypes DEF LoadForwardTargets
  <2>3. UNCHANGED serverVars /\ UNCHANGED <<active, shown, told>>
    BY <1>2 DEF LoadForwardTargets
  <2>4. QED
    BY <2>1, <2>2, <2>3, StateTypes, QuietStep
<1>3. CASE SaveForwardTarget(c)
  <2>1. PICK kind \in Save, ch \in Change :
          /\ \/ kind = "create" /\ ch \in [target : {None}, key : Key, enabled : {None}]
             \/ kind = "update" /\ ch \in Edits({s.id : s \in shown})
             \/ kind = "delete" /\ ch \in [target : {s.id : s \in shown}, key : {None}, enabled : {None}]
          /\ call' = [Bumped EXCEPT ![c] = NewCall(kind, "page", active, ch)]
    BY <1>3 DEF SaveForwardTarget
  <2>2. kind = "create" => IsNew(ch)
    BY <2>1 DEF IsNew
  <2>3. CallsKept
    <3>1. /\ kind \in Save \cup Load /\ active \in Endpoint
          /\ call' = [Bumped EXCEPT ![c] = NewCall(kind, "page", active, ch)]
      BY <2>1, StateTypes
    <3>2. QED
      BY <2>2, <3>1, Requested
  <2>4. flags' \in [loading : BOOLEAN, listing : BOOLEAN, saving : BOOLEAN]
    BY <1>3, StateTypes DEF SaveForwardTarget
  <2>5. UNCHANGED serverVars /\ UNCHANGED <<active, shown, told>>
    BY <1>3 DEF SaveForwardTarget
  <2>6. QED
    BY <2>3, <2>4, <2>5, StateTypes, QuietStep
<1>4. ASSUME NEW e \in Endpoint, SwitchEndpoint(c, e)
      PROVE  IInv'
  <2>1. CallsKept
    BY <1>1, <1>4 DEF SwitchEndpoint, Load
  <2>2. /\ active' = e /\ shown' = {} /\ UNCHANGED serverVars /\ told' = told
        /\ flags' \in [loading : BOOLEAN, listing : BOOLEAN, saving : BOOLEAN]
    BY <1>4 DEF SwitchEndpoint
  <2>3. QED
    BY <2>1, <2>2, StateTypes, QuietStep
<1>5. QED
  BY <1>2, <1>3, <1>4

\* The page is answered: its list is still one of targets.
LEMMA AnsweredStep ==
  ASSUME IInv, NEW c \in Call, NEW kinds \in SUBSET (Save \cup Load), Answered(c, kinds),
         NEW flag \in {"loading", "listing", "saving"}, Lowers(c, flag),
         shown' \in SUBSET Shown, \A s, u \in shown' : s.id = u.id => s = u,
         told' \in SUBSET Target
  PROVE  IInv'
<1>1. call' = [call EXCEPT ![c] = NoCall] /\ UNCHANGED serverVars /\ active' = active
  BY DEF Answered
<1>2. CallsKept
  BY <1>1, CallEnds
<1>3. flags' \in [loading : BOOLEAN, listing : BOOLEAN, saving : BOOLEAN]
  BY Lowered
<1>4. QED
  BY <1>1, <1>2, <1>3, StateTypes, QuietStep

LEMMA PageHearsStep ==
  ASSUME IInv, NEW c \in Call, AnswerLoad(c) \/ AnswerSwitch(c) \/ AnswerSave(c)
  PROVE  IInv'
<1>1. call[c].kind \in Save \cup Load => call[c].reply \in SUBSET Shown /\ Fits(call[c])
  BY CallTypes, StateTypes DEF IInv
<1>2. CASE AnswerLoad(c)
  <2>1. /\ Answered(c, {"list"}) /\ Lowers(c, "listing") /\ told' = told
        /\ shown' = call[c].reply \/ shown' = shown
    BY <1>2 DEF AnswerLoad
  <2>2. {"list"} \in SUBSET (Save \cup Load) /\ call[c].kind \in Save \cup Load
    BY <2>1 DEF Answered, Load
  <2>3. shown' \in SUBSET Shown /\ \A s, u \in shown' : s.id = u.id => s = u
    BY <1>1, <2>1, <2>2, StateTypes DEF Fits
  <2>4. QED
    BY <2>1, <2>2, <2>3, StateTypes, AnsweredStep
<1>3. CASE AnswerSwitch(c)
  <2>1. /\ Answered(c, {"switch"}) /\ Lowers(c, "loading") /\ told' = told
        /\ shown' = call[c].reply \/ shown' = shown
    BY <1>3 DEF AnswerSwitch
  <2>2. {"switch"} \in SUBSET (Save \cup Load) /\ call[c].kind \in Save \cup Load
    BY <2>1 DEF Answered, Load
  <2>3. shown' \in SUBSET Shown /\ \A s, u \in shown' : s.id = u.id => s = u
    BY <1>1, <2>1, <2>2, StateTypes DEF Fits
  <2>4. QED
    BY <2>1, <2>2, <2>3, StateTypes, AnsweredStep
<1>4. CASE AnswerSave(c)
  <2> DEFINE id == call[c].change.target
  <2>1. /\ Answered(c, Save) /\ Lowers(c, "saving") /\ call[c].phase = "done"
        /\ shown' = shown \/ shown' = Others(id) \cup call[c].reply
        /\ told' = told \/ told' = told \cup {id}
    BY <1>4 DEF AnswerSave
  <2>2. Save \in SUBSET (Save \cup Load) /\ call[c].kind \in Save
    BY <2>1 DEF Answered
  <2>3. /\ id \in Target /\ \A r \in call[c].reply : r.id = id
        /\ \A r, s \in call[c].reply : r.id = s.id => r = s
        /\ call[c].reply \in SUBSET Shown
    BY <1>1, <2>1, <2>2 DEF Fits
  <2> HIDE DEF id
  <2>4. shown' \in SUBSET Shown /\ \A s, u \in shown' : s.id = u.id => s = u
    BY <2>1, <2>3, StateTypes DEF Others
  <2>5. told' \in SUBSET Target
    BY <2>1, <2>3, StateTypes
  <2>6. QED
    BY <2>1, <2>2, <2>4, <2>5, AnsweredStep
<1>5. QED
  BY <1>2, <1>3, <1>4

LEMMA SaveFailsStep ==
  ASSUME IInv, NEW c \in Call, SaveFails(c)
  PROVE  IInv'
<1> DEFINE x == [call[c] EXCEPT !.by = "other"]
<1>1. call[c] \in CallState
  BY CallTypes DEF SaveFails, IInv
<1>2. /\ x \in CallState /\ x.phase = call[c].phase /\ x.kind = call[c].kind
      /\ x.endpoint = call[c].endpoint /\ x.change = call[c].change
      /\ Fits(x)
  BY <1>1, StateTypes DEF CallState, Fits
<1>3. /\ call' = [call EXCEPT ![c] = x] \/ call' = [call EXCEPT ![c] = NoCall]
      /\ UNCHANGED serverVars /\ UNCHANGED <<active, shown, told>>
  BY DEF SaveFails
<1> HIDE DEF x
<1>4. CallsKept
  <2>1. CASE call' = [call EXCEPT ![c] = NoCall]
    BY <2>1, CallEnds
  <2>2. CASE call' = [call EXCEPT ![c] = x]
    BY <1>2, <2>2, StateTypes DEF CallsKept, StaysValidated
  <2>3. QED
    BY <1>3, <2>1, <2>2
<1>5. flags' \in [loading : BOOLEAN, listing : BOOLEAN, saving : BOOLEAN]
  BY Lowered DEF SaveFails
<1>6. QED
  BY <1>3, <1>4, <1>5, StateTypes, QuietStep

-----------------------------------------------------------------------------
(* Steps of transactions. *)

\* What is validated under the lock is Locked.
LEMMA BeginSaveStep ==
  ASSUME IInv, NEW c \in Call, BeginSave(c)
  PROVE  IInv'
<1> DEFINE x == [call[c] EXCEPT !.phase = "valid"]
           f == call[c].endpoint
<1>1. /\ call[c] \in CallState /\ f \in Endpoint /\ call[c].kind \in Save
      /\ call[c].phase = "sent"
  BY CallTypes DEF BeginSave, In, IInv
<1>2. /\ x \in CallState /\ x.phase = "valid" /\ x.kind = call[c].kind
      /\ x.endpoint = f /\ x.change = call[c].change /\ Fits(x)
  BY <1>1, StateTypes DEF CallState, Fits
<1>3. /\ call' = [call EXCEPT ![c] = x] /\ holder' = [holder EXCEPT ![f] = c]
      /\ holder[f] = None /\ f \in alive
      /\ UNCHANGED <<alive, row>> /\ UNCHANGED <<active, shown, flags, told>>
  BY DEF BeginSave, pageVars
<1>4. Valid(call[c].kind, f, call[c].change)
  BY DEF BeginSave
<1> HIDE DEF x, f
<1>5. TypeOK'
  <2>1. holder' \in [Endpoint -> Call \cup {None}] /\ call' \in [Call -> CallState \cup {NoCall}]
    BY <1>2, <1>3 DEF IInv, TypeOK
  <2>2. QED
    BY <1>3, <2>1 DEF IInv, TypeOK
<1>6. CallsFit'
  BY <1>2, <1>3, StateTypes DEF CallsFit
<1>7. Locked'
  <2> SUFFICES ASSUME NEW d \in Call, NEW kind \in Save, NEW e \in Endpoint, NEW ch \in Change,
                      Validated(d, kind, e, ch)'
               PROVE  holder'[e] = d /\ e \in alive' /\ Valid(kind, e, ch)'
    BY DEF Locked
  <2>1. kind = "create" => IsNew(ch)
    BY <1>6 DEF CallsFit, Fits, Validated
  <2>2. Valid(kind, e, ch) => Valid(kind, e, ch)'
    BY <1>3, <2>1, ValidElsewhere
  <2>3. CASE d = c
    <3>1. kind = call[c].kind /\ e = f /\ ch = call[c].change
      BY <1>2, <1>3, <2>3, StateTypes DEF Validated
    <3>2. holder'[f] = c
      BY <1>1, <1>3 DEF IInv, TypeOK
    <3>3. QED
      BY <1>3, <1>4, <2>2, <2>3, <3>1, <3>2
  <2>4. CASE d # c
    <3>1. Validated(d, kind, e, ch)
      BY <1>3, <2>4, StateTypes DEF Validated
    <3>2. holder[e] = d /\ e \in alive /\ Valid(kind, e, ch)
      BY <3>1 DEF IInv, Locked
    <3>3. e # f
      BY <1>3, <3>2, TargetAssumption
    <3>4. QED
      BY <1>3, <2>2, <3>2, <3>3 DEF IInv, TypeOK
  <2>5. QED
    BY <2>3, <2>4
<1>8. ValidRows'
  <2>1. \A e \in Endpoint : Rows(e)' = Rows(e) /\ Enabled(e)' = Enabled(e)
    BY <1>3 DEF Rows, Enabled
  <2>2. QED
    BY <1>3, <2>1 DEF IInv, ValidRows
<1>9. QED
  BY <1>5, <1>6, <1>7, <1>8 DEF IInv

\* A step that writes rows of one endpoint, which nobody has validated after it.
LEMMA OthersStayLocked ==
  ASSUME IInv, CallsFit', NEW f \in Endpoint,
         \A t \in Target, e \in Endpoint \ {f} :
           /\ row'[t].endpoint = e <=> row[t].endpoint = e
           /\ row[t].endpoint = e => row'[t] = row[t],
         \A d \in Call : StaysValidated(d)
                         /\ (call'[d].phase = "valid" => holder[f] # d),
         \A e \in Endpoint \ {f} : holder'[e] = holder[e] /\ (e \in alive => e \in alive')
  PROVE  Locked'
<1> SUFFICES ASSUME NEW d \in Call, NEW kind \in Save, NEW e \in Endpoint, NEW ch \in Change,
                    Validated(d, kind, e, ch)'
             PROVE  holder'[e] = d /\ e \in alive' /\ Valid(kind, e, ch)'
  BY DEF Locked
<1>1. Validated(d, kind, e, ch) /\ call'[d].phase = "valid"
  BY DEF Validated, StaysValidated
<1>2. holder[e] = d /\ e \in alive /\ Valid(kind, e, ch)
  BY <1>1 DEF IInv, Locked
<1>3. e # f
  BY <1>1, <1>2
<1>4. kind = "create" => IsNew(ch)
  BY <1>1 DEF IInv, CallsFit, Fits, Validated
<1>5. Valid(kind, e, ch)'
  BY <1>2, <1>3, <1>4, ValidElsewhere
<1>6. QED
  BY <1>2, <1>3, <1>5

\* The same for what is valid of the other endpoints' rows.
LEMMA OthersStayValid ==
  ASSUME ValidRows, NEW f \in Endpoint,
         \A t \in Target, e \in Endpoint \ {f} :
           /\ row'[t].endpoint = e <=> row[t].endpoint = e
           /\ row[t].endpoint = e => row'[t] = row[t],
         /\ Cardinality(Enabled(f)') <= MaxEnabled
         /\ Cardinality(Rows(f)') <= MaxRows
         /\ \A t, u \in Rows(f)' : row'[t].key = row'[u].key => t = u
  PROVE  ValidRows'
<1> SUFFICES ASSUME NEW e \in Endpoint
             PROVE  /\ Cardinality(Enabled(e)') <= MaxEnabled
                    /\ Cardinality(Rows(e)') <= MaxRows
                    /\ \A t, u \in Rows(e)' : row'[t].key = row'[u].key => t = u
  BY DEF ValidRows
<1>1. CASE e = f
  BY <1>1
<1>2. CASE e # f
  <2>1. Rows(e)' = Rows(e) /\ Enabled(e)' = Enabled(e) /\ \A t \in Rows(e) : row'[t] = row[t]
    BY <1>2 DEF Rows, Enabled
  <2>2. QED
    BY <2>1 DEF ValidRows
<1>3. QED
  BY <1>1, <1>2

\* What a valid save writes leaves its endpoint's rows within the limits.
LEMMA WrittenIsValid ==
  ASSUME TypeOK, ValidRows, NEW kind \in Save, NEW f \in Endpoint, NEW ch \in Change,
         NEW t \in Target, Valid(kind, f, ch), kind = "create" => IsNew(ch),
         IF kind = "create" THEN row[t] = NoRow ELSE t = ch.target,
         row' = [row EXCEPT ![t] = Written(t, kind, f, ch)]
  PROVE  /\ row'[t] \in Row
         /\ kind # "delete" => row'[t].endpoint = f /\ row'[t].key \in Key
         /\ kind = "delete" => row'[t].endpoint = None
         /\ kind # "create" => row[t].endpoint = f
         /\ kind = "create" => row[t].endpoint = None
         /\ Cardinality(Enabled(f)') <= MaxEnabled
         /\ Cardinality(Rows(f)') <= MaxRows
         /\ \A u, v \in Rows(f)' : row'[u].key = row'[v].key => u = v
<1>1. /\ row'[t] = Written(t, kind, f, ch) /\ row \in [Target -> Row] /\ f # None
      /\ \A u \in Target \ {t} : row'[u] = row[u]
  BY TargetAssumption DEF TypeOK
<1>2. /\ IsFiniteSet(Rows(f)) /\ IsFiniteSet(Enabled(f))
      /\ Cardinality(Rows(f)) \in Nat /\ Cardinality(Enabled(f)) \in Nat
      /\ Cardinality(Rows(f)) <= MaxRows /\ Cardinality(Enabled(f)) <= MaxEnabled
      /\ MaxRows \in Nat /\ MaxEnabled \in Nat
      /\ \A u, v \in Rows(f) : row[u].key = row[v].key => u = v
      /\ \A u \in Rows(f) : row[u].key \in Key
  BY RowsTyped, FS_CardinalityType, TargetAssumption DEF ValidRows
<1>3. CASE kind = "create"
  <2>1. /\ Cardinality(Enabled(f)) < MaxEnabled /\ Cardinality(Rows(f)) < MaxRows
        /\ \A u \in Rows(f) : row[u].key # ch.key
        /\ row[t] = NoRow /\ ch.key \in Key
    BY <1>3, TargetAssumption DEF Valid, IsUnique, EffectiveKey, IsNew, Rows
  <2>2. row[t].endpoint = None /\ t \notin Rows(f) /\ t \notin Enabled(f)
    BY <1>1, <2>1 DEF NoRow, Rows, Enabled
  <2>3. row'[t] = [endpoint |-> f, key |-> ch.key, enabled |-> TRUE, deleted |-> FALSE]
    BY <1>1, <1>3 DEF Written
  <2>4. /\ row'[t] \in Row /\ row'[t].endpoint = f /\ row'[t].key = ch.key /\ row'[t].enabled = TRUE
    <3> DEFINE x == [endpoint |-> f, key |-> ch.key, enabled |-> TRUE, deleted |-> FALSE]
    <3>1. /\ x \in Row /\ x.endpoint = f /\ x.key = ch.key /\ x.enabled = TRUE
      BY <2>1 DEF Row
    <3>2. row'[t] = x
      BY <2>3
    <3> HIDE DEF x
    <3>3. QED
      BY <3>1, <3>2
  <2>5. Rows(f)' = Rows(f) \cup {t} /\ Enabled(f)' = Enabled(f) \cup {t}
    BY <1>1, <2>4 DEF Rows, Enabled
  <2>6. /\ Cardinality(Rows(f)') = Cardinality(Rows(f)) + 1
        /\ Cardinality(Enabled(f)') = Cardinality(Enabled(f)) + 1
    BY <1>2, <2>2, <2>5, FS_AddElement
  <2>7. \A u, v \in Rows(f)' : row'[u].key = row'[v].key => u = v
    BY <1>1, <1>2, <2>1, <2>2, <2>4, <2>5 DEF Rows
  <2>8. QED
    BY <1>2, <1>3, <2>1, <2>2, <2>4, <2>6, <2>7
<1>4. CASE kind = "update"
  <2>1. /\ t \in Rows(f) /\ t = ch.target /\ IsUnique(f, ch) /\ CanEnable(f, ch)
    BY <1>4 DEF Valid
  <2>2. EffectiveKey(ch) \in Key
    BY <1>2, <2>1 DEF EffectiveKey, Change
  <2>3. row'[t] = [row[t] EXCEPT !.key = EffectiveKey(ch),
                                 !.enabled = IF ch.enabled = None THEN @ ELSE ch.enabled]
    BY <1>1, <1>4 DEF Written
  <2>4. /\ row'[t] \in Row /\ row'[t].endpoint = f /\ row'[t].key = EffectiveKey(ch)
        /\ row'[t].enabled => row[t].enabled \/ ch.enabled = TRUE
    <3>1. row[t] \in Row /\ row[t].endpoint = f
      BY <1>1, <2>1 DEF Rows
    <3>2. (IF ch.enabled = None THEN row[t].enabled ELSE ch.enabled) \in BOOLEAN
      BY <3>1 DEF Row, Change
    <3> DEFINE on == IF ch.enabled = None THEN row[t].enabled ELSE ch.enabled
               x == [row[t] EXCEPT !.key = EffectiveKey(ch), !.enabled = on]
    <3>3. row'[t] = x
      BY <2>3
    <3> HIDE DEF on
    <3>4. x \in Row /\ x.endpoint = f /\ x.key = EffectiveKey(ch) /\ x.enabled = on
      BY <2>2, <3>1, <3>2 DEF Row, on
    <3> HIDE DEF x
    <3>5. on => row[t].enabled \/ ch.enabled = TRUE
      BY <3>2 DEF on
    <3>6. QED
      BY <3>2, <3>3, <3>4, <3>5 DEF on
  <2>5. Rows(f)' = Rows(f)
    BY <1>1, <2>1, <2>4 DEF Rows
  <2>6. \A u, v \in Rows(f)' : row'[u].key = row'[v].key => u = v
    BY <1>1, <1>2, <2>1, <2>4, <2>5 DEF IsUnique, Rows
  <2>7. Cardinality(Enabled(f)') <= MaxEnabled
    <3>1. CASE row'[t].enabled => row[t].enabled
      <4>1. Enabled(f)' \subseteq Enabled(f)
        BY <1>1, <2>1, <2>5, <3>1 DEF Enabled, Rows
      <4>2. QED
        BY <1>2, <4>1, FS_Subset, FS_CardinalityType
    <3>2. CASE row'[t].enabled /\ ~row[t].enabled
      <4>1. Cardinality(Enabled(f) \ {t}) < MaxEnabled
        BY <2>1, <2>4, <3>2 DEF CanEnable
      <4>2. Enabled(f)' = (Enabled(f) \ {t}) \cup {t}
        BY <1>1, <2>1, <2>5, <3>2 DEF Enabled, Rows
      <4>3. IsFiniteSet(Enabled(f) \ {t}) /\ Cardinality(Enabled(f) \ {t}) \in Nat
        BY <1>2, FS_Subset, FS_CardinalityType
      <4>4. Cardinality(Enabled(f)') = Cardinality(Enabled(f) \ {t}) + 1
        BY <4>2, <4>3, FS_AddElement
      <4>5. QED
        BY <1>2, <4>1, <4>3, <4>4
    <3>3. QED
      BY <3>1, <3>2
  <2>8. QED
    BY <1>2, <1>4, <2>1, <2>2, <2>4, <2>5, <2>6, <2>7 DEF Rows
<1>5. CASE kind = "delete"
  <2>1. t \in Rows(f)
    BY <1>5 DEF Valid
  <2>2. row'[t] = GoneRow /\ GoneRow \in Row /\ GoneRow.endpoint = None
    BY <1>1, <1>5 DEF Written, GoneRow, NoRow, Row
  <2>3. Rows(f)' \subseteq Rows(f) /\ Enabled(f)' \subseteq Enabled(f) /\ t \notin Rows(f)'
    BY <1>1, <2>2 DEF Rows, Enabled
  <2>4. Cardinality(Rows(f)') <= MaxRows /\ Cardinality(Enabled(f)') <= MaxEnabled
    BY <1>2, <2>3, FS_Subset, FS_CardinalityType
  <2>5. \A u \in Rows(f)' : row'[u] = row[u]
    BY <1>1, <2>3 DEF Rows
  <2>6. QED
    BY <1>2, <1>5, <2>1, <2>2, <2>3, <2>4, <2>5 DEF Rows
<1>6. QED
  BY <1>3, <1>4, <1>5 DEF Save

LEMMA WriteStep ==
  ASSUME IInv, NEW c \in Call, Write(c)
  PROVE  IInv'
<1>1. PICK kind \in Save, f \in Endpoint, ch \in Change :
        /\ kind = call[c].kind /\ f = call[c].endpoint /\ ch = call[c].change
        /\ call[c] \in CallState /\ call[c].phase = "valid"
  BY CallTypes DEF Write, In, IInv
<1>2. /\ holder[f] = c /\ f \in alive /\ Valid(kind, f, ch)
      /\ kind = "create" => IsNew(ch)
  <2>1. Validated(c, kind, f, ch)
    BY <1>1 DEF Validated
  <2>2. kind = "create" => IsNew(ch)
    BY <1>1, StateTypes DEF Fits
  <2>3. holder[f] = c /\ f \in alive /\ Valid(kind, f, ch)
    BY <1>1, <2>1 DEF IInv, Locked
  <2>4. QED
    BY <2>2, <2>3
<1>3. PICK t \in Target :
        /\ IF kind = "create" THEN row[t] = NoRow ELSE t = ch.target
        /\ row' = [row EXCEPT ![t] = Written(t, kind, f, ch)]
        /\ Replies(c, [call[c] EXCEPT !.phase = "done",
                         !.change = [NoChange EXCEPT !.target = t],
                         !.reply = IF kind = "delete" THEN {}
                                   ELSE {[id |-> t, key |-> row'[t].key,
                                          enabled |-> row'[t].enabled]}])
  BY <1>1 DEF Write
<1>4. /\ holder' = [holder EXCEPT ![f] = None]
      /\ UNCHANGED <<alive, active, shown, flags, told>>
  BY <1>1 DEF Write, pageVars
<1> DEFINE reply == IF kind = "delete" THEN {}
                    ELSE {[id |-> t, key |-> row'[t].key, enabled |-> row'[t].enabled]}
           done == [NoChange EXCEPT !.target = t]
           x == [call[c] EXCEPT !.phase = "done", !.change = done, !.reply = reply]
<1>5. call' = [call EXCEPT ![c] = x] \/ call' = [call EXCEPT ![c] = NoCall]
  BY <1>3 DEF Replies
<1> HIDE DEF x
<1>6. /\ row'[t] \in Row
      /\ kind # "delete" => row'[t].endpoint = f /\ row'[t].key \in Key
      /\ kind = "delete" => row'[t].endpoint = None
      /\ kind # "create" => row[t].endpoint = f
      /\ kind = "create" => row[t].endpoint = None
      /\ Cardinality(Enabled(f)') <= MaxEnabled
      /\ Cardinality(Rows(f)') <= MaxRows
      /\ \A u, v \in Rows(f)' : row'[u].key = row'[v].key => u = v
  <2>1. /\ TypeOK /\ ValidRows /\ Valid(kind, f, ch)
        /\ kind \in Save /\ f \in Endpoint /\ ch \in Change
        /\ kind = "create" => IsNew(ch)
        /\ IF kind = "create" THEN row[t] = NoRow ELSE t = ch.target
        /\ row' = [row EXCEPT ![t] = Written(t, kind, f, ch)]
    BY <1>1, <1>2, <1>3 DEF IInv
  <2>2. QED
    BY <2>1, WrittenIsValid
<1>7. reply \in SUBSET Shown /\ \A r \in reply : r.id = t /\ \A s \in reply : r = s
  <2>1. CASE kind = "delete"
    BY <2>1
  <2>2. CASE kind # "delete"
    <3>1. row'[t].key \in Key /\ row'[t].enabled \in BOOLEAN
      BY <1>6, <2>2 DEF Row
    <3>2. QED
      BY <2>2, <3>1 DEF Shown
  <2>3. QED
    BY <2>1, <2>2
<1>8. done \in Change /\ done.target = t
  BY DEF NoChange, Change
<1> HIDE DEF reply, done
<1>9. x \in CallState /\ Fits(x) /\ x.phase = "done"
  BY <1>1, <1>7, <1>8 DEF x, CallState, Fits
<1>10. CallsKept /\ call'[c].phase # "valid"
  <2>1. CASE call' = [call EXCEPT ![c] = NoCall]
    <3>1. NoCall.phase = "done"
      BY DEF NoCall
    <3>2. QED
      BY <2>1, <3>1, CallEnds, StateTypes
  <2>2. CASE call' = [call EXCEPT ![c] = x]
    BY <1>9, <2>2, StateTypes DEF CallsKept, StaysValidated
  <2>3. QED
    BY <1>5, <2>1, <2>2
<1>11. \A u \in Target, e \in Endpoint \ {f} :
         /\ row'[u].endpoint = e <=> row[u].endpoint = e
         /\ row[u].endpoint = e => row'[u] = row[u]
  <2>1. \A u \in Target \ {t} : row'[u] = row[u]
    BY <1>3 DEF IInv, TypeOK
  <2>2. row[t].endpoint \in {f, None} /\ row'[t].endpoint \in {f, None}
    BY <1>6
  <2>3. QED
    BY <2>1, <2>2, TargetAssumption
<1>12. TypeOK'
  <2>1. row' \in [Target -> Row]
    BY <1>3, <1>6 DEF IInv, TypeOK
  <2>2. \A u \in Target : row'[u].endpoint # None => row'[u].endpoint \in alive' /\ row'[u].key \in Key
    <3>1. row'[t].endpoint # None => row'[t].endpoint \in alive' /\ row'[t].key \in Key
      BY <1>2, <1>4, <1>6
    <3>2. \A u \in Target \ {t} : row'[u] = row[u]
      BY <1>3 DEF IInv, TypeOK
    <3>3. QED
      BY <1>4, <3>1, <3>2 DEF IInv, TypeOK
  <2>3. holder' \in [Endpoint -> Call \cup {None}]
    BY <1>4 DEF IInv, TypeOK
  <2>4. QED
    BY <1>4, <1>10, <2>1, <2>2, <2>3 DEF CallsKept, IInv, TypeOK
<1>13. CallsFit'
  BY <1>10 DEF CallsKept, CallsFit
<1>14. Locked'
  <2>1. \A d \in Call : StaysValidated(d) /\ (call'[d].phase = "valid" => holder[f] # d)
    BY <1>2, <1>10 DEF CallsKept
  <2>2. \A e \in Endpoint \ {f} : holder'[e] = holder[e] /\ (e \in alive => e \in alive')
    BY <1>4 DEF IInv, TypeOK
  <2>3. QED
    BY <1>1, <1>11, <1>13, <2>1, <2>2, OthersStayLocked
<1>15. ValidRows'
  <2>1. /\ f \in Endpoint /\ ValidRows
        /\ Cardinality(Enabled(f)') <= MaxEnabled
        /\ Cardinality(Rows(f)') <= MaxRows
        /\ \A u, v \in Rows(f)' : row'[u].key = row'[v].key => u = v
    BY <1>1, <1>6 DEF IInv
  <2>2. QED
    BY <1>11, <2>1, OthersStayValid
<1>16. QED
  BY <1>12, <1>13, <1>14, <1>15 DEF IInv

LEMMA DeleteEndpointStep ==
  ASSUME IInv, NEW f \in Endpoint, DeleteEndpoint(f)
  PROVE  IInv'
<1>1. /\ holder[f] = None /\ alive' = alive \ {f}
      /\ row' = [t \in Target |-> IF row[t].endpoint = f THEN GoneRow ELSE row[t]]
      /\ UNCHANGED <<holder, call, active, shown, flags, told>>
  BY DEF DeleteEndpoint, pageVars
<1>2. GoneRow \in Row /\ GoneRow.endpoint = None /\ f # None
  BY TargetAssumption DEF GoneRow, NoRow, Row
<1>3. \A t \in Target, e \in Endpoint \ {f} :
        /\ row'[t].endpoint = e <=> row[t].endpoint = e
        /\ row[t].endpoint = e => row'[t] = row[t]
  BY <1>1, <1>2, TargetAssumption
<1>4. TypeOK'
  <2>1. row' \in [Target -> Row]
    BY <1>1, <1>2 DEF IInv, TypeOK
  <2>2. \A t \in Target : row'[t].endpoint # None => row'[t].endpoint \in alive' /\ row'[t].key \in Key
    BY <1>1, <1>2 DEF IInv, TypeOK
  <2>3. QED
    BY <1>1, <2>1, <2>2 DEF IInv, TypeOK
<1>5. CallsFit'
  BY <1>1 DEF IInv, CallsFit
<1>6. Locked'
  <2>1. \A d \in Call : StaysValidated(d) /\ holder[f] # d
    BY <1>1, TargetAssumption DEF StaysValidated
  <2>2. \A e \in Endpoint \ {f} : holder'[e] = holder[e] /\ (e \in alive => e \in alive')
    BY <1>1
  <2>3. QED
    BY <1>3, <1>5, <2>1, <2>2, OthersStayLocked
<1>7. ValidRows'
  <2>1. Rows(f)' = {} /\ Enabled(f)' = {}
    BY <1>1, <1>2 DEF Rows, Enabled
  <2>2. Cardinality({}) = 0
    BY FS_EmptySet
  <2>3. /\ Cardinality(Enabled(f)') <= MaxEnabled /\ Cardinality(Rows(f)') <= MaxRows
        /\ \A u, v \in Rows(f)' : row'[u].key = row'[v].key => u = v
    BY <2>1, <2>2, TargetAssumption
  <2>4. QED
    BY <1>3, <2>3, OthersStayValid DEF IInv
<1>8. QED
  BY <1>4, <1>5, <1>6, <1>7 DEF IInv

-----------------------------------------------------------------------------
(* The theorems. *)

LEMMA InitIInv == Init => IInv
<1> SUFFICES ASSUME Init PROVE IInv
  OBVIOUS
<1>1. NoRow \in Row /\ NoRow.endpoint = None
  BY DEF NoRow, Row
<1>2. TypeOK
  BY <1>1 DEF Init, TypeOK
<1>3. CallsFit
  BY NoCallFits DEF Init, CallsFit
<1>4. Locked
  BY NoCallFits DEF Init, Locked, Validated
<1>5. ValidRows
  <2>1. \A e \in Endpoint : Rows(e) = {} /\ Enabled(e) = {}
    BY <1>1, TargetAssumption DEF Init, Rows, Enabled
  <2>2. Cardinality({}) = 0
    BY FS_EmptySet
  <2>3. QED
    BY <2>1, <2>2, TargetAssumption DEF ValidRows
<1>6. QED
  BY <1>2, <1>3, <1>4, <1>5 DEF IInv

LEMMA NextIInv == IInv /\ [Next]_vars => IInv'
<1> SUFFICES ASSUME IInv, [Next]_vars PROVE IInv'
  OBVIOUS
<1>1. ASSUME NEW c \in Call, Server(c)
      PROVE  IInv'
  BY <1>1, BeginSaveStep, RefuseStep, WriteStep, ReadListStep DEF Server
<1>2. ASSUME NEW c \in Call, Page(c)
      PROVE  IInv'
  BY <1>2, PageAsksStep, PageHearsStep, SaveFailsStep DEF Page
<1>3. ASSUME NEW c \in Call, Elsewhere(c)
      PROVE  IInv'
  BY <1>3, ElsewhereStep
<1>4. ASSUME NEW e \in Endpoint, DeleteEndpoint(e)
      PROVE  IInv'
  BY <1>4, DeleteEndpointStep
<1>5. CASE UNCHANGED vars
  <2>1. UNCHANGED serverVars /\ UNCHANGED <<active, shown, flags, told>> /\ call' = call
    BY <1>5 DEF vars, pageVars
  <2>2. CallsKept
    BY <2>1, StateTypes DEF CallsKept, StaysValidated
  <2>3. QED
    BY <2>1, <2>2, StateTypes, QuietStep
<1>6. QED
  BY <1>1, <1>2, <1>3, <1>4, <1>5 DEF Next

LEMMA Invariant == Spec => []IInv
<1>1. IInv /\ [Next]_vars => IInv'
  BY NextIInv
<1>2. QED
  BY InitIInv, <1>1, PTL DEF Spec

\* The server's rows and locks, the calls and the page keep their types; the page
\* never shows a target twice.
THEOREM TypeCorrect == Spec => []TypeOK
<1>1. IInv => TypeOK
  BY DEF IInv
<1>2. QED
  BY Invariant, <1>1, PTL

\* However many saves overlap, an endpoint has at most MaxEnabled enabled targets
\* and MaxRows targets, and no two with the same key.
THEOREM RowsAreValid == Spec => []ValidRows
<1>1. IInv => ValidRows
  BY DEF IInv
<1>2. QED
  BY Invariant, <1>1, PTL

-----------------------------------------------------------------------------
(* What the page has been told of stays out of its list.  A load that may     *)
(* still replace the list was either asked for while the deletion was on its  *)
(* way, and knows so, or has nothing of the deleted target in its answer.     *)

\* The page waits for the deletion of t.
Deletes(c, t) == call[c].by = "page" /\ call[c].kind = "delete" /\ call[c].change.target = t

\* A load whose answer may still replace the list.
Current(c) == call[c].kind = "switch" \/ (call[c].kind = "list" /\ call[c].fresh)

Carries(c, t) == \E r \in call[c].reply : r.id = t

BesideDeletions ==
  \A c, d \in Call, t \in Target : Deletes(c, t) /\ Current(d) => t \in call[d].beside
ToldOrBeside ==
  \A d \in Call, t \in told : Current(d) /\ Carries(d, t) => t \in call[d].beside
ToldIsGone == \A t \in told : row[t] = GoneRow
DeletedIsGone ==
  \A c \in Call, t \in Target :
    Deletes(c, t) /\ call[c].phase = "done" => row[t] = GoneRow /\ call[c].reply = {}
OneSwitch ==
  \A c, d \in Call :
    call[c].kind = "switch" => flags.loading /\ (call[d].kind = "switch" => c = d)

HiddenInv == BesideDeletions /\ ToldOrBeside /\ ToldIsGone /\ DeletedIsGone /\ OneSwitch

\* The row of a deleted target stays what it is.
LEMMA GoneStays ==
  ASSUME IInv, Next, NEW t \in Target, row[t] = GoneRow
  PROVE  row'[t] = GoneRow
<1>1. GoneRow # NoRow /\ GoneRow.endpoint = None
  BY DEF GoneRow, NoRow
<1>2. ASSUME NEW c \in Call, Write(c)
      PROVE  row'[t] = GoneRow
  <2>1. PICK kind \in Save, f \in Endpoint, ch \in Change :
          /\ kind = call[c].kind /\ f = call[c].endpoint /\ ch = call[c].change
          /\ call[c].phase = "valid"
    BY <1>2, CallTypes DEF Write, In, IInv
  <2>2. Valid(kind, f, ch)
    BY <2>1 DEF IInv, Locked, Validated
  <2>3. kind # "create" => ch.target # t
    BY <1>1, <2>2, TargetAssumption DEF Valid, Rows, Save
  <2>4. PICK u \in Target : /\ IF kind = "create" THEN row[u] = NoRow ELSE u = ch.target
                            /\ row' = [row EXCEPT ![u] = Written(u, kind, f, ch)]
    BY <1>2, <2>1 DEF Write
  <2>5. u # t
    BY <1>1, <2>3, <2>4
  <2>6. QED
    BY <2>4, <2>5 DEF IInv, TypeOK
<1>3. ASSUME NEW e \in Endpoint, DeleteEndpoint(e)
      PROVE  row'[t] = GoneRow
  BY <1>1, <1>3 DEF DeleteEndpoint
<1>4. ASSUME NEW c \in Call, Server(c) \/ Page(c) \/ Elsewhere(c), ~Write(c)
      PROVE  row' = row
  BY <1>4 DEF Server, Page, Elsewhere, BeginSave, Refuse, ReadList, LoadForwardTargets,
              SaveForwardTarget, SwitchEndpoint, AnswerLoad, AnswerSwitch, AnswerSave,
              Answered, SaveFails, serverVars
<1>5. QED
  BY <1>2, <1>3, <1>4 DEF Next

\* After the step, call c is current only if it was, with nothing new of the told
\* targets, and deletes only what it did.
KeepsHidden(c) ==
  /\ call'[c].kind = "switch" => call[c].kind = "switch"
  /\ Current(c)' => /\ Current(c) /\ call'[c].beside = call[c].beside
                    /\ \A t \in told : Carries(c, t)' => Carries(c, t)
  /\ \A t \in Target :
       Deletes(c, t)' => /\ Deletes(c, t)
                         /\ call'[c].phase = "done" => row'[t] = GoneRow /\ call'[c].reply = {}

\* A step after which every call keeps hidden what it kept hidden.
LEMMA HiddenKept ==
  ASSUME IInv, IInv', HiddenInv, \A c \in Call : KeepsHidden(c),
         \A t \in Target : row[t] = GoneRow => row'[t] = GoneRow,
         \A t \in told' : t \in told \/ \E c \in Call : Deletes(c, t) /\ call[c].phase = "done",
         flags'.loading = flags.loading \/ \A c \in Call : call'[c].kind # "switch"
  PROVE  HiddenInv'
<1>1. told \subseteq Target /\ told' \subseteq Target
  BY DEF IInv, TypeOK
<1>2. BesideDeletions'
  BY DEF BesideDeletions, HiddenInv, KeepsHidden
<1>3. ToldOrBeside'
  <2> SUFFICES ASSUME NEW d \in Call, NEW t \in told', Current(d)', Carries(d, t)'
               PROVE  t \in call'[d].beside
    BY DEF ToldOrBeside
  <2>1. Current(d) /\ call'[d].beside = call[d].beside
    BY DEF KeepsHidden
  <2>2. CASE t \in told
    BY <2>1, <2>2 DEF KeepsHidden, HiddenInv, ToldOrBeside
  <2>3. CASE \E c \in Call : Deletes(c, t)
    BY <1>1, <2>1, <2>3 DEF HiddenInv, BesideDeletions
  <2>4. QED
    BY <2>2, <2>3
<1>4. ToldIsGone'
  BY <1>1 DEF HiddenInv, ToldIsGone, DeletedIsGone
<1>5. DeletedIsGone'
  BY DEF DeletedIsGone, KeepsHidden
<1>6. OneSwitch'
  BY DEF OneSwitch, HiddenInv, KeepsHidden
<1>7. QED
  BY <1>2, <1>3, <1>4, <1>5, <1>6 DEF HiddenInv

\* A call that nothing happens to, or that loses its version.
LEMMA UntouchedKeeps ==
  ASSUME IInv, HiddenInv, NEW d \in Call, call'[d] = call[d] \/ call'[d] = Bumped[d],
         \A t \in Target : row[t] = GoneRow => row'[t] = GoneRow
  PROVE  KeepsHidden(d)
<1>1. /\ call'[d].kind = call[d].kind /\ call'[d].by = call[d].by
      /\ call'[d].change = call[d].change /\ call'[d].phase = call[d].phase
      /\ call'[d].beside = call[d].beside /\ call'[d].reply = call[d].reply
      /\ Current(d)' => Current(d)
  BY BumpedCalls DEF Current
<1>2. QED
  BY <1>1 DEF KeepsHidden, Deletes, Carries, HiddenInv, DeletedIsGone

\* A slot that is free, or that a save has which is not a deletion of the page's.
LEMMA OtherKeeps ==
  ASSUME NEW d \in Call, call'[d].kind \notin Load,
         call'[d].by = "page" => call'[d].kind # "delete"
  PROVE  KeepsHidden(d)
BY DEF KeepsHidden, Current, Deletes, Load

\* A call whose kind and change stay, and that is not answered.
LEMMA UnansweredKeeps ==
  ASSUME HiddenInv, NEW d \in Call, call[d].kind \in Save, call'[d].kind = call[d].kind,
         call'[d].change = call[d].change, call'[d].by = "page" => call[d].by = "page",
         call'[d].phase # "done"
  PROVE  KeepsHidden(d)
BY DEF KeepsHidden, Current, Deletes, Save

LEMMA ServerKeepsHidden ==
  ASSUME IInv, HiddenInv, NEW c \in Call, Server(c),
         \A t \in Target : row[t] = GoneRow => row'[t] = GoneRow
  PROVE  \A d \in Call : KeepsHidden(d)
<1>1. NoCall.kind \notin Load /\ NoCall.by # "page"
  BY DEF NoCall, Load
<1>2. CASE BeginSave(c)
  <2> DEFINE x == [call[c] EXCEPT !.phase = "valid"]
  <2>1. call[c] \in CallState /\ call[c].kind \in Save
    BY <1>2, CallTypes DEF BeginSave, In, IInv
  <2>2. /\ x.kind = call[c].kind /\ x.change = call[c].change /\ x.by = call[c].by
        /\ x.phase = "valid"
    BY <2>1 DEF CallState
  <2>3. call' = [call EXCEPT ![c] = x]
    BY <1>2 DEF BeginSave
  <2> HIDE DEF x
  <2>4. KeepsHidden(c)
    BY <2>1, <2>2, <2>3, StateTypes, UnansweredKeeps
  <2>5. QED
    BY <2>3, <2>4, StateTypes, UntouchedKeeps
<1>3. CASE Refuse(c)
  <2>1. call' = [call EXCEPT ![c] = NoCall]
    BY <1>3 DEF Refuse
  <2>2. KeepsHidden(c)
    BY <1>1, <2>1, StateTypes, OtherKeeps
  <2>3. QED
    BY <2>1, <2>2, StateTypes, UntouchedKeeps
<1>4. CASE Write(c)
  <2>1. PICK kind \in Save, ch \in Change :
          /\ kind = call[c].kind /\ ch = call[c].change /\ call[c] \in CallState
    BY <1>4, CallTypes DEF Write, In, IInv
  <2>2. PICK t \in Target, R \in SUBSET Shown :
          /\ kind # "create" => t = ch.target
          /\ kind = "delete" => row'[t] = GoneRow /\ R = {}
          /\ Replies(c, [call[c] EXCEPT !.phase = "done",
                           !.change = [NoChange EXCEPT !.target = t], !.reply = R])
    <3>1. PICK t \in Target :
            /\ IF kind = "create" THEN row[t] = NoRow ELSE t = ch.target
            /\ row' = [row EXCEPT ![t] = Written(t, kind, call[c].endpoint, ch)]
            /\ Replies(c, [call[c] EXCEPT !.phase = "done",
                             !.change = [NoChange EXCEPT !.target = t],
                             !.reply = IF kind = "delete" THEN {}
                                       ELSE {[id |-> t, key |-> row'[t].key,
                                              enabled |-> row'[t].enabled]}])
      BY <1>4, <2>1 DEF Write
    <3> DEFINE R == IF kind = "delete" THEN {}
                    ELSE {[id |-> t, key |-> row'[t].key, enabled |-> row'[t].enabled]}
    <3>2. kind = "delete" => row'[t] = GoneRow
      BY <3>1 DEF Written, IInv, TypeOK
    <3>3. R \in SUBSET Shown
      <4>1. CASE kind = "delete"
        BY <4>1
      <4>2. CASE kind # "delete"
        <5>1. Valid(kind, call[c].endpoint, ch) /\ call[c].endpoint \in Endpoint
          BY <1>4, <2>1, CallTypes DEF Write, In, IInv, Locked, Validated
        <5>2. kind = "create" => IsNew(ch)
          BY <1>4, <2>1, StateTypes DEF Fits, Write, In
        <5>3. row'[t] \in Row /\ row'[t].key \in Key
          <6>1. /\ TypeOK /\ ValidRows /\ Valid(kind, call[c].endpoint, ch)
                /\ kind = "create" => IsNew(ch)
                /\ IF kind = "create" THEN row[t] = NoRow ELSE t = ch.target
                /\ row' = [row EXCEPT ![t] = Written(t, kind, call[c].endpoint, ch)]
            BY <3>1, <5>1, <5>2 DEF IInv
          <6>2. QED
            BY <4>2, <5>1, <6>1, WrittenIsValid
        <5>4. QED
          BY <4>2, <5>3 DEF Row, Shown
      <4>3. QED
        BY <4>1, <4>2
    <3>4. QED
      BY <3>1, <3>2, <3>3
  <2> DEFINE done == [NoChange EXCEPT !.target = t]
             x == [call[c] EXCEPT !.phase = "done", !.change = done, !.reply = R]
  <2>3. done \in Change /\ done.target = t
    BY DEF NoChange, Change
  <2>4. call' = [call EXCEPT ![c] = x] \/ call' = [call EXCEPT ![c] = NoCall]
    BY <2>2 DEF Replies
  <2> HIDE DEF done
  <2>5. x.kind = kind /\ x.change = done /\ x.by = call[c].by /\ x.reply = R
    BY <2>1, <2>3 DEF CallState
  <2> HIDE DEF x
  <2>6. KeepsHidden(c)
    <3>1. CASE call' = [call EXCEPT ![c] = NoCall]
      BY <1>1, <3>1, StateTypes, OtherKeeps
    <3>2. CASE call' = [call EXCEPT ![c] = x]
      <4>1. call'[c] = x
        BY <3>2, StateTypes
      <4>2. x.kind \notin Load
        BY <2>1, <2>5 DEF Save, Load
      <4>3. QED
        BY <2>1, <2>2, <2>3, <2>5, <4>1, <4>2 DEF KeepsHidden, Current, Deletes, Load
    <3>3. QED
      BY <2>4, <3>1, <3>2
  <2>7. QED
    BY <2>4, <2>6, StateTypes, UntouchedKeeps
<1>5. CASE ReadList(c)
  <2> DEFINE R == {Show(t) : t \in Rows(call[c].endpoint)}
             x == [call[c] EXCEPT !.phase = "done", !.reply = R]
  <2>1. call[c] \in CallState /\ call[c].kind \in Load /\ call[c].endpoint \in Endpoint
    BY <1>5, CallTypes DEF ReadList, In, IInv
  <2>2. call' = [call EXCEPT ![c] = x] \/ call' = [call EXCEPT ![c] = NoCall]
    BY <1>5 DEF ReadList, Replies
  <2>3. \A r \in R : r.id \notin told
    <3>1. GoneRow.endpoint = None
      BY DEF GoneRow, NoRow
    <3>2. QED
      BY <2>1, <3>1, TargetAssumption DEF Show, Rows, HiddenInv, ToldIsGone
  <2> HIDE DEF R
  <2>4. /\ x.kind = call[c].kind /\ x.fresh = call[c].fresh /\ x.beside = call[c].beside
        /\ x.reply = R
    BY <2>1 DEF CallState
  <2> HIDE DEF x
  <2>5. KeepsHidden(c)
    <3>1. CASE call' = [call EXCEPT ![c] = NoCall]
      BY <1>1, <3>1, StateTypes, OtherKeeps
    <3>2. CASE call' = [call EXCEPT ![c] = x]
      <4>1. call'[c] = x
        BY <3>2, StateTypes
      <4>2. QED
        BY <2>1, <2>3, <2>4, <4>1 DEF KeepsHidden, Current, Deletes, Carries, Load
    <3>3. QED
      BY <2>2, <3>1, <3>2
  <2>6. QED
    BY <2>2, <2>5, StateTypes, UntouchedKeeps
<1>6. QED
  BY <1>2, <1>3, <1>4, <1>5 DEF Server

\* What the page starts.
LEMMA PageAsksHidden ==
  ASSUME IInv, IInv', HiddenInv, NEW c \in Call,
         \/ LoadForwardTargets(c) \/ SaveForwardTarget(c)
         \/ \E e \in Endpoint : SwitchEndpoint(c, e)
  PROVE  HiddenInv'
<1>1. /\ call[c] = NoCall /\ row' = row /\ told' = told
      /\ NoCall.kind \notin Load /\ NoCall.by # "page"
  BY DEF LoadForwardTargets, SaveForwardTarget, SwitchEndpoint, Begin, serverVars, NoCall, Load
<1>3. ToldIsGone'
  BY <1>1 DEF HiddenInv, ToldIsGone
<1>2. ASSUME NEW kind \in Load, NEW e \in Endpoint,
             Begin(c, kind, e, call) \/ Begin(c, kind, e, Bumped),
             ~flags.loading, kind = "switch" => flags'.loading
      PROVE  HiddenInv'
  <2> DEFINE n == NewCall(kind, "page", e, NoChange)
             x == [n EXCEPT !.beside = BeingDeleted]
  <2>1. n \in CallState /\ n.kind = kind /\ n.reply = {}
    BY NoChangeType, NewCallTypes DEF Load, NewCall
  <2> HIDE DEF n
  <2>2. x.kind = kind /\ x.beside = BeingDeleted /\ x.reply = {}
    BY <2>1 DEF CallState
  <2>3. call' = [call EXCEPT ![c] = x] \/ call' = [Bumped EXCEPT ![c] = x]
    BY <1>2 DEF Begin, n
  <2> HIDE DEF x
  <2>4. call'[c] = x /\ \A d \in Call \ {c} : call'[d] = call[d] \/ call'[d] = Bumped[d]
    BY <2>3, StateTypes DEF Bumped
  <2>5. \A d \in Call \ {c} : KeepsHidden(d)
    BY <1>1, <2>4, UntouchedKeeps
  <2>6. \A t \in Target : ~Deletes(c, t)'
    BY <2>2, <2>4 DEF Deletes, Load
  <2>7. \A d \in Call, t \in Target : Deletes(d, t)' => Deletes(d, t)
    BY <2>5, <2>6 DEF KeepsHidden
  <2>8. BesideDeletions'
    <3>1. \A d \in Call, t \in Target : Deletes(d, t)' => t \in x.beside
      BY <2>2, <2>7 DEF BeingDeleted, Deletes
    <3>2. QED
      BY <2>4, <2>5, <2>7, <3>1 DEF BesideDeletions, KeepsHidden, HiddenInv
  <2>9. ToldOrBeside'
    BY <1>1, <2>2, <2>4, <2>5 DEF ToldOrBeside, KeepsHidden, HiddenInv, Carries
  <2>10. DeletedIsGone'
    BY <1>1, <2>5, <2>6 DEF DeletedIsGone, KeepsHidden
  <2>11. OneSwitch'
    <3>1. \A d \in Call \ {c} : call'[d].kind # "switch"
      BY <1>2, <2>5 DEF KeepsHidden, HiddenInv, OneSwitch
    <3>2. QED
      BY <1>2, <2>2, <2>4, <3>1 DEF OneSwitch
  <2>12. QED
    BY <1>3, <2>8, <2>9, <2>10, <2>11 DEF HiddenInv
<1>4. CASE LoadForwardTargets(c)
  BY <1>2, <1>4, StateTypes DEF LoadForwardTargets, Load
<1>5. CASE SaveForwardTarget(c)
  <2>1. PICK kind \in Save, ch \in Change :
          /\ call' = [Bumped EXCEPT ![c] = NewCall(kind, "page", active, ch)]
          /\ kind = "create" => IsNew(ch)
    <3>1. PICK kind \in Save, ch \in Change :
            /\ \/ kind = "create" /\ ch \in [target : {None}, key : Key, enabled : {None}]
               \/ kind \in {"update", "delete"}
            /\ call' = [Bumped EXCEPT ![c] = NewCall(kind, "page", active, ch)]
      BY <1>5 DEF SaveForwardTarget
    <3>2. kind = "create" => IsNew(ch)
      BY <3>1 DEF IsNew
    <3>3. QED
      BY <3>1, <3>2
  <2>2. call'[c] = NewCall(kind, "page", active, ch)
    BY <2>1, StateTypes DEF Bumped
  <2>3. call'[c].kind \notin Load /\ call'[c].phase = "sent"
    BY <2>2 DEF NewCall, Save, Load
  <2>4. \A d \in Call \ {c} : call'[d] = Bumped[d]
    BY <2>1, StateTypes DEF Bumped
  <2>5. \A d \in Call \ {c} : KeepsHidden(d)
    BY <1>1, <2>4, UntouchedKeeps
  <2>6. \A d \in Call : call[d].kind # "switch"
    BY <1>5 DEF SaveForwardTarget, HiddenInv, OneSwitch
  <2>7. \A d \in Call : ~Current(d)' /\ call'[d].kind # "switch"
    BY <2>3, <2>4, <2>6, BumpedCalls DEF Current, Load
  <2>8. BesideDeletions' /\ ToldOrBeside' /\ OneSwitch'
    BY <2>7 DEF BesideDeletions, ToldOrBeside, OneSwitch
  <2>9. DeletedIsGone'
    BY <2>3, <2>5 DEF DeletedIsGone, KeepsHidden
  <2>10. QED
    BY <1>3, <2>8, <2>9 DEF HiddenInv
<1>6. ASSUME NEW e \in Endpoint, SwitchEndpoint(c, e)
      PROVE  HiddenInv'
  BY <1>2, <1>6 DEF SwitchEndpoint, Load
<1>7. QED
  BY <1>4, <1>5, <1>6

\* What the page hears.
LEMMA PageHearsHidden ==
  ASSUME IInv, IInv', HiddenInv, NEW c \in Call,
         AnswerLoad(c) \/ AnswerSwitch(c) \/ AnswerSave(c) \/ SaveFails(c)
  PROVE  HiddenInv'
<1>1. row' = row /\ NoCall.kind \notin Load /\ NoCall.by # "page" /\ NoCall.kind # "switch"
  BY DEF AnswerLoad, AnswerSwitch, AnswerSave, SaveFails, Answered, serverVars, NoCall, Load
<1>2. \A d \in Call \ {c} : call'[d] = call[d]
  BY StateTypes DEF AnswerLoad, AnswerSwitch, AnswerSave, SaveFails, Answered
<1>3. call'[c].kind \notin Load /\ call'[c].by # "page"
  <2>1. CASE call' = [call EXCEPT ![c] = NoCall]
    BY <1>1, <2>1, StateTypes
  <2>2. CASE SaveFails(c)
    <3> DEFINE x == [call[c] EXCEPT !.by = "other"]
    <3>1. call[c] \in CallState /\ call[c].kind \in Save
      BY <2>2, CallTypes DEF SaveFails, IInv
    <3>2. x.kind \notin Load /\ x.by = "other"
      BY <3>1 DEF CallState, Save, Load
    <3> HIDE DEF x
    <3>3. call'[c] = x \/ call'[c] = NoCall
      BY <2>2, StateTypes DEF SaveFails, x
    <3>4. QED
      BY <1>1, <3>2, <3>3
  <2>3. QED
    BY <2>1, <2>2 DEF AnswerLoad, AnswerSwitch, AnswerSave, Answered
<1>4. \A d \in Call : KeepsHidden(d)
  BY <1>1, <1>2, <1>3, OtherKeeps, UntouchedKeeps
<1>5. \A t \in told' : t \in told \/ \E b \in Call : Deletes(b, t) /\ call[b].phase = "done"
  BY DEF AnswerLoad, AnswerSwitch, AnswerSave, SaveFails, Answered, Deletes
<1>6. flags'.loading = flags.loading \/ \A d \in Call : call'[d].kind # "switch"
  <2>1. CASE AnswerSwitch(c)
    <3>1. call[c].kind = "switch"
      BY <2>1 DEF AnswerSwitch, Answered
    <3>2. QED
      BY <1>2, <1>3, <3>1 DEF HiddenInv, OneSwitch, Load
  <2>2. CASE ~AnswerSwitch(c)
    BY <2>2, StateTypes DEF AnswerLoad, AnswerSave, SaveFails, Lowers
  <2>3. QED
    BY <2>1, <2>2
<1>7. QED
  BY <1>1, <1>4, <1>5, <1>6, HiddenKept

LEMMA NextHidden == IInv /\ HiddenInv /\ [Next]_vars => HiddenInv'
<1> SUFFICES ASSUME IInv, HiddenInv, [Next]_vars PROVE HiddenInv'
  OBVIOUS
<1>1. IInv'
  BY NextIInv
<1>2. \A t \in Target : row[t] = GoneRow => row'[t] = GoneRow
  BY GoneStays DEF vars, serverVars
<1>3. ASSUME NEW c \in Call, Server(c)
      PROVE  HiddenInv'
  <2>1. told' = told /\ flags' = flags
    BY <1>3 DEF Server, BeginSave, Refuse, Write, ReadList, pageVars
  <2>2. \A d \in Call : KeepsHidden(d)
    BY <1>2, <1>3, ServerKeepsHidden
  <2>3. QED
    BY <1>1, <1>2, <2>1, <2>2, HiddenKept
<1>4. ASSUME NEW c \in Call, Page(c)
      PROVE  HiddenInv'
  BY <1>1, <1>4, PageAsksHidden, PageHearsHidden DEF Page
<1>5. ASSUME NEW c \in Call, Elsewhere(c)
      PROVE  HiddenInv'
  <2>1. /\ call'[c].kind \notin Load /\ call'[c].by = "other"
        /\ \A d \in Call \ {c} : call'[d] = call[d]
    <3>1. ASSUME NEW kind \in Save, NEW e, NEW ch, Request(c, "other", kind, e, ch)
          PROVE  /\ call'[c].kind \notin Load /\ call'[c].by = "other"
                 /\ \A d \in Call \ {c} : call'[d] = call[d]
      <4>1. call' = [call EXCEPT ![c] = NewCall(kind, "other", e, ch)]
        BY <3>1 DEF Request
      <4>2. NewCall(kind, "other", e, ch).kind = kind /\ NewCall(kind, "other", e, ch).by = "other"
        BY DEF NewCall
      <4>3. QED
        BY <4>1, <4>2, StateTypes DEF Save, Load
    <3>2. {"create", "update", "delete"} = Save
      BY DEF Save
    <3>3. QED
      BY <1>5, <3>1, <3>2 DEF Elsewhere
  <2>4. \A d \in Call : KeepsHidden(d)
    BY <1>2, <2>1, OtherKeeps, UntouchedKeeps
  <2>5. told' = told /\ flags' = flags
    BY <1>5 DEF Elsewhere, pageVars
  <2>6. QED
    BY <1>1, <1>2, <2>4, <2>5, HiddenKept
<1>6. CASE (\E e \in Endpoint : DeleteEndpoint(e)) \/ UNCHANGED vars
  <2>1. call' = call /\ told' = told /\ flags' = flags
    BY <1>6 DEF DeleteEndpoint, vars, pageVars
  <2>2. QED
    BY <1>1, <1>2, <2>1, UntouchedKeeps, HiddenKept
<1>7. QED
  BY <1>3, <1>4, <1>5, <1>6 DEF Next

\* A target whose deletion the page has been told of comes back into its list only
\* by a list asked for while the deletion was on its way, or by the answer of its
\* own creation.
THEOREM DeletedTargetsStayHidden == Spec => DeletedStaysHidden
<1> DEFINE Allowed(t) ==
      \E c \in Call : \/ (AnswerLoad(c) \/ AnswerSwitch(c)) /\ t \in call[c].beside
                      \/ AnswerSave(c) /\ call[c].kind = "create"
<1>1. Init => HiddenInv
  BY NoCallFits DEF Init, HiddenInv, BesideDeletions, ToldOrBeside, ToldIsGone, DeletedIsGone,
     OneSwitch, Deletes, Current, Save, Load
<1>2. IInv /\ HiddenInv /\ [Next]_vars => [\A t \in told \cap (ShownIds' \ ShownIds) : Allowed(t)]_vars
  <2> SUFFICES ASSUME IInv, HiddenInv, Next, NEW t \in told, t \in ShownIds', t \notin ShownIds
               PROVE  Allowed(t)
    OBVIOUS
  <2>1. PICK c \in Call : AnswerLoad(c) \/ AnswerSwitch(c) \/ AnswerSave(c)
    <3>1. shown' # shown /\ shown' # {}
      BY DEF ShownIds
    <3>2. QED
      BY <3>1 DEF Next, Server, Page, Elsewhere, DeleteEndpoint, BeginSave, Refuse, Write,
                  ReadList, LoadForwardTargets, SaveForwardTarget, SwitchEndpoint, SaveFails,
                  pageVars
  <2>2. CASE AnswerLoad(c) \/ AnswerSwitch(c)
    <3>1. shown' = call[c].reply /\ Current(c)
      BY <2>2 DEF AnswerLoad, AnswerSwitch, Answered, Current, ShownIds
    <3>2. Carries(c, t)
      BY <3>1 DEF ShownIds, Carries
    <3>3. QED
      BY <2>2, <3>1, <3>2 DEF HiddenInv, ToldOrBeside
  <2>3. CASE AnswerSave(c)
    <3>1. /\ call[c].phase = "done" /\ call[c].kind \in Save /\ call[c].by = "page"
          /\ shown' # shown
      BY <2>3 DEF AnswerSave, Answered, ShownIds
    <3>2. PICK id \in Target : /\ id = call[c].change.target
                               /\ \A r \in call[c].reply : r.id = id
      BY <3>1, StateTypes DEF Fits
    <3>3. /\ call[c].kind = "update" => id \in ShownIds
          /\ shown' = Others(id) \cup call[c].reply
      BY <2>3, <3>1, <3>2 DEF AnswerSave
    <3>4. t = id /\ call[c].reply # {}
      BY <3>2, <3>3 DEF ShownIds, Others
    <3>5. call[c].kind # "update"
      BY <3>3, <3>4
    <3>6. call[c].kind # "delete"
      BY <3>1, <3>2, <3>4 DEF HiddenInv, DeletedIsGone, Deletes
    <3>7. QED
      BY <2>3, <3>1, <3>5, <3>6 DEF Save
  <2>4. QED
    BY <2>1, <2>2, <2>3
<1>3. QED
  BY <1>1, <1>2, Invariant, NextHidden, PTL DEF Spec, DeletedStaysHidden
=============================================================================

------------------------ MODULE BrowserSessionProofs ------------------------
(***************************************************************************)
(* Proofs about BrowserSession, for any number of endpoints, requests and  *)
(* calls.  First, whatever overlaps, the page is loading only while there  *)
(* is a call that will end it, but for a clear that arrives during a       *)
(* search.  Beside the shape of the calls no invariant is needed: each     *)
(* step that raises isLoading brings such a call with it, and each that    *)
(* takes one away lowers isLoading, or puts another in its place.          *)
(*                                                                         *)
(* Then what the list may show.  The invariant says what a call in flight  *)
(* still knows rightly although the state has moved on: its answer is of   *)
(* its endpoint and matches its search, and while it is fresh its search   *)
(* is the one in force and its answer holds nothing that the session was   *)
(* told is cleared.                                                        *)
(***************************************************************************)
EXTENDS BrowserSession, FiniteSetTheorems, WellFoundedInduction, TLAPS

-----------------------------------------------------------------------------
(* I.  What ends the loading state. *)

\* A record with the fields of a call, whatever their values.
CallSet(K, E, N, U, S, T, D, R, P) ==
  [kind : K, endpoint : E, fresh : BOOLEAN, known : N, cursor : U, search : S, todo : T,
   deleting : D, reply : R, page : P]
IsCall(x) == \E K, E, N, U, S, T, D, R, P : x \in CallSet(K, E, N, U, S, T, D, R, P)

Shape ==
  /\ call = [c \in Slot |-> call[c]] /\ \A c \in Slot : call[c] = NoCall \/ IsCall(call[c])
  /\ flags \in [loading : BOOLEAN, older : BOOLEAN, clearing : BOOLEAN, deleting : BOOLEAN]

\* What ~LoadingForEver says.
Ends == flags.loading => \E c \in Slot : Lowers(c)

-----------------------------------------------------------------------------
(* The shape of calls. *)

LEMMA NewCallShape ==
  ASSUME NEW k, NEW e
  PROVE  /\ IsCall(NewCall(k, e)) /\ NewCall(k, e).kind = k
         /\ NewCall(k, e).endpoint = e /\ NewCall(k, e).fresh
<1>1. NewCall(k, e) \in CallSet({k}, {e}, {{}}, {0}, {"all"}, {<<>>}, {FALSE}, {"none"}, {NoPage})
  BY DEF NewCall, CallSet
<1>2. QED
  BY <1>1 DEF IsCall, NewCall

LEMMA WrittenCall ==
  ASSUME NEW x, IsCall(x), NEW n, NEW u, NEW s, NEW t, NEW d
  PROVE  /\ IsCall([x EXCEPT !.fresh = FALSE])
         /\ [x EXCEPT !.fresh = FALSE].kind = x.kind
         /\ [x EXCEPT !.fresh = FALSE].endpoint = x.endpoint
         /\ IsCall([x EXCEPT !.known = n])
         /\ [x EXCEPT !.known = n].kind = x.kind
         /\ IsCall([x EXCEPT !.known = n, !.search = s])
         /\ [x EXCEPT !.known = n, !.search = s].kind = x.kind
         /\ IsCall([x EXCEPT !.cursor = u, !.search = s])
         /\ [x EXCEPT !.cursor = u, !.search = s].kind = x.kind
         /\ IsCall([x EXCEPT !.search = s])
         /\ [x EXCEPT !.search = s].kind = x.kind
         /\ [x EXCEPT !.search = s].endpoint = x.endpoint
         /\ [x EXCEPT !.search = s].fresh = x.fresh
         /\ IsCall([x EXCEPT !.deleting = d])
         /\ [x EXCEPT !.deleting = d].kind = x.kind
         /\ IsCall([x EXCEPT !.todo = t, !.deleting = d])
         /\ [x EXCEPT !.todo = t, !.deleting = d].kind = x.kind
<1>1. PICK K, E, N, U, S, T, D, R, P : x \in CallSet(K, E, N, U, S, T, D, R, P)
  BY DEF IsCall
<1>2. /\ [x EXCEPT !.fresh = FALSE] \in CallSet(K, E, N, U, S, T, D, R, P)
      /\ [x EXCEPT !.fresh = FALSE].kind = x.kind
      /\ [x EXCEPT !.fresh = FALSE].endpoint = x.endpoint
  BY <1>1 DEF CallSet
<1>3. /\ [x EXCEPT !.known = n] \in CallSet(K, E, {n}, U, S, T, D, R, P)
      /\ [x EXCEPT !.known = n].kind = x.kind
      /\ [x EXCEPT !.known = n, !.search = s] \in CallSet(K, E, {n}, U, {s}, T, D, R, P)
      /\ [x EXCEPT !.known = n, !.search = s].kind = x.kind
  BY <1>1 DEF CallSet
<1>4. /\ [x EXCEPT !.cursor = u, !.search = s] \in CallSet(K, E, N, {u}, {s}, T, D, R, P)
      /\ [x EXCEPT !.cursor = u, !.search = s].kind = x.kind
  BY <1>1 DEF CallSet
<1>5. /\ [x EXCEPT !.search = s] \in CallSet(K, E, N, U, {s}, T, D, R, P)
      /\ [x EXCEPT !.search = s].kind = x.kind
      /\ [x EXCEPT !.search = s].endpoint = x.endpoint
      /\ [x EXCEPT !.search = s].fresh = x.fresh
  BY <1>1 DEF CallSet
<1>6. /\ [x EXCEPT !.deleting = d] \in CallSet(K, E, N, U, S, T, {d}, R, P)
      /\ [x EXCEPT !.deleting = d].kind = x.kind
      /\ [x EXCEPT !.todo = t, !.deleting = d] \in CallSet(K, E, N, U, S, {t}, {d}, R, P)
      /\ [x EXCEPT !.todo = t, !.deleting = d].kind = x.kind
  BY <1>1 DEF CallSet
<1>7. QED
  BY <1>2, <1>3, <1>4, <1>5, <1>6 DEF IsCall

LEMMA NoCallLowersNothing ==
  ASSUME NEW c, call[c] = NoCall
  PROVE  ~Lowers(c)
BY DEF NoCall, Lowers

\* Bumping touches the freshness of calls alone.
LEMMA BumpedCalls ==
  ASSUME Shape
  PROVE  /\ Bumped(call) = [c \in Slot |-> Bumped(call)[c]]
         /\ \A c \in Slot : /\ Bumped(call)[c] = NoCall \/ IsCall(Bumped(call)[c])
                            /\ Bumped(call)[c] # call[c] => call[c].kind \in Versioned
<1>1. \A c \in Slot : Bumped(call)[c] =
        IF call[c].kind \in Versioned THEN [call[c] EXCEPT !.fresh = FALSE] ELSE call[c]
  BY DEF Bumped
<1>2. \A c \in Slot : call[c].kind \in Versioned => IsCall(call[c])
  BY DEF Shape, NoCall, Versioned
<1>3. \A c \in Slot : call[c].kind \in Versioned => IsCall([call[c] EXCEPT !.fresh = FALSE])
  BY <1>2, WrittenCall
<1>4. \A c \in Slot : /\ Bumped(call)[c] = NoCall \/ IsCall(Bumped(call)[c])
                      /\ Bumped(call)[c] # call[c] => call[c].kind \in Versioned
  BY <1>1, <1>3 DEF Shape
<1>5. Bumped(call) = [c \in Slot |-> Bumped(call)[c]]
  BY DEF Bumped
<1>6. QED
  BY <1>4, <1>5

LEMMA ReplacedCall ==
  ASSUME Shape, NEW c \in Slot, NEW x, x = NoCall \/ IsCall(x),
         call' = [call EXCEPT ![c] = x] \/ call' = [Bumped(call) EXCEPT ![c] = x],
         flags' \in [loading : BOOLEAN, older : BOOLEAN, clearing : BOOLEAN, deleting : BOOLEAN]
  PROVE  Shape' /\ call'[c] = x
<1>1. \A d \in Slot : call'[d] = IF d = c THEN x
                                 ELSE IF call' = [call EXCEPT ![c] = x] THEN call[d]
                                 ELSE Bumped(call)[d]
  BY BumpedCalls DEF Shape
<1>2. call' = [d \in Slot |-> call'[d]]
  BY BumpedCalls DEF Shape
<1>3. \A d \in Slot : call'[d] = NoCall \/ IsCall(call'[d])
  BY <1>1, BumpedCalls DEF Shape
<1>4. QED
  BY <1>1, <1>2, <1>3 DEF Shape

Result == Shape' /\ (Ends => Ends')

-----------------------------------------------------------------------------
(* Four kinds of step. *)

LEMMA NothingHappens ==
  ASSUME Shape, UNCHANGED <<call, active, flags>>
  PROVE  Result
BY DEF Shape, Result, Ends, Lowers

\* One call goes on, ends or begins, and nothing that would have lowered isLoading
\* is lost unless it is lowered.
LEMMA OneCallChanges ==
  ASSUME Shape, NEW c \in Slot, NEW x, x = NoCall \/ IsCall(x),
         call' = [call EXCEPT ![c] = x], active' = active,
         flags' \in [loading : BOOLEAN, older : BOOLEAN, clearing : BOOLEAN, deleting : BOOLEAN],
         flags'.loading => flags.loading /\ (Lowers(c) => Lowers(c)')
  PROVE  Result
<1>1. Shape'
  BY ReplacedCall
<1>2. \A d \in Slot \ {c} : Lowers(d) => Lowers(d)'
  <2>1. \A d \in Slot \ {c} : call'[d] = call[d]
    BY DEF Shape
  <2>2. QED
    BY <2>1 DEF Lowers
<1>3. Ends => Ends'
  BY <1>2 DEF Ends
<1>4. QED
  BY <1>1, <1>3 DEF Result

\* A call begins that will lower isLoading.
LEMMA LowererBegins ==
  ASSUME Shape, NEW c \in Slot, NEW x, IsCall(x),
         call' = [call EXCEPT ![c] = x] \/ call' = [Bumped(call) EXCEPT ![c] = x],
         flags' \in [loading : BOOLEAN, older : BOOLEAN, clearing : BOOLEAN, deleting : BOOLEAN],
         \/ x.kind = "new"
         \/ x.kind \in {"probe", "adopt", "make"} /\ active' = None
         \/ x.kind = "switch" /\ x.endpoint = active'
         \/ x.kind = "search" /\ x.endpoint = active' /\ x.fresh
  PROVE  Result
<1>1. Shape' /\ call'[c] = x
  BY ReplacedCall
<1>2. Lowers(c)'
  BY <1>1 DEF Lowers
<1>3. QED
  BY <1>1, <1>2 DEF Result, Ends

LEMMA LoadingEnds ==
  ASSUME Shape, NEW c \in Slot,
         call' = [call EXCEPT ![c] = NoCall] \/ call' = [Bumped(call) EXCEPT ![c] = NoCall],
         flags' \in [loading : BOOLEAN, older : BOOLEAN, clearing : BOOLEAN, deleting : BOOLEAN],
         ~flags'.loading
  PROVE  Result
<1>1. Shape'
  BY ReplacedCall
<1>2. QED
  BY <1>1 DEF Result, Ends

-----------------------------------------------------------------------------
(* The steps. *)

FlagsType == [loading : BOOLEAN, older : BOOLEAN, clearing : BOOLEAN, deleting : BOOLEAN]

\* What the user starts.
LEMMA SwitchStep ==
  ASSUME Shape, NEW c \in Slot, NEW e, SwitchEndpoint(c, e)
  PROVE  Result
<1>1. /\ call' = [Bumped(call) EXCEPT ![c] = NewCall("switch", e)] /\ active' = e
      /\ flags' \in FlagsType
  BY DEF SwitchEndpoint, Shape, FlagsType
<1>2. IsCall(NewCall("switch", e)) /\ NewCall("switch", e).kind = "switch" /\ NewCall("switch", e).endpoint = e
  BY NewCallShape
<1>3. QED
  BY <1>1, <1>2, LowererBegins DEF FlagsType

LEMMA StartNewStep ==
  ASSUME Shape, NEW c \in Slot, StartNewEndpoint(c)
  PROVE  Result
<1>1. call' = [call EXCEPT ![c] = NewCall("new", None)] /\ flags' \in FlagsType
  BY DEF StartNewEndpoint, Begin, Set, Shape, FlagsType
<1>2. IsCall(NewCall("new", None)) /\ NewCall("new", None).kind = "new"
  BY NewCallShape
<1>3. QED
  BY <1>1, <1>2, LowererBegins DEF FlagsType

LEMMA SearchStep ==
  ASSUME Shape, NEW c \in Slot, NEW s, SearchRequests(c, s)
  PROVE  Result
<1> DEFINE n == NewCall("search", active)
           x == [n EXCEPT !.search = s]
<1>1. IsCall(n) /\ n.kind = "search" /\ n.endpoint = active /\ n.fresh
  BY NewCallShape
<1>2. call' = [Bumped(call) EXCEPT ![c] = x] /\ active' = active
  BY DEF SearchRequests
<1>5. flags' \in FlagsType
  <2>1. flags' = [flags EXCEPT !.loading = TRUE, !.older = FALSE]
    BY DEF SearchRequests
  <2>2. flags \in FlagsType
    BY DEF Shape, FlagsType
  <2>3. QED
    BY <2>1, <2>2 DEF FlagsType
<1> HIDE DEF n
<1>3. IsCall(x) /\ x.kind = "search" /\ x.endpoint = active /\ x.fresh
  <2>1. PICK K, E, N, U, S, T, D, R, P : n \in CallSet(K, E, N, U, S, T, D, R, P)
    BY <1>1 DEF IsCall
  <2>2. /\ x \in CallSet(K, E, N, U, {s}, T, D, R, P)
        /\ x.kind = n.kind /\ x.endpoint = n.endpoint /\ x.fresh = n.fresh
    BY <2>1 DEF CallSet
  <2>3. QED
    BY <1>1, <2>2 DEF IsCall
<1> HIDE DEF x
<1>4. QED
  BY <1>2, <1>3, <1>5, LowererBegins DEF FlagsType

\* The other calls of the user leave isLoading alone.
LEMMA OtherCallStep ==
  ASSUME Shape, NEW c \in Slot,
         \/ RefreshEndpoint(c) \/ LoadOlder(c) \/ ClearEndpoint(c)
         \/ \E e \in Endpoint : DeleteEndpoint(c, e)
         \/ \E r \in Request : ReplayRequest(c, r)
  PROVE  Result
<1>1. \A k, e : IsCall(NewCall(k, e))
  BY NewCallShape
<1>2. PICK x : IsCall(x) /\ call[c] = NoCall /\ call' = [call EXCEPT ![c] = x]
  <2>1. CASE RefreshEndpoint(c)
    BY <1>1, <2>1, WrittenCall DEF RefreshEndpoint, Begin
  <2>2. CASE LoadOlder(c)
    BY <1>1, <2>2, WrittenCall DEF LoadOlder, Begin
  <2>3. CASE ClearEndpoint(c)
    BY <1>1, <2>3 DEF ClearEndpoint, Begin
  <2>4. CASE \E e \in Endpoint : DeleteEndpoint(c, e)
    BY <1>1, <2>4, WrittenCall DEF DeleteEndpoint, Begin
  <2>5. CASE \E r \in Request : ReplayRequest(c, r)
    BY <1>1, <2>5, WrittenCall DEF ReplayRequest, Begin
  <2>6. QED
    BY <2>1, <2>2, <2>3, <2>4, <2>5
<1>3. active' = active /\ flags' \in FlagsType /\ flags'.loading = flags.loading
  BY DEF RefreshEndpoint, LoadOlder, ClearEndpoint, DeleteEndpoint, ReplayRequest, Set, Shape, FlagsType
<1>4. QED
  BY <1>2, <1>3, NoCallLowersNothing, OneCallChanges DEF FlagsType

\* The server's answer gives a new endpoint to a creation only.
LEMMA ServeStep ==
  ASSUME Shape, NEW c \in Slot, Serve(c)
  PROVE  Result
<1>1. PICK r, e, p : /\ Reply(c, r, e, p)
                     /\ e = call[c].endpoint \/ call[c].kind \in {"new", "make"}
  BY DEF Serve
<1>2. call[c].kind # "none" /\ active' = active /\ flags' = flags
  BY DEF Serve
<1> DEFINE x == [call[c] EXCEPT !.reply = r, !.endpoint = e, !.page = p]
<1>3. IsCall(call[c])
  BY <1>2 DEF Shape, NoCall
<1>4. IsCall(x) /\ x.kind = call[c].kind /\ x.endpoint = e /\ x.fresh = call[c].fresh
  <2>1. PICK K, E, N, U, S, T, D, R, P : call[c] \in CallSet(K, E, N, U, S, T, D, R, P)
    BY <1>3 DEF IsCall
  <2>2. /\ x \in CallSet(K, {e}, N, U, S, T, D, {r}, {p})
        /\ x.kind = call[c].kind /\ x.endpoint = e /\ x.fresh = call[c].fresh
    BY <2>1 DEF CallSet
  <2>3. QED
    BY <2>2 DEF IsCall
<1>5. call' = [call EXCEPT ![c] = x]
  BY <1>1 DEF Reply, Shape
<1> HIDE DEF x
<1>6. call'[c] = x
  BY <1>5 DEF Shape
<1>7. Lowers(c) => Lowers(c)'
  BY <1>1, <1>2, <1>4, <1>6 DEF Lowers
<1>8. flags' \in FlagsType
  BY <1>2 DEF Shape, FlagsType
<1>9. QED
  BY <1>2, <1>4, <1>5, <1>7, <1>8, OneCallChanges DEF FlagsType

\* Answers after which nothing is left of the call.
LEMMA EndedStep ==
  ASSUME Shape, NEW c \in Slot, End(c), active' = active, flags' \in FlagsType,
         flags'.loading => flags.loading /\ ~Lowers(c)
  PROVE  Result
<1>1. call' = [call EXCEPT ![c] = NoCall]
  BY DEF End
<1>2. QED
  BY <1>1, OneCallChanges DEF FlagsType

LEMMA AnswerStep ==
  ASSUME Shape, NEW c \in Slot,
         \/ AnswerSwitch(c) \/ AnswerRefresh(c) \/ AnswerOlder(c) \/ AnswerSearch(c)
         \/ AnswerReplay(c)
  PROVE  Result
<1>1. End(c) /\ active' = active
  BY DEF AnswerSwitch, AnswerRefresh, AnswerOlder, AnswerSearch, AnswerReplay
<1>2. flags' \in FlagsType /\ (flags'.loading => flags.loading /\ ~Lowers(c))
  <2>1. CASE AnswerSwitch(c)
    BY <2>1 DEF AnswerSwitch, Is, Set, Shape, FlagsType, Lowers
  <2>2. CASE AnswerRefresh(c)
    BY <2>2 DEF AnswerRefresh, Is, Shape, FlagsType, Lowers
  <2>3. CASE AnswerOlder(c)
    BY <2>3 DEF AnswerOlder, Is, Set, Shape, FlagsType, Lowers
  <2>4. CASE AnswerSearch(c)
    <3> DEFINE on == flags.loading /\ ~(call[c].fresh /\ active = call[c].endpoint)
    <3>1. flags' = [flags EXCEPT !.loading = on] /\ call[c].kind = "search"
      BY <2>4 DEF AnswerSearch, Is, Set
    <3>2. on \in BOOLEAN /\ (on => flags.loading /\ ~Lowers(c))
      BY <3>1 DEF Lowers
    <3> HIDE DEF on
    <3>3. flags' \in FlagsType /\ flags'.loading = on
      BY <3>1, <3>2 DEF Shape, FlagsType
    <3>4. QED
      BY <3>2, <3>3
  <2>5. CASE AnswerReplay(c)
    BY <2>5 DEF AnswerReplay, Is, Shape, FlagsType, Lowers
  <2>6. QED
    BY <2>1, <2>2, <2>3, <2>4, <2>5
<1>3. QED
  BY <1>1, <1>2, EndedStep

\* A replacement flow ends with an endpoint.
LEMMA FlowEnds ==
  ASSUME Shape, NEW c \in Slot, EndReplacement(c, Bumped(call), FALSE, FALSE)
  PROVE  Result
<1>2. /\ call' = [Bumped(call) EXCEPT ![c] = NoCall]
      /\ flags' \in FlagsType /\ ~flags'.loading
  BY DEF EndReplacement, Shape, FlagsType
<1>3. QED
  BY <1>2, LoadingEnds DEF FlagsType

\* It gives up: a page without an endpoint stops loading, one with an endpoint had
\* nothing to expect of this flow.
LEMMA GiveUpStep ==
  ASSUME Shape, NEW c \in Slot, GiveUp(c), call[c].kind \in {"probe", "adopt", "make"}
  PROVE  Result
<1> DEFINE on == flags.loading /\ active # None
<1>1. /\ call' = [call EXCEPT ![c] = NoCall] /\ active' = active
      /\ flags' = [flags EXCEPT !.loading = on, !.older = flags.older,
                                !.deleting = @ /\ ~call[c].deleting]
  BY DEF GiveUp, EndReplacement
<1>2. on \in BOOLEAN /\ (on => flags.loading /\ ~Lowers(c))
  BY DEF Lowers, Shape
<1> HIDE DEF on
<1>3. flags' \in FlagsType /\ flags'.loading = on
  BY <1>1, <1>2 DEF Shape, FlagsType
<1>4. QED
  BY <1>1, <1>2, <1>3, EndedStep DEF End

LEMMA CandidateShape ==
  ASSUME NEW todo, NEW deleting
  PROVE  /\ IsCall(NextCandidate(todo, deleting))
         /\ NextCandidate(todo, deleting).kind \in {"probe", "make"}
<1>1. /\ IsCall(NewCall("make", None)) /\ NewCall("make", None).kind = "make"
      /\ IsCall(NewCall("probe", Head(todo))) /\ NewCall("probe", Head(todo)).kind = "probe"
  BY NewCallShape
<1> DEFINE m == NewCall("make", None)
           q == NewCall("probe", Head(todo))
           t == Tail(todo)
<1>2. NextCandidate(todo, deleting) =
        IF todo = <<>> THEN [m EXCEPT !.deleting = deleting]
        ELSE [q EXCEPT !.todo = t, !.deleting = deleting]
  BY DEF NextCandidate
<1> HIDE DEF m, q, t
<1>3. IsCall([m EXCEPT !.deleting = deleting]) /\ [m EXCEPT !.deleting = deleting].kind = m.kind
  BY <1>1, WrittenCall DEF m
<1>4. /\ IsCall([q EXCEPT !.todo = t, !.deleting = deleting])
      /\ [q EXCEPT !.todo = t, !.deleting = deleting].kind = q.kind
  <2>1. IsCall(q)
    BY <1>1 DEF q
  <2>2. PICK K, E, N, U, S, T, D, R, P : q \in CallSet(K, E, N, U, S, T, D, R, P)
    BY <2>1 DEF IsCall
  <2>3. /\ [q EXCEPT !.todo = t, !.deleting = deleting]
             \in CallSet(K, E, N, U, S, {t}, {deleting}, R, P)
        /\ [q EXCEPT !.todo = t, !.deleting = deleting].kind = q.kind
    BY <2>2 DEF CallSet
  <2>4. QED
    BY <2>3 DEF IsCall
<1>5. QED
  BY <1>1, <1>2, <1>3, <1>4 DEF m, q

\* One begins: a page that has lost its endpoint gets a call that ends its loading.
LEMMA BeginReplacementStep ==
  ASSUME Shape, NEW c \in Slot, NEW e, NEW todo, NEW deleting \in BOOLEAN,
         BeginReplacement(c, e, todo, deleting), ~Lowers(c)
  PROVE  Result
<1>1. CASE active = e
  <2>1. /\ call' = [Bumped(call) EXCEPT ![c] = NextCandidate(todo, deleting)]
        /\ active' = None /\ flags' \in FlagsType
    BY <1>1 DEF BeginReplacement, Shape, FlagsType
  <2>2. QED
    BY <2>1, CandidateShape, LowererBegins DEF FlagsType
<1>2. CASE active # e
  <2>1. /\ End(c) /\ active' = active
        /\ flags' = [flags EXCEPT !.deleting = @ /\ ~deleting]
    BY <1>2 DEF BeginReplacement, End
  <2>2. flags' \in FlagsType /\ flags'.loading = flags.loading
    BY <2>1 DEF Shape, FlagsType
  <2>3. QED
    BY <2>1, <2>2, EndedStep
<1>3. QED
  BY <1>1, <1>2

LEMMA FlowStep ==
  ASSUME Shape, NEW c \in Slot,
         AnswerProbe(c) \/ AnswerAdopt(c) \/ AnswerMake(c) \/ AnswerNew(c) \/ AnswerDelete(c)
  PROVE  Result
<1>1. CASE AnswerProbe(c)
  <2>1. CASE GiveUp(c)
    BY <1>1, <2>1, GiveUpStep DEF AnswerProbe, Is
  <2>2. CASE ~GiveUp(c)
    <3>1. PICK x : /\ IsCall(x) /\ x.kind \in {"probe", "adopt", "make"}
                   /\ call' = [call EXCEPT ![c] = x]
      <4> DEFINE n == NewCall("adopt", call[c].endpoint)
                 y == [n EXCEPT !.todo = call[c].todo, !.deleting = call[c].deleting]
                 z == NextCandidate(call[c].todo, call[c].deleting)
      <4>1. IsCall(n) /\ n.kind = "adopt"
        BY NewCallShape
      <4> HIDE DEF n
      <4>2. IsCall(y) /\ y.kind = "adopt"
        <5>1. PICK K, E, N, U, S, T, D, R, P : n \in CallSet(K, E, N, U, S, T, D, R, P)
          BY <4>1 DEF IsCall
        <5>2. /\ y \in CallSet(K, E, N, U, S, {call[c].todo}, {call[c].deleting}, R, P)
              /\ y.kind = n.kind
          BY <5>1 DEF CallSet
        <5>3. QED
          BY <4>1, <5>2 DEF IsCall
      <4>3. IsCall(z) /\ z.kind \in {"probe", "make"}
        BY CandidateShape
      <4>4. call' = [call EXCEPT ![c] = y] \/ call' = [call EXCEPT ![c] = z]
        BY <1>1, <2>2 DEF AnswerProbe, n
      <4> HIDE DEF y, z
      <4>5. QED
        BY <4>2, <4>3, <4>4
    <3>2. call[c].kind = "probe" /\ active' = active /\ flags' = flags
      BY <1>1, <2>2 DEF AnswerProbe, Is
    <3>3. call'[c] = x
      BY <3>1 DEF Shape
    <3>4. Lowers(c) => Lowers(c)'
      BY <3>1, <3>2, <3>3 DEF Lowers
    <3>5. flags' \in FlagsType
      BY <3>2 DEF Shape, FlagsType
    <3>6. QED
      BY <3>1, <3>2, <3>4, <3>5, OneCallChanges DEF FlagsType
  <2>3. QED
    BY <2>1, <2>2
<1>2. CASE AnswerAdopt(c)
  <2>1. CASE GiveUp(c)
    BY <1>2, <2>1, GiveUpStep DEF AnswerAdopt, Is
  <2>2. CASE ~GiveUp(c)
    <3>1. EndReplacement(c, Bumped(call), FALSE, FALSE)
      BY <1>2, <2>2 DEF AnswerAdopt, Adopt
    <3>2. QED
      BY <3>1, FlowEnds
  <2>3. QED
    BY <2>1, <2>2
<1>3. CASE AnswerMake(c)
  BY <1>3, GiveUpStep, FlowEnds DEF AnswerMake, Is, ApplyNew
<1>4. CASE AnswerNew(c)
  <2>1. CASE ApplyNew(c)
    BY <2>1, FlowEnds DEF ApplyNew
  <2>2. CASE ~ApplyNew(c)
    <3>1. call' = [call EXCEPT ![c] = NoCall] /\ flags' = [flags EXCEPT !.loading = FALSE]
      BY <1>4, <2>2 DEF AnswerNew, End, Set
    <3>2. flags' \in FlagsType /\ ~flags'.loading
      BY <3>1 DEF Shape, FlagsType
    <3>3. QED
      BY <3>1, <3>2, LoadingEnds DEF FlagsType
  <2>3. QED
    BY <2>1, <2>2
<1>5. CASE AnswerDelete(c)
  <2>1. ~Lowers(c)
    BY <1>5 DEF AnswerDelete, Is, Lowers
  <2>2. CASE BeginReplacement(c, call[c].endpoint, call[c].todo, TRUE)
    BY <2>1, <2>2, BeginReplacementStep
  <2>3. CASE End(c) /\ Set("deleting", FALSE) /\ active' = active
    <3>1. flags' \in FlagsType /\ flags'.loading = flags.loading
      BY <2>3 DEF Set, Shape, FlagsType
    <3>2. QED
      BY <2>1, <2>3, <3>1, EndedStep
  <2>4. QED
    BY <1>5, <2>2, <2>3 DEF AnswerDelete
<1>6. QED
  BY <1>1, <1>2, <1>3, <1>4, <1>5

LEMMA OnDeletedStep ==
  ASSUME Shape, NEW c \in Slot, OnDeleted(c)
  PROVE  Result
<1>1. PICK e, todo : BeginReplacement(c, e, todo, FALSE)
  BY DEF OnDeleted
<1>2. ~Lowers(c)
  BY NoCallLowersNothing DEF OnDeleted
<1>3. QED
  BY <1>1, <1>2, BeginReplacementStep

\* A clear gets the page ready for nothing: only the calls keep their shape.
LEMMA ClearStep ==
  ASSUME Shape, OnClear \/ \E c \in Slot : AnswerClear(c)
  PROVE  Shape'
<1>1. flags' \in FlagsType
  BY DEF OnClear, AnswerClear, Set, Shape, FlagsType
<1>2. CASE OnClear
  <2>1. call' = Bumped(call)
    BY <1>2 DEF OnClear
  <2>2. QED
    BY <1>1, <2>1, BumpedCalls DEF Shape, FlagsType
<1>3. CASE \E c \in Slot : AnswerClear(c)
  <2>1. PICK c \in Slot : AnswerClear(c)
    BY <1>3
  <2>2. call' = [call EXCEPT ![c] = NoCall] \/ call' = [Bumped(call) EXCEPT ![c] = NoCall]
    BY <2>1 DEF AnswerClear, End
  <2>3. QED
    BY <1>1, <2>2, ReplacedCall DEF FlagsType
<1>4. QED
  BY <1>2, <1>3

LEMMA ServerStep ==
  ASSUME Shape, Server
  PROVE  Result
<1>1. CASE \E r \in Request : Capture(r)
  BY <1>1, NothingHappens DEF Capture
<1>2. CASE \E e \in Endpoint : Elsewhere(e)
  BY <1>2, NothingHappens DEF Elsewhere
<1>3. CASE \E c \in Slot : Serve(c)
  BY <1>3, ServeStep
<1>4. CASE \E event \in unpublished : Publish(event)
  BY <1>4, NothingHappens DEF Publish
<1>5. QED
  BY <1>1, <1>2, <1>3, <1>4 DEF Server

LEMMA UserStep ==
  ASSUME Shape, User
  PROVE  Result
BY SwitchStep, StartNewStep, SearchStep, OtherCallStep DEF User

\* What the stream brings, but for a clear.
LEMMA StreamStep ==
  ASSUME Shape, Stream, ~OnClear
  PROVE  Result
<1>1. CASE Connect \/ Break \/ Resubscribe \/ OnRequest
  BY <1>1, NothingHappens DEF Connect, Break, Resubscribe, OnRequest
<1>2. CASE \E c \in Slot : OnDeleted(c)
  BY <1>2, OnDeletedStep
<1>3. QED
  BY <1>1, <1>2 DEF Stream

LEMMA InitialShape ==
  ASSUME Init
  PROVE  Shape
BY DEF Init, Shape

LEMMA NextStep ==
  ASSUME Shape, [Next]_vars
  PROVE  Shape' /\ ((Ends => Ends') \/ OnClear \/ \E c \in Slot : AnswerClear(c))
<1>1. CASE OnClear \/ \E c \in Slot : AnswerClear(c)
  BY <1>1, ClearStep
<1>2. CASE Server
  BY <1>2, ServerStep DEF Result
<1>3. CASE User
  BY <1>3, UserStep DEF Result
<1>4. CASE Stream /\ ~OnClear
  BY <1>4, StreamStep DEF Result
<1>5. CASE \E c \in Slot : Answer(c) /\ ~AnswerClear(c)
  BY <1>5, AnswerStep, FlowStep DEF Answer, Result
<1>6. CASE UNCHANGED vars
  BY <1>6, NothingHappens DEF vars, Result
<1>7. QED
  BY <1>1, <1>2, <1>3, <1>4, <1>5, <1>6 DEF Next

-----------------------------------------------------------------------------
\* Every call in flight has the fields of a call, and the four flags of the
\* session are Boolean (use-browser-endpoint-session.ts).
THEOREM CallsKeepTheirShape == Spec => []Shape
<1>1. Init => Shape
  BY InitialShape
<1>2. Shape /\ [Next]_vars => Shape'
  BY NextStep
<1>3. QED
  BY <1>1, <1>2, PTL DEF Spec

\* Whatever the user, the server's answers and the stream's events do in whatever
\* order, isLoading, which disables the page's controls, has a call that will
\* lower it; only a clear, answered or told of by the stream, may end that.
THEOREM LoadingIsEnded == Spec => OnlyClearStrandsLoading
<1>1. LoadingForEver <=> ~Ends
  BY DEF LoadingForEver, Ends
<1>2. LoadingForEver' <=> ~Ends'
  BY DEF LoadingForEver, Ends
<1>3. Shape /\ [Next]_vars =>
        [LoadingForEver' => LoadingForEver \/ OnClear \/ \E c \in Slot : AnswerClear(c)]_vars
  BY <1>1, <1>2, NextStep
<1>4. QED
  BY <1>3, CallsKeepTheirShape, PTL DEF Spec, OnlyClearStrandsLoading

-----------------------------------------------------------------------------
(* II.  What the list shows. *)

(* Numbers, sequences and pages. *)

LEMMA LeastOf ==
  ASSUME NEW S, S \subseteq Nat, S # {}
  PROVE  Min(S) \in S /\ \A n \in S : Min(S) <= n
<1>1. PICK m \in S : \A n \in S : ~(<<n, m>> \in OpToRel(<, Nat))
  BY NatLessThanWellFounded, WFMin
<1>2. \A n \in S : m <= n
  <2> SUFFICES ASSUME NEW n \in S, n < m
               PROVE  FALSE
    OBVIOUS
  <2>1. <<n, m>> \in OpToRel(<, Nat)
    <3>1. <<n, m>> \in Nat \X Nat /\ <<n, m>>[1] < <<n, m>>[2]
      OBVIOUS
    <3>2. QED
      BY <3>1, Zenon DEF OpToRel
  <2>2. QED
    BY <1>1, <2>1, Zenon
<1>3. QED
  BY <1>2 DEF Min

LEMMA GreatestOf ==
  ASSUME NEW S, NEW L \in Nat, S \subseteq Nat, S # {}, \A n \in S : n <= L
  PROVE  \E m \in S : \A n \in S : n <= m
<1> DEFINE D == {L - n : n \in S}
           k == Min(D)
<1>1. D \subseteq Nat /\ D # {}
  <2>1. \A n \in S : n \in Nat /\ n <= L
    OBVIOUS
  <2>2. \A n \in S : L - n \in Nat
    BY <2>1
  <2>3. QED
    BY <2>2
<1>2. k \in D /\ \A n \in D : k <= n
  BY <1>1, LeastOf
<1>6. \A n \in S : k <= L - n
  BY <1>2
<1>3. PICK m \in S : k = L - m
  BY <1>2
<1> HIDE DEF k
<1>4. \A n \in S : n <= m
  <2>1. \A n \in S : n \in Nat
    OBVIOUS
  <2>2. QED
    BY <1>3, <1>6, <2>1
<1>5. QED
  BY <1>4

LEMMA Joined ==
  ASSUME NEW S, NEW a \in Seq(S), NEW b \in Seq(S)
  PROVE  /\ a \o b \in Seq(S) /\ Len(a \o b) = Len(a) + Len(b)
         /\ \A i \in 1..Len(a) + Len(b) : (a \o b)[i] = IF i <= Len(a) THEN a[i] ELSE b[i - Len(a)]
OBVIOUS

\* Forgetting an endpoint keeps the others once.
LEMMA Forgotten ==
  ASSUME NEW e, NEW S, NEW s \in Seq(S)
  PROVE  Forget(e, s) \in Seq(S) /\ (IsInjective(s) => IsInjective(Forget(e, s)))
<1>1. CASE ~\E i \in 1..Len(s) : s[i] = e
  BY <1>1 DEF Forget, RemoveFirst
<1>2. CASE \E i \in 1..Len(s) : s[i] = e
  <2> DEFINE I == {i \in 1..Len(s) : s[i] = e}
             k == Min(I)
  <2>1. I # {} /\ I \subseteq Nat
    BY <1>2
  <2>2. k \in I
    BY <2>1, LeastOf
  <2>3. Forget(e, s) = SubSeq(s, 1, k - 1) \o SubSeq(s, k + 1, Len(s))
    BY <1>2, <2>1 DEF Forget, RemoveFirst, RemoveAt, SelectInSeq
  <2> HIDE DEF k
  <2>4. /\ SubSeq(s, 1, k - 1) \in Seq(S) /\ SubSeq(s, k + 1, Len(s)) \in Seq(S)
        /\ Len(SubSeq(s, 1, k - 1)) = k - 1 /\ Len(SubSeq(s, k + 1, Len(s))) = Len(s) - k
        /\ \A i \in 1..(k - 1) : SubSeq(s, 1, k - 1)[i] = s[i]
        /\ \A i \in 1..(Len(s) - k) : SubSeq(s, k + 1, Len(s))[i] = s[k + i]
    BY <2>2
  <2> DEFINE f == Forget(e, s)
  <2>5. /\ f \in Seq(S) /\ Len(f) = Len(s) - 1
        /\ \A i \in 1..Len(f) : f[i] = IF i < k THEN s[i] ELSE s[i + 1]
    <3> DEFINE a == SubSeq(s, 1, k - 1)
               b == SubSeq(s, k + 1, Len(s))
    <3>1. /\ a \in Seq(S) /\ b \in Seq(S) /\ f = a \o b /\ k \in 1..Len(s)
          /\ Len(a) = k - 1 /\ Len(b) = Len(s) - k
          /\ \A i \in 1..(k - 1) : a[i] = s[i]
          /\ \A i \in 1..(Len(s) - k) : b[i] = s[k + i]
      BY <2>2, <2>3, <2>4
    <3> HIDE DEF a, b, f
    <3>2. /\ f \in Seq(S) /\ Len(f) = Len(s) - 1
          /\ \A i \in 1..Len(f) : f[i] = IF i <= Len(a) THEN a[i] ELSE b[i - Len(a)]
      <4>1. /\ a \o b \in Seq(S) /\ Len(a \o b) = Len(a) + Len(b)
            /\ \A i \in 1..Len(a) + Len(b) :
                  (a \o b)[i] = IF i <= Len(a) THEN a[i] ELSE b[i - Len(a)]
        BY <3>1, Joined
      <4>2. Len(a) + Len(b) = Len(s) - 1
        BY <3>1
      <4>3. f = a \o b
        BY <3>1
      <4>4. QED
        BY <4>1, <4>2, <4>3, Zenon
    <3>3. ASSUME NEW i \in 1..Len(f)
          PROVE  f[i] = IF i < k THEN s[i] ELSE s[i + 1]
      <4>1. CASE i < k
        BY <3>1, <3>2, <4>1
      <4>2. CASE ~(i < k)
        <5>1. i - Len(a) \in 1..(Len(s) - k) /\ k + (i - Len(a)) = i + 1
          BY <3>1, <3>2, <4>2
        <5>2. QED
          BY <3>1, <3>2, <4>2, <5>1
      <4>3. QED
        BY <4>1, <4>2
    <3>4. QED
      BY <3>2, <3>3
  <2> HIDE DEF f
  <2>6. \A i \in 1..Len(s) - 1 : (IF i < k THEN i ELSE i + 1) \in 1..Len(s)
    BY <2>2
  <2>7. IsInjective(s) => IsInjective(f)
    <3> SUFFICES ASSUME IsInjective(s), NEW a \in DOMAIN f, NEW b \in DOMAIN f, f[a] = f[b]
                 PROVE  a = b
      BY DEF IsInjective
    <3> DEFINE p(i) == IF i < k THEN i ELSE i + 1
    <3>1. /\ a \in 1..(Len(s) - 1) /\ b \in 1..(Len(s) - 1)
          /\ p(a) \in DOMAIN s /\ p(b) \in DOMAIN s /\ s[p(a)] = s[p(b)]
      BY <2>5, <2>2
    <3>2. p(a) = p(b)
      BY <3>1 DEF IsInjective
    <3>3. QED
      BY <3>1, <3>2, <2>2
  <2>8. QED
    BY <2>5, <2>7 DEF f
<1>3. QED
  BY <1>1, <1>2

\* A page holds requests of the endpoint, in the table, that match.
LEMMA PageRows ==
  ASSUME NEW e, NEW s, NEW u, stored \subseteq Request
  PROVE  /\ Page(e, s, u) \in [rows : SUBSET stored, next : 0..LastRequest]
         /\ \A r \in Page(e, s, u).rows : Owner[r] = e /\ Matches(r, s)
<1> DEFINE rest == {r \in Rows(e) : Matches(r, s) /\ (u = 0 \/ r < u)}
           found == {r \in rest : Cardinality({q \in rest : q > r}) < PageSize}
           next == IF rest = found THEN 0 ELSE Min(found)
<1>1. Page(e, s, u) = [rows |-> found, next |-> next]
  BY DEF Page
<1>2. rest \subseteq stored /\ \A r \in rest : Owner[r] = e /\ Matches(r, s)
  BY DEF Rows
<1> HIDE DEF rest, found, next
<1>3. rest \subseteq Nat /\ rest \subseteq Request /\ \A r \in rest : r <= LastRequest
  <2>1. \A r \in rest : r \in Request
    BY <1>2
  <2>2. QED
    BY <2>1, SessionAssumption DEF Request
<1>4. rest # {} => found # {}
  <2> SUFFICES ASSUME rest # {}
               PROVE  found # {}
    OBVIOUS
  <2>1. PICK m \in rest : \A q \in rest : q <= m
    BY <1>3, GreatestOf, SessionAssumption
  <2>2. {q \in rest : q > m} = {}
    <3>1. \A q \in rest : q \in Nat /\ q <= m /\ m \in Nat
      BY <1>3, <2>1
    <3>2. \A q \in rest : ~(q > m)
      BY <3>1
    <3>3. QED
      BY <3>2
  <2>3. Cardinality({q \in rest : q > m}) < PageSize
    BY <2>2, FS_EmptySet, SessionAssumption
  <2>4. QED
    BY <2>1, <2>3 DEF found
<1>5. found \subseteq rest
  BY DEF found
<1>6. next \in 0..LastRequest
  <2>1. CASE rest = found
    BY <2>1, SessionAssumption DEF next
  <2>2. CASE rest # found
    <3>1. Min(found) \in found
      BY <1>3, <1>4, <1>5, <2>2, LeastOf
    <3>2. Min(found) \in Request
      BY <1>3, <1>5, <3>1
    <3>3. QED
      BY <2>2, <3>2, SessionAssumption DEF Request, next
  <2>3. QED
    BY <2>1, <2>2
<1>7. QED
  BY <1>1, <1>2, <1>5, <1>6

-----------------------------------------------------------------------------
(* The invariant. *)

\* The requests that a clear's event names are no longer stored.
GoodEvents == {event \in Events : event.kind = "clear" => event.requests \cap stored = {}}

\* A call that still fits the state: see the top of this module.
GoodCalls ==
  {x \in Calls :
     /\ x.kind \notin {"new", "make"} \/ x.reply = "ok" => x.endpoint \in Endpoint
     /\ x.kind = "replay" => x.known # {}
     /\ x.kind \in Versioned => \A r \in x.page.rows : Matches(r, x.search)
     /\ x.kind \in Versioned \cup {"adopt", "replay"} =>
          \A r \in x.page.rows : Owner[r] = x.endpoint
     /\ x.kind \in Versioned /\ x.fresh => x.search = search /\ x.page.rows \cap gone = {}
     /\ x.kind = "clear" => x.page.rows \cap stored = {}}

ServerInv ==
  /\ status \in [Endpoint -> {"unborn", "alive", "deleted"}]
  /\ captured \in SUBSET Request
  /\ stored \subseteq {r \in captured : status[Owner[r]] = "alive"}

SubscriptionType == [endpoint : Endpoint \cup {None}, recent : Id, current : BOOLEAN]

StreamInv ==
  /\ unpublished \subseteq GoodEvents /\ connected \in BOOLEAN /\ channel \in Seq(GoodEvents)
  /\ subscription \in SubscriptionType

PageInv ==
  /\ active \in Endpoint \cup {None} /\ recent \in Id /\ IsInjective(recent)
  /\ list \subseteq captured /\ cursor \in 0..LastRequest /\ search \in {"all", "some"}
  /\ flags \in FlagsType
  /\ replaying \in SUBSET captured /\ gone \in SUBSET captured /\ gone \cap stored = {}
  /\ OnlyMatchingShown

CallsInv == call \in [Slot -> GoodCalls \cup {NoCall}]

SessionInv == ServerInv /\ StreamInv /\ PageInv /\ CallsInv

\* The server has gone on: what is captured stays so, what is removed does not come
\* back.
Follows == captured \subseteq captured' /\ stored' \cap captured \subseteq stored

-----------------------------------------------------------------------------
(* Calls and events stay good. *)

LEMMA SeqGrows ==
  ASSUME NEW S, NEW T, S \subseteq T
  PROVE  Seq(S) \subseteq Seq(T)
OBVIOUS

LEMMA CallsGrow ==
  ASSUME Follows
  PROVE  Calls \subseteq Calls' /\ Events \subseteq Events'
<1>1. SUBSET captured \subseteq SUBSET captured'
  BY DEF Follows
<1>2. Calls \subseteq Calls'
  BY <1>1 DEF Calls
<1>3. Events \subseteq Events'
  BY <1>1 DEF Events
<1>4. QED
  BY <1>2, <1>3

LEMMA EventsStayGood ==
  ASSUME Follows
  PROVE  GoodEvents \subseteq GoodEvents'
<1> SUFFICES ASSUME NEW x \in GoodEvents
             PROVE  x \in GoodEvents'
  OBVIOUS
<1>1. x \in Events /\ x \in Events'
  BY CallsGrow DEF GoodEvents
<1>2. x.kind = "clear" => x.requests \cap stored = {} /\ x.requests \subseteq captured
  BY <1>1 DEF GoodEvents, Events
<1>3. x.kind = "clear" => x.requests \cap stored' = {}
  BY <1>2 DEF Follows
<1>4. QED
  BY <1>1, <1>3 DEF GoodEvents

LEMMA CallRecord ==
  ASSUME NEW x \in Calls
  PROVE  /\ x.kind \in Kind /\ x.endpoint \in Endpoint \cup {None} /\ x.fresh \in BOOLEAN
         /\ x.known \subseteq captured /\ x.cursor \in 0..LastRequest
         /\ x.search \in {"all", "some"} /\ x.todo \in Id /\ x.deleting \in BOOLEAN
         /\ x.reply \in {"none", "ok", "missing"}
         /\ x.page.rows \subseteq captured /\ x.page.next \in 0..LastRequest
BY DEF Calls

LEMMA CallStaysGood ==
  ASSUME Follows, NEW x \in GoodCalls,
         x.kind \in Versioned /\ x.fresh => search' = search /\ gone' = gone
  PROVE  x \in GoodCalls'
<1>1. x \in Calls /\ x \in Calls'
  BY CallsGrow DEF GoodCalls
<1>2. x.page.rows \subseteq captured
  BY <1>1, CallRecord
<1>3. x.kind = "clear" => x.page.rows \cap stored' = {}
  BY <1>2 DEF Follows, GoodCalls
<1>4. /\ x.kind \notin {"new", "make"} \/ x.reply = "ok" => x.endpoint \in Endpoint
      /\ x.kind = "replay" => x.known # {}
      /\ x.kind \in Versioned => \A r \in x.page.rows : Matches(r, x.search)
      /\ x.kind \in Versioned \cup {"adopt", "replay"} =>
          \A r \in x.page.rows : Owner[r] = x.endpoint
      /\ x.kind \in Versioned /\ x.fresh => x.search = search' /\ x.page.rows \cap gone' = {}
  BY DEF GoodCalls
<1>5. QED
  BY <1>1, <1>3, <1>4 DEF GoodCalls, Matches

LEMMA StaleCallStaysGood ==
  ASSUME Follows, NEW x \in GoodCalls
  PROVE  [x EXCEPT !.fresh = FALSE] \in GoodCalls'
<1> DEFINE y == [x EXCEPT !.fresh = FALSE]
<1>1. x \in Calls
  BY DEF GoodCalls
<1>2. /\ y \in Calls /\ ~y.fresh /\ y.kind = x.kind /\ y.known = x.known
      /\ y.page = x.page /\ y.search = x.search /\ y.endpoint = x.endpoint /\ y.reply = x.reply
  BY <1>1 DEF Calls
<1> HIDE DEF y
<1>3. y \in GoodCalls
  BY <1>2 DEF GoodCalls
<1>4. QED
  BY <1>2, <1>3, CallStaysGood DEF y

LEMMA BumpedStaysGood ==
  ASSUME CallsInv, Follows
  PROVE  Bumped(call) \in [Slot -> GoodCalls' \cup {NoCall}]
<1> SUFFICES ASSUME NEW c \in Slot
             PROVE  (IF call[c].kind \in Versioned THEN [call[c] EXCEPT !.fresh = FALSE]
                     ELSE call[c]) \in GoodCalls' \cup {NoCall}
  BY Zenon DEF Bumped
<1>1. PICK x : x = call[c]
  OBVIOUS
<1>2. x \in GoodCalls \/ x = NoCall
  BY <1>1 DEF CallsInv
<1>3. CASE x.kind \in Versioned
  <2>1. x \in GoodCalls
    BY <1>2, <1>3 DEF NoCall, Versioned
  <2>2. QED
    BY <1>1, <1>3, <2>1, StaleCallStaysGood
<1>4. CASE x.kind \notin Versioned
  BY <1>1, <1>2, <1>4, CallStaysGood
<1>5. QED
  BY <1>3, <1>4

\* One call begins, goes on or ends.
LEMMA OneCallMoves ==
  ASSUME CallsInv, Follows, UNCHANGED <<search, gone>>, NEW c \in Slot,
         NEW x \in GoodCalls' \cup {NoCall}, call' = [call EXCEPT ![c] = x]
  PROVE  CallsInv'
<1>1. GoodCalls \subseteq GoodCalls'
  BY CallStaysGood
<1>2. call \in [Slot -> GoodCalls' \cup {NoCall}]
  BY <1>1 DEF CallsInv
<1>3. QED
  BY <1>2 DEF CallsInv

LEMMA CallsRest ==
  ASSUME CallsInv, Follows, UNCHANGED <<search, gone, call>>
  PROVE  CallsInv'
<1>1. GoodCalls \subseteq GoodCalls'
  BY CallStaysGood
<1>2. QED
  BY <1>1 DEF CallsInv

\* One does while the version is bumped.
LEMMA OneCallMovesOn ==
  ASSUME CallsInv, Follows, NEW c \in Slot,
         NEW x \in GoodCalls' \cup {NoCall}, call' = [Bumped(call) EXCEPT ![c] = x]
  PROVE  CallsInv'
BY BumpedStaysGood DEF CallsInv

\* The record with which a call begins.
CallOf(k, e, n, u, s, t, d) ==
  [kind |-> k, endpoint |-> e, fresh |-> TRUE, known |-> n, cursor |-> u, search |-> s,
   todo |-> t, deleting |-> d, reply |-> "none", page |-> NoPage]

LEMMA NewCallIsGood ==
  ASSUME NEW k \in Kind, NEW e \in Endpoint \cup {None}, NEW n \in SUBSET captured',
         NEW u \in 0..LastRequest, NEW s \in {"all", "some"}, NEW t \in Id, NEW d \in BOOLEAN,
         k \notin {"new", "make"} => e \in Endpoint,
         k \in Versioned => s = search', k = "replay" => n # {}
  PROVE  CallOf(k, e, n, u, s, t, d) \in GoodCalls'
<1> DEFINE x == CallOf(k, e, n, u, s, t, d)
<1>1. NoPage \in [rows : SUBSET captured', next : 0..LastRequest] /\ NoPage.rows = {}
  BY SessionAssumption DEF NoPage
<1>2. /\ x \in Calls' /\ x.kind = k /\ x.known = n /\ x.search = s /\ x.page = NoPage
      /\ x.endpoint = e /\ x.reply = "none"
  BY <1>1 DEF CallOf, Calls
<1> HIDE DEF x
<1>3. x.page.rows = {}
  BY <1>1, <1>2
<1>4. QED
  BY <1>2, <1>3 DEF GoodCalls, x

-----------------------------------------------------------------------------
(* The server's steps. *)

\* The server changes: what the page has is as it was.
LEMMA PageRests ==
  ASSUME PageInv, Follows, UNCHANGED <<active, recent, listVars, flags, gone>>
  PROVE  PageInv'
<1>1. list' \subseteq captured' /\ replaying' \in SUBSET captured' /\ gone' \in SUBSET captured'
  BY DEF PageInv, Follows, listVars
<1>2. gone' \cap stored' = {}
  BY DEF PageInv, Follows
<1>3. OnlyMatchingShown'
  BY DEF PageInv, OnlyMatchingShown, Matches, listVars
<1>4. QED
  BY <1>1, <1>2, <1>3 DEF PageInv, listVars

LEMMA StreamRests ==
  ASSUME StreamInv, Follows, UNCHANGED streamVars,
         NEW X, X \subseteq GoodEvents', unpublished' = unpublished \cup X
  PROVE  StreamInv'
<1>1. GoodEvents \subseteq GoodEvents'
  BY EventsStayGood
<1>2. Seq(GoodEvents) \subseteq Seq(GoodEvents')
  BY <1>1, SeqGrows
<1>3. QED
  BY <1>1, <1>2 DEF StreamInv, streamVars

\* A request is stored, by whichever operation.
Arrives(r, e) ==
  /\ r \in Request \ captured /\ Owner[r] = e /\ e \in Alive
  /\ captured' = captured \cup {r} /\ stored' = stored \cup {r}
  /\ unpublished' = unpublished \cup {Event("request", e, {r})}
  /\ UNCHANGED status

\* What an operation of the server leaves behind.
Served ==
  /\ ServerInv' /\ Follows
  /\ \E X : X \subseteq GoodEvents' /\ unpublished' = unpublished \cup X

LEMMA EventIsGood ==
  ASSUME NEW k \in {"request", "clear", "deleted"}, NEW e \in Endpoint,
         NEW S \in SUBSET captured', k = "clear" => S \cap stored' = {}
  PROVE  Event(k, e, S) \in GoodEvents'
<1>1. Event(k, e, S) \in Events'
  BY DEF Event, Events
<1>2. Event(k, e, S).kind = k /\ Event(k, e, S).requests = S
  BY DEF Event
<1>3. QED
  BY <1>1, <1>2 DEF GoodEvents

LEMMA ArrivalIsServed ==
  ASSUME ServerInv, NEW r, NEW e, Arrives(r, e)
  PROVE  Served
<1>1. e \in Endpoint /\ status[e] = "alive"
  BY DEF Arrives, Alive
<1>2. Event("request", e, {r}) \in GoodEvents'
  BY <1>1, EventIsGood DEF Arrives
<1>3. ServerInv'
  BY <1>1 DEF ServerInv, Arrives
<1>4. Follows
  BY DEF Follows, Arrives
<1>5. QED
  BY <1>2, <1>3, <1>4 DEF Served, Arrives

LEMMA ClearIsServed ==
  ASSUME ServerInv, NEW e \in Endpoint, ClearRows(e)
  PROVE  Served /\ Rows(e) \subseteq captured' /\ Rows(e) \cap stored' = {}
<1>1. Rows(e) \subseteq captured' /\ Rows(e) \cap stored' = {}
  BY DEF ServerInv, Rows, ClearRows
<1>2. Event("clear", e, Rows(e)) \in GoodEvents'
  BY <1>1, EventIsGood
<1>3. ServerInv' /\ Follows
  BY DEF ServerInv, ClearRows, Follows
<1>4. QED
  BY <1>1, <1>2, <1>3 DEF Served, ClearRows

LEMMA DeletionIsServed ==
  ASSUME ServerInv, NEW e \in Endpoint, DeleteRows(e)
  PROVE  Served
<1>1. Event("deleted", e, {}) \in GoodEvents'
  BY EventIsGood
<1>2. ServerInv' /\ Follows
  BY DEF ServerInv, DeleteRows, Follows, Rows
<1>3. QED
  BY <1>1, <1>2 DEF Served, DeleteRows

LEMMA NothingIsServed ==
  ASSUME ServerInv, UNCHANGED serverVars
  PROVE  Served
<1>1. ServerInv' /\ Follows
  BY DEF ServerInv, serverVars, Follows
<1>2. {} \subseteq GoodEvents' /\ unpublished' = unpublished \cup {}
  BY DEF serverVars
<1>3. QED
  BY <1>1, <1>2 DEF Served

LEMMA ServedKeeps ==
  ASSUME SessionInv, Served, UNCHANGED <<streamVars, active, recent, listVars, flags, gone>>
  PROVE  ServerInv' /\ StreamInv' /\ PageInv'
<1>1. ServerInv' /\ Follows
  BY DEF Served
<1>2. PageInv'
  BY <1>1, PageRests DEF SessionInv
<1>3. StreamInv'
  BY <1>1, StreamRests DEF SessionInv, Served
<1>4. QED
  BY <1>1, <1>2, <1>3

LEMMA ElsewhereKeeps ==
  ASSUME SessionInv, (\E r \in Request : Capture(r)) \/ (\E e \in Endpoint : Elsewhere(e))
  PROVE  SessionInv'
<1>1. /\ UNCHANGED <<streamVars, active, recent, listVars, flags, gone>>
      /\ UNCHANGED <<search, gone, call>>
  BY DEF Capture, Elsewhere, listVars
<1>2. Served
  <2>1. CASE \E r \in Request : Capture(r)
    <3>1. PICK r \in Request : Capture(r)
      BY <2>1
    <3>2. Arrives(r, Owner[r])
      BY <3>1 DEF Capture, Arrives
    <3>3. QED
      BY <3>2, ArrivalIsServed DEF SessionInv
  <2>2. CASE \E e \in Endpoint : Elsewhere(e)
    BY <2>2, ClearIsServed, DeletionIsServed DEF SessionInv, Elsewhere
  <2>3. QED
    BY <2>1, <2>2
<1>3. CallsInv'
  BY <1>1, <1>2, CallsRest DEF SessionInv, Served
<1>4. ServerInv' /\ StreamInv' /\ PageInv'
  BY <1>1, <1>2, ServedKeeps
<1>5. QED
  BY <1>3, <1>4 DEF SessionInv

\* What the page of an answer must be like, for a call of kind k about e.
Fits(k, e, s, p) ==
  /\ p \in [rows : SUBSET captured, next : 0..LastRequest]
  /\ k \in Versioned => \A r \in p.rows : Matches(r, s)
  /\ k \in Versioned \cup {"adopt", "replay"} => \A r \in p.rows : Owner[r] = e
  /\ k \in Versioned => p.rows \cap gone = {}
  /\ k = "clear" => p.rows \cap stored = {}

LEMMA AnsweredCallIsGood ==
  ASSUME Follows, UNCHANGED <<search, gone>>, NEW x \in GoodCalls,
         NEW a \in {"ok", "missing"}, NEW e \in Endpoint, NEW p,
         Fits(x.kind, e, x.search, p)'
  PROVE  [x EXCEPT !.reply = a, !.endpoint = e, !.page = p] \in GoodCalls'
<1> DEFINE y == [x EXCEPT !.reply = a, !.endpoint = e, !.page = p]
<1>1. x \in Calls' /\ x \in GoodCalls'
  BY CallStaysGood, CallsGrow DEF GoodCalls
<1>2. /\ y \in Calls' /\ y.kind = x.kind /\ y.known = x.known /\ y.search = x.search
      /\ y.fresh = x.fresh /\ y.endpoint = e /\ y.page = p
  BY <1>1 DEF Calls, Fits
<1> HIDE DEF y
<1>3. x.kind = "replay" => x.known # {}
  BY DEF GoodCalls
<1>4. x.kind \in Versioned /\ x.fresh => x.search = search'
  BY DEF GoodCalls
<1>5. y \in GoodCalls'
  BY <1>2, <1>3, <1>4 DEF GoodCalls, Fits
<1>6. QED
  BY <1>5 DEF y

LEMMA EmptyPageFits ==
  ASSUME NEW k, NEW e, NEW s
  PROVE  Fits(k, e, s, NoPage)'
BY SessionAssumption DEF Fits, NoPage

\* The kinds of answer the routes give.
LEMMA AnswerFits ==
  ASSUME SessionInv, NEW c \in Slot, Serve(c), NEW x, x = call[c]
  PROVE  /\ Served /\ UNCHANGED <<search, gone>>
         /\ x \in GoodCalls
         /\ \E a \in {"ok", "missing"} : \E e \in Endpoint : \E p :
              Reply(c, a, e, p) /\ Fits(x.kind, e, x.search, p)'
<1>2. /\ x \in GoodCalls /\ x \in Calls /\ x.kind \in Kind
      /\ x.kind \notin {"new", "make"} => x.endpoint \in Endpoint
  BY DEF SessionInv, CallsInv, Serve, NoCall, GoodCalls, Calls
<1>3. UNCHANGED <<search, gone>>
  BY DEF Serve, listVars
<1> DEFINE e == x.endpoint
           Answers == \E a \in {"ok", "missing"} : \E f \in Endpoint : \E p :
                        Reply(c, a, f, p) /\ Fits(x.kind, f, x.search, p)'
<1>4. ASSUME e \in Endpoint, UNCHANGED serverVars, Reply(c, "missing", e, NoPage) \/ Reply(c, "ok", e, NoPage)
      PROVE  Served /\ Answers
  BY <1>2, <1>4, NothingIsServed, EmptyPageFits DEF SessionInv
<1>5. ASSUME x.kind \in {"switch", "refresh", "older", "search", "adopt"},
             UNCHANGED serverVars, Reply(c, "ok", e, Page(e, x.search, x.cursor))
      PROVE  Served /\ Answers
  <2>1. stored \subseteq Request /\ stored \subseteq captured
    BY DEF SessionInv, ServerInv
  <2>2. PICK p : p = Page(e, x.search, x.cursor)
    OBVIOUS
  <2>3. /\ p \in [rows : SUBSET stored, next : 0..LastRequest]
        /\ \A r \in p.rows : Owner[r] = e /\ Matches(r, x.search)
    BY <2>1, <2>2, PageRows
  <2>4. p.rows \cap gone = {} /\ p \in [rows : SUBSET captured, next : 0..LastRequest]
    BY <2>1, <2>3 DEF SessionInv, PageInv
  <2>5. Fits(x.kind, e, x.search, p)'
    BY <1>3, <1>5, <2>3, <2>4 DEF Fits, serverVars, Matches
  <2>6. QED
    BY <1>2, <1>5, <2>2, <2>5, NothingIsServed DEF SessionInv
<1>6. ASSUME x.kind = "clear", e \in Alive, Reply(c, "ok", e, [NoPage EXCEPT !.rows = Rows(e)]),
             ClearRows(e)
      PROVE  Served /\ Answers
  <2>1. Served /\ Rows(e) \subseteq captured' /\ Rows(e) \cap stored' = {}
    BY <1>6, ClearIsServed DEF SessionInv, Alive
  <2>2. PICK p : p = [NoPage EXCEPT !.rows = Rows(e)]
    OBVIOUS
  <2>3. p \in [rows : SUBSET captured', next : 0..LastRequest] /\ p.rows = Rows(e)
    BY <2>1, <2>2, SessionAssumption DEF NoPage
  <2>4. Fits(x.kind, e, x.search, p)'
    BY <1>6, <2>1, <2>3 DEF Fits, Versioned
  <2>5. QED
    BY <1>2, <1>6, <2>1, <2>2, <2>4
<1>7. ASSUME x.kind = "delete", e \in Alive, Reply(c, "ok", e, NoPage), DeleteRows(e)
      PROVE  Served /\ Answers
  <2>1. Served
    BY <1>7, DeletionIsServed DEF SessionInv, Alive
  <2>2. QED
    BY <1>2, <1>7, <2>1, EmptyPageFits
<1>8. ASSUME x.kind = "replay", x.known \subseteq Rows(e), NEW r \in Request \ captured,
             Owner[r] = e, Reply(c, "ok", e, [NoPage EXCEPT !.rows = {r}]),
             captured' = captured \cup {r}, stored' = stored \cup {r},
             unpublished' = unpublished \cup {Event("request", e, {r})}, UNCHANGED status
      PROVE  Served /\ Answers
  <2>1. e \in Alive
    <3>1. PICK q \in x.known : q \in Rows(e)
      BY <1>2, <1>8 DEF GoodCalls
    <3>2. status[Owner[q]] = "alive" /\ Owner[q] = e
      BY <3>1 DEF Rows, SessionInv, ServerInv
    <3>3. e \in Endpoint
      BY <1>8, SessionAssumption
    <3>4. QED
      BY <3>2, <3>3 DEF Alive
  <2>2. Served
    BY <1>8, <2>1, ArrivalIsServed DEF Arrives, SessionInv
  <2>3. PICK p : p = [NoPage EXCEPT !.rows = {r}]
    OBVIOUS
  <2>4. p \in [rows : SUBSET captured', next : 0..LastRequest] /\ p.rows = {r}
    BY <1>8, <2>3, SessionAssumption DEF NoPage
  <2>5. Fits(x.kind, e, x.search, p)'
    BY <1>8, <2>4 DEF Fits, Versioned
  <2>6. QED
    BY <1>2, <1>8, <2>2, <2>3, <2>5
<1>9. ASSUME NEW new \in Endpoint, status' = [status EXCEPT ![new] = "alive"],
             Reply(c, "ok", new, NoPage), UNCHANGED <<captured, stored, unpublished>>
      PROVE  Served /\ Answers
  <2>1. Served
    <3>1. ServerInv' /\ Follows
      BY <1>9 DEF SessionInv, ServerInv, Follows
    <3>2. {} \subseteq GoodEvents' /\ unpublished' = unpublished \cup {}
      BY <1>9
    <3>3. QED
      BY <3>1, <3>2 DEF Served
  <2>2. QED
    BY <1>9, <2>1, EmptyPageFits
<1> HIDE DEF Answers
<1>10. Served /\ Answers
  <2>1. \/ /\ x.kind \notin {"new", "make"} /\ UNCHANGED serverVars
           /\ Reply(c, "missing", e, NoPage) \/ Reply(c, "ok", e, NoPage)
        \/ /\ x.kind \in {"switch", "refresh", "older", "search", "adopt"}
           /\ UNCHANGED serverVars /\ Reply(c, "ok", e, Page(e, x.search, x.cursor))
        \/ /\ x.kind = "clear" /\ e \in Alive /\ ClearRows(e)
           /\ Reply(c, "ok", e, [NoPage EXCEPT !.rows = Rows(e)])
        \/ x.kind = "delete" /\ e \in Alive /\ Reply(c, "ok", e, NoPage) /\ DeleteRows(e)
        \/ /\ x.kind = "replay" /\ x.known \subseteq Rows(e)
           /\ \E r \in Request \ captured :
                /\ Owner[r] = e
                /\ Reply(c, "ok", e, [NoPage EXCEPT !.rows = {r}])
                /\ captured' = captured \cup {r} /\ stored' = stored \cup {r}
                /\ unpublished' = unpublished \cup {Event("request", e, {r})}
                /\ UNCHANGED status
        \/ \E new \in Endpoint :
             /\ status' = [status EXCEPT ![new] = "alive"]
             /\ Reply(c, "ok", new, NoPage)
             /\ UNCHANGED <<captured, stored, unpublished>>
    BY DEF Serve
  <2>2. QED
    BY <1>2, <1>4, <1>5, <1>6, <1>7, <1>8, <1>9, <2>1
<1>11. QED
  BY <1>2, <1>3, <1>10 DEF Answers

LEMMA ServeKeeps ==
  ASSUME SessionInv, NEW c \in Slot, Serve(c)
  PROVE  SessionInv'
<1>1. PICK x : x = call[c]
  OBVIOUS
<1>2. Served /\ Follows /\ UNCHANGED <<search, gone>> /\ x \in GoodCalls
  BY <1>1, AnswerFits DEF Served
<1>3. PICK a, e, p : /\ a \in {"ok", "missing"} /\ e \in Endpoint
                     /\ Reply(c, a, e, p) /\ Fits(x.kind, e, x.search, p)'
  BY <1>1, AnswerFits
<1>4. [x EXCEPT !.reply = a, !.endpoint = e, !.page = p] \in GoodCalls'
  BY <1>1, <1>2, <1>3, AnsweredCallIsGood
<1>5. call' = [call EXCEPT ![c] = [x EXCEPT !.reply = a, !.endpoint = e, !.page = p]]
  BY <1>1, <1>3 DEF Reply, SessionInv, CallsInv
<1>6. CallsInv'
  BY <1>2, <1>4, <1>5, OneCallMoves DEF SessionInv
<1>7. UNCHANGED <<streamVars, active, recent, listVars, flags, gone>>
  BY DEF Serve
<1>8. QED
  BY <1>2, <1>6, <1>7, ServedKeeps DEF SessionInv

LEMMA PublishKeeps ==
  ASSUME SessionInv, NEW event \in unpublished, Publish(event)
  PROVE  SessionInv'
<1>1. UNCHANGED <<status, captured, stored>> /\ UNCHANGED <<search, gone, call>>
  BY DEF Publish, listVars
<1>2. Follows /\ ServerInv'
  BY <1>1 DEF Follows, SessionInv, ServerInv
<1>3. CallsInv'
  BY <1>1, <1>2, CallsRest DEF SessionInv
<1>4. PageInv'
  BY <1>2, PageRests DEF SessionInv, Publish
<1>5. GoodEvents \subseteq GoodEvents'
  BY <1>2, EventsStayGood
<1>6. StreamInv'
  <2>1. channel' \in Seq(GoodEvents)
    BY DEF Publish, SessionInv, StreamInv
  <2>2. channel' \in Seq(GoodEvents')
    BY <1>5, <2>1, SeqGrows
  <2>3. connected' \in BOOLEAN /\ unpublished' \subseteq GoodEvents' /\ subscription' \in SubscriptionType
    BY <1>5 DEF Publish, SessionInv, StreamInv
  <2>4. QED
    BY <2>2, <2>3 DEF StreamInv, SubscriptionType
<1>7. QED
  BY <1>2, <1>3, <1>4, <1>6 DEF SessionInv

-----------------------------------------------------------------------------
(* The user's steps. *)

LEMMA ServerRests ==
  ASSUME SessionInv, UNCHANGED serverVars
  PROVE  /\ ServerInv' /\ Follows /\ captured' = captured /\ stored' = stored
         /\ GoodEvents \subseteq GoodEvents' /\ unpublished' \subseteq GoodEvents'
<1>1. ServerInv' /\ Follows
  BY NothingIsServed DEF SessionInv, Served
<1>2. QED
  BY <1>1, EventsStayGood DEF SessionInv, StreamInv, serverVars

\* What the page's steps do to the stream.
Taken == channel # <<>> /\ channel' = Tail(channel)
StreamMove ==
  /\ connected' \in {connected, TRUE, FALSE}
  /\ channel' = channel \/ channel' = <<>> \/ Taken
  /\ \/ subscription' = subscription \/ Outdated
     \/ subscription' = [endpoint |-> active, recent |-> recent, current |-> TRUE]

LEMMA StreamMoves ==
  ASSUME SessionInv, UNCHANGED serverVars, StreamMove
  PROVE  StreamInv'
<1>1. GoodEvents \subseteq GoodEvents' /\ unpublished' \subseteq GoodEvents'
  BY ServerRests
<1>2. channel' \in Seq(GoodEvents')
  <2>1. channel \in Seq(GoodEvents)
    BY DEF SessionInv, StreamInv
  <2>2. channel' \in Seq(GoodEvents)
    <3>1. channel # <<>> => Tail(channel) \in Seq(GoodEvents)
      BY <2>1
    <3>2. <<>> \in Seq(GoodEvents)
      OBVIOUS
    <3>3. QED
      BY <2>1, <3>1, <3>2, Zenon DEF StreamMove, Taken
  <2>3. QED
    BY <1>1, <2>2, SeqGrows
<1>3. subscription' \in SubscriptionType
  <2>1. subscription \in SubscriptionType /\ active \in Endpoint \cup {None} /\ recent \in Id
    BY DEF SessionInv, StreamInv, PageInv
  <2>2. [subscription EXCEPT !.current = FALSE] \in SubscriptionType
    BY <2>1 DEF SubscriptionType
  <2>3. [endpoint |-> active, recent |-> recent, current |-> TRUE] \in SubscriptionType
    BY <2>1 DEF SubscriptionType
  <2>4. QED
    BY <2>1, <2>2, <2>3 DEF StreamMove, Outdated
<1>4. connected' \in BOOLEAN
  BY DEF StreamMove, SessionInv, StreamInv
<1>5. QED
  BY <1>1, <1>2, <1>3, <1>4 DEF StreamInv

\* What they must do to the page.
PageMove ==
  /\ active' \in Endpoint \cup {None} /\ recent' \in Id /\ IsInjective(recent')
  /\ list' \subseteq captured /\ cursor' \in 0..LastRequest /\ search' \in {"all", "some"}
  /\ \A r \in list' : Matches(r, search')
  /\ flags' \in FlagsType /\ replaying' \subseteq captured
  /\ gone' \subseteq captured /\ gone' \cap stored = {}

LEMMA PageMoves ==
  ASSUME SessionInv, UNCHANGED serverVars, PageMove
  PROVE  PageInv'
BY ServerRests DEF PageMove, PageInv, OnlyMatchingShown, Matches

LEMMA BrowserMoves ==
  ASSUME SessionInv, UNCHANGED serverVars, StreamMove, PageMove, CallsInv'
  PROVE  SessionInv'
BY ServerRests, StreamMoves, PageMoves DEF SessionInv

\* The page as it is.
LEMMA PageIsThere ==
  ASSUME SessionInv
  PROVE  /\ active \in Endpoint \cup {None} /\ recent \in Id /\ IsInjective(recent)
         /\ list \subseteq captured /\ cursor \in 0..LastRequest /\ search \in {"all", "some"}
         /\ \A r \in list : Matches(r, search)
         /\ flags \in FlagsType /\ replaying \subseteq captured
         /\ gone \subseteq captured /\ gone \cap stored = {}
BY DEF SessionInv, PageInv, OnlyMatchingShown

LEMMA Lists ==
  ASSUME NEW e \in Endpoint, NEW s \in Id
  PROVE  /\ Forget(e, s) \in Id /\ Remember(e, s) \in Id
         /\ IsInjective(s) => IsInjective(Forget(e, s)) /\ IsInjective(Remember(e, s))
<1>1. s \in Seq(Endpoint)
  BY DEF Id
<1>2. Forget(e, s) \in Id /\ (IsInjective(s) => IsInjective(Forget(e, s)))
  BY <1>1, Forgotten DEF Id
<1>3. Remember(e, s) \in Id
  BY <1>1 DEF Remember, Id
<1>4. IsInjective(s) => IsInjective(Remember(e, s))
  <2>1. CASE e \in ToSet(s)
    BY <2>1 DEF Remember
  <2>2. CASE e \notin ToSet(s)
    <3> DEFINE t == <<e>> \o s
    <3>1. /\ DOMAIN t = 1..(Len(s) + 1) /\ t[1] = e /\ Len(s) \in Nat
          /\ \A i \in 2..(Len(s) + 1) : t[i] = s[i - 1] /\ i - 1 \in DOMAIN s
      BY <1>1
    <3>2. \A i \in DOMAIN s : s[i] # e
      BY <2>2 DEF ToSet
    <3> HIDE DEF t
    <3>3. IsInjective(s) => IsInjective(t)
      <4> SUFFICES ASSUME IsInjective(s), NEW a \in DOMAIN t, NEW b \in DOMAIN t, t[a] = t[b]
                   PROVE  a = b
        BY DEF IsInjective
      <4>1. CASE a = 1 \/ b = 1
        BY <3>1, <3>2, <4>1
      <4>2. CASE a # 1 /\ b # 1
        <5>1. a \in 2..(Len(s) + 1) /\ b \in 2..(Len(s) + 1)
          BY <3>1, <4>2
        <5>2. s[a - 1] = s[b - 1] /\ a - 1 \in DOMAIN s /\ b - 1 \in DOMAIN s
          BY <3>1, <5>1
        <5>3. a - 1 = b - 1
          BY <5>2 DEF IsInjective
        <5>4. QED
          BY <5>1, <5>3
      <4>3. QED
        BY <4>1, <4>2
    <3>4. QED
      BY <2>2, <3>3 DEF Remember, t
  <2>3. QED
    BY <2>1, <2>2
<1>5. QED
  BY <1>2, <1>3, <1>4

LEMMA Defaults ==
  /\ {"switch", "new", "refresh", "older", "search", "clear", "delete", "replay", "probe",
      "adopt", "make"} \subseteq Kind
  /\ <<>> \in Id /\ 0 \in 0..LastRequest /\ {} \in SUBSET captured'
  /\ \A k \in {"new", "clear", "delete", "replay", "probe", "adopt", "make"} : k \notin Versioned
BY SessionAssumption DEF Kind, Id, Versioned

LEMMA SwitchKeeps ==
  ASSUME SessionInv, NEW c \in Slot, NEW e \in Endpoint, SwitchEndpoint(c, e)
  PROVE  SessionInv'
<1>1. UNCHANGED serverVars /\ Follows
  BY ServerRests DEF SwitchEndpoint
<1>2. StreamMove
  BY DEF SwitchEndpoint, StreamMove
<1>3. PageMove
  <2>1. recent' = Remember(e, recent) /\ recent' \in Id /\ IsInjective(recent')
    BY Lists, PageIsThere DEF SwitchEndpoint
  <2>2. flags' \in FlagsType
    BY PageIsThere DEF SwitchEndpoint, FlagsType
  <2>3. /\ active' = e /\ list' = {} /\ cursor' = 0 /\ search' = "all" /\ replaying' = {}
        /\ gone' = gone
    BY DEF SwitchEndpoint, Reset, EmptyList
  <2>4. QED
    BY <2>1, <2>2, <2>3, PageIsThere, SessionAssumption DEF PageMove
<1>4. CallsInv'
  <2>1. NewCall("switch", e) = CallOf("switch", e, {}, 0, "all", <<>>, FALSE) /\ search' = "all"
    BY DEF NewCall, CallOf, SwitchEndpoint, Reset
  <2>2. NewCall("switch", e) \in GoodCalls'
    BY <2>1, NewCallIsGood, Defaults
  <2>3. QED
    BY <1>1, <2>2, OneCallMovesOn DEF SwitchEndpoint, SessionInv
<1>5. QED
  BY <1>1, <1>2, <1>3, <1>4, BrowserMoves

LEMMA SearchKeeps ==
  ASSUME SessionInv, NEW c \in Slot, NEW s \in {"all", "some"}, SearchRequests(c, s)
  PROVE  SessionInv'
<1>1. UNCHANGED serverVars /\ Follows
  BY ServerRests DEF SearchRequests
<1>2. StreamMove
  BY DEF SearchRequests, StreamMove, streamVars
<1>3. PageMove
  <2>2. flags' \in FlagsType
    BY PageIsThere DEF SearchRequests, FlagsType
  <2>3. /\ active' = active /\ recent' = recent /\ list' = {} /\ cursor' = 0 /\ search' = s
        /\ replaying' = replaying /\ gone' = gone
    BY DEF SearchRequests, EmptyList
  <2>4. QED
    BY <2>2, <2>3, PageIsThere, SessionAssumption DEF PageMove
<1>4. CallsInv'
  <2>1. PICK x : x = [NewCall("search", active) EXCEPT !.search = s]
    OBVIOUS
  <2>2. x = CallOf("search", active, {}, 0, s, <<>>, FALSE) /\ search' = s
    BY <2>1 DEF NewCall, CallOf, SearchRequests
  <2>5. active \in Endpoint
    BY PageIsThere DEF SearchRequests, CanRefresh
  <2>3. x \in GoodCalls'
    BY <2>2, <2>5, NewCallIsGood, Defaults
  <2>4. QED
    BY <1>1, <2>1, <2>3, OneCallMovesOn DEF SearchRequests, SessionInv
<1>5. QED
  BY <1>1, <1>2, <1>3, <1>4, BrowserMoves

\* The calls that leave the list as it is.
LEMMA OtherCallKeeps ==
  ASSUME SessionInv, NEW c \in Slot,
         \/ StartNewEndpoint(c) \/ RefreshEndpoint(c) \/ LoadOlder(c) \/ ClearEndpoint(c)
         \/ \E e \in Endpoint : DeleteEndpoint(c, e)
         \/ \E r \in Request : ReplayRequest(c, r)
  PROVE  SessionInv'
<1>1. UNCHANGED serverVars /\ Follows /\ captured' = captured
  BY ServerRests
     DEF StartNewEndpoint, RefreshEndpoint, LoadOlder, ClearEndpoint, DeleteEndpoint, ReplayRequest
<1>2. UNCHANGED <<streamVars, active, recent, list, cursor, search, gone>>
  BY DEF StartNewEndpoint, RefreshEndpoint, LoadOlder, ClearEndpoint, DeleteEndpoint,
         ReplayRequest, listVars
<1>3. StreamMove
  BY <1>2 DEF StreamMove, streamVars
<1>4. flags' \in FlagsType
  <2>1. \/ flags' = flags
        \/ \E f \in {"loading", "older", "clearing", "deleting"} :
             flags' = [flags EXCEPT ![f] = TRUE]
    BY DEF StartNewEndpoint, RefreshEndpoint, LoadOlder, ClearEndpoint, DeleteEndpoint,
           ReplayRequest, Set
  <2>2. QED
    BY <2>1, PageIsThere DEF FlagsType
<1>5. replaying' \subseteq captured
  <2>1. CASE \E r \in Request : ReplayRequest(c, r)
    <3>1. PICK r : r \in list /\ replaying' = replaying \cup {r}
      BY <2>1 DEF ReplayRequest
    <3>2. QED
      BY <3>1, PageIsThere
  <2>2. CASE ~\E r \in Request : ReplayRequest(c, r)
    <3>1. replaying' = replaying
      BY <2>2 DEF StartNewEndpoint, RefreshEndpoint, LoadOlder, ClearEndpoint, DeleteEndpoint, listVars
    <3>2. QED
      BY <3>1, PageIsThere
  <2>3. QED
    BY <2>1, <2>2
<1>6. PageMove
  BY <1>2, <1>4, <1>5, PageIsThere DEF PageMove
<1>7. PICK x : x \in GoodCalls' /\ call' = [call EXCEPT ![c] = x]
  <2>1. CASE StartNewEndpoint(c)
    <3>1. PICK x : x = NewCall("new", None)
      OBVIOUS
    <3>2. x = CallOf("new", None, {}, 0, "all", <<>>, FALSE)
      BY <3>1 DEF NewCall, CallOf
    <3>3. x \in GoodCalls'
      BY <1>1, <1>2, <3>2, NewCallIsGood, PageIsThere, Defaults
    <3>4. QED
      BY <2>1, <3>1, <3>3 DEF StartNewEndpoint, Begin
  <2>2. CASE RefreshEndpoint(c)
    <3>0. active \in Endpoint
      BY <2>2, PageIsThere DEF RefreshEndpoint, CanRefresh
    <3>1. PICK x : x = [NewCall("refresh", active) EXCEPT !.known = list, !.search = search]
      OBVIOUS
    <3>2. x = CallOf("refresh", active, list, 0, search, <<>>, FALSE)
      BY <3>1 DEF NewCall, CallOf
    <3>3. x \in GoodCalls'
      BY <1>1, <1>2, <3>0, <3>2, NewCallIsGood, PageIsThere, Defaults
    <3>4. QED
      BY <2>2, <3>1, <3>3 DEF RefreshEndpoint, Begin
  <2>3. CASE LoadOlder(c)
    <3>0. active \in Endpoint
      BY <2>3, PageIsThere DEF LoadOlder
    <3>1. PICK x : x = [NewCall("older", active) EXCEPT !.cursor = cursor, !.search = search]
      OBVIOUS
    <3>2. x = CallOf("older", active, {}, cursor, search, <<>>, FALSE)
      BY <3>1 DEF NewCall, CallOf
    <3>3. x \in GoodCalls'
      BY <1>1, <1>2, <3>0, <3>2, NewCallIsGood, PageIsThere, Defaults
    <3>4. QED
      BY <2>3, <3>1, <3>3 DEF LoadOlder, Begin
  <2>4. CASE ClearEndpoint(c)
    <3>0. active \in Endpoint
      BY <2>4, PageIsThere DEF ClearEndpoint, CanRefresh
    <3>1. PICK x : x = NewCall("clear", active)
      OBVIOUS
    <3>2. x = CallOf("clear", active, {}, 0, "all", <<>>, FALSE)
      BY <3>1 DEF NewCall, CallOf
    <3>3. x \in GoodCalls'
      BY <1>1, <1>2, <3>0, <3>2, NewCallIsGood, PageIsThere, Defaults
    <3>4. QED
      BY <2>4, <3>1, <3>3 DEF ClearEndpoint, Begin
  <2>5. CASE \E e \in Endpoint : DeleteEndpoint(c, e)
    <3>1. PICK e \in Endpoint : DeleteEndpoint(c, e)
      BY <2>5
    <3>2. PICK t : t = Forget(e, recent)
      OBVIOUS
    <3>3. PICK x : x = [NewCall("delete", e) EXCEPT !.todo = t, !.deleting = TRUE]
      OBVIOUS
    <3>4. x = CallOf("delete", e, {}, 0, "all", t, TRUE) /\ t \in Id
      BY <3>2, <3>3, Lists, PageIsThere DEF NewCall, CallOf
    <3>5. x \in GoodCalls'
      BY <3>4, NewCallIsGood, Defaults
    <3>6. QED
      BY <3>1, <3>2, <3>3, <3>5 DEF DeleteEndpoint, Begin
  <2>6. CASE \E r \in Request : ReplayRequest(c, r)
    <3>1. PICK r \in Request : ReplayRequest(c, r)
      BY <2>6
    <3>2. PICK x : x = [NewCall("replay", active) EXCEPT !.known = {r}]
      OBVIOUS
    <3>3. x = CallOf("replay", active, {r}, 0, "all", <<>>, FALSE)
      BY <3>2 DEF NewCall, CallOf
    <3>4. {r} \in SUBSET captured'
      BY <1>1, <3>1, PageIsThere DEF ReplayRequest
    <3>7. active \in Endpoint
      BY <3>1, PageIsThere DEF ReplayRequest
    <3>5. x \in GoodCalls'
      BY <3>3, <3>4, <3>7, NewCallIsGood, PageIsThere, Defaults
    <3>6. QED
      BY <3>1, <3>2, <3>5 DEF ReplayRequest, Begin
  <2>7. QED
    BY <2>1, <2>2, <2>3, <2>4, <2>5, <2>6
<1>8. CallsInv'
  BY <1>1, <1>2, <1>7, OneCallMoves DEF SessionInv
<1>9. QED
  BY <1>1, <1>3, <1>6, <1>8, BrowserMoves

-----------------------------------------------------------------------------
(* The stream's steps. *)

\* The stream's steps that leave page and calls alone.
LEMMA ConnectionKeeps ==
  ASSUME SessionInv, Connect \/ Break \/ Resubscribe
  PROVE  SessionInv'
<1>1. UNCHANGED <<serverVars, active, recent, listVars, flags, call, gone>>
  BY DEF Connect, Break, Resubscribe
<1>2. Follows
  BY <1>1, ServerRests
<1>3. StreamMove
  BY DEF Connect, Break, Resubscribe, StreamMove
<1>4. CallsInv'
  BY <1>1, <1>2, CallsRest DEF SessionInv, listVars
<1>5. PageMove
  BY <1>1, PageIsThere DEF PageMove, listVars
<1>6. QED
  BY <1>1, <1>3, <1>4, <1>5, BrowserMoves

LEMMA HeadIsGood ==
  ASSUME SessionInv, channel # <<>>
  PROVE  /\ Head(channel).requests \subseteq captured /\ Head(channel).endpoint \in Endpoint
         /\ Head(channel).kind = "clear" => Head(channel).requests \cap stored = {}
<1>1. Head(channel) \in GoodEvents
  BY DEF SessionInv, StreamInv
<1>2. QED
  BY <1>1 DEF GoodEvents, Events

LEMMA OnRequestKeeps ==
  ASSUME SessionInv, OnRequest
  PROVE  SessionInv'
<1>1. /\ UNCHANGED <<serverVars, connected, subscription, active, recent, cursor, search,
                     replaying, flags, call, gone>>
      /\ channel # <<>> /\ channel' = Tail(channel)
  BY DEF OnRequest, TakeEvent
<1>2. \/ list' = list
      \/ \E r \in Head(channel).requests : Matches(r, search) /\ list' = list \cup {r}
  BY DEF OnRequest, Merge
<1>3. Follows
  BY <1>1, ServerRests
<1>4. StreamMove
  BY <1>1 DEF StreamMove, Taken
<1>5. CallsInv'
  BY <1>1, <1>3, CallsRest DEF SessionInv
<1>6. PageMove
  <2>1. list' \subseteq captured /\ \A r \in list' : Matches(r, search)
    BY <1>1, <1>2, PageIsThere, HeadIsGood
  <2>2. QED
    BY <1>1, <2>1, PageIsThere DEF PageMove
<1>7. QED
  BY <1>1, <1>4, <1>5, <1>6, BrowserMoves

LEMMA OnClearKeeps ==
  ASSUME SessionInv, OnClear
  PROVE  SessionInv'
<1>1. /\ UNCHANGED <<serverVars, connected, subscription, active, recent, search, replaying>>
      /\ channel # <<>> /\ channel' = Tail(channel) /\ Head(channel).kind = "clear"
      /\ call' = Bumped(call) /\ list' = {} /\ cursor' = 0
      /\ flags' = [flags EXCEPT !.older = FALSE]
      /\ gone' = gone \cup Head(channel).requests
  BY DEF OnClear, TakeEvent, EmptyList, Set
<1>2. Follows
  BY <1>1, ServerRests
<1>3. StreamMove
  BY <1>1 DEF StreamMove, Taken
<1>4. CallsInv'
  BY <1>1, <1>2, BumpedStaysGood DEF SessionInv, CallsInv
<1>5. PageMove
  <2>1. flags' \in FlagsType
    BY <1>1, PageIsThere DEF FlagsType
  <2>2. gone' \subseteq captured /\ gone' \cap stored = {}
    BY <1>1, PageIsThere, HeadIsGood
  <2>3. QED
    BY <1>1, <2>1, <2>2, PageIsThere, Defaults DEF PageMove
<1>6. QED
  BY <1>1, <1>3, <1>4, <1>5, BrowserMoves

LEMMA CandidateIsGood ==
  ASSUME SessionInv, captured' = captured, NEW todo \in Id, NEW d \in BOOLEAN
  PROVE  NextCandidate(todo, d) \in GoodCalls'
<1>1. CASE todo = <<>>
  <2>1. NextCandidate(todo, d) = CallOf("make", None, {}, 0, "all", <<>>, d)
    BY <1>1 DEF NextCandidate, NewCall, CallOf
  <2>2. CallOf("make", None, {}, 0, "all", <<>>, d) \in GoodCalls'
    BY NewCallIsGood, Defaults
  <2>3. QED
    BY <2>1, <2>2
<1>2. CASE todo # <<>>
  <2>1. NextCandidate(todo, d) = CallOf("probe", Head(todo), {}, 0, "all", Tail(todo), d)
    BY <1>2 DEF NextCandidate, NewCall, CallOf
  <2>2. Head(todo) \in Endpoint /\ Tail(todo) \in Id
    BY <1>2 DEF Id
  <2>3. CallOf("probe", Head(todo), {}, 0, "all", Tail(todo), d) \in GoodCalls'
    BY <2>2, NewCallIsGood, Defaults
  <2>4. QED
    BY <2>1, <2>3
<1>3. QED
  BY <1>1, <1>2

LEMMA ReplacementBegins ==
  ASSUME SessionInv, UNCHANGED <<serverVars, connected, gone>>, channel' = channel \/ Taken,
         NEW c \in Slot, NEW e \in Endpoint, NEW todo \in Id, NEW d \in BOOLEAN,
         BeginReplacement(c, e, todo, d)
  PROVE  SessionInv'
<1>1. recent' = Forget(e, recent) /\ Outdated
  BY DEF BeginReplacement
<1>2. Follows /\ captured' = captured
  BY ServerRests
<1>3. StreamMove
  BY <1>1 DEF StreamMove
<1>4. recent' \in Id /\ IsInjective(recent')
  BY <1>1, Lists, PageIsThere
<1>5. CASE active = e
  <2>1. /\ active' = None /\ list' = {} /\ cursor' = 0 /\ search' = "all" /\ replaying' = {}
        /\ call' = [Bumped(call) EXCEPT ![c] = NextCandidate(todo, d)]
        /\ flags' = [flags EXCEPT !.loading = TRUE, !.older = FALSE]
    BY <1>5 DEF BeginReplacement, Reset, EmptyList
  <2>2. CallsInv'
    BY <1>2, <2>1, CandidateIsGood, OneCallMovesOn DEF SessionInv
  <2>3. flags' \in FlagsType
    BY <2>1, PageIsThere DEF FlagsType
  <2>4. PageMove
    BY <1>4, <2>1, <2>3, PageIsThere, Defaults DEF PageMove
  <2>5. QED
    BY <1>3, <2>2, <2>4, BrowserMoves
<1>6. CASE active # e
  <2>1. /\ UNCHANGED <<active, listVars>>
        /\ call' = [call EXCEPT ![c] = NoCall]
        /\ flags' = [flags EXCEPT !.deleting = @ /\ ~d]
    BY <1>6 DEF BeginReplacement
  <2>2. CallsInv'
    BY <1>2, <2>1, OneCallMoves DEF SessionInv, listVars
  <2>3. flags' \in FlagsType
    BY <2>1, PageIsThere DEF FlagsType
  <2>4. PageMove
    BY <1>4, <2>1, <2>3, PageIsThere DEF PageMove, listVars
  <2>5. QED
    BY <1>3, <2>2, <2>4, BrowserMoves
<1>7. QED
  BY <1>5, <1>6

LEMMA OnDeletedKeeps ==
  ASSUME SessionInv, NEW c \in Slot, OnDeleted(c)
  PROVE  SessionInv'
<1>1. PICK e, t : e = Head(channel).endpoint /\ t = Forget(Head(channel).endpoint, subscription.recent)
  OBVIOUS
<1>2. channel # <<>> /\ Taken
  BY DEF OnDeleted, TakeEvent, Taken
<1>3. e \in Endpoint
  BY <1>1, <1>2, HeadIsGood
<1>4. subscription.recent \in Id
  BY DEF SessionInv, StreamInv, SubscriptionType
<1>5. t \in Id
  BY <1>1, <1>3, <1>4, Lists
<1>6. BeginReplacement(c, e, t, FALSE) /\ UNCHANGED <<serverVars, connected, gone>>
  BY <1>1 DEF OnDeleted
<1>7. QED
  BY <1>2, <1>3, <1>5, <1>6, ReplacementBegins

-----------------------------------------------------------------------------
(* Answers. *)

\* The record of a call in flight.
LEMMA CallInFlight ==
  ASSUME SessionInv, NEW c \in Slot, call[c].kind \in Kind
  PROVE  call[c] \in GoodCalls
<1>1. "none" \notin Kind
  BY DEF Kind
<1>2. QED
  BY <1>1 DEF SessionInv, CallsInv, NoCall

\* What a call tells of its page once it has been answered.
LEMMA PageOfCall ==
  ASSUME SessionInv, NEW x \in GoodCalls
  PROVE  /\ x.page.rows \subseteq captured /\ x.page.next \in 0..LastRequest
         /\ x.endpoint \in Endpoint \cup {None} /\ x.todo \in Id /\ x.deleting \in BOOLEAN
         /\ x.kind \in Versioned /\ x.fresh => \A r \in x.page.rows : Matches(r, search)
         /\ x.kind \notin {"new", "make"} \/ x.reply = "ok" => x.endpoint \in Endpoint
         /\ x.kind = "clear" => x.page.rows \cap stored = {}
<1>1. x \in Calls
  BY DEF GoodCalls
<1>2. QED
  BY <1>1, CallRecord DEF GoodCalls

\* Answers with a page, and those without an effect: the call ends, the list takes
\* requests that match.
LEMMA AnswerKeeps ==
  ASSUME SessionInv, NEW c \in Slot,
         \/ AnswerSwitch(c) \/ AnswerRefresh(c) \/ AnswerOlder(c) \/ AnswerSearch(c)
         \/ AnswerReplay(c)
  PROVE  SessionInv'
<1>1. /\ UNCHANGED <<serverVars, streamVars, active, recent, search, gone>>
      /\ call' = [call EXCEPT ![c] = NoCall]
      /\ call[c].kind \in {"switch", "refresh", "older", "search", "replay"}
  BY DEF AnswerSwitch, AnswerRefresh, AnswerOlder, AnswerSearch, AnswerReplay, End, Is
<1>2. PICK x : x = call[c]
  OBVIOUS
<1>3. x \in GoodCalls
  BY <1>1, <1>2, CallInFlight DEF Kind
<1>4. \/ list' = list /\ cursor' = cursor
      \/ /\ x.kind \in Versioned /\ x.fresh
         /\ list' \subseteq list \cup x.page.rows /\ cursor' = x.page.next
      \/ \E r \in x.page.rows : Matches(r, search) /\ list' = list \cup {r} /\ cursor' = cursor
  BY <1>1, <1>2
     DEF AnswerSwitch, AnswerRefresh, AnswerOlder, AnswerSearch, AnswerReplay, ApplyLoaded,
         Reconciled, Merge, Versioned, Is
<1>5. list' \subseteq captured /\ cursor' \in 0..LastRequest /\ \A r \in list' : Matches(r, search)
  BY <1>3, <1>4, PageOfCall, PageIsThere
<1>6. replaying' \subseteq captured
  <2>1. replaying' \subseteq replaying
    BY DEF AnswerSwitch, AnswerRefresh, AnswerOlder, AnswerSearch, AnswerReplay
  <2>2. QED
    BY <2>1, PageIsThere
<1>7. flags' \in FlagsType
  <2>1. \/ flags' = flags
        \/ \E f \in {"loading", "older"} : \E b \in BOOLEAN : flags' = [flags EXCEPT ![f] = b]
    <3>1. CASE AnswerSearch(c)
      <4>1. PICK b : b = (flags.loading /\ ~(call[c].fresh /\ active = call[c].endpoint))
        OBVIOUS
      <4>2. b \in BOOLEAN
        BY <4>1
      <4>3. flags' = [flags EXCEPT !["loading"] = b]
        BY <3>1, <4>1 DEF AnswerSearch, Set
      <4>4. QED
        BY <4>2, <4>3
    <3>2. CASE ~AnswerSearch(c)
      BY <3>2 DEF AnswerSwitch, AnswerRefresh, AnswerOlder, AnswerReplay, Set
    <3>3. QED
      BY <3>1, <3>2
  <2>2. QED
    BY <2>1, PageIsThere DEF FlagsType
<1>8. PageMove
  BY <1>1, <1>5, <1>6, <1>7, PageIsThere DEF PageMove
<1>9. Follows
  BY <1>1, ServerRests
<1>10. CallsInv'
  BY <1>1, <1>9, OneCallMoves DEF SessionInv
<1>11. StreamMove
  BY <1>1 DEF StreamMove, streamVars
<1>12. QED
  BY <1>1, <1>8, <1>10, <1>11, BrowserMoves

LEMMA AnswerClearKeeps ==
  ASSUME SessionInv, NEW c \in Slot, AnswerClear(c)
  PROVE  SessionInv'
<1>1. /\ UNCHANGED <<serverVars, streamVars, active, recent, search, replaying>>
      /\ call[c].kind = "clear"
  BY DEF AnswerClear, Is
<1>2. Follows /\ StreamMove
  BY <1>1, ServerRests DEF StreamMove, streamVars
<1>3. PICK x : x = call[c]
  OBVIOUS
<1>4. x \in GoodCalls /\ x.kind = "clear"
  BY <1>1, <1>3, CallInFlight DEF Kind
<1>5. CASE /\ call' = [Bumped(call) EXCEPT ![c] = NoCall] /\ EmptyList
           /\ flags' = [flags EXCEPT !.clearing = FALSE, !.older = FALSE]
           /\ gone' = gone \cup x.page.rows
  <2>1. flags' \in FlagsType
    BY <1>5, PageIsThere DEF FlagsType
  <2>2. gone' \subseteq captured /\ gone' \cap stored = {}
    BY <1>4, <1>5, PageIsThere, PageOfCall
  <2>3. PageMove
    BY <1>1, <1>5, <2>1, <2>2, PageIsThere, Defaults DEF PageMove, EmptyList
  <2>4. CallsInv'
    BY <1>2, <1>5, OneCallMovesOn DEF SessionInv
  <2>5. QED
    BY <1>1, <1>2, <2>3, <2>4, BrowserMoves
<1>6. CASE End(c) /\ Set("clearing", FALSE) /\ UNCHANGED <<list, cursor, gone>>
  <2>1. flags' \in FlagsType
    BY <1>6, PageIsThere DEF FlagsType, Set
  <2>2. PageMove
    BY <1>1, <1>6, <2>1, PageIsThere DEF PageMove
  <2>3. CallsInv'
    BY <1>1, <1>2, <1>6, OneCallMoves DEF SessionInv, End
  <2>4. QED
    BY <1>1, <1>2, <2>2, <2>3, BrowserMoves
<1>7. QED
  BY <1>3, <1>5, <1>6 DEF AnswerClear

\* A flow ends: with an endpoint and its list, or as it began.
LEMMA FlowEndKeeps ==
  ASSUME SessionInv, NEW c \in Slot, UNCHANGED <<serverVars, connected, channel, gone>>,
         NEW b \in BOOLEAN, NEW o \in BOOLEAN, EndReplacement(c, Bumped(call), b, o), Outdated,
         active' \in Endpoint \cup {None}, recent' \in Id, IsInjective(recent'),
         list' \subseteq captured, cursor' \in 0..LastRequest, search' = "all", replaying' = {}
  PROVE  SessionInv'
<1>1. Follows /\ StreamMove
  BY ServerRests DEF StreamMove
<1>2. flags' \in FlagsType
  <2>1. PICK d : d = (flags.deleting /\ ~call[c].deleting)
    OBVIOUS
  <2>2. d \in BOOLEAN
    BY <2>1
  <2>3. flags' = [flags EXCEPT !.loading = b, !.older = o, !.deleting = d]
    BY <2>1, PageIsThere DEF EndReplacement, FlagsType
  <2>4. QED
    BY <2>2, <2>3, PageIsThere DEF FlagsType
<1>3. PageMove
  BY <1>2, PageIsThere DEF PageMove, Matches
<1>4. CallsInv'
  BY <1>1, OneCallMovesOn DEF SessionInv, EndReplacement
<1>5. QED
  BY <1>1, <1>3, <1>4, BrowserMoves

LEMMA GiveUpKeeps ==
  ASSUME SessionInv, NEW c \in Slot, UNCHANGED <<serverVars, connected, channel, gone>>, GiveUp(c)
  PROVE  SessionInv'
<1>1. UNCHANGED <<active, listVars, subscription, recent>> /\ call' = [call EXCEPT ![c] = NoCall]
  BY DEF GiveUp, EndReplacement
<1>2. Follows /\ StreamMove
  BY <1>1, ServerRests DEF StreamMove
<1>3. flags' \in FlagsType
  <2>1. PICK b, d : /\ b = (flags.loading /\ active # None)
                    /\ d = (flags.deleting /\ ~call[c].deleting)
    OBVIOUS
  <2>2. b \in BOOLEAN /\ d \in BOOLEAN
    BY <2>1
  <2>3. flags' = [flags EXCEPT !.loading = b, !.older = flags.older, !.deleting = d]
    BY <2>1, PageIsThere DEF GiveUp, EndReplacement, FlagsType
  <2>4. QED
    BY <2>2, <2>3, PageIsThere DEF FlagsType
<1>4. PageMove
  BY <1>1, <1>3, PageIsThere DEF PageMove, listVars
<1>5. CallsInv'
  BY <1>1, <1>2, OneCallMoves DEF SessionInv, listVars
<1>6. QED
  BY <1>2, <1>4, <1>5, BrowserMoves

LEMMA AnswerProbeKeeps ==
  ASSUME SessionInv, NEW c \in Slot, AnswerProbe(c)
  PROVE  SessionInv'
<1>1. UNCHANGED <<serverVars, connected, channel, gone>> /\ call[c].kind = "probe"
  BY DEF AnswerProbe, Is
<1>2. PICK x : x = call[c]
  OBVIOUS
<1>3. x \in GoodCalls
  BY <1>1, <1>2, CallInFlight DEF Kind
<1>4. x.endpoint \in Endpoint /\ x.todo \in Id /\ x.deleting \in BOOLEAN
  BY <1>1, <1>2, <1>3, PageOfCall
<1>5. Follows /\ captured' = captured
  BY <1>1, ServerRests
<1>6. CASE x.reply = "ok" /\ UNCHANGED <<active, recent, listVars, flags, subscription>>
           /\ call' = [call EXCEPT ![c] = [NewCall("adopt", x.endpoint) EXCEPT
                                              !.todo = x.todo, !.deleting = x.deleting]]
  <2>1. PICK y : y = [NewCall("adopt", x.endpoint) EXCEPT !.todo = x.todo, !.deleting = x.deleting]
    OBVIOUS
  <2>2. y = CallOf("adopt", x.endpoint, {}, 0, "all", x.todo, x.deleting)
    BY <2>1 DEF NewCall, CallOf
  <2>3. CallOf("adopt", x.endpoint, {}, 0, "all", x.todo, x.deleting) \in GoodCalls'
    BY <1>4, NewCallIsGood, Defaults
  <2>4. CallsInv'
    BY <1>1, <1>5, <1>6, <2>1, <2>2, <2>3, OneCallMoves DEF SessionInv, listVars
  <2>5. PageMove
    BY <1>1, <1>6, PageIsThere DEF PageMove, listVars
  <2>6. StreamMove
    BY <1>1, <1>6 DEF StreamMove
  <2>7. QED
    BY <1>1, <2>4, <2>5, <2>6, BrowserMoves
<1>7. CASE /\ x.reply = "missing" /\ recent' = Forget(x.endpoint, recent) /\ Outdated
           /\ call' = [call EXCEPT ![c] = NextCandidate(x.todo, x.deleting)]
           /\ UNCHANGED <<active, listVars, flags>>
  <2>1. recent' \in Id /\ IsInjective(recent')
    BY <1>4, <1>7, PageIsThere, Lists
  <2>2. NextCandidate(x.todo, x.deleting) \in GoodCalls'
    BY <1>4, <1>5, CandidateIsGood
  <2>3. CallsInv'
    BY <1>1, <1>5, <1>7, <2>2, OneCallMoves DEF SessionInv, listVars
  <2>4. PageMove
    BY <1>1, <1>7, <2>1, PageIsThere DEF PageMove, listVars
  <2>5. StreamMove
    BY <1>1, <1>7 DEF StreamMove
  <2>6. QED
    BY <1>1, <2>3, <2>4, <2>5, BrowserMoves
<1>8. CASE GiveUp(c)
  BY <1>1, <1>8, GiveUpKeeps
<1>9. QED
  BY <1>2, <1>6, <1>7, <1>8 DEF AnswerProbe

\* A new endpoint is applied.
LEMMA ApplyNewKeeps ==
  ASSUME SessionInv, NEW c \in Slot, UNCHANGED <<serverVars, connected, channel, gone>>,
         ApplyNew(c), call[c].endpoint \in Endpoint
  PROVE  SessionInv'
<1>1. PICK e \in Endpoint : e = call[c].endpoint
  OBVIOUS
<1>2. recent' \in Id /\ IsInjective(recent')
  BY <1>1, PageIsThere, Lists DEF ApplyNew
<1>3. /\ active' = e /\ list' = {} /\ cursor' = 0 /\ search' = "all" /\ replaying' = {}
      /\ EndReplacement(c, Bumped(call), FALSE, FALSE) /\ Outdated
  BY <1>1 DEF ApplyNew, Reset, EmptyList
<1>4. QED
  BY <1>2, <1>3, Defaults, FlowEndKeeps

LEMMA AnswerAdoptKeeps ==
  ASSUME SessionInv, NEW c \in Slot, AnswerAdopt(c)
  PROVE  SessionInv'
<1>1. UNCHANGED <<serverVars, connected, channel, recent, gone>> /\ call[c].kind = "adopt"
  BY DEF AnswerAdopt, Is
<1>2. PICK x : x = call[c]
  OBVIOUS
<1>3. x \in GoodCalls
  BY <1>1, <1>2, CallInFlight DEF Kind
<1>4. CASE \E rows, next : /\ Adopt(c, rows, next)
                           /\ rows \subseteq captured /\ next \in 0..LastRequest
  <2>1. PICK rows, next : /\ Adopt(c, rows, next)
                          /\ rows \subseteq captured /\ next \in 0..LastRequest
    BY <1>4
  <2>2. /\ active' = x.endpoint /\ Outdated /\ list' = rows /\ cursor' = next /\ search' = "all"
        /\ replaying' = {} /\ EndReplacement(c, Bumped(call), FALSE, FALSE)
    BY <1>2, <2>1 DEF Adopt
  <2>3. active' \in Endpoint \cup {None} /\ recent' \in Id /\ IsInjective(recent')
    BY <1>1, <1>3, <2>2, PageOfCall, PageIsThere
  <2>4. QED
    BY <1>1, <2>1, <2>2, <2>3, FlowEndKeeps
<1>5. CASE GiveUp(c)
  BY <1>1, <1>5, GiveUpKeeps
<1>6. x.page.rows \subseteq captured /\ x.page.next \in 0..LastRequest
  BY <1>3, PageOfCall
<1>7. QED
  BY <1>2, <1>4, <1>5, <1>6, Defaults DEF AnswerAdopt

LEMMA AnswerNewKeeps ==
  ASSUME SessionInv, NEW c \in Slot, AnswerNew(c) \/ AnswerMake(c)
  PROVE  SessionInv'
<1>1. UNCHANGED <<serverVars, connected, channel, gone>> /\ call[c].kind \in {"new", "make"}
  BY DEF AnswerNew, AnswerMake, Is
<1>2. PICK x : x = call[c]
  OBVIOUS
<1>3. x \in GoodCalls
  BY <1>1, <1>2, CallInFlight DEF Kind
<1>4. CASE x.reply = "ok" /\ ApplyNew(c)
  <2>1. call[c].endpoint \in Endpoint
    BY <1>2, <1>3, <1>4, PageOfCall
  <2>2. QED
    BY <1>1, <1>4, <2>1, ApplyNewKeeps
<1>5. CASE GiveUp(c)
  BY <1>1, <1>5, GiveUpKeeps
<1>6. CASE End(c) /\ Set("loading", FALSE) /\ UNCHANGED <<active, recent, listVars, subscription>>
  <2>1. Follows /\ StreamMove
    BY <1>1, <1>6, ServerRests DEF StreamMove
  <2>2. flags' \in FlagsType
    BY <1>6, PageIsThere DEF FlagsType, Set
  <2>3. PageMove
    BY <1>1, <1>6, <2>2, PageIsThere DEF PageMove, listVars
  <2>4. CallsInv'
    BY <1>1, <1>6, <2>1, OneCallMoves DEF SessionInv, End, listVars
  <2>5. QED
    BY <1>1, <2>1, <2>3, <2>4, BrowserMoves
<1>7. QED
  BY <1>2, <1>4, <1>5, <1>6 DEF AnswerNew, AnswerMake

LEMMA AnswerDeleteKeeps ==
  ASSUME SessionInv, NEW c \in Slot, AnswerDelete(c)
  PROVE  SessionInv'
<1>1. UNCHANGED <<serverVars, connected, channel, gone>> /\ call[c].kind = "delete"
  BY DEF AnswerDelete, Is
<1>2. PICK x : x = call[c]
  OBVIOUS
<1>3. x \in GoodCalls /\ x.endpoint \in Endpoint /\ x.todo \in Id
  BY <1>1, <1>2, CallInFlight, PageOfCall DEF Kind
<1>4. CASE BeginReplacement(c, x.endpoint, x.todo, TRUE)
  BY <1>1, <1>3, <1>4, ReplacementBegins
<1>5. CASE End(c) /\ Set("deleting", FALSE) /\ UNCHANGED <<active, recent, listVars, subscription>>
  <2>1. Follows /\ StreamMove
    BY <1>1, <1>5, ServerRests DEF StreamMove
  <2>2. flags' \in FlagsType
    BY <1>5, PageIsThere DEF FlagsType, Set
  <2>3. PageMove
    BY <1>1, <1>5, <2>2, PageIsThere DEF PageMove, listVars
  <2>4. CallsInv'
    BY <1>1, <1>5, <2>1, OneCallMoves DEF SessionInv, End, listVars
  <2>5. QED
    BY <1>1, <2>1, <2>3, <2>4, BrowserMoves
<1>6. QED
  BY <1>2, <1>4, <1>5 DEF AnswerDelete

LEMMA InitialSession ==
  ASSUME Init
  PROVE  SessionInv
<1>1. active \in Endpoint
  BY DEF Init
<1>2. recent \in Id /\ IsInjective(recent)
  <2>1. PICK n \in 1..Cardinality(Endpoint) : recent \in [1..n -> Endpoint] /\ IsInjective(recent)
    BY DEF Init
  <2>2. n \in Nat
    OBVIOUS
  <2>3. QED
    BY <2>1, <2>2 DEF Id
<1>3. ServerInv
  <2>1. status \in [Endpoint -> {"unborn", "alive", "deleted"}]
    BY DEF Init
  <2>2. captured = {r \in History : Owner[r] \in Alive} /\ stored = captured
    BY DEF Init
  <2>3. captured \in SUBSET Request
    BY <2>2, SessionAssumption
  <2>4. \A r \in captured : status[Owner[r]] = "alive"
    BY <2>2 DEF Alive
  <2>5. QED
    BY <2>1, <2>2, <2>3, <2>4 DEF ServerInv
<1>4. StreamInv
  <2>1. /\ unpublished = {} /\ connected = FALSE /\ channel = <<>>
        /\ subscription = [endpoint |-> active, recent |-> recent, current |-> TRUE]
    BY DEF Init
  <2>2. subscription \in SubscriptionType
    BY <1>1, <1>2, <2>1 DEF SubscriptionType
  <2>3. <<>> \in Seq(GoodEvents)
    OBVIOUS
  <2>4. QED
    BY <2>1, <2>2, <2>3 DEF StreamInv
<1>5. PageInv
  <2>1. stored \subseteq Request /\ stored = captured
    BY <1>3 DEF ServerInv, Init
  <2>2. PICK p : p = Page(active, "all", 0)
    OBVIOUS
  <2>3. p \in [rows : SUBSET stored, next : 0..LastRequest]
    BY <2>1, <2>2, PageRows
  <2>4. list \subseteq captured /\ cursor \in 0..LastRequest
    BY <2>1, <2>2, <2>3 DEF Init
  <2>5. flags \in FlagsType
    BY DEF Init, FlagsType
  <2>6. /\ search = "all" /\ replaying = {} /\ gone = {}
    BY DEF Init
  <2>7. QED
    BY <1>1, <1>2, <2>4, <2>5, <2>6 DEF PageInv, OnlyMatchingShown, Matches
<1>6. CallsInv
  BY DEF Init, CallsInv
<1>7. QED
  BY <1>3, <1>4, <1>5, <1>6 DEF SessionInv

LEMMA SessionStutters ==
  ASSUME SessionInv, UNCHANGED vars
  PROVE  SessionInv'
<1>1. UNCHANGED <<serverVars, streamVars, active, recent, listVars, flags, call, gone>>
  BY DEF vars
<1>2. Follows /\ StreamMove
  BY <1>1, ServerRests DEF StreamMove, streamVars
<1>3. PageMove
  BY <1>1, PageIsThere DEF PageMove, listVars
<1>4. CallsInv'
  BY <1>1, <1>2, CallsRest DEF SessionInv, listVars
<1>5. QED
  BY <1>1, <1>2, <1>3, <1>4, BrowserMoves

LEMMA NextSession ==
  ASSUME SessionInv, [Next]_vars
  PROVE  SessionInv'
<1>1. CASE Server
  <2>1. CASE (\E r \in Request : Capture(r)) \/ (\E e \in Endpoint : Elsewhere(e))
    BY <2>1, ElsewhereKeeps
  <2>2. CASE \E c \in Slot : Serve(c)
    BY <2>2, ServeKeeps
  <2>3. CASE \E event \in unpublished : Publish(event)
    BY <2>3, PublishKeeps
  <2>4. QED
    BY <1>1, <2>1, <2>2, <2>3 DEF Server
<1>2. CASE User
  BY <1>2, SwitchKeeps, SearchKeeps, OtherCallKeeps DEF User
<1>3. CASE Stream
  BY <1>3, ConnectionKeeps, OnRequestKeeps, OnClearKeeps, OnDeletedKeeps DEF Stream
<1>4. CASE \E c \in Slot : Answer(c)
  BY <1>4, AnswerKeeps, AnswerClearKeeps, AnswerProbeKeeps, AnswerAdoptKeeps, AnswerNewKeeps,
     AnswerDeleteKeeps DEF Answer
<1>5. CASE UNCHANGED vars
  BY <1>5, SessionStutters
<1>6. QED
  BY <1>1, <1>2, <1>3, <1>4, <1>5 DEF Next

-----------------------------------------------------------------------------
\* What an answer brings into the list was read for it.
BroughtBy(c) ==
  /\ call[c].kind \in Versioned \cup {"adopt", "replay"} /\ Entering \subseteq call[c].page.rows
  /\ active' = call[c].endpoint
  /\ \/ call[c].kind \in Versioned /\ call[c].fresh
     \/ AnswerReplay(c) \/ AnswerAdopt(c)

LEMMA Moves ==
  ASSUME SessionInv, [Next]_vars
  PROVE  Entering = {} \/ OnAnEvent \/ \E c \in Slot : BroughtBy(c)
<1>1. CASE list' = list \/ list' = {}
  BY <1>1 DEF Entering
<1>2. CASE OnAnEvent
  BY <1>2
<1>3. ASSUME NEW c \in Slot, list' # list, list' # {},
             \/ AnswerSwitch(c) \/ AnswerRefresh(c) \/ AnswerOlder(c) \/ AnswerSearch(c)
      PROVE  BroughtBy(c)
  <2>1. call[c].kind \in Versioned /\ active' = active
    BY <1>3 DEF AnswerSwitch, AnswerRefresh, AnswerOlder, AnswerSearch, Is, Versioned
  <2>2. /\ active = call[c].endpoint /\ call[c].fresh
        /\ list' = Reconciled(c) \/ list' = list \cup call[c].page.rows
    BY <1>3 DEF AnswerSwitch, AnswerRefresh, AnswerOlder, AnswerSearch, ApplyLoaded
  <2>3. Entering \subseteq call[c].page.rows
    BY <2>2 DEF Entering, Reconciled
  <2>4. QED
    BY <2>1, <2>2, <2>3 DEF BroughtBy
<1>4. ASSUME NEW c \in Slot, list' # list, AnswerReplay(c)
      PROVE  BroughtBy(c)
  <2>1. call[c].kind = "replay" /\ active' = active /\ active = call[c].endpoint
    BY <1>4 DEF AnswerReplay, Is
  <2>2. Entering \subseteq call[c].page.rows
    BY <1>4 DEF AnswerReplay, Merge, Entering
  <2>3. QED
    BY <1>4, <2>1, <2>2 DEF BroughtBy
<1>5. ASSUME NEW c \in Slot, list' # list, list' # {}, AnswerAdopt(c)
      PROVE  BroughtBy(c)
  <2>1. call[c].kind = "adopt" /\ active' = call[c].endpoint /\ list' = call[c].page.rows
    BY <1>5 DEF AnswerAdopt, Adopt, GiveUp, Is, listVars
  <2>2. QED
    BY <1>5, <2>1 DEF BroughtBy, Entering
<1>6. ASSUME NEW c \in Slot,
             \/ AnswerNew(c) \/ AnswerMake(c) \/ AnswerClear(c) \/ AnswerDelete(c) \/ AnswerProbe(c)
      PROVE  list' = list \/ list' = {}
  BY <1>6 DEF AnswerNew, AnswerMake, AnswerClear, AnswerDelete, AnswerProbe, ApplyNew,
       BeginReplacement, GiveUp, Reset, EmptyList, listVars
<1>7. CASE Server
  <2>1. list' = list
    BY <1>7 DEF Server, Capture, Elsewhere, Serve, Publish, listVars
  <2>2. QED
    BY <1>1, <2>1
<1>8. CASE User
  <2>1. PICK c \in Slot :
          \/ \E e \in Endpoint : SwitchEndpoint(c, e) \/ DeleteEndpoint(c, e)
          \/ \E s \in {"all", "some"} : SearchRequests(c, s)
          \/ \E r \in Request : ReplayRequest(c, r)
          \/ StartNewEndpoint(c) \/ RefreshEndpoint(c) \/ LoadOlder(c) \/ ClearEndpoint(c)
    BY <1>8 DEF User
  <2>2. list' = list \/ list' = {}
    BY <2>1 DEF SwitchEndpoint, DeleteEndpoint, SearchRequests, ReplayRequest, StartNewEndpoint,
         RefreshEndpoint, LoadOlder, ClearEndpoint, Reset, EmptyList, listVars
  <2>3. QED
    BY <1>1, <2>2
<1>9. CASE Stream
  <2>1. CASE Connect \/ Break \/ Resubscribe
    <3>1. list' = list
      BY <2>1 DEF Connect, Break, Resubscribe, listVars
    <3>2. QED
      BY <1>1, <3>1
  <2>2. QED
    BY <1>2, <1>9, <2>1 DEF Stream, OnAnEvent
<1>10. CASE \E c \in Slot : Answer(c)
  BY <1>1, <1>3, <1>4, <1>5, <1>6, <1>10 DEF Answer
<1>11. CASE UNCHANGED vars
  BY <1>1, <1>11 DEF vars, listVars
<1>12. QED
  BY <1>7, <1>8, <1>9, <1>10, <1>11 DEF Next

\* The two action properties, of one step.
LEMMA MovesAreRight ==
  ASSUME SessionInv, [Next]_vars
  PROVE  /\ \/ Entering \cap gone = {} \/ OnAnEvent
            \/ \E c \in Slot : AnswerReplay(c) \/ AnswerAdopt(c)
         /\ (\A r \in Entering : Owner[r] = active') \/ OnAnEvent
<1>1. CASE Entering = {}
  BY <1>1
<1>2. CASE \E c \in Slot : BroughtBy(c)
  <2>1. PICK c \in Slot : BroughtBy(c)
    BY <1>2
  <2>2. PICK x : x = call[c]
    OBVIOUS
  <2>3. x \in GoodCalls
    BY <2>1, <2>2, CallInFlight DEF BroughtBy, Versioned, Kind
  <2>4. \A r \in Entering : Owner[r] = active'
    BY <2>1, <2>2, <2>3 DEF BroughtBy, GoodCalls
  <2>5. CASE x.kind \in Versioned /\ x.fresh
    BY <2>1, <2>2, <2>3, <2>4, <2>5 DEF BroughtBy, GoodCalls
  <2>6. CASE AnswerReplay(c) \/ AnswerAdopt(c)
    BY <2>4, <2>6
  <2>7. QED
    BY <2>1, <2>2, <2>5, <2>6 DEF BroughtBy
<1>3. QED
  BY <1>1, <1>2, Moves

\* The invariant of the session: the stream's events, the calls in flight and the list
\* agree with the server and with each other.
THEOREM SessionInvariant == Spec => []SessionInv
<1>1. Init => SessionInv
  BY InitialSession
<1>2. SessionInv /\ [Next]_vars => SessionInv'
  BY NextSession
<1>3. QED
  BY <1>1, <1>2, PTL DEF Spec

LEMMA SessionTypes ==
  ASSUME SessionInv
  PROVE  TypeOK
<1>1. GoodEvents \subseteq Events
  BY DEF GoodEvents
<1>2. unpublished \subseteq Events /\ channel \in Seq(Events)
  BY <1>1, SeqGrows DEF SessionInv, StreamInv
<1>3. call \in [Slot -> Calls \cup {NoCall}]
  BY DEF SessionInv, CallsInv, GoodCalls
<1>4. QED
  BY <1>2, <1>3 DEF SessionInv, ServerInv, StreamInv, PageInv, TypeOK, SubscriptionType, FlagsType

\* The variables of server, stream and page keep their types; no endpoint is remembered
\* twice (use-browser-endpoint-session.ts).
THEOREM TypeCorrect == Spec => []TypeOK
<1>1. SessionInv => TypeOK
  BY SessionTypes
<1>2. QED
  BY <1>1, SessionInvariant, PTL

\* Whatever answers, events and other searches overlap, the list shows only requests
\* that match the search in force.
THEOREM SearchIsKept == Spec => []OnlyMatchingShown
<1>1. SessionInv => OnlyMatchingShown
  BY DEF SessionInv, PageInv
<1>2. QED
  BY <1>1, SessionInvariant, PTL

\* A cleared request that the session was told of does not come back by a page that was
\* read before the clear, however long its answer took.
THEOREM ClearedRequestsStayAway == Spec => ClearedStaysCleared
<1>1. SessionInv /\ [Next]_vars =>
        [Entering \cap gone = {} \/ OnAnEvent
           \/ \E c \in Slot : AnswerReplay(c) \/ AnswerAdopt(c)]_vars
  BY MovesAreRight
<1>2. QED
  BY <1>1, SessionInvariant, PTL DEF Spec, ClearedStaysCleared

\* What an answer brings into the list belongs to the endpoint that is active by then,
\* although endpoints are switched, deleted and replaced while calls are in flight.
THEOREM AnswersAreOfTheActiveEndpoint == Spec => AnswersKeepToTheirEndpoint
<1>1. SessionInv /\ [Next]_vars =>
        [(\A r \in Entering : Owner[r] = active') \/ OnAnEvent]_vars
  BY MovesAreRight
<1>2. QED
  BY <1>1, SessionInvariant, PTL DEF Spec, AnswersKeepToTheirEndpoint
=============================================================================

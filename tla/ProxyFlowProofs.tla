-------------------------- MODULE ProxyFlowProofs --------------------------
(***************************************************************************)
(* IInv is an inductive invariant of ProxyFlow, for every chain, every set *)
(* of modules and every number of logins in the browser; type correctness, *)
(* the completeness of both micro-service chains, the lifetime bound and   *)
(* the state each redirect carries follow from it.  With SingleUse added,  *)
(* so does that one upstream login answers at most one request; with       *)
(* TabsApart, that two tabs do not mix where no service suspends a flow;   *)
(* with PinKept, that a backend all frontends share is honoured; with      *)
(* Grounded, that the proxy implements LoginService.                       *)
(*                                                                         *)
(* A request handler is built from a few outcomes (fail, redirect, render) *)
(* that all end in Send.  Usable(st) says what a handler knows of the      *)
(* state it holds; each outcome turns a usable state into a good step, and *)
(* each action supplies one.                                               *)
(***************************************************************************)
EXTENDS ProxyFlow, TLAPS

USE DEF Runs

(* The state a handler works on: typed, good, and not yet expired.         *)
Usable(st) ==
  /\ st \in Envelope
  /\ GoodEnvelope(st, now, started')
  /\ now - st.iat < TTL

(* What is known of the rest when a handler starts; `started` is already   *)
(* the set that includes the handler's own request.                        *)
Before ==
  /\ TypeOK
  /\ started' \subseteq Started
  /\ \A m \in wire : GoodMessage(m, now, started')
  /\ \A i \in DOMAIN answers : GoodAnswer(answers[i], now, started')

(* What a handler's outcome must establish.                                *)
GoodStep ==
  /\ wire' \subseteq Message
  /\ \A m \in wire' : GoodMessage(m, now, started')
  /\ nextId' \in Nat
  /\ answers' \in Seq(Answer)
  /\ \A i \in DOMAIN answers' : GoodAnswer(answers'[i], now, started')

----------------------------------------------------------------------------
(* The chains                                                              *)

LEMMA ChainType == /\ N \in Nat /\ DiscoAt \in 0 .. N /\ StepUpAt \in 0 .. N
                   /\ NoRuns \in Runs /\ \A k \in Int : RanUpTo(k) \in Runs
                   /\ TTL \in Nat \ {0}
BY ChainAssumption, BoundAssumption DEF NoRuns, RanUpTo

(* Where a chain may stop, as an interval.                                 *)
LEMMA StopsRange ==
  ASSUME NEW from \in 1 .. N + 1, NEW stop \in Stops(from)
  PROVE  stop \in from .. N + 1
BY ChainAssumption DEF Stops, Services

(* Running the services from..stop-1 of a chain that ran up to from-1      *)
(* makes it a chain that ran up to stop-1.                                 *)
LEMMA AfterRanUpTo ==
  ASSUME NEW from \in 1 .. N + 1, NEW stop \in from .. N + 1
  PROVE  After(RanUpTo(from - 1), from, stop) = RanUpTo(stop - 1)
<1>1. ASSUME NEW i \in Services
      PROVE  RanUpTo(from - 1)[i] + (IF Ran(i, from, stop) THEN 1 ELSE 0)
               = RanUpTo(stop - 1)[i]
  BY <1>1, ChainAssumption DEF RanUpTo, Ran, Services
<1> QED
  BY <1>1 DEF After, RanUpTo

LEMMA NoRunsIsStart == NoRuns = RanUpTo(0)
BY ChainAssumption DEF NoRuns, RanUpTo, Services

----------------------------------------------------------------------------
(* The outcomes of a handler                                               *)

LEMMA PlainType ==
  ASSUME NEW kind \in Kinds
  PROVE  Plain(kind) \in Body /\ Plain(kind).login = NoLogin /\ Plain(kind).kind = kind
BY DEF Plain, Body

LEMMA SendGood ==
  ASSUME Before, NEW st, Usable(st), NEW body \in Body,
         body.kind = "login" => body.login # NoLogin,
         body.login # NoLogin => Complete(body.login.request),
         Send(st, body)
  PROVE  wire' \subseteq Message /\ \A m \in wire' : GoodMessage(m, now, started')
<1> DEFINE sealed == [cookie |-> st, body |-> body]
           failed == [cookie |-> NoCookie, body |-> Plain("error")]
<1>1. sealed \in Message /\ GoodMessage(sealed, now, started')
  BY DEF Message, GoodMessage, Usable
<1>2. failed \in Message /\ GoodMessage(failed, now, started')
  BY PlainType DEF Message, GoodMessage, Kinds
<1>3. wire' \subseteq wire \cup {sealed, failed}
  BY DEF Send
<1> HIDE DEF sealed, failed
<1> QED
  BY <1>1, <1>2, <1>3 DEF Before, TypeOK

LEMMA ClearGood ==
  ASSUME Before, NEW kind \in Kinds \ {"login"}, SendAndClear(Plain(kind))
  PROVE  wire' \subseteq Message /\ \A m \in wire' : GoodMessage(m, now, started')
<1> DEFINE cleared == [cookie |-> NoCookie, body |-> Plain(kind)]
<1>1. cleared \in Message /\ GoodMessage(cleared, now, started')
  BY PlainType DEF Message, GoodMessage
<1>2. wire' = wire \cup {cleared}
  BY DEF SendAndClear
<1> HIDE DEF cleared
<1> QED
  BY <1>1, <1>2 DEF Before, TypeOK

(* Nothing but wire changes.                                               *)
LEMMA KeepGood ==
  ASSUME Before, UNCHANGED <<nextId, answers>>,
         wire' \subseteq Message, \A m \in wire' : GoodMessage(m, now, started')
  PROVE  GoodStep
BY DEF Before, GoodStep, TypeOK

LEMMA RespondGood ==
  ASSUME Before, NEW st, Usable(st), NEW kind \in Kinds \ {"login"},
         Send(st, Plain(kind)), UNCHANGED <<nextId, answers>>
  PROVE  GoodStep
<1>1. Plain(kind) \in Body /\ Plain(kind).login = NoLogin /\ Plain(kind).kind # "login"
  BY PlainType
<1>2. wire' \subseteq Message /\ \A m \in wire' : GoodMessage(m, now, started')
  BY <1>1, SendGood
<1> QED
  BY <1>2, KeepGood

LEMMA FailGood ==
  ASSUME Before, NEW st, Usable(st), Fail(st)
  PROVE  GoodStep
BY RespondGood DEF Fail, Kinds

LEMMA NewLoginType ==
  ASSUME Before, NEW at \in Backends \cup {StepUp}, NEW req \in Request \cup {NoRequest}
  PROVE  /\ NewLogin(at, req) \in Login
         /\ NewLogin(at, req).request = req
         /\ NewLogin(at, req).time = now
         /\ NewLogin(at, req) # NoLogin
<1>1. now \in Nat /\ nextId \in Nat
  BY DEF Before, TypeOK
<1>2. NewLogin(at, req) \in Login
  BY <1>1 DEF NewLogin, Login
<1> QED
  BY <1>2, NullAssumption DEF NewLogin

LEMMA RedirectedGood ==
  ASSUME Before, NEW st, Usable(st), NEW l \in Login, Complete(l.request),
         Redirected(st, l)
  PROVE  GoodStep
<1>1. l # NoLogin
  BY NullAssumption
<1>2. /\ Redirect(l) \in Body /\ Redirect(l).login = l
  BY DEF Redirect, Body, Kinds
<1>3. wire' \subseteq Message /\ \A m \in wire' : GoodMessage(m, now, started')
  BY <1>1, <1>2, SendGood DEF Redirected
<1> QED
  BY <1>3 DEF Before, GoodStep, TypeOK, Redirected

----------------------------------------------------------------------------
(* Updates of the state                                                    *)

LEMMA SlotUsable ==
  ASSUME NEW st, Usable(st), NEW b \in Backends, NEW slot \in Slot,
         Complete(slot.asks), slot.sent # NoLogin => slot.sent.time >= st.iat
  PROVE  Usable([st EXCEPT !.data.slot[b] = slot])
<1> DEFINE new == [st EXCEPT !.data.slot[b] = slot]
<1>1. new \in Envelope
  BY DEF Usable, Envelope, Data
<1>2. GoodEnvelope(new, now, started')
  BY DEF Usable, GoodEnvelope, Envelope, Data
<1> QED
  BY <1>1, <1>2 DEF Usable

LEMMA AskedUsable ==
  ASSUME NEW st, Usable(st), NEW b \in Backends,
         NEW req \in Request \cup {NoRequest}, Complete(req)
  PROVE  Usable([st EXCEPT !.data.slot[b].asks = req])
<1> DEFINE slot == [st.data.slot[b] EXCEPT !.asks = req]
<1>1. /\ slot \in Slot /\ Complete(slot.asks)
      /\ slot.sent # NoLogin => slot.sent.time >= st.iat
  BY DEF Usable, GoodEnvelope, Envelope, Data, Slot
<1>2. [st EXCEPT !.data.slot[b].asks = req] = [st EXCEPT !.data.slot[b] = slot]
  OBVIOUS
<1> HIDE DEF slot
<1> QED
  BY <1>1, <1>2, SlotUsable

LEMMA SentUsable ==
  ASSUME NEW st, Usable(st), NEW b \in Backends, NEW l \in Login, l.time >= st.iat
  PROVE  Usable([st EXCEPT !.data.slot[b].sent = l])
<1> DEFINE slot == [st.data.slot[b] EXCEPT !.sent = l]
<1>1. /\ slot \in Slot /\ Complete(slot.asks)
      /\ slot.sent # NoLogin => slot.sent.time >= st.iat
  BY DEF Usable, GoodEnvelope, Envelope, Data, Slot
<1>2. [st EXCEPT !.data.slot[b].sent = l] = [st EXCEPT !.data.slot[b] = slot]
  OBVIOUS
<1> HIDE DEF slot
<1> QED
  BY <1>1, <1>2, SlotUsable

LEMMA ClearedUsable ==
  ASSUME NEW st, Usable(st), NEW b \in Backends
  PROVE  Usable([st EXCEPT !.data.slot[b] = NoSlot])
<1>1. NoSlot \in Slot /\ Complete(NoSlot.asks) /\ NoSlot.sent = NoLogin
  BY DEF NoSlot, Slot, Complete
<1> QED
  BY <1>1, SlotUsable

LEMMA ForgottenUsable ==
  ASSUME NEW st, Usable(st)
  PROVE  Usable(Forgotten(st)) /\ Forgotten(st).iat = st.iat
<1>1. Forgotten(st) \in Envelope
  BY DEF Usable, Envelope, Data, Forgotten
<1>2. GoodEnvelope(Forgotten(st), now, started')
  BY DEF Usable, GoodEnvelope, Envelope, Data, Forgotten
<1>3. Forgotten(st).iat = st.iat
  BY DEF Forgotten, Usable, Envelope
<1> QED
  BY <1>1, <1>2, <1>3 DEF Usable

LEMMA SuspendedUsable ==
  ASSUME NEW st, Usable(st), NEW susp \in Suspension,
         susp.runs = RanUpTo(StepUpAt), susp.login.time >= st.iat
  PROVE  Usable([st EXCEPT !.data.suspended = susp])
<1> DEFINE new == [st EXCEPT !.data.suspended = susp]
<1>1. new \in Envelope
  BY DEF Usable, Envelope, Data
<1>2. GoodEnvelope(new, now, started')
  BY DEF Usable, GoodEnvelope, Envelope, Data
<1> QED
  BY <1>1, <1>2 DEF Usable

LEMMA StepupUsable ==
  ASSUME NEW st, Usable(st), NEW l \in Login \cup {NoLogin}
  PROVE  Usable([st EXCEPT !.data.stepup = l])
<1> DEFINE new == [st EXCEPT !.data.stepup = l]
<1>1. new \in Envelope
  BY DEF Usable, Envelope, Data
<1>2. GoodEnvelope(new, now, started')
  BY DEF Usable, GoodEnvelope, Envelope, Data
<1> QED
  BY <1>1, <1>2 DEF Usable

LEMMA SnapshotUsable ==
  ASSUME NEW st, Usable(st), NEW snap \in Snapshot, snap.request.runs = RanUpTo(DiscoAt)
  PROVE  Usable([st EXCEPT !.data.snapshot = snap])
<1> DEFINE new == [st EXCEPT !.data.snapshot = snap]
<1>1. new \in Envelope
  BY DEF Usable, Envelope, Data
<1>2. GoodEnvelope(new, now, started')
  BY DEF Usable, GoodEnvelope, Envelope, Data
<1> QED
  BY <1>1, <1>2 DEF Usable

LEMMA PolicyUsable ==
  ASSUME NEW st, Usable(st), NEW flow \in Flows
  PROVE  Usable([st EXCEPT !.data.policy = flow])
<1> DEFINE new == [st EXCEPT !.data.policy = flow]
<1>1. new \in Envelope
  BY DEF Usable, Envelope, Data
<1>2. GoodEnvelope(new, now, started')
  BY DEF Usable, GoodEnvelope, Envelope, Data
<1> QED
  BY <1>1, <1>2 DEF Usable

LEMMA RequestStateUsable ==
  ASSUME NEW st, Usable(st), NEW front \in Frontends, NEW req \in Request,
         NEW from \in 1 .. N + 1, NEW stop \in from .. N + 1,
         req.runs = RanUpTo(from - 1)
  PROVE  Usable(RequestState(st, front, req, from, stop))
<1> DEFINE snap == [front |-> front,
                    request |-> [req EXCEPT !.runs = After(@, from, DiscoAt + 1)]]
           snapped == IF Ran(DiscoAt, from, stop)
                      THEN [st EXCEPT !.data.snapshot = snap] ELSE st
           new == IF Ran(StepUpAt, from, stop)
                  THEN [snapped EXCEPT !.data.policy = req.flow] ELSE snapped
<1>1. ASSUME Ran(DiscoAt, from, stop)
      PROVE  snap \in Snapshot /\ snap.request.runs = RanUpTo(DiscoAt)
  <2>1. DiscoAt + 1 \in from .. N + 1
    BY <1>1, ChainType DEF Ran
  <2>2. After(req.runs, from, DiscoAt + 1) = RanUpTo(DiscoAt)
    BY <2>1, AfterRanUpTo, ChainType
  <2>3. RanUpTo(DiscoAt) \in Runs
    BY ChainType
  <2> QED
    BY <2>2, <2>3 DEF Snapshot, Request
<1>2. RequestState(st, front, req, from, stop) = new
  <2> HIDE DEF snap
  <2> QED
    BY DEF RequestState, Usable, Envelope, Data, snap
<1> HIDE DEF snap
<1>3. Usable(snapped)
  BY <1>1, SnapshotUsable
<1> HIDE DEF snapped
<1>4. Usable(new)
  BY <1>3, PolicyUsable DEF Request
<1> QED
  BY <1>2, <1>4

----------------------------------------------------------------------------
(* The request path                                                        *)

(* iat <= now and now - iat < TTL; what is created now is not older.       *)
LEMMA IssuedBefore ==
  ASSUME Before, NEW st, Usable(st)
  PROVE  st.iat \in Nat /\ now \in Nat /\ st.iat <= now
BY DEF Usable, GoodEnvelope, Envelope, Before, TypeOK

LEMMA StartAuthGood ==
  ASSUME Before, NEW st, Usable(st), NEW b \in Backends, NEW req \in Request,
         req.runs = RanUpTo(N), NEW issuer, StartAuth(st, b, req, issuer)
  PROVE  GoodStep
<1> DEFINE asked == [st EXCEPT !.data.slot[b].asks = req]
           l == NewLogin(b, req)
           sent == [asked EXCEPT !.data.slot[b].sent = l]
<1>1. Complete(req)
  BY DEF Complete
<1>2. Usable(asked)
  BY <1>1, AskedUsable
<1>3. l \in Login /\ l.request = req /\ l.time = now
  BY NewLoginType
<1>4. l.time >= asked.iat
  BY <1>2, <1>3, IssuedBefore
<1>5. Usable(sent)
  BY <1>2, <1>3, <1>4, SentUsable
<1>6. \/ Fail(st) \/ Fail(asked)
      \/ Send(asked, Plain("discovery")) /\ UNCHANGED <<nextId, answers>>
      \/ Redirected(sent, l)
  BY DEF StartAuth
<1> HIDE DEF asked, l, sent
<1>7. CASE Fail(st) \/ Fail(asked)
  BY <1>2, <1>7, FailGood
<1>8. CASE Send(asked, Plain("discovery")) /\ UNCHANGED <<nextId, answers>>
  BY <1>2, <1>8, RespondGood DEF Kinds
<1>9. CASE Redirected(sent, l)
  BY <1>1, <1>3, <1>5, <1>9, RedirectedGood
<1> QED
  BY <1>6, <1>7, <1>8, <1>9

LEMMA FinishRequestGood ==
  ASSUME Before, NEW st, Usable(st), NEW front \in Frontends, NEW req \in Request,
         NEW from \in 1 .. N + 1, req.runs = RanUpTo(from - 1),
         NEW pin, NEW issuer, FinishRequest(st, front, req, from, pin, issuer)
  PROVE  GoodStep
<1> DEFINE left(stop) == RequestState(st, front, req, from, stop)
           done(stop) == [req EXCEPT !.runs = After(@, from, stop)]
           b(stop) == Selected(req, from, stop, pin, issuer)
<1>1. PICK stop \in Stops(from) :
        \/ Fail(left(stop))
        \/ /\ stop = N + 1 /\ b(stop) \in Backends
           /\ StartAuth(left(stop), b(stop), done(stop), issuer)
  BY DEF FinishRequest
<1>2. stop \in from .. N + 1
  BY StopsRange
<1>3. Usable(left(stop))
  BY <1>2, RequestStateUsable
<1>4. ASSUME stop = N + 1 PROVE done(stop) \in Request /\ done(stop).runs = RanUpTo(N)
  <2>1. After(req.runs, from, stop) = RanUpTo(N)
    BY <1>2, <1>4, AfterRanUpTo, ChainType
  <2>2. RanUpTo(N) \in Runs
    BY ChainType
  <2> QED
    BY <2>1, <2>2 DEF Request
<1> HIDE DEF left, done, b
<1>5. CASE Fail(left(stop))
  BY <1>3, <1>5, FailGood
<1>6. CASE /\ stop = N + 1 /\ b(stop) \in Backends
           /\ StartAuth(left(stop), b(stop), done(stop), issuer)
  BY <1>3, <1>4, <1>6, StartAuthGood
<1> QED
  BY <1>1, <1>5, <1>6

----------------------------------------------------------------------------
(* The response path                                                       *)

LEMMA RenderGood ==
  ASSUME Before, NEW st, Usable(st), NEW front \in Frontends,
         NEW login \in Login, login.time >= st.iat,
         NEW requester \in Requesters \cup {NoRequester},
         NEW runs \in Runs, runs = RanUpTo(N),
         Render(st, front, login, requester, runs)
  PROVE  GoodStep
<1> DEFINE flow == st.data.pending[front]
           answer == [flow |-> flow, requester |-> requester,
                      login |-> login, runs |-> runs, time |-> now]
<1>1. now \in Nat /\ answers \in Seq(Answer) /\ st.iat \in Nat
  BY IssuedBefore DEF Before, TypeOK
<1>2. CASE Fail(st)
  BY <1>2, FailGood
<1>3. CASE /\ flow # NoFlow
           /\ answers' = Append(answers, answer)
           /\ SendAndClear(Plain("answer")) /\ UNCHANGED nextId
  <2>1. flow \in Flows
    BY <1>3 DEF Usable, Envelope, Data
  <2>2. answer \in Answer
    BY <1>1, <2>1 DEF Answer
  <2>3. GoodAnswer(answer, now, started')
    <3>1. answer.time - answer.login.time < TTL
      BY <1>1, ChainType DEF Usable, Login
    <3>2. ASSUME NEW r \in started', r.flow = answer.flow PROVE answer.time - r.time < TTL
      <4>1. r.time \in Nat /\ r.time >= st.iat
        BY <3>2 DEF Usable, GoodEnvelope, Before, Started
      <4> QED
        BY <4>1, <1>1, ChainType DEF Usable
    <3> QED
      BY <1>1, <3>1, <3>2 DEF GoodAnswer
  <2> HIDE DEF answer
  <2>4. answers' \in Seq(Answer)
    BY <1>1, <1>3, <2>2
  <2>5. \A i \in DOMAIN answers' : GoodAnswer(answers'[i], now, started')
    BY <1>1, <1>3, <2>3 DEF Before
  <2>6. wire' \subseteq Message /\ \A m \in wire' : GoodMessage(m, now, started')
    BY <1>3, ClearGood DEF Kinds
  <2> QED
    BY <1>3, <2>4, <2>5, <2>6 DEF GoodStep, Before, TypeOK
<1>4. CASE SendAndClear(Plain("error")) /\ UNCHANGED <<nextId, answers>>
  <2>1. wire' \subseteq Message /\ \A m \in wire' : GoodMessage(m, now, started')
    BY <1>4, ClearGood DEF Kinds
  <2> QED
    BY <1>4, <2>1, KeepGood
<1> QED
  BY <1>2, <1>3, <1>4 DEF Render

LEMMA FinishResponseGood ==
  ASSUME Before, NEW st, Usable(st), NEW front \in Frontends,
         NEW login \in Login, login.time >= st.iat,
         NEW requester \in Requesters \cup {NoRequester},
         NEW from \in 1 .. N + 1, NEW runs, runs = RanUpTo(from - 1),
         FinishResponse(st, front, login, requester, runs, from)
  PROVE  GoodStep
<1> DEFINE l == NewLogin(StepUp, NoRequest)
           susp == [front |-> front, login |-> login, requester |-> requester,
                    runs |-> After(runs, from, StepUpAt + 1)]
           suspended == [st EXCEPT !.data.suspended = susp]
           asked == [suspended EXCEPT !.data.stepup = l]
           left == IF Ran(StepUpAt, from, N + 1) THEN Forgotten(st) ELSE st
<1>1. \/ Fail(st) \/ Fail(Forgotten(st))
      \/ /\ Ran(StepUpAt, from, N + 1)
         /\ Fail(suspended) \/ Redirected(asked, l)
      \/ Render(left, front, login, requester, After(runs, from, N + 1))
  BY DEF FinishResponse
<1>2. Usable(Forgotten(st)) /\ Forgotten(st).iat = st.iat
  BY ForgottenUsable
<1>3. CASE Fail(st) \/ Fail(Forgotten(st))
  BY <1>2, <1>3, FailGood
<1>4. CASE /\ Ran(StepUpAt, from, N + 1)
           /\ Fail(suspended) \/ Redirected(asked, l)
  <2>1. StepUpAt + 1 \in from .. N + 1
    BY <1>4, ChainType DEF Ran
  <2>2. After(runs, from, StepUpAt + 1) = RanUpTo(StepUpAt)
    BY <2>1, AfterRanUpTo, ChainType
  <2>3. RanUpTo(StepUpAt) \in Runs
    BY ChainType
  <2>4. susp \in Suspension /\ susp.runs = RanUpTo(StepUpAt) /\ susp.login = login
    BY <2>2, <2>3 DEF Suspension
  <2> HIDE DEF susp
  <2>5. Usable(suspended)
    BY <2>4, SuspendedUsable
  <2>6. l \in Login /\ Complete(l.request)
    BY NewLoginType DEF Complete
  <2> HIDE DEF suspended, l
  <2>7. Usable(asked)
    BY <2>5, <2>6, StepupUsable
  <2> HIDE DEF asked
  <2> QED
    BY <1>4, <2>5, <2>6, <2>7, FailGood, RedirectedGood
<1>5. CASE Render(left, front, login, requester, After(runs, from, N + 1))
  <2>1. After(runs, from, N + 1) = RanUpTo(N)
    BY AfterRanUpTo, ChainType
  <2>2. RanUpTo(N) \in Runs
    BY ChainType
  <2>3. Usable(left) /\ login.time >= left.iat
    BY <1>2
  <2> HIDE DEF left
  <2> QED
    BY <1>5, <2>1, <2>2, <2>3, RenderGood
<1> QED
  BY <1>1, <1>3, <1>4, <1>5

----------------------------------------------------------------------------
(* What a handler starts from                                              *)

LEMMA UnsealedGood ==
  ASSUME IInv
  PROVE  /\ Unsealed \in Envelope
         /\ GoodEnvelope(Unsealed, now, started)
         /\ now - Unsealed.iat < TTL
<1>1. now \in Nat /\ started \subseteq Started
  BY DEF IInv, TypeOK
<1>2. CASE jar # NoCookie /\ now - jar.iat < TTL
  BY <1>2 DEF Unsealed, IInv, TypeOK
<1>3. CASE ~(jar # NoCookie /\ now - jar.iat < TTL)
  <2> DEFINE fresh == [iat |-> now, data |-> EmptyData]
  <2>1. Unsealed = fresh
    BY <1>3 DEF Unsealed
  <2>2. EmptyData \in Data
    BY DEF EmptyData, Data, NoSlot, Slot
  <2>3. fresh \in Envelope
    BY <1>1, <2>2 DEF Envelope
  <2>4. GoodEnvelope(fresh, now, started)
    BY <1>1, NullAssumption DEF GoodEnvelope, EmptyData, NoSlot, Complete, Started
  <2>5. now - fresh.iat < TTL
    BY <1>1, ChainType
  <2> QED
    BY <2>1, <2>3, <2>4, <2>5
<1> QED
  BY <1>2, <1>3

LEMMA StartsFromUnsealed ==
  ASSUME IInv, UNCHANGED started
  PROVE  Before /\ Usable(Unsealed)
BY UnsealedGood DEF IInv, Before, Usable, TypeOK

(* A new downstream request is no older than any sealed state and no       *)
(* answer is younger than it.                                              *)
LEMMA BeginGood ==
  ASSUME IInv, NEW f \in Flows, started' = started \cup {[flow |-> f, time |-> now]}
  PROVE  /\ Before
         /\ \A e \in Envelope : GoodEnvelope(e, now, started) => GoodEnvelope(e, now, started')
<1>1. now \in Nat /\ started' \subseteq Started
  BY DEF IInv, TypeOK, Started
<1>2. ASSUME NEW e \in Envelope, GoodEnvelope(e, now, started)
      PROVE  GoodEnvelope(e, now, started')
  BY <1>1, <1>2 DEF GoodEnvelope, Envelope
<1>3. ASSUME NEW m \in wire PROVE GoodMessage(m, now, started')
  <2>1. m \in Message /\ GoodMessage(m, now, started)
    BY DEF IInv, TypeOK
  <2> QED
    BY <1>2, <2>1 DEF GoodMessage, Message
<1>4. ASSUME NEW i \in DOMAIN answers PROVE GoodAnswer(answers[i], now, started')
  <2>1. answers[i] \in Answer /\ GoodAnswer(answers[i], now, started)
    BY DEF IInv, TypeOK
  <2>2. ASSUME NEW r \in started', r.flow = answers[i].flow
        PROVE  answers[i].time - r.time < TTL
    <3>1. CASE r \in started
      BY <2>1, <2>2, <3>1 DEF GoodAnswer
    <3>2. CASE r.time = now
      BY <1>1, <2>1, <3>2, ChainType DEF GoodAnswer, Answer
    <3> QED
      BY <2>2, <3>1, <3>2
  <2> QED
    BY <2>1, <2>2 DEF GoodAnswer
<1> QED
  BY <1>1, <1>2, <1>3, <1>4 DEF Before, IInv

(* A handler's good step keeps the invariant.                              *)
LEMMA HandlerKeepsIInv ==
  ASSUME IInv, Before, GoodStep, UNCHANGED <<now, jar, upstream>>, spent' \subseteq Login,
         jar # NoCookie => GoodEnvelope(jar, now, started')
  PROVE  IInv'
BY DEF IInv, TypeOK, Before, GoodStep

LEMMA QuietHandlerKeepsIInv ==
  ASSUME IInv, GoodStep, UNCHANGED <<now, jar, started, upstream>>, spent' \subseteq Login
  PROVE  IInv'
<1>1. Before
  BY StartsFromUnsealed
<1> QED
  BY <1>1, HandlerKeepsIInv DEF IInv

----------------------------------------------------------------------------
(* One lemma per action                                                    *)

(* The state a new request is recorded in.                                 *)
LEMMA AuthorizeBegins ==
  ASSUME IInv, NEW f \in Flows, Authorize(f)
  PROVE  Before /\ Usable(Recorded(Unsealed, f, FrontendOf[f]))
<1> DEFINE front == FrontendOf[f]
           st == Recorded(Unsealed, f, front)
<1>1. started' = started \cup {[flow |-> f, time |-> now]}
  BY DEF Authorize
<1>2. /\ Before
      /\ \A e \in Envelope : GoodEnvelope(e, now, started) => GoodEnvelope(e, now, started')
  BY <1>1, BeginGood
<1>3. front \in Frontends /\ RequesterOf[f] \in Requesters
  BY ModuleAssumption
<1>4. /\ Unsealed \in Envelope /\ GoodEnvelope(Unsealed, now, started')
      /\ now - Unsealed.iat < TTL /\ GoodEnvelope(Unsealed, now, started)
  BY <1>2, UnsealedGood
<1>5. st \in Envelope /\ st.iat = Unsealed.iat
  BY <1>3, <1>4 DEF Recorded, Envelope, Data
<1>6. GoodEnvelope(st, now, started')
  <2>1. ASSUME NEW fe \in Frontends, NEW r \in started', st.data.pending[fe] = r.flow
        PROVE  r.time >= st.iat
    <3>1. CASE Unsealed.data.pending[fe] = r.flow
      BY <1>4, <1>5, <3>1 DEF GoodEnvelope
    <3>2. CASE Unsealed.data.pending[fe] # r.flow
      <4>1. fe = front /\ r.flow = f
        BY <2>1, <3>2, <1>4, <1>3 DEF Recorded, Envelope, Data
      <4>2. r = [flow |-> f, time |-> now]
        BY <4>1, <1>1 DEF Authorize
      <4> QED
        BY <4>2, <1>4, <1>5 DEF GoodEnvelope
    <3> QED
      BY <3>1, <3>2
  <2>2. /\ st.data.snapshot = Unsealed.data.snapshot
        /\ st.data.suspended = Unsealed.data.suspended
        /\ st.data.slot = Unsealed.data.slot
    BY <1>4 DEF Recorded, Envelope, Data
  <2> HIDE DEF st
  <2> QED
    BY <1>4, <1>5, <2>1, <2>2 DEF GoodEnvelope
<1>7. Usable(st)
  BY <1>4, <1>5, <1>6 DEF Usable
<1> QED
  BY <1>2, <1>7

LEMMA AuthorizeKeeps ==
  ASSUME IInv, NEW f \in Flows, Authorize(f)
  PROVE  IInv'
<1> DEFINE front == FrontendOf[f]
           st == Recorded(Unsealed, f, front)
           req == [flow |-> f, runs |-> NoRuns]
<1>1. started' = started \cup {[flow |-> f, time |-> now]}
  BY DEF Authorize
<1>2. \A e \in Envelope : GoodEnvelope(e, now, started) => GoodEnvelope(e, now, started')
  BY <1>1, BeginGood
<1>3. Before /\ Usable(st)
  BY AuthorizeBegins
<1>4. front \in Frontends
  BY ModuleAssumption
<1>5. req \in Request /\ req.runs = RanUpTo(1 - 1) /\ 1 \in 1 .. N + 1
  BY NoRunsIsStart, ChainType DEF Request
<1>6. FinishRequest(st, front, req, 1, Pin[front], NoIssuer)
  BY DEF Authorize
<1> HIDE DEF st, front, req
<1>7. GoodStep
  BY <1>3, <1>4, <1>5, <1>6, FinishRequestGood
<1>8. jar # NoCookie => GoodEnvelope(jar, now, started')
  BY <1>2 DEF IInv, TypeOK
<1>9. UNCHANGED <<now, jar, upstream>> /\ spent' \subseteq Login
  BY DEF Authorize, IInv, TypeOK
<1> QED
  BY <1>3, <1>7, <1>8, <1>9, HandlerKeepsIInv

LEMMA PageKeeps ==
  ASSUME IInv, Page
  PROVE  IInv'
<1>1. Before /\ Usable(Unsealed)
  BY StartsFromUnsealed DEF Page
<1>2. GoodStep
  BY <1>1, RespondGood DEF Page, Kinds
<1> QED
  BY <1>2, QuietHandlerKeepsIInv DEF Page, IInv, TypeOK

LEMMA CallbackKeeps ==
  ASSUME IInv, NEW l \in upstream, Callback(l)
  PROVE  IInv'
<1> DEFINE st == Unsealed
           cleared == [st EXCEPT !.data.slot[l.at] = NoSlot]
<1>1. Before /\ Usable(st)
  BY StartsFromUnsealed DEF Callback
<1>2. l \in Login /\ l.at \in Backends
  BY DEF Callback, IInv, TypeOK
<1>3. Usable(cleared)
  BY <1>1, <1>2, ClearedUsable
<1>4. cleared.iat = st.iat
  BY <1>1 DEF Usable, Envelope
<1>5. spent' \subseteq Login
  BY <1>2 DEF Callback, Redeem, IInv, TypeOK
<1>6. \/ Fail(st) \/ Fail(cleared)
      \/ /\ Matches(st.data.slot[l.at].sent, l)
         /\ cleared.data.front # NoFrontend
         /\ FinishResponse(cleared, cleared.data.front, l, cleared.data.requester, NoRuns, 1)
  BY DEF Callback, AuthResponse
<1>7. ASSUME Fail(st) \/ Fail(cleared) PROVE GoodStep
  <2> HIDE DEF st, cleared
  <2> QED
    BY <1>1, <1>3, <1>7, FailGood
<1>8. ASSUME /\ Matches(st.data.slot[l.at].sent, l)
             /\ cleared.data.front # NoFrontend
             /\ FinishResponse(cleared, cleared.data.front, l, cleared.data.requester,
                               NoRuns, 1)
      PROVE  GoodStep
  <2>1. l.time >= cleared.iat
    BY <1>1, <1>2, <1>4, <1>8, NullAssumption DEF Matches, Usable, GoodEnvelope
  <2>2. /\ cleared.data.front \in Frontends
        /\ cleared.data.requester \in Requesters \cup {NoRequester}
    <3> HIDE DEF st, cleared
    <3> QED
      BY <1>3, <1>8 DEF Usable, Envelope, Data
  <2>3. 1 \in 1 .. N + 1 /\ NoRuns = RanUpTo(1 - 1)
    BY ChainType, NoRunsIsStart
  <2> HIDE DEF st, cleared
  <2> QED
    BY <1>1, <1>2, <1>3, <1>8, <2>1, <2>2, <2>3, FinishResponseGood
<1>9. GoodStep
  BY <1>6, <1>7, <1>8
<1> QED
  BY <1>5, <1>9, QuietHandlerKeepsIInv DEF Callback

LEMMA ResumedUsable ==
  ASSUME NEW st, Usable(st), st.data.snapshot # NoSnapshot
  PROVE  Usable([st EXCEPT !.data.snapshot = NoSnapshot,
                           !.data.front = st.data.snapshot.front,
                           !.data.requester = RequesterOf[st.data.snapshot.request.flow]])
<1> DEFINE snap == st.data.snapshot
           resumed == [st EXCEPT !.data.snapshot = NoSnapshot, !.data.front = snap.front,
                                 !.data.requester = RequesterOf[snap.request.flow]]
<1>1. snap \in Snapshot
  BY DEF Usable, Envelope, Data
<1>2. /\ snap.front \in Frontends
      /\ RequesterOf[snap.request.flow] \in Requesters
  BY <1>1, ModuleAssumption DEF Snapshot, Request
<1>3. resumed \in Envelope
  BY <1>2 DEF Usable, Envelope, Data
<1>4. GoodEnvelope(resumed, now, started') /\ now - resumed.iat < TTL
  BY DEF Usable, GoodEnvelope, Envelope, Data
<1> QED
  BY <1>3, <1>4 DEF Usable

LEMMA DiscoReturnKeeps ==
  ASSUME IInv, NEW issuer \in Issuers, DiscoReturn(issuer)
  PROVE  IInv'
<1> DEFINE st == Unsealed
           snap == st.data.snapshot
           resumed == [st EXCEPT !.data.snapshot = NoSnapshot, !.data.front = snap.front,
                                 !.data.requester = RequesterOf[snap.request.flow]]
<1>1. Before /\ Usable(st)
  BY StartsFromUnsealed DEF DiscoReturn
<1>2. ASSUME Fail(st) PROVE GoodStep
  BY <1>1, <1>2, FailGood
<1>3. ASSUME /\ snap # NoSnapshot
             /\ FinishRequest(resumed, snap.front, snap.request, ResumeAfter(DiscoAt),
                              NoBackend, issuer)
      PROVE  GoodStep
  <2>1. /\ snap \in Snapshot /\ snap.request.runs = RanUpTo(DiscoAt)
    BY <1>1, <1>3 DEF Usable, GoodEnvelope, Envelope, Data
  <2>2. /\ snap.front \in Frontends /\ snap.request \in Request
    BY <2>1 DEF Snapshot, Request
  <2>5. /\ ResumeAfter(DiscoAt) \in 1 .. N + 1
        /\ snap.request.runs = RanUpTo(ResumeAfter(DiscoAt) - 1)
    BY <2>1, ChainType DEF ResumeAfter
  <2>6. Usable(resumed)
    BY <1>1, <1>3, ResumedUsable
  <2> HIDE DEF st, snap, resumed
  <2> QED
    BY <1>1, <1>3, <2>2, <2>5, <2>6, FinishRequestGood
<1>4. GoodStep
  BY <1>2, <1>3 DEF DiscoReturn
<1> QED
  BY <1>4, QuietHandlerKeepsIInv DEF DiscoReturn, IInv, TypeOK

LEMMA BackendDiscoKeeps ==
  ASSUME IInv, NEW b \in Backends, BackendDisco(b)
  PROVE  IInv'
<1> DEFINE st == Unsealed
           l == NewLogin(b, st.data.slot[b].asks)
           sent == [st EXCEPT !.data.slot[b].sent = l]
<1>1. Before /\ Usable(st)
  BY StartsFromUnsealed DEF BackendDisco
<1>2. /\ st.data.slot[b].asks \in Request \cup {NoRequest}
      /\ Complete(st.data.slot[b].asks)
  BY <1>1 DEF Usable, GoodEnvelope, Envelope, Data, Slot
<1>3. l \in Login /\ l.request = st.data.slot[b].asks /\ l.time = now
  BY <1>1, <1>2, NewLoginType
<1>4. Usable(sent)
  BY <1>1, <1>3, IssuedBefore, SentUsable
<1>5. Fail(st) \/ Redirected(sent, l)
  BY DEF BackendDisco
<1>6. GoodStep
  <2> HIDE DEF st, l, sent
  <2> QED
    BY <1>1, <1>2, <1>3, <1>4, <1>5, FailGood, RedirectedGood
<1> QED
  BY <1>6, QuietHandlerKeepsIInv DEF BackendDisco, IInv, TypeOK

LEMMA StepUpAcsKeeps ==
  ASSUME IInv, NEW l \in upstream, StepUpAcs(l)
  PROVE  IInv'
<1> DEFINE st == Unsealed
           susp == st.data.suspended
           resumed == [Forgotten(st) EXCEPT !.data.stepup = NoLogin]
<1>1. Before /\ Usable(st)
  BY StartsFromUnsealed DEF StepUpAcs
<1>2. Usable(Forgotten(st)) /\ Forgotten(st).iat = st.iat
  BY <1>1, ForgottenUsable
<1>3. Usable(resumed) /\ resumed.iat = st.iat
  BY <1>2, StepupUsable DEF Usable, Envelope
<1>4. spent' \subseteq Login
  BY DEF StepUpAcs, Redeem, IInv, TypeOK
<1>5. \/ Fail(st) \/ Fail(resumed)
      \/ /\ susp # NoSuspension
         /\ FinishResponse(resumed, susp.front, susp.login, susp.requester,
                           susp.runs, ResumeAfter(StepUpAt))
  BY DEF StepUpAcs
<1>6. ASSUME Fail(st) \/ Fail(resumed) PROVE GoodStep
  <2> HIDE DEF st, resumed
  <2> QED
    BY <1>1, <1>3, <1>6, FailGood
<1>7. ASSUME /\ susp # NoSuspension
             /\ FinishResponse(resumed, susp.front, susp.login, susp.requester,
                               susp.runs, ResumeAfter(StepUpAt))
      PROVE  GoodStep
  <2>1. /\ susp \in Suspension /\ susp.runs = RanUpTo(StepUpAt)
        /\ susp.login.time >= st.iat
    BY <1>1, <1>7 DEF Usable, GoodEnvelope, Envelope, Data
  <2>2. /\ susp.front \in Frontends /\ susp.login \in Login
        /\ susp.requester \in Requesters \cup {NoRequester}
    BY <2>1 DEF Suspension
  <2>3. /\ ResumeAfter(StepUpAt) \in 1 .. N + 1
        /\ susp.runs = RanUpTo(ResumeAfter(StepUpAt) - 1)
    BY <2>1, ChainType DEF ResumeAfter
  <2>4. susp.login.time >= resumed.iat
    BY <1>3, <2>1
  <2> HIDE DEF st, susp, resumed
  <2> QED
    BY <1>1, <1>3, <1>7, <2>2, <2>3, <2>4, FinishResponseGood
<1>8. GoodStep
  BY <1>5, <1>6, <1>7
<1> QED
  BY <1>4, <1>8, QuietHandlerKeepsIInv DEF StepUpAcs

LEMMA DeliverKeeps ==
  ASSUME IInv, NEW m \in wire, Deliver(m)
  PROVE  IInv'
<1>1. m \in Message /\ GoodMessage(m, now, started)
  BY DEF IInv, TypeOK
<1>2. jar' \in Envelope \cup {NoCookie} /\ (jar' # NoCookie => GoodEnvelope(jar', now, started))
  BY <1>1 DEF Deliver, Message, GoodMessage
<1>3. upstream' \subseteq Login /\ \A l \in upstream' : Complete(l.request)
  BY <1>1 DEF Deliver, Message, Body, GoodMessage, IInv, TypeOK
<1> QED
  BY <1>2, <1>3 DEF Deliver, IInv, TypeOK

LEMMA LoseKeeps ==
  ASSUME IInv, NEW m \in wire, Lose(m)
  PROVE  IInv'
BY DEF Lose, IInv, TypeOK

LEMMA TickKeeps ==
  ASSUME IInv, Tick
  PROVE  IInv'
<1>1. now \in Nat /\ now' = now + 1
  BY DEF Tick, IInv, TypeOK
<1>2. ASSUME NEW e \in Envelope, GoodEnvelope(e, now, started)
      PROVE  GoodEnvelope(e, now', started)
  BY <1>1, <1>2 DEF GoodEnvelope, Envelope
<1>3. ASSUME NEW m \in wire PROVE GoodMessage(m, now', started)
  <2>1. m \in Message /\ GoodMessage(m, now, started)
    BY DEF IInv, TypeOK
  <2> QED
    BY <1>2, <2>1 DEF GoodMessage, Message
<1>4. ASSUME NEW i \in DOMAIN answers PROVE GoodAnswer(answers[i], now', started)
  <2>1. answers[i] \in Answer /\ GoodAnswer(answers[i], now, started)
    BY DEF IInv, TypeOK
  <2> QED
    BY <1>1, <2>1 DEF GoodAnswer, Answer
<1>5. jar # NoCookie => GoodEnvelope(jar, now', started)
  BY <1>2 DEF IInv, TypeOK
<1> QED
  BY <1>1, <1>3, <1>4, <1>5 DEF Tick, IInv, TypeOK

----------------------------------------------------------------------------
(* Single use of a login, and redirects that carry their state             *)

(* A state a handler may seal: its suspension, if any, is one that lies in *)
(* the browser's cookie or on its way already.                             *)
Held(st) ==
  st.data.suspended # NoSuspension =>
    \E e \in Envelopes : /\ e.data.suspended = st.data.suspended
                         /\ e.data.stepup = st.data.stepup

(* The outcomes of a handler: nothing new is suspended and nobody is       *)
(* answered; `login` is suspended for a second one; `login` is answered.   *)
Sends(cookies) ==
  \A m \in wire' : m \in wire \/ (Carried(m) /\ m.cookie \in cookies \cup {NoCookie})
Quiet ==
  /\ answers' = answers
  /\ \E st : Held(st) /\ Sends({st})
Suspends(login) ==
  /\ answers' = answers
  /\ \E st : /\ st.data.suspended # NoSuspension /\ st.data.suspended.login = login
             /\ Sends({st})
Answers(login) ==
  /\ \E a : a.login = login /\ answers' = Append(answers, a)
  /\ Sends({})

LEMMA SendCarried ==
  ASSUME NEW st, NEW body, Carried([cookie |-> st, body |-> body]), Send(st, body)
  PROVE  Sends({st})
<1> DEFINE sealed == [cookie |-> st, body |-> body]
           failed == [cookie |-> NoCookie, body |-> Plain("error")]
<1>1. Carried(failed) /\ failed.cookie = NoCookie
  BY DEF Carried, Plain
<1>2. Carried(sealed) /\ sealed.cookie = st
  OBVIOUS
<1>3. wire' \subseteq wire \cup {sealed, failed}
  BY DEF Send
<1> HIDE DEF sealed, failed
<1> QED
  BY <1>1, <1>2, <1>3 DEF Sends

LEMMA FailSends ==
  ASSUME NEW st, Fail(st)
  PROVE  answers' = answers /\ Sends({st})
<1>1. Carried([cookie |-> st, body |-> Plain("error")])
  BY DEF Carried, Plain
<1> QED
  BY <1>1, SendCarried DEF Fail

LEMMA FailQuiet ==
  ASSUME NEW st, Held(st), Fail(st)
  PROVE  Quiet
BY FailSends DEF Quiet

LEMMA RedirectedSends ==
  ASSUME NEW st \in Envelope, NEW l, Redirected(st, l),
         IF l.at = StepUp
         THEN st.data.stepup = l /\ st.data.suspended # NoSuspension
         ELSE st.data.slot[l.at].sent = l
  PROVE  answers' = answers /\ Sends({st})
<1>1. Carried([cookie |-> st, body |-> Redirect(l)])
  BY NullAssumption DEF Carried, Redirect
<1> QED
  BY <1>1, SendCarried DEF Redirected

(* Only the slot of backend b changes, to s.                               *)
SlotBecomes(u, st, b, s) ==
  /\ u \in Envelope
  /\ u.data.slot[b] = s
  /\ \A c \in Backends : c # b => u.data.slot[c] = st.data.slot[c]
  /\ u.data.front = st.data.front /\ u.data.requester = st.data.requester
  /\ u.data.pending = st.data.pending /\ u.data.suspended = st.data.suspended
  /\ u.data.snapshot = st.data.snapshot /\ u.data.stepup = st.data.stepup

LEMMA SlotChanged ==
  ASSUME NEW st \in Envelope, NEW b \in Backends, NEW s \in Slot
  PROVE  SlotBecomes([st EXCEPT !.data.slot[b] = s], st, b, s)
<1> DEFINE u == [st EXCEPT !.data.slot[b] = s]
           slots == [st.data.slot EXCEPT ![b] = s]
           data == [st.data EXCEPT !.slot = slots]
<1>1. st.data \in Data /\ u = [st EXCEPT !.data = data]
  BY DEF Envelope
<1>2. /\ slots \in [Backends -> Slot] /\ slots[b] = s
      /\ \A c \in Backends : c # b => slots[c] = st.data.slot[c]
  BY <1>1 DEF Data
<1> HIDE DEF slots
<1>3. /\ data \in Data /\ data.slot = slots
      /\ data.front = st.data.front /\ data.requester = st.data.requester
      /\ data.pending = st.data.pending /\ data.suspended = st.data.suspended
      /\ data.snapshot = st.data.snapshot /\ data.stepup = st.data.stepup
  BY <1>1, <1>2 DEF Data
<1> HIDE DEF data, u
<1>4. u \in Envelope /\ u.data = data
  BY <1>1, <1>3 DEF Envelope
<1>5. SlotBecomes(u, st, b, s)
  BY <1>2, <1>3, <1>4 DEF SlotBecomes
<1> QED
  BY <1>5 DEF u

(* A login begun at a backend is remembered in the backend's slot.         *)
LEMMA SentQuiet ==
  ASSUME Before, NEW st \in Envelope, Held(st), NEW b \in Backends,
         NEW req \in Request \cup {NoRequest},
         Redirected([st EXCEPT !.data.slot[b].sent = NewLogin(b, req)], NewLogin(b, req))
  PROVE  Quiet
<1> DEFINE l == NewLogin(b, req)
           sent == [st EXCEPT !.data.slot[b].sent = l]
<1>1. l \in Login /\ l.at = b
  BY NewLoginType DEF NewLogin
<1>2. /\ sent.data.suspended = st.data.suspended /\ sent.data.stepup = st.data.stepup
      /\ sent \in Envelope /\ sent.data.slot[b].sent = l
  <2> DEFINE s == [st.data.slot[b] EXCEPT !.sent = l]
             u == [st EXCEPT !.data.slot[b] = s]
  <2> HIDE DEF l
  <2>1. s \in Slot /\ s.sent = l
    BY <1>1 DEF Envelope, Data, Slot
  <2>2. sent = u
    OBVIOUS
  <2>3. /\ u \in Envelope /\ u.data.slot[b] = s
        /\ u.data.suspended = st.data.suspended /\ u.data.stepup = st.data.stepup
        /\ u.data.snapshot = st.data.snapshot
    <3> HIDE DEF s
    <3> QED
      BY <2>1, SlotChanged DEF SlotBecomes
  <2> HIDE DEF sent, s, u
  <2> QED
    BY <2>1, <2>2, <2>3
<1>3. l.at # StepUp
  BY <1>1, NullAssumption
<1>4. Held(sent)
  <2> HIDE DEF sent
  <2> QED
    BY <1>2 DEF Held
<1>5. Redirected(sent, l)
  OBVIOUS
<1> HIDE DEF sent, l
<1> QED
  BY <1>1, <1>2, <1>3, <1>4, <1>5, RedirectedSends DEF Quiet

LEMMA StartAuthQuiet ==
  ASSUME Before, NEW st, Usable(st), Held(st), NEW b \in Backends, NEW req \in Request,
         NEW issuer, StartAuth(st, b, req, issuer),
         DiscoAt > 0 /\ issuer = NoIssuer => st.data.snapshot # NoSnapshot
  PROVE  Quiet
<1> DEFINE asked == [st EXCEPT !.data.slot[b].asks = req]
           sent == [asked EXCEPT !.data.slot[b].sent = NewLogin(b, req)]
<1>1. /\ asked \in Envelope
      /\ asked.data.suspended = st.data.suspended /\ asked.data.stepup = st.data.stepup
      /\ asked.data.snapshot = st.data.snapshot
  <2> DEFINE s == [st.data.slot[b] EXCEPT !.asks = req]
             u == [st EXCEPT !.data.slot[b] = s]
  <2>1. st \in Envelope /\ s \in Slot
    BY DEF Usable, Envelope, Data, Slot
  <2>2. asked = u
    OBVIOUS
  <2>3. /\ u \in Envelope /\ u.data.slot[b] = s
        /\ u.data.suspended = st.data.suspended /\ u.data.stepup = st.data.stepup
        /\ u.data.snapshot = st.data.snapshot
    <3> HIDE DEF s
    <3> QED
      BY <2>1, SlotChanged DEF SlotBecomes
  <2> HIDE DEF asked, s, u
  <2> QED
    BY <2>1, <2>2, <2>3
<1>2. \/ Fail(st) \/ Fail(asked)
      \/ /\ issuer = NoIssuer
         /\ Send(asked, Plain("discovery")) /\ UNCHANGED <<nextId, answers>>
      \/ Redirected(sent, NewLogin(b, req))
  BY DEF StartAuth
<1> HIDE DEF asked
<1>3. Held(asked)
  BY <1>1 DEF Held
<1>4. CASE Fail(st) \/ Fail(asked)
  BY <1>3, <1>4, FailQuiet
<1>5. CASE /\ issuer = NoIssuer
           /\ Send(asked, Plain("discovery")) /\ UNCHANGED <<nextId, answers>>
  <2>1. Carried([cookie |-> asked, body |-> Plain("discovery")])
    BY <1>1, <1>5, NullAssumption DEF Carried, Plain
  <2> QED
    BY <1>3, <1>5, <2>1, SendCarried DEF Quiet
<1>6. CASE Redirected(sent, NewLogin(b, req))
  BY <1>1, <1>3, <1>6, SentQuiet
<1> QED
  BY <1>2, <1>4, <1>5, <1>6

(* The request path changes no suspension, and what it sends to a          *)
(* discovery page has passed the service that snapshots it.                *)
LEMMA FinishRequestQuiet ==
  ASSUME Before, NEW st, Usable(st), Held(st), NEW front \in Frontends,
         NEW req \in Request, NEW from \in 1 .. N + 1, req.runs = RanUpTo(from - 1),
         NEW pin, NEW issuer, issuer = NoIssuer => from = 1,
         FinishRequest(st, front, req, from, pin, issuer)
  PROVE  Quiet
<1> DEFINE left(stop) == RequestState(st, front, req, from, stop)
           done(stop) == [req EXCEPT !.runs = After(@, from, stop)]
           b(stop) == Selected(req, from, stop, pin, issuer)
<1>1. PICK stop \in Stops(from) :
        \/ Fail(left(stop))
        \/ /\ stop = N + 1 /\ b(stop) \in Backends
           /\ StartAuth(left(stop), b(stop), done(stop), issuer)
  BY DEF FinishRequest
<1>2. stop \in from .. N + 1
  BY StopsRange
<1>3. Usable(left(stop))
  BY <1>2, RequestStateUsable
<1>4. /\ left(stop).data.suspended = st.data.suspended
      /\ left(stop).data.stepup = st.data.stepup
  BY DEF RequestState, Usable, Envelope, Data
<1>5. Held(left(stop))
  <2> HIDE DEF left
  <2> QED
    BY <1>4 DEF Held
<1>6. ASSUME stop = N + 1, DiscoAt > 0, issuer = NoIssuer
      PROVE  left(stop).data.snapshot # NoSnapshot
  <2> DEFINE snap == [front |-> front,
                      request |-> [req EXCEPT !.runs = After(@, from, DiscoAt + 1)]]
  <2>1. Ran(DiscoAt, from, stop)
    BY <1>6, ChainType DEF Ran
  <2>2. DiscoAt + 1 \in from .. N + 1
    BY <2>1, ChainType DEF Ran
  <2>3. After(req.runs, from, DiscoAt + 1) = RanUpTo(DiscoAt)
    BY <2>2, AfterRanUpTo, ChainType
  <2>4. RanUpTo(DiscoAt) \in Runs
    BY ChainType
  <2>5. snap \in Snapshot
    BY <2>3, <2>4 DEF Snapshot, Request
  <2>6. left(stop).data.snapshot = snap
    BY <2>1 DEF RequestState, Usable, Envelope, Data
  <2> QED
    BY <2>5, <2>6, NullAssumption
<1>7. ASSUME stop = N + 1 PROVE done(stop) \in Request
  <2>1. After(req.runs, from, stop) = RanUpTo(N)
    BY <1>2, <1>7, AfterRanUpTo, ChainType
  <2>2. RanUpTo(N) \in Runs
    BY ChainType
  <2> QED
    BY <2>1, <2>2 DEF Request
<1> HIDE DEF left, done, b
<1>8. CASE Fail(left(stop))
  BY <1>5, <1>8, FailQuiet
<1>9. CASE /\ stop = N + 1 /\ b(stop) \in Backends
           /\ StartAuth(left(stop), b(stop), done(stop), issuer)
  BY <1>3, <1>5, <1>6, <1>7, <1>9, StartAuthQuiet
<1> QED
  BY <1>1, <1>8, <1>9

LEMMA ClearSends ==
  ASSUME NEW kind \in {"answer", "error"}, SendAndClear(Plain(kind))
  PROVE  Sends({})
<1> DEFINE cleared == [cookie |-> NoCookie, body |-> Plain(kind)]
<1>1. Carried(cleared) /\ cleared.cookie = NoCookie
  BY DEF Carried, Plain
<1>2. wire' = wire \cup {cleared}
  BY DEF SendAndClear
<1> HIDE DEF cleared
<1> QED
  BY <1>1, <1>2 DEF Sends

LEMMA RenderOnce ==
  ASSUME NEW st, Held(st), NEW front, NEW login, NEW requester, NEW runs,
         Render(st, front, login, requester, runs)
  PROVE  Quiet \/ Answers(login)
<1> DEFINE answer == [flow |-> st.data.pending[front], requester |-> requester,
                      login |-> login, runs |-> runs, time |-> now]
<1>1. \/ Fail(st)
      \/ answers' = Append(answers, answer) /\ SendAndClear(Plain("answer"))
      \/ SendAndClear(Plain("error")) /\ UNCHANGED answers
  BY DEF Render
<1>2. answer.login = login
  OBVIOUS
<1> HIDE DEF answer
<1>3. CASE Fail(st)
  BY <1>3, FailQuiet
<1>4. CASE answers' = Append(answers, answer) /\ SendAndClear(Plain("answer"))
  <2>1. Sends({})
    BY <1>4, ClearSends
  <2> QED
    BY <1>2, <1>4, <2>1 DEF Answers
<1>5. CASE SendAndClear(Plain("error")) /\ UNCHANGED answers
  <2>1. Sends({})
    BY <1>5, ClearSends
  <2> QED
    BY <1>5, <2>1 DEF Quiet, Sends
<1> QED
  BY <1>1, <1>3, <1>4, <1>5

(* A response suspends or answers its own login, once; one that enters the *)
(* chain behind the step-up service is not suspended.                      *)
LEMMA FinishResponseOnce ==
  ASSUME Before, NEW st, Usable(st), Held(st), NEW front \in Frontends,
         NEW login \in Login, NEW requester \in Requesters \cup {NoRequester},
         NEW from \in 1 .. N + 1, NEW runs, runs = RanUpTo(from - 1),
         FinishResponse(st, front, login, requester, runs, from)
  PROVE  Quiet \/ (from <= StepUpAt /\ Suspends(login)) \/ Answers(login)
<1> DEFINE l == NewLogin(StepUp, NoRequest)
           susp == [front |-> front, login |-> login, requester |-> requester,
                    runs |-> After(runs, from, StepUpAt + 1)]
           suspended == [st EXCEPT !.data.suspended = susp]
           asked == [suspended EXCEPT !.data.stepup = l]
           left == IF Ran(StepUpAt, from, N + 1) THEN Forgotten(st) ELSE st
<1>1. \/ Fail(st) \/ Fail(Forgotten(st))
      \/ /\ Ran(StepUpAt, from, N + 1)
         /\ Fail(suspended) \/ Redirected(asked, l)
      \/ Render(left, front, login, requester, After(runs, from, N + 1))
  BY DEF FinishResponse
<1>2. Held(Forgotten(st)) /\ Held(left)
  BY DEF Held, Forgotten, Usable, Envelope, Data
<1>3. CASE Fail(st) \/ Fail(Forgotten(st))
  BY <1>2, <1>3, FailQuiet
<1>4. CASE /\ Ran(StepUpAt, from, N + 1)
           /\ Fail(suspended) \/ Redirected(asked, l)
  <2>1. StepUpAt + 1 \in from .. N + 1 /\ from <= StepUpAt
    BY <1>4, ChainType DEF Ran
  <2>2. After(runs, from, StepUpAt + 1) = RanUpTo(StepUpAt)
    BY <2>1, AfterRanUpTo, ChainType
  <2>3. RanUpTo(StepUpAt) \in Runs
    BY ChainType
  <2>4. susp \in Suspension /\ susp.login = login /\ susp # NoSuspension
    BY <2>2, <2>3, NullAssumption DEF Suspension
  <2>5. l \in Login /\ l.at = StepUp
    BY NewLoginType DEF NewLogin
  <2> HIDE DEF susp, l
  <2>6. suspended.data.suspended = susp /\ suspended \in Envelope
    BY <2>4 DEF Usable, Envelope, Data
  <2>7. /\ asked.data.suspended = susp /\ asked.data.stepup = l /\ asked \in Envelope
    BY <2>4, <2>5 DEF Usable, Envelope, Data
  <2> HIDE DEF suspended, asked
  <2>8. CASE Fail(suspended)
    BY <2>1, <2>4, <2>6, <2>8, FailSends DEF Suspends
  <2>9. CASE Redirected(asked, l)
    <3>1. answers' = answers /\ Sends({asked})
      BY <2>4, <2>5, <2>7, <2>9, RedirectedSends
    <3> QED
      BY <2>1, <2>4, <2>7, <3>1 DEF Suspends
  <2> QED
    BY <1>4, <2>8, <2>9
<1>5. CASE Render(left, front, login, requester, After(runs, from, N + 1))
  <2> HIDE DEF left
  <2> QED
    BY <1>2, <1>5, RenderOnce
<1> QED
  BY <1>1, <1>3, <1>4, <1>5

LEMMA UnsealedHeld ==
  ASSUME IInv
  PROVE  Held(Unsealed)
<1>1. CASE jar # NoCookie /\ now - jar.iat < TTL
  BY <1>1 DEF Unsealed, Held, Envelopes
<1>2. CASE ~(jar # NoCookie /\ now - jar.iat < TTL)
  BY <1>2 DEF Unsealed, Held, EmptyData
<1> QED
  BY <1>1, <1>2

----------------------------------------------------------------------------
(* What each outcome preserves                                             *)

LEMMA SendsKeepsCarried ==
  ASSUME RedirectCarriesState, NEW cookies, Sends(cookies)
  PROVE  RedirectCarriesState'
<1>1. \A m \in wire' : Carried(m)
  BY DEF RedirectCarriesState, Sends
<1> QED
  BY <1>1 DEF RedirectCarriesState, Carried

(* Every suspension there is afterwards there was before.                  *)
LEMMA NothingNewKeeps ==
  ASSUME SingleUse, answers' = answers, spent \subseteq spent',
         \A e \in Envelopes' : Held(e)
  PROVE  SingleUse'
<1>1. ASSUME NEW e \in Envelopes', e.data.suspended # NoSuspension
      PROVE  /\ e.data.suspended.login \in spent'
             /\ \A d \in Envelopes' :
                  /\ d.data.suspended # NoSuspension
                  /\ d.data.suspended.login = e.data.suspended.login
                  => d.data.stepup = e.data.stepup
             /\ \A i \in DOMAIN answers' :
                  answers'[i].login = e.data.suspended.login
                    => e.data.stepup \in spent' \cup {NoLogin}
  <2>1. PICK e0 \in Envelopes : /\ e0.data.suspended = e.data.suspended
                                /\ e0.data.stepup = e.data.stepup
    BY <1>1 DEF Held
  <2>2. ASSUME NEW d \in Envelopes', d.data.suspended # NoSuspension,
               d.data.suspended.login = e.data.suspended.login
        PROVE  d.data.stepup = e.data.stepup
    <3>1. PICK d0 \in Envelopes : /\ d0.data.suspended = d.data.suspended
                                  /\ d0.data.stepup = d.data.stepup
      BY <2>2 DEF Held
    <3> QED
      BY <1>1, <2>1, <2>2, <3>1 DEF SingleUse
  <2> QED
    BY <1>1, <2>1, <2>2 DEF SingleUse
<1>2. (\A i \in DOMAIN answers : answers[i].login \in spent)'
  BY DEF SingleUse
<1>3. OneAnswerPerLogin'
  BY DEF SingleUse, OneAnswerPerLogin
<1> QED
  BY <1>1, <1>2, <1>3 DEF SingleUse

LEMMA SentEnvelopes ==
  ASSUME UNCHANGED jar, NEW cookies, Sends(cookies)
  PROVE  Envelopes' \subseteq Envelopes \cup cookies
BY DEF Envelopes, Sends

LEMMA OldAreHeld ==
  ASSUME NEW e \in Envelopes
  PROVE  Held(e)
BY DEF Held

LEMMA QuietKeeps ==
  ASSUME SingleUse, RedirectCarriesState, Quiet, UNCHANGED jar, spent \subseteq spent'
  PROVE  SingleUse' /\ RedirectCarriesState'
<1>1. PICK st : Held(st) /\ Sends({st})
  BY DEF Quiet
<1>2. \A e \in Envelopes' : Held(e)
  BY <1>1, SentEnvelopes, OldAreHeld
<1> QED
  BY <1>1, <1>2, NothingNewKeeps, SendsKeepsCarried DEF Quiet

(* A login redeemed just now is neither suspended nor answered yet.        *)
LEMMA SuspendsKeeps ==
  ASSUME SingleUse, RedirectCarriesState, NEW l, l \notin spent, spent' = spent \cup {l},
         Suspends(l), UNCHANGED jar
  PROVE  SingleUse' /\ RedirectCarriesState'
<1>1. PICK st : /\ st.data.suspended # NoSuspension /\ st.data.suspended.login = l
                /\ Sends({st})
  BY DEF Suspends
<1>2. Envelopes' \subseteq Envelopes \cup {st} /\ answers' = answers
  BY <1>1, SentEnvelopes DEF Suspends
<1>3. ASSUME NEW e \in Envelopes', e.data.suspended # NoSuspension
      PROVE  /\ e.data.suspended.login \in spent'
             /\ \A d \in Envelopes' :
                  /\ d.data.suspended # NoSuspension
                  /\ d.data.suspended.login = e.data.suspended.login
                  => d.data.stepup = e.data.stepup
             /\ \A i \in DOMAIN answers' :
                  answers'[i].login = e.data.suspended.login
                    => e.data.stepup \in spent' \cup {NoLogin}
  <2>1. CASE e \in Envelopes
    <3>1. e.data.suspended.login \in spent /\ e.data.suspended.login # l
      BY <1>3, <2>1 DEF SingleUse
    <3>2. \A d \in Envelopes' : d.data.suspended.login = e.data.suspended.login => d \in Envelopes
      BY <1>1, <1>2, <3>1
    <3> QED
      BY <1>2, <1>3, <2>1, <3>1, <3>2 DEF SingleUse
  <2>2. CASE e = st
    <3>1. \A d \in Envelopes' :
            d.data.suspended # NoSuspension /\ d.data.suspended.login = l => d = st
      BY <1>2 DEF SingleUse
    <3>2. \A i \in DOMAIN answers' : answers'[i].login # l
      BY <1>2 DEF SingleUse
    <3> QED
      BY <1>1, <2>2, <3>1, <3>2
  <2> QED
    BY <1>2, <2>1, <2>2
<1>4. (\A i \in DOMAIN answers : answers[i].login \in spent)' /\ OneAnswerPerLogin'
  BY <1>2 DEF SingleUse, OneAnswerPerLogin
<1> QED
  BY <1>1, <1>3, <1>4, SendsKeepsCarried DEF SingleUse

(* A login is answered that no answer has used, and whatever still waits   *)
(* with it waits for a second login that is spent.                         *)
LEMMA AnswersKeeps ==
  ASSUME SingleUse, RedirectCarriesState, answers \in Seq(Answer), NEW login,
         \A i \in DOMAIN answers : answers[i].login # login,
         spent \subseteq spent', login \in spent',
         \A e \in Envelopes :
           e.data.suspended # NoSuspension /\ e.data.suspended.login = login
             => e.data.stepup \in spent',
         Answers(login), UNCHANGED jar
  PROVE  SingleUse' /\ RedirectCarriesState'
<1>1. PICK a : a.login = login /\ answers' = Append(answers, a)
  BY DEF Answers
<1>2. Sends({}) /\ Envelopes' \subseteq Envelopes
  BY SentEnvelopes DEF Answers
<1>3. /\ Len(answers) \in Nat /\ DOMAIN answers = 1 .. Len(answers)
      /\ DOMAIN answers' = 1 .. Len(answers) + 1
      /\ answers'[Len(answers) + 1] = a
      /\ \A i \in DOMAIN answers : answers'[i] = answers[i]
  BY <1>1
<1>4. ASSUME NEW i \in DOMAIN answers'
      PROVE  \/ i \in DOMAIN answers /\ answers'[i].login = answers[i].login
             \/ i = Len(answers) + 1 /\ answers'[i].login = login
  BY <1>1, <1>3
<1>5. (\A i \in DOMAIN answers : answers[i].login \in spent)'
  BY <1>4 DEF SingleUse
<1>6. OneAnswerPerLogin'
  <2>1. ASSUME NEW i \in DOMAIN answers', NEW j \in DOMAIN answers',
               answers'[i].login = answers'[j].login
        PROVE  i = j
    BY <1>4, <2>1 DEF SingleUse, OneAnswerPerLogin
  <2> QED
    BY <2>1 DEF OneAnswerPerLogin
<1>7. ASSUME NEW e \in Envelopes', e.data.suspended # NoSuspension
      PROVE  /\ e.data.suspended.login \in spent'
             /\ \A d \in Envelopes' :
                  /\ d.data.suspended # NoSuspension
                  /\ d.data.suspended.login = e.data.suspended.login
                  => d.data.stepup = e.data.stepup
             /\ \A i \in DOMAIN answers' :
                  answers'[i].login = e.data.suspended.login
                    => e.data.stepup \in spent' \cup {NoLogin}
  BY <1>2, <1>4, <1>7 DEF SingleUse
<1> QED
  BY <1>2, <1>5, <1>6, <1>7, SendsKeepsCarried DEF SingleUse

----------------------------------------------------------------------------
(* One lemma per action                                                    *)

LEMMA AuthorizeQuiet ==
  ASSUME IInv, NEW f \in Flows, Authorize(f)
  PROVE  Quiet
<1> DEFINE front == FrontendOf[f]
           st == Recorded(Unsealed, f, front)
           req == [flow |-> f, runs |-> NoRuns]
<1>1. Before /\ Usable(st)
  BY AuthorizeBegins
<1>2. front \in Frontends
  BY ModuleAssumption
<1>3. Unsealed \in Envelope
  BY UnsealedGood
<1>4. /\ st.data.suspended = Unsealed.data.suspended
      /\ st.data.stepup = Unsealed.data.stepup
  BY <1>3 DEF Recorded, Envelope, Data
<1>5. Held(st)
  <2> HIDE DEF st
  <2> QED
    BY <1>4, UnsealedHeld DEF Held
<1>6. req \in Request /\ req.runs = RanUpTo(1 - 1) /\ 1 \in 1 .. N + 1
  BY NoRunsIsStart, ChainType DEF Request
<1>7. FinishRequest(st, front, req, 1, Pin[front], NoIssuer)
  BY DEF Authorize
<1> HIDE DEF st, front, req
<1> QED
  BY <1>1, <1>2, <1>5, <1>6, <1>7, FinishRequestQuiet

LEMMA PageQuiet ==
  ASSUME IInv, Page
  PROVE  Quiet
<1>1. Carried([cookie |-> Unsealed, body |-> Plain("page")])
  BY DEF Carried, Plain
<1> QED
  BY <1>1, SendCarried, UnsealedHeld DEF Page, Quiet

LEMMA DiscoReturnQuiet ==
  ASSUME IInv, NEW issuer \in Issuers, DiscoReturn(issuer)
  PROVE  Quiet
<1> DEFINE st == Unsealed
           snap == st.data.snapshot
           resumed == [st EXCEPT !.data.snapshot = NoSnapshot, !.data.front = snap.front,
                                 !.data.requester = RequesterOf[snap.request.flow]]
<1>1. Before /\ Usable(st) /\ Held(st)
  BY StartsFromUnsealed, UnsealedHeld DEF DiscoReturn
<1>2. ASSUME Fail(st) PROVE Quiet
  BY <1>1, <1>2, FailQuiet
<1>3. ASSUME /\ snap # NoSnapshot
             /\ FinishRequest(resumed, snap.front, snap.request, ResumeAfter(DiscoAt),
                              NoBackend, issuer)
      PROVE  Quiet
  <2>1. /\ snap \in Snapshot /\ snap.request.runs = RanUpTo(DiscoAt)
    BY <1>1, <1>3 DEF Usable, GoodEnvelope, Envelope, Data
  <2>2. /\ snap.front \in Frontends /\ snap.request \in Request
    BY <2>1 DEF Snapshot, Request
  <2>3. Usable(resumed)
    BY <1>1, <1>3, ResumedUsable
  <2>4. /\ resumed.data.suspended = st.data.suspended
        /\ resumed.data.stepup = st.data.stepup
    BY <1>1 DEF Usable, Envelope, Data
  <2>5. /\ ResumeAfter(DiscoAt) \in 1 .. N + 1
        /\ snap.request.runs = RanUpTo(ResumeAfter(DiscoAt) - 1)
    BY <2>1, ChainType DEF ResumeAfter
  <2>6. issuer # NoIssuer
    BY NullAssumption
  <2> HIDE DEF st, snap, resumed
  <2>7. Held(resumed)
    BY <1>1, <2>4 DEF Held
  <2> QED
    BY <1>1, <1>3, <2>2, <2>3, <2>5, <2>6, <2>7, FinishRequestQuiet
<1> QED
  BY <1>2, <1>3 DEF DiscoReturn

LEMMA BackendDiscoQuiet ==
  ASSUME IInv, NEW b \in Backends, BackendDisco(b)
  PROVE  Quiet
<1>1. Before /\ Usable(Unsealed) /\ Held(Unsealed)
  BY StartsFromUnsealed, UnsealedHeld DEF BackendDisco
<1>2. Unsealed \in Envelope /\ Unsealed.data.slot[b].asks \in Request \cup {NoRequest}
  BY <1>1 DEF Usable, Envelope, Data, Slot
<1> QED
  BY <1>1, <1>2, FailQuiet, SentQuiet DEF BackendDisco

LEMMA CallbackKeepsSingleUse ==
  ASSUME IInv, SingleUse, RedirectCarriesState, NEW l \in upstream, Callback(l)
  PROVE  SingleUse' /\ RedirectCarriesState'
<1> DEFINE st == Unsealed
           cleared == [st EXCEPT !.data.slot[l.at] = NoSlot]
<1>1. Before /\ Usable(st) /\ Held(st)
  BY StartsFromUnsealed, UnsealedHeld DEF Callback
<1>2. l \in Login /\ l.at \in Backends /\ answers \in Seq(Answer)
  BY DEF Callback, IInv, TypeOK
<1>3. Usable(cleared)
  BY <1>1, <1>2, ClearedUsable
<1>4. /\ cleared.data.suspended = st.data.suspended
      /\ cleared.data.stepup = st.data.stepup
  BY <1>1 DEF Usable, Envelope, Data
<1>5. spent \subseteq spent' /\ UNCHANGED jar
  BY DEF Callback, Redeem
<1>6. \/ Fail(st) \/ Fail(cleared)
      \/ /\ l \notin spent /\ spent' = spent \cup {l}
         /\ cleared.data.front # NoFrontend
         /\ FinishResponse(cleared, cleared.data.front, l, cleared.data.requester, NoRuns, 1)
  BY DEF Callback, AuthResponse, Redeem
<1> HIDE DEF st, cleared
<1>7. Held(cleared)
  BY <1>1, <1>4 DEF Held
<1>8. CASE Fail(st) \/ Fail(cleared)
  BY <1>1, <1>5, <1>7, <1>8, FailQuiet, QuietKeeps
<1>9. CASE /\ l \notin spent /\ spent' = spent \cup {l}
           /\ cleared.data.front # NoFrontend
           /\ FinishResponse(cleared, cleared.data.front, l, cleared.data.requester,
                             NoRuns, 1)
  <2>1. /\ cleared.data.front \in Frontends
        /\ cleared.data.requester \in Requesters \cup {NoRequester}
    BY <1>3, <1>9 DEF Usable, Envelope, Data
  <2>2. 1 \in 1 .. N + 1 /\ NoRuns = RanUpTo(1 - 1)
    BY ChainType, NoRunsIsStart
  <2>3. Quiet \/ Suspends(l) \/ Answers(l)
    BY <1>1, <1>2, <1>3, <1>7, <1>9, <2>1, <2>2, FinishResponseOnce
  <2>4. CASE Quiet
    BY <1>5, <2>4, QuietKeeps
  <2>5. CASE Suspends(l)
    BY <1>5, <1>9, <2>5, SuspendsKeeps
  <2>6. CASE Answers(l)
    <3>1. /\ \A i \in DOMAIN answers : answers[i].login # l
          /\ \A e \in Envelopes :
               ~(e.data.suspended # NoSuspension /\ e.data.suspended.login = l)
      BY <1>9 DEF SingleUse
    <3>2. l \in spent'
      BY <1>9
    <3> QED
      BY <1>2, <1>5, <2>6, <3>1, <3>2, AnswersKeeps
  <2> QED
    BY <2>3, <2>4, <2>5, <2>6
<1> QED
  BY <1>6, <1>8, <1>9

LEMMA StepUpAcsKeepsSingleUse ==
  ASSUME IInv, SingleUse, RedirectCarriesState, NEW l \in upstream, StepUpAcs(l)
  PROVE  SingleUse' /\ RedirectCarriesState'
<1> DEFINE st == Unsealed
           susp == st.data.suspended
           resumed == [Forgotten(st) EXCEPT !.data.stepup = NoLogin]
<1>1. Before /\ Usable(st) /\ Held(st)
  BY StartsFromUnsealed, UnsealedHeld DEF StepUpAcs
<1>2. Usable(Forgotten(st))
  BY <1>1, ForgottenUsable
<1>3. Usable(resumed)
  BY <1>2, StepupUsable
<1>4. Held(resumed)
  BY <1>1 DEF Held, Forgotten, Usable, Envelope, Data
<1>5. spent \subseteq spent' /\ UNCHANGED jar
  BY DEF StepUpAcs, Redeem
<1>6. l \in Login /\ l # NoLogin /\ answers \in Seq(Answer)
  BY NullAssumption DEF IInv, TypeOK
<1>7. \/ Fail(st) \/ Fail(resumed)
      \/ /\ susp # NoSuspension /\ st.data.stepup = l
         /\ l \notin spent /\ spent' = spent \cup {l}
         /\ FinishResponse(resumed, susp.front, susp.login, susp.requester,
                           susp.runs, ResumeAfter(StepUpAt))
  BY DEF StepUpAcs, Redeem, Matches
<1>8. CASE Fail(st) \/ Fail(resumed)
  <2> HIDE DEF st, resumed
  <2> QED
    BY <1>1, <1>4, <1>5, <1>8, FailQuiet, QuietKeeps
<1>9. CASE /\ susp # NoSuspension /\ st.data.stepup = l
           /\ l \notin spent /\ spent' = spent \cup {l}
           /\ FinishResponse(resumed, susp.front, susp.login, susp.requester,
                             susp.runs, ResumeAfter(StepUpAt))
  <2>1. /\ susp \in Suspension /\ susp.runs = RanUpTo(StepUpAt)
    BY <1>1, <1>9 DEF Usable, GoodEnvelope, Envelope, Data
  <2>2. /\ susp.front \in Frontends /\ susp.login \in Login
        /\ susp.requester \in Requesters \cup {NoRequester}
    BY <2>1 DEF Suspension
  <2>3. /\ ResumeAfter(StepUpAt) \in 1 .. N + 1 /\ ~(ResumeAfter(StepUpAt) <= StepUpAt)
        /\ susp.runs = RanUpTo(ResumeAfter(StepUpAt) - 1)
    BY <2>1, ChainType DEF ResumeAfter
  <2>4. PICK e0 \in Envelopes : e0.data.suspended = susp /\ e0.data.stepup = l
    BY <1>1, <1>9 DEF Held
  <2> HIDE DEF st, susp, resumed
  <2>5. Quiet \/ Answers(susp.login)
    BY <1>1, <1>3, <1>4, <1>9, <2>2, <2>3, FinishResponseOnce
  <2>6. CASE Quiet
    BY <1>5, <2>6, QuietKeeps
  <2>7. CASE Answers(susp.login)
    <3>1. susp.login \in spent
      BY <1>9, <2>4 DEF SingleUse
    <3>2. \A i \in DOMAIN answers : answers[i].login # susp.login
      BY <1>6, <1>9, <2>4 DEF SingleUse
    <3>3. \A e \in Envelopes :
            e.data.suspended # NoSuspension /\ e.data.suspended.login = susp.login
              => e.data.stepup \in spent'
      BY <1>9, <2>4 DEF SingleUse
    <3> QED
      BY <1>5, <1>6, <2>7, <3>1, <3>2, <3>3, AnswersKeeps
  <2> QED
    BY <2>5, <2>6, <2>7
<1> QED
  BY <1>7, <1>8, <1>9

(* The browser itself makes no envelope and no answer.                     *)
LEMMA BrowserKeepsSingleUse ==
  ASSUME SingleUse, RedirectCarriesState, Envelopes' \subseteq Envelopes,
         wire' \subseteq wire, UNCHANGED <<spent, answers>>
  PROVE  SingleUse' /\ RedirectCarriesState'
<1>1. SingleUse'
  BY OldAreHeld, NothingNewKeeps
<1>2. Sends({})
  BY DEF Sends
<1> QED
  BY <1>1, <1>2, SendsKeepsCarried

(* Every step keeps the single use of logins and the redirects' state.     *)
LEMMA NextSingleUse ==
  IInv /\ SingleUse /\ RedirectCarriesState /\ [Next]_vars
    => SingleUse' /\ RedirectCarriesState'
<1> SUFFICES ASSUME IInv, SingleUse, RedirectCarriesState, [Next]_vars
             PROVE  SingleUse' /\ RedirectCarriesState'
  OBVIOUS
<1>1. ASSUME NEW f \in Flows, Authorize(f) PROVE SingleUse' /\ RedirectCarriesState'
  <2>1. Quiet
    BY <1>1, AuthorizeQuiet
  <2> QED
    BY <1>1, <2>1, QuietKeeps DEF Authorize
<1>2. CASE Page
  <2>1. Quiet
    BY <1>2, PageQuiet
  <2> QED
    BY <1>2, <2>1, QuietKeeps DEF Page
<1>3. ASSUME NEW l \in upstream, Callback(l) PROVE SingleUse' /\ RedirectCarriesState'
  BY <1>3, CallbackKeepsSingleUse
<1>4. ASSUME NEW issuer \in Issuers, DiscoReturn(issuer)
      PROVE  SingleUse' /\ RedirectCarriesState'
  <2>1. Quiet
    BY <1>4, DiscoReturnQuiet
  <2> QED
    BY <1>4, <2>1, QuietKeeps DEF DiscoReturn
<1>5. ASSUME NEW b \in Backends, BackendDisco(b) PROVE SingleUse' /\ RedirectCarriesState'
  <2>1. Quiet
    BY <1>5, BackendDiscoQuiet
  <2> QED
    BY <1>5, <2>1, QuietKeeps DEF BackendDisco
<1>6. ASSUME NEW l \in upstream, StepUpAcs(l) PROVE SingleUse' /\ RedirectCarriesState'
  BY <1>6, StepUpAcsKeepsSingleUse
<1>7. ASSUME NEW m \in wire, Deliver(m) PROVE SingleUse' /\ RedirectCarriesState'
  <2>1. Envelopes' \subseteq Envelopes /\ wire' \subseteq wire
    BY <1>7 DEF Deliver, Envelopes
  <2> QED
    BY <1>7, <2>1, BrowserKeepsSingleUse DEF Deliver
<1>8. ASSUME NEW m \in wire, Lose(m) PROVE SingleUse' /\ RedirectCarriesState'
  <2>1. Envelopes' \subseteq Envelopes /\ wire' \subseteq wire
    BY <1>8 DEF Lose, Envelopes
  <2> QED
    BY <1>8, <2>1, BrowserKeepsSingleUse DEF Lose
<1>9. CASE Tick \/ UNCHANGED vars
  <2>1. Envelopes' \subseteq Envelopes /\ wire' \subseteq wire
    BY <1>9 DEF Tick, vars, Envelopes
  <2> QED
    BY <1>9, <2>1, BrowserKeepsSingleUse DEF Tick, vars
<1> QED
  BY <1>1, <1>2, <1>3, <1>4, <1>5, <1>6, <1>7, <1>8, <1>9 DEF Next

(* Nothing was suspended, sent or answered at the start.                   *)
LEMMA InitSingleUse == Init => SingleUse /\ RedirectCarriesState
BY DEF Init, SingleUse, Envelopes, OneAnswerPerLogin, RedirectCarriesState

----------------------------------------------------------------------------
(* What a handler adds to the envelopes and the logins                     *)

(* Sending adds one envelope, and one login if it is a redirect to one.    *)
LEMMA SendAdds ==
  ASSUME NEW st, NEW body, Send(st, body), UNCHANGED <<jar, upstream>>
  PROVE  /\ Envelopes' \subseteq Envelopes \cup {st}
         /\ \A l \in Begun' : l \in Begun \/ (body.kind = "login" /\ l = body.login)
<1> DEFINE sealed == [cookie |-> st, body |-> body]
           failed == [cookie |-> NoCookie, body |-> Plain("error")]
<1>1. failed.cookie = NoCookie /\ failed.body.kind # "login"
  BY DEF Plain
<1>2. sealed.cookie = st /\ sealed.body = body
  OBVIOUS
<1>3. wire' \subseteq wire \cup {sealed, failed}
  BY DEF Send
<1> HIDE DEF sealed, failed
<1>4. Envelopes' \subseteq Envelopes \cup {st}
  BY <1>1, <1>2, <1>3 DEF Envelopes
<1>5. ASSUME NEW m \in wire', m.body.kind = "login"
      PROVE  m.body.login \in Begun \/ (body.kind = "login" /\ m.body.login = body.login)
  BY <1>1, <1>2, <1>3, <1>5 DEF Begun
<1> QED
  BY <1>4, <1>5 DEF Begun

LEMMA FailAdds ==
  ASSUME NEW st, Fail(st), UNCHANGED <<jar, upstream>>
  PROVE  /\ answers' = answers /\ Envelopes' \subseteq Envelopes \cup {st}
         /\ Begun' \subseteq Begun
<1>1. Plain("error").kind # "login" /\ Plain("discovery").kind # "login"
  BY DEF Plain
<1> QED
  BY <1>1, SendAdds DEF Fail

LEMMA RedirectedAdds ==
  ASSUME NEW st, NEW l, Redirected(st, l), UNCHANGED <<jar, upstream>>
  PROVE  /\ answers' = answers /\ Envelopes' \subseteq Envelopes \cup {st}
         /\ Begun' \subseteq Begun \cup {l}
<1>1. Redirect(l).login = l
  BY DEF Redirect
<1> QED
  BY <1>1, SendAdds DEF Redirected

LEMMA ClearAdds ==
  ASSUME NEW kind \in {"answer", "error"}, SendAndClear(Plain(kind)),
         UNCHANGED <<jar, upstream>>
  PROVE  Envelopes' \subseteq Envelopes /\ Begun' \subseteq Begun
<1> DEFINE cleared == [cookie |-> NoCookie, body |-> Plain(kind)]
<1>1. cleared.cookie = NoCookie /\ cleared.body.kind # "login"
  BY DEF Plain
<1>2. wire' = wire \cup {cleared}
  BY DEF SendAndClear
<1> HIDE DEF cleared
<1> QED
  BY <1>1, <1>2 DEF Envelopes, Begun

(* Rendering fails, clears the session with an error, or answers.          *)
LEMMA RenderAdds ==
  ASSUME NEW st, NEW front, NEW login, NEW requester, NEW runs,
         Render(st, front, login, requester, runs), UNCHANGED <<jar, upstream>>
  PROVE  /\ Envelopes' \subseteq Envelopes \cup {st} /\ Begun' \subseteq Begun
         /\ \/ answers' = answers
            \/ \E a : /\ answers' = Append(answers, a) /\ Envelopes' \subseteq Envelopes
                      /\ a.login = login /\ a.requester = requester
                      /\ a.flow = st.data.pending[front] /\ a.flow # NoFlow
                      /\ a.time = now
<1> DEFINE answer == [flow |-> st.data.pending[front], requester |-> requester,
                      login |-> login, runs |-> runs, time |-> now]
<1>1. \/ Fail(st)
      \/ /\ answers' = Append(answers, answer) /\ SendAndClear(Plain("answer"))
         /\ answer.flow # NoFlow
      \/ SendAndClear(Plain("error")) /\ UNCHANGED answers
  BY DEF Render
<1>2. /\ answer.login = login /\ answer.requester = requester
      /\ answer.flow = st.data.pending[front] /\ answer.time = now
  OBVIOUS
<1> HIDE DEF answer
<1>3. CASE Fail(st)
  BY <1>3, FailAdds
<1>4. CASE /\ answers' = Append(answers, answer) /\ SendAndClear(Plain("answer"))
           /\ answer.flow # NoFlow
  <2>1. Envelopes' \subseteq Envelopes /\ Begun' \subseteq Begun
    BY <1>4, ClearAdds
  <2> QED
    BY <1>2, <1>4, <2>1
<1>5. CASE SendAndClear(Plain("error")) /\ UNCHANGED answers
  <2>1. Envelopes' \subseteq Envelopes /\ Begun' \subseteq Begun
    BY <1>5, ClearAdds
  <2> QED
    BY <1>5, <2>1
<1> QED
  BY <1>1, <1>3, <1>4, <1>5

(* The two updates of a slot: the constraints stored, the login expected.  *)
LEMMA AsksChanged ==
  ASSUME NEW st \in Envelope, NEW b \in Backends, NEW req \in Request \cup {NoRequest}
  PROVE  /\ [st.data.slot[b] EXCEPT !.asks = req] \in Slot
         /\ SlotBecomes([st EXCEPT !.data.slot[b].asks = req], st, b,
                        [st.data.slot[b] EXCEPT !.asks = req])
<1> DEFINE s == [st.data.slot[b] EXCEPT !.asks = req]
<1>1. s \in Slot
  BY DEF Envelope, Data, Slot
<1>2. [st EXCEPT !.data.slot[b].asks = req] = [st EXCEPT !.data.slot[b] = s]
  OBVIOUS
<1> HIDE DEF s
<1>3. SlotBecomes([st EXCEPT !.data.slot[b] = s], st, b, s)
  BY <1>1, SlotChanged
<1> QED
  BY <1>1, <1>2, <1>3 DEF s

LEMMA SentChanged ==
  ASSUME NEW st \in Envelope, NEW b \in Backends, NEW l \in Login
  PROVE  /\ [st.data.slot[b] EXCEPT !.sent = l] \in Slot
         /\ SlotBecomes([st EXCEPT !.data.slot[b].sent = l], st, b,
                        [st.data.slot[b] EXCEPT !.sent = l])
<1> DEFINE s == [st.data.slot[b] EXCEPT !.sent = l]
<1>1. s \in Slot
  BY DEF Envelope, Data, Slot
<1>2. [st EXCEPT !.data.slot[b].sent = l] = [st EXCEPT !.data.slot[b] = s]
  OBVIOUS
<1> HIDE DEF s
<1>3. SlotBecomes([st EXCEPT !.data.slot[b] = s], st, b, s)
  BY <1>1, SlotChanged
<1> QED
  BY <1>1, <1>2, <1>3 DEF s

(* What start_auth seals: nothing but the slot of its backend changes, and *)
(* a login it begins waits there.                                          *)
Begins(st, u, b, req) ==
  /\ answers' = answers /\ Envelopes' \subseteq Envelopes \cup {u}
  /\ u \in Envelope
  /\ u.data.front = st.data.front /\ u.data.requester = st.data.requester
  /\ u.data.pending = st.data.pending /\ u.data.suspended = st.data.suspended
  /\ u.data.snapshot = st.data.snapshot
  /\ \A c \in Backends : c # b => u.data.slot[c] = st.data.slot[c]
  /\ u.data.slot[b].asks \in {st.data.slot[b].asks, req}
  /\ \A l \in Begun' \ Begun :
       l.at = b /\ l.request = req /\ l.time = now /\ u.data.slot[b].sent = l

(* Whatever start_auth does, it begins at most its own login.              *)
LEMMA StartAuthAdds ==
  ASSUME Before, NEW st \in Envelope, NEW b \in Backends, NEW req \in Request, NEW issuer,
         StartAuth(st, b, req, issuer), UNCHANGED <<jar, upstream>>
  PROVE  \E u : Begins(st, u, b, req)
<1> DEFINE asked == [st EXCEPT !.data.slot[b].asks = req]
           slot == [st.data.slot[b] EXCEPT !.asks = req]
           l == NewLogin(b, req)
           sent == [asked EXCEPT !.data.slot[b].sent = l]
           last == [asked.data.slot[b] EXCEPT !.sent = l]
<1>1. l \in Login /\ l.at = b /\ l.request = req /\ l.time = now
  BY NewLoginType DEF NewLogin
<1>2. slot \in Slot /\ SlotBecomes(asked, st, b, slot)
  BY AsksChanged
<1>3. slot.asks = req
  BY DEF Envelope, Data, Slot
<1>4. \/ Fail(IF b \in Discovering THEN asked ELSE st)
      \/ Send(asked, Plain("discovery")) /\ UNCHANGED <<nextId, answers>>
      \/ Redirected(sent, l)
  BY DEF StartAuth
<1> HIDE DEF l, asked, slot
<1>5. last \in Slot /\ SlotBecomes(sent, asked, b, last)
  <2>1. asked \in Envelope
    BY <1>2 DEF SlotBecomes
  <2> QED
    BY <1>1, <2>1, SentChanged
<1>6. last.asks = req /\ last.sent = l
  BY <1>2, <1>3 DEF SlotBecomes, Slot
<1> HIDE DEF sent, last
<1>7. CASE Fail(st)
  <2>1. /\ answers' = answers /\ Envelopes' \subseteq Envelopes \cup {st}
        /\ Begun' \subseteq Begun
    BY <1>7, FailAdds
  <2>2. Begins(st, st, b, req)
    BY <2>1 DEF Begins
  <2> QED
    BY <2>2
<1>8. CASE Fail(asked) \/ (Send(asked, Plain("discovery")) /\ UNCHANGED answers)
  <2>1. Plain("discovery").kind # "login"
    BY DEF Plain
  <2>2. /\ answers' = answers /\ Envelopes' \subseteq Envelopes \cup {asked}
        /\ Begun' \subseteq Begun
    BY <1>8, <2>1, FailAdds, SendAdds
  <2>3. Begins(st, asked, b, req)
    BY <1>2, <1>3, <2>2 DEF Begins, SlotBecomes
  <2> QED
    BY <2>3
<1>9. CASE Redirected(sent, l)
  <2>1. /\ answers' = answers /\ Envelopes' \subseteq Envelopes \cup {sent}
        /\ Begun' \subseteq Begun \cup {l}
    BY <1>9, RedirectedAdds
  <2>2. Begins(st, sent, b, req)
    BY <1>1, <1>2, <1>5, <1>6, <2>1 DEF Begins, SlotBecomes
  <2> QED
    BY <2>2
<1>10. \/ Fail(st) \/ Fail(asked)
       \/ Send(asked, Plain("discovery")) /\ UNCHANGED answers
       \/ Redirected(sent, l)
  BY <1>4
<1> QED
  BY <1>7, <1>8, <1>9, <1>10

(* The part of the state that decides who is answered from which login.    *)
SameTabs(u, st) ==
  /\ u.data.front = st.data.front /\ u.data.requester = st.data.requester
  /\ u.data.pending = st.data.pending /\ u.data.suspended = st.data.suspended
  /\ u.data.slot = st.data.slot

(* The chain changes no tab: it fails, or starts at the selected backend   *)
(* on behalf of the request.                                               *)
LEMMA FinishRequestStarts ==
  ASSUME Before, NEW st, Usable(st), NEW front \in Frontends, NEW req \in Request,
         NEW from \in 1 .. N + 1, req.runs = RanUpTo(from - 1), NEW pin, NEW issuer,
         FinishRequest(st, front, req, from, pin, issuer)
  PROVE  \E left \in Envelope :
           /\ SameTabs(left, st)
           /\ \/ left.data.snapshot = st.data.snapshot
              \/ left.data.snapshot.request.flow = req.flow
           /\ \/ Fail(left)
              \/ \E b \in Backends : \E done \in Request :
                   /\ done.flow = req.flow /\ b = Selected(req, from, N + 1, pin, issuer)
                   /\ StartAuth(left, b, done, issuer)
<1> DEFINE left(stop) == RequestState(st, front, req, from, stop)
           done(stop) == [req EXCEPT !.runs = After(@, from, stop)]
           b(stop) == Selected(req, from, stop, pin, issuer)
<1>1. PICK stop \in Stops(from) :
        \/ Fail(left(stop))
        \/ /\ stop = N + 1 /\ b(stop) \in Backends
           /\ StartAuth(left(stop), b(stop), done(stop), issuer)
  BY DEF FinishRequest
<1>2. stop \in from .. N + 1
  BY StopsRange
<1>3. left(stop) \in Envelope
  BY <1>2, RequestStateUsable DEF Usable
<1>4. SameTabs(left(stop), st)
  BY DEF SameTabs, RequestState, Usable, Envelope, Data
<1>5. \/ left(stop).data.snapshot = st.data.snapshot
      \/ left(stop).data.snapshot.request.flow = req.flow
  BY DEF RequestState, Usable, Envelope, Data, Request
<1>6. ASSUME stop = N + 1 PROVE done(stop) \in Request /\ done(stop).flow = req.flow
  <2>1. After(req.runs, from, stop) = RanUpTo(N)
    BY <1>2, <1>6, AfterRanUpTo, ChainType
  <2>2. RanUpTo(N) \in Runs
    BY ChainType
  <2> QED
    BY <2>1, <2>2 DEF Request
<1> HIDE DEF left, done
<1> QED
  BY <1>1, <1>3, <1>4, <1>5, <1>6

(* A new request is the one its cookie answers from now on.                *)
LEMMA RecordedTabs ==
  ASSUME IInv, NEW f \in Flows
  PROVE  LET front == FrontendOf[f]
             st == Recorded(Unsealed, f, front)
         IN  /\ front \in Frontends
             /\ st.data.front = front /\ st.data.pending[front] = f
             /\ st.data.requester = RequesterOf[f]
             /\ st.data.slot = Unsealed.data.slot
             /\ st.data.suspended = Unsealed.data.suspended
<1>1. FrontendOf[f] \in Frontends
  BY ModuleAssumption
<1>2. Unsealed \in Envelope
  BY UnsealedGood
<1> QED
  BY <1>1, <1>2 DEF Recorded, Envelope, Data

(* A request is recorded and its chain run: with it in the state, at most  *)
(* one login is begun, for it, at the backend that was selected.           *)
LEMMA AuthorizeAdds ==
  ASSUME IInv, NEW f \in Flows, Authorize(f)
  PROVE  \E u : \E st \in Envelope :
           /\ SameTabs(st, Recorded(Unsealed, f, FrontendOf[f]))
           /\ \/ /\ answers' = answers /\ Envelopes' \subseteq Envelopes \cup {st}
                 /\ Begun' \subseteq Begun
              \/ \E b \in Backends : \E req \in Request :
                   /\ req.flow = f
                   /\ Pin[FrontendOf[f]] # NoBackend => b = Pin[FrontendOf[f]]
                   /\ Begins(st, u, b, req)
<1> DEFINE front == FrontendOf[f]
           st == Recorded(Unsealed, f, front)
           req == [flow |-> f, runs |-> NoRuns]
<1>1. Before /\ Usable(st)
  BY AuthorizeBegins
<1>2. front \in Frontends
  BY ModuleAssumption
<1>3. req \in Request /\ req.flow = f /\ req.runs = RanUpTo(1 - 1) /\ 1 \in 1 .. N + 1
  BY NoRunsIsStart, ChainType DEF Request
<1>4. /\ FinishRequest(st, front, req, 1, Pin[front], NoIssuer)
      /\ UNCHANGED <<jar, upstream>>
  BY DEF Authorize
<1> HIDE DEF st, req
<1>5. PICK left \in Envelope :
        /\ SameTabs(left, st)
        /\ \/ Fail(left)
           \/ \E b \in Backends : \E done \in Request :
                /\ done.flow = f /\ b = Selected(req, 1, N + 1, Pin[front], NoIssuer)
                /\ StartAuth(left, b, done, NoIssuer)
  BY <1>1, <1>2, <1>3, <1>4, FinishRequestStarts
<1>6. CASE Fail(left)
  <2>1. /\ answers' = answers /\ Envelopes' \subseteq Envelopes \cup {left}
        /\ Begun' \subseteq Begun
    BY <1>4, <1>6, FailAdds
  <2> QED
    BY <1>5, <2>1 DEF st
<1>7. ASSUME NEW b \in Backends, NEW done \in Request,
             done.flow = f, b = Selected(req, 1, N + 1, Pin[front], NoIssuer),
             StartAuth(left, b, done, NoIssuer)
      PROVE  \E u : /\ Pin[front] # NoBackend => b = Pin[front]
                    /\ Begins(left, u, b, done)
  <2>1. PICK u : Begins(left, u, b, done)
    BY <1>1, <1>4, <1>7, StartAuthAdds
  <2> QED
    BY <1>7, <2>1 DEF Selected
<1> QED
  BY <1>5, <1>6, <1>7 DEF st

(* A discovery return begins a login at its own backend and changes        *)
(* nothing of a tab but that backend's expected login.                     *)
DiscoAdds(u, l, b) ==
  /\ l.at = b /\ l.request = Unsealed.data.slot[b].asks /\ l.time = now
  /\ answers' = answers /\ Begun' \subseteq Begun \cup {l}
  /\ Envelopes' \subseteq Envelopes \cup {u}
  /\ u.data.front = Unsealed.data.front
  /\ u.data.requester = Unsealed.data.requester
  /\ u.data.pending = Unsealed.data.pending
  /\ u.data.suspended = Unsealed.data.suspended
  /\ u.data.snapshot = Unsealed.data.snapshot
  /\ \A c \in Backends :
       /\ u.data.slot[c].asks = Unsealed.data.slot[c].asks
       /\ c # b => u.data.slot[c] = Unsealed.data.slot[c]

LEMMA BackendDiscoAdds ==
  ASSUME IInv, NEW b \in Backends, BackendDisco(b)
  PROVE  \E u : \E l : DiscoAdds(u, l, b)
<1> DEFINE st == Unsealed
           r == st.data.slot[b].asks
           l == NewLogin(b, r)
           u == [st EXCEPT !.data.slot[b].sent = l]
           s == [st.data.slot[b] EXCEPT !.sent = l]
<1>1. Before /\ st \in Envelope /\ UNCHANGED <<jar, upstream>>
  BY StartsFromUnsealed DEF BackendDisco, Usable
<1>2. r \in Request \cup {NoRequest}
  BY <1>1 DEF Envelope, Data, Slot
<1>3. l \in Login /\ l.at = b /\ l.request = r /\ l.time = now
  BY <1>1, <1>2, NewLoginType DEF NewLogin
<1>4. Fail(st) \/ Redirected(u, l)
  BY DEF BackendDisco
<1> HIDE DEF l
<1>5. SlotBecomes(u, st, b, s)
  BY <1>1, <1>3, SentChanged
<1>6. s.asks = r
  BY <1>1 DEF Envelope, Data, Slot
<1> HIDE DEF u, s
<1>7. CASE Fail(st)
  <2>1. /\ answers' = answers /\ Envelopes' \subseteq Envelopes \cup {st}
        /\ Begun' \subseteq Begun
    BY <1>1, <1>7, FailAdds
  <2>2. DiscoAdds(st, l, b)
    BY <1>3, <2>1 DEF DiscoAdds
  <2> QED
    BY <2>2
<1>8. CASE Redirected(u, l)
  <2>1. /\ answers' = answers /\ Envelopes' \subseteq Envelopes \cup {u}
        /\ Begun' \subseteq Begun \cup {l}
    BY <1>1, <1>8, RedirectedAdds
  <2>2. \A c \in Backends : /\ u.data.slot[c].asks = st.data.slot[c].asks
                            /\ c # b => u.data.slot[c] = st.data.slot[c]
    BY <1>5, <1>6 DEF SlotBecomes
  <2>3. /\ u.data.front = st.data.front /\ u.data.requester = st.data.requester
        /\ u.data.pending = st.data.pending /\ u.data.suspended = st.data.suspended
        /\ u.data.snapshot = st.data.snapshot
    BY <1>5 DEF SlotBecomes
  <2>4. DiscoAdds(u, l, b)
    BY <1>3, <2>1, <2>2, <2>3 DEF DiscoAdds
  <2> QED
    BY <2>4
<1> QED
  BY <1>4, <1>7, <1>8

----------------------------------------------------------------------------
(* A pin wins                                                              *)

(* Every frontend has the same configured backend, or none has one, and no *)
(* discovery page suspends a request, which would resume without the pin.  *)
PinnedAlike == DiscoAt = 0 /\ \A x, y \in Frontends : Pin[x] = Pin[y]

(* The outcomes of a handler: nobody is answered and no login leaves for   *)
(* another backend; or a login of the pinned backend is answered.          *)
PinStep ==
  /\ \E u : OwnPin(u) /\ Envelopes' \subseteq Envelopes \cup {u}
  /\ \A l \in Begun' : l \in Begun \/ Pinned(l)
  /\ answers' = answers \/ \E a : Pinned(a.login) /\ answers' = Append(answers, a)

(* Such an outcome keeps the pin.                                          *)
LEMMA PinStepKeeps ==
  ASSUME PinKept, answers \in Seq(Answer), PinStep
  PROVE  PinKept'
<1>1. \A e \in Envelopes' : OwnPin(e)
  BY DEF PinKept, PinStep
<1>2. \A l \in Begun' : Pinned(l)
  BY DEF PinKept, PinStep
<1>3. \A i \in DOMAIN answers' : Pinned(answers'[i].login)
  <2>1. CASE answers' = answers
    BY <2>1 DEF PinKept
  <2>2. ASSUME NEW a, Pinned(a.login), answers' = Append(answers, a)
        PROVE  \A i \in DOMAIN answers' : Pinned(answers'[i].login)
    <3>1. /\ DOMAIN answers' = 1 .. Len(answers) + 1 /\ DOMAIN answers = 1 .. Len(answers)
          /\ answers'[Len(answers) + 1] = a
          /\ \A i \in 1 .. Len(answers) : answers'[i] = answers[i]
      BY <2>2
    <3>2. ASSUME NEW i \in DOMAIN answers'
          PROVE  Pinned(answers'[i].login)
      <4>1. CASE i = Len(answers) + 1
        BY <2>2, <3>1, <4>1
      <4>2. CASE i \in 1 .. Len(answers)
        BY <3>1, <4>2 DEF PinKept
      <4> QED
        BY <3>1, <4>1, <4>2
    <3> QED
      BY <3>2
  <2> QED
    BY <2>1, <2>2 DEF PinStep
<1>4. (\A e \in Envelopes : OwnPin(e))'
  BY <1>1 DEF OwnPin, Pinned
<1>5. (\A l \in Begun : Pinned(l))' /\ (\A i \in DOMAIN answers : Pinned(answers[i].login))'
  BY <1>2, <1>3 DEF Pinned
<1> QED
  BY <1>4, <1>5 DEF PinKept

LEMMA FailPin ==
  ASSUME NEW st, OwnPin(st), Fail(st), UNCHANGED <<jar, upstream>>
  PROVE  PinStep
BY FailAdds DEF PinStep

(* A handler's state is the browser's cookie or empty.                     *)
LEMMA UnsealedPin ==
  ASSUME PinKept
  PROVE  OwnPin(Unsealed)
<1>1. CASE jar # NoCookie /\ now - jar.iat < TTL
  BY <1>1 DEF Unsealed, PinKept, Envelopes
<1>2. CASE ~(jar # NoCookie /\ now - jar.iat < TTL)
  BY <1>2 DEF Unsealed, OwnPin, EmptyData, NoSlot
<1> QED
  BY <1>1, <1>2

(* One lemma per action: each is a PinStep.                                *)
LEMMA AuthorizePin ==
  ASSUME IInv, PinKept, PinnedAlike, NEW f \in Flows, Authorize(f)
  PROVE  PinStep
<1> DEFINE front == FrontendOf[f]
<1>1. PICK u : \E st \in Envelope :
        /\ SameTabs(st, Recorded(Unsealed, f, front))
        /\ \/ /\ answers' = answers /\ Envelopes' \subseteq Envelopes \cup {st}
              /\ Begun' \subseteq Begun
           \/ \E b \in Backends : \E req \in Request :
                /\ req.flow = f
                /\ Pin[front] # NoBackend => b = Pin[front]
                /\ Begins(st, u, b, req)
  BY AuthorizeAdds
<1>2. front \in Frontends
  BY ModuleAssumption
<1> SUFFICES ASSUME NEW st \in Envelope,
        SameTabs(st, Recorded(Unsealed, f, front)),
        \/ /\ answers' = answers /\ Envelopes' \subseteq Envelopes \cup {st}
           /\ Begun' \subseteq Begun
        \/ \E b \in Backends : \E req \in Request :
             /\ req.flow = f
             /\ Pin[front] # NoBackend => b = Pin[front]
             /\ Begins(st, u, b, req)
        PROVE PinStep
  BY <1>1
<1>3. st.data.slot = Unsealed.data.slot /\ st.data.suspended = Unsealed.data.suspended
  BY RecordedTabs DEF SameTabs
<1>4. OwnPin(st)
  BY <1>3, UnsealedPin DEF OwnPin
<1>5. CASE /\ answers' = answers /\ Envelopes' \subseteq Envelopes \cup {st}
           /\ Begun' \subseteq Begun
  BY <1>4, <1>5 DEF PinStep
<1>6. ASSUME NEW b \in Backends, NEW req \in Request,
             Pin[front] # NoBackend => b = Pin[front], Begins(st, u, b, req)
      PROVE  PinStep
  <2>1. AtPin(b)
    BY <1>2, <1>6 DEF AtPin, PinnedAlike
  <2>2. OwnPin(u)
    BY <1>4, <1>6, <2>1 DEF OwnPin, Begins
  <2>3. \A l \in Begun' : l \in Begun \/ Pinned(l)
    BY <1>6, <2>1 DEF Begins, Pinned
  <2> QED
    BY <1>6, <2>2, <2>3 DEF PinStep, Begins
<1> QED
  BY <1>5, <1>6

LEMMA FinishResponsePin ==
  ASSUME Before, NEW st \in Envelope, OwnPin(st), NEW front \in Frontends,
         NEW login \in Login, Pinned(login), NEW requester, NEW runs, NEW from,
         FinishResponse(st, front, login, requester, runs, from), UNCHANGED <<jar, upstream>>
  PROVE  PinStep
<1> DEFINE l == NewLogin(StepUp, NoRequest)
           susp == [front |-> front, login |-> login, requester |-> requester,
                    runs |-> After(runs, from, StepUpAt + 1)]
           suspended == [st EXCEPT !.data.suspended = susp]
           asked == [suspended EXCEPT !.data.stepup = l]
           left == IF Ran(StepUpAt, from, N + 1) THEN Forgotten(st) ELSE st
<1>1. \/ Fail(st) \/ Fail(Forgotten(st)) \/ Fail(suspended) \/ Redirected(asked, l)
      \/ Render(left, front, login, requester, After(runs, from, N + 1))
  BY DEF FinishResponse
<1>2. OwnPin(Forgotten(st))
  BY DEF OwnPin, Forgotten, Envelope, Data
<1>3. susp.login = login
  OBVIOUS
<1>4. Pinned(l)
  BY DEF NewLogin, Pinned
<1> HIDE DEF susp, l
<1>5. /\ suspended.data.slot = st.data.slot /\ suspended.data.suspended = susp
      /\ asked.data.slot = st.data.slot /\ asked.data.suspended = susp
  BY DEF Envelope, Data
<1>6. OwnPin(suspended) /\ OwnPin(asked)
  <2> HIDE DEF suspended, asked
  <2> QED
    BY <1>3, <1>5 DEF OwnPin
<1> HIDE DEF suspended, asked
<1>7. CASE Fail(st) \/ Fail(Forgotten(st)) \/ Fail(suspended)
  BY <1>2, <1>6, <1>7, FailPin
<1>8. CASE Redirected(asked, l)
  BY <1>4, <1>6, <1>8, RedirectedAdds DEF PinStep
<1>9. CASE Render(left, front, login, requester, After(runs, from, N + 1))
  <2>1. OwnPin(left)
    BY <1>2
  <2> HIDE DEF left
  <2>2. /\ Envelopes' \subseteq Envelopes \cup {left} /\ Begun' \subseteq Begun
        /\ answers' = answers \/ \E a : /\ answers' = Append(answers, a) /\ a.login = login
    BY <1>9, RenderAdds
  <2> QED
    BY <2>1, <2>2 DEF PinStep
<1> QED
  BY <1>1, <1>7, <1>8, <1>9

LEMMA CallbackPin ==
  ASSUME IInv, PinKept, NEW l \in upstream, Callback(l)
  PROVE  PinStep
<1> DEFINE st == Unsealed
           cleared == [st EXCEPT !.data.slot[l.at] = NoSlot]
<1>1. Before /\ Usable(st) /\ OwnPin(st) /\ UNCHANGED <<jar, upstream>>
  BY StartsFromUnsealed, UnsealedPin DEF Callback
<1>2. l \in Login /\ l.at \in Backends /\ Pinned(l)
  BY DEF Callback, IInv, TypeOK, PinKept, Begun
<1>3. st \in Envelope /\ cleared \in Envelope
  BY <1>1, <1>2, ClearedUsable DEF Usable
<1>4. NoSlot \in Slot /\ NoSlot.asks = NoRequest
  BY DEF NoSlot, Slot
<1>5. \/ Fail(st) \/ Fail(cleared)
      \/ /\ cleared.data.front # NoFrontend
         /\ FinishResponse(cleared, cleared.data.front, l, cleared.data.requester, NoRuns, 1)
  BY DEF Callback, AuthResponse
<1> HIDE DEF st
<1>6. OwnPin(cleared)
  <2>1. SlotBecomes(cleared, st, l.at, NoSlot)
    BY <1>2, <1>3, <1>4, SlotChanged
  <2> HIDE DEF cleared
  <2> QED
    BY <1>1, <1>4, <2>1 DEF OwnPin, SlotBecomes
<1> HIDE DEF cleared
<1>7. cleared.data.front # NoFrontend => cleared.data.front \in Frontends
  BY <1>3 DEF Envelope, Data
<1>8. CASE Fail(st) \/ Fail(cleared)
  BY <1>1, <1>6, <1>8, FailPin
<1>9. CASE /\ cleared.data.front # NoFrontend
           /\ FinishResponse(cleared, cleared.data.front, l, cleared.data.requester, NoRuns, 1)
  BY <1>1, <1>2, <1>3, <1>6, <1>7, <1>9, FinishResponsePin
<1> QED
  BY <1>5, <1>8, <1>9

LEMMA BackendDiscoPin ==
  ASSUME IInv, PinKept, NEW b \in Backends, BackendDisco(b)
  PROVE  PinStep
<1>1. PICK u, l : DiscoAdds(u, l, b)
  BY BackendDiscoAdds
<1>2. OwnPin(Unsealed)
  BY UnsealedPin
<1>3. OwnPin(u) /\ Pinned(l)
  BY <1>1, <1>2 DEF DiscoAdds, OwnPin, Pinned
<1> QED
  BY <1>1, <1>3 DEF PinStep, DiscoAdds

LEMMA StepUpAcsPin ==
  ASSUME IInv, PinKept, NEW l \in upstream, StepUpAcs(l)
  PROVE  PinStep
<1> DEFINE st == Unsealed
           susp == st.data.suspended
           resumed == [Forgotten(st) EXCEPT !.data.stepup = NoLogin]
<1>1. Before /\ Usable(st) /\ OwnPin(st) /\ UNCHANGED <<jar, upstream>>
  BY StartsFromUnsealed, UnsealedPin DEF StepUpAcs
<1>2. Usable(Forgotten(st))
  BY <1>1, ForgottenUsable
<1>3. Usable(resumed)
  BY <1>2, StepupUsable
<1>4. OwnPin(resumed)
  BY <1>1 DEF OwnPin, Forgotten, Usable, Envelope, Data
<1>5. \/ Fail(st) \/ Fail(resumed)
      \/ /\ susp # NoSuspension
         /\ FinishResponse(resumed, susp.front, susp.login, susp.requester,
                           susp.runs, ResumeAfter(StepUpAt))
  BY DEF StepUpAcs
<1>6. susp # NoSuspension =>
        susp.front \in Frontends /\ susp.login \in Login /\ Pinned(susp.login)
  BY <1>1 DEF Usable, Envelope, Data, Suspension, OwnPin
<1>7. resumed \in Envelope
  BY <1>3 DEF Usable
<1> HIDE DEF st, susp, resumed
<1>8. CASE Fail(st) \/ Fail(resumed)
  BY <1>1, <1>4, <1>8, FailPin
<1>9. CASE /\ susp # NoSuspension
           /\ FinishResponse(resumed, susp.front, susp.login, susp.requester,
                             susp.runs, ResumeAfter(StepUpAt))
  BY <1>1, <1>4, <1>6, <1>7, <1>9, FinishResponsePin
<1> QED
  BY <1>5, <1>8, <1>9

(* The browser itself makes no envelope, no login and no answer.           *)
LEMMA BrowserAdds ==
  ASSUME \/ \E m \in wire : Deliver(m) \/ Lose(m)
         \/ Tick \/ UNCHANGED vars
  PROVE  /\ Envelopes' \subseteq Envelopes /\ Begun' \subseteq Begun
         /\ UNCHANGED <<started, answers>>
BY DEF Deliver, Lose, Tick, vars, Envelopes, Begun

LEMMA PageAdds ==
  ASSUME Page
  PROVE  /\ Envelopes' \subseteq Envelopes \cup {Unsealed} /\ Begun' \subseteq Begun
         /\ UNCHANGED <<started, answers>>
<1>1. Plain("page").kind # "login"
  BY DEF Plain
<1> QED
  BY <1>1, SendAdds DEF Page

(* Every step keeps the pin.                                               *)
LEMMA NextPin ==
  ASSUME PinnedAlike
  PROVE  IInv /\ PinKept /\ [Next]_vars => PinKept'
<1> SUFFICES ASSUME IInv, PinKept, [Next]_vars PROVE PinKept'
  OBVIOUS
<1>1. answers \in Seq(Answer)
  BY DEF IInv, TypeOK
<1>2. OwnPin(Unsealed)
  BY UnsealedPin
<1>3. ASSUME NEW f \in Flows, Authorize(f) PROVE PinStep
  BY <1>3, AuthorizePin
<1>4. ASSUME Page PROVE PinStep
  BY <1>2, <1>4, PageAdds DEF PinStep
<1>5. ASSUME NEW l \in upstream, Callback(l) PROVE PinStep
  BY <1>5, CallbackPin
<1>6. ASSUME NEW b \in Backends, BackendDisco(b) PROVE PinStep
  BY <1>6, BackendDiscoPin
<1>7. ASSUME NEW l \in upstream, StepUpAcs(l) PROVE PinStep
  BY <1>7, StepUpAcsPin
<1>8. ASSUME \/ \E m \in wire : Deliver(m) \/ Lose(m)
             \/ Tick \/ UNCHANGED vars
      PROVE  PinStep
  <2>1. /\ Envelopes' \subseteq Envelopes /\ Begun' \subseteq Begun /\ answers' = answers
    BY <1>8, BrowserAdds
  <2> QED
    BY <1>2, <2>1 DEF PinStep
<1>9. ~ \E issuer \in Issuers : DiscoReturn(issuer)
  BY DEF DiscoReturn, PinnedAlike
<1>10. PinStep
  BY <1>3, <1>4, <1>5, <1>6, <1>7, <1>8, <1>9 DEF Next
<1> QED
  BY <1>1, <1>10, PinStepKeeps

LEMMA InitPin == Init => PinKept
BY DEF Init, PinKept, Envelopes, Begun

----------------------------------------------------------------------------
(* One service                                                             *)

(* The outcomes of a handler: what it seals and the login it begins refer  *)
(* to requests that were sent and logins that were followed, and so does   *)
(* an answer it renders.                                                   *)
GroundStep ==
  /\ started \subseteq started' /\ UNCHANGED <<now, upstream>>
  /\ \A r \in started' : r.time <= now
  /\ \E u : Founded(u, started', upstream) /\ Envelopes' \subseteq Envelopes \cup {u}
  /\ \A l \in Begun' : l \in Begun \/ BegunFor(l, now, started')
  /\ \/ answers' = answers
     \/ \E a : /\ answers' = Append(answers, a) /\ a.time = now /\ a.login \in upstream
               /\ \E r \in started : r.flow = a.flow

(* What a state refers to keeps existing.                                  *)
LEMMA FoundedStays ==
  ASSUME NEW e, NEW begun, NEW followed, NEW more, NEW further,
         Founded(e, begun, followed), begun \subseteq more, followed \subseteq further
  PROVE  Founded(e, more, further)
BY DEF Founded

LEMMA GroundStepKeeps ==
  ASSUME Grounded, GroundStep
  PROVE  Grounded'
<1>1. PICK u : Founded(u, started', upstream) /\ Envelopes' \subseteq Envelopes \cup {u}
  BY DEF GroundStep
<1>2. \A e \in Envelopes' : Founded(e, started', upstream')
  BY <1>1, FoundedStays DEF GroundStep, Grounded
<1>3. \A l \in Begun' : BegunFor(l, now', started')
  BY DEF GroundStep, Grounded, BegunFor
<1> QED
  BY <1>2, <1>3 DEF GroundStep, Grounded

(* A handler's state is the browser's cookie or empty.                     *)
LEMMA UnsealedFounded ==
  ASSUME Grounded
  PROVE  Founded(Unsealed, started, upstream)
<1>1. CASE jar # NoCookie /\ now - jar.iat < TTL
  BY <1>1 DEF Unsealed, Grounded, Envelopes
<1>2. CASE ~(jar # NoCookie /\ now - jar.iat < TTL)
  BY <1>2 DEF Unsealed, Founded, EmptyData, NoSlot
<1> QED
  BY <1>1, <1>2

LEMMA FailGrounds ==
  ASSUME Grounded, NEW st, Founded(st, started, upstream), Fail(st),
         UNCHANGED <<now, jar, started, upstream>>
  PROVE  GroundStep
<1>1. /\ answers' = answers /\ Envelopes' \subseteq Envelopes \cup {st}
      /\ Begun' \subseteq Begun
  BY FailAdds
<1> QED
  BY <1>1 DEF GroundStep, Grounded

(* The request path acts for the request that entered it.                  *)
LEMMA FinishRequestGrounds ==
  ASSUME Before, NEW st, Usable(st), NEW front \in Frontends, NEW req \in Request,
         NEW from \in 1 .. N + 1, req.runs = RanUpTo(from - 1), NEW pin, NEW issuer,
         FinishRequest(st, front, req, from, pin, issuer), UNCHANGED <<now, jar, upstream>>,
         started \subseteq started', \A r \in started' : r.time <= now,
         \E r \in started' : r.flow = req.flow, Founded(st, started', upstream)
  PROVE  GroundStep /\ answers' = answers
<1>1. PICK left \in Envelope :
        /\ SameTabs(left, st)
        /\ \/ left.data.snapshot = st.data.snapshot
           \/ left.data.snapshot.request.flow = req.flow
        /\ \/ Fail(left)
           \/ \E b \in Backends : \E done \in Request :
                done.flow = req.flow /\ StartAuth(left, b, done, issuer)
  BY FinishRequestStarts
<1>2. Founded(left, started', upstream)
  BY <1>1 DEF Founded, SameTabs
<1>3. CASE Fail(left)
  <2>1. /\ answers' = answers /\ Envelopes' \subseteq Envelopes \cup {left}
        /\ Begun' \subseteq Begun
    BY <1>3, FailAdds
  <2> QED
    BY <1>2, <2>1 DEF GroundStep
<1>4. ASSUME NEW b \in Backends, NEW done \in Request,
             done.flow = req.flow, StartAuth(left, b, done, issuer)
      PROVE  GroundStep /\ answers' = answers
  <2>1. PICK u : Begins(left, u, b, done)
    BY <1>4, StartAuthAdds
  <2>2. Founded(u, started', upstream)
    <3>1. req.flow \in {r.flow : r \in started'}
      OBVIOUS
    <3>2. \A c \in Backends : u.data.slot[c].asks \in {left.data.slot[c].asks, done}
      BY <2>1 DEF Begins
    <3>3. /\ u.data.pending = left.data.pending /\ u.data.suspended = left.data.suspended
          /\ u.data.snapshot = left.data.snapshot
      BY <2>1 DEF Begins
    <3> QED
      BY <1>2, <1>4, <3>1, <3>2, <3>3 DEF Founded
  <2>3. \A l \in Begun' : l \in Begun \/ BegunFor(l, now, started')
    <3>1. ASSUME NEW l \in Begun' \ Begun
          PROVE  BegunFor(l, now, started')
      <4>1. l.request = done /\ l.time = now
        BY <2>1 DEF Begins
      <4>2. now <= now
        BY DEF Before, TypeOK
      <4> QED
        BY <1>4, <4>1, <4>2 DEF BegunFor
    <3> QED
      BY <3>1
  <2> QED
    BY <2>1, <2>2, <2>3 DEF GroundStep, Begins
<1> QED
  BY <1>1, <1>3, <1>4

(* The response path acts on the login that entered it.                    *)
LEMMA FinishResponseGrounds ==
  ASSUME Before, Grounded, NEW st \in Envelope, Founded(st, started, upstream),
         NEW front \in Frontends, NEW login \in upstream, NEW requester, NEW runs, NEW from,
         FinishResponse(st, front, login, requester, runs, from),
         UNCHANGED <<now, jar, started, upstream>>
  PROVE  GroundStep
<1> DEFINE l == NewLogin(StepUp, NoRequest)
           susp == [front |-> front, login |-> login, requester |-> requester,
                    runs |-> After(runs, from, StepUpAt + 1)]
           suspended == [st EXCEPT !.data.suspended = susp]
           asked == [suspended EXCEPT !.data.stepup = l]
           left == IF Ran(StepUpAt, from, N + 1) THEN Forgotten(st) ELSE st
<1>1. \/ Fail(st) \/ Fail(Forgotten(st)) \/ Fail(suspended) \/ Redirected(asked, l)
      \/ Render(left, front, login, requester, After(runs, from, N + 1))
  BY DEF FinishResponse
<1>2. /\ Founded(Forgotten(st), started, upstream)
      /\ Forgotten(st).data.pending = st.data.pending
  BY DEF Founded, Forgotten, Envelope, Data
<1>3. susp.login = login
  OBVIOUS
<1>4. BegunFor(l, now, started)
  BY DEF NewLogin, BegunFor, Before, TypeOK
<1> HIDE DEF susp, l
<1>5. /\ suspended.data.slot = st.data.slot /\ suspended.data.suspended = susp
      /\ suspended.data.pending = st.data.pending
      /\ suspended.data.snapshot = st.data.snapshot
      /\ asked.data.slot = st.data.slot /\ asked.data.suspended = susp
      /\ asked.data.pending = st.data.pending
      /\ asked.data.snapshot = st.data.snapshot
  BY DEF Envelope, Data
<1>6. Founded(suspended, started, upstream) /\ Founded(asked, started, upstream)
  <2> HIDE DEF suspended, asked
  <2> QED
    BY <1>3, <1>5 DEF Founded
<1> HIDE DEF suspended, asked
<1>7. CASE Fail(st) \/ Fail(Forgotten(st)) \/ Fail(suspended)
  BY <1>2, <1>6, <1>7, FailGrounds
<1>8. CASE Redirected(asked, l)
  <2>1. /\ answers' = answers /\ Envelopes' \subseteq Envelopes \cup {asked}
        /\ Begun' \subseteq Begun \cup {l}
    BY <1>8, RedirectedAdds
  <2> QED
    BY <1>4, <1>6, <2>1 DEF GroundStep, Grounded
<1>9. CASE Render(left, front, login, requester, After(runs, from, N + 1))
  <2>1. Founded(left, started, upstream) /\ left.data.pending = st.data.pending
    BY <1>2
  <2> HIDE DEF left
  <2>2. /\ Envelopes' \subseteq Envelopes \cup {left} /\ Begun' \subseteq Begun
        /\ \/ answers' = answers
           \/ \E a : /\ answers' = Append(answers, a) /\ a.login = login /\ a.time = now
                     /\ a.flow = left.data.pending[front] /\ a.flow # NoFlow
    BY <1>9, RenderAdds
  <2>3. left.data.pending[front] # NoFlow => \E r \in started : r.flow = left.data.pending[front]
    BY <2>1 DEF Founded
  <2> QED
    BY <2>1, <2>2, <2>3 DEF GroundStep, Grounded
<1> QED
  BY <1>1, <1>7, <1>8, <1>9

(* One lemma per action: each is a GroundStep.                             *)
LEMMA AuthorizeGrounds ==
  ASSUME IInv, Grounded, NEW f \in Flows, Authorize(f)
  PROVE  GroundStep /\ answers' = answers
<1> DEFINE front == FrontendOf[f]
           st == Recorded(Unsealed, f, front)
           req == [flow |-> f, runs |-> NoRuns]
           r0 == [flow |-> f, time |-> now]
<1>1. Before /\ Usable(st)
  BY AuthorizeBegins
<1>2. front \in Frontends
  BY ModuleAssumption
<1>3. req \in Request /\ req.flow = f /\ req.runs = RanUpTo(1 - 1) /\ 1 \in 1 .. N + 1
  BY NoRunsIsStart, ChainType DEF Request
<1>4. /\ FinishRequest(st, front, req, 1, Pin[front], NoIssuer)
      /\ UNCHANGED <<now, jar, upstream>> /\ started' = started \cup {r0}
  BY DEF Authorize
<1>5. \A r \in started' : r.time <= now
  <2>1. r0.time <= now
    BY <1>1 DEF Before, TypeOK
  <2> HIDE DEF r0
  <2> QED
    BY <1>4, <2>1 DEF Grounded
<1>6. r0.flow = f /\ r0 \in started'
  BY <1>4
<1>7. Founded(st, started', upstream)
  <2>1. Founded(Unsealed, started', upstream)
    BY <1>4, UnsealedFounded, FoundedStays
  <2>2. /\ st.data.slot = Unsealed.data.slot /\ st.data.snapshot = Unsealed.data.snapshot
        /\ st.data.suspended = Unsealed.data.suspended
        /\ \A fe \in Frontends : st.data.pending[fe] \in {f, Unsealed.data.pending[fe]}
    <3>1. Unsealed \in Envelope
      BY UnsealedGood
    <3> QED
      BY <1>2, <3>1 DEF Recorded, Envelope, Data
  <2> HIDE DEF st, r0
  <2>3. f \in {r.flow : r \in started'}
    BY <1>6
  <2> QED
    BY <2>1, <2>2, <2>3 DEF Founded
<1> HIDE DEF st, req, r0
<1> QED
  BY <1>1, <1>2, <1>3, <1>4, <1>5, <1>6, <1>7, FinishRequestGrounds

LEMMA PageGrounds ==
  ASSUME Grounded, Page
  PROVE  GroundStep /\ answers' = answers
<1>1. UNCHANGED <<now, upstream>>
  BY DEF Page
<1> QED
  BY <1>1, PageAdds, UnsealedFounded DEF GroundStep, Grounded

LEMMA CallbackGrounds ==
  ASSUME IInv, Grounded, NEW l \in upstream, Callback(l)
  PROVE  GroundStep
<1> DEFINE st == Unsealed
           cleared == [st EXCEPT !.data.slot[l.at] = NoSlot]
<1>1. /\ Before /\ Usable(st) /\ Founded(st, started, upstream)
      /\ UNCHANGED <<now, jar, started, upstream>>
  BY StartsFromUnsealed, UnsealedFounded DEF Callback
<1>2. l \in Login /\ l.at \in Backends
  BY DEF Callback, IInv, TypeOK
<1>3. st \in Envelope /\ cleared \in Envelope
  BY <1>1, <1>2, ClearedUsable DEF Usable
<1>4. NoSlot \in Slot /\ NoSlot.asks = NoRequest
  BY DEF NoSlot, Slot
<1>5. \/ Fail(st) \/ Fail(cleared)
      \/ /\ cleared.data.front # NoFrontend
         /\ FinishResponse(cleared, cleared.data.front, l, cleared.data.requester, NoRuns, 1)
  BY DEF Callback, AuthResponse
<1> HIDE DEF st
<1>6. Founded(cleared, started, upstream)
  <2>1. SlotBecomes(cleared, st, l.at, NoSlot)
    BY <1>2, <1>3, <1>4, SlotChanged
  <2> HIDE DEF cleared
  <2> QED
    BY <1>1, <1>4, <2>1 DEF Founded, SlotBecomes
<1> HIDE DEF cleared
<1>7. cleared.data.front # NoFrontend => cleared.data.front \in Frontends
  BY <1>3 DEF Envelope, Data
<1>8. CASE Fail(st) \/ Fail(cleared)
  BY <1>1, <1>6, <1>8, FailGrounds
<1>9. CASE /\ cleared.data.front # NoFrontend
           /\ FinishResponse(cleared, cleared.data.front, l, cleared.data.requester, NoRuns, 1)
  BY <1>1, <1>3, <1>6, <1>7, <1>9, FinishResponseGrounds
<1> QED
  BY <1>5, <1>8, <1>9

LEMMA DiscoReturnGrounds ==
  ASSUME IInv, Grounded, NEW issuer \in Issuers, DiscoReturn(issuer)
  PROVE  GroundStep /\ answers' = answers
<1> DEFINE st == Unsealed
           snap == st.data.snapshot
           resumed == [st EXCEPT !.data.snapshot = NoSnapshot, !.data.front = snap.front,
                                 !.data.requester = RequesterOf[snap.request.flow]]
<1>1. /\ Before /\ Usable(st) /\ Founded(st, started, upstream)
      /\ UNCHANGED <<now, jar, started, upstream>>
  BY StartsFromUnsealed, UnsealedFounded DEF DiscoReturn
<1>2. CASE Fail(st)
  BY <1>1, <1>2, FailGrounds, FailAdds
<1>3. CASE /\ snap # NoSnapshot
           /\ FinishRequest(resumed, snap.front, snap.request, ResumeAfter(DiscoAt),
                            NoBackend, issuer)
  <2>1. /\ snap \in Snapshot /\ snap.front \in Frontends /\ snap.request \in Request
        /\ snap.request.runs = RanUpTo(DiscoAt)
    BY <1>1, <1>3 DEF Usable, Envelope, Data, Snapshot, GoodEnvelope
  <2>2. Usable(resumed)
    BY <1>1, <1>3, ResumedUsable
  <2>3. ResumeAfter(DiscoAt) \in 1 .. N + 1 /\ ResumeAfter(DiscoAt) - 1 = DiscoAt
    BY ChainType DEF ResumeAfter
  <2>4. Founded(resumed, started, upstream)
    BY <1>1, <1>3 DEF Founded, Usable, Envelope, Data
  <2>5. \E r \in started : r.flow = snap.request.flow
    BY <1>1, <1>3 DEF Founded
  <2> HIDE DEF st, snap, resumed
  <2> QED
    BY <1>1, <1>3, <2>1, <2>2, <2>3, <2>4, <2>5, FinishRequestGrounds DEF Grounded
<1> QED
  BY <1>2, <1>3 DEF DiscoReturn

LEMMA BackendDiscoGrounds ==
  ASSUME IInv, Grounded, NEW b \in Backends, BackendDisco(b)
  PROVE  GroundStep /\ answers' = answers
<1>1. PICK u, l : DiscoAdds(u, l, b)
  BY BackendDiscoAdds
<1>2. Founded(Unsealed, started, upstream) /\ UNCHANGED <<now, started, upstream>>
  BY UnsealedFounded DEF BackendDisco
<1>3. Founded(u, started, upstream)
  BY <1>1, <1>2 DEF DiscoAdds, Founded
<1>4. BegunFor(l, now, started)
  <2>1. now <= now
    BY DEF IInv, TypeOK
  <2> QED
    BY <1>1, <1>2, <2>1 DEF DiscoAdds, Founded, BegunFor, Grounded
<1> QED
  BY <1>1, <1>2, <1>3, <1>4 DEF GroundStep, DiscoAdds, Grounded

LEMMA StepUpAcsGrounds ==
  ASSUME IInv, Grounded, NEW l \in upstream, StepUpAcs(l)
  PROVE  GroundStep
<1> DEFINE st == Unsealed
           susp == st.data.suspended
           resumed == [Forgotten(st) EXCEPT !.data.stepup = NoLogin]
<1>1. /\ Before /\ Usable(st) /\ Founded(st, started, upstream)
      /\ UNCHANGED <<now, jar, started, upstream>>
  BY StartsFromUnsealed, UnsealedFounded DEF StepUpAcs
<1>2. Usable(Forgotten(st))
  BY <1>1, ForgottenUsable
<1>3. Usable(resumed)
  BY <1>2, StepupUsable
<1>4. Founded(resumed, started, upstream)
  BY <1>1 DEF Founded, Forgotten, Usable, Envelope, Data
<1>5. \/ Fail(st) \/ Fail(resumed)
      \/ /\ susp # NoSuspension
         /\ FinishResponse(resumed, susp.front, susp.login, susp.requester,
                           susp.runs, ResumeAfter(StepUpAt))
  BY DEF StepUpAcs
<1>6. susp # NoSuspension => susp.front \in Frontends /\ susp.login \in upstream
  BY <1>1 DEF Usable, Envelope, Data, Suspension, Founded
<1>7. resumed \in Envelope
  BY <1>3 DEF Usable
<1> HIDE DEF st, susp, resumed
<1>8. CASE Fail(st) \/ Fail(resumed)
  BY <1>1, <1>4, <1>8, FailGrounds
<1>9. CASE /\ susp # NoSuspension
           /\ FinishResponse(resumed, susp.front, susp.login, susp.requester,
                             susp.runs, ResumeAfter(StepUpAt))
  BY <1>1, <1>4, <1>6, <1>7, <1>9, FinishResponseGrounds
<1> QED
  BY <1>5, <1>8, <1>9

(* The browser moves what is there, and the clock runs forward.            *)
LEMMA BrowserGrounds ==
  ASSUME IInv, Grounded, \/ \E m \in wire : Deliver(m) \/ Lose(m)
                         \/ Tick \/ UNCHANGED vars
  PROVE  Grounded'
<1>1. /\ Envelopes' \subseteq Envelopes /\ Begun' \subseteq Begun /\ started' = started
  BY BrowserAdds
<1>2. upstream \subseteq upstream' /\ now' \in {now, now + 1}
  BY DEF Deliver, Lose, Tick, vars
<1>3. now \in Nat /\ (\A r \in started : r.time \in Nat)
  BY DEF IInv, TypeOK, Started
<1>4. \A l \in Begun : l.time \in Nat
  <2>1. ASSUME NEW l \in Begun PROVE l \in Login
    BY DEF Begun, IInv, TypeOK, Message, Body, GoodMessage
  <2> QED
    BY <2>1 DEF Login
<1>5. \A e \in Envelopes' : Founded(e, started', upstream')
  BY <1>1, <1>2, FoundedStays DEF Grounded
<1>6. \A r \in started' : r.time <= now'
  BY <1>1, <1>2, <1>3 DEF Grounded
<1>7. \A l \in Begun' : BegunFor(l, now', started')
  <2>1. ASSUME NEW l \in Begun' PROVE l.time <= now'
    BY <1>1, <1>2, <1>3, <1>4 DEF Grounded, BegunFor
  <2> QED
    BY <1>1, <2>1 DEF Grounded, BegunFor
<1> QED
  BY <1>5, <1>6, <1>7 DEF Grounded

LEMMA NextGrounds == IInv /\ Grounded /\ [Next]_vars => Grounded'
<1> SUFFICES ASSUME IInv, Grounded, [Next]_vars PROVE Grounded'
  OBVIOUS
<1>1. CASE GroundStep
  BY <1>1, GroundStepKeeps
<1>2. CASE \/ \E m \in wire : Deliver(m) \/ Lose(m)
           \/ Tick \/ UNCHANGED vars
  BY <1>2, BrowserGrounds
<1> QED
  BY <1>1, <1>2, AuthorizeGrounds, PageGrounds, CallbackGrounds, DiscoReturnGrounds,
     BackendDiscoGrounds, StepUpAcsGrounds DEF Next

LEMMA InitGrounded == Init => Grounded
BY DEF Init, Grounded, Envelopes, Begun

(* A handler of a callback answers as the service may, or nobody.          *)
LEMMA HandlerServes ==
  ASSUME IInv, GroundStep, IInv', OneAnswerPerLogin', UNCHANGED started
  PROVE  \/ UNCHANGED <<now, started, upstream, answers>>
         \/ \E f \in Flows : \E l \in upstream : Service!Reply(f, l)
<1>1. UNCHANGED <<now, upstream>>
  BY DEF GroundStep
<1>2. CASE answers' = answers
  BY <1>1, <1>2
<1>3. ASSUME NEW a, answers' = Append(answers, a), a.time = now, a.login \in upstream,
             NEW r \in started, r.flow = a.flow
      PROVE  \E f \in Flows : \E l \in upstream : Service!Reply(f, l)
  <2>1. answers \in Seq(Answer) /\ answers' \in Seq(Answer)
    BY DEF IInv, TypeOK
  <2>2. /\ DOMAIN answers' = 1 .. Len(answers) + 1 /\ DOMAIN answers = 1 .. Len(answers)
        /\ Len(answers) \in Nat /\ answers'[Len(answers) + 1] = a
        /\ \A i \in 1 .. Len(answers) : answers'[i] = answers[i]
    BY <1>3, <2>1
  <2>3. Len(answers) + 1 \in DOMAIN answers'
    BY <2>2
  <2>4. a \in Answer /\ GoodAnswer(a, now, started)
    <3>1. answers'[Len(answers) + 1] \in Answer
      BY <2>1, <2>3
    <3>2. GoodAnswer(answers'[Len(answers) + 1], now', started')
      BY <2>3 DEF IInv
    <3> QED
      BY <1>1, <2>2, <3>1, <3>2
  <2>5. \A i \in DOMAIN answers : answers[i].login # a.login
    <3>1. ASSUME NEW i \in DOMAIN answers, answers[i].login = a.login
          PROVE  FALSE
      <4>1. i \in DOMAIN answers' /\ answers'[i].login = answers'[Len(answers) + 1].login
        BY <2>2, <3>1
      <4>2. i = Len(answers) + 1
        BY <2>3, <4>1 DEF OneAnswerPerLogin
      <4> QED
        BY <2>2, <4>2
    <3> QED
      BY <3>1
  <2>6. RanUpTo(N) = Service!Once
    BY ChainType DEF RanUpTo, Service!Once, Services
  <2>7. a = [flow |-> a.flow, requester |-> a.requester, login |-> a.login,
             runs |-> Service!Once, time |-> now]
    BY <1>3, <2>4, <2>6 DEF Answer, GoodAnswer
  <2>8. now - r.time < TTL /\ now - a.login.time < TTL
    BY <1>3, <2>4 DEF GoodAnswer
  <2>9. a.flow \in Flows /\ a.requester \in Requesters \cup {NoRequester}
    BY <2>4 DEF Answer
  <2>10. Service!Reply(a.flow, a.login)
    BY <1>1, <1>3, <2>5, <2>7, <2>8, <2>9 DEF Service!Reply
  <2> QED
    BY <1>3, <2>9, <2>10
<1> QED
  BY <1>2, <1>3 DEF GroundStep

(* A redirect that reaches the browser sends it to a login it may follow.  *)
LEMMA DeliverServes ==
  ASSUME IInv, Grounded, NEW m \in wire, Deliver(m)
  PROVE  UNCHANGED <<now, started, upstream, answers>> \/ Service!Follow
<1>1. UNCHANGED <<now, started, answers>>
  BY DEF Deliver
<1>2. CASE m.body.kind # "login"
  BY <1>1, <1>2 DEF Deliver
<1>3. CASE m.body.kind = "login"
  <2> DEFINE l == m.body.login
  <2>1. upstream' = upstream \cup {l}
    BY <1>3 DEF Deliver
  <2>2. BegunFor(l, now, started)
    BY <1>3 DEF Grounded, Begun
  <2>3. Complete(l.request)
    BY <1>3 DEF IInv, GoodMessage
  <2>4. RanUpTo(N) = Service!Once
    BY ChainType DEF RanUpTo, Service!Once, Services
  <2> HIDE DEF l
  <2> QED
    BY <1>1, <2>1, <2>2, <2>3, <2>4 DEF BegunFor, Complete, Service!Follow
<1> QED
  BY <1>2, <1>3

(* Every step is one of the service's, or none.                            *)
LEMMA StepServes ==
  ASSUME IInv, Grounded, [Next]_vars, IInv', OneAnswerPerLogin'
  PROVE  [Service!Next]_<<now, started, upstream, answers>>
<1>1. ASSUME NEW f \in Flows, Authorize(f) PROVE Service!Ask(f)
  <2>1. answers' = answers
    BY <1>1, AuthorizeGrounds
  <2> QED
    BY <1>1, <2>1 DEF Authorize, Service!Ask
<1>2. ASSUME Page PROVE UNCHANGED <<now, started, upstream, answers>>
  BY <1>2 DEF Page
<1>3. ASSUME NEW l \in upstream, Callback(l) \/ StepUpAcs(l)
      PROVE  \/ UNCHANGED <<now, started, upstream, answers>>
             \/ \E f \in Flows : \E k \in upstream : Service!Reply(f, k)
  <2>1. started' = started
    BY <1>3 DEF Callback, StepUpAcs
  <2>2. GroundStep
    BY <1>3, CallbackGrounds, StepUpAcsGrounds
  <2> QED
    BY <2>1, <2>2, HandlerServes
<1>4. ASSUME NEW issuer \in Issuers, DiscoReturn(issuer)
      PROVE  UNCHANGED <<now, started, upstream, answers>>
  <2>1. answers' = answers
    BY <1>4, DiscoReturnGrounds
  <2> QED
    BY <1>4, <2>1 DEF DiscoReturn
<1>5. ASSUME NEW b \in Backends, BackendDisco(b)
      PROVE  UNCHANGED <<now, started, upstream, answers>>
  <2>1. answers' = answers
    BY <1>5, BackendDiscoGrounds
  <2> QED
    BY <1>5, <2>1 DEF BackendDisco
<1>6. ASSUME NEW m \in wire, Deliver(m)
      PROVE  UNCHANGED <<now, started, upstream, answers>> \/ Service!Follow
  BY <1>6, DeliverServes
<1>7. ASSUME NEW m \in wire, Lose(m) PROVE UNCHANGED <<now, started, upstream, answers>>
  BY <1>7 DEF Lose
<1>8. ASSUME Tick PROVE Service!Tick
  BY <1>8 DEF Tick, Service!Tick
<1>9. ASSUME UNCHANGED vars PROVE UNCHANGED <<now, started, upstream, answers>>
  BY <1>9 DEF vars
<1> QED
  BY <1>1, <1>2, <1>3, <1>4, <1>5, <1>6, <1>7, <1>8, <1>9 DEF Next, Service!Next

----------------------------------------------------------------------------
(* Two tabs in one browser                                                 *)

(* No service of the chain suspends a flow.                                *)
NeverSuspended == DiscoAt = 0 /\ StepUpAt = 0

(* A handler that begins no login for a request keeps the tabs apart ...   *)
TabStep ==
  /\ started' = started
  /\ \A l \in Begun' : l \in Begun \/ l.at \in Discovering
  /\ \E u : OwnTab(u) /\ Envelopes' \subseteq Envelopes \cup {u}
  /\ answers' = answers \/ \E a : OwnAnswer(a) /\ answers' = Append(answers, a)

(* ... and so does one that begins the logins of a new request.            *)
NewTabStep(f) ==
  /\ ~IsStarted(f) /\ IsStarted(f)'
  /\ \A g \in Flows : IsStarted(g) => IsStarted(g)'
  /\ answers' = answers
  /\ \E u :
       /\ Envelopes' \subseteq Envelopes \cup {u}
       /\ u.data.suspended = NoSuspension
       /\ \A l \in Begun' \ Begun : l.request.flow = f /\ u.data.slot[l.at].sent = l
       /\ u.data.requester = RequesterOf[f] /\ u.data.pending[u.data.front] = f

(* Each of the two keeps the tabs apart.                                   *)
LEMMA TabStepKeeps ==
  ASSUME TabsApart, answers \in Seq(Answer), TabStep
  PROVE  TabsApart'
<1>1. \A g : IsStarted(g)' <=> IsStarted(g)
  BY DEF TabStep, IsStarted
<1>2. \A l \in Begun' : \A g : SentFor(l, g) => l \in Begun
  BY DEF TabStep, SentFor
<1>3. \A e : OwnTab(e) => OwnTab(e)'
  BY <1>1, <1>2 DEF OwnTab, SentFor
<1>4. \A a : OwnAnswer(a) => OwnAnswer(a)'
  BY <1>1, <1>2 DEF OwnAnswer, SentFor
<1>5. \A e \in Envelopes' : OwnTab(e)
  BY DEF TabsApart, TabStep
<1>6. \A i \in DOMAIN answers' : OwnAnswer(answers'[i])
  <2>1. CASE answers' = answers
    BY <2>1 DEF TabsApart
  <2>2. ASSUME NEW a, OwnAnswer(a), answers' = Append(answers, a)
        PROVE  \A i \in DOMAIN answers' : OwnAnswer(answers'[i])
    <3>1. /\ DOMAIN answers' = 1 .. Len(answers) + 1 /\ DOMAIN answers = 1 .. Len(answers)
          /\ answers'[Len(answers) + 1] = a
          /\ \A i \in 1 .. Len(answers) : answers'[i] = answers[i]
      BY <2>2
    <3>2. ASSUME NEW i \in DOMAIN answers'
          PROVE  OwnAnswer(answers'[i])
      <4>1. CASE i = Len(answers) + 1
        BY <2>2, <3>1, <4>1
      <4>2. CASE i \in 1 .. Len(answers)
        BY <3>1, <4>2 DEF TabsApart
      <4> QED
        BY <3>1, <4>1, <4>2
    <3> QED
      BY <3>2
  <2> QED
    BY <2>1, <2>2 DEF TabStep
<1>7. \A l \in Begun' : \A g \in Flows : SentFor(l, g) => IsStarted(g)'
  BY <1>1, <1>2 DEF TabsApart
<1>8. (\A e \in Envelopes : OwnTab(e))'
  BY <1>3, <1>5
<1>9. (\A i \in DOMAIN answers : OwnAnswer(answers[i]))'
  BY <1>4, <1>6
<1>10. (\A l \in Begun : \A g \in Flows : SentFor(l, g) => IsStarted(g))'
  BY <1>7 DEF SentFor
<1> QED
  BY <1>8, <1>9, <1>10 DEF TabsApart

LEMMA NewTabKeeps ==
  ASSUME TabsApart, answers \in Seq(Answer), NEW f \in Flows, NewTabStep(f)
  PROVE  TabsApart'
<1>1. PICK u :
        /\ Envelopes' \subseteq Envelopes \cup {u}
        /\ u.data.suspended = NoSuspension
        /\ \A l \in Begun' \ Begun : l.request.flow = f /\ u.data.slot[l.at].sent = l
        /\ u.data.requester = RequesterOf[f] /\ u.data.pending[u.data.front] = f
  BY DEF NewTabStep
<1>2. ~IsStarted(f) /\ IsStarted(f)' /\ \A g \in Flows : IsStarted(g) => IsStarted(g)'
  BY DEF NewTabStep
<1>3. \A l \in Begun' : \A g : g # f /\ SentFor(l, g) => l \in Begun
  BY <1>1 DEF SentFor
<1>4. \A l \in Begun' : SentFor(l, f) => l \notin Begun
  BY <1>2 DEF TabsApart
<1>5. \A e : OwnTab(e) => OwnTab(e)'
  BY <1>2, <1>3 DEF OwnTab, SentFor
<1>6. OwnTab(u)'
  <2> SUFFICES ASSUME NEW g \in Flows, u.data.pending[u.data.front] = g
               PROVE  /\ IsStarted(g)' /\ u.data.requester = RequesterOf[g]
                      /\ \A l \in Begun' : SentFor(l, g) => u.data.slot[l.at].sent \in {l, NoLogin}
    BY <1>1 DEF OwnTab, SentFor
  <2>1. g = f
    BY <1>1
  <2> QED
    BY <1>1, <1>2, <1>4, <2>1
<1>7. (\A e \in Envelopes : OwnTab(e))'
  BY <1>1, <1>5, <1>6 DEF TabsApart
<1>8. answers' = answers
  BY DEF NewTabStep
<1>9. ASSUME NEW i \in DOMAIN answers PROVE OwnAnswer(answers[i])'
  <2>1. OwnAnswer(answers[i]) /\ answers[i] \in Answer
    BY DEF TabsApart
  <2>2. answers[i].flow \in Flows /\ answers[i].flow # f
    BY <1>2, <2>1 DEF OwnAnswer, Answer
  <2> QED
    BY <1>2, <1>3, <1>8, <2>1, <2>2 DEF OwnAnswer, SentFor
<1>10. (\A i \in DOMAIN answers : OwnAnswer(answers[i]))'
  BY <1>8, <1>9
<1>11. (\A l \in Begun : \A g \in Flows : SentFor(l, g) => IsStarted(g))'
  BY <1>2, <1>3 DEF TabsApart, SentFor
<1> QED
  BY <1>7, <1>10, <1>11 DEF TabsApart

LEMMA UnsealedTab ==
  ASSUME TabsApart
  PROVE  OwnTab(Unsealed)
<1>1. CASE jar # NoCookie /\ now - jar.iat < TTL
  BY <1>1 DEF Unsealed, TabsApart, Envelopes
<1>2. CASE ~(jar # NoCookie /\ now - jar.iat < TTL)
  BY <1>2 DEF Unsealed, OwnTab, EmptyData
<1> QED
  BY <1>1, <1>2

LEMMA FailTab ==
  ASSUME NEW st, OwnTab(st), Fail(st), UNCHANGED <<jar, upstream, started>>
  PROVE  TabStep
BY FailAdds DEF TabStep

(* One lemma per action: a new request is a NewTabStep, the rest TabSteps. *)
LEMMA AuthorizeTab ==
  ASSUME IInv, TabsApart, NEW f \in Flows, Authorize(f)
  PROVE  NewTabStep(f)
<1> DEFINE front == FrontendOf[f]
<1>1. PICK u : \E st \in Envelope :
        /\ SameTabs(st, Recorded(Unsealed, f, front))
        /\ \/ /\ answers' = answers /\ Envelopes' \subseteq Envelopes \cup {st}
              /\ Begun' \subseteq Begun
           \/ \E b \in Backends : \E req \in Request :
                /\ req.flow = f
                /\ Pin[front] # NoBackend => b = Pin[front]
                /\ Begins(st, u, b, req)
  BY AuthorizeAdds
<1> SUFFICES ASSUME NEW st \in Envelope,
        SameTabs(st, Recorded(Unsealed, f, front)),
        \/ /\ answers' = answers /\ Envelopes' \subseteq Envelopes \cup {st}
           /\ Begun' \subseteq Begun
        \/ \E b \in Backends : \E req \in Request :
             /\ req.flow = f
             /\ Pin[front] # NoBackend => b = Pin[front]
             /\ Begins(st, u, b, req)
        PROVE NewTabStep(f)
  BY <1>1
<1>2. /\ ~IsStarted(f) /\ IsStarted(f)'
      /\ \A g \in Flows : IsStarted(g) => IsStarted(g)'
  <2> DEFINE sent == [flow |-> f, time |-> now]
  <2>1. (\A r \in started : r.flow # f) /\ started' = started \cup {sent}
    BY DEF Authorize
  <2>2. sent.flow = f
    OBVIOUS
  <2> HIDE DEF sent
  <2> QED
    BY <2>1, <2>2 DEF IsStarted
<1>3. /\ st.data.front = front /\ st.data.pending[front] = f
      /\ st.data.requester = RequesterOf[f] /\ st.data.suspended = NoSuspension
  BY RecordedTabs, UnsealedTab DEF SameTabs, OwnTab
<1>4. CASE /\ answers' = answers /\ Envelopes' \subseteq Envelopes \cup {st}
           /\ Begun' \subseteq Begun
  BY <1>2, <1>3, <1>4 DEF NewTabStep
<1>5. ASSUME NEW b \in Backends, NEW req \in Request, req.flow = f, Begins(st, u, b, req)
      PROVE  NewTabStep(f)
  <2>1. /\ answers' = answers /\ Envelopes' \subseteq Envelopes \cup {u}
        /\ u.data.front = front /\ u.data.pending[front] = f
        /\ u.data.requester = RequesterOf[f] /\ u.data.suspended = NoSuspension
    BY <1>3, <1>5 DEF Begins
  <2>2. \A l \in Begun' \ Begun : l.request.flow = f /\ u.data.slot[l.at].sent = l
    BY <1>5 DEF Begins
  <2> HIDE DEF front
  <2> QED
    BY <1>2, <2>1, <2>2 DEF NewTabStep
<1> QED
  BY <1>4, <1>5

LEMMA CallbackTab ==
  ASSUME NeverSuspended, IInv, TabsApart, NEW l \in upstream, Callback(l)
  PROVE  TabStep
<1> DEFINE st == Unsealed
           front == st.data.front
           cleared == [st EXCEPT !.data.slot[l.at] = NoSlot]
<1>1. Before /\ Usable(st) /\ OwnTab(st) /\ UNCHANGED <<jar, upstream, started>>
  BY StartsFromUnsealed, UnsealedTab DEF Callback
<1>2. l \in Login /\ l.at \in Backends /\ l # NoLogin
  BY NullAssumption DEF Callback, IInv, TypeOK
<1>3. st \in Envelope
  BY <1>1 DEF Usable
<1>4. NoSlot \in Slot /\ NoSlot.sent = NoLogin
  BY DEF NoSlot, Slot
<1>5. SlotBecomes(cleared, st, l.at, NoSlot)
  BY <1>2, <1>3, <1>4, SlotChanged
<1>6. \/ Fail(st)
      \/ /\ st.data.slot[l.at].sent = l
         /\ \/ Fail(cleared)
            \/ /\ cleared.data.front # NoFrontend
               /\ FinishResponse(cleared, cleared.data.front, l,
                                 cleared.data.requester, NoRuns, 1)
  BY DEF Callback, AuthResponse, Matches
<1> HIDE DEF st, cleared
<1>7. OwnTab(cleared)
  BY <1>1, <1>4, <1>5 DEF OwnTab, SlotBecomes, SentFor
<1>8. CASE Fail(st) \/ Fail(cleared)
  BY <1>1, <1>7, <1>8, FailTab
<1>9. ASSUME st.data.slot[l.at].sent = l, front # NoFrontend,
             Render(cleared, front, l, st.data.requester, After(NoRuns, 1, N + 1))
      PROVE  TabStep
  <2>1. /\ Envelopes' \subseteq Envelopes \cup {cleared} /\ Begun' \subseteq Begun
        /\ \/ answers' = answers
           \/ \E a : /\ answers' = Append(answers, a)
                     /\ a.login = l /\ a.requester = st.data.requester
                     /\ a.flow = cleared.data.pending[front] /\ a.flow # NoFlow
    BY <1>1, <1>9, RenderAdds
  <2>2. ASSUME NEW a, a.login = l, a.requester = st.data.requester,
               a.flow = cleared.data.pending[front], a.flow # NoFlow
        PROVE  OwnAnswer(a)
    <3>1. a.flow = st.data.pending[front]
      BY <1>5, <2>2 DEF SlotBecomes
    <3>2. a.flow \in Flows
      BY <1>3, <1>9, <2>2, <3>1 DEF Envelope, Data
    <3>3. /\ IsStarted(a.flow) /\ a.requester = RequesterOf[a.flow]
          /\ \A k \in Begun : SentFor(k, a.flow) => st.data.slot[k.at].sent \in {k, NoLogin}
      BY <1>1, <1>9, <2>2, <3>1, <3>2 DEF OwnTab
    <3> QED
      BY <1>2, <1>9, <2>2, <3>3 DEF OwnAnswer
  <2> QED
    BY <1>1, <1>7, <2>1, <2>2 DEF TabStep
<1>10. cleared.data.front = front /\ cleared.data.requester = st.data.requester
  BY <1>5 DEF SlotBecomes
<1>11. ASSUME FinishResponse(cleared, front, l, st.data.requester, NoRuns, 1)
       PROVE  Fail(cleared) \/ Render(cleared, front, l, st.data.requester,
                                      After(NoRuns, 1, N + 1))
  <2>1. \A stop : ~Ran(StepUpAt, 1, stop)
    BY DEF NeverSuspended, Ran
  <2> QED
    BY <1>11, <2>1 DEF FinishResponse
<1> QED
  BY <1>6, <1>8, <1>9, <1>10, <1>11

LEMMA BackendDiscoTab ==
  ASSUME IInv, TabsApart, NEW b \in Backends, BackendDisco(b)
  PROVE  TabStep
<1>1. PICK u, l : DiscoAdds(u, l, b)
  BY BackendDiscoAdds
<1>2. OwnTab(Unsealed) /\ b \in Discovering /\ started' = started
  BY UnsealedTab DEF BackendDisco
<1>3. OwnTab(u)
  BY <1>1, <1>2 DEF DiscoAdds, OwnTab, SentFor
<1> QED
  BY <1>1, <1>2, <1>3 DEF TabStep, DiscoAdds

LEMMA StepUpAcsTab ==
  ASSUME IInv, TabsApart, NEW l \in upstream, StepUpAcs(l)
  PROVE  TabStep
<1>1. OwnTab(Unsealed) /\ UNCHANGED <<jar, upstream, started>>
  BY UnsealedTab DEF StepUpAcs
<1>2. Fail(Unsealed)
  BY <1>1 DEF StepUpAcs, OwnTab
<1> QED
  BY <1>1, <1>2, FailTab

(* Every step keeps the tabs apart.                                        *)
LEMMA NextTabs ==
  ASSUME NeverSuspended
  PROVE  IInv /\ TabsApart /\ [Next]_vars => TabsApart'
<1> SUFFICES ASSUME IInv, TabsApart, [Next]_vars PROVE TabsApart'
  OBVIOUS
<1>1. answers \in Seq(Answer)
  BY DEF IInv, TypeOK
<1>2. OwnTab(Unsealed)
  BY UnsealedTab
<1>3. ASSUME NEW f \in Flows, Authorize(f) PROVE TabsApart'
  BY <1>1, <1>3, AuthorizeTab, NewTabKeeps
<1>4. ASSUME Page PROVE TabStep
  BY <1>2, <1>4, PageAdds DEF TabStep
<1>5. ASSUME NEW l \in upstream, Callback(l) PROVE TabStep
  BY <1>5, CallbackTab
<1>6. ASSUME NEW b \in Backends, BackendDisco(b) PROVE TabStep
  BY <1>6, BackendDiscoTab
<1>7. ASSUME NEW l \in upstream, StepUpAcs(l) PROVE TabStep
  BY <1>7, StepUpAcsTab
<1>8. ASSUME \/ \E m \in wire : Deliver(m) \/ Lose(m)
             \/ Tick \/ UNCHANGED vars
      PROVE  TabStep
  <2>1. /\ Envelopes' \subseteq Envelopes /\ Begun' \subseteq Begun
        /\ UNCHANGED <<started, answers>>
    BY <1>8, BrowserAdds
  <2> QED
    BY <1>2, <2>1 DEF TabStep
<1>9. ~ \E issuer \in Issuers : DiscoReturn(issuer)
  BY DEF DiscoReturn, NeverSuspended
<1>10. TabStep => TabsApart'
  BY <1>1, TabStepKeeps
<1> QED
  BY <1>3, <1>4, <1>5, <1>6, <1>7, <1>8, <1>9, <1>10 DEF Next

LEMMA InitTabs == Init => TabsApart
BY DEF Init, TabsApart, Envelopes, Begun

----------------------------------------------------------------------------
(* The theorems                                                            *)

(* The proxy starts in a good state: no cookie, nothing under way.         *)
THEOREM InitIInv == Init => IInv
BY DEF Init, IInv, TypeOK

(* Every handler and every step of the browser keeps the invariant.        *)
THEOREM NextIInv == IInv /\ [Next]_vars => IInv'
<1> SUFFICES ASSUME IInv, [Next]_vars PROVE IInv'
  OBVIOUS
<1>1. ASSUME NEW f \in Flows, Authorize(f) PROVE IInv'
  BY <1>1, AuthorizeKeeps
<1>2. CASE Page
  BY <1>2, PageKeeps
<1>3. ASSUME NEW l \in upstream, Callback(l) PROVE IInv'
  BY <1>3, CallbackKeeps
<1>4. ASSUME NEW issuer \in Issuers, DiscoReturn(issuer) PROVE IInv'
  BY <1>4, DiscoReturnKeeps
<1>5. ASSUME NEW b \in Backends, BackendDisco(b) PROVE IInv'
  BY <1>5, BackendDiscoKeeps
<1>6. ASSUME NEW l \in upstream, StepUpAcs(l) PROVE IInv'
  BY <1>6, StepUpAcsKeeps
<1>7. ASSUME NEW m \in wire, Deliver(m) PROVE IInv'
  BY <1>7, DeliverKeeps
<1>8. ASSUME NEW m \in wire, Lose(m) PROVE IInv'
  BY <1>8, LoseKeeps
<1>9. CASE Tick
  BY <1>9, TickKeeps
<1>10. CASE UNCHANGED vars
  BY <1>10 DEF vars, IInv, TypeOK
<1> QED
  BY <1>1, <1>2, <1>3, <1>4, <1>5, <1>6, <1>7, <1>8, <1>9, <1>10 DEF Next

(* The invariant implies each property it was strengthened from.           *)
THEOREM IInvProperties ==
  IInv => /\ TypeOK /\ RequestChainComplete /\ ResponseChainComplete /\ LifetimeBound
<1> SUFFICES ASSUME IInv
             PROVE  /\ TypeOK /\ RequestChainComplete
                    /\ ResponseChainComplete /\ LifetimeBound
  OBVIOUS
<1>1. \A i \in Services : RanUpTo(N)[i] = 1
  BY ChainAssumption DEF RanUpTo, Services
<1>2. RequestChainComplete
  BY <1>1 DEF IInv, RequestChainComplete, Complete
<1>3. ResponseChainComplete
  BY <1>1 DEF IInv, ResponseChainComplete, GoodAnswer
<1>4. LifetimeBound
  BY DEF IInv, LifetimeBound, GoodAnswer
<1> QED
  BY <1>2, <1>3, <1>4 DEF IInv

(* IInv holds in every reachable state of every deployment.                *)
THEOREM Invariance == Spec => []IInv
BY InitIInv, NextIInv, PTL DEF Spec

(* Every value the program keeps has its type.                             *)
THEOREM TypeCorrect == Spec => []TypeOK
BY Invariance, IInvProperties, PTL

(* Every request that reaches a backend ran through every request          *)
(* micro-service exactly once, whatever was suspended at discovery.        *)
THEOREM RequestChain == Spec => []RequestChainComplete
BY Invariance, IInvProperties, PTL

(* Every answer ran through every response micro-service exactly once,     *)
(* whatever was suspended for step-up.                                     *)
THEOREM ResponseChain == Spec => []ResponseChainComplete
BY Invariance, IInvProperties, PTL

(* No answer completes a request or uses a login as old as the cookie's    *)
(* lifetime.                                                               *)
THEOREM Lifetime == Spec => []LifetimeBound
BY Invariance, IInvProperties, PTL

(* Upstream logins are used once, and redirects leave with their state.    *)
THEOREM SingleUseInvariance == Spec => [](SingleUse /\ RedirectCarriesState)
<1>1. Init => SingleUse /\ RedirectCarriesState
  BY InitSingleUse
<1>2. IInv /\ (SingleUse /\ RedirectCarriesState) /\ [Next]_vars
        => (SingleUse /\ RedirectCarriesState)'
  BY NextSingleUse
<1> QED
  BY <1>1, <1>2, Invariance, PTL DEF Spec

(* However callbacks are repeated, lost or reordered, a login answers one  *)
(* request at most.                                                        *)
THEOREM LoginAnswersOnce == Spec => []OneAnswerPerLogin
<1>1. SingleUse => OneAnswerPerLogin
  BY DEF SingleUse
<1> QED
  BY <1>1, SingleUseInvariance, PTL

(* No redirect leaves without the state its return is matched against,     *)
(* whatever could not be sealed.                                           *)
THEOREM RedirectsReturn == Spec => []RedirectCarriesState
BY SingleUseInvariance, PTL

(* Where every frontend has the same backend configured, a request is      *)
(* answered from a login there, whatever a routing service chose.          *)
THEOREM PinWins ==
  ASSUME PinnedAlike
  PROVE  Spec => []PinHonoured
<1>1. IInv /\ PinKept => PinHonoured
  <2> SUFFICES ASSUME IInv, PinKept, NEW i \in DOMAIN answers,
                      Pin[FrontendOf[answers[i].flow]] # NoBackend,
                      answers[i].login.request # NoRequest
               PROVE  answers[i].login.at = Pin[FrontendOf[answers[i].flow]]
    BY DEF PinHonoured
  <2>1. answers \in Seq(Answer)
    BY DEF IInv, TypeOK
  <2>2. answers[i] \in Answer
    BY <2>1
  <2>3. answers[i].flow \in Flows
    BY <2>2 DEF Answer
  <2>4. FrontendOf[answers[i].flow] \in Frontends
    BY <2>3, ModuleAssumption
  <2> QED
    BY <2>4 DEF PinKept, Pinned, AtPin
<1>2. IInv /\ PinKept /\ [Next]_vars => PinKept'
  BY NextPin
<1> QED
  BY <1>1, <1>2, InitPin, Invariance, PTL DEF Spec

(* The cookie of a browser with several tabs answers the request it        *)
(* recorded last, from that request's login, while nothing is suspended.   *)
THEOREM TabsApartHolds ==
  ASSUME NeverSuspended
  PROVE  Spec => []TabsApart
<1>1. IInv /\ TabsApart /\ [Next]_vars => TabsApart'
  BY NextTabs
<1> QED
  BY <1>1, InitTabs, Invariance, PTL DEF Spec

(* No answer computed for one requester is rendered to another.            *)
THEOREM RequestersApart ==
  ASSUME NeverSuspended
  PROVE  Spec => []RequesterCoherent
<1>1. TabsApart => RequesterCoherent
  BY DEF TabsApart, OwnAnswer, RequesterCoherent
<1>2. Spec => []TabsApart
  BY TabsApartHolds
<1> QED
  BY <1>1, <1>2, PTL

(* A request that was sent to a backend is answered from no other          *)
(* request's login there.                                                  *)
THEOREM OwnLoginAnswers ==
  ASSUME NeverSuspended
  PROVE  Spec => []AnswerMatchesLogin
<1>1. TabsApart => AnswerMatchesLogin
  BY DEF TabsApart, OwnAnswer, SentFor, Begun, AnswerMatchesLogin
<1>2. Spec => []TabsApart
  BY TabsApartHolds
<1> QED
  BY <1>1, <1>2, PTL

(* The proxy implements LoginService: its cookies, tabs, suspended chains  *)
(* and second logins, and messages lost or repeated in any order, show no  *)
(* requester an answer that one service with the state of all logins would *)
(* not have given.                                                         *)
THEOREM Implements == Spec => ServiceKept
<1>1. Init => Service!Init
  BY DEF Init, Service!Init
<1>2. Init => Grounded
  BY InitGrounded
<1>3. IInv /\ Grounded /\ [Next]_vars => Grounded'
  BY NextGrounds
<1>4. IInv /\ Grounded /\ IInv' /\ OneAnswerPerLogin' /\ [Next]_vars
        => [Service!Next]_<<now, started, upstream, answers>>
  BY StepServes
<1> QED
  BY <1>1, <1>2, <1>3, <1>4, Invariance, LoginAnswersOnce, PTL
  DEF Spec, ServiceKept, Service!Spec
=============================================================================

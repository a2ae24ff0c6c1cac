-------------------------- MODULE AssuranceProofs --------------------------
(***************************************************************************)
(* The properties of Assurance hold for any requests, users, identity      *)
(* providers, tables of policies and orders of levels.                     *)
(***************************************************************************)
EXTENDS Assurance, WellFoundedInduction, TLAPS

----------------------------------------------------------------------------
(* The data                                                                *)

LEMMA MinIn ==
  ASSUME NEW S, S \subseteq Nat, S # {}
  PROVE  Min(S) \in S
<1>1. PICK x \in S : \A y \in S : ~ (<<y, x>> \in OpToRel(<, Nat))
  BY NatLessThanWellFounded, WFMin, Zenon
<1>2. \A y \in S : ~ (y < x)
  BY <1>1 DEF OpToRel
<1>3. \A y \in S : x <= y
  BY <1>2, SMT
<1> QED
  BY <1>3 DEF Min

LEMMA DomainNat == ASSUME NEW s, NEW T, s \in Seq(T) PROVE DOMAIN s \subseteq Nat
OBVIOUS

LEMMA RangeType == ASSUME NEW T, NEW s \in Seq(T) PROVE Range(s) \subseteq T
BY DEF Range

(* Either table answers with settings of one of its rows.                  *)
LEMMA TableType ==
  ASSUME NEW table \in Seq(Row), NEW values \in Seq(STRING)
  PROVE  /\ InTableOrder(table, values) \in Settings \cup {NoSettings}
         /\ InSourceOrder(table, values) \in Settings \cup {NoSettings}
<1>1. \A k \in DOMAIN table : table[k] \in Row
  OBVIOUS
<1>2. \A row \in Rows(table) : row.settings \in Settings
  BY <1>1 DEF Rows, Row
<1>3. InTableOrder(table, values) \in Settings \cup {NoSettings}
  <2> DEFINE hits == {k \in DOMAIN table : table[k].value \in Range(values)}
  <2>1. hits # {} => Min(hits) \in hits
    <3>1. hits \subseteq Nat
      BY DomainNat
    <3> QED
      BY <3>1, MinIn
  <2>2. hits # {} => table[Min(hits)].settings \in Settings
    BY <2>1, <1>2 DEF Rows
  <2> QED
    BY <2>2 DEF InTableOrder
<1>4. InSourceOrder(table, values) \in Settings \cup {NoSettings}
  <2> DEFINE hits == {k \in DOMAIN values : \E row \in Rows(table) : row.value = values[k]}
             row == CHOOSE row \in Rows(table) : row.value = values[Min(hits)]
  <2>1. hits # {} => Min(hits) \in hits
    <3>1. hits \subseteq Nat
      BY DomainNat
    <3> QED
      BY <3>1, MinIn
  <2>2. hits # {} => row \in Rows(table)
    BY <2>1
  <2> QED
    BY <2>2, <1>2 DEF InSourceOrder
<1> QED
  BY <1>3, <1>4

LEMMA ResolveType ==
  ASSUME NEW entity \in Flows \cup Idps, NEW known \in BOOLEAN, NEW behavior, NEW subject
  PROVE  Resolve(entity, known, behavior, subject) \in Settings \cup {NoSettings}
<1>1. /\ ByEntity[entity] \in Settings \cup {NoSettings}
      /\ Categories[entity] \in Seq(STRING) /\ Certifications[entity] \in Seq(STRING)
      /\ ByCategory \in Seq(Row) /\ ByCertification \in Seq(Row)
  BY ConfigAssumption
<1> DEFINE categories == IF known THEN Categories[entity] ELSE <<>>
           certifications == IF known THEN Certifications[entity] ELSE <<>>
<1>2. categories \in Seq(STRING) /\ certifications \in Seq(STRING)
  <2>1. <<>> \in Seq(STRING)
    OBVIOUS
  <2> QED
    BY <1>1, <2>1, Zenon
<1>3. /\ InSourceOrder(ByCategory, categories) \in Settings \cup {NoSettings}
      /\ InSourceOrder(ByCertification, certifications) \in Settings \cup {NoSettings}
      /\ InTableOrder(ByCategory, categories) \in Settings \cup {NoSettings}
      /\ InTableOrder(ByCertification, certifications) \in Settings \cup {NoSettings}
  BY <1>1, <1>2, TableType
<1>4. Resolve(entity, known, behavior, subject) \in
        {ByEntity[entity], InSourceOrder(ByCategory, categories),
         InSourceOrder(ByCertification, certifications),
         InTableOrder(ByCategory, categories), InTableOrder(ByCertification, certifications)}
  BY Zenon DEF Resolve, Presented
<1> QED
  BY <1>1, <1>3, <1>4

LEMMA Constants ==
  /\ MFA \in Loas /\ DefaultAcr \in Loas /\ NoLoa \notin Loas
  /\ NoFlow \notin Flows /\ NoIdp \notin Idps /\ NoRelay \notin Relays
  /\ NoBehavior \notin Behaviors /\ NoAccount \notin Account /\ NoSettings \notin Settings
  /\ NoPolicy \notin Policy /\ NoSnapshot \notin Snapshot /\ NoLogin \notin Login
  /\ NoSecond \notin Second /\ NoCookie \notin Data /\ NoAnswer \notin Answer
BY ConfigAssumption, NullAssumption

LEMMA PolicyType ==
  ASSUME NEW f \in Flows, NEW onRequest \in BOOLEAN, NEW mode \in Behaviors
  PROVE  RequestPolicy(f, onRequest, mode) \in Policy
<1> DEFINE original == IF onRequest THEN LoasOf[f] ELSE <<>>
           configured == Resolve(f, onRequest, mode, "requester")
           loas == IF configured # NoSettings /\ mode = "eduid"
                   THEN configured.requested ELSE original
           mfaOnly == [requested |-> IF MFA \in Range(loas) THEN <<MFA>> ELSE <<>>,
                       extra |-> {}, returned |-> IF MFA \in Range(loas) THEN MFA ELSE NoLoa]
<1>1. original \in Seq(Loas)
  BY RequestAssumption
<1>2. configured \in Settings \cup {NoSettings}
  BY ResolveType
<1>3. loas \in Seq(Loas)
  BY <1>1, <1>2 DEF Settings
<1>4. mfaOnly \in Settings
  <2>1. <<MFA>> \in Seq(Loas) /\ <<>> \in Seq(Loas)
    BY Constants
  <2> HIDE DEF loas
  <2> QED
    BY <2>1, Constants DEF Settings
<1>5. RequestPolicy(f, onRequest, mode) =
        [behavior |-> mode, original |-> original, loas |-> loas,
         settings |-> IF configured # NoSettings THEN configured ELSE mfaOnly,
         passive |-> onRequest /\ f \in Passive]
  BY DEF RequestPolicy
<1> HIDE DEF original, configured, loas, mfaOnly
<1> QED
  BY <1>1, <1>2, <1>3, <1>4, <1>5 DEF Policy

LEMMA EmptyType == EmptyData \in Data /\ GoodData(EmptyData)
<1>1. EmptyData \in Data
  BY DEF EmptyData, Data
<1> QED
  BY <1>1 DEF EmptyData, GoodData, OwnPolicy, OwnAccount, OwnRest

LEMMA UnsealedGood == ASSUME IInv PROVE Unsealed \in Data /\ GoodData(Unsealed)
BY EmptyType DEF IInv, TypeOK, Unsealed

----------------------------------------------------------------------------
(* Answers to the browser                                                  *)

(* What a request must leave: only good messages on their way.             *)
NextGood ==
  wire' \subseteq Message /\ nextId' \in Nat /\ \A m \in wire' : GoodMessage(m)

LEMMA SendGood ==
  ASSUME IInv, NEW c \in Data \cup {NoCookie}, NEW l \in Login \cup {NoLogin},
         NEW a \in Answer \cup {NoAnswer}, Send(c, l, a), nextId' \in Nat,
         c # NoCookie => GoodData(c), a # NoAnswer => GoodAnswer(a)
  PROVE  NextGood
<1> DEFINE m == [cookie |-> c, login |-> l, answer |-> a]
<1>1. m \in Message /\ m.cookie = c /\ m.answer = a
  BY DEF Message
<1>2. GoodMessage(m)
  BY <1>1 DEF GoodMessage
<1>3. wire' = wire \cup {m}
  BY DEF Send
<1> HIDE DEF m
<1> QED
  BY <1>1, <1>2, <1>3 DEF IInv, TypeOK, NextGood

LEMMA FailGood ==
  ASSUME IInv, NEW st \in Data, GoodData(st), Fail(st)
  PROVE  NextGood
<1>1. nextId' \in Nat
  BY DEF Fail, IInv, TypeOK
<1> QED
  BY <1>1, SendGood DEF Fail

LEMMA RedirectGood ==
  ASSUME IInv, NEW st \in Data, GoodData(st), NEW l \in Login, Redirect(st, l)
  PROVE  NextGood
<1>1. nextId' \in Nat
  BY DEF Redirect, IInv, TypeOK
<1> QED
  BY <1>1, SendGood DEF Redirect

(* What only the backends read does not matter.                            *)
LEMMA SameGood ==
  ASSUME NEW d \in Data, NEW e \in Data, GoodData(d),
         e.pending = d.pending, e.relay = d.relay, e.policy = d.policy,
         e.snapshot = d.snapshot, e.wanted = d.wanted, e.again = d.again
  PROVE  GoodData(e)
BY DEF GoodData, OwnPolicy, OwnAccount, OwnRest

(* A request that failed half-way keeps its RelayState only.               *)
LEMMA DroppedGood ==
  ASSUME NEW st \in Data, OwnAccount(st),
         st.pending # NoFlow => RelayHolds(st.pending, st.relay)
  PROVE  Dropped(st) \in Data /\ GoodData(Dropped(st))
<1>1. /\ Dropped(st) \in Data /\ Dropped(st).again = TRUE
      /\ Dropped(st).pending = st.pending /\ Dropped(st).relay = st.relay
      /\ Dropped(st).snapshot = st.snapshot
  BY DEF Dropped, Data
<1> QED
  BY <1>1 DEF GoodData, OwnPolicy, OwnAccount, OwnRest

LEMMA ForgottenType ==
  ASSUME NEW st \in Data
  PROVE  /\ Forgotten(st) \in Data
         /\ Forgotten(st).pending = st.pending /\ Forgotten(st).relay = st.relay
         /\ Forgotten(st).wanted = st.wanted /\ Forgotten(st).again = st.again
         /\ OwnAccount(Forgotten(st))
<1>1. /\ Forgotten(st) \in Data /\ Forgotten(st).snapshot = NoSnapshot
      /\ Forgotten(st).pending = st.pending /\ Forgotten(st).relay = st.relay
      /\ Forgotten(st).wanted = st.wanted /\ Forgotten(st).again = st.again
  BY DEF Forgotten, Data
<1> QED
  BY <1>1 DEF OwnAccount

----------------------------------------------------------------------------
(* The request path                                                        *)

LEMMA BuildGood ==
  ASSUME IInv, NEW st \in Data, GoodData(st), NEW idp \in Idps, Build(st, idp)
  PROVE  NextGood
<1> DEFINE trusted == Resolve(idp, TRUE, st.handoff, "provider")
           loas == IF st.handoff # NoBehavior /\ trusted # NoSettings
                   THEN Range(trusted.requested) ELSE st.target
           l == [id |-> nextId, at |-> idp, second |-> FALSE, subject |-> NoIdentifier,
                 loas |-> loas]
           next == [st EXCEPT !.handoff = NoBehavior, !.target = {}, !.sent = l]
<1>1. CASE Fail(st)
  BY <1>1, FailGood
<1>2. CASE Redirect(next, l)
  <2>1. trusted \in Settings \cup {NoSettings}
    BY ResolveType
  <2>2. loas \subseteq Loas
    <3>1. st.target \subseteq Loas
      BY DEF Data
    <3>2. trusted # NoSettings => trusted.requested \in Seq(Loas)
      BY <2>1 DEF Settings
    <3>3. trusted # NoSettings => Range(trusted.requested) \subseteq Loas
      <4> HIDE DEF trusted
      <4> QED
        BY <3>2, RangeType
    <3>4. loas = st.target \/ (loas = Range(trusted.requested) /\ trusted # NoSettings)
      OBVIOUS
    <3> HIDE DEF trusted, loas
    <3> QED
      BY <3>1, <3>3, <3>4
  <2>3. l \in Login
    <3> HIDE DEF loas
    <3> QED
      BY <2>2 DEF Login, IInv, TypeOK
  <2> HIDE DEF l
  <2>4. /\ next \in Data /\ next.pending = st.pending /\ next.relay = st.relay
        /\ next.policy = st.policy /\ next.snapshot = st.snapshot
        /\ next.wanted = st.wanted /\ next.again = st.again
    BY <2>3 DEF Data
  <2>5. GoodData(next)
    BY <2>4, SameGood
  <2> QED
    BY <1>2, <2>3, <2>4, <2>5, RedirectGood
<1> QED
  BY <1>1, <1>2 DEF Build, Demanded

LEMMA StartAuthGood ==
  ASSUME IInv, NEW st \in Data, GoodData(st), NEW f \in Flows,
         NEW handoff \in Behaviors \cup {NoBehavior}, NEW target \in SUBSET Loas,
         StartAuth(st, f, handoff, target)
  PROVE  NextGood
<1> DEFINE asked == [st EXCEPT !.handoff = handoff, !.target = target]
<1>1. /\ asked \in Data /\ asked.pending = st.pending /\ asked.relay = st.relay
      /\ asked.policy = st.policy /\ asked.snapshot = st.snapshot
      /\ asked.wanted = st.wanted /\ asked.again = st.again
  BY DEF Data
<1>2. GoodData(asked)
  BY <1>1, SameGood
<1>3. Hinted[f] \in Idps \cup {NoIdp}
  BY RequestAssumption
<1> HIDE DEF asked
<1> QED
  BY <1>1, <1>2, <1>3, BuildGood, FailGood DEF StartAuth, asked

LEMMA ForwardedType == ASSUME NEW f \in Flows PROVE Forwarded(f) \subseteq Loas
<1>1. /\ Filtered(f) \subseteq Loas
      /\ \A k \in DOMAIN Supported : Supported[k] \in Loas
  <2>1. LoasOf[f] \in Seq(Loas) /\ Supported \in Seq(Loas)
    BY RequestAssumption, ConfigAssumption
  <2> QED
    BY <2>1 DEF Filtered, Range
<1>2. CASE Lowest # NoLoa
  <2>1. PICK k \in DOMAIN Supported : Supported[k] = Lowest
    BY <1>2, ConfigAssumption DEF Range
  <2>2. Place(Lowest) \in DOMAIN Supported
    BY <2>1 DEF Place
  <2>3. 1 .. Place(Lowest) \subseteq DOMAIN Supported
    BY <2>2, ConfigAssumption
  <2> QED
    BY <1>1, <1>2, <2>3 DEF Forwarded
<1>3. CASE Lowest = NoLoa
  BY <1>1, <1>3, ConfigAssumption DEF Forwarded, Range
<1> QED
  BY <1>2, <1>3

(* A new request takes the frontend's and step-up's parts, and accr's      *)
(* unless accr refuses it.                                                 *)
LEMMA SsoGood ==
  ASSUME IInv, NEW f \in Flows, NEW mode \in Behaviors, Sso(f, mode)
  PROVE  NextGood
<1> DEFINE p == RequestPolicy(f, TRUE, mode)
           st == [Stored(Unsealed, f) EXCEPT !.policy = p]
           saved == SaveWanted(st, f)
<1>1. p \in Policy
  BY PolicyType
<1>2. Unsealed \in Data /\ OwnAccount(Unsealed)
  BY UnsealedGood DEF GoodData
<1>3. /\ Stored(Unsealed, f) \in Data
      /\ Stored(Unsealed, f).pending = f /\ Stored(Unsealed, f).again = FALSE
      /\ RelayHolds(f, Stored(Unsealed, f).relay)
      /\ Stored(Unsealed, f).snapshot = Unsealed.snapshot
  <2>1. RelayOf[f] \in Relays \cup {NoRelay}
    BY RequestAssumption
  <2> DEFINE relay == IF RelayOf[f] = NoRelay THEN Unsealed.relay ELSE RelayOf[f]
  <2>2. relay \in Relays \cup {NoRelay} /\ RelayHolds(f, relay)
    BY <1>2, <2>1 DEF Data, RelayHolds
  <2>3. Stored(Unsealed, f) =
          [Unsealed EXCEPT !.pending = f, !.again = FALSE, !.relay = relay]
    BY DEF Stored
  <2> HIDE DEF relay
  <2>4. /\ Stored(Unsealed, f) \in Data
        /\ Stored(Unsealed, f).pending = f /\ Stored(Unsealed, f).again = FALSE
        /\ Stored(Unsealed, f).relay = relay
        /\ Stored(Unsealed, f).snapshot = Unsealed.snapshot
    BY <1>2, <2>2, <2>3 DEF Data
  <2> QED
    BY <2>2, <2>4
<1> HIDE DEF p
<1>4. /\ st \in Data /\ st.pending = f /\ st.again = FALSE /\ st.policy = p
      /\ RelayHolds(f, st.relay) /\ st.snapshot = Unsealed.snapshot
  BY <1>1, <1>3 DEF Data
<1> HIDE DEF st
<1>5. OwnPolicy(st) /\ OwnAccount(st)
  BY <1>2, <1>4 DEF OwnPolicy, OwnAccount, p
<1>6. CASE Unsupported(f) /\ Fail(st)
  <2>1. GoodData(st)
    BY <1>4, <1>5, <1>6 DEF GoodData, OwnRest, Unsupported
  <2> QED
    BY <1>4, <1>6, <2>1, FailGood
<1>7. CASE StartAuth(saved, f, IF WantsMfa(p) THEN mode ELSE NoBehavior, Forwarded(f))
  <2>1. Filtered(f) \subseteq Loas
    <3>1. LoasOf[f] \in Seq(Loas)
      BY RequestAssumption
    <3> QED
      BY <3>1, RangeType DEF Filtered
  <2>2. /\ saved \in Data /\ saved.pending = f /\ saved.again = FALSE /\ saved.policy = p
        /\ saved.relay = st.relay /\ saved.snapshot = st.snapshot
        /\ saved.wanted = Filtered(f)
    BY <1>4, <2>1 DEF SaveWanted, Data
  <2>3. GoodData(saved)
    BY <1>4, <1>5, <2>2 DEF GoodData, OwnPolicy, OwnAccount, OwnRest
  <2>4. (IF WantsMfa(p) THEN mode ELSE NoBehavior) \in Behaviors \cup {NoBehavior}
    OBVIOUS
  <2> HIDE DEF saved
  <2> QED
    BY <1>7, <2>2, <2>3, <2>4, ForwardedType, StartAuthGood
<1> QED
  BY <1>6, <1>7 DEF Sso, p, st

LEMMA DiscoGood == ASSUME IInv, NEW idp \in Idps, Disco(idp) PROVE NextGood
BY UnsealedGood, BuildGood DEF Disco

LEMMA PageGood == ASSUME IInv, Page PROVE NextGood
BY UnsealedGood, FailGood DEF Page

----------------------------------------------------------------------------
(* accr and the frontend                                                   *)

LEMMA PlaceOf ==
  ASSUME NEW k \in DOMAIN Supported
  PROVE  Place(Supported[k]) = k
<1>1. \A j \in DOMAIN Supported : Supported[j] = Supported[k] => j = k
  BY ConfigAssumption DEF IsInjective
<1> QED
  BY <1>1 DEF Place

(* What a level negotiated from `loa` may be.                              *)
LEMMA NegotiatedGood ==
  ASSUME NEW wanted \in SUBSET Loas, NEW loa \in Loas \cup {NoLoa},
         NEW level \in Negotiated(wanted, loa)
  PROVE  /\ level \in Loas \cup {NoLoa}
         /\ wanted = {} => level = loa
         /\ wanted # {} => level \in wanted
         /\ AtLeast(loa, level) \/ AtLeast(Origin(loa), level)
<1>1. CASE wanted = {}
  BY <1>1 DEF Negotiated, AtLeast
<1>2. CASE wanted # {} /\ Origin(loa) \in wanted
  BY <1>2 DEF Negotiated, AtLeast
<1>3. CASE wanted # {} /\ Origin(loa) \notin wanted
  <2>1. level \in Fallback(wanted, Origin(loa))
    BY <1>3 DEF Negotiated
  <2>2. PICK k \in DOMAIN Supported :
          /\ level = Supported[k] /\ Origin(loa) \in Range(Supported)
          /\ k >= Place(Origin(loa)) /\ Supported[k] \in wanted
    BY <2>1 DEF Fallback
  <2>3. Place(level) = k /\ level \in Range(Supported)
    BY <2>2, PlaceOf DEF Range
  <2>4. PICK j \in DOMAIN Supported : Origin(loa) = Supported[j]
    BY <2>2 DEF Range
  <2>5. Place(Origin(loa)) = j /\ j \in Nat /\ k \in Nat
    BY <2>4, PlaceOf, ConfigAssumption
  <2>6. Place(Origin(loa)) <= Place(level)
    BY <2>2, <2>3, <2>5
  <2> QED
    BY <1>3, <2>2, <2>3, <2>6 DEF AtLeast
<1> QED
  BY <1>1, <1>2, <1>3

(* What a response is behind step-up.                                      *)
Judged(st, r) ==
  /\ r \in Response
  /\ st.pending # NoFlow /\ ~ st.again /\ DemandsMfa(st.pending) => Strong(r)
  /\ SameUser(r)

LEMMA SameStrong ==
  ASSUME NEW r \in Response, NEW loa \in Loas \cup {NoLoa}
  PROVE  /\ [r EXCEPT !.loa = loa] \in Response
         /\ Strong([r EXCEPT !.loa = loa]) <=> Strong(r)
         /\ SameUser([r EXCEPT !.loa = loa]) <=> SameUser(r)
<1> DEFINE q == [r EXCEPT !.loa = loa]
<1>1. /\ q \in Response /\ q.second = r.second /\ q.idp = r.idp
      /\ q.asserted = r.asserted /\ q.user = r.user
  BY DEF Response
<1> HIDE DEF q
<1>2. Strong(q) <=> Strong(r)
  BY <1>1 DEF Strong
<1>3. SameUser(q) <=> SameUser(r)
  BY <1>1 DEF SameUser
<1> QED
  BY <1>1, <1>2, <1>3 DEF q

(* The frontend answers the pending request with level `level`.            *)
LEMMA RenderGood ==
  ASSUME IInv, NEW st \in Data, OwnAccount(st), NEW r,
         st.pending # NoFlow => RelayHolds(st.pending, st.relay),
         Judged(st, r),
         st.pending # NoFlow /\ ~ st.again /\ Filtered(st.pending) # {} =>
           r.loa \in Filtered(st.pending),
         Strong(r) \/ AtLeast(r.asserted, r.loa) \/ AtLeast(Origin(r.asserted), r.loa),
         r.loa = NoLoa => Strong(r) \/ r.asserted = NoLoa,
         Render(st, r)
  PROVE  NextGood
<1>1. CASE Fail(Dropped(st))
  BY <1>1, DroppedGood, FailGood
<1>2. CASE st.pending # NoFlow /\ ~ Fail(Dropped(st))
  <2> DEFINE loa == IF r.loa = NoLoa THEN DefaultAcr ELSE r.loa
             a == [flow |-> st.pending, relay |-> st.relay, response |-> r,
                   again |-> st.again, loa |-> loa]
  <2>1. r \in Response /\ r.loa \in Loas \cup {NoLoa}
    BY DEF Judged, Response
  <2>2. loa \in Loas
    BY <2>1, Constants
  <2>3. st.pending \in Flows /\ st.relay \in Relays \cup {NoRelay} /\ st.again \in BOOLEAN
    BY <1>2 DEF Data
  <2>4. Filtered(st.pending) \subseteq Loas
    <3>1. LoasOf[st.pending] \in Seq(Loas)
      BY <2>3, RequestAssumption
    <3> QED
      BY <3>1, RangeType DEF Filtered
  <2>5. st.again \/ Filtered(st.pending) = {} \/ loa \in Filtered(st.pending)
    BY <1>2, <2>4, Constants
  <2>6. \/ Strong(r)
        \/ AtLeast(r.asserted, loa) \/ AtLeast(Origin(r.asserted), loa)
        \/ r.asserted = NoLoa /\ loa = DefaultAcr
    OBVIOUS
  <2> HIDE DEF loa
  <2>7. a \in Answer
    BY <2>1, <2>2, <2>3 DEF Answer
  <2>8. /\ a.flow = st.pending /\ a.relay = st.relay /\ a.response = r
        /\ a.again = st.again /\ a.loa = loa
    OBVIOUS
  <2> HIDE DEF a
  <2>9. GoodAnswer(a)
    <3>1. MfaHolds(a)
      BY <1>2, <2>8 DEF MfaHolds, Judged
    <3>2. LevelHolds(a)
      BY <2>6, <2>8 DEF LevelHolds
    <3>3. AskedHolds(a)
      BY <2>5, <2>8 DEF AskedHolds
    <3>4. SameUser(a.response) /\ RelayHolds(a.flow, a.relay)
      BY <1>2, <2>8 DEF Judged
    <3> QED
      BY <3>1, <3>2, <3>3, <3>4 DEF GoodAnswer
  <2>10. Send(NoCookie, NoLogin, a) /\ nextId' = nextId
    BY <1>2 DEF Render, a, loa
  <2>11. nextId' \in Nat
    BY <2>10 DEF IInv, TypeOK
  <2> QED
    BY <2>7, <2>9, <2>10, <2>11, SendGood
<1> QED
  BY <1>1, <1>2 DEF Render

LEMMA AccrGood ==
  ASSUME IInv, NEW st \in Data, OwnAccount(st), OwnRest(st), NEW r,
         Judged(st, r), Strong(r) \/ r.loa = r.asserted, AccrResponse(st, r)
  PROVE  NextGood
<1>1. CASE Fail(Dropped(st))
  BY <1>1, DroppedGood, FailGood DEF OwnRest
<1>2. CASE \E loa \in Negotiated(st.wanted, r.loa) :
             Render([st EXCEPT !.wanted = {}], [r EXCEPT !.loa = loa])
  <2>1. PICK loa \in Negotiated(st.wanted, r.loa) :
               Render([st EXCEPT !.wanted = {}], [r EXCEPT !.loa = loa])
    BY <1>2
  <2> DEFINE d == [st EXCEPT !.wanted = {}]
             q == [r EXCEPT !.loa = loa]
  <2>2. r \in Response /\ r.loa \in Loas \cup {NoLoa} /\ st.wanted \in SUBSET Loas
    BY DEF Judged, Response, Data
  <2>3. /\ loa \in Loas \cup {NoLoa}
        /\ st.wanted = {} => loa = r.loa
        /\ st.wanted # {} => loa \in st.wanted
        /\ AtLeast(r.loa, loa) \/ AtLeast(Origin(r.loa), loa)
    BY <2>2, NegotiatedGood
  <2>4. q \in Response /\ (Strong(q) <=> Strong(r)) /\ (SameUser(q) <=> SameUser(r))
    BY <2>2, <2>3, SameStrong
  <2>5. q.loa = loa /\ q.asserted = r.asserted
    BY <2>2 DEF Response
  <2>6. /\ d \in Data /\ d.pending = st.pending /\ d.relay = st.relay
        /\ d.again = st.again /\ d.snapshot = st.snapshot
    BY DEF Data
  <2> HIDE DEF d, q
  <2>7. Judged(d, q) /\ OwnAccount(d)
    BY <2>4, <2>6 DEF Judged, OwnAccount
  <2>8. d.pending # NoFlow => RelayHolds(d.pending, d.relay)
    BY <2>6 DEF OwnRest
  <2>9. d.pending # NoFlow /\ ~ d.again /\ Filtered(d.pending) # {} =>
          q.loa \in Filtered(d.pending)
    BY <2>3, <2>5, <2>6 DEF OwnRest
  <2>10. Strong(q) \/ AtLeast(q.asserted, q.loa) \/ AtLeast(Origin(q.asserted), q.loa)
    BY <2>3, <2>4, <2>5
  <2>11. q.loa = NoLoa => Strong(q) \/ q.asserted = NoLoa
    BY <2>2, <2>3, <2>4, <2>5, Constants
  <2>12. Render(d, q)
    BY <2>1 DEF d, q
  <2> QED
    BY <2>6, <2>7, <2>8, <2>9, <2>10, <2>11, <2>12, RenderGood
<1> QED
  BY <1>1, <1>2 DEF AccrResponse

----------------------------------------------------------------------------
(* Step-up                                                                 *)

LEMMA AcceptedIsStrong ==
  ASSUME NEW r \in Response, NEW mode \in Behaviors,
         Resolve(r.idp, TRUE, mode, "provider") # NoSettings, r.asserted # NoLoa,
         Accepts(Resolve(r.idp, TRUE, mode, "provider"), r.asserted)
  PROVE  Strong(r)
BY DEF Strong

LEMMA FirstType == ASSUME NEW T, NEW s \in Seq(T), s # <<>> PROVE s[1] \in T
OBVIOUS

LEMMA NormalizedType ==
  ASSUME NEW settings \in Settings \cup {NoSettings}, NEW p \in Policy,
         NEW asserted \in Loas \cup {NoLoa}
  PROVE  Normalized(settings, p, asserted) \in Loas \cup {NoLoa}
<1>1. p.loas \in Seq(Loas)
  BY DEF Policy
<1>2. p.loas # <<>> => p.loas[1] \in Loas
  BY <1>1, FirstType
<1>3. settings # NoSettings => settings.returned \in Loas \cup {NoLoa}
  BY DEF Settings
<1> QED
  BY <1>2, <1>3 DEF Normalized

LEMMA CompletedType ==
  ASSUME NEW p \in Policy, NEW loa \in Loas
  PROVE  Completed(p, loa) \in Loas
<1>1. /\ p.loas \in Seq(Loas) /\ p.original \in Seq(Loas)
      /\ p.settings.returned \in Loas \cup {NoLoa}
  BY DEF Policy, Settings
<1>2. /\ p.loas # <<>> => p.loas[1] \in Loas
      /\ p.original # <<>> => p.original[1] \in Loas
  BY <1>1, FirstType
<1> QED
  BY <1>1, <1>2 DEF Completed

(* The waiting response belongs to the user whose account logs in next.    *)
LEMMA SuspendGood ==
  ASSUME IInv, NEW st \in Data, GoodData(st), NEW r \in Response, r.second = NoSecond,
         NEW p \in Policy, AccountOf[r.user] # NoAccount, Suspend(st, r, p)
  PROVE  NextGood
<1> DEFINE account == AccountOf[r.user]
           snap == [response |-> r, account |-> account, policy |-> p]
           suspended == [st EXCEPT !.snapshot = snap]
           l == [id |-> nextId, at |-> account.idp, second |-> TRUE,
                 subject |-> account.identifier, loas |-> Range(p.settings.requested)]
           next == [suspended EXCEPT !.embedded = l]
<1>1. account \in Account
  BY RequestAssumption DEF Response
<1>2. snap \in Snapshot /\ snap.account = AccountOf[snap.response.user] /\ snap.response = r
  BY <1>1 DEF Snapshot
<1>3. l \in Login
  <2>1. p.settings.requested \in Seq(Loas)
    BY DEF Policy, Settings
  <2>2. Range(p.settings.requested) \subseteq Loas
    BY <2>1, RangeType
  <2> HIDE DEF account
  <2> QED
    BY <1>1, <2>2 DEF Login, Account, IInv, TypeOK
<1> HIDE DEF snap, l
<1>4. /\ suspended \in Data /\ suspended.snapshot = snap
      /\ suspended.pending = st.pending /\ suspended.relay = st.relay
      /\ suspended.policy = st.policy /\ suspended.wanted = st.wanted
      /\ suspended.again = st.again
  BY <1>2 DEF Data
<1> HIDE DEF suspended
<1>5. GoodData(suspended)
  <2>1. OwnAccount(suspended)
    BY <1>2, <1>4 DEF OwnAccount
  <2> QED
    BY <1>4, <2>1 DEF GoodData, OwnPolicy, OwnRest
<1>6. CASE Fail(Dropped(suspended))
  BY <1>4, <1>5, <1>6, DroppedGood, FailGood DEF GoodData, OwnRest
<1>7. CASE Redirect(next, l)
  <2>1. /\ next \in Data /\ next.pending = suspended.pending /\ next.relay = suspended.relay
        /\ next.policy = suspended.policy /\ next.snapshot = suspended.snapshot
        /\ next.wanted = suspended.wanted /\ next.again = suspended.again
    BY <1>3, <1>4 DEF Data
  <2>2. GoodData(next)
    BY <1>4, <1>5, <2>1, SameGood
  <2> QED
    BY <1>3, <1>7, <2>1, <2>2, RedirectGood
<1> QED
  BY <1>6, <1>7 DEF Suspend, suspended, snap, l

LEMMA StepUpGood ==
  ASSUME IInv, NEW st \in Data, GoodData(st), st.pending # NoFlow,
         NEW r \in Response, r.second = NoSecond, r.loa = r.asserted,
         NEW mode \in Behaviors, StepUpResponse(st, r, mode)
  PROVE  NextGood
<1> DEFINE p == IF st.policy = NoPolicy THEN RequestPolicy(st.pending, FALSE, mode)
                ELSE st.policy
           settings == Resolve(r.idp, TRUE, p.behavior, "provider")
           level == Enough(settings, p, r.asserted)
           q == [r EXCEPT !.loa = level]
<1>1. st.pending \in Flows /\ st.policy \in Policy \cup {NoPolicy}
  BY DEF Data
<1>2. p \in Policy
  BY <1>1, PolicyType
<1>3. ~ st.again /\ DemandsMfa(st.pending) => WantsMfa(p)
  <2> SUFFICES ASSUME ~ st.again, DemandsMfa(st.pending) PROVE WantsMfa(p)
    OBVIOUS
  <2>1. PICK m \in Behaviors : st.policy = RequestPolicy(st.pending, TRUE, m)
    BY DEF GoodData, OwnPolicy
  <2>2. p = RequestPolicy(st.pending, TRUE, m)
    BY <1>1, <2>1, PolicyType, Constants
  <2> QED
    BY <2>2 DEF DemandsMfa
<1> HIDE DEF p
<1>4. r.idp \in Idps /\ r.asserted \in Loas \cup {NoLoa} /\ p.behavior \in Behaviors
  BY <1>2 DEF Response, Policy
<1>5. settings \in Settings \cup {NoSettings}
  BY <1>4, ResolveType
<1>6. level \in Loas \cup {NoLoa}
  <2> HIDE DEF settings
  <2> QED
    BY <1>2, <1>4, <1>5, NormalizedType DEF Enough
<1>7. SameUser(r)
  BY DEF SameUser
<1> DEFINE d == Forgotten(st)
<1>8. /\ d \in Data /\ d.pending = st.pending /\ d.relay = st.relay /\ d.wanted = st.wanted
      /\ d.again = st.again /\ OwnAccount(d)
  BY ForgottenType
<1> HIDE DEF d
<1>9. OwnRest(d) /\ (d.pending # NoFlow => RelayHolds(d.pending, d.relay))
  BY <1>8 DEF GoodData, OwnRest
<1>10. CASE ~ WantsMfa(p) /\ AccrResponse(d, r)
  <2>1. Judged(d, r)
    BY <1>3, <1>7, <1>8, <1>10 DEF Judged
  <2> QED
    BY <1>8, <1>9, <1>10, <2>1, AccrGood
<1>11. CASE level # NoLoa /\ AccrResponse(d, q)
  <2>1. Strong(r)
    BY <1>4, <1>11, AcceptedIsStrong DEF Enough, Normalized
  <2> HIDE DEF level
  <2>2. q \in Response /\ Strong(q) /\ SameUser(q)
    BY <1>6, <1>7, <2>1, SameStrong
  <2> HIDE DEF q
  <2>3. Judged(d, q)
    BY <2>2 DEF Judged
  <2> QED
    BY <1>8, <1>9, <1>11, <2>2, <2>3, AccrGood
<1>12. CASE Fail(Dropped(d))
  BY <1>8, <1>9, <1>12, DroppedGood, FailGood
<1>13. CASE Fail(Dropped(st))
  BY <1>13, DroppedGood, FailGood DEF GoodData, OwnRest
<1>14. CASE AccountOf[r.user] # NoAccount /\ Suspend(st, r, p)
  BY <1>2, <1>14, SuspendGood
<1> QED
  BY <1>10, <1>11, <1>12, <1>13, <1>14 DEF StepUpResponse, ProviderPolicy, p, d

LEMMA AcsGood ==
  ASSUME IInv, NEW l \in Login, NEW u \in Users, NEW loa \in Asserts[l.at],
         NEW mode \in Behaviors, Acs(l, u, loa, mode)
  PROVE  NextGood
<1> DEFINE st == [Unsealed EXCEPT !.sent = NoLogin, !.handoff = NoBehavior, !.target = {}]
           r == [user |-> u, idp |-> l.at, asserted |-> loa, loa |-> loa,
                 second |-> NoSecond]
<1>1. Unsealed \in Data /\ GoodData(Unsealed)
  BY UnsealedGood
<1>2. /\ st \in Data /\ st.pending = Unsealed.pending /\ st.relay = Unsealed.relay
      /\ st.policy = Unsealed.policy /\ st.snapshot = Unsealed.snapshot
      /\ st.wanted = Unsealed.wanted /\ st.again = Unsealed.again
  BY <1>1 DEF Data
<1> HIDE DEF st
<1>3. GoodData(st)
  BY <1>1, <1>2, SameGood
<1>4. loa \in Loas \cup {NoLoa} /\ l.at \in Idps
  BY ConfigAssumption DEF Login
<1>5. r \in Response /\ r.second = NoSecond /\ r.loa = r.asserted
  BY <1>4 DEF Response
<1> HIDE DEF r
<1>6. CASE Fail(Dropped(st))
  BY <1>2, <1>3, <1>6, DroppedGood, FailGood DEF GoodData, OwnRest
<1>7. CASE st.pending # NoFlow /\ StepUpResponse(st, r, mode)
  BY <1>2, <1>3, <1>5, <1>7, StepUpGood
<1> QED
  BY <1>6, <1>7 DEF Acs, st, r

(* The waiting response goes on with the second login of its own account.  *)
LEMMA StepUpAcsGood ==
  ASSUME IInv, NEW l \in Login, NEW i \in Identifiers,
         NEW loa \in Asserts[l.at] \ {NoLoa}, StepUpAcs(l, i, loa)
  PROVE  NextGood
<1> DEFINE snap == Unsealed.snapshot
           st == [Forgotten(Unsealed) EXCEPT !.embedded = NoLogin]
           s == [at |-> l.at, identifier |-> i, loa |-> loa]
           level == Completed(snap.policy, loa)
           r == [snap.response EXCEPT !.loa = level, !.second = s]
<1>1. Unsealed \in Data /\ GoodData(Unsealed) /\ snap # NoSnapshot
  BY UnsealedGood DEF StepUpAcs
<1>2. /\ Forgotten(Unsealed) \in Data /\ OwnAccount(Forgotten(Unsealed))
      /\ Forgotten(Unsealed).pending = Unsealed.pending
      /\ Forgotten(Unsealed).relay = Unsealed.relay
      /\ Forgotten(Unsealed).wanted = Unsealed.wanted
      /\ Forgotten(Unsealed).again = Unsealed.again
  BY <1>1, ForgottenType
<1>3. /\ st \in Data /\ st.snapshot = Forgotten(Unsealed).snapshot
      /\ st.pending = Unsealed.pending /\ st.relay = Unsealed.relay
      /\ st.wanted = Unsealed.wanted /\ st.again = Unsealed.again
  BY <1>2 DEF Data
<1> HIDE DEF st
<1>4. OwnAccount(st) /\ OwnRest(st)
  BY <1>1, <1>2, <1>3 DEF OwnAccount, OwnRest, GoodData
<1>5. CASE Fail(Dropped(st))
  BY <1>3, <1>4, <1>5, DroppedGood, FailGood DEF OwnRest
<1>6. CASE Satisfies(snap, s) /\ AccrResponse(st, r)
  <2>1. /\ snap \in Snapshot /\ snap.account = AccountOf[snap.response.user]
        /\ snap.response.second = NoSecond
    BY <1>1 DEF GoodData, OwnAccount, Data
  <2> HIDE DEF snap
  <2>2. /\ snap.response \in Response /\ snap.policy \in Policy
        /\ snap.account \in Account
    BY <2>1 DEF Snapshot
  <2>3. loa \in Loas /\ l.at \in Idps
    BY ConfigAssumption DEF Login
  <2>4. s \in Second /\ s.at = l.at /\ s.identifier = i
    BY <2>3 DEF Second
  <2>5. level \in Loas
    BY <2>2, <2>3, CompletedType
  <2>6. s.at = snap.account.idp /\ s.identifier = snap.account.identifier
    BY <1>6 DEF Satisfies
  <2>7. AccountOf[snap.response.user] = [idp |-> s.at, identifier |-> s.identifier]
    BY <2>1, <2>2, <2>6 DEF Account
  <2> HIDE DEF s, level
  <2>8. r \in Response /\ r.second = s /\ r.user = snap.response.user
    BY <2>2, <2>4, <2>5 DEF Response
  <2> HIDE DEF r
  <2>9. Strong(r) /\ SameUser(r)
    BY <2>4, <2>7, <2>8, Constants DEF Strong, SameUser
  <2>10. Judged(st, r)
    BY <2>8, <2>9 DEF Judged
  <2> QED
    BY <1>3, <1>4, <1>6, <2>9, <2>10, AccrGood
<1> QED
  BY <1>5, <1>6 DEF StepUpAcs, Finished, st, s, r, level, snap

----------------------------------------------------------------------------
(* The invariant and the properties                                        *)

(* A step of the proxy changes neither the browser nor the IdPs.           *)
LEMMA ProxyKeeps ==
  ASSUME IInv, NextGood, jar' = jar, upstream' = upstream, started' \subseteq Flows
  PROVE  IInv'
BY DEF IInv, TypeOK, NextGood

LEMMA DeliverKeeps == ASSUME IInv, NEW m \in wire, Deliver(m) PROVE IInv'
<1>1. m \in Message /\ GoodMessage(m)
  BY DEF IInv, TypeOK
<1>2. jar' \in Data \cup {NoCookie} /\ (jar' # NoCookie => GoodData(jar'))
  BY <1>1 DEF Deliver, Message, GoodMessage
<1>3. upstream' \subseteq Login
  BY <1>1 DEF Deliver, Message, IInv, TypeOK
<1> QED
  BY <1>2, <1>3 DEF Deliver, IInv, TypeOK

LEMMA InitIInv == Init => IInv
BY DEF Init, IInv, TypeOK

LEMMA NextIInv == IInv /\ [Next]_vars => IInv'
<1> SUFFICES ASSUME IInv, [Next]_vars PROVE IInv'
  OBVIOUS
<1>1. ASSUME NEW f \in Flows, NEW mode \in Behaviors, Sso(f, mode) PROVE IInv'
  BY <1>1, SsoGood, ProxyKeeps DEF Sso, IInv, TypeOK
<1>2. ASSUME NEW idp \in Idps, Disco(idp) PROVE IInv'
  BY <1>2, DiscoGood, ProxyKeeps DEF Disco, IInv, TypeOK
<1>3. CASE Page
  BY <1>3, PageGood, ProxyKeeps DEF Page, IInv, TypeOK
<1>4. ASSUME NEW l \in upstream, NEW u \in Users, NEW loa \in Asserts[l.at],
             NEW mode \in Behaviors, Acs(l, u, loa, mode)
      PROVE  IInv'
  BY <1>4, AcsGood, ProxyKeeps DEF Acs, IInv, TypeOK
<1>5. ASSUME NEW l \in upstream, NEW i \in Identifiers,
             NEW loa \in Asserts[l.at] \ {NoLoa}, StepUpAcs(l, i, loa)
      PROVE  IInv'
  BY <1>5, StepUpAcsGood, ProxyKeeps DEF StepUpAcs, IInv, TypeOK
<1>6. ASSUME NEW m \in wire, Deliver(m) PROVE IInv'
  BY <1>6, DeliverKeeps
<1>7. ASSUME NEW m \in wire, Lose(m) PROVE IInv'
  BY <1>7 DEF Lose, IInv, TypeOK
<1>8. CASE UNCHANGED vars
  BY <1>8 DEF vars, IInv, TypeOK
<1> QED
  BY <1>1, <1>2, <1>3, <1>4, <1>5, <1>6, <1>7, <1>8 DEF Next

(* The namespaces that the frontend, stepup and accr store on their own    *)
(* agree in every cookie, as far as the pending request has not failed,    *)
(* whatever the order of requests, responses, losses and late answers.     *)
THEOREM Invariance == Spec => []IInv
  BY InitIInv, NextIInv, PTL DEF Spec

(* Each answer on its way is a good one.                                   *)
LEMMA GoodAnswers == ASSUME IInv, NEW a \in answers PROVE GoodAnswer(a)
BY DEF IInv, answers, GoodMessage

(* process_response_action judges a request for MFA by a policy that wants *)
(* it, provided that no login for it failed half-way before.               *)
THEOREM MfaIsHonoured == Spec => []MfaHonoured
<1>1. IInv => MfaHonoured
  BY GoodAnswers DEF MfaHonoured, GoodAnswer
<1> QED
  BY <1>1, Invariance, PTL

(* accr's rewriting and fallback, on whichever list, never strengthen the  *)
(* level; stepup does only for a trusted or a completed login.             *)
THEOREM LevelIsNotInflated == Spec => []NeverInflated
<1>1. IInv => NeverInflated
  BY GoodAnswers DEF NeverInflated, GoodAnswer
<1> QED
  BY <1>1, Invariance, PTL

(* The list by which accr judges the response is the pending request's.    *)
THEOREM LevelIsAskedFor == Spec => []LoaWasAsked
<1>1. IInv => LoaWasAsked
  BY GoodAnswers DEF LoaWasAsked, GoodAnswer
<1> QED
  BY <1>1, Invariance, PTL

(* finish_stepup resumes a response only for the user it belongs to.       *)
THEOREM SecondLoginIsOwn == Spec => []StepUpOfSameUser
<1>1. IInv => StepUpOfSameUser
  BY GoodAnswers DEF StepUpOfSameUser, GoodAnswer
<1> QED
  BY <1>1, Invariance, PTL

(* The RelayState that handle_authn_response returns is the request's own. *)
THEOREM RelayIsReturned == Spec => []RelayReturned
<1>1. IInv => RelayReturned
  BY GoodAnswers DEF RelayReturned, GoodAnswer
<1> QED
  BY <1>1, Invariance, PTL
=============================================================================

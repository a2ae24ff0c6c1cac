------------------------- MODULE SealedStateProofs -------------------------
(***************************************************************************)
(* Proofs about the sealed cookie, for any number of replicas and tabs,    *)
(* any clocks within the skew, any lifetime and any rotation of the keys;  *)
(* that a rotation loses no flow, for a staged one.                        *)
(***************************************************************************)
EXTENDS SealedState, TLAPS

(* Facts about the constants that every step needs.                        *)
LEMMA Constants ==
  /\ TTL \in Nat \ {0} /\ Skew \in Nat /\ InflateCap \in Nat
  /\ \A r \in Replicas : Offset[r] \in Nat /\ Offset[r] <= Skew
  /\ Len(Plan) \in Nat /\ 1 \in Stages
  /\ \A s \in Stages : s \in Nat /\ Plan[s].primary \in SecretKeys
                       /\ Plan[s].primary \in Ring(s)
<1> DEFINE Rings == [primary: SecretKeys, previous: SUBSET SecretKeys]
<1> HIDE DEF Rings
<1>1. Plan \in Seq(Rings) /\ Plan # <<>>
  BY PlanAssumption DEF Rings
<1>2. Len(Plan) \in Nat /\ Len(Plan) > 0
  BY <1>1
<1>3. \A s \in Stages : Plan[s] \in Rings
  BY <1>1 DEF Stages
<1> USE DEF Rings
<1> QED
  BY <1>2, <1>3, ClockAssumption, SizeAssumption DEF Stages, Ring

LEMMA MonusFact ==
  ASSUME NEW a \in Nat, NEW b \in Nat
  PROVE  /\ Monus(a, b) \in Nat
         /\ a <= b => Monus(a, b) = 0
         /\ b <= a => Monus(a, b) = a - b
BY DEF Monus

(* A tab that has a response is handling nothing.                          *)
LEMMA Disjoint == Handling \cap Response = {}
<1>1. ASSUME NEW h \in Handling, h \in Response PROVE FALSE
  <2>1. DOMAIN h = {"at", "since", "state"}
    BY DEF Handling
  <2>2. DOMAIN h = {"cookie", "maxAge"}
    BY <1>1 DEF Response
  <2> QED
    BY <2>1, <2>2
<1> QED
  BY <1>1

LEMMA ClockType ==
  ASSUME now \in Nat, NEW r \in Replicas
  PROVE  Clock(r) \in Nat /\ now <= Clock(r) /\ Clock(r) <= now + Skew
BY Constants DEF Clock

(* While the flow is young no replica finds its state expired or early.    *)
LEMMA YoungIsFresh ==
  ASSUME now \in Nat, NEW i \in Issue, IssueInv(i), now - i.born < TTL - Skew,
         NEW r \in Replicas
  PROVE  Fresh(r, i.iat)
<1>1. /\ Clock(r) \in Nat /\ now <= Clock(r) /\ Clock(r) <= now + Skew
      /\ i.iat \in Nat /\ i.born \in Nat
      /\ i.born <= i.iat /\ i.iat <= i.born + Skew /\ i.born <= now
      /\ TTL \in Nat /\ Skew \in Nat
  BY ClockType, Constants DEF Issue, IssueInv
<1>2. i.iat <= Clock(r) + Skew
  BY <1>1
<1>3. Monus(Clock(r), i.iat) < TTL
  BY <1>1, Constants DEF Monus
<1> QED
  BY <1>2, <1>3 DEF Fresh

(* A replica that recovers a state is within TTL and the skew of its birth.*)
LEMMA FreshIsYoung ==
  ASSUME now \in Nat, NEW i \in Issue, IssueInv(i), NEW r \in Replicas, Fresh(r, i.iat)
  PROVE  now - i.born < TTL + Skew
<1>1. /\ Clock(r) \in Nat /\ now <= Clock(r)
      /\ i.iat \in Nat /\ i.born \in Nat /\ i.iat <= i.born + Skew
      /\ TTL \in Nat \ {0} /\ Skew \in Nat
  BY ClockType, Constants DEF Issue, IssueInv
<1>2. Monus(Clock(r), i.iat) < TTL
  BY DEF Fresh
<1> QED
  BY <1>1, <1>2 DEF Monus

(* What the browser is told lasts until the flow is TTL old, less the skew.*)
LEMMA DeadlineLasts ==
  ASSUME now \in Nat, NEW i \in Issue, IssueInv(i), NEW r \in Replicas
  PROVE  /\ Remaining(r, i.iat) \in Nat
         /\ i.born + TTL - Skew <= now + Remaining(r, i.iat)
<1>1. /\ Clock(r) \in Nat /\ now <= Clock(r) /\ Clock(r) <= now + Skew
      /\ i.iat \in Nat /\ i.born \in Nat
      /\ i.born <= i.iat /\ i.born <= now
      /\ TTL \in Nat /\ Skew \in Nat
  BY ClockType, Constants DEF Issue, IssueInv
<1> QED
  BY <1>1 DEF Remaining, Monus

(* The state a response is sealed with.                                    *)
LEMMA IssueTimeKept ==
  ASSUME now \in Nat, NEW r \in Replicas, NEW st \in Issue \cup {NoState},
         st # NoState => IssueInv(st)
  PROVE  IssueTime(r, st) \in Issue /\ IssueInv(IssueTime(r, st))
<1>1. CASE st = NoState
  <2>1. Clock(r) \in Nat /\ now <= Clock(r) /\ Clock(r) <= now + Skew
    BY ClockType
  <2>2. IssueTime(r, st) = [iat |-> Clock(r), born |-> now]
    BY <1>1 DEF IssueTime
  <2> QED
    BY <2>1, <2>2 DEF Issue, IssueInv
<1>2. CASE st # NoState
  BY <1>2 DEF IssueTime
<1> QED
  BY <1>1, <1>2

----------------------------------------------------------------------------
(* Clocks and lifetimes, whatever the plan                                 *)

LEMMA RequestKeeps ==
  ASSUME AgeInv, NEW t \in Tabs, NEW r \in Replicas, Request(t, r)
  PROVE  AgeInv'
<1> DEFINE st == IF (jar # NoCookie /\ now < jar.deadline) /\ Opens(r, jar.cookie)
                 THEN jar.cookie.issue ELSE NoState
           h == [at |-> r, since |-> now, state |-> st]
<1>1. tab' = [tab EXCEPT ![t] = h] /\ UNCHANGED <<now, stage, switched, jar>>
  BY DEF Request
<1>2. /\ st \in Issue \cup {NoState}
      /\ st # NoState => jar # NoCookie /\ Opens(r, jar.cookie) /\ st = jar.cookie.issue
  BY DEF AgeInv, TypeOK, Held, Cookie
<1>3. h \in Handling /\ h \notin Response
  BY <1>2, Disjoint DEF AgeInv, TypeOK, Handling
<1>4. TypeOK'
  BY <1>1, <1>3 DEF AgeInv, TypeOK
<1>5. st # NoState => IssueInv(st) /\ now - st.born < TTL + Skew
  <2> SUFFICES ASSUME st # NoState
               PROVE  IssueInv(st) /\ now - st.born < TTL + Skew
    OBVIOUS
  <2>1. IssueInv(st) /\ st \in Issue /\ now \in Nat
    BY <1>2, NullAssumption DEF AgeInv, JarInv, CookieInv, TypeOK
  <2>2. Fresh(r, st.iat)
    BY <1>2 DEF Opens
  <2> QED
    BY <2>1, <2>2, FreshIsYoung
<1>6. tab'[t] = h /\ \A u \in Tabs \ {t} : tab'[u] = tab[u]
  BY <1>1 DEF AgeInv, TypeOK
<1>7. TabInv(t)'
  <2>1. h.state = st /\ h.since = now /\ now <= now
    BY DEF AgeInv, TypeOK
  <2> QED
    BY <1>1, <1>3, <1>5, <1>6, <2>1 DEF TabInv, IssueInv
<1>8. \A u \in Tabs \ {t} : TabInv(u)'
  BY <1>1, <1>6 DEF AgeInv, TabInv, CookieInv, IssueInv
<1>9. JarInv'
  BY <1>1 DEF AgeInv, JarInv, CookieInv, IssueInv
<1> QED
  BY <1>4, <1>7, <1>8, <1>9 DEF AgeInv

LEMMA SealKeeps ==
  ASSUME AgeInv, NEW t \in Tabs, NEW size \in Sizes, Seal(t, size)
  PROVE  AgeInv'
<1> DEFINE r == tab[t].at
           issue == IssueTime(r, tab[t].state)
           c == [key |-> Plan[stage[r]].primary, issue |-> issue, json |-> size.json]
           m == [cookie |-> c, maxAge |-> Remaining(r, issue.iat)]
<1>1. /\ tab[t] \in Handling /\ Fits(size)
      /\ tab' = [tab EXCEPT ![t] = m] /\ UNCHANGED <<now, stage, switched, jar>>
  BY DEF Seal
<1>2. /\ r \in Replicas /\ tab[t].state \in Issue \cup {NoState} /\ now \in Nat
      /\ tab[t].state # NoState => IssueInv(tab[t].state)
      /\ stage[r] \in Stages
  BY <1>1 DEF Handling, AgeInv, TypeOK, TabInv
<1>3. issue \in Issue /\ IssueInv(issue)
  BY <1>2, IssueTimeKept
<1>4. size.json \in Nat /\ size.json <= InflateCap
  BY <1>1, SizeAssumption DEF Fits, Inflates
<1>5. c \in Cookie
  BY <1>2, <1>3, <1>4, Constants DEF Cookie
<1>6. /\ Remaining(r, issue.iat) \in Nat
      /\ issue.born + TTL - Skew <= now + Remaining(r, issue.iat)
  BY <1>2, <1>3, DeadlineLasts
<1>7. m \in Response /\ m \notin Handling
  BY <1>5, <1>6, Disjoint DEF Response
<1>8. TypeOK'
  BY <1>1, <1>7 DEF AgeInv, TypeOK
<1>9. tab'[t] = m /\ \A u \in Tabs \ {t} : tab'[u] = tab[u]
  BY <1>1 DEF AgeInv, TypeOK
<1>10. CookieInv(c, now + m.maxAge)
  BY <1>3, <1>4, <1>6 DEF CookieInv
<1>11. TabInv(t)'
  <2>1. CookieInv(m.cookie, now + m.maxAge)
    BY <1>10
  <2> HIDE DEF m
  <2> QED
    BY <1>1, <1>7, <1>9, <2>1 DEF TabInv, CookieInv, IssueInv
<1>12. \A u \in Tabs \ {t} : TabInv(u)'
  BY <1>1, <1>9 DEF AgeInv, TabInv, CookieInv, IssueInv
<1>13. JarInv'
  BY <1>1 DEF AgeInv, JarInv, CookieInv, IssueInv
<1> QED
  BY <1>8, <1>11, <1>12, <1>13 DEF AgeInv

LEMMA ClearKeeps ==
  ASSUME AgeInv, NEW t \in Tabs, Clear(t)
  PROVE  AgeInv'
<1> DEFINE m == [cookie |-> NoCookie, maxAge |-> 0]
<1>1. tab' = [tab EXCEPT ![t] = m] /\ UNCHANGED <<now, stage, switched, jar>>
  BY DEF Clear
<1>2. m \in Response /\ m \notin Handling /\ m.cookie = NoCookie
  BY Disjoint DEF Response
<1>3. TypeOK'
  BY <1>1, <1>2 DEF AgeInv, TypeOK
<1>4. tab'[t] = m /\ \A u \in Tabs \ {t} : tab'[u] = tab[u]
  BY <1>1 DEF AgeInv, TypeOK
<1>5. \A u \in Tabs : TabInv(u)'
  BY <1>1, <1>2, <1>4 DEF AgeInv, TabInv, CookieInv, IssueInv
<1>6. JarInv'
  BY <1>1 DEF AgeInv, JarInv, CookieInv, IssueInv
<1> QED
  BY <1>3, <1>5, <1>6 DEF AgeInv

LEMMA DeliverKeeps ==
  ASSUME AgeInv, NEW t \in Tabs, Deliver(t) \/ Lose(t)
  PROVE  AgeInv'
<1>1. /\ tab[t] \in Response /\ tab' = [tab EXCEPT ![t] = Idle]
      /\ UNCHANGED <<now, stage, switched>>
      /\ \/ jar' = jar
         \/ jar' = NoCookie
         \/ /\ tab[t].cookie # NoCookie
            /\ jar' = [cookie |-> tab[t].cookie, deadline |-> now + tab[t].maxAge]
  BY DEF Deliver, Lose
<1>2. /\ tab[t].maxAge \in Nat /\ tab[t].cookie \in Cookie \cup {NoCookie} /\ now \in Nat
      /\ tab[t].cookie # NoCookie => CookieInv(tab[t].cookie, now + tab[t].maxAge)
  BY <1>1 DEF Response, AgeInv, TypeOK, TabInv
<1>3. jar' \in Held \cup {NoCookie} /\ TypeOK'
  BY <1>1, <1>2 DEF AgeInv, TypeOK, Held
<1>4. JarInv'
  BY <1>1, <1>2 DEF AgeInv, JarInv, CookieInv, IssueInv
<1>5. tab'[t] = Idle /\ \A u \in Tabs \ {t} : tab'[u] = tab[u]
  BY <1>1 DEF AgeInv, TypeOK
<1>6. \A u \in Tabs : TabInv(u)'
  BY <1>1, <1>5, NullAssumption DEF AgeInv, TabInv, CookieInv, IssueInv
<1> QED
  BY <1>3, <1>4, <1>6 DEF AgeInv

(* Time only makes flows older and leaves deadlines where they are.        *)
LEMMA TickKeeps ==
  ASSUME AgeInv, Tick
  PROVE  AgeInv'
<1>1. now \in Nat /\ now' = now + 1 /\ UNCHANGED <<stage, switched, jar, tab>>
  BY DEF Tick, AgeInv, TypeOK
<1>2. TypeOK'
  BY <1>1 DEF AgeInv, TypeOK
<1>3. ASSUME NEW i \in Issue, IssueInv(i) PROVE IssueInv(i)'
  BY <1>1, <1>3 DEF IssueInv, Issue
<1>4. ASSUME NEW c \in Cookie, NEW d \in Nat, NEW e \in Nat, d <= e, CookieInv(c, d)
      PROVE  /\ IssueInv(c.issue)' /\ c.json <= InflateCap
             /\ c.issue.born + TTL - Skew <= e
  <2>1. c.issue \in Issue /\ c.issue.born \in Nat
    BY DEF Cookie, Issue
  <2>2. IssueInv(c.issue)'
    BY <1>3, <1>4, <2>1 DEF CookieInv
  <2>3. c.issue.born + TTL - Skew <= e
    BY <1>4, <2>1, Constants DEF CookieInv
  <2> QED
    BY <1>4, <2>2, <2>3 DEF CookieInv
<1>5. JarInv'
  <2> SUFFICES ASSUME jar # NoCookie PROVE CookieInv(jar.cookie, jar.deadline)'
    BY <1>1 DEF JarInv
  <2>1. jar.cookie \in Cookie /\ jar.deadline \in Nat /\ jar.deadline <= jar.deadline
    BY DEF AgeInv, TypeOK, Held
  <2> QED
    BY <1>1, <1>4, <2>1 DEF AgeInv, JarInv, CookieInv
<1>6. ASSUME NEW t \in Tabs PROVE TabInv(t)'
  <2>1. ASSUME tab[t] \in Handling, tab[t].state # NoState
        PROVE  IssueInv(tab[t].state)' /\ tab[t].since <= now'
    <3>1. tab[t].state \in Issue /\ tab[t].since \in Nat
      BY <2>1 DEF Handling
    <3>2. IssueInv(tab[t].state) /\ tab[t].since <= now
      BY <2>1 DEF AgeInv, TabInv
    <3> QED
      BY <1>1, <1>3, <3>1, <3>2
  <2>2. ASSUME tab[t] \in Response, tab[t].cookie # NoCookie
        PROVE  CookieInv(tab[t].cookie, now + tab[t].maxAge)'
    <3>1. /\ tab[t].cookie \in Cookie /\ now + tab[t].maxAge \in Nat
          /\ now' + tab[t].maxAge \in Nat
          /\ now + tab[t].maxAge <= now' + tab[t].maxAge
      BY <1>1, <2>2 DEF Response
    <3>2. CookieInv(tab[t].cookie, now + tab[t].maxAge)
      BY <2>2 DEF AgeInv, TabInv
    <3> QED
      BY <1>1, <1>4, <3>1, <3>2 DEF CookieInv
  <2> QED
    BY <1>1, <2>1, <2>2 DEF AgeInv, TabInv
<1> QED
  BY <1>2, <1>5, <1>6 DEF AgeInv

(* A restart leaves every cookie as it is.                                 *)
LEMMA DeployKeeps ==
  ASSUME AgeInv, NEW r \in Replicas, Deploy(r)
  PROVE  AgeInv'
<1>1. /\ stage[r] < Len(Plan) /\ stage' = [stage EXCEPT ![r] = stage[r] + 1]
      /\ switched' \in {now, switched} /\ UNCHANGED <<now, jar>>
      /\ \A t \in Tabs : tab'[t] = Idle \/ tab'[t] = tab[t]
  BY DEF Deploy
<1>2. stage[r] + 1 \in Stages
  BY <1>1, Constants DEF AgeInv, TypeOK, Stages
<1>3. TypeOK'
  <2>1. tab' \in [Tabs -> Handling \cup Response \cup {Idle}]
    BY DEF Deploy, AgeInv, TypeOK
  <2> QED
    BY <1>1, <1>2, <2>1 DEF AgeInv, TypeOK
<1>4. JarInv'
  BY <1>1 DEF AgeInv, JarInv, CookieInv, IssueInv
<1>5. ASSUME NEW t \in Tabs PROVE TabInv(t)'
  <2>1. CASE tab'[t] = Idle
    BY <2>1, NullAssumption DEF TabInv
  <2>2. CASE tab'[t] = tab[t]
    BY <1>1, <2>2 DEF AgeInv, TabInv, CookieInv, IssueInv
  <2> QED
    BY <1>1, <2>1, <2>2
<1> QED
  BY <1>3, <1>4, <1>5 DEF AgeInv

LEMMA InitAge == Init => AgeInv
<1> SUFFICES ASSUME Init PROVE AgeInv
  OBVIOUS
<1>1. TypeOK
  BY Constants DEF Init, TypeOK
<1>2. JarInv /\ \A t \in Tabs : TabInv(t)
  BY NullAssumption DEF Init, JarInv, TabInv
<1> QED
  BY <1>1, <1>2 DEF AgeInv

LEMMA NextAge ==
  ASSUME AgeInv, [Next]_vars
  PROVE  AgeInv'
<1>1. CASE UNCHANGED vars
  BY <1>1 DEF vars, AgeInv, TypeOK, JarInv, TabInv, CookieInv, IssueInv
<1> QED
  BY <1>1, RequestKeeps, SealKeeps, ClearKeeps, DeliverKeeps, DeployKeeps, TickKeeps DEF Next

(* However the keys are rotated: what is known of cookies and clocks.      *)
THEOREM AgeInvariance == Spec => []AgeInv
<1>1. AgeInv /\ [Next]_vars => AgeInv'
  BY NextAge
<1> QED
  BY InitAge, <1>1, PTL DEF Spec

(* No replica recovers a state TTL, and the skew, after its first seal,    *)
(* however often it is resealed and however the keys are rotated.          *)
THEOREM Lifetime == Spec => []AbsoluteLifetime
<1>1. AgeInv => AbsoluteLifetime
  BY DEF AgeInv, TabInv, AbsoluteLifetime
<1> QED
  BY <1>1, AgeInvariance, PTL

LEMMA YoungOpens ==
  ASSUME AgeInv, jar # NoCookie, now - jar.cookie.issue.born < TTL - Skew
  PROVE  /\ now < jar.deadline
         /\ \A r \in Replicas : Opens(r, jar.cookie) <=> jar.cookie.key \in Ring(stage[r])
<1>1. /\ jar.cookie.issue \in Issue /\ jar.cookie.issue.born \in Nat
      /\ jar.deadline \in Nat /\ now \in Nat /\ CookieInv(jar.cookie, jar.deadline)
  BY DEF AgeInv, TypeOK, Held, Cookie, Issue, JarInv
<1>2. now < jar.deadline
  BY <1>1, Constants DEF CookieInv
<1>3. \A r \in Replicas : Fresh(r, jar.cookie.issue.iat)
  BY <1>1, YoungIsFresh DEF CookieInv
<1> QED
  BY <1>1, <1>2, <1>3 DEF Opens, Inflates, CookieInv

(* Neither clocks, reseals nor sizes cost a young flow its state: where it *)
(* is not recovered, the replica's ring lacks the secret.                  *)
THEOREM LostWithKeysOnly == Spec => []OnlyKeysMatter
<1>1. AgeInv => OnlyKeysMatter
  BY YoungOpens DEF OnlyKeysMatter
<1> QED
  BY <1>1, AgeInvariance, PTL

----------------------------------------------------------------------------
(* Keys, for a staged rotation                                             *)

(* Replicas a deployment apart know what each other seals with.            *)
LEMMA PrimaryKnown ==
  ASSUME TypeOK, StageInv, Staged, NEW q \in Replicas, NEW r \in Replicas
  PROVE  Plan[stage[r]].primary \in Ring(stage[q])
<1>1. stage[q] \in Stages /\ stage[r] \in Stages /\ stage[q] \in Nat /\ stage[r] \in Nat
  BY Constants DEF TypeOK
<1>2. stage[q] <= stage[r] + 1 /\ stage[r] <= stage[q] + 1
  BY DEF StageInv
<1>3. CASE stage[q] = stage[r]
  BY <1>1, <1>3, Constants
<1>4. CASE stage[q] = stage[r] + 1
  BY <1>1, <1>4 DEF Staged
<1>5. CASE stage[r] = stage[q] + 1
  BY <1>1, <1>5 DEF Staged
<1> QED
  BY <1>1, <1>2, <1>3, <1>4, <1>5

(* The cookies that exist, and the cookie a response brings.               *)
LEMMA CookiesFact ==
  /\ jar # NoCookie => jar.cookie \in Cookies
  /\ \A t \in Tabs : tab[t] \in Response /\ tab[t].cookie # NoCookie => tab[t].cookie \in Cookies
  /\ \A c \in Cookies : \/ jar # NoCookie /\ c = jar.cookie
                       \/ \E t \in Tabs : /\ tab[t] \in Response /\ tab[t].cookie # NoCookie
                                          /\ c = tab[t].cookie
BY DEF Cookies, Answering

LEMMA CookieKnown ==
  ASSUME AgeInv, NEW c \in Cookies
  PROVE  c \in Cookie /\ c.issue.born \in Nat /\ c.issue.born <= now
<1>1. c \in Cookie /\ IssueInv(c.issue)
  BY CookiesFact DEF AgeInv, TypeOK, JarInv, TabInv, CookieInv, Held, Response
<1> QED
  BY <1>1 DEF Cookie, Issue, IssueInv

(* A step other than a seal brings no new cookie into existence.           *)
LEMMA CookiesKept ==
  ASSUME jar' = jar \/ jar' = NoCookie
           \/ \E t \in Tabs : /\ tab[t] \in Response /\ tab[t].cookie # NoCookie
                             /\ jar' = [cookie |-> tab[t].cookie, deadline |-> now + tab[t].maxAge],
         \A t \in Tabs : tab'[t] = tab[t] \/ tab'[t] \notin Response \/ tab'[t].cookie = NoCookie
  PROVE  Cookies' \subseteq Cookies
<1>1. jar' # NoCookie => jar'.cookie \in Cookies
  BY CookiesFact
<1>2. Answering' \subseteq Answering /\ \A t \in Answering' : tab'[t] = tab[t]
  BY DEF Answering
<1> QED
  BY <1>1, <1>2 DEF Cookies, Answering

LEMMA SealKeys ==
  ASSUME IInv, Staged, NEW t \in Tabs, NEW size \in Sizes, Seal(t, size)
  PROVE  StageInv' /\ \A c \in Cookies' : KeyInv(c)'
<1> DEFINE r == tab[t].at
           c == [key |-> Plan[stage[r]].primary, issue |-> IssueTime(r, tab[t].state),
                 json |-> size.json]
           m == [cookie |-> c, maxAge |-> Remaining(r, IssueTime(r, tab[t].state).iat)]
<1>1. tab[t] \in Handling /\ tab' = [tab EXCEPT ![t] = m] /\ UNCHANGED <<now, stage, switched, jar>>
  BY DEF Seal
<1>2. r \in Replicas
  BY <1>1 DEF Handling
<1>3. KeyInv(c)
  <2>1. \A q \in Replicas : c.key \in Ring(stage[q])
    BY <1>2, PrimaryKnown DEF IInv, AgeInv
  <2> QED
    BY <1>2, <2>1 DEF KeyInv
<1>4. tab'[t] = m /\ m.cookie = c /\ \A u \in Tabs \ {t} : tab'[u] = tab[u]
  BY <1>1 DEF IInv, AgeInv, TypeOK
<1> HIDE DEF m, c
<1>5. Cookies' \subseteq Cookies \cup {c}
  BY <1>1, <1>4 DEF Cookies, Answering
<1>6. \A d \in Cookies \cup {c} : KeyInv(d)'
  BY <1>1, <1>3 DEF IInv, KeyInv
<1> QED
  BY <1>1, <1>5, <1>6 DEF IInv, StageInv

(* The steps of browser and handlers that seal nothing.                    *)
LEMMA QuietKeys ==
  ASSUME IInv, UNCHANGED <<now, stage, switched>>, Cookies' \subseteq Cookies
  PROVE  StageInv' /\ \A c \in Cookies' : KeyInv(c)'
BY DEF IInv, StageInv, KeyInv

LEMMA RequestKeys ==
  ASSUME IInv, NEW t \in Tabs, (\E r \in Replicas : Request(t, r)) \/ Clear(t)
  PROVE  StageInv' /\ \A c \in Cookies' : KeyInv(c)'
<1>1. tab \in [Tabs -> Handling \cup Response \cup {Idle}]
  BY DEF IInv, AgeInv, TypeOK
<1>2. UNCHANGED <<now, stage, switched, jar>>
  BY DEF Request, Clear
<1>3. \A u \in Tabs \ {t} : tab'[u] = tab[u]
  BY <1>1 DEF Request, Clear
<1>4. tab'[t] \notin Response \/ tab'[t].cookie = NoCookie
  <2>1. CASE Clear(t)
    BY <1>1, <2>1 DEF Clear
  <2>2. ASSUME NEW r \in Replicas, Request(t, r)
        PROVE  tab'[t] \notin Response
    <3>1. DOMAIN tab'[t] = {"at", "since", "state"}
      BY <1>1, <2>2 DEF Request
    <3>2. \A m \in Response : DOMAIN m = {"cookie", "maxAge"}
      BY DEF Response
    <3>3. "at" \notin {"cookie", "maxAge"}
      OBVIOUS
    <3> QED
      BY <3>1, <3>2, <3>3
  <2> QED
    BY <2>1, <2>2
<1>5. Cookies' \subseteq Cookies
  BY <1>2, <1>3, <1>4, CookiesKept
<1> QED
  BY <1>2, <1>5, QuietKeys

LEMMA DeliverKeys ==
  ASSUME IInv, NEW t \in Tabs, Deliver(t) \/ Lose(t)
  PROVE  StageInv' /\ \A c \in Cookies' : KeyInv(c)'
<1>1. tab \in [Tabs -> Handling \cup Response \cup {Idle}]
  BY DEF IInv, AgeInv, TypeOK
<1>2. /\ UNCHANGED <<now, stage, switched>> /\ tab[t] \in Response
      /\ \/ jar' = jar
         \/ jar' = NoCookie
         \/ /\ tab[t].cookie # NoCookie
            /\ jar' = [cookie |-> tab[t].cookie, deadline |-> now + tab[t].maxAge]
  BY DEF Deliver, Lose
<1>3. tab'[t] = Idle /\ \A u \in Tabs \ {t} : tab'[u] = tab[u]
  BY <1>1 DEF Deliver, Lose
<1>4. Cookies' \subseteq Cookies
  BY <1>2, <1>3, CookiesKept, NullAssumption
<1> QED
  BY <1>2, <1>4, QuietKeys

LEMMA TickKeys ==
  ASSUME IInv, Tick
  PROVE  StageInv' /\ \A c \in Cookies' : KeyInv(c)'
<1>1. now \in Nat /\ switched \in Nat /\ now' = now + 1 /\ UNCHANGED <<stage, switched, jar, tab>>
  BY DEF Tick, IInv, AgeInv, TypeOK
<1>2. Cookies' = Cookies
  BY <1>1 DEF Cookies, Answering
<1>3. ASSUME NEW c \in Cookies PROVE KeyInv(c)'
  <2>1. c.issue.born \in Nat
    BY CookieKnown DEF IInv
  <2>2. now - c.issue.born >= TTL => now' - c.issue.born >= TTL
    BY <1>1, <2>1, Constants
  <2> QED
    BY <1>1, <2>2 DEF IInv, KeyInv
<1> QED
  BY <1>1, <1>2, <1>3 DEF IInv, StageInv

(* A restart takes a secret from no replica that a living cookie needs.    *)
LEMMA DeployKeys ==
  ASSUME IInv, Staged, NEW r \in Replicas, Deploy(r)
  PROVE  StageInv' /\ \A c \in Cookies' : KeyInv(c)'
<1> DEFINE s == stage[r]
<1>1. /\ s < Len(Plan) /\ \A q \in Replicas : stage[q] >= s
      /\ ~(Ring(s) \subseteq Ring(s + 1)) => now - switched >= Wait
      /\ stage' = [stage EXCEPT ![r] = s + 1]
      /\ switched' = IF \A q \in Replicas \ {r} : stage[q] > s THEN now ELSE switched
      /\ UNCHANGED <<now, jar>>
  BY DEF Deploy
<1>2. /\ now \in Nat /\ switched \in Nat /\ switched <= now /\ s \in Stages /\ s \in Nat
      /\ \A q \in Replicas : stage[q] \in Stages /\ stage[q] \in Nat /\ stage[q] <= s + 1
  BY Constants DEF IInv, AgeInv, TypeOK, StageInv
<1>3. s + 1 \in Stages
  BY <1>1, <1>2, Constants DEF Stages
<1>4. /\ stage'[r] = s + 1 /\ \A q \in Replicas \ {r} : stage'[q] = stage[q]
      /\ stage' \in [Replicas -> Stages]
  BY <1>1, <1>3 DEF IInv, AgeInv, TypeOK
<1>5. \A t \in Tabs : tab'[t] = Idle \/ tab'[t] = tab[t]
  BY DEF Deploy
<1>6. Cookies' \subseteq Cookies
  BY <1>1, <1>5, CookiesKept, NullAssumption
<1>7. StageInv'
  <2>1. \A q \in Replicas : stage'[q] \in Nat /\ s <= stage'[q] /\ stage'[q] <= s + 1
    BY <1>1, <1>2, <1>4
  <2>2. switched' <= now'
    BY <1>1, <1>2
  <2> QED
    BY <1>2, <2>1, <2>2 DEF StageInv
<1>8. ASSUME NEW c \in Cookies PROVE KeyInv(c)'
  <2>1. c.issue.born \in Nat /\ c.issue.born <= now
    BY CookieKnown DEF IInv
  <2>2. ASSUME \A q \in Replicas : c.key \in Ring(stage[q]), ~(now - c.issue.born >= TTL)
        PROVE  c.key \in Ring(s + 1)
    <3>1. CASE Ring(s) \subseteq Ring(s + 1)
      BY <2>2, <3>1
    <3>2. CASE ~(Ring(s) \subseteq Ring(s + 1))
      <4>1. ~(c.issue.born <= switched)
        BY <1>1, <1>2, <2>1, <2>2, <3>2, Constants, PlanAssumption DEF Staged
      <4>2. PICK q \in Replicas : c.key = Plan[stage[q]].primary
        BY <4>1 DEF IInv, KeyInv
      <4>3. stage[q] = s \/ stage[q] = s + 1
        BY <1>1, <1>2
      <4>4. Plan[s].primary \in Ring(s + 1) /\ Plan[s + 1].primary \in Ring(s + 1)
        BY <1>2, <1>3, Constants DEF Staged
      <4> QED
        BY <4>2, <4>3, <4>4
    <3> QED
      BY <3>1, <3>2
  <2>3. \/ now - c.issue.born >= TTL
        \/ \A q \in Replicas : c.key \in Ring(stage'[q])
    BY <1>4, <1>8, <2>2 DEF IInv, KeyInv
  <2>4. \/ \E q \in Replicas : c.key = Plan[stage'[q]].primary
        \/ c.issue.born <= switched'
    <3>1. CASE c.issue.born <= switched
      BY <1>1, <1>2, <2>1, <3>1
    <3>2. CASE \E q \in Replicas : c.key = Plan[stage[q]].primary
      <4>1. PICK q \in Replicas : c.key = Plan[stage[q]].primary
        BY <3>2
      <4>2. CASE q # r
        BY <1>4, <4>1, <4>2
      <4>3. CASE q = r /\ \E p \in Replicas \ {r} : stage[p] = s
        BY <1>4, <4>1, <4>3
      <4>4. CASE q = r /\ ~\E p \in Replicas \ {r} : stage[p] = s
        <5>1. \A p \in Replicas \ {r} : stage[p] > s
          BY <1>1, <1>2, <4>4
        <5> QED
          BY <1>1, <2>1, <5>1
      <4> QED
        BY <4>2, <4>3, <4>4
    <3> QED
      BY <3>1, <3>2 DEF IInv, KeyInv
  <2> QED
    BY <1>1, <2>3, <2>4 DEF KeyInv
<1> QED
  BY <1>6, <1>7, <1>8

----------------------------------------------------------------------------
(* The invariant and its consequence                                       *)

LEMMA InitIInv == Init => IInv
<1> SUFFICES ASSUME Init PROVE IInv
  OBVIOUS
<1>1. StageInv /\ Cookies = {}
  BY NullAssumption DEF Init, StageInv, Cookies, Answering
<1> QED
  BY <1>1, InitAge DEF IInv

LEMMA NextIInv ==
  ASSUME Staged, IInv, [Next]_vars
  PROVE  IInv'
<1>1. AgeInv'
  BY NextAge DEF IInv
<1>2. StageInv' /\ \A c \in Cookies' : KeyInv(c)'
  <2>1. CASE UNCHANGED vars
    <3>1. UNCHANGED <<now, stage, switched>> /\ Cookies' = Cookies
      BY <2>1 DEF vars, Cookies, Answering
    <3> QED
      BY <3>1, QuietKeys
  <2> QED
    BY <2>1, SealKeys, RequestKeys, DeliverKeys, TickKeys, DeployKeys DEF Next
<1> QED
  BY <1>1, <1>2 DEF IInv

(* In a deployment with a staged rotation plan every state satisfies the   *)
(* inductive invariant: what is known of cookies, rings and clocks.        *)
THEOREM Invariance == Staged /\ Spec => []IInv
<1>1. Staged /\ IInv /\ [Next]_vars => IInv'
  BY NextIInv
<1>2. Staged => []Staged
  <2>1. Staged => Staged'
    BY DEF Staged
  <2> QED
    BY <2>1, PTL
<1> QED
  BY InitIInv, <1>1, <1>2, PTL DEF Spec

(* A flow younger than TTL, less the skew, is recovered by every replica   *)
(* from the cookie the browser holds, through a staged rotation too.       *)
THEOREM Continuity == Staged /\ Spec => []FlowContinues
<1>1. IInv => FlowContinues
  <2> SUFFICES ASSUME IInv, jar # NoCookie, now - jar.cookie.issue.born < TTL - Skew
               PROVE  now < jar.deadline /\ \A r \in Replicas : Opens(r, jar.cookie)
    BY DEF FlowContinues
  <2>1. jar.cookie \in Cookies
    BY CookiesFact
  <2>2. jar.cookie.issue.born \in Nat /\ now \in Nat /\ KeyInv(jar.cookie)
    BY <2>1, CookieKnown DEF IInv, AgeInv, TypeOK
  <2>3. ~(now - jar.cookie.issue.born >= TTL)
    BY <2>2, Constants
  <2> QED
    BY <2>2, <2>3, YoungOpens DEF IInv, KeyInv
<1> QED
  BY <1>1, Invariance, PTL
=============================================================================

---------------------------- MODULE SealedState ----------------------------
(***************************************************************************)
(* The sealed state cookie between one browser and the replicas of a       *)
(* deployment: StateSealer's seal and unseal, with the clocks, key rings   *)
(* and restarts they depend on.                                            *)
(*                                                                         *)
(* A request is two steps, because unseal and seal read the clock apart    *)
(* and other tabs' requests, at other replicas, come between them.  What   *)
(* a flow is in the cookie is left out; each flow is told by the time its  *)
(* state was first sealed.  Cookies are opaque: one is read by the key it  *)
(* is sealed with, or not at all.                                          *)
(*                                                                         *)
(* Operators rotate the keys by deploying the key rings of Plan, one       *)
(* replica at a time.                                                      *)
(***************************************************************************)
EXTENDS Integers, Sequences

CONSTANTS
  Replicas, Tabs,
  Offset,       \* per replica: how far its clock is ahead of the slowest
  Skew,         \* MAX_IAT_SKEW_SECONDS
  TTL,          \* state_cookie_max_age
  Sizes,        \* states a handler may leave: length of the JSON, of the cookie
  InflateCap,   \* MAX_INFLATED_BYTES
  CookieCap,    \* MAX_COOKIE_BYTES
  SecretKeys,
  Plan,         \* the key rings deployed in turn: primary and previous secrets
  Wait,         \* how long operators wait before they remove a secret
  MaxNow,       \* bound: the clock
  NoCookie, NoState, Idle

Ring(s) == {Plan[s].primary} \cup Plan[s].previous
Stages == 1 .. Len(Plan)

ASSUME PlanAssumption ==
  /\ Plan \in Seq([primary: SecretKeys, previous: SUBSET SecretKeys])
  /\ Plan # <<>> /\ Wait \in Nat
ASSUME ClockAssumption ==
  /\ TTL \in Nat \ {0} /\ Skew \in Nat /\ MaxNow \in Nat
  /\ Offset \in [Replicas -> 0 .. Skew]
ASSUME SizeAssumption ==
  Sizes \subseteq [json: Nat, token: Nat] /\ InflateCap \in Nat /\ CookieCap \in Nat

VARIABLES
  now,       \* the slowest replica's clock
  stage,     \* per replica: the position in Plan it was deployed with
  switched,  \* when the last replica reached the stage all have reached
  jar,       \* the browser's cookie, with the time it drops it
  tab        \* per tab: idle, a request being handled, or its response

vars == <<now, stage, switched, jar, tab>>

(* An unsealed state: its issue time, and when it was in fact first sealed.*)
Issue == [iat: Nat, born: Nat]
Cookie == [key: SecretKeys, issue: Issue, json: Nat]
Handling == [at: Replicas, since: Nat, state: Issue \cup {NoState}]
Response == [cookie: Cookie \cup {NoCookie}, maxAge: Nat]
Held == [cookie: Cookie, deadline: Nat]

ASSUME NullAssumption ==
  /\ NoState \notin Issue /\ NoCookie \notin Cookie \cup Held
  /\ Idle \notin Handling \cup Response

TypeOK ==
  /\ now \in Nat
  /\ stage \in [Replicas -> Stages]
  /\ switched \in Nat
  /\ jar \in Held \cup {NoCookie}
  /\ tab \in [Tabs -> Handling \cup Response \cup {Idle}]

Init ==
  /\ now = 0 /\ switched = 0 /\ jar = NoCookie
  /\ stage = [r \in Replicas |-> 1]
  /\ tab = [t \in Tabs |-> Idle]

(* saturating_sub                                                          *)
Monus(a, b) == IF a > b THEN a - b ELSE 0

Clock(r) == now + Offset[r]

----------------------------------------------------------------------------
(* unseal                                                                  *)

(* Neither expired nor issued in the future, beyond skew, for replica r.   *)
Fresh(r, iat) == iat <= Clock(r) + Skew /\ Monus(Clock(r), iat) < TTL

(* A longer JSON text is refused, never truncated.                         *)
Inflates(json) == json <= InflateCap

(* Mutant: the previous secrets are not tried.                             *)
OpensWithPrimary(r, c) ==
  /\ c.key = Plan[stage[r]].primary /\ Inflates(c.json) /\ Fresh(r, c.issue.iat)
Opens(r, c) ==
  /\ c.key \in Ring(stage[r]) /\ Inflates(c.json) /\ Fresh(r, c.issue.iat)

(* A tab sends a request to some replica, with the cookie the browser has. *)
Request(t, r) ==
  LET sent == jar # NoCookie /\ now < jar.deadline
  IN /\ tab[t] = Idle
     /\ tab' = [tab EXCEPT ![t] =
                  [at |-> r, since |-> now,
                   state |-> IF sent /\ Opens(r, jar.cookie)
                             THEN jar.cookie.issue ELSE NoState]]
     /\ UNCHANGED <<now, stage, switched, jar>>

----------------------------------------------------------------------------
(* seal                                                                    *)

(* Mutant: every response starts the lifetime again.                       *)
IssueTimeSliding(r, state) ==
  [iat |-> Clock(r), born |-> IF state = NoState THEN now ELSE state.born]
IssueTime(r, state) == IF state = NoState THEN [iat |-> Clock(r), born |-> now] ELSE state

Fits(size) == Inflates(size.json) /\ size.token <= CookieCap

Remaining(r, iat) == Monus(TTL, Monus(Clock(r), iat))

Seal(t, size) ==
  LET r == tab[t].at
      issue == IssueTime(r, tab[t].state)
      cookie == [key |-> Plan[stage[r]].primary, issue |-> issue, json |-> size.json]
  IN /\ tab[t] \in Handling
     /\ Fits(size)
     /\ tab' = [tab EXCEPT ![t] = [cookie |-> cookie, maxAge |-> Remaining(r, issue.iat)]]
     /\ UNCHANGED <<now, stage, switched, jar>>

(* The handler deleted the state, or left one that cannot be sealed: the   *)
(* response clears the cookie.                                             *)
Clear(t) ==
  /\ tab[t] \in Handling
  /\ tab' = [tab EXCEPT ![t] = [cookie |-> NoCookie, maxAge |-> 0]]
  /\ UNCHANGED <<now, stage, switched, jar>>

----------------------------------------------------------------------------
(* Browser, clock and operator                                             *)

(* Max-Age counts from the receipt of the response.                        *)
Deliver(t) ==
  /\ tab[t] \in Response
  /\ jar' = IF tab[t].cookie = NoCookie THEN NoCookie
            ELSE [cookie |-> tab[t].cookie, deadline |-> now + tab[t].maxAge]
  /\ tab' = [tab EXCEPT ![t] = Idle]
  /\ UNCHANGED <<now, stage, switched>>

Lose(t) ==
  /\ tab[t] \in Response
  /\ tab' = [tab EXCEPT ![t] = Idle]
  /\ UNCHANGED <<now, stage, switched, jar>>

Tick ==
  /\ now < MaxNow
  /\ now' = now + 1
  /\ UNCHANGED <<stage, switched, jar, tab>>

(* A replica restarts with the next ring, once all others have the ring it *)
(* leaves; a secret is removed Wait after the last replica's switch.  What *)
(* it was handling gets no response.                                       *)
Deploy(r) ==
  LET s == stage[r]
  IN /\ s < Len(Plan)
     /\ \A q \in Replicas : stage[q] >= s
     /\ ~(Ring(s) \subseteq Ring(s + 1)) => now - switched >= Wait
     /\ stage' = [stage EXCEPT ![r] = s + 1]
     /\ switched' = IF \A q \in Replicas \ {r} : stage[q] > s THEN now ELSE switched
     /\ tab' = [t \in Tabs |-> IF tab[t] \in Handling /\ tab[t].at = r THEN Idle ELSE tab[t]]
     /\ UNCHANGED <<now, jar>>

Next ==
  \/ \E t \in Tabs : \E r \in Replicas : Request(t, r)
  \/ \E t \in Tabs : \E size \in Sizes : Seal(t, size)
  \/ \E t \in Tabs : Clear(t) \/ Deliver(t) \/ Lose(t)
  \/ \E r \in Replicas : Deploy(r)
  \/ Tick

Spec == Init /\ [][Next]_vars

----------------------------------------------------------------------------
(* Properties                                                              *)

(* "All of that state lives in a single cookie, so any worker can serve    *)
(* the flow", during a "zero-downtime key rotation" too: while a flow is   *)
(* younger than TTL, less the skew of the clocks, the browser still has    *)
(* its cookie and every replica recovers the state from it.                *)
FlowContinues ==
  jar # NoCookie /\ now - jar.cookie.issue.born < TTL - Skew =>
    now < jar.deadline /\ \A r \in Replicas : Opens(r, jar.cookie)

(* "Ordinary requests cannot turn expiry into a sliding window": however   *)
(* often and wherever a state is resealed, no replica recovers it TTL, and *)
(* the skew, after it was first sealed.                                    *)
AbsoluteLifetime ==
  \A t \in Tabs : tab[t] \in Handling /\ tab[t].state # NoState =>
    tab[t].since - tab[t].state.born < TTL + Skew

(* What a rotation can cost a flow, however it is planned and however      *)
(* early a secret is removed, an emergency's included: while a flow is     *)
(* younger than TTL, less the skew of the clocks, the browser has its      *)
(* cookie, and the replicas that have its secret are those that recover    *)
(* the state.                                                              *)
OnlyKeysMatter ==
  jar # NoCookie /\ now - jar.cookie.issue.born < TTL - Skew =>
    /\ now < jar.deadline
    /\ \A r \in Replicas : Opens(r, jar.cookie) <=> jar.cookie.key \in Ring(stage[r])

----------------------------------------------------------------------------
(* The inductive invariants: of clocks and lifetimes, for every plan ...   *)

IssueInv(i) == i.born <= i.iat /\ i.iat <= i.born + Skew /\ i.born <= now

(* What the browser was told, or will be, lasts as long as the flow.       *)
CookieInv(c, deadline) ==
  IssueInv(c.issue) /\ c.json <= InflateCap /\ c.issue.born + TTL - Skew <= deadline

JarInv == jar # NoCookie => CookieInv(jar.cookie, jar.deadline)

TabInv(t) ==
  /\ tab[t] \in Handling /\ tab[t].state # NoState =>
       /\ IssueInv(tab[t].state)
       /\ tab[t].since <= now
       /\ tab[t].since - tab[t].state.born < TTL + Skew
  /\ tab[t] \in Response /\ tab[t].cookie # NoCookie =>
       CookieInv(tab[t].cookie, now + tab[t].maxAge)

AgeInv == TypeOK /\ JarInv /\ \A t \in Tabs : TabInv(t)

(* ... and of keys, for a rotation in which no replica ever seals with a   *)
(* secret that another, one deployment behind or ahead, does not know, and *)
(* none is removed before the cookies sealed with it are TTL old.          *)
Staged ==
  /\ Wait >= TTL
  /\ \A s \in Stages : s + 1 \in Stages =>
       Plan[s].primary \in Ring(s + 1) /\ Plan[s + 1].primary \in Ring(s)

(* Replicas are at most one deployment apart.                              *)
StageInv ==
  /\ \A q, r \in Replicas : stage[q] <= stage[r] + 1
  /\ switched <= now

(* Every replica knows the secret of a cookie that is not yet TTL old, and *)
(* a secret no replica seals with any more has been so since the switch.   *)
KeyInv(c) ==
  /\ \/ now - c.issue.born >= TTL
     \/ \A r \in Replicas : c.key \in Ring(stage[r])
  /\ \/ \E r \in Replicas : c.key = Plan[stage[r]].primary
     \/ c.issue.born <= switched

(* The cookies that exist: the browser's and those on their way to it.     *)
Answering == {t \in Tabs : tab[t] \in Response /\ tab[t].cookie # NoCookie}
Cookies ==
  (IF jar = NoCookie THEN {} ELSE {jar.cookie}) \cup {tab[t].cookie : t \in Answering}

IInv == AgeInv /\ StageInv /\ \A c \in Cookies : KeyInv(c)
=============================================================================

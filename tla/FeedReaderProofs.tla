-------------------------- MODULE FeedReaderProofs --------------------------
(***************************************************************************)
(* Proofs about FeedReader: no request carries a token that has come to    *)
(* its end, for any number of users, any margin of more than three delays  *)
(* and any lifetime that is not shorter than the margin; and what is       *)
(* downloaded is complete, or known not to be, for any fleet and any       *)
(* changes of it between two requests.                                     *)
(***************************************************************************)
EXTENDS FeedReader, TLAPS

(* What AccessToken does in a step of FeedReader. *)
AuthNext ==
    \/ \E u \in Users : Begin(u) \/ AuthStep(u) \/ AuthFault(u)
    \/ \E u \in Users : Return(u) /\ faults' \in {faults, faults + 1} /\ faults' <= MaxFaults
    \/ WithoutToken /\ faults' \in {faults, faults + 1} /\ faults' <= MaxFaults
    \/ Revoke
    \/ Tick
    \/ UNCHANGED authVars

(* What is left of the tokens user c holds or is about to use, t being the  *)
(* AccessToken and l the lifetime: an answer is as old as the stretch; while*)
(* one user is about to store ExpireTime, the token may be an older answer  *)
(* of another; and whoever has checked the token has all of the delay left. *)
Fresh(c, t, l) ==
    /\ c.pc \in {"answered", "stored"} => c.answer = None \/ c.answer >= l - c.waited
    /\ c.pc = "stored" => t = None \/ t >= l - MaxDelay - c.waited
    /\ c.pc = "read" /\ ~c.kept => t = None \/ t >= 1 + MaxDelay - c.waited
    /\ c.pc = "sent" /\ ~c.kept => c.carried = None \/ c.carried >= 1 + MaxDelay - c.waited

TokenOutlivesExpireTime == expire >= 0 => token = None \/ token >= expire + Margin - 2 * MaxDelay

FreshInv ==
    /\ AuthTypeOK
    /\ scheme # "token" => life >= Margin
    /\ TokenOutlivesExpireTime
    /\ \A u \in Users : Fresh(caller[u], token, life)

LEMMA DelayType == MaxDelay \in Nat /\ Margin \in Nat /\ MaxFaults \in Nat /\ 3 * MaxDelay < Margin
  BY AccessTokenAssumption

LEMMA IdleIsACaller == life \in Nat => IdleCaller \in Callers
  BY DelayType DEF IdleCaller, Callers, Validity, None

(* The step of one user that leaves the token and ExpireTime alone. *)
LEMMA OwnStep ==
  ASSUME FreshInv, NEW u \in Users, NEW state \in Callers, Goes(u, state),
         UNCHANGED <<scheme, life, token, expire>>, faults' \in 0..MaxFaults,
         scheme = "token" => state.pc \in {"idle", "sent"},
         Fresh(state, token, life)
  PROVE  FreshInv'
<1>1. /\ caller' \in [Users -> Callers]
      /\ caller'[u] = state
      /\ \A w \in Users \ {u} : caller'[w] = caller[w]
  BY DEF FreshInv, AuthTypeOK, Goes
<1>2. Callers' = Callers
  BY DEF Callers, Validity
<1>3. AuthTypeOK'
  BY <1>1, <1>2 DEF FreshInv, AuthTypeOK, Validity
<1>4. \A w \in Users : Fresh(caller'[w], token, life)
  BY <1>1 DEF FreshInv
<1> QED
  BY <1>3, <1>4 DEF FreshInv, TokenOutlivesExpireTime, Fresh

To(p) == [IdleCaller EXCEPT !.pc = p]

LEMMA StartState ==
  ASSUME life \in Nat, NEW pc \in {"sent", "ask", "read"}
  PROVE  /\ To(pc) \in Callers
         /\ To(pc).pc = pc /\ To(pc).answer = None /\ To(pc).carried = None
         /\ To(pc).kept = FALSE /\ To(pc).waited = 0
<1>1. 0 \in 0..MaxDelay /\ None \in Validity
  BY DelayType DEF Validity
<1>2. To(pc) \in Callers
  BY <1>1 DEF To, IdleCaller, Callers
<1> QED
  BY <1>2 DEF To, IdleCaller

LEMMA BeginFresh == ASSUME FreshInv, NEW u \in Users, Begin(u) PROVE FreshInv'
<1>1. life \in Nat
  BY DEF FreshInv, AuthTypeOK
<1>2. faults' \in 0..MaxFaults /\ UNCHANGED <<scheme, life, token, expire>>
  BY DEF Begin, FreshInv, AuthTypeOK
<1>3. CASE scheme = "token" /\ Goes(u, To("sent"))
  <2>1. Fresh(To("sent"), token, life)
    BY <1>1, StartState DEF Fresh
  <2> QED
    BY <1>1, StartState, <1>2, <1>3, <2>1, OwnStep
<1>4. CASE scheme # "token" /\ Goes(u, To("ask"))
  <2>1. Fresh(To("ask"), token, life)
    BY <1>1, StartState DEF Fresh
  <2> QED
    BY <1>1, StartState, <1>2, <1>4, <2>1, OwnStep
<1>5. CASE scheme # "token" /\ (~IsExpired \/ Writing(u, "stored")) /\ Goes(u, To("read"))
  <2>1. token = None \/ token >= 1 + MaxDelay
    <3>0. token \in {None} \cup 0..life /\ life \in Nat /\ life >= Margin /\ expire \in Int
      BY <1>5, DelayType DEF FreshInv, AuthTypeOK, Validity
    <3>1. CASE ~IsExpired
      BY <3>0, <3>1, DelayType DEF FreshInv, TokenOutlivesExpireTime, IsExpired
    <3>2. CASE Writing(u, "stored")
      <4>1. PICK w \in Users : caller[w].pc = "stored"
        BY <3>2 DEF Writing, At
      <4>2. caller[w].waited \in 0..MaxDelay
        BY DEF FreshInv, AuthTypeOK, Callers
      <4>3. token = None \/ token >= life - MaxDelay - caller[w].waited
        BY <4>1 DEF FreshInv, Fresh
      <4> QED
        BY <3>0, <4>2, <4>3, DelayType DEF None
    <3> QED
      BY <1>5, <3>1, <3>2
  <2>2. Fresh(To("read"), token, life)
    BY <1>1, StartState, <2>1, DelayType DEF Fresh
  <2> QED
    BY <1>1, StartState, <1>2, <1>5, <2>2, OwnStep
<1> QED
  BY <1>3, <1>4, <1>5 DEF Begin, To

(* What the invariant says of one user. *)
LEMMA CallerType ==
  ASSUME FreshInv, NEW u \in Users
  PROVE  /\ caller[u] \in Callers /\ Fresh(caller[u], token, life)
         /\ caller[u].answer \in Validity /\ caller[u].carried \in Validity
         /\ caller[u].kept \in BOOLEAN /\ caller[u].waited \in 0..MaxDelay
         /\ token \in Validity /\ life \in Nat /\ faults \in 0..MaxFaults
         /\ expire = -1 \/ expire \in 0..(life - Margin)
         /\ scheme = "token" => caller[u].pc \in {"idle", "sent"}
  BY DEF FreshInv, AuthTypeOK, Callers

LEMMA FaultType == ASSUME FreshInv, Fault \/ UNCHANGED faults PROVE faults' \in 0..MaxFaults
  BY DelayType DEF FreshInv, AuthTypeOK, Fault

(* Without a scheme there is nothing to ask for. *)
LEMMA IssueFresh == ASSUME FreshInv, NEW u \in Users, Issue(u) PROVE FreshInv'
<1> DEFINE s == [caller[u] EXCEPT !.pc = "answered", !.answer = life]
<1>0. caller[u] \in Callers /\ life \in Validity
  BY CallerType DEF Validity
<1>1. s \in Callers /\ s.pc = "answered" /\ s.answer = life
  BY <1>0 DEF Callers
<1>2. s.waited = caller[u].waited /\ caller[u].waited \in 0..MaxDelay /\ life \in Nat
  BY CallerType
<1>3. scheme # "token"
  BY CallerType DEF Issue, At
<1> HIDE DEF s
<1>4. Fresh(s, token, life)
  BY <1>1, <1>2, DelayType DEF Fresh
<1>5. Goes(u, s) /\ UNCHANGED <<scheme, life, token, expire, faults>>
  BY DEF Issue, s
<1> QED
  BY <1>1, <1>3, <1>4, <1>5, FaultType, OwnStep

LEMMA RefuseFresh == ASSUME FreshInv, NEW u \in Users, Refuse(u) PROVE FreshInv'
<1> DEFINE s == [caller[u] EXCEPT !.pc = "answered", !.answer = None]
<1>0. caller[u] \in Callers /\ None \in Validity
  BY CallerType DEF Validity
<1>1. s \in Callers /\ s.pc = "answered" /\ s.answer = None
  BY <1>0 DEF Callers
<1>2. scheme # "token"
  BY CallerType DEF Refuse, At
<1> HIDE DEF s
<1>3. Fresh(s, token, life)
  BY <1>1 DEF Fresh
<1>4. Goes(u, s) /\ UNCHANGED <<scheme, life, token, expire>> /\ Fault
  BY DEF Refuse, s
<1> QED
  BY <1>1, <1>2, <1>3, <1>4, FaultType, OwnStep

LEMMA FailToSignFresh == ASSUME FreshInv, NEW u \in Users, FailToSign(u) PROVE FreshInv'
<1> DEFINE s == [caller[u] EXCEPT !.pc = "answered", !.answer = life, !.blank = TRUE]
<1>0. caller[u] \in Callers /\ life \in Validity
  BY CallerType DEF Validity
<1>1. s \in Callers /\ s.pc = "answered" /\ s.answer = life
  BY <1>0 DEF Callers
<1>2. s.waited = caller[u].waited /\ caller[u].waited \in 0..MaxDelay /\ life \in Nat
  BY CallerType
<1>3. scheme # "token"
  BY CallerType DEF FailToSign, At
<1> HIDE DEF s
<1>4. Fresh(s, token, life)
  BY <1>1, <1>2, DelayType DEF Fresh
<1>5. Goes(u, s) /\ UNCHANGED <<scheme, life, token, expire>> /\ Fault
  BY DEF FailToSign, s
<1> QED
  BY <1>1, <1>3, <1>4, <1>5, FaultType, OwnStep

LEMMA UnreachableFresh == ASSUME FreshInv, NEW u \in Users, Unreachable(u) PROVE FreshInv'
<1> DEFINE s == [caller[u] EXCEPT !.pc = "read", !.kept = TRUE]
<1>1. s \in Callers /\ s.pc = "read" /\ s.kept = TRUE
  BY CallerType DEF Callers
<1>2. scheme # "token"
  BY DEF Unreachable
<1> HIDE DEF s
<1>3. Fresh(s, token, life)
  BY <1>1 DEF Fresh
<1>4. Goes(u, s) /\ UNCHANGED <<scheme, life, token, expire>> /\ Fault
  BY DEF Unreachable, s
<1> QED
  BY <1>1, <1>2, <1>3, <1>4, FaultType, OwnStep

LEMMA ReadFresh ==
  ASSUME FreshInv, NEW u \in Users, ReadToken(u) \/ ReadTornToken(u)
  PROVE  FreshInv'
<1>1. PICK t \in {token, None} :
         /\ Goes(u, [caller[u] EXCEPT !.pc = "sent", !.carried = t])
         /\ UNCHANGED <<scheme, life, token, expire>>
         /\ Fault \/ UNCHANGED faults
  BY DEF ReadToken, ReadTornToken
<1> DEFINE s == [caller[u] EXCEPT !.pc = "sent", !.carried = t]
<1>2. caller[u] \in Callers /\ t \in Validity
  BY CallerType DEF Validity
<1>3. /\ s \in Callers /\ s.pc = "sent" /\ s.carried = t
      /\ s.kept = caller[u].kept /\ s.waited = caller[u].waited
  BY <1>2 DEF Callers
<1>4. caller[u].pc = "read"
  BY DEF ReadToken, ReadTornToken, At
<1> HIDE DEF s
<1>5. Fresh(s, token, life)
  BY <1>3, <1>4, CallerType DEF Fresh
<1>6. Goes(u, s)
  BY <1>1 DEF s
<1> QED
  BY <1>1, <1>3, <1>5, <1>6, FaultType, OwnStep

LEMMA ReturnFresh ==
  ASSUME FreshInv, NEW u \in Users, Return(u), faults' \in 0..MaxFaults
  PROVE  FreshInv'
<1>1. IdleCaller \in Callers /\ IdleCaller.pc = "idle"
  BY IdleIsACaller, CallerType DEF IdleCaller
<1>2. Fresh(IdleCaller, token, life)
  BY <1>1 DEF Fresh
<1> QED
  BY <1>1, <1>2, OwnStep DEF Return

LEMMA OtherToken ==
  ASSUME NEW c, NEW t1, NEW t2, NEW l, Fresh(c, t1, l),
         t2 = None \/ (t2 >= l - MaxDelay - c.waited /\ t2 >= 1 + MaxDelay - c.waited)
  PROVE  Fresh(c, t2, l)
  BY DEF Fresh

(* A token that is stored is at most as old as the answer took.            *)
LEMMA StoreTokenFresh == ASSUME FreshInv, NEW u \in Users, StoreToken(u) PROVE FreshInv'
<1> DEFINE s == [caller[u] EXCEPT !.pc = "stored"]
           a == caller[u].answer
           t == IF caller[u].blank THEN None ELSE a
<1>1. /\ caller[u] \in Callers /\ caller[u].pc = "answered" /\ scheme # "token"
      /\ a \in Validity /\ life \in Nat /\ life >= Margin /\ caller[u].waited \in 0..MaxDelay
  BY CallerType DEF StoreToken, At, FreshInv
<1>2. /\ s \in Callers /\ s.pc = "stored" /\ s.answer = a /\ s.waited = caller[u].waited
  BY <1>1 DEF Callers
<1>a. a = None \/ a >= life - caller[u].waited
  BY <1>1, CallerType DEF Fresh
<1>3. t \in Validity /\ (t = None \/ t >= life - caller[u].waited)
  BY <1>1, <1>a DEF Validity
<1>4. t = None \/ (t \in Nat /\ t >= life - MaxDelay /\ t >= 1 + MaxDelay)
  BY <1>1, <1>3, DelayType DEF Validity, None
<1>5. Goes(u, s) /\ token' = t /\ UNCHANGED <<scheme, life, expire, faults>>
  BY DEF StoreToken
<1>6. /\ caller' \in [Users -> Callers]
      /\ caller'[u] = s
      /\ \A w \in Users \ {u} : caller'[w] = caller[w]
  BY <1>2, <1>5 DEF FreshInv, AuthTypeOK, Goes
<1> HIDE DEF s, t, a
<1>7. Callers' = Callers /\ Validity' = Validity
  BY <1>5 DEF Callers, Validity
<1>8. AuthTypeOK'
  BY <1>1, <1>3, <1>5, <1>6, <1>7 DEF FreshInv, AuthTypeOK
<1>9. ASSUME NEW w \in Users PROVE Fresh(caller'[w], t, life)
  <2>1. CASE w = u
    <3>1. /\ t = None \/ t >= life - MaxDelay - s.waited
          /\ s.answer = None \/ s.answer >= life - s.waited
      BY <1>1, <1>2, <1>a, <1>4, DelayType
    <3>2. Fresh(s, t, life)
      BY <1>2, <3>1 DEF Fresh
    <3> QED
      BY <1>6, <2>1, <3>2
  <2>2. CASE w # u
    <3>0. caller'[w] = caller[w]
      BY <1>6, <2>2
    <3>1. Fresh(caller[w], token, life) /\ caller[w].waited \in 0..MaxDelay
      BY CallerType
    <3>2. t = None \/ (t >= life - MaxDelay - caller[w].waited /\ t >= 1 + MaxDelay - caller[w].waited)
      BY <1>1, <1>4, <3>1, DelayType
    <3>3. Fresh(caller[w], t, life)
      BY <3>1, <3>2, OtherToken
    <3> QED
      BY <3>0, <3>3
  <2> QED
    BY <2>1, <2>2
<1>10. TokenOutlivesExpireTime'
  <2>1. expire = -1 \/ expire \in 0..(life - Margin)
    BY CallerType
  <2> QED
    BY <1>1, <1>4, <1>5, <2>1, DelayType DEF TokenOutlivesExpireTime
<1>11. scheme' # "token" => life' >= Margin
  BY <1>1, <1>5
<1>12. \A w \in Users : Fresh(caller[w], token, life)'
  BY <1>5, <1>9 DEF Fresh
<1> QED
  BY <1>8, <1>10, <1>11, <1>12 DEF FreshInv

(* ExpireTime is stored at most two delays after the token was issued.     *)
LEMMA StoreExpireTimeFresh == ASSUME FreshInv, NEW u \in Users, StoreExpireTime(u) PROVE FreshInv'
<1> DEFINE s == [caller[u] EXCEPT !.pc = "read", !.answer = None, !.blank = FALSE, !.waited = 0]
           a == caller[u].answer
<1>1. /\ caller[u] \in Callers /\ caller[u].pc = "stored" /\ scheme # "token"
      /\ a \in Validity /\ life \in Nat /\ life >= Margin /\ caller[u].waited \in 0..MaxDelay
      /\ token \in Validity
  BY CallerType DEF StoreExpireTime, At, FreshInv
<1>2. 0 \in 0..MaxDelay /\ None \in Validity
  BY DelayType DEF Validity
<1>3. /\ s \in Callers /\ s.pc = "read" /\ s.waited = 0
  BY <1>1, <1>2 DEF Callers
<1>4. token = None \/ token >= life - MaxDelay - caller[u].waited
  BY <1>1, CallerType DEF Fresh
<1>5. token = None \/ (token >= life - 2 * MaxDelay /\ token >= 1 + MaxDelay)
  BY <1>1, <1>4, DelayType DEF Validity, None
<1>6. ExpireTime(a) = -1 \/ ExpireTime(a) \in 0..(life - Margin)
  <2>1. CASE a = None \/ ValidFor(a) < Margin
    BY <2>1 DEF ExpireTime
  <2>2. CASE ~(a = None \/ ValidFor(a) < Margin)
    <3>1. ValidFor(a) \in 0..life /\ ~(ValidFor(a) < Margin)
      BY <1>1, <2>2 DEF ValidFor, Validity
    <3>2. ValidFor(a) - Margin \in 0..(life - Margin)
      BY <1>1, <3>1, DelayType
    <3> QED
      BY <2>2, <3>2 DEF ExpireTime
  <2> QED
    BY <2>1, <2>2
<1>7. Goes(u, s) /\ expire' = ExpireTime(a) /\ UNCHANGED <<scheme, life, token, faults>>
  BY DEF StoreExpireTime
<1>8. /\ caller' \in [Users -> Callers]
      /\ caller'[u] = s
      /\ \A w \in Users \ {u} : caller'[w] = caller[w]
  BY <1>3, <1>7 DEF FreshInv, AuthTypeOK, Goes
<1> HIDE DEF s, a
<1>9. Callers' = Callers /\ Validity' = Validity
  BY <1>7 DEF Callers, Validity
<1>10. AuthTypeOK'
  BY <1>1, <1>6, <1>7, <1>8, <1>9 DEF FreshInv, AuthTypeOK
<1>11. ASSUME NEW w \in Users PROVE Fresh(caller'[w], token, life)
  <2>1. CASE w = u
    <3>1. Fresh(s, token, life)
      BY <1>3, <1>5, DelayType DEF Fresh
    <3> QED
      BY <1>8, <2>1, <3>1
  <2>2. CASE w # u
    <3>1. caller'[w] = caller[w]
      BY <1>8, <2>2
    <3>2. Fresh(caller[w], token, life)
      BY CallerType
    <3> QED
      BY <3>1, <3>2
  <2> QED
    BY <2>1, <2>2
<1>12. TokenOutlivesExpireTime'
  <2>1. ExpireTime(a) >= 0 => token = None \/ token >= ExpireTime(a) + Margin - 2 * MaxDelay
    BY <1>1, <1>5, <1>6, DelayType DEF Validity, None
  <2> QED
    BY <1>7, <2>1 DEF TokenOutlivesExpireTime
<1>13. scheme' # "token" => life' >= Margin
  BY <1>1, <1>7
<1>14. \A w \in Users : Fresh(caller[w], token, life)'
  BY <1>7, <1>11 DEF Fresh
<1> QED
  BY <1>10, <1>12, <1>13, <1>14 DEF FreshInv

(* Nobody holds a token after a restart. *)
LEMMA WithoutTokenFresh ==
  ASSUME FreshInv, WithoutToken, faults' \in 0..MaxFaults
  PROVE  FreshInv'
<1>1. IdleCaller \in Callers /\ IdleCaller.pc = "idle"
  BY IdleIsACaller DEF FreshInv, AuthTypeOK, IdleCaller
<1>2. Callers' = Callers /\ Validity' = Validity
  BY DEF WithoutToken, Callers, Validity
<1>3. \A w \in Users : caller'[w] = IdleCaller
  BY DEF WithoutToken
<1>4. AuthTypeOK'
  BY <1>1, <1>2 DEF FreshInv, AuthTypeOK, WithoutToken, Validity
<1>5. ASSUME NEW w \in Users PROVE Fresh(caller[w], token, life)'
  <2>1. caller'[w].pc = "idle"
    BY <1>1, <1>3
  <2> QED
    BY <2>1 DEF Fresh
<1>6. TokenOutlivesExpireTime'
  BY DEF WithoutToken, TokenOutlivesExpireTime
<1> QED
  BY <1>4, <1>5, <1>6 DEF FreshInv, WithoutToken

LEMMA RevokeFresh == ASSUME FreshInv, Revoke PROVE FreshInv'
<1>1. Callers' = Callers /\ Validity' = Validity
  BY DEF Revoke, Callers, Validity
<1>2. AuthTypeOK'
  BY <1>1, FaultType DEF FreshInv, AuthTypeOK, Revoke, Validity
<1>3. ASSUME NEW w \in Users PROVE Fresh(caller[w], token, life)'
  <2>1. Fresh(caller[w], None, life)
    BY CallerType, OtherToken
  <2> QED
    BY <2>1 DEF Revoke, Fresh
<1>4. TokenOutlivesExpireTime'
  BY DEF Revoke, TokenOutlivesExpireTime
<1> QED
  BY <1>2, <1>3, <1>4 DEF FreshInv, Revoke

LEMMA EarlierType ==
  ASSUME life \in Nat, NEW t \in Validity
  PROVE  /\ Earlier(t) \in Validity
         /\ t = None => Earlier(t) = None
         /\ t # None => t \in Nat /\ Earlier(t) >= t - 1
<1>1. CASE t = -1
  BY <1>1 DEF Earlier, Validity, None
<1>2. CASE t \in 0..life
  <2>1. CASE t > 0
    BY <1>2, <2>1 DEF Earlier, Validity, None
  <2>2. CASE t = 0
    BY <1>2, <2>2 DEF Earlier, Validity, None
  <2> QED
    BY <1>2, <2>1, <2>2
<1> QED
  BY <1>1, <1>2 DEF Validity, None

(* One tick takes one from everything that is left and adds one to how old *)
(* the stretch is.                                                          *)
LEMMA TickFresh == ASSUME FreshInv, Tick PROVE FreshInv'
<1> DEFINE later(w) == [caller[w] EXCEPT !.answer = Earlier(@), !.carried = Earlier(@),
                                         !.waited = IF UnderWay(w) THEN @ + 1 ELSE @]
<1>1. /\ caller' = [w \in Users |-> later(w)]
      /\ token' = Earlier(token) /\ expire' = (IF expire < 0 THEN expire ELSE expire - 1)
      /\ UNCHANGED <<scheme, life, faults>>
      /\ scheme # "token" /\ life \in Nat /\ life >= Margin
  BY DEF Tick, FreshInv, AuthTypeOK
<1>2. ASSUME NEW t \in Validity
      PROVE  /\ Earlier(t) \in Validity
             /\ t = None => Earlier(t) = None
             /\ t # None => t \in Nat /\ Earlier(t) >= t - 1
  BY <1>1, EarlierType
<1>3. ASSUME NEW w \in Users
      PROVE  /\ later(w) \in Callers
             /\ later(w).pc = caller[w].pc /\ later(w).kept = caller[w].kept
             /\ later(w).answer = Earlier(caller[w].answer)
             /\ later(w).carried = Earlier(caller[w].carried)
             /\ later(w).waited = IF UnderWay(w) THEN caller[w].waited + 1 ELSE caller[w].waited
  <2>1. (IF UnderWay(w) THEN caller[w].waited + 1 ELSE caller[w].waited) \in 0..MaxDelay
    <3>1. UnderWay(w) => caller[w].waited < MaxDelay
      BY DEF Tick
    <3>2. caller[w].waited \in 0..MaxDelay
      BY CallerType
    <3> QED
      BY <3>1, <3>2, DelayType
  <2>2. /\ caller[w] \in Callers
        /\ Earlier(caller[w].answer) \in Validity /\ Earlier(caller[w].carried) \in Validity
    BY <1>2, CallerType
  <2> QED
    BY <2>1, <2>2 DEF Callers
<1> HIDE DEF later
<1>4. Callers' = Callers /\ Validity' = Validity
  BY <1>1 DEF Callers, Validity
<1>5. AuthTypeOK'
  <2>1. caller' \in [Users -> Callers]
    BY <1>1, <1>3
  <2>2. token' \in Validity
    BY <1>1, <1>2 DEF FreshInv, AuthTypeOK
  <2>3. expire' = -1 \/ expire' \in 0..(life - Margin)
    BY <1>1, DelayType DEF FreshInv, AuthTypeOK
  <2> QED
    BY <1>1, <1>4, <2>1, <2>2, <2>3 DEF FreshInv, AuthTypeOK
<1>6. ASSUME NEW w \in Users PROVE Fresh(later(w), Earlier(token), life)
  <2>1. /\ Fresh(caller[w], token, life) /\ token \in Validity
        /\ caller[w].answer \in Validity /\ caller[w].carried \in Validity
        /\ caller[w].waited \in 0..MaxDelay
    BY CallerType
  <2>2. caller[w].pc \in {"answered", "stored", "read", "sent"} => later(w).waited = caller[w].waited + 1
    BY <1>3 DEF UnderWay, At
  <2>3. /\ caller[w].pc \in {"answered", "stored"} =>
              Earlier(caller[w].answer) = None \/ Earlier(caller[w].answer) >= life - (caller[w].waited + 1)
        /\ caller[w].pc = "sent" /\ ~caller[w].kept =>
              \/ Earlier(caller[w].carried) = None
              \/ Earlier(caller[w].carried) >= 1 + MaxDelay - (caller[w].waited + 1)
    BY <1>1, <1>2, <2>1, DelayType DEF Fresh, Validity, None
  <2>4. /\ caller[w].pc = "stored" =>
              Earlier(token) = None \/ Earlier(token) >= life - MaxDelay - (caller[w].waited + 1)
        /\ caller[w].pc = "read" /\ ~caller[w].kept =>
              Earlier(token) = None \/ Earlier(token) >= 1 + MaxDelay - (caller[w].waited + 1)
    BY <1>1, <1>2, <2>1, DelayType DEF Fresh, Validity, None
  <2> QED
    BY <1>3, <2>2, <2>3, <2>4 DEF Fresh
<1>7. ASSUME NEW w \in Users PROVE Fresh(caller[w], token, life)'
  <2>1. caller'[w] = later(w)
    BY <1>1
  <2>2. Fresh(caller'[w], Earlier(token), life)
    BY <1>6, <2>1
  <2> QED
    BY <1>1, <2>2 DEF Fresh
<1>8. TokenOutlivesExpireTime'
  <2>1. token \in Validity /\ (expire = -1 \/ expire \in 0..(life - Margin))
    BY DEF FreshInv, AuthTypeOK
  <2>2. expire >= 0 => Earlier(token) = None \/ Earlier(token) >= expire - 1 + Margin - 2 * MaxDelay
    BY <1>1, <1>2, <2>1, DelayType DEF FreshInv, TokenOutlivesExpireTime, Validity, None
  <2> QED
    BY <1>1, <2>1, <2>2, DelayType DEF TokenOutlivesExpireTime
<1> QED
  BY <1>1, <1>5, <1>7, <1>8 DEF FreshInv

LEMMA AuthNextFresh == FreshInv /\ AuthNext => FreshInv'
<1> SUFFICES ASSUME FreshInv, AuthNext PROVE FreshInv'
  OBVIOUS
<1>0. faults \in 0..MaxFaults
  BY DEF FreshInv, AuthTypeOK
<1>1. ASSUME NEW u \in Users, Begin(u) \/ AuthStep(u) \/ AuthFault(u) PROVE FreshInv'
  BY <1>1, BeginFresh, IssueFresh, StoreTokenFresh, StoreExpireTimeFresh, ReadFresh,
     RefuseFresh, FailToSignFresh, UnreachableFresh DEF AuthStep, AuthFault
<1>2. ASSUME faults' \in {faults, faults + 1}, faults' <= MaxFaults PROVE faults' \in 0..MaxFaults
  BY <1>0, <1>2, DelayType
<1>3. ASSUME NEW u \in Users, Return(u), faults' \in 0..MaxFaults PROVE FreshInv'
  BY <1>3, ReturnFresh
<1>4. CASE UNCHANGED authVars
  BY <1>4 DEF authVars, FreshInv, AuthTypeOK, Fresh, TokenOutlivesExpireTime, Callers, Validity
<1> QED
  BY <1>1, <1>2, <1>3, <1>4, WithoutTokenFresh, RevokeFresh, TickFresh DEF AuthNext

(* Every step of FeedReader is one of AccessToken or leaves it alone. *)
LEMMA NextIsAuthNext == ASSUME FreshInv, [Next]_vars PROVE AuthNext
<1>0. faults \in 0..MaxFaults /\ (Fault => faults' = faults + 1 /\ faults' <= MaxFaults)
      /\ (UNCHANGED faults => faults' = faults /\ faults' <= MaxFaults)
  BY DelayType DEF FreshInv, AuthTypeOK, Fault
<1>1. CASE StartDownload \/ Deliver
  BY <1>1 DEF StartDownload, Deliver, AuthNext
<1>2. CASE LoadFeeds
  BY <1>0, <1>2 DEF LoadFeeds, Reload, AuthNext
<1>3. ASSUME NEW u \in Users, UserStep(u) PROVE AuthNext
  <2>1. CASE AuthStep(u) \/ Ask(u)
    BY <2>1 DEF Ask, AuthNext
  <2>2. ASSUME Answered(u) PROVE AuthNext
    BY <1>0, <2>2 DEF Answered, AuthNext
  <2>3. CASE RequestRejected(u)
    BY <1>0, <2>3 DEF RequestRejected, AuthNext
  <2> QED
    BY <1>3, <2>1, <2>2, <2>3 DEF UserStep, ReadTrips, ReadOverview, ReadVehicles, ReadTypes,
       ReadLastLink, ReadDevices, ReadStatus, ReadLinkedPage
<1>4. ASSUME NEW u \in Users, UserFault(u) PROVE AuthNext
  <2>1. CASE AuthFault(u)
    BY <2>1 DEF AuthNext
  <2>2. CASE RequestFails(u) \/ AnswerGarbled(u)
    BY <1>0, <2>2 DEF RequestFails, AnswerGarbled, AuthNext
  <2>3. CASE Restart(u)
    BY <1>0, <2>3 DEF Restart, Die, PlaceMissing, AuthNext
  <2> QED
    BY <1>4, <2>1, <2>2, <2>3 DEF UserFault
<1>5. ASSUME Changes PROVE AuthNext
  BY <1>5 DEF Changes, AuthNext
<1>6. CASE Revoke \/ Tick
  BY <1>6 DEF AuthNext
<1>7. CASE UNCHANGED vars
  BY <1>7 DEF vars, AuthNext
<1> QED
  BY <1>1, <1>2, <1>3, <1>4, <1>5, <1>6, <1>7 DEF Next, Ride, Park, Join, Leave

LEMMA InitFresh == Init => FreshInv
<1> SUFFICES ASSUME Init PROVE FreshInv
  OBVIOUS
<1>1. PICK s \in Setups : AuthInit(s.scheme, s.life)
  BY DEF Init
<1>2. /\ s.scheme \in Schemes /\ s.life \in Nat /\ (s.scheme # "token" => s.life >= Margin)
  BY FeedReaderAssumption
<1>3. /\ scheme \in Schemes /\ life \in Nat /\ (scheme # "token" => life >= Margin)
      /\ token = None /\ expire = -1 /\ faults = 0 /\ caller = [u \in Users |-> IdleCaller]
  BY <1>1, <1>2 DEF AuthInit
<1>4. IdleCaller \in Callers /\ IdleCaller.pc = "idle"
  BY <1>3, IdleIsACaller DEF IdleCaller
<1>5. AuthTypeOK
  BY <1>3, <1>4, DelayType DEF AuthTypeOK, Validity
<1>6. \A u \in Users : Fresh(caller[u], token, life)
  BY <1>3, <1>4 DEF Fresh
<1> QED
  BY <1>3, <1>5, <1>6 DEF FreshInv, TokenOutlivesExpireTime

(* FreshToken holds of any feed and any number of users, whatever servers,  *)
(* connections and races do: a request that is under way carries a token    *)
(* that is still valid, unless it is none or was kept on purpose.           *)
THEOREM TokensAreFresh == Spec => []FreshToken
<1>1. FreshInv /\ [Next]_vars => FreshInv'
  BY NextIsAuthNext, AuthNextFresh
<1>2. FreshInv => FreshToken
  <2> SUFFICES ASSUME FreshInv, NEW u \in Users, At(u, "sent"), ~caller[u].kept
               PROVE  caller[u].carried # 0
    BY DEF FreshToken
  <2>1. /\ caller[u].carried = None \/ caller[u].carried >= 1 + MaxDelay - caller[u].waited
        /\ caller[u].waited \in 0..MaxDelay
    BY CallerType DEF At, Fresh
  <2> QED
    BY <2>1, DelayType DEF None
<1> QED
  BY <1>1, <1>2, InitFresh, PTL DEF Spec

-----------------------------------------------------------------------------
(* What is downloaded. The requests of each reader.                        *)
StepsOf(k) == CASE k = "single" -> {"vehicles"}
                [] k = "full"   -> {"overview", "vehicles", "types"}
                [] k = "pair"   -> {"vehicles", "status"}
                [] k = "paged"  -> {"last", "vehicles", "status"}
                [] k = "linked" -> {"vehicles"}
                [] OTHER        -> {}

(* The first n vehicles: those on the pages before an offset.              *)
Before(n) == {fleet[i] : i \in {j \in DOMAIN fleet : j <= n}}

Stepwise(r) ==
    /\ r.step = "idle" => r = IdleReader
    /\ r.step \in Requests => r.step \in StepsOf(kind)
    /\ r.steady \subseteq Offered

(* A reader of one list has nothing, and then all of it. *)
WholeList(r) ==
    kind \in {"single", "full", "pair"} =>
        /\ r.step \in {"overview", "vehicles", "status"} => r.list = {} /\ ~r.twice
        /\ r.step \in {"types", "done"} /\ r.list # {} => r.steady \subseteq r.list /\ ~r.twice

(* A reader of pages has what is before its offset, of what was on offer    *)
(* all the time; pages begin at a multiple of the limit.                    *)
BeforeOffset(r) == /\ r.list \subseteq Before(r.offset)
                   /\ r.steady \cap Before(r.offset) \subseteq r.list
                   /\ ~r.twice

Undisturbed(r) == kind \in {"paged", "linked"} /\ ~r.moved /\ ~r.cut

Pages(r) ==
    Undisturbed(r) =>
        /\ r.step \in Requests => BeforeOffset(r)
        /\ r.step = "last" => r.offset = 0
        /\ kind = "paged" /\ r.step \in {"vehicles", "status"} =>
              /\ r.total = Len(fleet) - 1 /\ r.offset < r.total
              /\ \E k \in Nat : r.offset = k * Limit
        /\ r.step = "done" /\ r.list # {} =>
              /\ r.steady \ r.list \subseteq
                    IF kind = "paged" /\ r.total % Limit = 0 THEN {Last(fleet)} ELSE {}
              /\ ~r.twice

Sound(r) == r \in Readers /\ Stepwise(r) /\ WholeList(r) /\ Pages(r)

DownloadInv == FreshInv /\ TypeOK /\ Sound(reader)

LEMMA BoundTypes == Limit \in Nat \ {0} /\ PageSize \in Nat \ {0} /\ MaxDepth \in Nat /\ MaxChanges \in Nat
  BY FeedReaderAssumption

(* Pages of a list without duplicates. *)
LEMMA PageFacts ==
  ASSUME TypeOK, NEW n \in Nat, NEW size \in Nat
  PROVE  /\ Before(n) \subseteq ToSet(fleet) /\ Page(n, size) \subseteq ToSet(fleet)
         /\ ToSet(fleet) \subseteq Vehicles
         /\ Before(0) = {}
         /\ Before(n) \cup Page(n, size) = Before(n + size)
         /\ Before(n) \cap Page(n, size) = {}
         /\ n >= Len(fleet) => Before(n) = ToSet(fleet)
         /\ n = Len(fleet) - 1 => ToSet(fleet) \ Before(n) = {Last(fleet)}
<1>1. fleet \in Seq(Vehicles) /\ DOMAIN fleet = 1..Len(fleet) /\ Len(fleet) \in Nat
  BY DEF TypeOK
<1>2. \A i, j \in DOMAIN fleet : fleet[i] = fleet[j] => i = j
  BY DEF TypeOK, IsInjective
<1>3. \A i \in DOMAIN fleet : fleet[i] \in Vehicles
  BY <1>1
<1>4. Before(n) \cup Page(n, size) = Before(n + size)
  BY <1>1 DEF Before, Page
<1>5. Before(n) \cap Page(n, size) = {}
  BY <1>1, <1>2 DEF Before, Page
<1>6. ASSUME n = Len(fleet) - 1 PROVE ToSet(fleet) \ Before(n) = {Last(fleet)}
  <2>1. Len(fleet) \in DOMAIN fleet /\ \A i \in DOMAIN fleet : i <= n \/ i = Len(fleet)
    BY <1>1, <1>6
  <2>2. Last(fleet) = fleet[Len(fleet)]
    BY DEF Last
  <2>3. ASSUME NEW x \in ToSet(fleet) \ Before(n) PROVE x = Last(fleet)
    BY <2>1, <2>2 DEF ToSet, Before
  <2>4. Last(fleet) \in ToSet(fleet)
    BY <2>1, <2>2 DEF ToSet
  <2>5. Last(fleet) \notin Before(n)
    BY <1>1, <1>2, <1>6, <2>1, <2>2 DEF Before
  <2> QED
    BY <2>3, <2>4, <2>5
<1>7. n >= Len(fleet) => Before(n) = ToSet(fleet)
  BY <1>1 DEF Before, ToSet
<1>8. Before(n) \subseteq ToSet(fleet) /\ Page(n, size) \subseteq ToSet(fleet) /\ ToSet(fleet) \subseteq Vehicles
  BY <1>3 DEF Before, Page, ToSet
<1>9. Before(0) = {}
  BY <1>1 DEF Before
<1> QED
  BY <1>4, <1>5, <1>6, <1>7, <1>8, <1>9

LEMMA Concatenated ==
  ASSUME NEW a \in Seq(Vehicles), NEW b \in Seq(Vehicles)
  PROVE  /\ a \o b \in Seq(Vehicles) /\ Len(a \o b) = Len(a) + Len(b)
         /\ \A j \in 1..(Len(a) + Len(b)) : (a \o b)[j] = IF j <= Len(a) THEN a[j] ELSE b[j - Len(a)]
  OBVIOUS

(* The provider's list after a change. *)
LEMMA InsertedFleet ==
  ASSUME NEW s \in Seq(Vehicles), IsInjective(s), NEW v \in Vehicles, v \notin ToSet(s),
         NEW i \in 1..(Len(s) + 1)
  PROVE  InsertAt(s, i, v) \in Seq(Vehicles) /\ IsInjective(InsertAt(s, i, v))
<1> DEFINE a == SubSeq(s, 1, i - 1)
           b == SubSeq(s, i, Len(s))
           t == InsertAt(s, i, v)
<1>1. /\ a \in Seq(Vehicles) /\ Len(a) = i - 1 /\ \A j \in 1..(i - 1) : a[j] = s[j]
      /\ b \in Seq(Vehicles) /\ Len(b) = Len(s) - i + 1
      /\ \A j \in 1..(Len(s) - i + 1) : b[j] = s[j + i - 1]
  OBVIOUS
<1>2. t = (a \o <<v>>) \o b
  BY DEF InsertAt
<1> HIDE DEF a, b
<1>3. /\ t \in Seq(Vehicles) /\ Len(t) = Len(s) + 1
      /\ \A j \in 1..(Len(s) + 1) : t[j] = IF j < i THEN s[j] ELSE IF j = i THEN v ELSE s[j - 1]
  <2>1. /\ (a \o <<v>>) \in Seq(Vehicles) /\ Len(a \o <<v>>) = i
        /\ \A j \in 1..i : (a \o <<v>>)[j] = IF j < i THEN s[j] ELSE v
    BY <1>1
  <2>2. PICK c \in Seq(Vehicles) : c = a \o <<v>>
    BY <2>1
  <2>3. t = c \o b /\ Len(c) = i /\ \A j \in 1..i : c[j] = IF j < i THEN s[j] ELSE v
    BY <1>2, <2>1, <2>2
  <2> HIDE DEF t
  <2>4. /\ t \in Seq(Vehicles) /\ Len(t) = Len(c) + Len(b)
        /\ \A j \in 1..(Len(c) + Len(b)) : t[j] = IF j <= Len(c) THEN c[j] ELSE b[j - Len(c)]
    BY <1>1, <2>3, Concatenated
  <2>5. \A j \in 1..(Len(s) + 1) : j > i => b[j - i] = s[j - 1]
    BY <1>1
  <2> QED
    BY <1>1, <2>3, <2>4, <2>5
<1> HIDE DEF t
<1>4. \A j \in 1..Len(s) : s[j] # v
  BY DEF ToSet
<1>5. \A j, k \in 1..Len(s) : s[j] = s[k] => j = k
  BY DEF IsInjective
<1>6. ASSUME NEW j \in 1..(Len(s) + 1), NEW k \in 1..(Len(s) + 1), t[j] = t[k] PROVE j = k
  <2>1. /\ t[j] = IF j < i THEN s[j] ELSE IF j = i THEN v ELSE s[j - 1]
        /\ t[k] = IF k < i THEN s[k] ELSE IF k = i THEN v ELSE s[k - 1]
    BY <1>3
  <2>2. j = i \/ \E x \in 1..Len(s) : t[j] = s[x] /\ x = IF j < i THEN j ELSE j - 1
    <3>1. CASE j < i
      <4>1. j \in 1..Len(s)
        BY <3>1
      <4> QED
        BY <2>1, <3>1, <4>1
    <3>2. CASE j > i
      <4>1. j - 1 \in 1..Len(s) /\ ~(j < i) /\ j # i
        BY <3>2
      <4> QED
        BY <2>1, <4>1
    <3> QED
      BY <3>1, <3>2
  <2>3. k = i \/ \E y \in 1..Len(s) : t[k] = s[y] /\ y = IF k < i THEN k ELSE k - 1
    <3>1. CASE k < i
      <4>1. k \in 1..Len(s)
        BY <3>1
      <4> QED
        BY <2>1, <3>1, <4>1
    <3>2. CASE k > i
      <4>1. k - 1 \in 1..Len(s) /\ ~(k < i) /\ k # i
        BY <3>2
      <4> QED
        BY <2>1, <4>1
    <3> QED
      BY <3>1, <3>2
  <2>4. CASE j = i \/ k = i
    <3>1. (j = i => ~(j < i)) /\ (k = i => ~(k < i))
      OBVIOUS
    <3>2. t[j] = v \/ t[k] = v
      BY <2>1, <2>4, <3>1
    <3>3. t[j] = v /\ t[k] = v
      BY <1>6, <3>2
    <3> QED
      BY <1>4, <2>2, <2>3, <2>4, <3>3
  <2>5. CASE j # i /\ k # i
    <3>1. PICK x \in 1..Len(s) : t[j] = s[x] /\ x = IF j < i THEN j ELSE j - 1
      BY <2>2, <2>5
    <3>2. PICK y \in 1..Len(s) : t[k] = s[y] /\ y = IF k < i THEN k ELSE k - 1
      BY <2>3, <2>5
    <3>3. x = y
      BY <1>5, <1>6, <3>1, <3>2
    <3> QED
      BY <2>5, <3>1, <3>2, <3>3
  <2> QED
    BY <2>4, <2>5
<1>7. DOMAIN t = 1..(Len(s) + 1)
  BY <1>3
<1>8. IsInjective(t)
  BY <1>6, <1>7 DEF IsInjective
<1> QED
  BY <1>3, <1>8 DEF t

LEMMA RemovedFleet ==
  ASSUME NEW s \in Seq(Vehicles), IsInjective(s), NEW i \in DOMAIN s
  PROVE  RemoveAt(s, i) \in Seq(Vehicles) /\ IsInjective(RemoveAt(s, i))
<1> DEFINE a == SubSeq(s, 1, i - 1)
           b == SubSeq(s, i + 1, Len(s))
           t == RemoveAt(s, i)
<1>0. i \in 1..Len(s) /\ Len(s) \in Nat
  OBVIOUS
<1>1. /\ a \in Seq(Vehicles) /\ Len(a) = i - 1 /\ \A j \in 1..(i - 1) : a[j] = s[j]
      /\ b \in Seq(Vehicles) /\ Len(b) = Len(s) - i
      /\ \A j \in 1..(Len(s) - i) : b[j] = s[j + i]
  BY <1>0
<1>2. t = a \o b
  BY DEF RemoveAt
<1> HIDE DEF a, b
<1>3. /\ t \in Seq(Vehicles) /\ Len(t) = Len(s) - 1
      /\ \A j \in 1..(Len(s) - 1) : t[j] = IF j < i THEN s[j] ELSE s[j + 1]
  <2> HIDE DEF t
  <2>1. /\ t \in Seq(Vehicles) /\ Len(t) = Len(a) + Len(b)
        /\ \A j \in 1..(Len(a) + Len(b)) : t[j] = IF j <= Len(a) THEN a[j] ELSE b[j - Len(a)]
    BY <1>1, <1>2, Concatenated
  <2>2. \A j \in 1..(Len(s) - 1) : j >= i => b[j - (i - 1)] = s[j + 1]
    BY <1>0, <1>1
  <2>3. Len(a) + Len(b) = Len(s) - 1 /\ Len(a) = i - 1
    BY <1>0, <1>1
  <2>4. ASSUME NEW j \in 1..(Len(s) - 1) PROVE t[j] = IF j < i THEN s[j] ELSE s[j + 1]
    <3>1. t[j] = IF j <= i - 1 THEN a[j] ELSE b[j - (i - 1)]
      BY <2>1, <2>3
    <3>2. CASE j < i
      <4>1. j \in 1..(i - 1) /\ j <= i - 1
        BY <1>0, <3>2
      <4> QED
        BY <1>1, <3>1, <3>2, <4>1
    <3>3. CASE ~(j < i)
      <4>1. ~(j <= i - 1) /\ j >= i
        BY <1>0, <3>3
      <4> QED
        BY <2>2, <3>1, <3>3, <4>1
    <3> QED
      BY <3>2, <3>3
  <2> QED
    BY <2>1, <2>3, <2>4
<1> HIDE DEF t
<1>4. \A j, k \in 1..Len(s) : s[j] = s[k] => j = k
  BY DEF IsInjective
<1>5. ASSUME NEW j \in 1..(Len(s) - 1), NEW k \in 1..(Len(s) - 1), t[j] = t[k] PROVE j = k
  <2>1. /\ t[j] = IF j < i THEN s[j] ELSE s[j + 1]
        /\ t[k] = IF k < i THEN s[k] ELSE s[k + 1]
    BY <1>3
  <2>2. PICK x \in 1..Len(s) : t[j] = s[x] /\ x = IF j < i THEN j ELSE j + 1
    <3>1. (IF j < i THEN j ELSE j + 1) \in 1..Len(s)
      BY <1>0
    <3> QED
      BY <2>1, <3>1
  <2>3. PICK y \in 1..Len(s) : t[k] = s[y] /\ y = IF k < i THEN k ELSE k + 1
    <3>1. (IF k < i THEN k ELSE k + 1) \in 1..Len(s)
      BY <1>0
    <3> QED
      BY <2>1, <3>1
  <2>4. x = y
    BY <1>4, <1>5, <2>2, <2>3
  <2> QED
    BY <1>0, <2>2, <2>3, <2>4
<1>6. DOMAIN t = 1..(Len(s) - 1)
  BY <1>3
<1>7. IsInjective(t)
  BY <1>5, <1>6 DEF IsInjective
<1> QED
  BY <1>3, <1>7 DEF t

-----------------------------------------------------------------------------
(* What each answer makes of the reader. *)
LEMMA OfferedType == ASSUME TypeOK PROVE Offered \subseteq Vehicles
  BY PageFacts DEF Offered, Shown

LEMMA IdleSound == ASSUME TypeOK PROVE Sound(IdleReader)
<1>1. IdleReader \in Readers
  BY BoundTypes DEF IdleReader, Readers, Steps
<1>2. IdleReader.step = "idle" /\ IdleReader.steady = {}
  BY DEF IdleReader
<1> QED
  BY <1>1, <1>2 DEF Sound, Stepwise, WholeList, Pages, Requests

LEMMA StartSound ==
  ASSUME TypeOK, kind # "trips"
  PROVE  Sound([IdleReader EXCEPT !.step = FirstStep, !.steady = Offered])
<1> DEFINE r == [IdleReader EXCEPT !.step = FirstStep, !.steady = Offered]
<1>1. FirstStep \in Requests /\ FirstStep \in Steps /\ FirstStep \in StepsOf(kind)
      /\ FirstStep \notin {"types", "done", "idle"} /\ (FirstStep = "vehicles" => kind # "paged")
      /\ FirstStep # "status"
  BY DEF FirstStep, Requests, Steps, StepsOf, TypeOK, Kinds
<1>2. /\ r.step = FirstStep /\ r.steady = Offered /\ r.list = {} /\ r.twice = FALSE /\ r.offset = 0
      /\ r \in Readers
  <2>1. /\ IdleReader \in Readers /\ IdleReader.list = {} /\ IdleReader.twice = FALSE
        /\ IdleReader.offset = 0
    BY IdleSound DEF Sound, IdleReader
  <2>2. PICK i \in Readers : i = IdleReader
    BY <2>1
  <2>3. r = [i EXCEPT !.step = FirstStep, !.steady = Offered]
    BY <2>2
  <2> HIDE DEF r
  <2> QED
    BY <1>1, <2>1, <2>2, <2>3, OfferedType DEF Readers
<1> HIDE DEF r
<1>3. BeforeOffset(r)
  BY <1>2, PageFacts DEF BeforeOffset
<1> QED
  BY <1>1, <1>2, <1>3 DEF Sound, Stepwise, WholeList, Pages, r

(* Nothing was read, or all that was wanted.                               *)
LEMMA NothingSound == ASSUME TypeOK, Sound(reader) PROVE Sound(Done({}))
<1> DEFINE r == Done({})
<1>1. r \in Readers /\ r.step = "done" /\ r.list = {} /\ r.steady = reader.steady
  BY DEF Done, Sound, Readers, Steps
<1> HIDE DEF r
<1> QED
  BY <1>1 DEF Sound, Stepwise, WholeList, Pages, Requests, r

LEMMA OneListSound ==
  ASSUME TypeOK, Sound(reader), kind \in {"single", "full"}, reader.step = "vehicles",
         NEW step \in {"types", "done"}, kind = "single" => step = "done"
  PROVE  Sound([reader EXCEPT !.step = step, !.list = Offered])
<1> DEFINE r == [reader EXCEPT !.step = step, !.list = Offered]
<1>1. /\ r \in Readers /\ r.step = step /\ r.list = Offered /\ r.steady = reader.steady
      /\ r.twice = reader.twice
  BY OfferedType DEF Sound, Readers, Steps
<1>2. ~reader.twice /\ reader.steady \subseteq Offered
  BY DEF Sound, WholeList, Stepwise
<1> HIDE DEF r
<1>3. Stepwise(r) /\ WholeList(r)
  BY <1>1, <1>2 DEF Stepwise, WholeList, Requests, Steps, StepsOf
<1> QED
  BY <1>1, <1>3 DEF Sound, Pages, Undisturbed, r

(* The requests of a full GBFS feed that are not about vehicles.           *)
LEMMA FullStepSound ==
  ASSUME TypeOK, Sound(reader), kind = "full", NEW step \in {"vehicles", "types", "done"},
         reader.step = IF step = "done" THEN "types" ELSE IF step = "types" THEN "vehicles" ELSE "overview"
  PROVE  Sound([reader EXCEPT !.step = step])
<1> DEFINE r == [reader EXCEPT !.step = step]
<1>1. /\ r \in Readers /\ r.step = step /\ r.list = reader.list /\ r.steady = reader.steady
      /\ r.twice = reader.twice
  BY DEF Sound, Readers, Steps
<1> HIDE DEF r
<1>2. Stepwise(r) /\ WholeList(r)
  BY <1>1 DEF Sound, Stepwise, WholeList, Requests, Steps, StepsOf
<1> QED
  BY <1>1, <1>2 DEF Sound, Pages, Undisturbed, r

LEMMA TypesSound ==
  ASSUME TypeOK, Sound(reader), kind = "full", reader.step = "types"
  PROVE  Sound(Done(reader.list))
<1>1. Done(reader.list) = [reader EXCEPT !.step = "done"]
  BY DEF Done, Sound, Readers
<1> QED
  BY <1>1, FullStepSound

LEMMA CutSound ==
  ASSUME TypeOK, Sound(reader), kind = "linked"
  PROVE  Sound([Done(reader.list) EXCEPT !.cut = TRUE])
<1> DEFINE r == [Done(reader.list) EXCEPT !.cut = TRUE]
<1>1. /\ r \in Readers /\ r.step = "done" /\ r.cut /\ r.steady = reader.steady
  BY DEF Done, Sound, Readers, Steps
<1> HIDE DEF r
<1> QED
  BY <1>1 DEF Sound, Stepwise, WholeList, Pages, Undisturbed, Requests, r

LEMMA LastLinkSound ==
  ASSUME TypeOK, Sound(reader), kind = "paged", reader.step = "last", LastOffset # 0
  PROVE  Sound([reader EXCEPT !.step = "vehicles", !.total = LastOffset])
<1> DEFINE r == [reader EXCEPT !.step = "vehicles", !.total = LastOffset]
<1>0. LastOffset = Len(fleet) - 1 /\ LastOffset \in Nat /\ LastOffset > 0
  <2>1. fleet # <<>> /\ LastOffset = Len(fleet) - 1
    BY DEF LastOffset
  <2>2. fleet \in Seq(Vehicles)
    BY DEF TypeOK
  <2>3. Len(fleet) \in Nat /\ Len(fleet) # 0
    BY <2>1, <2>2
  <2> QED
    BY <2>1, <2>3
<1>1. /\ r \in Readers /\ r.step = "vehicles" /\ r.total = LastOffset
      /\ r.list = reader.list /\ r.steady = reader.steady /\ r.twice = reader.twice
      /\ r.offset = reader.offset /\ r.moved = reader.moved /\ r.cut = reader.cut
  BY <1>0 DEF Sound, Readers, Steps
<1> HIDE DEF r
<1>2. Stepwise(r) /\ WholeList(r)
  BY <1>1 DEF Sound, Stepwise, WholeList, Requests, Steps, StepsOf
<1>3. ASSUME Undisturbed(r) PROVE BeforeOffset(r) /\ r.offset = 0
  BY <1>1, <1>3 DEF Sound, Pages, Undisturbed, BeforeOffset, Requests, Steps
<1>4. 0 = 0 * Limit
  BY BoundTypes
<1> QED
  BY <1>0, <1>1, <1>2, <1>3, <1>4 DEF Sound, Pages, r

LEMMA DevicesSound ==
  ASSUME TypeOK, Sound(reader), kind \in {"pair", "paged"}, reader.step = "vehicles",
         NEW page \in SUBSET Vehicles
  PROVE  Sound([reader EXCEPT !.step = "status", !.devices = @ \cup page])
<1> DEFINE r == [reader EXCEPT !.step = "status", !.devices = @ \cup page]
<1>1. /\ r \in Readers /\ r.step = "status" /\ r.total = reader.total
      /\ r.list = reader.list /\ r.steady = reader.steady /\ r.twice = reader.twice
      /\ r.offset = reader.offset /\ r.moved = reader.moved /\ r.cut = reader.cut
  BY DEF Sound, Readers, Steps
<1> HIDE DEF r
<1>2. Stepwise(r) /\ WholeList(r)
  BY <1>1 DEF Sound, Stepwise, WholeList, Requests, Steps, StepsOf
<1>3. ASSUME Undisturbed(r)
      PROVE  /\ BeforeOffset(r)
             /\ kind = "paged" => /\ r.total = Len(fleet) - 1 /\ r.offset < r.total
                                  /\ \E k \in Nat : r.offset = k * Limit
  BY <1>1, <1>3 DEF Sound, Pages, Undisturbed, BeforeOffset, Requests, Steps
<1> QED
  BY <1>1, <1>2, <1>3 DEF Sound, Pages, r

LEMMA Multiples ==
  ASSUME NEW k \in Nat, NEW n \in Nat \ {0}
  PROVE  k * n + n = (k + 1) * n /\ k + 1 \in Nat /\ ((k + 1) * n) % n = 0
<1>1. ASSUME NEW m \in Nat PROVE (m * n) % n = 0
  OBVIOUS
<1>2. k * n + n = (k + 1) * n /\ k + 1 \in Nat
  OBVIOUS
<1> QED
  BY <1>1, <1>2

(* One more page. *)
LEMMA AddingFields ==
  ASSUME Sound(reader), NEW page \in SUBSET Vehicles
  PROVE  /\ Adding(page) \in Readers
         /\ Adding(page).list = reader.list \cup page
         /\ Adding(page).twice = (reader.twice \/ reader.list \cap page # {})
         /\ Adding(page).step = reader.step /\ Adding(page).steady = reader.steady
         /\ Adding(page).offset = reader.offset /\ Adding(page).total = reader.total
         /\ Adding(page).depth = reader.depth
         /\ Adding(page).moved = reader.moved /\ Adding(page).cut = reader.cut
<1>1. reader \in Readers
  BY DEF Sound
<1>2. reader.list \cup page \subseteq Vehicles /\ (reader.twice \/ reader.list \cap page # {}) \in BOOLEAN
  BY <1>1 DEF Readers
<1> QED
  BY <1>1, <1>2 DEF Adding, Readers

LEMMA AddingPage ==
  ASSUME TypeOK, reader \in Readers, reader.steady \subseteq Offered, BeforeOffset(reader), NEW size \in Nat,
         NEW list, list = reader.list \cup Shown(Page(reader.offset, size))
  PROVE  /\ list \subseteq Before(reader.offset + size)
         /\ reader.steady \cap Before(reader.offset + size) \subseteq list
         /\ reader.list \cap Shown(Page(reader.offset, size)) = {}
         /\ reader.steady \subseteq ToSet(fleet)
<1>1. reader.offset \in Nat
  BY DEF Readers
<1>2. /\ Before(reader.offset) \cup Page(reader.offset, size) = Before(reader.offset + size)
      /\ Before(reader.offset) \cap Page(reader.offset, size) = {}
  BY <1>1, PageFacts
<1>3. reader.steady \subseteq ToSet(fleet) \ riding
  BY DEF Offered, Shown
<1> QED
  BY <1>2, <1>3 DEF BeforeOffset, Shown

LEMMA ShownType == ASSUME NEW page \in SUBSET Vehicles PROVE Shown(page) \in SUBSET Vehicles
  BY DEF Shown

LEMMA StatusesSound ==
  ASSUME TypeOK, Sound(reader), kind \in {"pair", "paged"}, reader.step = "status",
         NEW page \in SUBSET Vehicles, NEW cut \in BOOLEAN,
         page = (IF cut THEN {} ELSE PageOf(kind)), Statuses(page, cut), NEW r, r = reader'
  PROVE  Sound(r)
<1> DEFINE list == reader.list \cup Shown(page)
           next == NextOffset(reader.offset)
<1>1. PICK all \in Readers : all = Adding(Shown(page))
  BY ShownType, AddingFields
<1>2. /\ all.list = list /\ all.step = reader.step /\ all.steady = reader.steady
      /\ all.twice = (reader.twice \/ reader.list \cap Shown(page) # {})
      /\ all.offset = reader.offset /\ all.total = reader.total
      /\ all.moved = reader.moved /\ all.cut = reader.cut
  BY <1>1, ShownType, AddingFields
<1>3. r = IF kind = "paged" /\ next < reader.total
          THEN [all EXCEPT !.step = "vehicles", !.offset = next, !.cut = @ \/ cut]
          ELSE [all EXCEPT !.step = "done", !.list = CombineFeeds(reader.devices, @), !.cut = @ \/ cut]
  BY <1>1 DEF Statuses, Reads
<1>4. next = reader.offset + Limit /\ next \in Nat /\ reader.offset \in Nat /\ reader.total \in Nat
      /\ Limit \in Nat \ {0}
  BY BoundTypes DEF NextOffset, Sound, Readers
<1>5. CombineFeeds(reader.devices, list) \in {list, {}} /\ list \subseteq Vehicles
  BY ShownType DEF CombineFeeds, Sound, Readers
<1>6. reader.steady \subseteq Offered
  BY DEF Sound, Stepwise
<1> HIDE DEF list, next
<1>7. CASE kind = "paged" /\ next < reader.total
  <2>1. r = [all EXCEPT !.step = "vehicles", !.offset = next, !.cut = @ \/ cut]
    BY <1>3, <1>7
  <2>2. /\ r \in Readers /\ r.step = "vehicles" /\ r.offset = next /\ r.list = list
        /\ r.steady = reader.steady /\ r.total = reader.total /\ r.moved = reader.moved
        /\ r.twice = (reader.twice \/ reader.list \cap Shown(page) # {})
        /\ (~r.cut => ~reader.cut /\ ~cut)
    BY <1>2, <1>4, <2>1 DEF Readers, Steps
  <2>3. ASSUME Undisturbed(r)
        PROVE  /\ BeforeOffset(r) /\ r.total = Len(fleet) - 1 /\ r.offset < r.total
               /\ \E k \in Nat : r.offset = k * Limit
    <3>1. Undisturbed(reader) /\ page = Page(reader.offset, Limit)
      BY <1>7, <2>2, <2>3 DEF Undisturbed, PageOf
    <3>2. BeforeOffset(reader) /\ reader.total = Len(fleet) - 1
      BY <1>7, <3>1 DEF Sound, Pages, Requests, Steps
    <3>3. PICK k \in Nat : reader.offset = k * Limit
      BY <1>7, <3>1 DEF Sound, Pages
    <3>4. r.offset = (k + 1) * Limit /\ k + 1 \in Nat
      BY <1>4, <2>2, <3>3, Multiples
    <3>5. /\ list \subseteq Before(next) /\ reader.steady \cap Before(next) \subseteq list
          /\ reader.list \cap Shown(page) = {}
      <4>1. reader \in Readers /\ list = reader.list \cup Shown(Page(reader.offset, Limit)) /\ Limit \in Nat
        BY <1>4, <3>1 DEF Sound, list
      <4> QED
        BY <1>4, <1>6, <3>1, <3>2, <4>1, AddingPage
    <3>6. ~reader.twice
      BY <3>2 DEF BeforeOffset
    <3>7. BeforeOffset(r)
      BY <2>2, <3>5, <3>6 DEF BeforeOffset
    <3> QED
      BY <1>7, <2>2, <3>2, <3>4, <3>7
  <2>4. Stepwise(r)
    BY <1>6, <1>7, <2>2 DEF Stepwise, Requests, Steps, StepsOf
  <2> QED
    BY <1>7, <2>2, <2>3, <2>4 DEF Sound, WholeList, Pages
<1>8. CASE ~(kind = "paged" /\ next < reader.total)
  <2>1. r = [all EXCEPT !.step = "done", !.list = CombineFeeds(reader.devices, @), !.cut = @ \/ cut]
    BY <1>3, <1>8
  <2>2. /\ r \in Readers /\ r.step = "done" /\ (r.list # {} => r.list = list)
        /\ r.steady = reader.steady /\ r.total = reader.total /\ r.moved = reader.moved
        /\ r.twice = (reader.twice \/ reader.list \cap Shown(page) # {})
        /\ (~r.cut => ~reader.cut /\ ~cut)
    <3>1. PICK c \in SUBSET Vehicles : c = CombineFeeds(reader.devices, all.list) /\ c \in {list, {}}
      BY <1>2, <1>5
    <3>2. r = [all EXCEPT !.step = "done", !.list = c, !.cut = all.cut \/ cut]
      BY <2>1, <3>1
    <3>3. (all.cut \/ cut) \in BOOLEAN
      OBVIOUS
    <3>4. /\ r \in Readers /\ r.step = "done" /\ r.list = c
          /\ r.steady = all.steady /\ r.total = all.total /\ r.moved = all.moved
          /\ r.twice = all.twice /\ r.cut = (all.cut \/ cut)
      BY <3>2, <3>3 DEF Readers, Steps
    <3> QED
      BY <1>2, <3>1, <3>4
  <2>3. ASSUME kind = "pair", r.list # {}
        PROVE  r.steady \subseteq r.list /\ ~r.twice
    <3>1. reader.list = {} /\ ~reader.twice
      BY <2>3 DEF Sound, WholeList
    <3>2. page = ToSet(fleet)
      BY <2>2, <2>3, <3>1 DEF list, Shown, PageOf
    <3> QED
      BY <1>6, <2>2, <2>3, <3>1, <3>2 DEF list, Offered
  <2>4. ASSUME kind = "paged", Undisturbed(r), r.list # {}
        PROVE  /\ r.steady \ r.list \subseteq IF r.total % Limit = 0 THEN {Last(fleet)} ELSE {}
               /\ ~r.twice
    <3>1. Undisturbed(reader) /\ page = Page(reader.offset, Limit)
      BY <2>2, <2>4 DEF Undisturbed, PageOf
    <3>2. BeforeOffset(reader) /\ reader.total = Len(fleet) - 1 /\ reader.offset < reader.total
      BY <2>4, <3>1 DEF Sound, Pages, Requests, Steps
    <3>3. PICK k \in Nat : reader.offset = k * Limit
      BY <2>4, <3>1 DEF Sound, Pages
    <3>4. next = (k + 1) * Limit /\ ((k + 1) * Limit) % Limit = 0
      BY <1>4, <3>3, Multiples
    <3>5. /\ reader.steady \cap Before(next) \subseteq list
          /\ reader.list \cap Shown(page) = {} /\ reader.steady \subseteq ToSet(fleet)
      <4>1. reader \in Readers /\ list = reader.list \cup Shown(Page(reader.offset, Limit)) /\ Limit \in Nat
        BY <1>4, <3>1 DEF Sound, list
      <4> QED
        BY <1>4, <1>6, <3>1, <3>2, <4>1, AddingPage
    <3>6. ~r.twice
      BY <2>2, <3>2, <3>5 DEF BeforeOffset
    <3>7. next >= Len(fleet) \/ next = Len(fleet) - 1
      <4>1. fleet \in Seq(Vehicles)
        BY DEF TypeOK
      <4>2. Len(fleet) \in Nat
        BY <4>1
      <4> QED
        BY <1>4, <1>8, <2>4, <3>2, <4>2
    <3>8. CASE next >= Len(fleet)
      <4>1. Before(next) = ToSet(fleet)
        BY <1>4, <3>8, PageFacts
      <4>2. r.steady \ r.list = {}
        BY <2>2, <2>4, <3>5, <4>1
      <4> QED
        BY <3>6, <4>2
    <3>9. CASE next = Len(fleet) - 1
      <4>1. r.total % Limit = 0
        BY <2>2, <3>2, <3>4, <3>9
      <4>2. ToSet(fleet) \ Before(next) = {Last(fleet)}
        BY <1>4, <3>9, PageFacts
      <4> QED
        BY <2>2, <2>4, <3>5, <3>6, <4>1, <4>2
    <3> QED
      BY <3>7, <3>8, <3>9
  <2>5. Stepwise(r)
    BY <1>6, <2>2 DEF Stepwise, Requests
  <2>6. WholeList(r)
    BY <2>2, <2>3 DEF WholeList
  <2>7. Pages(r)
    BY <2>2, <2>4 DEF Pages, Undisturbed, Requests
  <2> QED
    BY <2>2, <2>5, <2>6, <2>7 DEF Sound
<1> QED
  BY <1>7, <1>8

LEMMA LinkedSound ==
  ASSUME TypeOK, Sound(reader), kind = "linked", reader.step = "vehicles",
         NEW r, r = reader',
         LET all == Adding(Shown(Page(reader.offset, PageSize))) IN
            Reads(IF ~HasNext THEN [all EXCEPT !.step = "done"]
                  ELSE IF TooDeep(reader.depth + 1) THEN [all EXCEPT !.step = "done", !.cut = TRUE]
                  ELSE [all EXCEPT !.depth = @ + 1, !.offset = @ + PageSize])
  PROVE  Sound(r)
<1> DEFINE page == Page(reader.offset, PageSize)
           list == reader.list \cup Shown(page)
<1>0. /\ reader \in Readers /\ reader.offset \in Nat /\ reader.depth \in 0..MaxDepth
      /\ PageSize \in Nat \ {0} /\ MaxDepth \in Nat /\ reader.steady \subseteq Offered
  BY BoundTypes DEF Sound, Readers, Stepwise
<1>1. Shown(page) \in SUBSET Vehicles
  <2>1. page \subseteq ToSet(fleet) /\ ToSet(fleet) \subseteq Vehicles
    BY <1>0, PageFacts
  <2> QED
    BY <2>1, ShownType
<1>2. PICK all \in Readers : all = Adding(Shown(page))
  BY <1>1, AddingFields
<1>3. /\ all.list = list /\ all.step = reader.step /\ all.steady = reader.steady
      /\ all.twice = (reader.twice \/ reader.list \cap Shown(page) # {})
      /\ all.offset = reader.offset /\ all.total = reader.total /\ all.depth = reader.depth
      /\ all.moved = reader.moved /\ all.cut = reader.cut
  BY <1>1, <1>2, AddingFields
<1>4. r = IF ~HasNext THEN [all EXCEPT !.step = "done"]
          ELSE IF TooDeep(reader.depth + 1) THEN [all EXCEPT !.step = "done", !.cut = TRUE]
          ELSE [all EXCEPT !.depth = @ + 1, !.offset = @ + PageSize]
  BY <1>2 DEF Reads
<1>5. ASSUME Undisturbed(reader)
      PROVE  /\ list \subseteq Before(reader.offset + PageSize)
             /\ reader.steady \cap Before(reader.offset + PageSize) \subseteq list
             /\ reader.list \cap Shown(page) = {}
             /\ reader.steady \subseteq ToSet(fleet)
             /\ ~reader.twice
  <2>1. BeforeOffset(reader)
    BY <1>5 DEF Sound, Pages, Requests, Steps
  <2> QED
    BY <1>0, <2>1, AddingPage DEF BeforeOffset
<1> HIDE DEF page, list
<1>6. CASE ~HasNext
  <2>1. /\ r \in Readers /\ r.step = "done" /\ r.list = list /\ r.steady = reader.steady
        /\ r.twice = (reader.twice \/ reader.list \cap Shown(page) # {})
        /\ r.moved = reader.moved /\ r.cut = reader.cut
    BY <1>3, <1>4, <1>6 DEF Readers, Steps
  <2>2. ASSUME Undisturbed(r) PROVE r.steady \ r.list = {} /\ ~r.twice
    <3>1. Undisturbed(reader)
      BY <2>1, <2>2 DEF Undisturbed
    <3>2. fleet \in Seq(Vehicles)
      BY DEF TypeOK
    <3>3. reader.offset + PageSize \in Nat /\ reader.offset + PageSize >= Len(fleet)
      BY <1>0, <1>6, <3>2 DEF HasNext
    <3>4. Before(reader.offset + PageSize) = ToSet(fleet)
      BY <3>3, PageFacts
    <3> QED
      BY <1>5, <2>1, <3>1, <3>4
  <2>3. Stepwise(r) /\ WholeList(r)
    BY <1>0, <2>1 DEF Stepwise, WholeList, Requests
  <2>4. Pages(r)
    BY <2>1, <2>2 DEF Pages, Requests
  <2> QED
    BY <2>1, <2>3, <2>4 DEF Sound
<1>7. CASE HasNext /\ TooDeep(reader.depth + 1)
  <2>1. r = [all EXCEPT !.step = "done", !.cut = TRUE]
    BY <1>4, <1>7
  <2>2. r \in Readers /\ r.step = "done" /\ r.steady = reader.steady /\ r.cut
    BY <1>3, <2>1 DEF Readers, Steps
  <2> QED
    BY <1>0, <2>2 DEF Sound, Stepwise, WholeList, Pages, Undisturbed, Requests
<1>8. CASE HasNext /\ ~TooDeep(reader.depth + 1)
  <2>0. r = [all EXCEPT !.depth = @ + 1, !.offset = @ + PageSize]
    BY <1>4, <1>8
  <2>1. reader.depth + 1 \in 0..MaxDepth /\ reader.offset + PageSize \in Nat
    BY <1>0, <1>8 DEF TooDeep
  <2>2. /\ r \in Readers /\ r.step = "vehicles" /\ r.list = list /\ r.steady = reader.steady
        /\ r.twice = (reader.twice \/ reader.list \cap Shown(page) # {})
        /\ r.offset = reader.offset + PageSize
        /\ r.moved = reader.moved /\ r.cut = reader.cut
    BY <1>3, <2>0, <2>1 DEF Readers
  <2>3. Undisturbed(r) => BeforeOffset(r)
    BY <1>5, <2>2 DEF Undisturbed, BeforeOffset
  <2>4. Stepwise(r) /\ WholeList(r)
    BY <1>0, <2>2 DEF Stepwise, WholeList, Requests, Steps, StepsOf
  <2>5. Pages(r)
    BY <2>2, <2>3 DEF Pages, Requests
  <2> QED
    BY <2>2, <2>4, <2>5 DEF Sound
<1> QED
  BY <1>6, <1>7, <1>8

-----------------------------------------------------------------------------
(* Steps. *)
LEMMA Carried ==
  ASSUME NEW r, r = reader', Sound(r), UNCHANGED <<kind, fleet, riding>>
  PROVE  Sound(reader)'
<1>1. Offered' = Offered
  BY DEF Offered, Shown, ToSet
<1>2. \A n : Before(n)' = Before(n)
  BY DEF Before
<1>3. Stepwise(reader)' /\ WholeList(reader)' /\ (reader \in Readers)'
  BY <1>1 DEF Sound, Stepwise, WholeList, StepsOf
<1>4. Pages(reader)'
  BY <1>2 DEF Sound, Pages, Undisturbed, BeforeOffset, Last, Before
<1> QED
  BY <1>3, <1>4 DEF Sound

LEMMA UnreadSound ==
  ASSUME Sound(reader), UNCHANGED <<kind, fleet, riding, reader>>
  PROVE  Sound(reader)'
<1>1. PICK r : r = reader' /\ r = reader
  OBVIOUS
<1> QED
  BY <1>1, Carried

LEMMA BecomesSound ==
  ASSUME TypeOK, Sound(reader), NEW list \in Seq(Vehicles), NEW rides \in SUBSET Vehicles,
         Becomes(list, rides), UNCHANGED kind
  PROVE  Sound(reader)'
<1>1. fleet' = list /\ riding' = rides
  BY DEF Becomes
<1>2. Offered' = ToSet(list) \ rides
  BY <1>1 DEF Offered, Shown, ToSet
<1>3. CASE reader.step = "idle"
  <2>1. reader' = IdleReader /\ reader = IdleReader
    BY <1>3 DEF Becomes, Sound, Stepwise
  <2>2. IdleReader \in Readers /\ IdleReader.step = "idle" /\ IdleReader.steady = {}
    BY <2>1 DEF Sound, IdleReader
  <2> QED
    BY <2>1, <2>2 DEF Sound, Stepwise, WholeList, Pages, Requests
<1>4. CASE reader.step # "idle"
  <2>1. PICK r : r = reader'
    OBVIOUS
  <2>2. r = [reader EXCEPT !.steady = @ \cap (ToSet(list) \ rides), !.moved = @ \/ list # fleet]
    BY <1>4, <2>1 DEF Becomes
  <2>3. /\ r \in Readers /\ r.step = reader.step /\ r.list = reader.list
        /\ r.steady = reader.steady \cap (ToSet(list) \ rides) /\ r.twice = reader.twice
        /\ r.offset = reader.offset /\ r.total = reader.total
        /\ r.moved = (reader.moved \/ list # fleet) /\ r.cut = reader.cut
    BY <2>2 DEF Sound, Readers
  <2>4. Stepwise(reader)' /\ WholeList(reader)'
    BY <1>2, <1>4, <2>1, <2>3 DEF Sound, Stepwise, WholeList, StepsOf
  <2>5. ASSUME Undisturbed(r) PROVE list = fleet /\ Undisturbed(reader)
    BY <2>3, <2>5 DEF Undisturbed
  <2>6. Pages(r)
    BY <2>3, <2>5 DEF Sound, Pages, BeforeOffset
  <2>7. Pages(reader)'
    <3>1. CASE Undisturbed(r)
      <4>1. fleet' = fleet
        BY <1>1, <2>5, <3>1
      <4> QED
        BY <2>1, <2>6, <4>1 DEF Pages, Undisturbed, BeforeOffset, Last, Before
    <3>2. CASE ~Undisturbed(r)
      BY <2>1, <3>2 DEF Pages, Undisturbed
    <3> QED
      BY <3>1, <3>2
  <2> QED
    BY <2>1, <2>3, <2>4, <2>7 DEF Sound
<1> QED
  BY <1>3, <1>4

(* Only user 1 makes requests for vehicles, and only while they are asked   *)
(* for.                                                                     *)
CallerRule ==
    /\ kind # "trips" => \A u \in Users \ {1} : caller[u] = IdleCaller
    /\ reader.step \notin Requests /\ kind # "trips" => AllIdle

LEMMA BusyCaller ==
  ASSUME TypeOK, NEW u \in Users, ~At(u, "idle"), kind # "trips"
  PROVE  u = 1 /\ reader.step \in Requests
  BY DEF TypeOK, At, AllIdle, IdleCaller

LEMMA CallerGoes ==
  ASSUME TypeOK, NEW u \in Users, kind # "trips" => u = 1 /\ reader.step \in Requests,
         NEW x, Goes(u, x), UNCHANGED <<kind, reader>>
  PROVE  CallerRule'
<1>1. \A w \in Users \ {u} : caller'[w] = caller[w]
  BY DEF Goes, TypeOK, AuthTypeOK
<1> QED
  BY <1>1 DEF CallerRule, TypeOK

LEMMA IdleCallerIdles == IdleCaller.pc = "idle"
  BY DEF IdleCaller

LEMMA CallerReturns ==
  ASSUME TypeOK, NEW u \in Users, ~At(u, "idle"), Return(u), UNCHANGED kind
  PROVE  CallerRule'
<1>1. /\ \A w \in Users \ {u} : caller'[w] = caller[w]
      /\ caller'[u] = IdleCaller
  BY DEF Return, Goes, TypeOK, AuthTypeOK
<1>2. kind # "trips" => \A w \in Users : caller'[w] = IdleCaller
  BY <1>1, BusyCaller DEF TypeOK
<1>3. kind # "trips" => AllIdle'
  BY <1>2, IdleCallerIdles DEF AllIdle, At
<1> QED
  BY <1>2, <1>3 DEF CallerRule

LEMMA NobodyCalls == ASSUME \A u \in Users : caller'[u] = IdleCaller PROVE CallerRule'
<1>1. AllIdle'
  BY IdleCallerIdles DEF AllIdle, At
<1> QED
  BY <1>1 DEF CallerRule

(* What is left to show of a step.                                         *)
LEMMA TypeOKAfter ==
  ASSUME FreshInv', Sound(reader)', CallerRule', kind' \in Kinds, fleet' \in Seq(Vehicles),
         IsInjective(fleet'), riding' \subseteq Vehicles, changes' \in 0..MaxChanges,
         kind' = "trips" => reader' = IdleReader
  PROVE  TypeOK'
  BY DEF TypeOK, FreshInv, CallerRule, Sound

LEMMA UnmovedTypes ==
  ASSUME TypeOK, FreshInv', Sound(reader)', CallerRule', UNCHANGED <<kind, fleet, riding, changes>>,
         kind = "trips" => UNCHANGED reader
  PROVE  TypeOK'
  BY TypeOKAfter DEF TypeOK

LEMMA ReadSound ==
  ASSUME TypeOK, Sound(reader), NEW u \in Users, Answered(u),
         ReadTrips(u) \/ ReadOverview(u) \/ ReadVehicles(u) \/ ReadTypes(u) \/ ReadLastLink(u)
         \/ ReadDevices(u) \/ ReadStatus(u) \/ ReadLinkedPage(u)
  PROVE  Sound(reader)' /\ (kind = "trips" => UNCHANGED reader)
<1>0. UNCHANGED <<kind, fleet, riding>>
  BY DEF Answered
<1>1. PICK r : r = reader'
  OBVIOUS
<1>2. PageOf(kind) \in SUBSET Vehicles
  <2>1. reader.offset \in Nat /\ Limit \in Nat
    BY BoundTypes DEF Sound, Readers
  <2>2. Page(reader.offset, Limit) \subseteq ToSet(fleet) /\ ToSet(fleet) \subseteq Vehicles
    BY <2>1, PageFacts
  <2> QED
    BY <2>2 DEF PageOf
<1>3. CASE ReadTrips(u)
  BY <1>0, <1>3, UnreadSound DEF ReadTrips
<1>4. CASE ReadOverview(u)
  <2>1. kind = "full" /\ reader.step = "overview" /\ r = [reader EXCEPT !.step = "vehicles"]
    BY <1>1, <1>4 DEF ReadOverview, Reading, Reads
  <2>2. Sound([reader EXCEPT !.step = "vehicles"])
    BY <2>1, FullStepSound
  <2> QED
    BY <1>0, <1>1, <2>1, <2>2, Carried
<1>5. CASE ReadVehicles(u)
  <2>1. kind \in {"single", "full"} /\ reader.step = "vehicles"
    BY <1>5 DEF ReadVehicles, Reading
  <2>2. r = [reader EXCEPT !.step = IF kind = "full" THEN "types" ELSE "done", !.list = Offered]
    BY <1>1, <1>5 DEF ReadVehicles, Reads, Done
  <2>3. Sound([reader EXCEPT !.step = IF kind = "full" THEN "types" ELSE "done", !.list = Offered])
    BY <2>1, OneListSound
  <2> QED
    BY <1>0, <1>1, <2>1, <2>2, <2>3, Carried
<1>6. CASE ReadTypes(u)
  <2>1. kind = "full" /\ reader.step = "types"
    BY <1>6 DEF ReadTypes, Reading
  <2>2. r = Done(reader.list)
    BY <1>1, <1>6 DEF ReadTypes, Reads
  <2> QED
    BY <1>0, <1>1, <2>1, <2>2, TypesSound, Carried
<1>7. CASE ReadLastLink(u)
  <2>1. kind = "paged" /\ reader.step = "last"
    BY <1>7 DEF ReadLastLink, Reading
  <2>2. r = IF LastOffset = 0 THEN Done({}) ELSE [reader EXCEPT !.step = "vehicles", !.total = LastOffset]
    BY <1>1, <1>7 DEF ReadLastLink, Reads
  <2>3. Sound(r)
    BY <2>1, <2>2, NothingSound, LastLinkSound
  <2> QED
    BY <1>0, <1>1, <2>1, <2>3, Carried
<1>8. CASE ReadDevices(u)
  <2>1. kind \in {"pair", "paged"} /\ reader.step = "vehicles"
    BY <1>8 DEF ReadDevices, Reading
  <2>2. r = [reader EXCEPT !.step = "status", !.devices = @ \cup PageOf(kind)]
    BY <1>1, <1>8 DEF ReadDevices, Devices, Reads
  <2>3. Sound(r)
    BY <1>2, <2>1, <2>2, DevicesSound
  <2> QED
    BY <1>0, <1>1, <2>1, <2>3, Carried
<1>9. CASE ReadStatus(u)
  <2>1. kind \in {"pair", "paged"} /\ reader.step = "status" /\ Statuses(PageOf(kind), FALSE)
    BY <1>9 DEF ReadStatus, Reading
  <2>2. Sound(r)
    BY <1>1, <1>2, <2>1, StatusesSound
  <2> QED
    BY <1>0, <1>1, <2>1, <2>2, Carried
<1>10. CASE ReadLinkedPage(u)
  <2>1. kind = "linked" /\ reader.step = "vehicles"
    BY <1>10 DEF ReadLinkedPage, Reading
  <2>2. Sound(r)
    BY <1>1, <1>10, <2>1, LinkedSound DEF ReadLinkedPage
  <2> QED
    BY <1>0, <1>1, <2>1, <2>2, Carried
<1> QED
  BY <1>3, <1>4, <1>5, <1>6, <1>7, <1>8, <1>9, <1>10

LEMMA GivesUpSound ==
  ASSUME TypeOK, Sound(reader), GivesUp, UNCHANGED <<kind, fleet, riding>>
  PROVE  Sound(reader)' /\ (kind = "trips" => UNCHANGED reader)
<1>1. PICK r : r = reader'
  OBVIOUS
<1>2. CASE kind = "trips"
  BY <1>2, UnreadSound DEF GivesUp
<1>3. CASE Reading("vehicles", {"full"})
  <2>1. kind = "full" /\ reader.step = "vehicles" /\ r = [reader EXCEPT !.step = "types"]
    BY <1>1, <1>3 DEF GivesUp, Reading, Reads
  <2>2. Sound([reader EXCEPT !.step = "types"])
    BY <2>1, FullStepSound
  <2> QED
    BY <1>1, <2>1, <2>2, Carried
<1>4. CASE Reading("types", {"full"})
  <2>1. kind = "full" /\ reader.step = "types" /\ r = Done(reader.list)
    BY <1>1, <1>4 DEF GivesUp, Reading, Reads
  <2> QED
    BY <1>1, <2>1, TypesSound, Carried
<1>5. CASE Reading("vehicles", {"linked"})
  <2>1. kind = "linked" /\ reader.step = "vehicles" /\ r = [Done(reader.list) EXCEPT !.cut = TRUE]
    BY <1>1, <1>5 DEF GivesUp, Reading, Reads
  <2> QED
    BY <1>1, <2>1, CutSound, Carried
<1>6. CASE /\ kind # "trips" /\ ~Reading("vehicles", {"full"})
           /\ ~Reading("types", {"full"}) /\ ~Reading("vehicles", {"linked"})
  <2>1. r = Done({})
    BY <1>1, <1>6 DEF GivesUp, Reads
  <2> QED
    BY <1>1, <1>6, <2>1, NothingSound, Carried
<1> QED
  BY <1>2, <1>3, <1>4, <1>5, <1>6

LEMMA GarbledSound ==
  ASSUME TypeOK, Sound(reader), NEW u \in Users, AnswerGarbled(u)
  PROVE  Sound(reader)' /\ (kind = "trips" => UNCHANGED reader)
<1>0. UNCHANGED <<kind, fleet, riding>>
  BY DEF AnswerGarbled
<1>1. PICK r : r = reader'
  OBVIOUS
<1>2. CASE kind \in {"pair", "paged"} /\ reader.step = "vehicles"
  <2>1. r = [reader EXCEPT !.step = "status", !.devices = @ \cup {}]
    BY <1>1, <1>2 DEF AnswerGarbled, Devices, Reads
  <2>2. Sound(r)
    BY <1>2, <2>1, DevicesSound
  <2> QED
    BY <1>0, <1>1, <1>2, <2>2, Carried
<1>3. CASE kind \in {"pair", "paged"} /\ reader.step = "status"
  <2>1. Statuses({}, TRUE)
    BY <1>3 DEF AnswerGarbled
  <2>2. Sound(r)
    BY <1>1, <1>3, <2>1, StatusesSound
  <2> QED
    BY <1>0, <1>1, <1>3, <2>2, Carried
<1>4. CASE ~(kind \in {"pair", "paged"} /\ reader.step \in {"vehicles", "status"})
  BY <1>0, <1>4, GivesUpSound DEF AnswerGarbled
<1> QED
  BY <1>2, <1>3, <1>4

LEMMA UserDownloads ==
  ASSUME DownloadInv, FreshInv', NEW u \in Users, UserStep(u) \/ UserFault(u)
  PROVE  TypeOK' /\ Sound(reader)'
<1>0. TypeOK /\ Sound(reader) /\ IdleCaller.pc = "idle"
  BY IdleCallerIdles DEF DownloadInv
<1>1. CASE (AuthStep(u) \/ AuthFault(u)) /\ UNCHANGED <<kind, fleet, riding, reader, changes>>
  <2>1. ~At(u, "idle")
    BY <1>1 DEF AuthStep, AuthFault, Issue, StoreToken, StoreExpireTime, ReadToken, Refuse,
       FailToSign, Unreachable, ReadTornToken, At
  <2>2. \E x : Goes(u, x)
    BY <1>1 DEF AuthStep, AuthFault, Issue, StoreToken, StoreExpireTime, ReadToken, Refuse,
       FailToSign, Unreachable, ReadTornToken
  <2>3. CallerRule'
    BY <1>0, <1>1, <2>1, <2>2, BusyCaller, CallerGoes
  <2> QED
    BY <1>0, <1>1, <2>3, UnreadSound, UnmovedTypes
<1>2. CASE Ask(u)
  <2>1. (\E x : Goes(u, x)) /\ UNCHANGED <<kind, fleet, riding, reader, changes>>
        /\ (kind # "trips" => u = 1 /\ reader.step \in Requests)
    BY <1>2 DEF Ask, Begin
  <2>2. CallerRule'
    BY <1>0, <2>1, CallerGoes
  <2> QED
    BY <1>0, <2>1, <2>2, UnreadSound, UnmovedTypes
<1>3. ASSUME Return(u), At(u, "sent"), UNCHANGED <<kind, fleet, riding, changes>>,
             Sound(reader)', kind = "trips" => UNCHANGED reader
      PROVE  TypeOK'
  <2>1. CallerRule'
    BY <1>0, <1>3, CallerReturns DEF At
  <2> QED
    BY <1>0, <1>3, <2>1, UnmovedTypes
<1>4. CASE ReadTrips(u) \/ ReadOverview(u) \/ ReadVehicles(u) \/ ReadTypes(u) \/ ReadLastLink(u)
           \/ ReadDevices(u) \/ ReadStatus(u) \/ ReadLinkedPage(u)
  <2>1. Answered(u)
    BY <1>4 DEF ReadTrips, ReadOverview, ReadVehicles, ReadTypes, ReadLastLink, ReadDevices,
       ReadStatus, ReadLinkedPage
  <2>2. Sound(reader)' /\ (kind = "trips" => UNCHANGED reader)
    BY <1>0, <1>4, <2>1, ReadSound
  <2> QED
    BY <1>3, <2>1, <2>2 DEF Answered, Accepts
<1>5. CASE RequestRejected(u) \/ RequestFails(u)
  <2>1. GivesUp /\ Return(u) /\ At(u, "sent") /\ UNCHANGED <<kind, fleet, riding, changes>>
    BY <1>5 DEF RequestRejected, RequestFails, Rejects
  <2>2. Sound(reader)' /\ (kind = "trips" => UNCHANGED reader)
    BY <1>0, <2>1, GivesUpSound
  <2> QED
    BY <1>3, <2>1, <2>2
<1>6. CASE AnswerGarbled(u)
  <2>1. Return(u) /\ At(u, "sent") /\ UNCHANGED <<kind, fleet, riding, changes>>
    BY <1>6 DEF AnswerGarbled, Accepts
  <2>2. Sound(reader)' /\ (kind = "trips" => UNCHANGED reader)
    BY <1>0, <1>6, GarbledSound
  <2> QED
    BY <1>3, <2>1, <2>2
<1>7. CASE Restart(u)
  <2>1. (\A w \in Users : caller'[w] = IdleCaller) /\ reader' = IdleReader
        /\ UNCHANGED <<kind, fleet, riding, changes>>
    BY <1>7 DEF Restart, Die, PlaceMissing, WithoutToken, Reads
  <2>2. CallerRule'
    BY <2>1, NobodyCalls
  <2>3. Sound(IdleReader) /\ (kind = "trips" => reader = IdleReader)
    BY <1>0, IdleSound DEF TypeOK
  <2>4. Sound(reader)'
    BY <2>1, <2>3, Carried
  <2> QED
    BY <1>0, <2>1, <2>2, <2>3, <2>4, UnmovedTypes
<1> QED
  BY <1>1, <1>2, <1>4, <1>5, <1>6, <1>7 DEF UserStep, UserFault

LEMMA FleetChanges ==
  ASSUME DownloadInv, FreshInv',
         (\E v \in Vehicles : Ride(v) \/ Park(v) \/ \E i \in 1..(Len(fleet) + 1) : Join(v, i))
         \/ \E i \in DOMAIN fleet : Leave(i)
  PROVE  TypeOK' /\ Sound(reader)'
<1>0. /\ TypeOK /\ Sound(reader) /\ fleet \in Seq(Vehicles) /\ IsInjective(fleet)
      /\ riding \subseteq Vehicles /\ ToSet(fleet) \subseteq Vehicles
  BY PageFacts DEF DownloadInv, TypeOK
<1>1. PICK list \in Seq(Vehicles), rides \in SUBSET Vehicles :
         Changes /\ Becomes(list, rides) /\ IsInjective(list) /\ kind # "trips"
  <2>1. ASSUME NEW v \in Vehicles, Ride(v) \/ Park(v)
        PROVE  \E rides \in SUBSET Vehicles : Changes /\ Becomes(fleet, rides) /\ kind # "trips"
    BY <1>0, <2>1 DEF Ride, Park
  <2>2. ASSUME NEW v \in Vehicles, NEW i \in 1..(Len(fleet) + 1), Join(v, i)
        PROVE  /\ Changes /\ Becomes(InsertAt(fleet, i, v), riding) /\ kind # "trips"
               /\ InsertAt(fleet, i, v) \in Seq(Vehicles) /\ IsInjective(InsertAt(fleet, i, v))
    BY <1>0, <2>2, InsertedFleet DEF Join
  <2>3. ASSUME NEW i \in DOMAIN fleet, Leave(i)
        PROVE  /\ Changes /\ Becomes(RemoveAt(fleet, i), riding \ {fleet[i]}) /\ kind # "trips"
               /\ RemoveAt(fleet, i) \in Seq(Vehicles) /\ IsInjective(RemoveAt(fleet, i))
               /\ riding \ {fleet[i]} \subseteq Vehicles
    BY <1>0, <2>3, RemovedFleet DEF Leave
  <2> QED
    BY <1>0, <2>1, <2>2, <2>3
<1>2. /\ UNCHANGED <<kind, caller>> /\ changes' \in 0..MaxChanges
      /\ fleet' = list /\ riding' = rides
  BY <1>0, <1>1, BoundTypes DEF Changes, Becomes, authVars, TypeOK
<1>3. Sound(reader)'
  BY <1>0, <1>1, <1>2, BecomesSound
<1>4. reader.step = "idle" \/ reader'.step = reader.step
  BY <1>0, <1>1 DEF Becomes, Sound, Readers
<1>5. reader.step = "idle" => reader' = reader
  BY <1>1 DEF Becomes
<1>6. CallerRule'
  BY <1>0, <1>2, <1>4, <1>5 DEF CallerRule, AllIdle, At, TypeOK
<1>7. kind' \in Kinds /\ kind' # "trips"
  BY <1>0, <1>1, <1>2 DEF TypeOK
<1> QED
  BY <1>1, <1>2, <1>3, <1>6, <1>7, TypeOKAfter

LEMMA NextDownloads ==
  ASSUME DownloadInv, [Next]_vars
  PROVE  DownloadInv'
<1>0. TypeOK /\ Sound(reader) /\ FreshInv'
  BY NextIsAuthNext, AuthNextFresh DEF DownloadInv
<1>1. SUFFICES TypeOK' /\ Sound(reader)'
  BY <1>0 DEF DownloadInv
<1>2. CASE StartDownload
  <2>1. /\ reader' = [IdleReader EXCEPT !.step = FirstStep, !.steady = Offered] /\ kind # "trips"
        /\ reader.step = "idle" /\ UNCHANGED <<caller, kind, fleet, riding, changes>>
    BY <1>2 DEF StartDownload, Reads, authVars
  <2>2. Sound(reader)'
    BY <1>0, <2>1, StartSound, Carried
  <2>3. AllIdle
    BY <1>0, <2>1 DEF TypeOK, Requests
  <2>4. CallerRule'
    BY <1>0, <2>1, <2>3 DEF CallerRule, AllIdle, At, TypeOK
  <2> QED
    BY <1>0, <2>1, <2>2, <2>4, UnmovedTypes
<1>3. CASE Deliver
  <2>1. /\ reader' = IdleReader /\ reader.step = "done"
        /\ UNCHANGED <<caller, kind, fleet, riding, changes>>
    BY <1>3 DEF Deliver, Reads, authVars
  <2>2. Sound(reader)'
    BY <1>0, <2>1, IdleSound, Carried
  <2>3. (kind # "trips" => AllIdle) /\ (kind = "trips" => reader = IdleReader)
    BY <1>0, <2>1 DEF TypeOK, Requests
  <2>4. CallerRule'
    BY <1>0, <2>1, <2>3 DEF CallerRule, AllIdle, At, TypeOK
  <2> QED
    BY <1>0, <2>1, <2>2, <2>3, <2>4, UnmovedTypes
<1>4. CASE LoadFeeds
  <2>1. /\ UNCHANGED <<kind, fleet, riding, reader, changes>>
        /\ \A u \in Users : caller'[u] = IdleCaller
    BY <1>4 DEF LoadFeeds, Reload, WithoutToken
  <2> QED
    BY <1>0, <2>1, NobodyCalls, UnreadSound, UnmovedTypes
<1>5. ASSUME NEW u \in Users, UserStep(u) \/ UserFault(u)
      PROVE  TypeOK' /\ Sound(reader)'
  BY <1>0, <1>5, UserDownloads
<1>6. CASE Revoke /\ UNCHANGED <<kind, fleet, riding, reader, changes>>
  <2>1. CallerRule'
    BY <1>0, <1>6 DEF CallerRule, AllIdle, At, TypeOK, Revoke
  <2> QED
    BY <1>0, <1>6, <2>1, UnreadSound, UnmovedTypes
<1>7. CASE Tick /\ UNCHANGED <<kind, fleet, riding, reader, changes>>
  <2>1. ASSUME NEW u \in Users, caller[u] = IdleCaller PROVE caller'[u] = IdleCaller
    <3>1. IdleCaller.answer = -1 /\ IdleCaller.carried = -1 /\ ~UnderWay(u)
      BY <2>1 DEF IdleCaller, None, UnderWay, At
    <3>2. caller'[u] = [IdleCaller EXCEPT !.answer = Earlier(@), !.carried = Earlier(@)]
      BY <1>7, <2>1, <3>1 DEF Tick, IdleCaller
    <3>3. Earlier(-1) = -1
      BY DEF Earlier
    <3> QED
      BY <3>2, <3>3 DEF IdleCaller, None
  <2>2. \A u \in Users : caller'[u].pc = caller[u].pc
    BY <1>0, <1>7, CallerType DEF Tick, Callers, DownloadInv
  <2>3. CallerRule'
    BY <1>0, <1>7, <2>1, <2>2 DEF CallerRule, AllIdle, At, TypeOK
  <2> QED
    BY <1>0, <1>7, <2>3, UnreadSound, UnmovedTypes
<1>8. CASE UNCHANGED vars
  <2>1. UNCHANGED <<kind, fleet, riding, reader, changes, caller>>
    BY <1>8 DEF vars, authVars
  <2>2. CallerRule'
    BY <1>0, <2>1 DEF CallerRule, AllIdle, At, TypeOK
  <2> QED
    BY <1>0, <2>1, <2>2, UnreadSound, UnmovedTypes
<1> QED
  BY <1>0, <1>2, <1>3, <1>4, <1>5, <1>6, <1>7, <1>8, FleetChanges DEF Next

LEMMA InitDownloads == Init => DownloadInv
<1> SUFFICES ASSUME Init PROVE DownloadInv
  OBVIOUS
<1>1. PICK s \in Setups : kind = s.kind /\ AuthInit(s.scheme, s.life)
  BY DEF Init
<1>2. FreshInv /\ kind \in Kinds /\ caller = [u \in Users |-> IdleCaller]
  BY <1>1, InitFresh, FeedReaderAssumption DEF AuthInit
<1>3. fleet \in Seq(Vehicles) /\ IsInjective(fleet)
  <2>1. CASE kind = "trips"
    <3>1. fleet = <<>>
      BY <2>1 DEF Init
    <3> QED
      BY <3>1 DEF IsInjective
  <2>2. CASE kind # "trips"
    BY <2>2, FeedReaderAssumption DEF Init
  <2> QED
    BY <2>1, <2>2
<1>4. reader = IdleReader /\ reader.step = "idle" /\ AllIdle
  BY <1>2, IdleCallerIdles DEF Init, IdleReader, AllIdle, At
<1>5. reader \in Readers
  BY <1>4, BoundTypes DEF IdleReader, Readers, Steps
<1>6. TypeOK
  BY <1>2, <1>3, <1>4, <1>5, BoundTypes DEF TypeOK, FreshInv, Init
<1> QED
  BY <1>2, <1>4, <1>6, IdleSound DEF DownloadInv

LEMMA AlwaysDownloads == Spec => []DownloadInv
<1>1. DownloadInv /\ [Next]_vars => DownloadInv'
  BY NextDownloads
<1> QED
  BY <1>1, InitDownloads, PTL DEF Spec

(* Every reader keeps to its steps, links are followed no deeper than       *)
(* allowed, and only one request for vehicles is under way (feed/mds).      *)
THEOREM ReaderTypeCorrect == Spec => []TypeOK
<1>1. DownloadInv => TypeOK
  BY DEF DownloadInv
<1> QED
  BY <1>1, AlwaysDownloads, PTL

(* For any fleet, page size and number of changes: a list that is not empty *)
(* misses no vehicle that was on offer all the time, and has none twice,    *)
(* but in the ways that CompleteDownload names (feed/mds-v2, feed/mds).     *)
THEOREM DownloadsAreComplete == Spec => []CompleteDownload
<1>1. DownloadInv => CompleteDownload
  <2> SUFFICES ASSUME Sound(reader), TypeOK, reader.step = "done", reader.list # {}, ~reader.cut,
                      ~(reader.moved /\ kind \in {"paged", "linked"})
               PROVE  reader.steady \ reader.list \subseteq Overlooked /\ ~reader.twice
    BY DEF DownloadInv, CompleteDownload
  <2>1. CASE kind \in {"single", "full", "pair"}
    BY <2>1 DEF Sound, WholeList
  <2>2. CASE kind \in {"paged", "linked"}
    BY <2>2 DEF Sound, Pages, Undisturbed, Overlooked
  <2>3. CASE kind = "trips"
    BY <2>3 DEF TypeOK, IdleReader
  <2> QED
    BY <2>1, <2>2, <2>3 DEF TypeOK, Kinds
<1> QED
  BY <1>1, AlwaysDownloads, PTL
=============================================================================

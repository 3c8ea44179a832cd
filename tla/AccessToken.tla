---------------------------- MODULE AccessToken ----------------------------
(***************************************************************************)
(* The cached access token of a feed and the requests that carry it:       *)
(* feed/auth and doRequest of feed/http_import.go. GetAccessToken asks for *)
(* a new token when ExpireTime has passed, and stores the token and then   *)
(* ExpireTime, a few seconds before the token's end. The callers share the *)
(* fields of the feed without a lock. Time is counted down: a clock value  *)
(* is what is left until then.                                             *)
(***************************************************************************)
EXTENDS Integers

CONSTANTS
    Users,      \* goroutines that make requests for the feed
    Margin,     \* 5 s: how long before its end a token is replaced
    MaxDelay,   \* bound: how long a call takes from the issue of a token or
                \* the check of its age to the end of its next stretch
    MaxFaults   \* bound: errors of servers, of connections and of races

(* The margin is enough for three stretches: the answer with the token, the *)
(* one of another user in between, and the request.                         *)
ASSUME AccessTokenAssumption ==
    /\ Margin \in Nat /\ MaxDelay \in Nat /\ MaxFaults \in Nat
    /\ 3 * MaxDelay < Margin

VARIABLES
    scheme,     \* how the feed authenticates
    life,       \* how long its tokens are valid, the expires_in
    token,      \* AccessToken: how long it is valid still, None when it is ""
    expire,     \* time until ExpireTime, -1 when that has passed
    caller,     \* the request each user makes
    faults      \* counter for the bound

authVars == <<scheme, life, token, expire, caller, faults>>

(* No header or a fixed one; OAuth 2 with or without basic auth; Moveyou,   *)
(* whose errors are handled differently; Dott, which is signed locally.     *)
Schemes == {"token", "oauth2", "moveyou", "dott"}

(* "", or no token of this server.                                         *)
None == -1

Validity == {None} \cup 0..life

Callers == [
    pc      : {"idle", "ask", "answered", "stored", "read", "sent"},
    answer  : Validity,             \* what the token server has answered
    carried : Validity,             \* the token in the request
    blank   : BOOLEAN,              \* the token could not be signed
    kept    : BOOLEAN,              \* history: a refresh failed, the old one is kept
    waited  : 0..MaxDelay]          \* since the stretch began

IdleCaller == [pc |-> "idle", answer |-> None, carried |-> None,
               blank |-> FALSE, kept |-> FALSE, waited |-> 0]

AuthTypeOK ==
    /\ scheme \in Schemes /\ life \in Nat
    /\ token \in Validity
    /\ expire = -1 \/ expire \in 0..(life - Margin)
    /\ caller \in [Users -> Callers]
    /\ faults \in 0..MaxFaults
    /\ scheme = "token" => token = None /\ expire = -1 /\ \A u \in Users : caller[u].pc \in {"idle", "sent"}

AuthInit(s, l) ==
    /\ scheme = s /\ life = l
    /\ token = None /\ expire = -1
    /\ caller = [u \in Users |-> IdleCaller]
    /\ faults = 0

-----------------------------------------------------------------------------
At(u, pc) == caller[u].pc = pc
AllIdle == \A u \in Users : At(u, "idle")
Goes(u, state) == caller' = [caller EXCEPT ![u] = state]
Fault == faults < MaxFaults /\ faults' = faults + 1

(* Another user is assigning the field that u reads.                       *)
Writing(u, pc) == \E other \in Users \ {u} : At(other, pc)

(* Mutant: only a missing token is replaced. *)
IsExpiredWhenMissing == token = None

IsExpired == expire < 0

(* GetAccessToken. A comparison with an ExpireTime that is being assigned   *)
(* comes out either way.                                                    *)
Begin(u) ==
    /\ At(u, "idle")
    /\ \/ scheme = "token" /\ Goes(u, [IdleCaller EXCEPT !.pc = "sent"])
       \/ /\ scheme # "token"
          /\ IsExpired \/ Writing(u, "stored")
          /\ Goes(u, [IdleCaller EXCEPT !.pc = "ask"])
       \/ /\ scheme # "token"
          /\ ~IsExpired \/ Writing(u, "stored")
          /\ Goes(u, [IdleCaller EXCEPT !.pc = "read"])
    /\ UNCHANGED <<scheme, life, token, expire, faults>>

(* refreshToken: the server issues a token, or Dott's is signed,           *)
Issue(u) ==
    /\ At(u, "ask")
    /\ Goes(u, [caller[u] EXCEPT !.pc = "answered", !.answer = life])
    /\ UNCHANGED <<scheme, life, token, expire, faults>>

(* or it answers with an error, which is decoded as an answer without a     *)
(* token and without an expires_in,                                         *)
Refuse(u) ==
    /\ At(u, "ask") /\ scheme # "dott"
    /\ Fault
    /\ Goes(u, [caller[u] EXCEPT !.pc = "answered", !.answer = None])
    /\ UNCHANGED <<scheme, life, token, expire>>

(* or the signature fails, and "" is stored for as long as the token was    *)
(* meant to last,                                                           *)
FailToSign(u) ==
    /\ At(u, "ask") /\ scheme = "dott"
    /\ Fault
    /\ Goes(u, [caller[u] EXCEPT !.pc = "answered", !.answer = life, !.blank = TRUE])
    /\ UNCHANGED <<scheme, life, token, expire>>

(* or it cannot be reached, which leaves everything as it was.             *)
Unreachable(u) ==
    /\ At(u, "ask") /\ scheme = "moveyou"
    /\ Fault
    /\ Goes(u, [caller[u] EXCEPT !.pc = "read", !.kept = TRUE])
    /\ UNCHANGED <<scheme, life, token, expire>>

StoreToken(u) ==
    /\ At(u, "answered")
    /\ token' = IF caller[u].blank THEN None ELSE caller[u].answer
    /\ Goes(u, [caller[u] EXCEPT !.pc = "stored"])
    /\ UNCHANGED <<scheme, life, expire, faults>>

(* Dott counts from the signature, the others from now.                    *)
ValidFor(answer) == IF scheme = "dott" THEN answer ELSE life

(* Mutant: the token is used to its very end. *)
ExpireTimeAtTheEnd(answer) == IF answer = None THEN -1 ELSE ValidFor(answer)

ExpireTime(answer) ==
    IF answer = None \/ ValidFor(answer) < Margin THEN -1 ELSE ValidFor(answer) - Margin

StoreExpireTime(u) ==
    /\ At(u, "stored")
    /\ expire' = ExpireTime(caller[u].answer)
    /\ Goes(u, [caller[u] EXCEPT !.pc = "read", !.answer = None, !.blank = FALSE, !.waited = 0])
    /\ UNCHANGED <<scheme, life, token, faults>>

(* addAuth: the request leaves with the token there is by then, which the   *)
(* other user may be assigning: half of the one and half of the other.      *)
ReadToken(u) ==
    /\ At(u, "read")
    /\ Goes(u, [caller[u] EXCEPT !.pc = "sent", !.carried = token])
    /\ UNCHANGED <<scheme, life, token, expire, faults>>

ReadTornToken(u) ==
    /\ At(u, "read") /\ Writing(u, "answered")
    /\ Fault
    /\ Goes(u, [caller[u] EXCEPT !.pc = "sent", !.carried = None])
    /\ UNCHANGED <<scheme, life, token, expire>>

(* The provider answers the request, and lets it in or not. *)
Accepts(u) == At(u, "sent") /\ (scheme = "token" \/ caller[u].carried > 0)
Rejects(u) == At(u, "sent") /\ ~(scheme = "token" \/ caller[u].carried > 0)

Return(u) == Goes(u, IdleCaller) /\ UNCHANGED <<scheme, life, token, expire>>

-----------------------------------------------------------------------------
AuthStep(u) == Issue(u) \/ StoreToken(u) \/ StoreExpireTime(u) \/ ReadToken(u)
AuthFault(u) == Refuse(u) \/ FailToSign(u) \/ Unreachable(u) \/ ReadTornToken(u)

(* The token server takes back what it has issued. *)
Revoke ==
    /\ token # None
    /\ Fault
    /\ token' = None
    /\ UNCHANGED <<scheme, life, expire, caller>>

(* Without a response there is no Body to close, half a string has its      *)
(* length from one token and its bytes from another, and a key of Dott that *)
(* cannot be read is fatal.                                                 *)
Panics(u) == \/ At(u, "ask") /\ scheme \in {"oauth2", "dott"}
             \/ At(u, "read") /\ Writing(u, "answered")

WithoutToken == /\ token' = None /\ expire' = -1
                /\ caller' = [u \in Users |-> IdleCaller]
                /\ UNCHANGED <<scheme, life>>

(* The panic ends the process, which is started again. *)
Die(u) == Panics(u) /\ Fault /\ WithoutToken

(* LoadFeeds does not hand on the token of Dott, and none of a feed that    *)
(* was switched off in between; a job that is started again has none.       *)
Reload == /\ AllIdle /\ token # None /\ WithoutToken /\ UNCHANGED faults

Earlier(time) == IF time > 0 THEN time - 1 ELSE time
UnderWay(u) == ~At(u, "idle") /\ ~At(u, "ask")

(* One of the calls goes on before it has taken longer than MaxDelay. *)
Tick ==
    /\ scheme # "token"
    /\ \A u \in Users : UnderWay(u) => caller[u].waited < MaxDelay
    /\ token' = Earlier(token)
    /\ expire' = IF expire < 0 THEN expire ELSE expire - 1
    /\ caller' = [u \in Users |->
                     [caller[u] EXCEPT !.answer = Earlier(@), !.carried = Earlier(@),
                                       !.waited = IF UnderWay(u) THEN @ + 1 ELSE @]]
    /\ UNCHANGED <<scheme, life, faults>>

-----------------------------------------------------------------------------
(* No request is under way with a token that has come to its end, though    *)
(* the token is older than ExpireTime says and may be another one than was  *)
(* checked: the margin makes up for the time that both take and for the     *)
(* order in which two users store theirs. The exception is a feed that      *)
(* keeps its token because the server cannot be reached.                    *)
FreshToken ==
    \A u \in Users : At(u, "sent") /\ ~caller[u].kept => caller[u].carried # 0
=============================================================================

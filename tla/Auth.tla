-------------------------------- MODULE Auth --------------------------------
(***************************************************************************)
(* auth.py and auth_store.py: who a request is made by.  A browser holds a *)
(* signed session cookie and, if its user asked to be remembered, a        *)
(* single-use token; the server holds one row per account and one per      *)
(* token.  Requests run on threads: each reads and writes the database in  *)
(* separate transactions, and its answer, which sets the cookies, arrives  *)
(* later or never.  One account stands for all: no statement touches rows  *)
(* of another.                                                             *)
(*                                                                         *)
(* Times are the moments requests and commands begin (their `now`), which  *)
(* are all different.  A change of password, a reset and a disabled        *)
(* account are committed later, after a slow hash or the wait for the      *)
(* database, with the `now` they began with as the new epoch.  A cookie    *)
(* remembers, besides what it holds, the time of the login it descends     *)
(* from (root) and whether it was renewed while a change that would have   *)
(* ended it was under way (raced).                                         *)
(***************************************************************************)
EXTENDS Naturals, Sequences

CONSTANTS Devices,      \* browsers
          Slots,        \* requests and commands that may be under way at once
          MaxClock,     \* bound: how many requests and commands begin
          Losses        \* whether an answer may be lost

ASSUME AuthAssumption == MaxClock \in Nat /\ Losses \in BOOLEAN

VARIABLES clock,        \* the time
          account,      \* [epoch, disabled]
          tokens,       \* rows of device_tokens: [created, ended, root, raced]
          jar,          \* device -> its cookies [session, remember]
          reqs,         \* slot -> the request or command in it
          disabledAt    \* history: the time when the account was last disabled
vars == <<clock, account, tokens, jar, reqs, disabledAt>>

NoSession == [iat |-> 0, root |-> 0, raced |-> FALSE]
NoToken == 0                    \* otherwise a position in tokens
NoCookies == [session |-> NoSession, remember |-> NoToken]
Free == [step |-> "free"]
Kinds == {"gated", "self", "device", "password", "login", "login_remember", "logout"}
Commands == {"reset", "disable"}

-----------------------------------------------------------------------------
\* Mutant: a session is never compared with the epoch.
SessionOKAnyEpoch(session) == session.iat # 0 /\ ~account.disabled

(* _read_session and the check of _authenticate; consume_device_token.      *)
SessionOK(session) ==
  session.iat # 0 /\ ~account.disabled /\ session.iat >= account.epoch
TokenOK(t) ==
  t # NoToken /\ tokens[t].ended = "" /\ ~account.disabled /\ tokens[t].created >= account.epoch

(* set_password, set_disabled: a new epoch, and no token left.              *)
EndAll(ts) == [t \in DOMAIN ts |-> [ts[t] EXCEPT !.ended = IF @ = "" THEN "signed out" ELSE @]]

(* A change of password, a reset or a disabling that has begun and is not   *)
(* committed.                                                               *)
Changing == {s \in Slots : \/ reqs[s].step = "commit"
                           \/ reqs[s].step \in {"auth", "rotate", "verify"} /\ reqs[s].kind = "password"}
Raced(r) == \E s \in Changing : reqs[s].now < r.now

-----------------------------------------------------------------------------
Init ==
  /\ clock = 0
  /\ account = [epoch |-> 0, disabled |-> FALSE]
  /\ tokens = <<>>
  /\ jar = [d \in Devices |-> NoCookies]
  /\ reqs = [s \in Slots |-> Free]
  /\ disabledAt = 0

Send(s, d, kind) ==
  /\ reqs[s] = Free /\ clock < MaxClock
  /\ clock' = clock + 1
  /\ reqs' = [reqs EXCEPT ![s] = [dev |-> d, kind |-> kind, now |-> clock + 1, sent |-> jar[d],
                                  step |-> IF kind \in {"login", "login_remember"} THEN "login"
                                           ELSE IF kind = "logout" THEN "logout" ELSE "auth",
                                  via |-> "", raced |-> FALSE, answer |-> "", set |-> NoCookies]]
  /\ UNCHANGED <<account, tokens, jar, disabledAt>>

Answer(r, answer, set) == [r EXCEPT !.step = "done", !.answer = answer, !.set = set]

(* Past the gate.  gate_and_harden renews the cookies of the routes behind  *)
(* it; the /auth routes are public to it, authenticate themselves and renew *)
(* nothing.                                                                 *)
Admit(r, via, cookies) ==
  CASE r.kind = "gated" -> [Answer(r, "ok", cookies) EXCEPT !.via = via]
    [] r.kind = "self" -> [Answer(r, "ok", NoCookies) EXCEPT !.via = via]
    [] r.kind = "password" -> [r EXCEPT !.via = via, !.step = "verify"]
    [] OTHER -> [r EXCEPT !.via = via, !.step = "revoke"]

AuthBySession(s) ==
  /\ reqs[s].step = "auth" /\ SessionOK(reqs[s].sent.session)
  /\ reqs' = [reqs EXCEPT ![s] = Admit(@, "session", [NoCookies EXCEPT !.session = reqs[s].sent.session])]
  /\ UNCHANGED <<clock, account, tokens, jar, disabledAt>>

(* The token is read in one transaction and rotated in the next.            *)
CheckToken(s) ==
  /\ reqs[s].step = "auth" /\ ~SessionOK(reqs[s].sent.session)
  /\ TokenOK(reqs[s].sent.remember)
  /\ reqs' = [reqs EXCEPT ![s].step = "rotate", ![s].via = "token",
                          ![s].raced = tokens[reqs[s].sent.remember].raced \/ Raced(reqs[s])]
  /\ UNCHANGED <<clock, account, tokens, jar, disabledAt>>

Rotate(s) ==
  LET r == reqs[s]
      old == tokens[r.sent.remember]
  IN /\ r.step = "rotate"
     /\ tokens' = Append([tokens EXCEPT ![r.sent.remember].ended = IF @ = "" THEN "rotated" ELSE @],
                         [created |-> r.now, ended |-> "", root |-> old.root, raced |-> r.raced])
     /\ reqs' = [reqs EXCEPT ![s] =
          Admit(r, "token", [session |-> [iat |-> r.now, root |-> old.root, raced |-> r.raced],
                             remember |-> Len(tokens) + 1])]
     /\ UNCHANGED <<clock, account, jar, disabledAt>>

Refuse(s) ==
  /\ reqs[s].step = "auth"
  /\ ~SessionOK(reqs[s].sent.session) /\ ~TokenOK(reqs[s].sent.remember)
  /\ reqs' = [reqs EXCEPT ![s] = Answer(@, "unauthenticated", NoCookies)]
  /\ UNCHANGED <<clock, account, tokens, jar, disabledAt>>

-----------------------------------------------------------------------------
(* change_password.  The old password is verified slowly, then everybody    *)
(* is signed out and the caller gets a new session.                         *)
ChangePassword(s) ==
  /\ reqs[s].step = "verify"
  /\ account' = [account EXCEPT !.epoch = reqs[s].now]
  /\ tokens' = EndAll(tokens)
  /\ reqs' = [reqs EXCEPT ![s] =
       Answer(@, "ok", [NoCookies EXCEPT !.session = [iat |-> reqs[s].now, root |-> reqs[s].now, raced |-> FALSE]])]
  /\ UNCHANGED <<clock, jar, disabledAt>>

WrongPassword(s) ==
  /\ reqs[s].step = "verify"
  /\ reqs' = [reqs EXCEPT ![s] = Answer(@, "refused", NoCookies)]
  /\ UNCHANGED <<clock, account, tokens, jar, disabledAt>>

\* Mutant: a login does not ask whether the account is disabled.
ReadAccountAny(s) ==
  /\ reqs[s].step = "login"
  /\ reqs' = [reqs EXCEPT ![s].step = "issue"]
  /\ UNCHANGED <<clock, account, tokens, jar, disabledAt>>

(* login: the account is read, the password verified, the cookies issued.   *)
ReadAccount(s) ==
  /\ reqs[s].step = "login"
  /\ reqs' = [reqs EXCEPT ![s] = IF account.disabled THEN Answer(@, "refused", NoCookies)
                                 ELSE [@ EXCEPT !.step = "issue"]]
  /\ UNCHANGED <<clock, account, tokens, jar, disabledAt>>

Issue(s) ==
  LET r == reqs[s]
      remember == r.kind = "login_remember"
  IN /\ r.step = "issue"
     /\ tokens' = IF ~remember THEN tokens
                  ELSE Append(tokens, [created |-> r.now, ended |-> "", root |-> r.now, raced |-> FALSE])
     /\ reqs' = [reqs EXCEPT ![s] =
          Answer(r, "ok", [session |-> [iat |-> r.now, root |-> r.now, raced |-> FALSE],
                           remember |-> IF remember THEN Len(tokens) + 1 ELSE NoToken])]
     /\ UNCHANGED <<clock, account, jar, disabledAt>>

Logout(s) ==
  LET t == reqs[s].sent.remember
  IN /\ reqs[s].step = "logout"
     /\ tokens' = IF t = NoToken THEN tokens
                  ELSE [tokens EXCEPT ![t].ended = IF @ = "" THEN "signed out" ELSE @]
     /\ reqs' = [reqs EXCEPT ![s] = Answer(@, "bye", NoCookies)]
     /\ UNCHANGED <<clock, account, jar, disabledAt>>

(* revoke_device: any device of the account.                                *)
RevokeDevice(s, t) ==
  /\ reqs[s].step = "revoke"
  /\ tokens' = [tokens EXCEPT ![t].ended = IF @ = "" THEN "signed out" ELSE @]
  /\ reqs' = [reqs EXCEPT ![s] = Answer(@, "ok", NoCookies)]
  /\ UNCHANGED <<clock, account, jar, disabledAt>>

-----------------------------------------------------------------------------
(* The answer reaches the browser, which keeps the cookies it carries; a    *)
(* logout clears both.                                                      *)
Deliver(s) ==
  LET r == reqs[s]
      held == jar[r.dev]
      kept == [session |-> IF r.set.session = NoSession THEN held.session ELSE r.set.session,
               remember |-> IF r.set.remember = NoToken THEN held.remember ELSE r.set.remember]
  IN /\ r.step = "done"
     /\ jar' = [jar EXCEPT ![r.dev] = IF r.answer = "bye" THEN NoCookies ELSE kept]
     /\ reqs' = [reqs EXCEPT ![s] = Free]
     /\ UNCHANGED <<clock, account, tokens, disabledAt>>

LoseAnswer(s) ==
  /\ Losses /\ reqs[s].step = "done"
  /\ reqs' = [reqs EXCEPT ![s] = Free]
  /\ UNCHANGED <<clock, account, tokens, jar, disabledAt>>

(* The session outlives its idle window or its cap.                         *)
IdleOut(d) ==
  /\ jar[d].session # NoSession
  /\ jar' = [jar EXCEPT ![d].session = NoSession]
  /\ UNCHANGED <<clock, account, tokens, reqs, disabledAt>>

-----------------------------------------------------------------------------
(* manage_users.py.  A command takes its `now` first, then hashes the new   *)
(* password or waits for the database, and commits in one transaction.      *)
Command(s, kind) ==
  /\ reqs[s] = Free /\ clock < MaxClock
  /\ clock' = clock + 1
  /\ reqs' = [reqs EXCEPT ![s] = [dev |-> "console", kind |-> kind, now |-> clock + 1, sent |-> NoCookies,
                                  step |-> "commit", via |-> "", raced |-> FALSE, answer |-> "",
                                  set |-> NoCookies]]
  /\ UNCHANGED <<account, tokens, jar, disabledAt>>

ResetPassword(s) ==
  /\ reqs[s].step = "commit" /\ reqs[s].kind = "reset"
  /\ account' = [account EXCEPT !.epoch = reqs[s].now]
  /\ tokens' = EndAll(tokens)
  /\ reqs' = [reqs EXCEPT ![s] = Free]
  /\ UNCHANGED <<clock, jar, disabledAt>>

Disable(s) ==
  /\ reqs[s].step = "commit" /\ reqs[s].kind = "disable"
  /\ account' = [epoch |-> reqs[s].now, disabled |-> TRUE]
  /\ tokens' = EndAll(tokens)
  /\ reqs' = [reqs EXCEPT ![s] = Free]
  /\ disabledAt' = clock
  /\ UNCHANGED <<clock, jar>>

Enable ==
  /\ account.disabled
  /\ account' = [account EXCEPT !.disabled = FALSE]
  /\ UNCHANGED <<clock, tokens, jar, reqs, disabledAt>>

Next ==
  \/ \E s \in Slots :
       \/ \E d \in Devices, kind \in Kinds : Send(s, d, kind)
       \/ AuthBySession(s) \/ CheckToken(s) \/ Rotate(s) \/ Refuse(s)
       \/ ChangePassword(s) \/ WrongPassword(s) \/ ReadAccount(s) \/ Issue(s) \/ Logout(s)
       \/ \E t \in DOMAIN tokens : RevokeDevice(s, t)
       \/ Deliver(s) \/ LoseAnswer(s)
       \/ \E kind \in Commands : Command(s, kind)
       \/ ResetPassword(s) \/ Disable(s)
  \/ \E d \in Devices : IdleOut(d)
  \/ Enable

Spec == Init /\ [][Next]_vars

-----------------------------------------------------------------------------
(* What a request was admitted with.                                        *)
Credential(r, via) == IF via = "session" THEN r.sent.session ELSE tokens[r.sent.remember]
Admitted(s) == reqs[s].step = "auth" /\ reqs'[s].step \in {"done", "rotate", "verify", "revoke"}
                 /\ reqs'[s].answer # "unauthenticated"

(* Signed out means signed out: once a change of password, a reset or a      *)
(* disabled account has signed everybody out, no request is admitted on the  *)
(* strength of an earlier login, however its cookies were renewed since and  *)
(* also after the account is enabled again (the epoch of auth_store.py).     *)
(* `Earlier` is before the change in force began.  Exempt is what descends   *)
(* from a token rotated while such a change was under way: it is newer than  *)
(* the epoch the change writes when it is committed.                         *)
SignedOutForGood ==
  [][\A s \in Slots : Admitted(s) =>
       LET c == Credential(reqs[s], reqs'[s].via) IN c.root >= account.epoch \/ c.raced]_vars

(* A disabled account serves nobody: whatever is still answered was begun    *)
(* before it was disabled (auth.py checks the row on every request).         *)
DisabledIsOut ==
  account.disabled => \A s \in Slots :
    reqs[s].step = "done" /\ reqs[s].answer = "ok" => reqs[s].now <= disabledAt

(* docs/AUTH.md:96-98: "Disabling a user or changing a password bumps        *)
(* `session_epoch`, which **immediately invalidates** all of that user's     *)
(* existing cookies": when the epoch moves, no browser holds a session that  *)
(* is still good.                                                            *)
SignedOutAtOnce ==
  [][account'.epoch # account.epoch => \A d \in Devices : ~SessionOK(jar[d].session)']_vars
=============================================================================

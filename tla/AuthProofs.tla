------------------------------ MODULE AuthProofs ------------------------------
(***************************************************************************)
(* Signing in and out, for any number of browsers, requests under way and  *)
(* answers lost: once everybody is signed out, no earlier login lets       *)
(* anybody in, and a disabled account serves nobody.                       *)
(***************************************************************************)
EXTENDS Auth, SequenceTheorems, TLAPS

Session == [iat: Nat, root: Nat, raced: BOOLEAN]
Token == [created: Nat, ended: {"", "rotated", "signed out"}, root: Nat, raced: BOOLEAN]
Cookies == [session: Session, remember: Nat]
AnyRequest == [dev: Devices \cup {"console"}, kind: Kinds \cup Commands, now: Nat, sent: Cookies,
               step: {"auth", "rotate", "verify", "revoke", "login", "issue", "logout", "commit", "done"},
               via: {"", "session", "token"}, raced: BOOLEAN,
               answer: {"", "ok", "unauthenticated", "refused", "bye"}, set: Cookies]
Request == {r \in AnyRequest : /\ r.step = "verify" => r.kind = "password"
                               /\ r.kind \in Commands <=> r.step = "commit"
                               /\ r.dev \in Devices \/ r.kind \in Commands}

AuthTypeOK ==
  /\ clock \in Nat /\ disabledAt \in Nat
  /\ account \in [epoch: Nat, disabled: BOOLEAN]
  /\ tokens \in Seq(Token)
  /\ jar \in [Devices -> Cookies]
  /\ reqs \in [Slots -> Request \cup {Free}]

\* Requests under way.
Active == {s \in Slots : reqs[s] # Free}

\* Nothing is from the future, and no two requests began at the same time.
InPast(c) == c.session.iat <= clock /\ c.remember <= Len(tokens)
Past ==
  /\ account.epoch <= clock
  /\ \A i \in 1 .. Len(tokens) : tokens[i].created <= clock
  /\ \A d \in Devices : InPast(jar[d])
  /\ \A s \in Active : /\ reqs[s].now > 0 /\ reqs[s].now <= clock
                       /\ InPast(reqs[s].sent) /\ InPast(reqs[s].set)
  /\ \A s, u \in Active : reqs[s].now = reqs[u].now => s = u

\* The epoch in force, and those that the changes, resets and commands under way will write
\* (but for the ones of the slots `own`).
Ends(own) == {account.epoch} \cup {reqs[p].now : p \in Changing \ own}

\* Credentials of that age outlive an end only if the login they descend from does.
Rooted(iat, root, raced, ends) == raced \/ \A e \in ends : iat >= e => root >= e

Sound(c) == Rooted(c.iat, c.root, c.raced, Ends({}))

SoundSessions ==
  /\ \A d \in Devices : Sound(jar[d].session)
  /\ \A s \in Active : Sound(reqs[s].sent.session) /\ Sound(reqs[s].set.session)

SoundToken(t) == t.ended = "" /\ t.created >= account.epoch => t.raced \/ t.root >= account.epoch
SoundTokens == \A i \in 1 .. Len(tokens) : SoundToken(tokens[i])

\* What a request that is about to rotate its token will be given.
SoundRotation(s, r) ==
  r.step = "rotate" => /\ r.sent.remember \in 1 .. Len(tokens)
                       /\ Rooted(r.now, tokens[r.sent.remember].root, r.raced, Ends({s}))
SoundRotations == \A s \in Active : SoundRotation(s, reqs[s])

\* While the account is disabled only what began before is still served.
Served(r) == r.step \in {"rotate", "verify", "revoke", "issue"} \/ (r.step = "done" /\ r.answer = "ok")
OutWhenDisabled(r) == account.disabled /\ Served(r) => r.now <= disabledAt
ServedBefore == \A s \in Active : OutWhenDisabled(reqs[s])

AuthInv ==
  AuthTypeOK /\ Past /\ SoundSessions /\ SoundTokens /\ SoundRotations /\ ServedBefore

-----------------------------------------------------------------------------
\* Fewer ends, or one of the future, leave credentials rooted.
LEMMA RootedKept ==
  ASSUME NEW iat \in Nat, NEW root, NEW raced, NEW ends, NEW fewer, NEW n \in Nat, iat <= n,
         Rooted(iat, root, raced, ends), fewer \subseteq ends \cup {n + 1}
  PROVE  Rooted(iat, root, raced, fewer)
<1> SUFFICES ASSUME ~raced, NEW e \in fewer, iat >= e PROVE root >= e
  BY DEF Rooted
<1>1. e \in ends
  <2>1. ~(iat >= n + 1)
    OBVIOUS
  <2>2. QED BY <2>1
<1>2. QED BY <1>1 DEF Rooted

\* No cookie, and no session, is from the future or outlives anything.
LEMMA Nothing ==
  /\ NoSession \in Session /\ NoCookies \in Cookies
  /\ NoSession.iat = 0 /\ NoSession.root = 0
  /\ NoCookies.session = NoSession /\ NoCookies.remember = 0
BY DEF NoSession, NoCookies, NoToken, Session, Cookies

\* A slot is free or holds a request.
LEMMA ActiveFacts ==
  ASSUME AuthTypeOK
  PROVE  /\ \A s \in Slots : s \in Active <=> reqs[s].step # "free"
         /\ \A s \in Active : reqs[s] \in Request
         /\ \A r \in Request : r # Free /\ r.step # "free"
         /\ Changing \subseteq Active /\ Active \subseteq Slots
<1>1. \A r \in Request : r.step # "free"
  BY DEF Request, AnyRequest
<1>2. Free.step = "free"
  BY DEF Free
<1>3. \A s \in Slots : reqs[s] \in Request \/ reqs[s] = Free
  BY DEF AuthTypeOK
<1>4. QED BY <1>1, <1>2, <1>3 DEF Active, Changing

\* The fields of what is held.
LEMMA FieldsOK ==
  ASSUME AuthTypeOK
  PROVE  /\ \A s \in Active : /\ reqs[s].now \in Nat /\ reqs[s].sent \in Cookies /\ reqs[s].set \in Cookies
                              /\ reqs[s].raced \in BOOLEAN
         /\ \A c \in Cookies : c.session \in Session /\ c.remember \in Nat
         /\ \A c \in Session : c.iat \in Nat /\ c.root \in Nat /\ c.raced \in BOOLEAN
         /\ \A d \in Devices : jar[d] \in Cookies
         /\ account.epoch \in Nat /\ account.disabled \in BOOLEAN /\ clock \in Nat /\ Len(tokens) \in Nat
         /\ \A i \in 1 .. Len(tokens) : /\ tokens[i] \in Token /\ tokens[i].created \in Nat
                                        /\ tokens[i].root \in Nat /\ tokens[i].raced \in BOOLEAN
<1>1. \A s \in Active : reqs[s].now \in Nat /\ reqs[s].sent \in Cookies /\ reqs[s].set \in Cookies
                        /\ reqs[s].raced \in BOOLEAN
  BY ActiveFacts DEF Request, AnyRequest
<1>2. /\ \A c \in Cookies : c.session \in Session /\ c.remember \in Nat
      /\ \A c \in Session : c.iat \in Nat /\ c.root \in Nat /\ c.raced \in BOOLEAN
  BY DEF Cookies, Session
<1>3. Len(tokens) \in Nat /\ \A i \in 1 .. Len(tokens) : tokens[i] \in Token
  BY DEF AuthTypeOK
<1>4. \A x \in Token : x.created \in Nat /\ x.root \in Nat /\ x.raced \in BOOLEAN
  BY DEF Token
<1>5. QED BY <1>1, <1>2, <1>3, <1>4 DEF AuthTypeOK

\* Nobody is signed in.
LEMMA InitAuthInv == Init => AuthInv
<1> SUFFICES ASSUME Init PROVE AuthInv OBVIOUS
<1>1. AuthTypeOK
  BY Nothing DEF Init, AuthTypeOK
<1>2. Active = {} /\ Changing = {}
  BY ActiveFacts, <1>1 DEF Init, Active
<1>3. Past
  BY <1>2, Nothing DEF Init, Past, InPast
<1>4. SoundSessions
  BY <1>2, Nothing DEF Init, SoundSessions, Sound, Rooted, Ends
<1>5. SoundTokens /\ SoundRotations /\ ServedBefore
  BY <1>2 DEF Init, SoundTokens, SoundRotations, ServedBefore
<1>6. QED BY <1>1, <1>3, <1>4, <1>5 DEF AuthInv

\* Without a new change of password, and within an epoch, there are no new ends.
LEMMA EndsKept ==
  ASSUME account'.epoch = account.epoch, Changing' \subseteq Changing,
         \A p \in Changing' : reqs'[p].now = reqs[p].now
  PROVE  \A own : Ends(own)' \subseteq Ends(own)
<1> SUFFICES ASSUME NEW own, NEW e \in Ends(own)' PROVE e \in Ends(own)
  OBVIOUS
<1>1. e = account.epoch \/ \E p \in Changing' \ own : e = reqs'[p].now
  BY DEF Ends
<1>2. CASE e = account.epoch
  BY <1>2 DEF Ends
<1>3. CASE \E p \in Changing' \ own : e = reqs'[p].now
  <2>1. PICK p \in Changing' \ own : e = reqs'[p].now
    BY <1>3
  <2>2. p \in Changing \ own /\ e = reqs[p].now
    BY <2>1
  <2>3. QED BY <2>2 DEF Ends
<1>4. QED BY <1>1, <1>2, <1>3

\* Tokens are only added, rotated and ended; each keeps what it descends from.
TokensKept ==
  /\ tokens' \in Seq(Token) /\ Len(tokens) <= Len(tokens')
  /\ \A i \in 1 .. Len(tokens) : /\ tokens'[i].root = tokens[i].root /\ tokens'[i].raced = tokens[i].raced
                                 /\ tokens'[i].created = tokens[i].created
                                 /\ tokens'[i].ended = "" => tokens[i].ended = ""
  /\ \A i \in 1 .. Len(tokens') : i > Len(tokens) => tokens'[i].created <= clock /\ SoundToken(tokens'[i])

\* What has to be shown of a step of a request on the server.
LEMMA SlotStepInv ==
  ASSUME AuthInv, NEW s \in Active, NEW r \in Request,
         reqs' = [reqs EXCEPT ![s] = r], r.now = reqs[s].now, r.kind = reqs[s].kind, r.sent = reqs[s].sent,
         UNCHANGED <<clock, account, jar, disabledAt>>, TokensKept, r.step # "commit",
         r.kind = "password" /\ r.step \in {"auth", "rotate", "verify"} => s \in Changing,
         r.set.session.iat <= clock, r.set.remember <= Len(tokens'), Sound(r.set.session),
         SoundRotation(s, r), OutWhenDisabled(r)
  PROVE  AuthInv'
<1>1. AuthTypeOK /\ Past /\ s \in Slots /\ TokensKept /\ Len(tokens) \in Nat
  BY ActiveFacts, FieldsOK DEF AuthInv
<1>2. /\ reqs'[s] = r /\ \A u \in Slots \ {s} : reqs'[u] = reqs[u]
      /\ AuthTypeOK'
  BY <1>1 DEF AuthTypeOK, TokensKept
<1>3. Active' = Active /\ \A u \in Active : reqs'[u].now = reqs[u].now /\ reqs'[u].sent = reqs[u].sent
  BY <1>1, <1>2, ActiveFacts DEF Active
<1>4. Changing' \subseteq Changing
  BY <1>1, <1>2 DEF Changing
<1>5. \A own : Ends(own)' \subseteq Ends(own)
  BY <1>1, <1>3, <1>4, ActiveFacts, EndsKept
<1>6. Len(tokens) <= Len(tokens') /\ Len(tokens') \in Nat
  <2>1. tokens' \in Seq(Token) /\ Len(tokens) <= Len(tokens')
    BY <1>1 DEF TokensKept
  <2>2. QED BY <2>1
<1>7. \A c \in Cookies : InPast(c) => c.session.iat <= clock /\ c.remember <= Len(tokens')
  BY <1>1, <1>6, FieldsOK DEF InPast
<1>8. Past'
  <2>1. /\ account.epoch <= clock
        /\ \A i \in 1 .. Len(tokens') : tokens'[i].created <= clock
    <3>1. \A i \in 1 .. Len(tokens') : i \in 1 .. Len(tokens) \/ i > Len(tokens)
      BY <1>1, <1>6
    <3>2. QED BY <1>1, <3>1 DEF Past, TokensKept
  <2>2. (\A d \in Devices : InPast(jar[d])') /\ (\A u \in Active : InPast(reqs[u].sent)')
    BY <1>1, <1>3, <1>7, FieldsOK DEF Past, InPast
  <2>3. \A u \in Active : InPast(reqs[u].set)'
    BY <1>1, <1>2, <1>7, ActiveFacts, FieldsOK DEF Past, InPast
  <2>4. QED BY <1>1, <1>3, <1>4, <2>1, <2>2, <2>3 DEF Past
<1>9. \A own : \A c \in Session : Rooted(c.iat, c.root, c.raced, Ends(own)) => Rooted(c.iat, c.root, c.raced, Ends(own)')
  BY <1>5 DEF Rooted
<1>10. SoundSessions'
  <2>1. \A d \in Devices : Sound(jar[d].session)'
    BY <1>1, <1>9, FieldsOK DEF AuthInv, SoundSessions, Sound
  <2>2. \A u \in Active : Sound(reqs[u].sent.session)'
    BY <1>1, <1>3, <1>9, FieldsOK DEF AuthInv, SoundSessions, Sound
  <2>3. \A u \in Active : Sound(reqs[u].set.session)'
    <3> TAKE u \in Active
    <3>1. reqs'[u].set = (IF u = s THEN r.set ELSE reqs[u].set)
      BY <1>1, <1>2, ActiveFacts
    <3>2. r.set \in Cookies
      BY DEF Request, AnyRequest
    <3>3. QED BY <1>1, <1>9, <3>1, <3>2, FieldsOK DEF AuthInv, SoundSessions, Sound
  <2>4. QED BY <1>3, <2>1, <2>2, <2>3 DEF SoundSessions
<1>11. SoundTokens'
  <2> SUFFICES ASSUME NEW i \in 1 .. Len(tokens') PROVE SoundToken(tokens[i])'
    BY DEF SoundTokens
  <2>1. i \in 1 .. Len(tokens) \/ i > Len(tokens)
    BY <1>1, <1>6
  <2>2. QED BY <1>1, <2>1 DEF AuthInv, SoundTokens, SoundToken, TokensKept
<1>12. SoundRotations'
  <2> SUFFICES ASSUME NEW u \in Active, reqs'[u].step = "rotate"
               PROVE  /\ reqs'[u].sent.remember \in 1 .. Len(tokens')
                      /\ Rooted(reqs'[u].now, tokens'[reqs'[u].sent.remember].root, reqs'[u].raced, Ends({u})')
    BY <1>3 DEF SoundRotations, SoundRotation
  <2>1. SoundRotation(u, reqs'[u])
    BY <1>1, <1>2, ActiveFacts DEF AuthInv, SoundRotations
  <2> DEFINE k == reqs'[u].sent.remember
  <2>2. k \in 1 .. Len(tokens) /\ Rooted(reqs'[u].now, tokens[k].root, reqs'[u].raced, Ends({u}))
    BY <2>1 DEF SoundRotation
  <2> HIDE DEF k
  <2>3. tokens'[k].root = tokens[k].root /\ k \in 1 .. Len(tokens')
    <3>1. \A i \in 1 .. Len(tokens) : tokens'[i].root = tokens[i].root
      BY <1>1 DEF TokensKept
    <3>2. \A i \in 1 .. Len(tokens) : i \in 1 .. Len(tokens')
      BY <1>1, <1>6
    <3>3. QED BY <2>2, <3>1, <3>2
  <2>4. Rooted(reqs'[u].now, tokens'[k].root, reqs'[u].raced, Ends({u})')
    BY <1>5, <2>2, <2>3 DEF Rooted
  <2>5. QED BY <2>3, <2>4 DEF k
<1>13. ServedBefore'
  <2> SUFFICES ASSUME NEW u \in Active PROVE OutWhenDisabled(reqs[u])'
    BY <1>3 DEF ServedBefore
  <2>1. OutWhenDisabled(reqs'[u])
    BY <1>1, <1>2, ActiveFacts DEF AuthInv, ServedBefore
  <2>2. QED BY <2>1 DEF OutWhenDisabled, Served
<1>14. QED BY <1>2, <1>8, <1>10, <1>11, <1>12, <1>13 DEF AuthInv

-----------------------------------------------------------------------------
\* What is known of a request under way.
LEMMA Underway ==
  ASSUME AuthInv, NEW s \in Slots, reqs[s].step # "free"
  PROVE  /\ s \in Active /\ reqs[s] \in Request
         /\ reqs[s].now \in Nat /\ reqs[s].now > 0 /\ reqs[s].now <= clock
         /\ reqs[s].sent \in Cookies /\ reqs[s].set \in Cookies
         /\ InPast(reqs[s].sent) /\ InPast(reqs[s].set)
         /\ Sound(reqs[s].sent.session) /\ Sound(reqs[s].set.session)
         /\ SoundRotation(s, reqs[s]) /\ OutWhenDisabled(reqs[s])
<1>1. AuthTypeOK /\ s \in Active
  BY ActiveFacts DEF AuthInv
<1>2. reqs[s] \in Request
  BY <1>1, ActiveFacts
<1>3. reqs[s].now \in Nat /\ reqs[s].sent \in Cookies /\ reqs[s].set \in Cookies
  BY <1>1, FieldsOK
<1>4. QED BY <1>1, <1>2, <1>3 DEF AuthInv, Past, SoundSessions, SoundRotations, ServedBefore

\* Tokens nobody touched are kept.
LEMMA SameTokens ==
  ASSUME AuthInv, tokens' = tokens
  PROVE  TokensKept
<1>1. tokens \in Seq(Token) /\ Len(tokens) \in Nat
  BY FieldsOK DEF AuthInv, AuthTypeOK
<1>2. Len(tokens') = Len(tokens) /\ \A i : tokens'[i] = tokens[i]
  OBVIOUS
<1>3. \A i \in 1 .. Len(tokens') : ~(i > Len(tokens))
  BY <1>1, <1>2
<1>4. tokens' \in Seq(Token) /\ Len(tokens) <= Len(tokens')
  BY <1>1, <1>2
<1>5. QED BY <1>2, <1>3, <1>4 DEF TokensKept

\* An answer without cookies is sound, and so is what was sound before.
LEMMA NoCookiesSound == Sound(NoCookies.session) /\ NoCookies.session.iat = 0 /\ NoCookies.remember = 0
BY Nothing DEF Sound, Rooted

\* Past the gate: only a request behind it gets the renewed cookies, and only a change of
\* password goes on to verify.
LEMMA AdmitFacts ==
  ASSUME NEW q \in Request, q.step # "commit",
         NEW via \in {"session", "token"}, NEW cookies \in Cookies
  PROVE  /\ Admit(q, via, cookies) \in Request
         /\ Admit(q, via, cookies).now = q.now /\ Admit(q, via, cookies).kind = q.kind
         /\ Admit(q, via, cookies).sent = q.sent
         /\ Admit(q, via, cookies).step \in {"done", "verify", "revoke"}
         /\ Admit(q, via, cookies).step = "verify" => q.kind = "password"
         /\ \/ Admit(q, via, cookies).set \in {q.set, NoCookies}
            \/ q.kind = "gated" /\ Admit(q, via, cookies).set = cookies
<1>1. CASE q.kind = "gated"
  BY <1>1 DEF Admit, Answer, Request, AnyRequest
<1>2. CASE q.kind = "self"
  BY <1>2, Nothing DEF Admit, Answer, Request, AnyRequest
<1>3. CASE q.kind = "password"
  BY <1>3 DEF Admit, Request, AnyRequest
<1>4. CASE q.kind \notin {"gated", "self", "password"}
  BY <1>4 DEF Admit, Request, AnyRequest
<1>5. QED BY <1>1, <1>2, <1>3, <1>4

\* A request admitted by its session.
LEMMA AuthBySessionInv == ASSUME AuthInv, NEW s \in Slots, AuthBySession(s) PROVE AuthInv'
<1> DEFINE q == reqs[s]
           cookies == [NoCookies EXCEPT !.session = q.sent.session]
           r == Admit(q, "session", cookies)
<1>1. /\ q.step = "auth" /\ ~account.disabled /\ reqs' = [reqs EXCEPT ![s] = r]
      /\ UNCHANGED <<clock, account, tokens, jar, disabledAt>>
  BY DEF AuthBySession, SessionOK
<1>2. s \in Active /\ q \in Request /\ q.sent \in Cookies /\ InPast(q.sent) /\ InPast(q.set)
      /\ Sound(q.sent.session) /\ Sound(q.set.session) /\ clock \in Nat /\ Len(tokens) \in Nat
  BY <1>1, Underway, FieldsOK DEF AuthInv
<1>3. cookies \in Cookies /\ cookies.session = q.sent.session /\ cookies.remember = 0
  BY <1>2, Nothing DEF Cookies
<1> HIDE DEF cookies
<1>4. /\ r \in Request /\ r.now = q.now /\ r.kind = q.kind /\ r.sent = q.sent
      /\ r.step \in {"done", "verify", "revoke"}
      /\ r.set \in {q.set, NoCookies, cookies}
  BY <1>1, <1>2, <1>3, AdmitFacts
<1>5. r.kind = "password" /\ r.step \in {"auth", "rotate", "verify"} => s \in Changing
  BY <1>1, <1>4 DEF Changing
<1> HIDE DEF r
<1>6. r.set.session.iat <= clock /\ r.set.remember <= Len(tokens) /\ Sound(r.set.session)
  BY <1>2, <1>3, <1>4, NoCookiesSound DEF InPast
<1>7. SoundRotation(s, r) /\ OutWhenDisabled(r)
  BY <1>1, <1>4 DEF SoundRotation, OutWhenDisabled
<1>8. TokensKept /\ tokens' = tokens
  BY <1>1, SameTokens
<1>9. QED BY <1>1, <1>2, <1>4, <1>5, <1>6, <1>7, <1>8, SlotStepInv

\* A token in force whose request no change of password has overtaken is worth what it
\* descends from; otherwise the request is marked.
LEMMA CheckTokenInv == ASSUME AuthInv, NEW s \in Slots, CheckToken(s) PROVE AuthInv'
<1> DEFINE q == reqs[s]
           k == q.sent.remember
           marked == tokens[k].raced \/ Raced(q)
           r == [q EXCEPT !.step = "rotate", !.via = "token", !.raced = marked]
<1>1. /\ q.step = "auth" /\ ~account.disabled /\ TokenOK(k)
      /\ UNCHANGED <<clock, account, tokens, jar, disabledAt>>
  BY DEF CheckToken, TokenOK
<1>2. s \in Active /\ q \in Request /\ q.sent \in Cookies /\ InPast(q.sent) /\ InPast(q.set)
      /\ Sound(q.set.session) /\ clock \in Nat /\ Len(tokens) \in Nat
      /\ AuthTypeOK /\ q.now \in Nat /\ reqs \in [Slots -> Request \cup {Free}]
  BY <1>1, Underway, FieldsOK DEF AuthInv, AuthTypeOK
<1>3. k \in Nat /\ k # 0 /\ k <= Len(tokens)
  BY <1>1, <1>2, FieldsOK DEF InPast, TokenOK, NoToken
<1>4. k \in 1 .. Len(tokens)
  BY <1>2, <1>3
<1>5. tokens[k].root \in Nat /\ tokens[k].raced \in BOOLEAN
  BY <1>2, <1>4, FieldsOK
<1>6. marked \in BOOLEAN
  BY <1>5 DEF Raced
<1>7. reqs' = [reqs EXCEPT ![s] = r]
  BY <1>2 DEF CheckToken
<1>8. Rooted(q.now, tokens[k].root, marked, Ends({s}))
  <2> SUFFICES ASSUME ~marked, NEW e \in Ends({s}), q.now >= e PROVE tokens[k].root >= e
    BY DEF Rooted
  <2>1. CASE e = account.epoch
    BY <1>1, <1>4, <2>1 DEF TokenOK, AuthInv, SoundTokens, SoundToken
  <2>2. CASE \E p \in Changing \ {s} : e = reqs[p].now
    <3>1. PICK p \in Changing \ {s} : e = reqs[p].now
      BY <2>2
    <3>2. p \in Active /\ reqs[p].now \in Nat
      BY <1>2, <3>1, ActiveFacts, FieldsOK
    <3>3. reqs[p].now # q.now
      BY <1>2, <3>1, <3>2 DEF AuthInv, Past
    <3>4. ~(reqs[p].now < q.now)
      BY <3>1 DEF Raced
    <3>5. QED BY <1>2, <3>1, <3>2, <3>3, <3>4
  <2>3. QED BY <2>1, <2>2 DEF Ends
<1> HIDE DEF marked
<1>9. /\ r \in Request /\ r.now = q.now /\ r.kind = q.kind /\ r.sent = q.sent /\ r.set = q.set
      /\ r.step = "rotate" /\ r.raced = marked
  BY <1>1, <1>2, <1>6 DEF Request, AnyRequest
<1>10. r.kind = "password" /\ r.step \in {"auth", "rotate", "verify"} => s \in Changing
  BY <1>1, <1>9 DEF Changing
<1> HIDE DEF r
<1>11. r.set.session.iat <= clock /\ r.set.remember <= Len(tokens) /\ Sound(r.set.session)
  BY <1>2, <1>9 DEF InPast
<1>12. SoundRotation(s, r) /\ OutWhenDisabled(r)
  BY <1>1, <1>4, <1>8, <1>9 DEF SoundRotation, OutWhenDisabled
<1>13. TokensKept /\ tokens' = tokens
  BY <1>1, SameTokens
<1>14. QED BY <1>1, <1>2, <1>7, <1>9, <1>10, <1>11, <1>12, <1>13, SlotStepInv

\* An interval has one end.
LEMMA SameUpTo == \A m, n \in Nat : (\A x : x \in 1 .. m <=> x \in 1 .. n) => m = n
<1> SUFFICES ASSUME NEW m \in Nat, NEW n \in Nat, \A x : x \in 1 .. m <=> x \in 1 .. n PROVE m = n
  OBVIOUS
<1>1. (m \in 1 .. m <=> m \in 1 .. n) /\ (n \in 1 .. m <=> n \in 1 .. n)
  BY Zenon
<1>2. QED BY <1>1

\* Rows of which at most some were ended.
SameButEnded(ts) ==
  /\ ts \in Seq(Token) /\ Len(ts) = Len(tokens)
  /\ \A j \in 1 .. Len(tokens) : /\ ts[j].root = tokens[j].root /\ ts[j].raced = tokens[j].raced
                                 /\ ts[j].created = tokens[j].created
                                 /\ ts[j].ended = "" => tokens[j].ended = ""

\* Ending a token leaves the rest of it, and the other tokens, alone.
LEMMA EndOne ==
  ASSUME AuthTypeOK, NEW i \in 1 .. Len(tokens), NEW how \in {"rotated", "signed out"}
  PROVE  SameButEnded([tokens EXCEPT ![i].ended = IF @ = "" THEN how ELSE @])
<1> DEFINE row == [tokens[i] EXCEPT !.ended = IF @ = "" THEN how ELSE @]
           ts == [tokens EXCEPT ![i] = row]
<1>1. tokens \in Seq(Token) /\ tokens[i] \in Token
  BY FieldsOK DEF AuthTypeOK
<1>2. /\ row \in Token /\ row.root = tokens[i].root /\ row.raced = tokens[i].raced
      /\ row.created = tokens[i].created
      /\ row.ended = "" => tokens[i].ended = ""
  BY <1>1 DEF Token
<1> HIDE DEF row
<1>3. /\ ts \in Seq(Token) /\ Len(ts) = Len(tokens)
      /\ \A j \in 1 .. Len(tokens) : ts[j] = IF j = i THEN row ELSE tokens[j]
  <2>1. tokens \in Seq(Token) /\ row \in Token
    BY <1>1, <1>2
  <2>2. tokens \in [1 .. Len(tokens) -> Token] /\ Len(tokens) \in Nat
    BY <2>1, LenProperties
  <2>3. /\ ts \in [1 .. Len(tokens) -> Token] /\ DOMAIN ts = 1 .. Len(tokens)
        /\ \A j \in 1 .. Len(tokens) : ts[j] = IF j = i THEN row ELSE tokens[j]
    BY <2>1, <2>2
  <2> HIDE DEF ts
  <2>4. ts \in Seq(Token)
    BY <2>2, <2>3, SeqDef
  <2>5. Len(ts) = Len(tokens)
    <3>1. Len(ts) \in Nat /\ 1 .. Len(ts) = 1 .. Len(tokens)
      BY <2>3, <2>4, LenProperties
    <3>2. \A x : x \in 1 .. Len(ts) <=> x \in 1 .. Len(tokens)
      BY <3>1, Zenon
    <3>3. Len(ts) \in Nat /\ Len(tokens) \in Nat
      BY <3>1, <2>2, Zenon
    <3>4. QED BY <3>2, <3>3, SameUpTo, Zenon
  <2>6. QED BY <2>3, <2>4, <2>5
<1> HIDE DEF ts
<1>4. SameButEnded(ts)
  BY <1>2, <1>3 DEF SameButEnded
<1>5. QED BY <1>4 DEF ts, row

\* Nothing ended is a special case.
LEMMA EndNone == ASSUME AuthTypeOK PROVE SameButEnded(tokens)
BY DEF SameButEnded, AuthTypeOK

\* Tokens of which some were ended are kept.
LEMMA EndedKept ==
  ASSUME AuthTypeOK, SameButEnded(tokens')
  PROVE  TokensKept /\ Len(tokens') = Len(tokens)
<1>1. Len(tokens) \in Nat /\ Len(tokens') = Len(tokens) /\ tokens' \in Seq(Token)
  BY FieldsOK DEF SameButEnded
<1>2. Len(tokens) <= Len(tokens') /\ \A j \in 1 .. Len(tokens') : ~(j > Len(tokens))
  BY <1>1
<1>3. QED BY <1>1, <1>2 DEF TokensKept, SameButEnded

\* And so are those to which a sound one was added.
LEMMA AddedKept ==
  ASSUME AuthTypeOK, NEW ts, SameButEnded(ts),
         NEW row \in Token, row.created <= clock, SoundToken(row), tokens' = Append(ts, row)
  PROVE  TokensKept /\ Len(tokens') = Len(tokens) + 1
<1>1. Len(tokens) \in Nat /\ ts \in Seq(Token) /\ Len(ts) = Len(tokens)
  BY FieldsOK DEF SameButEnded
<1>2. /\ tokens' \in Seq(Token) /\ Len(tokens') = Len(tokens) + 1
      /\ \A j \in 1 .. Len(tokens) : tokens'[j] = ts[j]
      /\ tokens'[Len(tokens) + 1] = row
  BY <1>1, AppendProperties
<1>3. \A j \in 1 .. Len(tokens') : j > Len(tokens) => tokens'[j] = row
  <2> SUFFICES ASSUME NEW j \in 1 .. Len(tokens'), j > Len(tokens) PROVE tokens'[j] = row
    OBVIOUS
  <2>1. j = Len(tokens) + 1
    <3>1. j \in 1 .. Len(tokens) + 1
      BY <1>2
    <3>2. QED BY <1>1, <3>1
  <2>2. QED BY <1>2, <2>1
<1>4. Len(tokens) <= Len(tokens')
  <2>1. Len(tokens) <= Len(tokens) + 1
    BY <1>1
  <2>2. QED BY <1>2, <2>1
<1>5. QED BY <1>2, <1>3, <1>4 DEF TokensKept, SameButEnded

-----------------------------------------------------------------------------
\* The new token and the renewed cookies are worth what the old token was.
LEMMA RotateInv == ASSUME AuthInv, NEW s \in Slots, Rotate(s) PROVE AuthInv'
<1> DEFINE q == reqs[s]
           k == q.sent.remember
           ended == [tokens EXCEPT ![k].ended = IF @ = "" THEN "rotated" ELSE @]
           row == [created |-> q.now, ended |-> "", root |-> tokens[k].root, raced |-> q.raced]
           cookies == [session |-> [iat |-> q.now, root |-> tokens[k].root, raced |-> q.raced],
                       remember |-> Len(tokens) + 1]
           r == Admit(q, "token", cookies)
<1>1. /\ q.step = "rotate" /\ tokens' = Append(ended, row) /\ reqs' = [reqs EXCEPT ![s] = r]
      /\ UNCHANGED <<clock, account, jar, disabledAt>>
  BY DEF Rotate
<1>2. /\ s \in Active /\ q \in Request /\ InPast(q.set) /\ Sound(q.set.session) /\ q.set \in Cookies
      /\ q.now \in Nat /\ q.now <= clock /\ OutWhenDisabled(q) /\ q.raced \in BOOLEAN
      /\ clock \in Nat /\ Len(tokens) \in Nat /\ AuthTypeOK
  BY <1>1, Underway, FieldsOK DEF AuthInv
<1>3. k \in 1 .. Len(tokens) /\ Rooted(q.now, tokens[k].root, q.raced, Ends({s}))
  BY <1>1, Underway DEF SoundRotation
<1>4. tokens[k].root \in Nat
  BY <1>2, <1>3, FieldsOK
<1>5. SameButEnded(ended)
  BY <1>2, <1>3, EndOne
<1> HIDE DEF ended
<1>6. row \in Token /\ row.created <= clock /\ SoundToken(row)
  BY <1>2, <1>3, <1>4 DEF Token, SoundToken, Rooted, Ends
<1> HIDE DEF row
<1>7. TokensKept /\ Len(tokens') = Len(tokens) + 1
  BY <1>1, <1>2, <1>5, <1>6, AddedKept
<1>8. /\ cookies \in Cookies /\ cookies.session.iat = q.now /\ cookies.remember = Len(tokens')
      /\ cookies.session.raced = q.raced /\ cookies.session.root = tokens[k].root
  BY <1>2, <1>4, <1>7 DEF Cookies, Session
<1> HIDE DEF cookies
<1>9. /\ r \in Request /\ r.now = q.now /\ r.kind = q.kind /\ r.sent = q.sent
      /\ r.step \in {"done", "verify", "revoke"} /\ (r.step = "verify" => q.kind = "password")
      /\ \/ r.set \in {q.set, NoCookies}
         \/ q.kind = "gated" /\ r.set = cookies
  BY <1>1, <1>2, <1>8, AdmitFacts
<1> HIDE DEF r
<1>10. r.kind = "password" /\ r.step \in {"auth", "rotate", "verify"} => s \in Changing
  BY <1>1, <1>9 DEF Changing
<1>11. Sound(r.set.session) /\ r.set.session.iat <= clock /\ r.set.remember <= Len(tokens')
  <2>1. CASE r.set = q.set
    BY <1>2, <1>7, <2>1, FieldsOK DEF InPast
  <2>2. CASE r.set = NoCookies
    BY <1>2, <1>7, <2>2, NoCookiesSound
  <2>3. CASE q.kind = "gated" /\ r.set = cookies
    <3>1. s \notin Changing
      BY <1>1, <2>3 DEF Changing
    <3>2. Ends({}) = Ends({s})
      BY <3>1 DEF Ends
    <3>3. Sound(cookies.session)
      BY <1>3, <1>8, <3>2 DEF Sound
    <3>4. cookies.session.iat <= clock /\ cookies.remember <= Len(tokens')
      BY <1>2, <1>7, <1>8
    <3>5. QED BY <2>3, <3>3, <3>4
  <2>4. QED BY <1>9, <2>1, <2>2, <2>3
<1>12. SoundRotation(s, r) /\ OutWhenDisabled(r)
  BY <1>1, <1>2, <1>9 DEF SoundRotation, OutWhenDisabled, Served
<1>13. QED BY <1>1, <1>2, <1>7, <1>9, <1>10, <1>11, <1>12, SlotStepInv

\* A request that ends with an answer and no cookies, whatever it did to the tokens.
LEMMA PlainAnswerInv ==
  ASSUME AuthInv, NEW s \in Slots, reqs[s].step \notin {"free", "commit"},
         NEW answer \in {"ok", "unauthenticated", "refused", "bye"},
         reqs' = [reqs EXCEPT ![s] = Answer(@, answer, NoCookies)],
         answer = "ok" => Served(reqs[s]), SameButEnded(tokens'),
         UNCHANGED <<clock, account, jar, disabledAt>>
  PROVE  AuthInv'
<1> DEFINE q == reqs[s]
           r == Answer(q, answer, NoCookies)
<1>1. AuthTypeOK /\ s \in Active /\ q \in Request /\ OutWhenDisabled(q) /\ clock \in Nat /\ Len(tokens) \in Nat
  BY Underway, FieldsOK DEF AuthInv
<1>2. TokensKept /\ Len(tokens') = Len(tokens)
  BY <1>1, EndedKept
<1>3. /\ r \in Request /\ r.now = q.now /\ r.kind = q.kind /\ r.sent = q.sent /\ r.step = "done"
      /\ r.set = NoCookies /\ r.answer = answer
  <2>1. q \in Request /\ NoCookies \in Cookies
    BY <1>1, Nothing
  <2>2. QED BY <2>1 DEF Answer, Request, AnyRequest
<1>4. reqs' = [reqs EXCEPT ![s] = r]
  OBVIOUS
<1> HIDE DEF r
<1>5. r.set.session.iat <= clock /\ r.set.remember <= Len(tokens') /\ Sound(r.set.session)
  BY <1>1, <1>2, <1>3, NoCookiesSound
<1>6. SoundRotation(s, r) /\ OutWhenDisabled(r)
  BY <1>1, <1>3 DEF SoundRotation, OutWhenDisabled, Served
<1>7. r.kind = "password" /\ r.step \in {"auth", "rotate", "verify"} => s \in Changing
  BY <1>3
<1>8. QED BY <1>1, <1>2, <1>3, <1>4, <1>5, <1>6, <1>7, SlotStepInv

\* Refusals, a wrong password, a logout and a revoked device.
LEMMA PlainAnswersInv ==
  ASSUME AuthInv, NEW s \in Slots,
         \/ Refuse(s) \/ WrongPassword(s) \/ Logout(s)
         \/ \E t \in DOMAIN tokens : RevokeDevice(s, t)
  PROVE  AuthInv'
<1>1. AuthTypeOK /\ Len(tokens) \in Nat /\ tokens \in Seq(Token)
  BY FieldsOK DEF AuthInv, AuthTypeOK
<1>2. CASE Refuse(s) \/ WrongPassword(s)
  <2>1. tokens' = tokens
    BY <1>2 DEF Refuse, WrongPassword
  <2>2. SameButEnded(tokens')
    BY <1>1, <2>1, EndNone
  <2>3. CASE Refuse(s)
    BY <2>2, <2>3, PlainAnswerInv DEF Refuse
  <2>4. CASE WrongPassword(s)
    BY <2>2, <2>4, PlainAnswerInv DEF WrongPassword
  <2>5. QED BY <1>2, <2>3, <2>4
<1>3. CASE Logout(s)
  <2> DEFINE k == reqs[s].sent.remember
  <2>1. reqs[s].step = "logout"
    BY <1>3 DEF Logout
  <2>2. k \in Nat /\ k <= Len(tokens)
    BY <1>1, <2>1, Underway, FieldsOK DEF InPast
  <2>3. SameButEnded(tokens')
    <3>1. CASE k = NoToken
      BY <1>1, <1>3, <3>1, EndNone DEF Logout
    <3>2. CASE k # NoToken
      <4>1. k \in 1 .. Len(tokens)
        BY <1>1, <2>2, <3>2 DEF NoToken
      <4>2. tokens' = [tokens EXCEPT ![k].ended = IF @ = "" THEN "signed out" ELSE @]
        BY <1>3, <3>2 DEF Logout
      <4>3. QED BY <1>1, <4>1, <4>2, EndOne
    <3>3. QED BY <3>1, <3>2
  <2>4. QED BY <1>3, <2>1, <2>3, PlainAnswerInv DEF Logout
<1>4. CASE \E t \in DOMAIN tokens : RevokeDevice(s, t)
  <2>1. PICK t \in DOMAIN tokens : RevokeDevice(s, t)
    BY <1>4
  <2>2. t \in 1 .. Len(tokens)
    BY <1>1, LenProperties
  <2>3. SameButEnded(tokens')
    BY <1>1, <2>1, <2>2, EndOne DEF RevokeDevice
  <2>4. QED BY <2>1, <2>3, PlainAnswerInv DEF RevokeDevice, Served
<1>5. QED BY <1>2, <1>3, <1>4

\* A login is served if the account is not disabled when it is read.
LEMMA ReadAccountInv == ASSUME AuthInv, NEW s \in Slots, ReadAccount(s) PROVE AuthInv'
<1> DEFINE q == reqs[s]
           r == [q EXCEPT !.step = "issue"]
<1>1. /\ q.step = "login" /\ UNCHANGED <<clock, account, tokens, jar, disabledAt>>
      /\ reqs' = [reqs EXCEPT ![s] = IF account.disabled THEN Answer(q, "refused", NoCookies) ELSE r]
  BY DEF ReadAccount
<1>2. /\ AuthTypeOK /\ s \in Active /\ q \in Request /\ InPast(q.set) /\ Sound(q.set.session)
      /\ TokensKept
  BY <1>1, Underway, SameTokens DEF AuthInv
<1>3. CASE account.disabled
  <2>1. reqs' = [reqs EXCEPT ![s] = Answer(@, "refused", NoCookies)]
    BY <1>1, <1>3
  <2>2. SameButEnded(tokens')
    BY <1>1, <1>2, EndNone
  <2>3. QED BY <1>1, <2>1, <2>2, PlainAnswerInv
<1>4. CASE ~account.disabled
  <2>1. /\ r \in Request /\ r.now = q.now /\ r.kind = q.kind /\ r.sent = q.sent /\ r.set = q.set
        /\ r.step = "issue"
    BY <1>1, <1>2 DEF Request, AnyRequest
  <2>2. reqs' = [reqs EXCEPT ![s] = r]
    BY <1>1, <1>4
  <2> HIDE DEF r
  <2>3. SoundRotation(s, r) /\ OutWhenDisabled(r)
    BY <1>4, <2>1 DEF SoundRotation, OutWhenDisabled
  <2>4. r.kind = "password" /\ r.step \in {"auth", "rotate", "verify"} => s \in Changing
    BY <2>1
  <2>5. r.set.session.iat <= clock /\ r.set.remember <= Len(tokens') /\ Sound(r.set.session)
    BY <1>1, <1>2, <2>1 DEF InPast
  <2>6. QED BY <1>1, <1>2, <2>1, <2>2, <2>3, <2>4, <2>5, SlotStepInv
<1>5. QED BY <1>3, <1>4

\* What a login issues descends from itself.
LEMMA IssueInv == ASSUME AuthInv, NEW s \in Slots, Issue(s) PROVE AuthInv'
<1> DEFINE q == reqs[s]
           remember == q.kind = "login_remember"
           row == [created |-> q.now, ended |-> "", root |-> q.now, raced |-> FALSE]
           cookies == [session |-> [iat |-> q.now, root |-> q.now, raced |-> FALSE],
                       remember |-> IF remember THEN Len(tokens) + 1 ELSE NoToken]
           r == Answer(q, "ok", cookies)
<1>1. /\ q.step = "issue" /\ reqs' = [reqs EXCEPT ![s] = r]
      /\ tokens' = IF ~remember THEN tokens ELSE Append(tokens, row)
      /\ UNCHANGED <<clock, account, jar, disabledAt>>
  BY DEF Issue
<1>2. /\ s \in Active /\ q \in Request /\ q.now \in Nat /\ q.now <= clock /\ OutWhenDisabled(q)
      /\ clock \in Nat /\ Len(tokens) \in Nat /\ AuthTypeOK
  BY <1>1, Underway, FieldsOK DEF AuthInv
<1>3. row \in Token /\ row.created <= clock /\ SoundToken(row)
  BY <1>2 DEF Token, SoundToken
<1> HIDE DEF row
<1>4. TokensKept /\ Len(tokens') = IF remember THEN Len(tokens) + 1 ELSE Len(tokens)
  <2>1. CASE remember
    BY <1>1, <1>2, <1>3, <2>1, EndNone, AddedKept
  <2>2. CASE ~remember
    BY <1>1, <2>2, SameTokens
  <2>3. QED BY <2>1, <2>2
<1>5. /\ cookies \in Cookies /\ cookies.session.iat = q.now /\ cookies.session.root = q.now
      /\ cookies.remember \in Nat /\ cookies.remember <= Len(tokens')
  BY <1>2, <1>4 DEF Cookies, Session, NoToken
<1>6. Sound(cookies.session)
  BY <1>5 DEF Sound, Rooted
<1> HIDE DEF cookies
<1>7. /\ r \in Request /\ r.now = q.now /\ r.kind = q.kind /\ r.sent = q.sent /\ r.step = "done"
      /\ r.set = cookies
  BY <1>1, <1>2, <1>5 DEF Answer, Request, AnyRequest
<1> HIDE DEF r
<1>8. SoundRotation(s, r) /\ OutWhenDisabled(r)
  BY <1>1, <1>2, <1>7 DEF SoundRotation, OutWhenDisabled, Served
<1>9. r.kind = "password" /\ r.step \in {"auth", "rotate", "verify"} => s \in Changing
  BY <1>7
<1>10. r.set.session.iat <= clock /\ r.set.remember <= Len(tokens') /\ Sound(r.set.session)
  BY <1>2, <1>5, <1>6, <1>7
<1>11. QED BY <1>1, <1>2, <1>4, <1>7, <1>8, <1>9, <1>10, SlotStepInv

-----------------------------------------------------------------------------
\* Steps that at most free slots, enable the account and put sound cookies into jars.
LEMMA QuietInv ==
  ASSUME AuthInv, UNCHANGED <<clock, tokens, disabledAt>>,
         account' \in [epoch: Nat, disabled: BOOLEAN], account'.epoch = account.epoch,
         account'.disabled => account.disabled,
         reqs' \in [Slots -> Request \cup {Free}], \A u \in Slots : reqs'[u] \in {reqs[u], Free},
         jar' \in [Devices -> Cookies],
         \A d \in Devices : InPast(jar'[d]) /\ Sound(jar'[d].session)
  PROVE  AuthInv'
<1>1. AuthTypeOK /\ Past /\ AuthTypeOK'
  BY DEF AuthInv, AuthTypeOK
<1>2. Active' \subseteq Active /\ \A u \in Active' : reqs'[u] = reqs[u]
  BY DEF Active
<1>3. Changing' \subseteq Changing /\ \A u \in Changing' : reqs'[u] = reqs[u]
  BY DEF Changing, Free
<1>4. \A own : Ends(own)' \subseteq Ends(own)
  BY <1>3, EndsKept
<1>5. \A own : \A c \in Session : Rooted(c.iat, c.root, c.raced, Ends(own)) => Rooted(c.iat, c.root, c.raced, Ends(own)')
  BY <1>4 DEF Rooted
<1>6. Past'
  BY <1>1, <1>2, <1>3 DEF Past, InPast
<1>7. SoundSessions'
  <2>1. \A d \in Devices : Sound(jar[d].session)'
    <3>1. \A d \in Devices : jar'[d].session \in Session
      BY <1>1, FieldsOK
    <3>2. QED BY <1>5, <3>1 DEF Sound
  <2>2. \A u \in Active' : Sound(reqs[u].sent.session)' /\ Sound(reqs[u].set.session)'
    BY <1>1, <1>2, <1>5, FieldsOK DEF AuthInv, SoundSessions, Sound
  <2>3. QED BY <2>1, <2>2 DEF SoundSessions
<1>8. SoundTokens'
  BY DEF AuthInv, SoundTokens, SoundToken
<1>9. SoundRotations'
  <2> SUFFICES ASSUME NEW u \in Active', reqs'[u].step = "rotate"
               PROVE  /\ reqs'[u].sent.remember \in 1 .. Len(tokens')
                      /\ Rooted(reqs'[u].now, tokens'[reqs'[u].sent.remember].root, reqs'[u].raced, Ends({u})')
    BY DEF SoundRotations, SoundRotation
  <2>1. SoundRotation(u, reqs'[u])
    BY <1>2 DEF AuthInv, SoundRotations
  <2>2. QED BY <1>4, <2>1 DEF SoundRotation, Rooted
<1>10. ServedBefore'
  BY <1>2 DEF AuthInv, ServedBefore, OutWhenDisabled, Served
<1>11. QED BY <1>1, <1>6, <1>7, <1>8, <1>9, <1>10 DEF AuthInv

\* What an answer brings is as sound as what was held.
LEMMA DeliverInv == ASSUME AuthInv, NEW s \in Slots, Deliver(s) PROVE AuthInv'
<1> DEFINE r == reqs[s]
           held == jar[r.dev]
           kept == [session |-> IF r.set.session = NoSession THEN held.session ELSE r.set.session,
                    remember |-> IF r.set.remember = NoToken THEN held.remember ELSE r.set.remember]
           put == IF r.answer = "bye" THEN NoCookies ELSE kept
<1>1. /\ r.step = "done" /\ jar' = [jar EXCEPT ![r.dev] = put] /\ reqs' = [reqs EXCEPT ![s] = Free]
      /\ UNCHANGED <<clock, account, tokens, disabledAt>>
  BY DEF Deliver
<1>2. /\ AuthTypeOK /\ Past /\ SoundSessions /\ r \in Request /\ r.set \in Cookies /\ InPast(r.set)
      /\ Sound(r.set.session)
  BY <1>1, Underway DEF AuthInv
<1>3. r.dev \in Devices
  BY <1>1, <1>2 DEF Request
<1>4. held \in Cookies /\ InPast(held) /\ Sound(held.session)
  BY <1>2, <1>3, FieldsOK DEF Past, SoundSessions
<1> HIDE DEF held
<1>5. kept \in Cookies /\ InPast(kept) /\ Sound(kept.session)
  BY <1>2, <1>4 DEF Cookies, InPast
<1> HIDE DEF kept
<1>6. InPast(NoCookies) /\ Sound(NoCookies.session) /\ NoCookies \in Cookies
  BY <1>2, Nothing, NoCookiesSound, FieldsOK DEF InPast
<1>7. put \in Cookies /\ InPast(put) /\ Sound(put.session)
  BY <1>5, <1>6
<1> HIDE DEF put
<1>8. jar' \in [Devices -> Cookies] /\ \A d \in Devices : jar'[d] = IF d = r.dev THEN put ELSE jar[d]
  BY <1>1, <1>2, <1>3, <1>7 DEF AuthTypeOK
<1>9. \A d \in Devices : InPast(jar'[d]) /\ Sound(jar'[d].session)
  BY <1>2, <1>7, <1>8 DEF Past, SoundSessions
<1>10. reqs' \in [Slots -> Request \cup {Free}] /\ \A u \in Slots : reqs'[u] \in {reqs[u], Free}
  BY <1>1, <1>2 DEF AuthTypeOK
<1>11. QED BY <1>1, <1>2, <1>8, <1>9, <1>10, QuietInv DEF AuthTypeOK

\* Lost answers, sessions that run out, the account enabled again, and steps of others.
LEMMA QuietStepsInv ==
  ASSUME AuthInv,
         \/ \E s \in Slots : LoseAnswer(s)
         \/ \E d \in Devices : IdleOut(d)
         \/ Enable \/ UNCHANGED vars
  PROVE  AuthInv'
<1>1. AuthTypeOK /\ \A d \in Devices : InPast(jar[d]) /\ Sound(jar[d].session)
  BY DEF AuthInv, Past, SoundSessions
<1>2. CASE \E s \in Slots : LoseAnswer(s)
  <2>1. PICK s \in Slots : LoseAnswer(s)
    BY <1>2
  <2>2. reqs' \in [Slots -> Request \cup {Free}] /\ \A u \in Slots : reqs'[u] \in {reqs[u], Free}
    BY <1>1, <2>1 DEF AuthTypeOK, LoseAnswer
  <2>3. QED BY <1>1, <2>1, <2>2, QuietInv DEF AuthTypeOK, LoseAnswer
<1>3. CASE \E d \in Devices : IdleOut(d)
  <2>1. PICK d \in Devices : IdleOut(d)
    BY <1>3
  <2> DEFINE put == [jar[d] EXCEPT !.session = NoSession]
  <2>2. jar' = [jar EXCEPT ![d] = put] /\ UNCHANGED <<clock, account, tokens, reqs, disabledAt>>
    BY <2>1 DEF IdleOut
  <2>3. jar[d] \in Cookies /\ InPast(jar[d]) /\ clock \in Nat
    BY <1>1, FieldsOK
  <2>4. put \in Cookies /\ put.session = NoSession /\ put.remember = jar[d].remember
    BY <2>3, Nothing DEF Cookies
  <2> HIDE DEF put
  <2>5. InPast(put) /\ Sound(put.session)
    BY <2>3, <2>4, Nothing, NoCookiesSound DEF InPast
  <2>6. jar' \in [Devices -> Cookies] /\ \A e \in Devices : jar'[e] = IF e = d THEN put ELSE jar[e]
    BY <1>1, <2>2, <2>4 DEF AuthTypeOK
  <2>7. \A e \in Devices : InPast(jar'[e]) /\ Sound(jar'[e].session)
    BY <1>1, <2>5, <2>6
  <2>8. QED BY <1>1, <2>2, <2>6, <2>7, QuietInv DEF AuthTypeOK
<1>4. CASE Enable
  BY <1>1, <1>4, QuietInv DEF AuthTypeOK, Enable
<1>5. CASE UNCHANGED vars
  BY <1>1, <1>5, QuietInv DEF AuthTypeOK, vars
<1>6. QED BY <1>2, <1>3, <1>4, <1>5

\* Signing everybody out leaves no token in force.
LEMMA EndAllFacts ==
  ASSUME AuthTypeOK
  PROVE  /\ SameButEnded(EndAll(tokens))
         /\ \A i \in 1 .. Len(tokens) : EndAll(tokens)[i].ended # ""
<1> DEFINE ts == EndAll(tokens)
           row(i) == [tokens[i] EXCEPT !.ended = IF @ = "" THEN "signed out" ELSE @]
<1>1. tokens \in Seq(Token) /\ Len(tokens) \in Nat /\ DOMAIN tokens = 1 .. Len(tokens)
  BY FieldsOK, LenProperties DEF AuthTypeOK
<1>2. \A i \in 1 .. Len(tokens) :
        /\ row(i) \in Token /\ row(i).root = tokens[i].root /\ row(i).raced = tokens[i].raced
        /\ row(i).created = tokens[i].created /\ row(i).ended # ""
  BY <1>1, FieldsOK DEF Token
<1>3. ts = [i \in 1 .. Len(tokens) |-> row(i)]
  BY <1>1, Zenon DEF EndAll
<1> HIDE DEF row
<1>4. /\ ts \in [1 .. Len(tokens) -> Token] /\ DOMAIN ts = 1 .. Len(tokens)
      /\ \A i \in 1 .. Len(tokens) : ts[i] = row(i)
  BY <1>2, <1>3
<1> HIDE DEF ts
<1>5. ts \in Seq(Token)
  BY <1>1, <1>4, SeqDef
<1>6. Len(ts) = Len(tokens)
  <2>1. Len(ts) \in Nat /\ 1 .. Len(ts) = 1 .. Len(tokens)
    BY <1>4, <1>5, LenProperties
  <2>2. \A x : x \in 1 .. Len(ts) <=> x \in 1 .. Len(tokens)
    BY <2>1, Zenon
  <2>3. Len(ts) \in Nat /\ Len(tokens) \in Nat
    BY <1>1, <2>1, Zenon
  <2>4. QED BY <2>2, <2>3, SameUpTo, Zenon
<1>7. SameButEnded(ts) /\ \A i \in 1 .. Len(tokens) : ts[i].ended # ""
  BY <1>2, <1>4, <1>5, <1>6 DEF SameButEnded
<1>8. QED BY <1>7 DEF ts

\* What remains of the tokens is sound in the new epoch.
LEMMA AllEnded ==
  ASSUME AuthInv, tokens' = EndAll(tokens)
  PROVE  /\ tokens' \in Seq(Token) /\ Len(tokens') = Len(tokens) /\ SoundTokens'
         /\ \A i \in 1 .. Len(tokens) : /\ tokens'[i].root = tokens[i].root
                                        /\ tokens'[i].created = tokens[i].created
<1>1. SameButEnded(tokens') /\ \A i \in 1 .. Len(tokens) : tokens'[i].ended # ""
  BY EndAllFacts DEF AuthInv
<1>2. SoundTokens'
  BY <1>1 DEF SameButEnded, SoundTokens, SoundToken
<1>3. QED BY <1>1, <1>2 DEF SameButEnded

\* A change, a reset or a command is committed: its slot is free or answered, no token is
\* left in force, and the new epoch is a moment every credential was already sound for.
LEMMA CommitInv ==
  ASSUME AuthInv, NEW s \in Changing, NEW r \in Request \cup {Free},
         reqs' = [reqs EXCEPT ![s] = r], UNCHANGED <<clock, jar>>, tokens' = EndAll(tokens),
         account' \in [epoch: Nat, disabled: BOOLEAN], account'.epoch = reqs[s].now, disabledAt' \in Nat,
         r # Free => /\ r.step = "done" /\ r.now = reqs[s].now /\ r.sent = reqs[s].sent
                     /\ InPast(r.set) /\ r.set.session.root = r.set.session.iat
                     /\ account'.disabled => r.now <= disabledAt',
         \A u \in Active : account'.disabled /\ Served(reqs[u]) => reqs[u].now <= disabledAt'
  PROVE  AuthInv'
<1>1. /\ AuthTypeOK /\ Past /\ SoundSessions /\ s \in Active /\ s \in Slots /\ reqs[s] \in Request
      /\ reqs[s].now \in Nat /\ reqs[s].now <= clock /\ clock \in Nat /\ Len(tokens) \in Nat
  BY ActiveFacts, FieldsOK DEF AuthInv, Past
<1>2. tokens' \in Seq(Token) /\ Len(tokens') = Len(tokens) /\ SoundTokens'
      /\ \A i \in 1 .. Len(tokens) : tokens'[i].root = tokens[i].root /\ tokens'[i].created = tokens[i].created
  BY AllEnded
<1>3. /\ reqs'[s] = r /\ \A u \in Slots \ {s} : reqs'[u] = reqs[u]
      /\ AuthTypeOK'
  BY <1>1, <1>2 DEF AuthTypeOK
<1>4. /\ Active' \subseteq Active /\ (s \in Active' => r # Free)
      /\ \A u \in Active' : reqs'[u].now = reqs[u].now /\ reqs'[u].sent = reqs[u].sent
  BY <1>1, <1>3 DEF Active
<1>5. Changing' \subseteq Changing \ {s} /\ \A u \in Changing' : reqs'[u].now = reqs[u].now
  <2>1. r.step \in {"free", "done"}
    BY DEF Free
  <2>2. s \notin Changing'
    BY <1>3, <2>1 DEF Changing
  <2>3. QED BY <1>3, <2>2 DEF Changing
<1>6. \A own : s \notin own => Ends(own)' \subseteq Ends(own)
  <2> SUFFICES ASSUME NEW own, s \notin own, NEW e \in Ends(own)' PROVE e \in Ends(own)
    OBVIOUS
  <2>1. e = reqs[s].now \/ \E p \in Changing' \ own : e = reqs'[p].now
    BY DEF Ends
  <2>2. CASE e = reqs[s].now
    BY <2>2 DEF Ends
  <2>3. CASE \E p \in Changing' \ own : e = reqs'[p].now
    <3>1. PICK p \in Changing' \ own : e = reqs'[p].now
      BY <2>3
    <3>2. p \in Changing \ own /\ e = reqs[p].now
      BY <1>5, <3>1
    <3>3. QED BY <3>2 DEF Ends
  <2>4. QED BY <2>1, <2>2, <2>3
<1>7. \A c \in Session : Sound(c) => Rooted(c.iat, c.root, c.raced, Ends({})')
  BY <1>6 DEF Sound, Rooted
<1>8. Past'
  <2>1. account'.epoch <= clock'
    BY <1>1
  <2>2. \A i \in 1 .. Len(tokens') : tokens'[i].created <= clock'
    BY <1>1, <1>2 DEF Past
  <2>3. (\A d \in Devices : InPast(jar[d])') /\ (\A u \in Active' : InPast(reqs[u].sent)')
    BY <1>1, <1>2, <1>4 DEF Past, InPast
  <2>4. \A u \in Active' : InPast(reqs[u].set)'
    BY <1>1, <1>2, <1>3, <1>4, ActiveFacts DEF Past, InPast
  <2>5. QED BY <1>1, <1>4, <2>1, <2>2, <2>3, <2>4 DEF Past
<1>9. SoundSessions'
  <2>1. \A d \in Devices : Sound(jar[d].session)'
    BY <1>1, <1>7, FieldsOK DEF SoundSessions, Sound
  <2>2. \A u \in Active' : Sound(reqs[u].sent.session)'
    BY <1>1, <1>4, <1>7, FieldsOK DEF SoundSessions, Sound
  <2>3. \A u \in Active' : Sound(reqs[u].set.session)'
    <3> TAKE u \in Active'
    <3>1. CASE u = s
      <4>1. reqs'[u] = r /\ r # Free /\ r.set.session.root = r.set.session.iat
        BY <1>3, <1>4, <3>1
      <4>2. r.set.session.iat \in Nat
        BY <4>1 DEF Request, AnyRequest, Cookies, Session
      <4>3. QED BY <4>1, <4>2 DEF Sound, Rooted
    <3>2. CASE u # s
      <4>1. reqs'[u].set = reqs[u].set /\ reqs[u].set.session \in Session /\ u \in Active
        BY <1>1, <1>3, <1>4, <3>2, ActiveFacts, FieldsOK
      <4>2. QED BY <1>1, <1>7, <4>1 DEF SoundSessions, Sound
    <3>3. QED BY <3>1, <3>2
  <2>4. QED BY <2>1, <2>2, <2>3 DEF SoundSessions
<1>10. SoundRotations'
  <2> SUFFICES ASSUME NEW u \in Active', reqs'[u].step = "rotate"
               PROVE  /\ reqs'[u].sent.remember \in 1 .. Len(tokens')
                      /\ Rooted(reqs'[u].now, tokens'[reqs'[u].sent.remember].root, reqs'[u].raced, Ends({u})')
    BY DEF SoundRotations, SoundRotation
  <2> DEFINE k == reqs[u].sent.remember
  <2>1. u # s /\ reqs'[u] = reqs[u] /\ u \in Active
    BY <1>1, <1>3, <1>4, ActiveFacts
  <2>2. k \in 1 .. Len(tokens) /\ Rooted(reqs[u].now, tokens[k].root, reqs[u].raced, Ends({u}))
    BY <2>1 DEF AuthInv, SoundRotations, SoundRotation
  <2>3. Ends({u})' \subseteq Ends({u})
    BY <1>6, <2>1
  <2>4. Rooted(reqs[u].now, tokens[k].root, reqs[u].raced, Ends({u})')
    BY <2>2, <2>3 DEF Rooted
  <2>5. QED BY <1>2, <2>1, <2>2, <2>4
<1>11. ServedBefore'
  <2> SUFFICES ASSUME NEW u \in Active', account'.disabled, Served(reqs'[u])
               PROVE  reqs'[u].now <= disabledAt'
    BY DEF ServedBefore, OutWhenDisabled, Served
  <2>1. CASE u = s
    BY <1>3, <1>4, <2>1
  <2>2. CASE u # s
    BY <1>1, <1>3, <1>4, <2>2, ActiveFacts
  <2>3. QED BY <2>1, <2>2
<1>12. QED BY <1>2, <1>3, <1>8, <1>9, <1>10, <1>11 DEF AuthInv

\* A change of password begins a new epoch; the caller's new session belongs to it.
LEMMA ChangePasswordInv == ASSUME AuthInv, NEW s \in Slots, ChangePassword(s) PROVE AuthInv'
<1> DEFINE q == reqs[s]
           cookies == [NoCookies EXCEPT !.session = [iat |-> q.now, root |-> q.now, raced |-> FALSE]]
           r == Answer(q, "ok", cookies)
<1>1. /\ q.step = "verify" /\ account' = [account EXCEPT !.epoch = q.now] /\ tokens' = EndAll(tokens)
      /\ reqs' = [reqs EXCEPT ![s] = r] /\ UNCHANGED <<clock, jar, disabledAt>>
  BY DEF ChangePassword
<1>2. /\ AuthTypeOK /\ Past /\ s \in Active /\ q \in Request /\ q.now \in Nat
      /\ q.now <= clock /\ OutWhenDisabled(q) /\ clock \in Nat /\ Len(tokens) \in Nat
  BY <1>1, Underway, FieldsOK DEF AuthInv
<1>3. s \in Changing
  BY <1>1, <1>2 DEF Request, Changing
<1>4. /\ account' \in [epoch: Nat, disabled: BOOLEAN] /\ account'.epoch = q.now
      /\ account'.disabled = account.disabled
  <2>1. account \in [epoch: Nat, disabled: BOOLEAN]
    BY <1>2 DEF AuthTypeOK
  <2>2. QED BY <1>1, <1>2, <2>1
<1>5. /\ cookies \in Cookies /\ cookies.session.iat = q.now /\ cookies.session.root = q.now
      /\ cookies.remember = 0
  BY <1>2, Nothing DEF Cookies, Session
<1> HIDE DEF cookies
<1>6. /\ r \in Request /\ r.now = q.now /\ r.sent = q.sent /\ r.step = "done" /\ r.set = cookies
  BY <1>1, <1>2, <1>5 DEF Answer, Request, AnyRequest
<1> HIDE DEF r
<1>7. InPast(r.set) /\ r.set.session.root = r.set.session.iat
  BY <1>2, <1>5, <1>6 DEF InPast
<1>8. \A u \in Active : account'.disabled /\ Served(reqs[u]) => reqs[u].now <= disabledAt'
  BY <1>1, <1>4 DEF AuthInv, ServedBefore, OutWhenDisabled
<1>9. account'.disabled => r.now <= disabledAt'
  BY <1>1, <1>2, <1>4, <1>6 DEF OutWhenDisabled, Served
<1>10. disabledAt' \in Nat
  BY <1>1, <1>2 DEF AuthTypeOK
<1>11. QED BY <1>1, <1>3, <1>4, <1>6, <1>7, <1>8, <1>9, <1>10, CommitInv

\* The commands of manage_users.py commit a reset password or a disabled account.
LEMMA CommandCommitInv ==
  ASSUME AuthInv, NEW s \in Slots, ResetPassword(s) \/ Disable(s) PROVE AuthInv'
<1>1. /\ reqs[s].step = "commit" /\ reqs' = [reqs EXCEPT ![s] = Free] /\ tokens' = EndAll(tokens)
      /\ UNCHANGED <<clock, jar>>
  BY DEF ResetPassword, Disable
<1>2. AuthTypeOK /\ s \in Changing /\ reqs[s].now \in Nat /\ clock \in Nat
  BY <1>1, Underway, FieldsOK DEF AuthInv, Changing
<1>3. CASE ResetPassword(s)
  <2>1. account \in [epoch: Nat, disabled: BOOLEAN] /\ disabledAt \in Nat
    BY <1>2 DEF AuthTypeOK
  <2>2. account' = [account EXCEPT !.epoch = reqs[s].now] /\ disabledAt' = disabledAt
    BY <1>3 DEF ResetPassword
  <2>3. /\ account' \in [epoch: Nat, disabled: BOOLEAN] /\ account'.epoch = reqs[s].now
        /\ account'.disabled = account.disabled
    BY <1>2, <2>1, <2>2
  <2>4. \A u \in Active : account'.disabled /\ Served(reqs[u]) => reqs[u].now <= disabledAt'
    BY <2>2, <2>3 DEF AuthInv, ServedBefore, OutWhenDisabled
  <2>5. QED BY <1>1, <1>2, <2>1, <2>2, <2>3, <2>4, CommitInv
<1>4. CASE Disable(s)
  <2>1. account' = [epoch |-> reqs[s].now, disabled |-> TRUE] /\ disabledAt' = clock
    BY <1>4 DEF Disable
  <2>2. \A u \in Active : reqs[u].now <= disabledAt'
    BY <2>1 DEF AuthInv, Past
  <2>3. QED BY <1>1, <1>2, <2>1, <2>2, CommitInv
<1>5. QED BY <1>3, <1>4

\* A request or a command begins with cookies that were held, or none, and later than
\* everything else.
Begins(s, r) ==
  /\ reqs[s] = Free /\ clock' = clock + 1 /\ reqs' = [reqs EXCEPT ![s] = r]
  /\ UNCHANGED <<account, tokens, jar, disabledAt>>
  /\ r.now = clock + 1 /\ r.set = NoCookies /\ r.answer = ""
  /\ r.step \in {"login", "logout", "auth", "commit"}
  /\ InPast(r.sent) /\ Sound(r.sent.session)

LEMMA BeginInv ==
  ASSUME AuthInv, NEW s \in Slots, NEW r \in Request, Begins(s, r)
  PROVE  AuthInv'
<1>1. /\ reqs[s] = Free /\ clock' = clock + 1 /\ reqs' = [reqs EXCEPT ![s] = r]
      /\ UNCHANGED <<account, tokens, jar, disabledAt>>
  BY DEF Begins
<1>2. /\ AuthTypeOK /\ Past /\ SoundSessions /\ clock \in Nat /\ Len(tokens) \in Nat
      /\ r.sent \in Cookies /\ InPast(r.sent) /\ Sound(r.sent.session)
  BY FieldsOK DEF AuthInv, Begins, Request, AnyRequest
<1>3. /\ r \in Request /\ r.now = clock + 1 /\ r.set = NoCookies /\ r.answer = ""
      /\ r.step \in {"login", "logout", "auth", "commit"} /\ r # Free
  BY <1>2, ActiveFacts DEF Begins
<1>4. /\ reqs'[s] = r /\ \A u \in Slots \ {s} : reqs'[u] = reqs[u]
      /\ AuthTypeOK'
  <2>1. reqs \in [Slots -> Request \cup {Free}] /\ clock + 1 \in Nat
    BY <1>2 DEF AuthTypeOK
  <2>2. reqs' \in [Slots -> Request \cup {Free}] /\ reqs'[s] = r /\ \A u \in Slots \ {s} : reqs'[u] = reqs[u]
    BY <1>1, <1>3, <2>1
  <2>3. QED BY <1>1, <1>2, <2>1, <2>2 DEF AuthTypeOK
<1>5. s \notin Active /\ Active' = Active \cup {s} /\ \A u \in Active : u # s /\ reqs'[u] = reqs[u]
  BY <1>1, <1>2, <1>3, <1>4, ActiveFacts DEF Active
<1>6. Changing' \subseteq Changing \cup {s}
  BY <1>4 DEF Changing
<1>7. \A own : Ends(own)' \subseteq Ends(own) \cup {clock + 1}
  <2> SUFFICES ASSUME NEW own, NEW e \in Ends(own)', e # clock + 1 PROVE e \in Ends(own)
    OBVIOUS
  <2>1. e = account.epoch \/ \E p \in Changing' \ own : e = reqs'[p].now
    BY <1>1 DEF Ends
  <2>2. CASE e = account.epoch
    BY <2>2 DEF Ends
  <2>3. CASE \E p \in Changing' \ own : e = reqs'[p].now
    <3>1. PICK p \in Changing' \ own : e = reqs'[p].now
      BY <2>3
    <3>2. p \in Changing \ own /\ e = reqs[p].now
      BY <1>2, <1>3, <1>4, <1>5, <1>6, <3>1, ActiveFacts
    <3>3. QED BY <3>2 DEF Ends
  <2>4. QED BY <2>1, <2>2, <2>3
<1>8. \A c \in Session : c.iat <= clock /\ Sound(c) => Rooted(c.iat, c.root, c.raced, Ends({})')
  BY <1>2, <1>7, RootedKept, FieldsOK DEF Sound
<1>9. Past'
  <2>1. account'.epoch <= clock'
    BY <1>1, <1>2, FieldsOK DEF Past
  <2>2. \A i \in 1 .. Len(tokens') : tokens'[i].created <= clock'
    BY <1>1, <1>2, FieldsOK DEF Past
  <2>3. \A c \in Cookies : InPast(c) => c.session.iat <= clock' /\ c.remember <= Len(tokens')
    BY <1>1, <1>2, FieldsOK DEF InPast
  <2>4. (\A e \in Devices : InPast(jar[e])') /\ (\A u \in Active : InPast(reqs[u].sent)' /\ InPast(reqs[u].set)')
    BY <1>1, <1>2, <1>5, <2>3, FieldsOK DEF Past, InPast
  <2>5. InPast(reqs[s].sent)' /\ InPast(reqs[s].set)'
    <3>1. InPast(NoCookies)
      BY <1>2, NoCookiesSound DEF InPast
    <3>2. reqs'[s].sent = r.sent /\ reqs'[s].set = NoCookies /\ NoCookies \in Cookies
      BY <1>3, <1>4, Nothing
    <3>3. QED BY <1>2, <2>3, <3>1, <3>2 DEF InPast
  <2>6. \A u \in Active : reqs'[u].now \in Nat /\ reqs'[u].now > 0 /\ reqs'[u].now <= clock
    BY <1>2, <1>5, FieldsOK DEF Past
  <2>7. \A u \in Active' : reqs'[u].now > 0 /\ reqs'[u].now <= clock'
    <3>1. \A u \in Active : reqs'[u].now > 0 /\ reqs'[u].now <= clock + 1
      BY <1>2, <2>6
    <3>2. reqs'[s].now = clock + 1 /\ clock + 1 > 0 /\ clock + 1 <= clock + 1
      <4>1. clock + 1 > 0 /\ clock + 1 <= clock + 1
        BY <1>2
      <4>2. QED BY <1>3, <1>4, <4>1
    <3>3. QED BY <1>1, <1>5, <3>1, <3>2
  <2>8. \A u, v \in Active' : reqs'[u].now = reqs'[v].now => u = v
    <3>1. \A u \in Active : reqs'[u].now # clock + 1
      BY <1>2, <2>6
    <3>2. \A u, v \in Active : reqs'[u].now = reqs'[v].now => u = v
      BY <1>2, <1>5 DEF Past
    <3>3. reqs'[s].now = clock + 1
      BY <1>3, <1>4
    <3>4. QED BY <1>5, <3>1, <3>2, <3>3
  <2>9. QED BY <1>5, <1>6, <2>1, <2>2, <2>4, <2>5, <2>7, <2>8 DEF Past
<1>10. SoundSessions'
  <2>1. \A e \in Devices : Sound(jar[e].session)'
    BY <1>1, <1>2, <1>8, FieldsOK DEF Past, InPast, SoundSessions, Sound
  <2>2. \A u \in Active : Sound(reqs[u].sent.session)' /\ Sound(reqs[u].set.session)'
    BY <1>2, <1>5, <1>8, FieldsOK DEF Past, InPast, SoundSessions, Sound
  <2>3. Sound(reqs[s].sent.session)'
    BY <1>2, <1>3, <1>4, <1>8, FieldsOK DEF InPast, Sound
  <2>4. Sound(reqs[s].set.session)'
    BY <1>3, <1>4, Nothing DEF Sound, Rooted
  <2>5. QED BY <1>5, <2>1, <2>2, <2>3, <2>4 DEF SoundSessions
<1>11. SoundTokens'
  BY <1>1 DEF AuthInv, SoundTokens, SoundToken
<1>12. SoundRotations'
  <2> SUFFICES ASSUME NEW u \in Active', reqs'[u].step = "rotate"
               PROVE  /\ reqs'[u].sent.remember \in 1 .. Len(tokens')
                      /\ Rooted(reqs'[u].now, tokens'[reqs'[u].sent.remember].root, reqs'[u].raced, Ends({u})')
    BY DEF SoundRotations, SoundRotation
  <2> DEFINE k == reqs[u].sent.remember
  <2>1. u \in Active /\ reqs'[u] = reqs[u]
    BY <1>3, <1>4, <1>5
  <2>2. k \in 1 .. Len(tokens) /\ Rooted(reqs[u].now, tokens[k].root, reqs[u].raced, Ends({u}))
    BY <2>1 DEF AuthInv, SoundRotations, SoundRotation
  <2>3. reqs[u].now \in Nat /\ reqs[u].now <= clock
    BY <1>2, <2>1, FieldsOK DEF Past
  <2>4. Rooted(reqs[u].now, tokens[k].root, reqs[u].raced, Ends({u})')
    BY <1>2, <1>7, <2>2, <2>3, RootedKept
  <2>5. QED BY <1>1, <2>1, <2>2, <2>4
<1>13. ServedBefore'
  <2>1. \A u \in Active : OutWhenDisabled(reqs[u])'
    BY <1>1, <1>5 DEF AuthInv, ServedBefore, OutWhenDisabled, Served
  <2>2. OutWhenDisabled(reqs[s])'
    BY <1>3, <1>4 DEF OutWhenDisabled, Served
  <2>3. QED BY <1>5, <2>1, <2>2 DEF ServedBefore
<1>14. QED BY <1>4, <1>9, <1>10, <1>11, <1>12, <1>13 DEF AuthInv

\* A browser sends what it holds; a command carries no cookies.
LEMMA SendInv ==
  ASSUME AuthInv, NEW s \in Slots, NEW d \in Devices, NEW kind \in Kinds, Send(s, d, kind)
  PROVE  AuthInv'
<1> DEFINE first == IF kind \in {"login", "login_remember"} THEN "login"
                    ELSE IF kind = "logout" THEN "logout" ELSE "auth"
           r == [dev |-> d, kind |-> kind, now |-> clock + 1, sent |-> jar[d], step |-> first,
                 via |-> "", raced |-> FALSE, answer |-> "", set |-> NoCookies]
<1>1. /\ reqs[s] = Free /\ clock' = clock + 1 /\ reqs' = [reqs EXCEPT ![s] = r]
      /\ UNCHANGED <<account, tokens, jar, disabledAt>>
  BY DEF Send
<1>2. clock \in Nat /\ jar[d] \in Cookies /\ InPast(jar[d]) /\ Sound(jar[d].session)
  BY FieldsOK DEF AuthInv, Past, SoundSessions
<1>3. /\ r.now = clock + 1 /\ r.sent = jar[d] /\ r.set = NoCookies /\ r.answer = ""
      /\ r.step \in {"login", "logout", "auth"} /\ r.dev = d /\ r.kind = kind
  OBVIOUS
<1>4. r \in Request
  <2>1. first \in {"login", "logout", "auth"} /\ clock + 1 \in Nat /\ NoCookies \in Cookies
    BY <1>2, Nothing
  <2> HIDE DEF first
  <2>2. r \in AnyRequest
    BY <1>2, <2>1 DEF AnyRequest
  <2>3. kind \notin Commands
    BY DEF Kinds, Commands
  <2>4. QED BY <2>1, <2>2, <2>3 DEF Request
<1> HIDE DEF r
<1>5. QED BY <1>1, <1>2, <1>3, <1>4, BeginInv DEF Begins

LEMMA CommandInv ==
  ASSUME AuthInv, NEW s \in Slots, NEW kind \in Commands, Command(s, kind)
  PROVE  AuthInv'
<1> DEFINE r == [dev |-> "console", kind |-> kind, now |-> clock + 1, sent |-> NoCookies, step |-> "commit",
                 via |-> "", raced |-> FALSE, answer |-> "", set |-> NoCookies]
<1>1. /\ reqs[s] = Free /\ clock' = clock + 1 /\ reqs' = [reqs EXCEPT ![s] = r]
      /\ UNCHANGED <<account, tokens, jar, disabledAt>>
  BY DEF Command
<1>2. clock \in Nat /\ Len(tokens) \in Nat /\ NoCookies \in Cookies
  BY FieldsOK, Nothing DEF AuthInv
<1>3. r \in Request
  <2>1. kind \in Kinds \cup Commands /\ clock + 1 \in Nat
    BY <1>2
  <2>2. r \in AnyRequest
    BY <1>2, <2>1 DEF AnyRequest
  <2>3. QED BY <2>2 DEF Request
<1>4. r.now = clock + 1 /\ r.sent = NoCookies /\ r.set = NoCookies /\ r.answer = "" /\ r.step = "commit"
  OBVIOUS
<1> HIDE DEF r
<1>5. InPast(NoCookies) /\ Sound(NoCookies.session)
  BY <1>2, NoCookiesSound DEF InPast
<1>6. QED BY <1>1, <1>3, <1>4, <1>5, BeginInv DEF Begins

-----------------------------------------------------------------------------
\* Every step keeps the invariant.
LEMMA NextAuthInv == AuthInv /\ [Next]_vars => AuthInv'
<1> SUFFICES ASSUME AuthInv, [Next]_vars PROVE AuthInv' OBVIOUS
<1>1. CASE \E s \in Slots, d \in Devices, kind \in Kinds : Send(s, d, kind)
  BY <1>1, SendInv
<1>2. CASE \E s \in Slots : AuthBySession(s) \/ CheckToken(s) \/ Rotate(s)
  BY <1>2, AuthBySessionInv, CheckTokenInv, RotateInv
<1>3. CASE \E s \in Slots : ChangePassword(s) \/ ReadAccount(s) \/ Issue(s) \/ Deliver(s)
  BY <1>3, ChangePasswordInv, ReadAccountInv, IssueInv, DeliverInv
<1>4. CASE \E s \in Slots : \/ Refuse(s) \/ WrongPassword(s) \/ Logout(s)
                            \/ \E t \in DOMAIN tokens : RevokeDevice(s, t)
  BY <1>4, PlainAnswersInv
<1>5. CASE \/ \E s \in Slots : LoseAnswer(s)
           \/ \E d \in Devices : IdleOut(d)
           \/ Enable \/ UNCHANGED vars
  BY <1>5, QuietStepsInv
<1>6. CASE \E s \in Slots : \/ ResetPassword(s) \/ Disable(s)
                            \/ \E kind \in Commands : Command(s, kind)
  BY <1>6, CommandCommitInv, CommandInv
<1>7. QED BY <1>1, <1>2, <1>3, <1>4, <1>5, <1>6 DEF Next

\* In every reachable state a credential that is newer than the epoch, or than the epoch a
\* change under way will write, descends from a login after that moment or is marked as
\* renewed while such a change was under way.
THEOREM AuthInvariance == Spec => []AuthInv
<1>1. QED BY InitAuthInv, NextAuthInv, PTL DEF Spec

\* A disabled account serves nobody (the account row auth.py reads on every request).
THEOREM DisabledIsOutHolds == Spec => []DisabledIsOut
<1>1. AuthInv => DisabledIsOut
  <2> SUFFICES ASSUME AuthInv, account.disabled, NEW s \in Slots,
                      reqs[s].step = "done", reqs[s].answer = "ok"
               PROVE  reqs[s].now <= disabledAt
    BY DEF DisabledIsOut
  <2>1. QED BY Underway DEF OutWhenDisabled, Served
<1>2. QED BY <1>1, AuthInvariance, PTL

\* Whoever is admitted is one whose login came after the epoch, or whose token was rotated
\* while a change that signs everybody out was under way.
LEMMA AdmittedIsSound ==
  ASSUME AuthInv, Next, NEW s \in Slots, Admitted(s)
  PROVE  LET c == Credential(reqs[s], reqs'[s].via) IN c.root >= account.epoch \/ c.raced
<1>1. /\ AuthTypeOK /\ reqs[s].step = "auth" /\ reqs'[s].step # "auth"
      /\ reqs'[s].step # "free" /\ reqs'[s].answer # "unauthenticated"
      /\ reqs \in [Slots -> Request \cup {Free}]
  BY DEF AuthInv, AuthTypeOK, Past, Admitted
<1>2. s \in Active /\ reqs[s] \in Request /\ reqs[s].sent \in Cookies /\ InPast(reqs[s].sent)
      /\ Sound(reqs[s].sent.session)
  BY <1>1, Underway
<1>3. AuthBySession(s) \/ CheckToken(s)
  <2>1. \A u \in Slots, d \in Devices, kind \in Kinds : ~Send(u, d, kind)
    <3> SUFFICES ASSUME NEW u \in Slots, NEW d \in Devices, NEW kind \in Kinds, Send(u, d, kind)
                 PROVE  FALSE
      OBVIOUS
    <3>1. u # s
      <4>1. reqs[u] = Free /\ Free.step = "free"
        BY DEF Send, Free
      <4>2. QED BY <1>1, <4>1
    <3>2. PICK r : reqs' = [reqs EXCEPT ![u] = r]
      BY DEF Send
    <3>3. reqs'[s] = reqs[s]
      BY <1>1, <3>1, <3>2
    <3>4. QED BY <1>1, <3>3
  <2>2. \A u \in Slots : (AuthBySession(u) \/ CheckToken(u)) => u = s
    BY <1>1 DEF AuthBySession, CheckToken
  <2>3. \A u \in Slots : ~Rotate(u) /\ ~ChangePassword(u) /\ ~WrongPassword(u) /\ ~ReadAccount(u)
                         /\ ~Issue(u) /\ ~Logout(u) /\ (\A t \in DOMAIN tokens : ~RevokeDevice(u, t))
    BY <1>1 DEF Rotate, ChangePassword, WrongPassword, ReadAccount, Issue, Logout, RevokeDevice
  <2>4. \A u \in Slots : ~Deliver(u) /\ ~LoseAnswer(u)
    BY <1>1 DEF Deliver, LoseAnswer, Free
  <2>5. \A u \in Slots : ~Refuse(u)
    <3> SUFFICES ASSUME NEW u \in Slots, Refuse(u) PROVE FALSE
      OBVIOUS
    <3>1. reqs' = [reqs EXCEPT ![u] = Answer(reqs[u], "unauthenticated", NoCookies)]
      BY DEF Refuse
    <3>2. u = s
      BY <1>1, <3>1
    <3>3. reqs'[s] = Answer(reqs[s], "unauthenticated", NoCookies)
      BY <1>1, <3>1, <3>2
    <3>4. QED BY <1>1, <1>2, <3>3 DEF Answer, Request, AnyRequest
  <2>6. ~(\E d \in Devices : IdleOut(d)) /\ ~Enable
    BY <1>1 DEF IdleOut, Enable
  <2>7. \A u \in Slots : ~ResetPassword(u) /\ ~Disable(u) /\ \A kind \in Commands : ~Command(u, kind)
    <3> SUFFICES ASSUME NEW u \in Slots, reqs[u] = Free \/ reqs[u].step = "commit",
                        \E r : reqs' = [reqs EXCEPT ![u] = r]
                 PROVE  FALSE
      BY DEF ResetPassword, Disable, Command
    <3>1. u # s
      BY <1>1 DEF Free
    <3>2. reqs'[s] = reqs[s]
      BY <1>1, <3>1
    <3>3. QED BY <1>1, <3>2
  <2>8. QED BY <2>1, <2>2, <2>3, <2>4, <2>5, <2>6, <2>7 DEF Next
<1>4. CASE AuthBySession(s)
  <2> DEFINE c == reqs[s].sent.session
  <2>1. c.iat >= account.epoch
    BY <1>4 DEF AuthBySession, SessionOK
  <2>2. c.raced \/ c.root >= account.epoch
    BY <1>2, <2>1 DEF Sound, Rooted, Ends
  <2>3. reqs'[s].via = "session"
    <3>1. reqs'[s] = Admit(reqs[s], "session", [NoCookies EXCEPT !.session = c])
      BY <1>1, <1>4 DEF AuthBySession
    <3>2. QED BY <1>2, <3>1 DEF Admit, Answer, Request, AnyRequest
  <2>4. QED BY <1>1, <2>2, <2>3 DEF Credential
<1>5. CASE CheckToken(s)
  <2> DEFINE k == reqs[s].sent.remember
  <2>1. TokenOK(k) /\ reqs'[s].via = "token"
    BY <1>1, <1>2, <1>5 DEF CheckToken, Request, AnyRequest
  <2>2. k \in Nat /\ k # 0 /\ k <= Len(tokens) /\ Len(tokens) \in Nat
    BY <1>1, <1>2, <2>1, FieldsOK DEF InPast, TokenOK, NoToken
  <2>3. SoundToken(tokens[k])
    BY <2>2 DEF AuthInv, SoundTokens
  <2>4. tokens[k].raced \/ tokens[k].root >= account.epoch
    BY <2>1, <2>3 DEF TokenOK, SoundToken
  <2>5. QED BY <1>1, <2>1, <2>4 DEF Credential
<1>6. QED BY <1>3, <1>4, <1>5

\* Signed out means signed out, for any number of browsers and requests (the epoch of
\* auth_store.py and its single-use tokens).
THEOREM SignedOutForGoodHolds == Spec => SignedOutForGood
<1>1. AuthInv /\ [Next]_vars =>
        [\A s \in Slots : Admitted(s) =>
           LET c == Credential(reqs[s], reqs'[s].via) IN c.root >= account.epoch \/ c.raced]_vars
  BY AdmittedIsSound
<1>2. QED BY <1>1, AuthInvariance, PTL DEF Spec, SignedOutForGood
=============================================================================

--------------------------- MODULE RequestsProofs ---------------------------
(***************************************************************************)
(* Proofs about Requests: what the handlers do is covered by a session,    *)
(* for any students, secrets, number of requests and restarts.             *)
(***************************************************************************)
EXTENDS Requests, TLAPS

\* One request's part of the invariant.
MetadataOf(r) ==
    r.at \in AtRouter =>
        IF r.under = NoSecret THEN ~r.id.secure
        ELSE /\ r.token # NoToken
             /\ r.token.secret = r.under
             /\ r.since <= r.token.exp
             /\ r.id = Identity(r.token.student, r.token.role, TRUE)
             /\ r.kind \in Own => r.as = r.token.student
             /\ r.kind = "promote" => r.token.role = "teacher"

ActOf(r) == r.at \in Acting /\ r.under = NoSecret => r.trusted

Good(r) ==
    /\ r.at \in {"idle", "done"} \/ r \in Requested
    /\ MetadataOf(r)
    /\ ActOf(r)

\* IInv is a property of each request by itself.
LEMMA OneByOne ==
    IInv <=> /\ time \in Nat
             /\ secret \in Secrets \cup {NoSecret}
             /\ router \in Routers
             /\ auth \in [Pages -> [at : {"closed", "loading", "ready"},
                                    token : Tokens \cup {NoToken}]]
             /\ DOMAIN call = Calls
             /\ \A c \in Calls : Good(call[c])
BY DEF IInv, TypeOK, MetadataAreVerified, ActsAreIdentified, Good, MetadataOf, ActOf

\* The invariant after a step, put together again.
LEMMA Rebuild ==
    ASSUME time' \in Nat, secret' \in Secrets \cup {NoSecret}, router' \in Routers,
           auth' \in [Pages -> [at : {"closed", "loading", "ready"},
                                token : Tokens \cup {NoToken}]],
           DOMAIN call' = Calls, \A c \in Calls : Good(call'[c])
    PROVE  IInv'
BY DEF IInv, TypeOK, MetadataAreVerified, ActsAreIdentified, Good, MetadataOf, ActOf

LEMMA EndedIsGood == \A r, answer : Good(Ended(r, answer))
BY DEF Good, Ended, MetadataOf, ActOf, AtRouter, Acting

\* A request that only moves on, between stages of the router or before them.
LEMMA MovesOn ==
    ASSUME NEW r, Good(r), r \in Requested, NEW at \in AtRouter, r.at \in AtRouter,
           at \in Acting => r.at \in Acting
    PROVE  Good([r EXCEPT !.at = at])
<1> DEFINE s == [r EXCEPT !.at = at]
<1>1. s \in Requested
  BY DEF Requested
<1>2. /\ s.at = at /\ s.under = r.under /\ s.id = r.id /\ s.token = r.token /\ s.since = r.since
      /\ s.kind = r.kind /\ s.as = r.as /\ s.trusted = r.trusted
  BY DEF Requested
<1> QED
  BY <1>1, <1>2 DEF Good, MetadataOf, ActOf

\* Another post for the same request, and a page that no longer waits.
LEMMA Repeats ==
    ASSUME NEW r, Good(r), r \in Requested
    PROVE  Good(Again(r)) /\ Good([r EXCEPT !.waits = FALSE])
<1>1. ASSUME NEW s \in Requested,
             s.at = r.at /\ s.under = r.under /\ s.id = r.id /\ s.token = r.token,
             s.since = r.since /\ s.kind = r.kind /\ s.as = r.as /\ s.trusted = r.trusted
      PROVE  Good(s)
  BY <1>1 DEF Good, MetadataOf, ActOf
<1>2. Good(Again(r))
  <2> DEFINE s == Again(r)
  <2>1. r.posts + 1 \in Nat
    BY DEF Requested
  <2>2. s \in Requested
    BY <2>1 DEF Requested, Again
  <2>3. /\ s.at = r.at /\ s.under = r.under /\ s.id = r.id /\ s.token = r.token
        /\ s.since = r.since /\ s.kind = r.kind /\ s.as = r.as /\ s.trusted = r.trusted
    BY DEF Requested, Again
  <2> QED
    BY <1>1, <2>2, <2>3
<1>3. Good([r EXCEPT !.waits = FALSE])
  <2> DEFINE s == [r EXCEPT !.waits = FALSE]
  <2>1. s \in Requested
    BY DEF Requested
  <2>2. /\ s.at = r.at /\ s.under = r.under /\ s.id = r.id /\ s.token = r.token
        /\ s.since = r.since /\ s.kind = r.kind /\ s.as = r.as /\ s.trusted = r.trusted
    BY DEF Requested
  <2> QED
    BY <1>1, <2>1, <2>2
<1> QED
  BY <1>2, <1>3

\* A step that replaces one request by a good one preserves the invariant.
LEMMA OneChanges ==
    ASSUME IInv, NEW c \in Calls, NEW r, Good(r), call' = [call EXCEPT ![c] = r],
           UNCHANGED <<time, secret, router>>,
           auth' \in [Pages -> [at : {"closed", "loading", "ready"},
                                token : Tokens \cup {NoToken}]]
    PROVE  IInv'
<1>1. \A d \in Calls : Good(call'[d])
  BY OneByOne
<1>2. DOMAIN call' = Calls
  BY OneByOne
<1>3. /\ time' \in Nat /\ secret' \in Secrets \cup {NoSecret} /\ router' \in Routers
  BY OneByOne
<1> QED
  BY <1>1, <1>2, <1>3, Rebuild

-----------------------------------------------------------------------------
(* What the gateway and the router make of a request.                       *)

\* A new request is good.
LEMMA AskedIsGood ==
    ASSUME NEW kind \in Kinds \cup {"load", "session"}, NEW p \in Pages,
           NEW as \in Students \cup {NoStudent}, NEW key \in BOOLEAN,
           NEW token \in Tokens \cup {NoToken}
    PROVE  Good(Asked(kind, p, as, key, token))
<1>1. Asked(kind, p, as, key, token) \in Requested
  BY DEF Asked, Requested, Identity, Identities, Roles
<1> QED
  BY <1>1 DEF Good, MetadataOf, ActOf, Asked, AtRouter, Acting

LEMMA IdentityType ==
    ASSUME NEW s \in Students \cup {NoStudent}, NEW role \in Roles, NEW secure \in BOOLEAN
    PROVE  Identity(s, role, secure) \in Identities
BY DEF Identity, Identities

\* A request the gateway admits carries what it verified.
LEMMA AdmittedIsGood ==
    ASSUME IInv, NEW c \in Calls, IsAsked(c), GatewayRefusal(c) = "none",
           NEW at \in {"forwarded", "transcribing"}
    PROVE  Good(Admitted(c, at))
<1> DEFINE r == call[c]
           id == GatewayIdentity(c)
           s == Admitted(c, at)
<1>1. r \in Requested /\ r.at = "sent"
  BY OneByOne DEF IsAsked, Good
<1>2. secret # NoSecret => /\ r.token # NoToken /\ r.token \in Tokens
                           /\ r.token.secret = secret /\ time <= r.token.exp
  BY <1>1, OneByOne DEF GatewayRefusal, Verified, Requested
<1>3. /\ secret = NoSecret => id = Identity(r.as, "student", FALSE)
      /\ secret # NoSecret => id = Identity(r.token.student, r.token.role, TRUE)
  BY DEF GatewayIdentity
<1>4. id \in Identities
  <2>1. CASE secret = NoSecret
    <3>1. r.as \in Students \cup {NoStudent} /\ "student" \in Roles
      BY <1>1 DEF Requested, Roles
    <3> QED
      BY <2>1, <3>1, <1>3, IdentityType
  <2>2. CASE secret # NoSecret
    <3>1. r.token.student \in Students /\ r.token.role \in Roles
      BY <2>2, <1>2 DEF Tokens
    <3> QED
      BY <2>2, <3>1, <1>3, IdentityType
  <2> QED
    BY <2>1, <2>2
<1>5. Refusal(id, r.kind, r.as) = "none"
  BY DEF GatewayRefusal
<1>6. /\ r.kind \in Own => CanResolve(id, r.as)
      /\ r.kind = "promote" /\ id.secure => id.role = "teacher"
  BY <1>5 DEF Refusal, Own
<1>7. Resolved(id, r.as) \in Students \cup {NoStudent}
  BY <1>1, <1>4 DEF Resolved, Identities, Requested
<1>8. s \in Requested
  BY <1>1, <1>4, <1>7, OneByOne DEF Admitted, Requested, AtRouter
<1>9. /\ s.at = at /\ s.id = id /\ s.since = time /\ s.under = secret /\ s.token = r.token
      /\ s.kind = r.kind /\ s.as = IF r.kind \in Own THEN Resolved(id, r.as) ELSE r.as
  BY <1>1 DEF Admitted, Requested
<1>10. secret # NoSecret => id.secure /\ id.student = r.token.student /\ id.role = r.token.role
  BY <1>3 DEF Identity
<1>11. secret = NoSecret => ~id.secure
  BY <1>3 DEF Identity
<1>12. MetadataOf(s)
  <2>1. CASE secret = NoSecret
    BY <2>1, <1>9, <1>11 DEF MetadataOf
  <2>2. CASE secret # NoSecret
    <3>1. r.kind \in Own => s.as = r.token.student
      BY <2>2, <1>9, <1>10 DEF Resolved
    <3>2. r.kind = "promote" => r.token.role = "teacher"
      BY <2>2, <1>6, <1>10
    <3> QED
      BY <2>2, <3>1, <3>2, <1>2, <1>3, <1>9 DEF MetadataOf
  <2> QED
    BY <2>1, <2>2
<1>13. ActOf(s)
  BY <1>9 DEF ActOf, Acting
<1> QED
  BY <1>8, <1>12, <1>13 DEF Good

\* A request the router acts on is still the one the gateway admitted, and a
\* router that asks for an identity has seen it.
LEMMA ResumedIsGood ==
    ASSUME IInv, NEW c \in Calls, call[c].at = "forwarded", RouterRefusal(c) = "none",
           NEW at \in Acting
    PROVE  Good(Resumes(c, at))
<1> DEFINE r == call[c]
           s == Resumes(c, at)
           id == RouterIdentity(c)
<1>1. r \in Requested /\ Good(r) /\ r.at \in AtRouter
  BY OneByOne DEF Good, AtRouter
<1>2. router.secure \in BOOLEAN
  BY OneByOne DEF Routers
<1>3. id = IF router.secure THEN r.id ELSE Identity(NoStudent, "student", FALSE)
  BY DEF RouterIdentity
<1>4. router.secure => r.id.secure
  BY DEF RouterRefusal
<1>5. id \in Identities
  BY <1>1, <1>3 DEF Requested, Identities, Identity, Roles
<1>6. Resolved(id, r.as) \in Students \cup {NoStudent}
  BY <1>1, <1>5 DEF Resolved, Identities, Requested
<1>7. at \in AtRouter
  BY DEF Acting, AtRouter
<1>8. s \in Requested
  BY <1>1, <1>2, <1>6, <1>7 DEF Resumes, Requested
<1>9. /\ s.at = at /\ s.trusted = ~router.secure /\ s.id = r.id /\ s.since = r.since
      /\ s.under = r.under /\ s.token = r.token /\ s.kind = r.kind
      /\ s.as = IF r.kind \in Own THEN Resolved(id, r.as) ELSE r.as
  BY <1>1 DEF Resumes, Requested
<1>10. r.under # NoSecret /\ r.kind \in Own => s.as = r.token.student
  <2>1. CASE router.secure
    BY <2>1, <1>1, <1>3, <1>4, <1>9 DEF MetadataOf, Good, Resolved, Identity
  <2>2. CASE ~router.secure
    BY <2>2, <1>1, <1>3, <1>9 DEF MetadataOf, Good, Resolved, Identity
  <2> QED
    BY <2>1, <2>2
<1>11. MetadataOf(s)
  BY <1>1, <1>9, <1>10 DEF MetadataOf, Good
<1>12. ActOf(s)
  <2>1. r.under = NoSecret => ~r.id.secure
    BY <1>1 DEF Good, MetadataOf
  <2> QED
    BY <2>1, <1>4, <1>9 DEF ActOf
<1> QED
  BY <1>8, <1>11, <1>12 DEF Good

-----------------------------------------------------------------------------
(* The invariant.                                                           *)

LEMMA SignedIsToken ==
    ASSUME IInv, NEW s \in Pages, NEW key \in BOOLEAN
    PROVE  Signed(s, key) \in Tokens \cup {NoToken}
BY OneByOne, RequestConstants DEF Signed, Tokens, Roles

LEMMA InitHolds == Init => IInv
<1> SUFFICES ASSUME Init
             PROVE  IInv
  OBVIOUS
<1>1. Good(Idle)
  BY DEF Good, Idle, MetadataOf, ActOf, AtRouter, Acting
<1>2. /\ DOMAIN call = Calls
      /\ \A c \in Calls : call[c] = Idle
  BY DEF Init
<1>3. \A c \in Calls : Good(call[c])
  BY <1>1, <1>2
<1>4. auth \in [Pages -> [at : {"closed", "loading", "ready"}, token : Tokens \cup {NoToken}]]
  BY DEF Init
<1>5. time \in Nat /\ secret \in Secrets \cup {NoSecret} /\ router \in Routers
  BY DEF Init
<1> QED
  BY <1>2, <1>3, <1>4, <1>5, OneByOne

\* The pages.
LEMMA PageStep ==
    ASSUME IInv, NEW c \in Calls, NEW s \in Pages,
           PageLoads(c, s) \/ TeacherAsks(c, s) \/ Sends(c, s)
    PROVE  IInv'
<1> USE RequestConstants
<1>1. auth[s].token \in Tokens \cup {NoToken} /\ s \in Students
  BY OneByOne
<1>2. auth' \in [Pages -> [at : {"closed", "loading", "ready"}, token : Tokens \cup {NoToken}]]
  BY OneByOne DEF PageLoads, TeacherAsks, Sends
<1>3. CASE PageLoads(c, s)
  BY <1>1, <1>2, <1>3, OneChanges, AskedIsGood DEF PageLoads
<1>4. CASE TeacherAsks(c, s)
  <2>1. PICK key \in BOOLEAN : call' = [call EXCEPT ![c] = Asked("session", s, s, key, NoToken)]
    BY <1>4 DEF TeacherAsks
  <2> QED
    BY <1>1, <1>2, <1>4, <2>1, OneChanges, AskedIsGood DEF TeacherAsks
<1>5. CASE Sends(c, s)
  <2>1. PICK kind \in Kinds, as \in Students \cup {NoStudent} :
           call' = [call EXCEPT ![c] = Asked(kind, s, as, FALSE, auth[s].token)]
    BY <1>5 DEF Sends
  <2> QED
    BY <1>1, <1>2, <1>5, <2>1, OneChanges, AskedIsGood DEF Sends
<1> QED
  BY <1>3, <1>4, <1>5

\* The sessions.
LEMMA SessionStep ==
    ASSUME IInv, NEW c \in Calls, SessionIsIssued(c) \/ SessionArrives(c)
    PROVE  IInv'
<1>1. CASE SessionIsIssued(c)
  <2>1. call[c] \in Requested /\ call[c].at = "sent"
    BY <1>1, OneByOne DEF SessionIsIssued, Good
  <2>2. Signed(call[c].page, call[c].key) \in Tokens \cup {NoToken}
    BY <2>1, SignedIsToken DEF Requested
  <2> DEFINE s == [call[c] EXCEPT !.at = "issued", !.token = Signed(call[c].page, call[c].key)]
  <2>3. s \in Requested /\ s.at = "issued"
    BY <2>1, <2>2 DEF Requested
  <2>4. Good(s)
    BY <2>3 DEF Good, MetadataOf, ActOf, AtRouter, Acting
  <2>5. call' = [call EXCEPT ![c] = s]
    BY <1>1 DEF SessionIsIssued
  <2> QED
    BY <1>1, <2>4, <2>5, OneChanges, OneByOne DEF SessionIsIssued
<1>2. CASE SessionArrives(c)
  <2>1. call[c] \in Requested
    BY <1>2, OneByOne DEF SessionArrives, Good
  <2>2. auth' \in [Pages -> [at : {"closed", "loading", "ready"}, token : Tokens \cup {NoToken}]]
    BY <1>2, <2>1, OneByOne DEF SessionArrives, Ready, Requested
  <2> QED
    BY <1>2, <2>2, OneChanges, EndedIsGood DEF SessionArrives, Answers
<1> QED
  BY <1>1, <1>2

\* The gateway and the servers behind it.
LEMMA GatewayAndPosts ==
    ASSUME IInv, NEW c \in Calls, GatewayStep(c) \/ PostStep(c)
    PROVE  IInv'
<1>1. auth \in [Pages -> [at : {"closed", "loading", "ready"}, token : Tokens \cup {NoToken}]]
  BY OneByOne
<1>2. CASE GatewayRefuses(c)
  BY <1>1, <1>2, OneChanges, EndedIsGood DEF GatewayRefuses, Answers
<1>3. CASE GatewayForwards(c)
  BY <1>1, <1>3, OneChanges, EndedIsGood, AdmittedIsGood DEF GatewayForwards, Answers
<1>4. CASE GatewayTranscribes(c)
  BY <1>1, <1>4, OneChanges, AdmittedIsGood DEF GatewayTranscribes
<1>5. CASE TranscriptionEnds(c)
  <2>1. call[c] \in Requested /\ Good(call[c])
    BY <1>5, OneByOne DEF TranscriptionEnds, Good
  <2>2. PICK r : call' = [call EXCEPT ![c] = r] /\ Good(r)
    BY <1>5, <2>1, EndedIsGood, Repeats DEF TranscriptionEnds, Answers
  <2> QED
    BY <1>1, <1>5, <2>2, OneChanges DEF TranscriptionEnds
<1>6. CASE QueryIsEmbedded(c)
  <2>1. call[c] \in Requested /\ Good(call[c]) /\ call[c].at = "embedding"
    BY <1>6, OneByOne DEF QueryIsEmbedded, Good
  <2>2. PICK at \in {"acted", "generating"} : call' = [call EXCEPT ![c].at = at]
    BY <1>6 DEF QueryIsEmbedded
  <2>3. Good([call[c] EXCEPT !.at = at])
    BY <2>1, MovesOn DEF AtRouter, Acting
  <2>4. call' = [call EXCEPT ![c] = [call[c] EXCEPT !.at = at]]
    BY <2>2
  <2> QED
    BY <1>1, <1>6, <2>3, <2>4, OneChanges DEF QueryIsEmbedded
<1>7. CASE EmbeddingFails(c)
  <2>1. call[c] \in Requested /\ Good(call[c])
    BY <1>7, OneByOne DEF EmbeddingFails, Good
  <2>2. PICK r : call' = [call EXCEPT ![c] = r] /\ Good(r)
    BY <1>7, <2>1, EndedIsGood, Repeats DEF EmbeddingFails
  <2> QED
    BY <1>1, <1>7, <2>2, OneChanges DEF EmbeddingFails
<1> QED
  BY <1>2, <1>3, <1>4, <1>5, <1>6, <1>7 DEF GatewayStep, PostStep

\* The router.
LEMMA RouterSteps ==
    ASSUME IInv, NEW c \in Calls, RouterStep(c)
    PROVE  IInv'
<1>1. auth \in [Pages -> [at : {"closed", "loading", "ready"}, token : Tokens \cup {NoToken}]]
  BY OneByOne
<1>2. CASE RouterRefuses(c)
  BY <1>1, <1>2, OneChanges, EndedIsGood DEF RouterRefuses, Answers
<1>3. CASE RouterActs(c)
  <2>1. PICK at \in Acting : call' = [call EXCEPT ![c] = Resumes(c, at)]
    BY <1>3 DEF RouterActs, Acting
  <2>2. Good(Resumes(c, at))
    BY <1>3, ResumedIsGood DEF RouterActs
  <2> QED
    BY <1>1, <1>3, <2>1, <2>2, OneChanges DEF RouterActs
<1>4. CASE QueryStopsWaiting(c)
  <2>1. call[c] \in Requested /\ Good(call[c]) /\ call[c].at = "generating"
    BY <1>4, OneByOne DEF QueryStopsWaiting, Good
  <2>2. Good([call[c] EXCEPT !.at = "acted"])
    BY <2>1, MovesOn DEF AtRouter, Acting
  <2>3. call' = [call EXCEPT ![c] = [call[c] EXCEPT !.at = "acted"]]
    BY <1>4 DEF QueryStopsWaiting
  <2> QED
    BY <1>1, <1>4, <2>2, <2>3, OneChanges DEF QueryStopsWaiting
<1>5. CASE RouterAnswers(c)
  BY <1>1, <1>5, OneChanges, EndedIsGood DEF RouterAnswers, Answers
<1> QED
  BY <1>2, <1>3, <1>4, <1>5 DEF RouterStep

\* A restart ends requests, or leaves their page.
LEMMA Restarts ==
    ASSUME IInv, GatewayRestarts \/ RouterStops \/ RouterStarts
    PROVE  IInv'
<1>1. CASE GatewayRestarts
  <2>1. \A c \in Calls : Good(call'[c])
    <3> SUFFICES ASSUME NEW c \in Calls PROVE Good(call'[c])
      OBVIOUS
    <3>1. CASE call[c].at \in {"sent", "issued", "transcribing"}
      <4>1. call'[c] = Ended(call[c], "unreachable")
        BY <1>1, <3>1 DEF GatewayRestarts, AtRouter
      <4> QED
        BY <4>1, EndedIsGood
    <3>2. CASE call[c].at \in AtRouter
      <4>1. call'[c] = [call[c] EXCEPT !.waits = FALSE]
        BY <1>1, <3>2 DEF GatewayRestarts, AtRouter
      <4>2. call[c] \in Requested /\ Good(call[c])
        BY <3>2, OneByOne DEF Good, AtRouter
      <4> QED
        BY <4>1, <4>2, Repeats
    <3>3. CASE call[c].at \notin {"sent", "issued", "transcribing"} \cup AtRouter
      <4>1. call'[c] = call[c]
        BY <1>1, <3>3 DEF GatewayRestarts
      <4> QED
        BY <4>1, OneByOne
    <3> QED
      BY <3>1, <3>2, <3>3
  <2>2. auth' \in [Pages -> [at : {"closed", "loading", "ready"}, token : Tokens \cup {NoToken}]]
    BY <1>1, OneByOne DEF GatewayRestarts
  <2>3. DOMAIN call' = Calls /\ time' \in Nat /\ secret' \in Secrets \cup {NoSecret}
        /\ router' \in Routers
    BY <1>1, OneByOne DEF GatewayRestarts
  <2> QED
    BY <2>1, <2>2, <2>3, Rebuild
<1>2. CASE RouterStops
  <2>1. \A c \in Calls : Good(call'[c])
    BY <1>2, OneByOne, EndedIsGood DEF RouterStops
  <2>2. DOMAIN call' = Calls /\ time' \in Nat /\ secret' \in Secrets \cup {NoSecret}
        /\ router' \in Routers
        /\ auth' \in [Pages -> [at : {"closed", "loading", "ready"}, token : Tokens \cup {NoToken}]]
    BY <1>2, OneByOne DEF RouterStops, Routers
  <2> QED
    BY <2>1, <2>2, Rebuild
<1>3. CASE RouterStarts
  <2>1. router' \in Routers
    BY <1>3 DEF RouterStarts
  <2> QED
    BY <1>3, <2>1, OneByOne, Rebuild DEF RouterStarts
<1> QED
  BY <1>1, <1>2, <1>3

LEMMA NextHolds == IInv /\ [Next]_vars => IInv'
<1> SUFFICES ASSUME IInv, [Next]_vars
             PROVE  IInv'
  OBVIOUS
<1>1. ASSUME NEW c \in Calls, CallStep(c)
      PROVE  IInv'
  BY <1>1, SessionStep, GatewayAndPosts, RouterSteps DEF CallStep
<1>2. ASSUME NEW c \in Calls, GenerateStep(c)
      PROVE  IInv'
  <2>1. UNCHANGED <<time, secret, router, auth, call>>
    BY <1>2 DEF GenerateStep, Retrieves, Synthesizes
  <2> QED
    BY <2>1, OneByOne, Rebuild
<1>3. ASSUME NEW c \in Calls, NEW s \in Pages,
             PageLoads(c, s) \/ TeacherAsks(c, s) \/ Sends(c, s)
      PROVE  IInv'
  BY <1>3, PageStep
<1>4. CASE GatewayRestarts \/ RouterStops \/ RouterStarts
  BY <1>4, Restarts
<1>5. CASE Tick
  <2>1. time' \in Nat
    BY <1>5, OneByOne DEF Tick
  <2> QED
    BY <1>5, <2>1, OneByOne, Rebuild DEF Tick
<1>6. CASE UNCHANGED vars
  BY <1>6, OneByOne, Rebuild DEF vars
<1> QED
  BY <1>1, <1>2, <1>3, <1>4, <1>5, <1>6 DEF Next

\* What the gateway let in, and the metadata it sent along, agree for ever, of
\* every request, through every restart.
THEOREM Invariance == Spec => []IInv
BY InitHolds, NextHolds, PTL DEF Spec

\* Whatever a handler does is covered by a session that was good when the
\* gateway let the request in.
THEOREM ActsAreAlwaysCovered == Spec => []ActsAreCovered
<1>1. IInv => ActsAreCovered
  BY DEF IInv, MetadataAreVerified, ActsAreIdentified, ActsAreCovered, AtRouter, Acting
<1> QED
  BY <1>1, Invariance, PTL

=============================================================================

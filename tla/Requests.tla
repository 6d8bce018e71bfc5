------------------------------ MODULE Requests ------------------------------
(***************************************************************************)
(* A request from the page to the router and what it sets off: sessions    *)
(* (pkg/session), the web gateway (pkg/webgateway), the identity rules of  *)
(* the router's handlers (internal/routerserver), and the HTTP clients of  *)
(* the embedding, language and transcription servers with the generation   *)
(* that uses them (pkg/rag, pkg/rogerian, pkg/stt, pkg/livestation).       *)
(*                                                                         *)
(* The gateway signs and verifies sessions; it tells the router who asks,  *)
(* and the router believes it.  The two are processes with settings of     *)
(* their own, which a restart may change, and a restart loses what the     *)
(* process had under way.  What a handler does beyond naming the student   *)
(* is in the modules of its component: here it only acts.                  *)
(***************************************************************************)
EXTENDS Integers

CONSTANTS
    Students,
    Pages,        \* the students that have a page open
    NoStudent,    \* a request that names nobody
    Secrets,      \* values of AVLP_SESSION_SECRET
    NoSecret,     \* it is not set: open mode
    NoToken,
    SessionTTL,   \* AVLP_SESSION_TTL
    MaxRetries,   \* of an HTTP client
    Calls,        \* bound: requests under way at a time
    MaxRestarts,  \* bound: restarts of both processes
    MaxTime       \* bound: the clock

ASSUME RequestConstants ==
    /\ Pages \subseteq Students
    /\ NoStudent \notin Students
    /\ NoSecret \notin Secrets
    /\ SessionTTL \in Nat \ {0}
    /\ MaxRetries \in Nat
    /\ MaxRestarts \in Nat
    /\ MaxTime \in Nat

VARIABLES
    time,
    secret,     \* of the gateway
    router,     \* the router process
    restarts,
    auth,       \* session.js: what each page knows of its session
    call,       \* the requests
    generation  \* GenerateLive for the query of this call

vars == <<time, secret, router, restarts, auth, call, generation>>

-----------------------------------------------------------------------------
(* Sessions (pkg/session).                                                  *)

Roles == {"student", "teacher"}

Tokens == [student : Students, role : Roles, exp : Nat, secret : Secrets]

\* key: the request carries the configured teacher key.
Signed(student, key) ==
    IF secret = NoSecret THEN NoToken
    ELSE [student |-> student, role |-> IF key THEN "teacher" ELSE "student",
          exp |-> time + SessionTTL, secret |-> secret]

\* Mutant of Verified: the expiry is not looked at.
VerifiedWithoutExpiry(token) == token # NoToken /\ token.secret = secret

\* A token is good in the second it expires.
Verified(token) == token # NoToken /\ token.secret = secret /\ time <= token.exp

Identity(student, role, secure) == [student |-> student, role |-> role, secure |-> secure]

Resolved(id, requested) == IF id.secure THEN id.student ELSE requested

CanResolve(id, requested) ==
    IF id.secure THEN requested \in {NoStudent, id.student} ELSE requested # NoStudent

-----------------------------------------------------------------------------
(* Requests.  own: the handler acts for a student.                          *)

Own == {"record", "query"}
Kinds == Own \cup {"node", "promote", "transcribe"}

\* From the page, to the page, and at the router.
AtRouter == {"forwarded", "embedding", "generating", "acted"}

\* as: the student the request names, and then the one the gateway resolved.
\* waits: the page still waits for the answer.
\* since and under: history, the time and the secret of its admission.
\* trusted: history, it was acted on by a router that wanted no identity.
Idle == [at |-> "idle"]

Identities == [student : Students \cup {NoStudent}, role : Roles, secure : BOOLEAN]

Requested ==
    [at : {"sent", "issued", "transcribing"} \cup AtRouter,
     kind : Kinds \cup {"load", "session"}, page : Pages, as : Students \cup {NoStudent},
     key : BOOLEAN, token : Tokens \cup {NoToken}, id : Identities, posts : Nat,
     waits : BOOLEAN, since : Nat, under : Secrets \cup {NoSecret}, trusted : BOOLEAN]

Asked(kind, page, as, key, token) ==
    [at |-> "sent", kind |-> kind, page |-> page, as |-> as, key |-> key, token |-> token,
     id |-> Identity(NoStudent, "student", FALSE), posts |-> 0, waits |-> TRUE,
     since |-> 0, under |-> NoSecret, trusted |-> FALSE]

NoGeneration == [at |-> "none", posts |-> 0]

Routers == [up : BOOLEAN, secure : BOOLEAN, material : {"none", "empty", "indexed"}]

\* The page gets an answer unless it has one already.
Ended(r, answer) == [at |-> "done", answer |-> IF r.waits THEN answer ELSE "unreachable"]

Answers(c, answer) == call' = [call EXCEPT ![c] = Ended(@, answer)]

Init ==
    /\ time = 0
    /\ secret \in Secrets \cup {NoSecret}
    /\ router \in {r \in Routers : r.up}
    /\ restarts = 0
    /\ auth = [s \in Pages |-> [at |-> "closed", token |-> NoToken]]
    /\ call = [c \in Calls |-> Idle]
    /\ generation = [c \in Calls |-> NoGeneration]

-----------------------------------------------------------------------------
(* The page.                                                                *)

\* A request of the page takes the place of one that is over.
IsFree(c) ==
    /\ call[c].at \in {"idle", "done"}
    /\ generation[c].at \notin {"retrieving", "synthesizing"}

\* The module session.js is loaded: auth.ready is the promise of this session.
PageLoads(c, s) ==
    /\ IsFree(c)
    /\ auth[s].at = "closed"
    /\ auth' = [auth EXCEPT ![s].at = "loading"]
    /\ call' = [call EXCEPT ![c] = Asked("load", s, s, FALSE, NoToken)]
    /\ generation' = [generation EXCEPT ![c] = NoGeneration]
    /\ UNCHANGED <<time, secret, router, restarts>>

\* The teacher's button asks for a session, with the key or without.
TeacherAsks(c, s) ==
    /\ IsFree(c)
    /\ auth[s].at # "closed"
    /\ \E key \in BOOLEAN : call' = [call EXCEPT ![c] = Asked("session", s, s, key, NoToken)]
    /\ generation' = [generation EXCEPT ![c] = NoGeneration]
    /\ UNCHANGED <<time, secret, router, restarts, auth>>

\* api(): after auth.ready, whatever came of it.  The page names its own
\* student; another client of the gateway may name any, or promote as a student.
Sends(c, s) ==
    /\ IsFree(c)
    /\ auth[s].at = "ready"
    /\ \E kind \in Kinds :
         \E as \in IF kind \in Own THEN Students \cup {NoStudent} ELSE {NoStudent} :
            call' = [call EXCEPT ![c] = Asked(kind, s, as, FALSE, auth[s].token)]
    /\ generation' = [generation EXCEPT ![c] = NoGeneration]
    /\ UNCHANGED <<time, secret, router, restarts, auth>>

Ready(c, a) == IF call[c].kind = "load" THEN [a EXCEPT !.at = "ready"] ELSE a

\* The answer to ensureSession: the last one to arrive is kept.
SessionArrives(c) ==
    /\ call[c].at = "issued"
    /\ LET s == call[c].page
       IN auth' = [auth EXCEPT ![s] = Ready(c, [@ EXCEPT !.token = call[c].token])]
    /\ Answers(c, "ok")
    /\ UNCHANGED <<time, secret, router, restarts, generation>>

-----------------------------------------------------------------------------
(* The gateway.                                                             *)

IsSession(c) == call[c].kind \in {"load", "session"}

SessionIsIssued(c) ==
    /\ call[c].at = "sent"
    /\ IsSession(c)
    /\ call' = [call EXCEPT ![c].at = "issued",
                            ![c].token = Signed(call[c].page, call[c].key)]
    /\ UNCHANGED <<time, secret, router, restarts, auth, generation>>

\* authedContext.
GatewayIdentity(c) ==
    IF secret = NoSecret THEN Identity(call[c].as, "student", FALSE)
    ELSE Identity(call[c].token.student, call[c].token.role, TRUE)

\* What a handler that knows the identity answers before it acts.
Refusal(id, kind, requested) ==
    CASE kind \in Own /\ ~CanResolve(id, requested) -> IF id.secure THEN "not_found" ELSE "invalid"
      [] kind = "promote" /\ id.secure /\ id.role # "teacher" -> "denied"
      [] OTHER -> "none"

GatewayRefusal(c) ==
    IF secret # NoSecret /\ ~Verified(call[c].token) THEN "unauthenticated"
    ELSE Refusal(GatewayIdentity(c), call[c].kind, call[c].as)

IsAsked(c) == call[c].at = "sent" /\ ~IsSession(c)

GatewayRefuses(c) ==
    /\ IsAsked(c)
    /\ GatewayRefusal(c) # "none"
    /\ Answers(c, GatewayRefusal(c))
    /\ UNCHANGED <<time, secret, router, restarts, auth, generation>>

Admitted(c, at) ==
    LET id == GatewayIdentity(c)
    IN [call[c] EXCEPT !.at = at, !.id = id, !.since = time, !.under = secret,
                       !.as = IF call[c].kind \in Own THEN Resolved(id, @) ELSE @]

\* Mutant of GatewayForwards: it waits for a router that is down.
GatewayForwardsWhenUp(c) ==
    /\ IsAsked(c)
    /\ GatewayRefusal(c) = "none"
    /\ call[c].kind # "transcribe"
    /\ router.up
    /\ call' = [call EXCEPT ![c] = Admitted(c, "forwarded")]
    /\ UNCHANGED <<time, secret, router, restarts, auth, generation>>

\* A router that is down is answered for at once.
GatewayForwards(c) ==
    /\ IsAsked(c)
    /\ GatewayRefusal(c) = "none"
    /\ call[c].kind # "transcribe"
    /\ IF router.up THEN call' = [call EXCEPT ![c] = Admitted(c, "forwarded")]
                    ELSE Answers(c, "unavailable")
    /\ UNCHANGED <<time, secret, router, restarts, auth, generation>>

GatewayTranscribes(c) ==
    /\ IsAsked(c)
    /\ GatewayRefusal(c) = "none"
    /\ call[c].kind = "transcribe"
    /\ call' = [call EXCEPT ![c] = Admitted(c, "transcribing")]
    /\ UNCHANGED <<time, secret, router, restarts, auth, generation>>

-----------------------------------------------------------------------------
(* Posts to the other servers, each ended by an answer or by its timeout.   *)

\* A vector of another width than the embedder's, a 5xx, and any other failure.
Failures == {"width", "busy", "lost"}

\* The embedder tries again after any failure, but gives up on a width.
EmbedRetries(failure, posts) == failure # "width" /\ posts < MaxRetries

\* The synthesizer and the transcriber try again after a 5xx only.
ServerRetries(failure, posts) == failure = "busy" /\ posts < MaxRetries

Again(r) == [r EXCEPT !.posts = @ + 1]

TranscriptionEnds(c) ==
    /\ call[c].at = "transcribing"
    /\ \/ Answers(c, "ok")
       \/ \E failure \in Failures \ {"width"} :
            call' = [call EXCEPT ![c] = IF ServerRetries(failure, @.posts) THEN Again(@)
                                        ELSE Ended(@, "bad_gateway")]
    /\ UNCHANGED <<time, secret, router, restarts, auth, generation>>

-----------------------------------------------------------------------------
(* The router's handlers.                                                   *)

\* RequireSecureIdentity.
RouterIdentity(c) ==
    IF router.secure THEN call[c].id ELSE Identity(NoStudent, "student", FALSE)

RouterRefusal(c) ==
    IF router.secure /\ ~call[c].id.secure THEN "unauthenticated"
    ELSE Refusal(RouterIdentity(c), call[c].kind, call[c].as)

RouterRefuses(c) ==
    /\ call[c].at = "forwarded"
    /\ RouterRefusal(c) # "none"
    /\ Answers(c, RouterRefusal(c))
    /\ UNCHANGED <<time, secret, router, restarts, auth, generation>>

\* The handler acts for Resolved(...), at once or when it has embedded the doubt.
Resumes(c, at) ==
    [call[c] EXCEPT !.at = at, !.trusted = ~router.secure,
                    !.as = IF call[c].kind \in Own THEN Resolved(RouterIdentity(c), @) ELSE @]

RouterActs(c) ==
    /\ call[c].at = "forwarded"
    /\ RouterRefusal(c) = "none"
    /\ call' = [call EXCEPT ![c] = Resumes(c, IF call[c].kind = "query" THEN "embedding" ELSE "acted")]
    /\ UNCHANGED <<time, secret, router, restarts, auth, generation>>

\* A match, or a miss: with a generator the query waits for it.
QueryIsEmbedded(c) ==
    /\ call[c].at = "embedding"
    /\ \/ /\ call' = [call EXCEPT ![c].at = "acted"]
          /\ UNCHANGED generation
       \/ /\ router.material # "none"
          /\ call' = [call EXCEPT ![c].at = "generating"]
          /\ generation' = [generation EXCEPT ![c].at = "retrieving"]
    /\ UNCHANGED <<time, secret, router, restarts, auth>>

EmbeddingFails(c) ==
    /\ call[c].at = "embedding"
    /\ \E failure \in Failures :
         call' = [call EXCEPT ![c] = IF EmbedRetries(failure, @.posts) THEN Again(@)
                                     ELSE Ended(@, "invalid")]
    /\ UNCHANGED <<time, secret, router, restarts, auth, generation>>

\* The generation has ended, or the deadline, or the client's patience.
QueryStopsWaiting(c) ==
    /\ call[c].at = "generating"
    /\ call' = [call EXCEPT ![c].at = "acted"]
    /\ UNCHANGED <<time, secret, router, restarts, auth, generation>>

RouterAnswers(c) ==
    /\ call[c].at = "acted"
    /\ Answers(c, "ok")
    /\ UNCHANGED <<time, secret, router, restarts, auth, generation>>

-----------------------------------------------------------------------------
(* Generate, in the background of its query.                                *)

\* Without material the retriever refuses before it embeds.
Retrieves(c) ==
    /\ generation[c].at = "retrieving"
    /\ IF router.material = "empty"
       THEN generation' = [generation EXCEPT ![c].at = "no_material"]
       ELSE \/ generation' = [generation EXCEPT ![c] = [at |-> "synthesizing", posts |-> 0]]
            \/ \E failure \in Failures :
                 generation' = [generation EXCEPT ![c] =
                                  IF EmbedRetries(failure, @.posts) THEN Again(@)
                                  ELSE [@ EXCEPT !.at = "no_embedding"]]
    /\ UNCHANGED <<time, secret, router, restarts, auth, call>>

\* Mutant of WithoutModel: a generation fails with its synthesis.
WithoutModelNothing(g) == [g EXCEPT !.at = "no_synthesis"]

\* The extract of the hits takes the place of a synthesis that failed.
WithoutModel(g) == [g EXCEPT !.at = "registered"]

Synthesizes(c) ==
    /\ generation[c].at = "synthesizing"
    /\ \/ generation' = [generation EXCEPT ![c].at = "registered"]
       \/ \E failure \in Failures \ {"width"} :
            generation' = [generation EXCEPT ![c] =
                             IF ServerRetries(failure, @.posts) THEN Again(@) ELSE WithoutModel(@)]
    /\ UNCHANGED <<time, secret, router, restarts, auth, call>>

-----------------------------------------------------------------------------
(* Restarts and time.                                                       *)

\* What the page waits for at the gateway is lost; the router goes on.
GatewayRestarts ==
    /\ restarts < MaxRestarts
    /\ restarts' = restarts + 1
    /\ secret' \in Secrets \cup {NoSecret}
    /\ call' = [c \in Calls |->
                  CASE call[c].at \in {"sent", "issued", "transcribing"} -> Ended(call[c], "unreachable")
                    [] call[c].at \in AtRouter -> [call[c] EXCEPT !.waits = FALSE]
                    [] OTHER -> call[c]]
    /\ auth' = [s \in Pages |->
                  IF \E c \in Calls : /\ call[c].at \in {"sent", "issued"}
                                      /\ call[c].kind = "load" /\ call[c].page = s
                  THEN [auth[s] EXCEPT !.at = "ready"] ELSE auth[s]]
    /\ UNCHANGED <<time, router, generation>>

RouterStops ==
    /\ restarts < MaxRestarts
    /\ router.up
    /\ restarts' = restarts + 1
    /\ router' = [router EXCEPT !.up = FALSE]
    /\ call' = [c \in Calls |-> IF call[c].at \in AtRouter THEN Ended(call[c], "unavailable")
                                ELSE call[c]]
    /\ generation' = [c \in Calls |-> IF generation[c].at \in {"retrieving", "synthesizing"}
                                      THEN [generation[c] EXCEPT !.at = "stopped"]
                                      ELSE generation[c]]
    /\ UNCHANGED <<time, secret, auth>>

\* The material is whatever IngestWalk could read and embed; the router does
\* not start when its embedder does not answer.
RouterStarts ==
    /\ ~router.up
    /\ router' \in {r \in Routers : r.up}
    /\ UNCHANGED <<time, secret, restarts, auth, call, generation>>

Tick ==
    /\ time < MaxTime
    /\ time' = time + 1
    /\ UNCHANGED <<secret, router, restarts, auth, call, generation>>

GatewayStep(c) == GatewayRefuses(c) \/ GatewayForwards(c) \/ GatewayTranscribes(c)
PostStep(c) == TranscriptionEnds(c) \/ QueryIsEmbedded(c) \/ EmbeddingFails(c)
RouterStep(c) == RouterRefuses(c) \/ RouterActs(c) \/ QueryStopsWaiting(c) \/ RouterAnswers(c)

CallStep(c) ==
    \/ SessionIsIssued(c) \/ SessionArrives(c)
    \/ GatewayStep(c) \/ PostStep(c) \/ RouterStep(c)

GenerateStep(c) == Retrieves(c) \/ Synthesizes(c)

Next ==
    \/ \E c \in Calls : CallStep(c) \/ GenerateStep(c)
    \/ \E c \in Calls, s \in Pages : PageLoads(c, s) \/ TeacherAsks(c, s) \/ Sends(c, s)
    \/ GatewayRestarts \/ RouterStops \/ RouterStarts \/ Tick

Spec == Init /\ [][Next]_vars

\* Goroutines run, and the timeout of an HTTP client ends a post.
FairSpec == Spec /\ \A c \in Calls : WF_vars(CallStep(c)) /\ WF_vars(GenerateStep(c))

-----------------------------------------------------------------------------
(* Properties.                                                              *)

\* Types, of what the proof needs.
TypeOK ==
    /\ time \in Nat
    /\ secret \in Secrets \cup {NoSecret}
    /\ router \in Routers
    /\ auth \in [Pages -> [at : {"closed", "loading", "ready"}, token : Tokens \cup {NoToken}]]
    /\ DOMAIN call = Calls
    /\ \A c \in Calls : call[c].at \in {"idle", "done"} \/ call[c] \in Requested

Acting == {"embedding", "generating", "acted"}

\* What the metadata of a forwarded request say is what the gateway verified:
\* the router's half of ActsAreCovered rests on it.
MetadataAreVerified ==
    \A c \in Calls :
       LET r == call[c]
       IN r.at \in AtRouter =>
            IF r.under = NoSecret THEN ~r.id.secure
            ELSE /\ r.token # NoToken
                 /\ r.token.secret = r.under
                 /\ r.since <= r.token.exp
                 /\ r.id = Identity(r.token.student, r.token.role, TRUE)
                 /\ r.kind \in Own => r.as = r.token.student
                 /\ r.kind = "promote" => r.token.role = "teacher"

\* A router that wanted an identity got one.
ActsAreIdentified ==
    \A c \in Calls :
       call[c].at \in Acting /\ call[c].under = NoSecret => call[c].trusted

\* What the handlers do for a student, and every promotion, is covered by a
\* session that the gateway issued to that student, or to a teacher, under the
\* secret in force when it let the request in, and good at that moment: unless
\* neither process asked for one.  So it is when either of them is restarted
\* with other settings while the request is between them.
ActsAreCovered ==
    \A c \in Calls :
       LET r == call[c]
       IN r.at \in Acting /\ (r.under # NoSecret \/ ~r.trusted) =>
            /\ r.token # NoToken
            /\ r.token.secret = r.under
            /\ r.since <= r.token.exp
            /\ r.kind \in Own => r.as = r.token.student
            /\ r.kind = "promote" => r.token.role = "teacher"

\* A generation that found its material registers its station, whatever the
\* language model does, unless the router stops.
MaterialBecomesStation ==
    \A c \in Calls :
       generation[c].at = "synthesizing" ~> generation[c].at \in {"registered", "stopped"}

\* Every request is answered, and every GenerateLive returns: what LiveStation
\* assumes of it.
EverythingEnds ==
    \A c \in Calls :
       /\ call[c].at = "sent" ~> call[c].at = "done"
       /\ generation[c].at = "retrieving" ~> generation[c].at \notin {"retrieving", "synthesizing"}

\* The inductive invariant.
IInv == TypeOK /\ MetadataAreVerified /\ ActsAreIdentified

=============================================================================

---------------------------- MODULE HttpExchange ----------------------------
(***************************************************************************)
(* One request to a deployment, from the call of a client to its verdict:  *)
(* the transport of src/auth/transport.ts with its deadline, its caller's  *)
(* cancellation (src/compute/cancellation.ts), its cap on the body and the *)
(* events of a connection in any order, and what the clients of the        *)
(* compute, content and CAS services, of the token endpoint and of the     *)
(* identities service make of the answer.  Sizes are in chunks.            *)
(***************************************************************************)
EXTENDS Naturals

CONSTANTS
    MaxChunks   \* bound on the chunks a deployment sends

ASSUME HttpAssumption == MaxChunks \in Nat \ {0}

VARIABLES exchange

Services == {"compute", "content", "cas"}
Clients == Services \cup {"token", "identity"}
Verdicts == {"none", "ok", "unauthorized", "forbidden", "rejected", "malformed",
             "unavailable", "unreachable", "too-large", "foreign-link"}
Status == {200, 302, 304, 401, 403, 404, 406}
Reply == [status : Status,
          challenge : {"bare", "invalid_token", "other"},
          body : {"json", "broken", "empty"},
          error : BOOLEAN,                  \* the body has an error field
          location : {"none", "home", "foreign"}]

Exchange == [client : Clients,
             pc : {"idle", "token", "sent", "settled"},
             attempt : 1 .. 2,              \* after a redirect or a 406: 2
             target : {"home", "foreign"},
             caller : {"absent", "quiet", "aborted"},
             timer : {"off", "on", "fired"},
             stream : {"none", "body", "destroyed", "ended"},
             listening : BOOLEAN,           \* for the signal's abort
             cap : 1 .. MaxChunks,
             total : 0 .. MaxChunks,        \* what the deployment sends
             length : 0 .. MaxChunks,       \* what has come
             verdict : Verdicts]

IdleExchange == [client |-> "compute", pc |-> "idle", attempt |-> 1,
                 target |-> "home", caller |-> "absent", timer |-> "off",
                 stream |-> "none", listening |-> FALSE, cap |-> 1,
                 total |-> 0, length |-> 0, verdict |-> "none"]

HttpInit == exchange = IdleExchange

-----------------------------------------------------------------------------
(* What the clients make of an answer                                      *)

SentBack(reply) == reply.status = 401 /\ reply.challenge # "other"

OfContent(reply) ==
    CASE SentBack(reply) -> "unauthorized"
      [] reply.status = 403 -> "forbidden"
      [] OTHER -> IF reply.status # 200 THEN "rejected"
                  ELSE IF reply.body = "broken" THEN "malformed" ELSE "ok"

OfCas(reply) == OfContent(reply)

(* Only this client asks whether something has changed.                    *)
OfCompute(reply) == IF reply.status = 304 THEN "ok" ELSE OfContent(reply)

(* The token endpoint: OAuth's error counts whatever the status is.        *)
OfTokenEndpoint(reply) ==
    CASE reply.body # "json" -> "malformed"
      [] reply.body = "json" /\ reply.error -> "rejected"
      [] OTHER -> IF reply.status = 200 THEN "ok" ELSE "malformed"

OfIdentities(reply) ==
    CASE SentBack(reply) -> "unauthorized"
      [] reply.status = 200 /\ reply.body = "json" -> "ok"
      [] OTHER -> "unavailable"

VerdictOn(client, reply) ==
    CASE client = "token" -> OfTokenEndpoint(reply)
      [] client = "identity" -> OfIdentities(reply)
      [] client = "compute" -> OfCompute(reply)
      [] client = "content" -> OfContent(reply)
      [] OTHER -> OfCas(reply)

Unreached(client) == IF client = "identity" THEN "unavailable" ELSE "unreachable"

-----------------------------------------------------------------------------
(* The transport                                                           *)

Set(new) == exchange' = new
Aborted(e) == e.timer = "fired" \/ e.caller = "aborted"

(* Fault: the listener stays with the signal once the request is over.     *)
SettledHeard(e, verdict) == [e EXCEPT !.pc = "settled", !.verdict = verdict]

(* finish: the first outcome counts and takes the listener down.           *)
Settled(e, verdict) ==
    [e EXCEPT !.pc = "settled", !.verdict = verdict, !.listening = FALSE]

(* A request whose signal has fired is not sent.                           *)
Transmitted(e) ==
    IF Aborted(e) THEN Settled(e, Unreached(e.client))
    ELSE [e EXCEPT !.pc = "sent", !.stream = "none", !.listening = TRUE,
                   !.length = 0, !.total = 0]

Send ==
    /\ exchange.pc = "idle"
    /\ \E client \in Clients, cap \in 1 .. MaxChunks,
         caller \in {"absent", "quiet"}, href \in {"home", "foreign"} :
         LET e == [IdleExchange EXCEPT !.client = client, !.cap = cap] IN
         IF client \notin Services
         THEN Set(Transmitted([e EXCEPT !.timer = "on"]))
         ELSE IF href = "foreign"
         THEN Set(Settled(e, "foreign-link"))
         ELSE Set([e EXCEPT !.pc = "token", !.caller = caller])

(* No deadline runs yet and no abort is heard while the token is awaited.  *)
TokenAnswers ==
    /\ exchange.pc = "token"
    /\ \/ Set(Transmitted([exchange EXCEPT !.timer = "on"]))
       \/ Set(Settled(exchange, "unauthorized"))

HeadArrives ==
    /\ exchange.pc = "sent" /\ exchange.stream = "none"
    /\ \E total \in 0 .. MaxChunks :
         Set([exchange EXCEPT !.stream = "body", !.total = total])

(* Fault: the cap is held against what was there before the chunk.         *)
OverLate(e) == e.length > e.cap

Over(e) == e.length + 1 > e.cap

ChunkArrives ==
    /\ exchange.stream = "body" /\ exchange.length < exchange.total
    /\ IF Over(exchange)
       THEN Set(IF exchange.pc = "sent"
                    THEN [Settled(exchange, "too-large") EXCEPT
                             !.stream = "destroyed"]
                    ELSE [exchange EXCEPT !.stream = "destroyed"])
       ELSE Set([exchange EXCEPT !.length = @ + 1])

(* Fault: the place a CAS redirect points to is taken as it comes.         *)
LeavesHomeNever(reply) == FALSE

LeavesHome(reply) == reply.location = "foreign"

(* A redirect is followed once by the CAS client, with the token and under *)
(* the same signal; the identities service is asked once more after a 406, *)
(* under a deadline of its own.                                            *)
Redirects(e, reply) ==
    /\ e.client = "cas" /\ e.attempt = 1
    /\ reply.status = 302 /\ reply.location # "none"
AsksAgain(e, reply) ==
    e.client = "identity" /\ e.attempt = 1 /\ reply.status = 406
Second(e) == Transmitted([e EXCEPT !.attempt = 2])

(* Fault: a connection that closes early counts as the end of the body.    *)
WholeEnough(e) == TRUE

Whole(e) == e.length = e.total

BodyEnds ==
    /\ exchange.stream = "body" /\ Whole(exchange)
    /\ IF exchange.pc = "settled"
       THEN Set([exchange EXCEPT !.stream = "ended"])
       ELSE \E reply \in Reply :
              LET e == [exchange EXCEPT !.stream = "ended"] IN
              IF Redirects(e, reply)
              THEN Set(IF LeavesHome(reply)
                           THEN Settled(e, "foreign-link")
                           ELSE [Second(e) EXCEPT !.target = reply.location])
              ELSE IF AsksAgain(e, reply)
              THEN Set([Second(e) EXCEPT !.timer = "on"])
              ELSE Set(Settled(e, VerdictOn(e.client, reply)))

(* The request or the response fails; after an abort it still does.        *)
ConnectionFails ==
    /\ exchange.pc \in {"sent", "settled"}
    /\ exchange.stream \in {"none", "body"} /\ exchange.timer # "off"
    /\ Set([IF exchange.pc = "sent"
                THEN Settled(exchange, Unreached(exchange.client))
                ELSE exchange EXCEPT !.stream = "destroyed"])

(* Fault: the deadline is for the head of the answer only.                 *)
HearsHead(e) == e.listening /\ e.stream = "none"

Hears(e) == e.listening

(* onAbort, for the caller's signal or the timeout's.                      *)
OnAbort(e) ==
    IF Hears(e) THEN [Settled(e, Unreached(e.client)) EXCEPT !.stream = "destroyed"]
                ELSE e
TimerFires ==
    /\ exchange.timer = "on"
    /\ Set(OnAbort([exchange EXCEPT !.timer = "fired"]))
CallerAborts ==
    /\ exchange.caller = "quiet"
    /\ Set(OnAbort([exchange EXCEPT !.caller = "aborted"]))

Asks == Send \/ TokenAnswers
Arrives == HeadArrives \/ ChunkArrives \/ BodyEnds \/ ConnectionFails
HttpNext == Asks \/ Arrives \/ TimerFires \/ CallerAborts

(* Nothing is asked of the deployment; a timer fires.                      *)
HttpFairness == WF_exchange(TimerFires)
-----------------------------------------------------------------------------
(* Properties                                                              *)

(* Every variable has its type.                                            *)
HttpTypeOK == exchange \in Exchange

(* An answer counts as given only when all of its body has come, within    *)
(* the request's cap: a connection that breaks, or a body that is too      *)
(* large, is never half an answer.                                         *)
AnswersAreWhole ==
    /\ exchange.length <= exchange.cap
    /\ exchange.verdict \in {"ok", "forbidden", "rejected", "malformed"}
           => exchange.length = exchange.total

(* A request with the token in its headers goes to the profile's own       *)
(* deployment only, after a redirect too.                                  *)
StaysHome == exchange.pc = "sent" => exchange.target = "home"

(* A request that is over, however it ended, listens to no signal: its     *)
(* caller's may live as long as the window.                                *)
NoListenerLeft == exchange.listening => exchange.pc = "sent"

(* A request that was sent has its verdict, even if the deployment stops   *)
(* in the middle of a body.                                                *)
RequestSettles == exchange.pc = "sent" ~> exchange.pc = "settled"
=============================================================================

----------------------------- MODULE SignInFlow -----------------------------
(***************************************************************************)
(* Signing in through the browser (src/auth/browserFlow.ts and signIn.ts): *)
(* every attempt waits for a callback, which the one handler of the window *)
(* hands around (uriHandler.ts), and for what the user pastes, and the     *)
(* first to settle wins.  Attempts may overlap; callbacks may be stale,    *)
(* empty, doubled, or come before the attempt listens.  A code and a state *)
(* are named by the attempt they were made for; Stranger is anyone else's.  *)
(***************************************************************************)
EXTENDS Naturals, SequencesExt

CONSTANTS
    Attempts,           \* calls of signInWithBrowser
    Stranger,            \* a code or a state no attempt of this window made
    MaxPasteAttempts    \* MAX_PASTE_ATTEMPTS

ASSUME FlowAssumption ==
    Stranger \notin Attempts /\ MaxPasteAttempts \in Nat \ {0}

VARIABLES
    attempts,   \* the state of each attempt
    consumers   \* AuthUriHandler.consumers, in the order of insertion

flowVars == <<attempts, consumers>>

-----------------------------------------------------------------------------
Makers == Attempts \cup {Stranger}

(* The query of a callback.                                                *)
Query == [code : Makers \cup {"none"}, error : BOOLEAN, state : Makers]
(* The deployment answers the request that carried the state.              *)
Callbacks == {q \in Query : q.state # Stranger /\ q.code # "none" => q.code = q.state}

Problems == {"client-id-required", "oauth-rejected", "state-mismatch",
             "token-endpoint-unreachable", "thrown"}
Capture == Makers \cup Problems \cup {"ignored", "cancelled"}
Releases == {"with-client", "without-client", "unknown"}

Attempt == [pc : {"idle", "preparing", "opening", "waiting", "exchanging",
                  "writing", "done"},
            configured : BOOLEAN,       \* the profile names a client
            release : Releases,         \* of the deployment, as far as known
            redirects : BOOLEAN,        \* a redirect_uri was sent
            tries : 0 .. MaxPasteAttempts,
            last : Capture,
            code : Makers \cup {"none"},
            endedBy : Makers \cup {"box", "none"},      \* history
            outcome : Problems \cup {"none", "tokens", "cancelled"}]
NewAttempt == [pc |-> "idle", configured |-> FALSE, release |-> "unknown",
               redirects |-> FALSE, tries |-> 0, last |-> "cancelled",
               code |-> "none", endedBy |-> "none", outcome |-> "none"]

FlowInit ==
    /\ attempts = [a \in Attempts |-> NewAttempt]
    /\ consumers = <<>>

-----------------------------------------------------------------------------
(* Reading what came back                                                  *)

(* Fault: any callback with a code is taken for the attempt's own.         *)
ReadCallbackUnchecked(q, a) ==
    IF q.code = "none" /\ ~q.error THEN "ignored"
    ELSE IF q.error THEN "oauth-rejected" ELSE q.code

(* readCallback: the state is compared before anything else is believed.   *)
ReadCallback(q, a) ==
    IF q.code = "none" /\ ~q.error THEN "ignored"
    ELSE IF q.state # a THEN "state-mismatch"
    ELSE IF q.error THEN "oauth-rejected" ELSE q.code

(* Fault: a callback of somebody else ends the wait.                       *)
EndsWaitAny(capture) == capture # "ignored"

EndsWait(capture) == capture \notin {"ignored", "state-mismatch"}

(* What readPastedCode makes of a text: an address with a code, or a query *)
(* copied out of one, counts as a callback; every other text is a code     *)
(* nothing can check.                                                      *)
Pasted(a) == {"cancelled"} \cup Makers \cup {ReadCallback(q, a) : q \in Callbacks}

-----------------------------------------------------------------------------
(* One attempt                                                             *)

Turns(a, new) == attempts' = [attempts EXCEPT ![a] = new]
Stops(a, outcome) ==
    Turns(a, [NewAttempt EXCEPT !.pc = "done", !.outcome = outcome,
                                !.endedBy = attempts[a].endedBy])

Begin(a) ==
    /\ attempts[a].pc = "idle"
    /\ \E configured \in BOOLEAN, release \in Releases :
         Turns(a, [NewAttempt EXCEPT !.pc = "preparing",
                                       !.configured = configured,
                                       !.release = release])
    /\ UNCHANGED consumers

(* callbackUri has answered, or has failed and offers no address;          *)
(* beginSignIn sends none for the built-in client.                         *)
Prepared(a) ==
    /\ attempts[a].pc = "preparing"
    /\ \E offered \in BOOLEAN :
         IF ~attempts[a].configured /\ attempts[a].release = "without-client"
         THEN Stops(a, "client-id-required")
         ELSE Turns(a, [attempts[a] EXCEPT
                  !.pc = "opening", !.release = "unknown",
                  !.redirects = offered /\ attempts[a].configured])
    /\ UNCHANGED consumers

(* captureCode: the callback and the box are waited for together, also     *)
(* when no browser could be opened.                                        *)
Opened(a) ==
    /\ attempts[a].pc = "opening"
    /\ Turns(a, [attempts[a] EXCEPT !.pc = "waiting", !.tries = 1])
    /\ consumers' = Append(consumers, a)

OpenFails(a) ==
    /\ attempts[a].pc = "opening"
    /\ Stops(a, "thrown")
    /\ UNCHANGED consumers

(* Fault: the subscription is left to the next callback to clean up.       *)
StopsListeningNever(a) == consumers

(* The finally of captureCode takes the one place of the attempt out of    *)
(* the set; cancelling the token closes the box.                           *)
StopsListening(a) ==
    RemoveAt(consumers, CHOOSE i \in DOMAIN consumers : consumers[i] = a)

(* What an attempt does with what was captured.                            *)
Ended(a, capture, by) ==
    /\ IF capture \in Makers
       THEN Turns(a, [NewAttempt EXCEPT
                !.pc = "exchanging", !.configured = attempts[a].configured,
                !.code = capture, !.endedBy = by])
       ELSE Turns(a, [NewAttempt EXCEPT
                !.pc = "done", !.endedBy = by,
                !.outcome = IF capture \in Problems THEN capture ELSE "cancelled"])
    /\ consumers' = StopsListening(a)

(* handleUri: the first attempt, in order, that accepts the callback.      *)
Accepts(q, i) == EndsWait(ReadCallback(q, consumers[i]))
HandleUri(q) ==
    /\ \E i \in DOMAIN consumers :
         /\ Accepts(q, i)
         /\ \A j \in 1 .. (i - 1) : ~Accepts(q, j)
         /\ Ended(consumers[i], ReadCallback(q, consumers[i]), q.state)

(* A deployment comes back only to an address it was given; a link that is *)
(* nobody's, or that comes too late or too early, is dropped.              *)
CallbackArrives ==
    \E q \in Callbacks :
        /\ q.state # Stranger => attempts[q.state].redirects
        /\ HandleUri(q)

(* Fault: the box is offered again for as long as it is answered.          *)
TriesLeftAlways(a) == TRUE

TriesLeft(a) == attempts[a].tries < MaxPasteAttempts

(* readFromPasteBox: an answer of no use is met with the box again.        *)
BoxAnswered(a) ==
    /\ attempts[a].pc = "waiting"
    /\ \E capture \in Pasted(a) :
         IF EndsWait(capture) \/ ~TriesLeft(a)
         THEN Ended(a, capture, "box")
         ELSE /\ Turns(a, [attempts[a] EXCEPT
                     !.tries = IF @ < MaxPasteAttempts THEN @ + 1 ELSE @,
                     !.last = capture])
              /\ UNCHANGED consumers

(* A box that cannot be shown ends the attempt with the last answer.       *)
BoxFails(a) ==
    /\ attempts[a].pc = "waiting"
    /\ Ended(a, attempts[a].last, "box")

(* finishSignIn.  The verifier is the attempt's own, so no other code is   *)
(* taken; a deployment of unknown release may lack the built-in client.    *)
Redeemable(a) == attempts[a].code = a
Exchanged(a) ==
    /\ attempts[a].pc = "exchanging"
    /\ \/ /\ Redeemable(a)
          /\ Turns(a, [attempts[a] EXCEPT !.pc = "writing"])
       \/ Stops(a, "oauth-rejected")
       \/ Stops(a, "token-endpoint-unreachable")
       \/ ~attempts[a].configured /\ Stops(a, "client-id-required")
    /\ UNCHANGED consumers

SessionKept(a) ==
    /\ attempts[a].pc = "writing"
    /\ \E outcome \in {"tokens", "thrown"} : Stops(a, outcome)
    /\ UNCHANGED consumers

(* The slot of an attempt that is over may be used for the next.           *)
Again(a) ==
    /\ attempts[a].pc = "done"
    /\ Turns(a, NewAttempt)
    /\ UNCHANGED consumers

(* registerAuthUriHandler's subscription is disposed with the window.      *)
AttemptStep(a) ==
    \/ Begin(a) \/ Prepared(a) \/ Opened(a) \/ OpenFails(a)
    \/ BoxAnswered(a) \/ BoxFails(a) \/ Exchanged(a) \/ SessionKept(a) \/ Again(a)

FlowNext == CallbackArrives \/ \E a \in Attempts : AttemptStep(a)

(* Somebody answers each box, if only by dismissing it; the exchange has a *)
(* timeout and the secret storage answers.                                 *)
FlowFairness ==
    \A a \in Attempts :
        WF_flowVars(BoxAnswered(a) \/ BoxFails(a) \/ Exchanged(a) \/ SessionKept(a))
-----------------------------------------------------------------------------
(* Properties                                                              *)

(* Every variable has its type.                                            *)
FlowTypeOK ==
    /\ attempts \in [Attempts -> Attempt]
    /\ consumers \in Seq(Attempts)

(* A wait is ended by the attempt's own callback or at its own box: a link *)
(* of another attempt or from another window neither gives it a code nor   *)
(* fails it.  A state that does not match is an outcome only when the user *)
(* pasted it, as the last answer the box had to offer.                     *)
EndedByItsOwn ==
    \A a \in Attempts :
        /\ attempts[a].endedBy \in {a, "box", "none"}
        /\ attempts[a].outcome = "state-mismatch" => attempts[a].endedBy = "box"

(* The handler holds exactly the attempts that wait, each once: one that   *)
(* has settled by any way out, the box or a failure too, is not offered    *)
(* callbacks and does not leak.                                            *)
ListensWhileWaiting ==
    /\ \A a \in Attempts :
         attempts[a].pc = "waiting" <=> \E i \in DOMAIN consumers : consumers[i] = a
    /\ \A i, j \in DOMAIN consumers : consumers[i] = consumers[j] => i = j

(* An attempt whose boxes are answered comes to an end, also when none of  *)
(* the answers is of use.                                                  *)
AttemptSettles ==
    \A a \in Attempts : attempts[a].pc = "waiting" ~> attempts[a].pc = "done"
=============================================================================

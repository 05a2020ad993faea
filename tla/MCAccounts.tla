----------------------------- MODULE MCAccounts -----------------------------
(***************************************************************************)
(* The parts of signing in for TLC.  They share no variable, so a behaviour *)
(* is a behaviour of one of them, `part', while the others stay at their   *)
(* initial states: what the parts do side by side adds nothing.            *)
(***************************************************************************)
EXTENDS AuthProvider, SignInFlow, HttpExchange

VARIABLES part

accountsVars == <<vars, flowVars, exchange, part>>

AccountsInit ==
    /\ part \in {"provider", "flow", "exchange"}
    /\ Init /\ FlowInit /\ HttpInit
    /\ part # "provider" => \A a \in Accounts : stored[a] = Nobody

ProviderSteps == part = "provider" /\ Next /\ Apart' /\ UNCHANGED <<flowVars, exchange, part>>
FlowSteps == part = "flow" /\ FlowNext /\ UNCHANGED <<vars, exchange, part>>
ExchangeSteps == part = "exchange" /\ HttpNext /\ UNCHANGED <<vars, flowVars, part>>

AccountsNext == ProviderSteps \/ FlowSteps \/ ExchangeSteps

(* The fairness of each part; what it names is not enabled in the others.  *)
AccountsSpec ==
    /\ AccountsInit /\ [][AccountsNext]_accountsVars
    /\ Fairness /\ FlowFairness /\ HttpFairness

(* Every variable has its type.                                            *)
AccountsTypeOK == TypeOK /\ FlowTypeOK /\ HttpTypeOK

(* An account answers with its own sessions, a token is sent to its issuer *)
(* alone, and who signed out stays so, whatever renewals are under way.    *)
SessionsAreOwn == AnswerFits /\ TokensStayHome /\ SignOutSticks

(* A sign-in ends with what was answered to it, and listens until then.    *)
FlowIsOwn == EndedByItsOwn /\ ListensWhileWaiting

(* What a request answers with is the whole answer of its own deployment,  *)
(* and it leaves nothing behind that still listens.                        *)
ExchangeIsWhole == AnswersAreWhole /\ StaysHome /\ NoListenerLeft

(* What is asked of an account, of the browser or of a deployment comes to *)
(* an answer.                                                              *)
AccountsSettle == CallsSettle /\ AttemptSettles /\ RequestSettles
=============================================================================

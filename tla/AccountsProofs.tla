---------------------------- MODULE AccountsProofs ----------------------------
(* Signing in, for any number of accounts, deployments, calls, attempts and *)
(* chunks: what a request answers with, what ends a sign-in in the browser, *)
(* and whose sessions the provider hands out.                              *)
EXTENDS MCAccounts, SequenceTheorems, TLAPS

(* A step is of the part that runs; to the others it is none.              *)
LEMMA PartsStep ==
    ASSUME [AccountsNext]_accountsVars
    PROVE  [Next /\ Apart']_vars /\ [FlowNext]_flowVars /\ [HttpNext]_exchange
BY DEF AccountsNext, ProviderSteps, FlowSteps, ExchangeSteps, accountsVars

-----------------------------------------------------------------------------
(* One request.  Only the end of a body that has come whole gives a verdict *)
(* on what was answered, and nothing comes after it.                       *)
Given == {"ok", "forbidden", "rejected", "malformed"}

Fits(e) ==
    /\ e \in Exchange
    /\ e.length <= e.cap
    /\ e.verdict \in Given => e.length = e.total /\ e.pc = "settled" /\ e.stream = "ended"
    /\ e.target = "home"
    /\ e.listening => e.pc = "sent"

LEMMA SettledFits ==
    ASSUME NEW e \in Exchange, NEW v \in Verdicts,
           e.length <= e.cap, e.target = "home",
           v \in Given => e.length = e.total /\ e.stream = "ended"
    PROVE  Fits(Settled(e, v))
BY DEF Fits, Settled, Exchange

LEMMA ReachedNot ==
    ASSUME NEW c \in Clients
    PROVE  Unreached(c) \in Verdicts /\ Unreached(c) \notin Given
BY DEF Unreached, Verdicts, Given

LEMMA TransmittedFits ==
    ASSUME NEW e \in Exchange, e.target = "home", e.length <= e.cap, e.verdict \notin Given
    PROVE  Fits(Transmitted(e))
<1>1. CASE Aborted(e)
  <2>1. e.client \in Clients
    BY DEF Exchange
  <2>2. Fits(Settled(e, Unreached(e.client)))
    BY <2>1, ReachedNot, SettledFits
  <2>3. QED
    BY <1>1, <2>2 DEF Transmitted
<1>2. CASE ~Aborted(e)
  <2>1. Transmitted(e) = [e EXCEPT !.pc = "sent", !.stream = "none", !.listening = TRUE,
                                   !.length = 0, !.total = 0]
    BY <1>2 DEF Transmitted
  <2>2. Transmitted(e) \in Exchange
    <3> DEFINE f == [e EXCEPT !.pc = "sent", !.stream = "none", !.listening = TRUE]
    <3>1. f \in Exchange
      BY DEF Exchange
    <3>2. 0 \in 0..MaxChunks
      BY HttpAssumption
    <3>3. [f EXCEPT !.length = 0, !.total = 0] \in Exchange
      <4> HIDE DEF f
      <4> QED BY <3>1, <3>2 DEF Exchange
    <3>4. QED
      BY <2>1, <3>3
  <2>3. /\ Transmitted(e).length = 0 /\ e.cap \in Nat /\ Transmitted(e).cap = e.cap
        /\ Transmitted(e).target = "home" /\ Transmitted(e).pc = "sent"
        /\ Transmitted(e).verdict = e.verdict
    BY <2>1, HttpAssumption DEF Exchange
  <2>4. QED
    BY <2>2, <2>3 DEF Fits
<1>3. QED
  BY <1>1, <1>2

LEMMA AbortFits ==
    ASSUME NEW e, Fits(e)
    PROVE  Fits(OnAbort(e))
<1>1. CASE Hears(e)
  <2>1. e \in Exchange /\ e.client \in Clients
    BY DEF Exchange, Fits
  <2>2. Fits(Settled(e, Unreached(e.client)))
    BY <2>1, ReachedNot, SettledFits DEF Fits
  <2>3. /\ Settled(e, Unreached(e.client)).verdict = Unreached(e.client)
        /\ Unreached(e.client) \notin Given
    BY <2>1, ReachedNot DEF Settled, Exchange
  <2>4. Fits([Settled(e, Unreached(e.client)) EXCEPT !.stream = "destroyed"])
    BY <2>2, <2>3 DEF Fits, Exchange
  <2>5. QED
    BY <1>1, <2>4 DEF OnAbort
<1>2. CASE ~Hears(e)
  BY <1>2 DEF OnAbort
<1>3. QED
  BY <1>1, <1>2

LEMMA VerdictIsOne ==
    ASSUME NEW c \in Clients, NEW reply \in Reply
    PROVE  VerdictOn(c, reply) \in Verdicts
BY DEF VerdictOn, OfTokenEndpoint, OfIdentities, OfCompute, OfContent, OfCas, SentBack,
       Verdicts, Reply, Clients, Services

LEMMA ExchangeBegins == HttpInit => Fits(exchange)
BY HttpAssumption DEF HttpInit, IdleExchange, Fits, Exchange, Clients, Services, Verdicts, Given

LEMMA AsksFit ==
    ASSUME Fits(exchange), Asks
    PROVE  Fits(exchange')
<1>1. CASE Send
  <2>1. PICK client \in Clients, cap \in 1..MaxChunks, caller \in {"absent", "quiet"} :
          LET e == [IdleExchange EXCEPT !.client = client, !.cap = cap] IN
          \/ exchange' = Transmitted([e EXCEPT !.timer = "on"])
          \/ exchange' = Settled(e, "foreign-link")
          \/ exchange' = [e EXCEPT !.pc = "token", !.caller = caller]
    BY <1>1 DEF Send, Set
  <2> DEFINE e == [IdleExchange EXCEPT !.client = client, !.cap = cap]
  <2>2. /\ e \in Exchange /\ e.target = "home" /\ e.length <= e.cap /\ e.verdict = "none"
        /\ e.listening = FALSE
    <3>1. /\ IdleExchange \in Exchange /\ IdleExchange.target = "home"
          /\ IdleExchange.verdict = "none" /\ IdleExchange.listening = FALSE
          /\ IdleExchange.length = 0
      BY HttpAssumption DEF IdleExchange, Exchange, Verdicts, Clients, Services
    <3>2. cap >= 0
      BY HttpAssumption
    <3> HIDE DEF IdleExchange
    <3>3. QED
      BY <3>1, <3>2 DEF Exchange
  <2>3. [e EXCEPT !.timer = "on"] \in Exchange
    BY <2>2 DEF Exchange
  <2>4. /\ [e EXCEPT !.timer = "on"].target = "home"
        /\ [e EXCEPT !.timer = "on"].length <= [e EXCEPT !.timer = "on"].cap
        /\ [e EXCEPT !.timer = "on"].verdict \notin Given
    BY <2>2 DEF Exchange, Given
  <2>5. Fits(Transmitted([e EXCEPT !.timer = "on"]))
    <3> HIDE DEF e
    <3> QED BY <2>3, <2>4, TransmittedFits
  <2>6. Fits(Settled(e, "foreign-link"))
    <3> HIDE DEF e
    <3>1. "foreign-link" \in Verdicts \ Given
      BY DEF Verdicts, Given
    <3>2. QED
      BY <2>2, <3>1, SettledFits
  <2>7. Fits([e EXCEPT !.pc = "token", !.caller = caller])
    <3> HIDE DEF e
    <3> QED BY <2>2 DEF Exchange, Fits, Given
  <2>8. QED
    BY <2>1, <2>5, <2>6, <2>7
<1>2. CASE TokenAnswers
  <2> DEFINE e == [exchange EXCEPT !.timer = "on"]
  <2>1. \/ exchange' = Transmitted(e)
        \/ exchange' = Settled(exchange, "unauthorized")
    BY <1>2 DEF TokenAnswers, Set
  <2>2. /\ e \in Exchange /\ e.target = "home" /\ e.length <= e.cap /\ e.verdict \notin Given
    BY <1>2 DEF TokenAnswers, Fits, Exchange
  <2>3. Fits(Transmitted(e))
    <3> HIDE DEF e
    <3> QED BY <2>2, TransmittedFits
  <2>4. Fits(Settled(exchange, "unauthorized"))
    <3>1. "unauthorized" \in Verdicts \ Given
      BY DEF Verdicts, Given
    <3>2. QED
      BY <3>1, SettledFits DEF Fits
  <2>5. QED
    BY <2>1, <2>3, <2>4
<1>3. QED
  BY <1>1, <1>2 DEF Asks

LEMMA BodyFits ==
    ASSUME Fits(exchange), BodyEnds
    PROVE  Fits(exchange')
<1>1. CASE exchange.pc = "settled"
  <2>1. exchange' = [exchange EXCEPT !.stream = "ended"]
    BY <1>1 DEF BodyEnds, Set
  <2>2. exchange.verdict \notin Given
    BY DEF BodyEnds, Fits
  <2>3. QED
    BY <2>1, <2>2 DEF Fits, Exchange
<1>2. CASE exchange.pc # "settled"
  <2> DEFINE e == [exchange EXCEPT !.stream = "ended"]
  <2>1. PICK reply \in Reply :
          IF Redirects(e, reply)
          THEN IF LeavesHome(reply)
               THEN exchange' = Settled(e, "foreign-link")
               ELSE exchange' = [Second(e) EXCEPT !.target = reply.location]
          ELSE \/ exchange' = [Second(e) EXCEPT !.timer = "on"]
               \/ exchange' = Settled(e, VerdictOn(e.client, reply))
    BY <1>2 DEF BodyEnds, Set
  <2>2. /\ e \in Exchange /\ e.target = "home" /\ e.length <= e.cap
        /\ e.verdict \notin Given /\ e.length = e.total /\ e.stream = "ended"
        /\ e.client \in Clients
    BY <1>2 DEF Fits, Exchange, BodyEnds, Whole
  <2> HIDE DEF e
  <2>3. \A v \in Verdicts : Fits(Settled(e, v))
    BY <2>2, SettledFits
  <2>4. Fits(Second(e)) /\ Second(e).verdict \notin Given
    <3> DEFINE f == [e EXCEPT !.attempt = 2]
    <3>1. /\ f \in Exchange /\ f.target = "home" /\ f.length <= f.cap /\ f.verdict \notin Given
          /\ f.client \in Clients
      BY <2>2 DEF Exchange
    <3> HIDE DEF f
    <3>2. Fits(Transmitted(f))
      BY <3>1, TransmittedFits
    <3>3. Transmitted(f).verdict \notin Given
      <4>1. CASE Aborted(f)
        <5>1. Transmitted(f) = Settled(f, Unreached(f.client)) /\ Unreached(f.client) \notin Given
          BY <4>1, <3>1, ReachedNot DEF Transmitted
        <5>2. QED
          BY <5>1, <3>1 DEF Settled, Exchange
      <4>2. CASE ~Aborted(f)
        <5>1. Transmitted(f) = [f EXCEPT !.pc = "sent", !.stream = "none", !.listening = TRUE,
                                         !.length = 0, !.total = 0]
          BY <4>2 DEF Transmitted
        <5>2. QED
          BY <5>1, <3>1 DEF Exchange
      <4>3. QED
        BY <4>1, <4>2
    <3>4. QED
      BY <3>2, <3>3 DEF Second, f
  <2>5. CASE Redirects(e, reply)
    <3>1. CASE LeavesHome(reply)
      <4>1. "foreign-link" \in Verdicts
        BY DEF Verdicts
      <4>2. QED
        BY <2>1, <2>3, <2>5, <3>1, <4>1
    <3>2. CASE ~LeavesHome(reply)
      <4>1. exchange' = [Second(e) EXCEPT !.target = reply.location]
        BY <2>1, <2>5, <3>2
      <4>2. reply.location = "home"
        BY <2>5, <3>2 DEF Redirects, LeavesHome, Reply
      <4>3. QED
        BY <2>4, <4>1, <4>2 DEF Fits, Exchange
    <3>3. QED
      BY <3>1, <3>2
  <2>6. CASE ~Redirects(e, reply)
    <3>1. VerdictOn(e.client, reply) \in Verdicts
      BY <2>2, VerdictIsOne
    <3>2. Fits([Second(e) EXCEPT !.timer = "on"])
      BY <2>4 DEF Fits, Exchange
    <3>3. QED
      BY <2>1, <2>3, <2>6, <3>1, <3>2
  <2>7. QED
    BY <2>5, <2>6
<1>3. QED
  BY <1>1, <1>2

LEMMA ArrivesFit ==
    ASSUME Fits(exchange), Arrives
    PROVE  Fits(exchange')
<1>1. CASE HeadArrives
  <2>1. PICK total \in 0..MaxChunks :
          exchange' = [exchange EXCEPT !.stream = "body", !.total = total]
    BY <1>1 DEF HeadArrives, Set
  <2>2. exchange.verdict \notin Given
    BY <1>1 DEF HeadArrives, Fits
  <2>3. QED
    BY <2>1, <2>2 DEF Fits, Exchange
<1>2. CASE ChunkArrives
  <2>1. exchange.verdict \notin Given /\ exchange.length < exchange.total
    BY <1>2 DEF ChunkArrives, Fits
  <2>2. CASE Over(exchange) /\ exchange.pc = "sent"
    <3>1. exchange' = [Settled(exchange, "too-large") EXCEPT !.stream = "destroyed"]
      BY <1>2, <2>2 DEF ChunkArrives, Set
    <3>2. "too-large" \in Verdicts \ Given
      BY DEF Verdicts, Given
    <3>3. Fits(Settled(exchange, "too-large"))
      BY <3>2, SettledFits DEF Fits
    <3>4. Settled(exchange, "too-large").verdict = "too-large"
      BY DEF Settled, Fits, Exchange
    <3>5. QED
      BY <3>1, <3>2, <3>3, <3>4 DEF Fits, Exchange
  <2>3. CASE Over(exchange) /\ exchange.pc # "sent"
    <3>1. exchange' = [exchange EXCEPT !.stream = "destroyed"]
      BY <1>2, <2>3 DEF ChunkArrives, Set
    <3>2. QED
      BY <2>1, <3>1 DEF Fits, Exchange
  <2>4. CASE ~Over(exchange)
    <3>1. exchange' = [exchange EXCEPT !.length = exchange.length + 1]
      BY <1>2, <2>4 DEF ChunkArrives, Set
    <3>2. /\ exchange \in Exchange
          /\ exchange.length \in 0..MaxChunks /\ exchange.total \in 0..MaxChunks
          /\ exchange.cap \in 1..MaxChunks
      BY DEF Fits, Exchange
    <3>3. exchange.length + 1 \in 0..MaxChunks /\ exchange.length + 1 <= exchange.cap
      BY <2>1, <2>4, <3>2, HttpAssumption DEF Over
    <3>4. QED
      BY <2>1, <3>1, <3>3 DEF Fits, Exchange
  <2>5. QED
    BY <2>2, <2>3, <2>4
<1>3. CASE ConnectionFails
  <2>1. exchange.pc = "settled" => exchange.verdict \notin Given
    BY <1>3 DEF ConnectionFails, Fits
  <2>2. CASE exchange.pc = "sent"
    <3> DEFINE f == Settled(exchange, Unreached(exchange.client))
    <3>1. exchange' = [f EXCEPT !.stream = "destroyed"]
      BY <1>3, <2>2 DEF ConnectionFails, Set
    <3>2. exchange \in Exchange /\ exchange.client \in Clients
      BY DEF Fits, Exchange
    <3>3. Fits(f)
      BY <3>2, ReachedNot, SettledFits DEF Fits
    <3>4. f.verdict \notin Given
      BY <3>2, ReachedNot DEF Settled, Exchange
    <3> HIDE DEF f
    <3>5. QED
      BY <3>1, <3>3, <3>4 DEF Fits, Exchange
  <2>3. CASE exchange.pc # "sent"
    <3>1. exchange' = [exchange EXCEPT !.stream = "destroyed"] /\ exchange.pc = "settled"
      BY <1>3, <2>3 DEF ConnectionFails, Set
    <3>2. QED
      BY <2>1, <3>1 DEF Fits, Exchange
  <2>4. QED
    BY <2>2, <2>3
<1>4. CASE BodyEnds
  BY <1>4, BodyFits
<1>5. QED
  BY <1>1, <1>2, <1>3, <1>4 DEF Arrives

LEMMA ExchangeStep ==
    ASSUME Fits(exchange), [HttpNext]_exchange
    PROVE  Fits(exchange')
<1>1. CASE TimerFires
  <2>1. exchange' = OnAbort([exchange EXCEPT !.timer = "fired"])
    BY <1>1 DEF TimerFires, Set
  <2>2. Fits([exchange EXCEPT !.timer = "fired"])
    BY DEF Fits, Exchange
  <2>3. QED
    BY <2>1, <2>2, AbortFits
<1>2. CASE CallerAborts
  <2>1. exchange' = OnAbort([exchange EXCEPT !.caller = "aborted"])
    BY <1>2 DEF CallerAborts, Set
  <2>2. Fits([exchange EXCEPT !.caller = "aborted"])
    BY DEF Fits, Exchange
  <2>3. QED
    BY <2>1, <2>2, AbortFits
<1>3. CASE UNCHANGED exchange
  BY <1>3
<1>4. QED
  BY <1>1, <1>2, <1>3, AsksFit, ArrivesFit DEF HttpNext

(* What a request answers with is the whole answer of its own deployment,  *)
(* within its cap, whichever of the connection's events, the deadline and  *)
(* the caller's signal comes first; and when it is over it listens to no   *)
(* signal (transport.ts, casRest.ts).                                      *)
THEOREM ExchangeHolds == AccountsSpec => []ExchangeIsWhole
<1>1. AccountsInit => Fits(exchange)
  BY ExchangeBegins DEF AccountsInit
<1>2. Fits(exchange) /\ [AccountsNext]_accountsVars => Fits(exchange)'
  <2> SUFFICES ASSUME Fits(exchange), [AccountsNext]_accountsVars
               PROVE  Fits(exchange')
    BY DEF Fits
  <2> QED
    BY PartsStep, ExchangeStep
<1>3. Fits(exchange) => ExchangeIsWhole
  BY DEF Fits, ExchangeIsWhole, AnswersAreWhole, StaysHome, NoListenerLeft, Given
<1>4. QED
  BY <1>1, <1>2, <1>3, PTL DEF AccountsSpec

-----------------------------------------------------------------------------
(* Signing in through the browser.                                         *)
FlowInv == FlowTypeOK /\ EndedByItsOwn /\ ListensWhileWaiting

(* Taking one place out of a sequence.                                     *)
LEMMA Removed ==
    ASSUME NEW S, NEW s \in Seq(S), NEW k \in DOMAIN s
    PROVE  /\ RemoveAt(s, k) \in Seq(S)
           /\ Len(RemoveAt(s, k)) = Len(s) - 1
           /\ \A i \in 1..(Len(s) - 1) :
                RemoveAt(s, k)[i] = IF i < k THEN s[i] ELSE s[i + 1]
<1> DEFINE x == SubSeq(s, 1, k - 1)
           y == SubSeq(s, k + 1, Len(s))
<1>1. PICK n \in Nat : n = Len(s)
  BY LenProperties
<1>2. k \in 1..n /\ DOMAIN s = 1..n
  BY <1>1, LenProperties
<1>3. \A i \in 1..n : s[i] \in S
  BY <1>1, ElementOfSeq
<1>4. /\ 1 \in Int /\ k - 1 \in Int /\ k + 1 \in Int /\ n \in Int
      /\ \A i \in 1..(k - 1) : s[i] \in S
      /\ \A i \in (k + 1)..n : s[i] \in S
  BY <1>1, <1>2, <1>3
<1>5. /\ SubSeq(s, 1, k - 1) \in Seq(S)
      /\ Len(SubSeq(s, 1, k - 1)) = IF 1 <= k - 1 THEN (k - 1) - 1 + 1 ELSE 0
      /\ \A i \in 1..((k - 1) - 1 + 1) : SubSeq(s, 1, k - 1)[i] = s[1 + i - 1]
  BY <1>4, SubSeqProperties
<1>6. /\ SubSeq(s, k + 1, n) \in Seq(S)
      /\ Len(SubSeq(s, k + 1, n)) = IF k + 1 <= n THEN n - (k + 1) + 1 ELSE 0
      /\ \A i \in 1..(n - (k + 1) + 1) : SubSeq(s, k + 1, n)[i] = s[(k + 1) + i - 1]
  BY <1>4, SubSeqProperties
<1>7. /\ x \in Seq(S) /\ Len(x) = k - 1 /\ \A i \in 1..(k - 1) : x[i] = s[i]
      /\ y \in Seq(S) /\ Len(y) = n - k /\ \A i \in 1..(n - k) : y[i] = s[k + i]
  <2>1. y = SubSeq(s, k + 1, n)
    BY <1>1
  <2>2. /\ (IF 1 <= k - 1 THEN (k - 1) - 1 + 1 ELSE 0) = k - 1 /\ (k - 1) - 1 + 1 = k - 1
        /\ (IF k + 1 <= n THEN n - (k + 1) + 1 ELSE 0) = n - k /\ n - (k + 1) + 1 = n - k
        /\ \A i \in 1..(k - 1) : 1 + i - 1 = i
        /\ \A i \in 1..(n - k) : (k + 1) + i - 1 = k + i
    BY <1>1, <1>2
  <2> HIDE DEF y
  <2>3. QED
    BY <1>5, <1>6, <2>1, <2>2
<1> HIDE DEF x, y
<1>8. /\ x \o y \in Seq(S)
      /\ Len(x \o y) = Len(x) + Len(y)
      /\ \A i \in 1..(Len(x) + Len(y)) :
           (x \o y)[i] = IF i <= Len(x) THEN x[i] ELSE y[i - Len(x)]
  BY <1>7, ConcatProperties, Zenon
<1>9. RemoveAt(s, k) = x \o y
  BY DEF RemoveAt, x, y
<1>10. /\ Len(x) + Len(y) = n - 1
       /\ \A i \in 1..(n - 1) :
            (x \o y)[i] = IF i < k THEN s[i] ELSE s[i + 1]
  <2>1. Len(x) + Len(y) = n - 1
    <3>1. Len(x) = k - 1 /\ Len(y) = n - k /\ k \in Int /\ n \in Int
      BY <1>2, <1>7
    <3>2. QED
      BY <3>1
  <2>2. ASSUME NEW i \in 1..(n - 1)
        PROVE  (x \o y)[i] = IF i < k THEN s[i] ELSE s[i + 1]
    <3>1. (x \o y)[i] = IF i <= Len(x) THEN x[i] ELSE y[i - Len(x)]
      BY <1>8, <2>1
    <3>2. CASE i < k
      <4>1. i \in 1..(k - 1) /\ i <= Len(x)
        BY <1>1, <1>2, <1>7, <3>2
      <4>2. QED
        BY <1>7, <3>1, <3>2, <4>1
    <3>3. CASE ~(i < k)
      <4>1. /\ i - Len(x) \in 1..(n - k) /\ ~(i <= Len(x)) /\ k + (i - Len(x)) = i + 1
        BY <1>1, <1>2, <1>7, <3>3
      <4>2. y[i - Len(x)] = s[i + 1]
        BY <1>7, <4>1
      <4>3. QED
        BY <3>1, <3>3, <4>1, <4>2
    <3>4. QED
      BY <3>2, <3>3
  <2>3. QED
    BY <2>1, <2>2
<1>11. QED
  BY <1>1, <1>8, <1>9, <1>10

LEMMA OneLeaves ==
    ASSUME NEW a \in Attempts, consumers \in Seq(Attempts),
           \A i, j \in DOMAIN consumers : consumers[i] = consumers[j] => i = j,
           \E i \in DOMAIN consumers : consumers[i] = a
    PROVE  /\ StopsListening(a) \in Seq(Attempts)
           /\ \A i, j \in DOMAIN StopsListening(a) :
                StopsListening(a)[i] = StopsListening(a)[j] => i = j
           /\ \A b \in Attempts :
                (\E i \in DOMAIN StopsListening(a) : StopsListening(a)[i] = b)
                <=> (b # a /\ \E i \in DOMAIN consumers : consumers[i] = b)
<1> DEFINE k == CHOOSE i \in DOMAIN consumers : consumers[i] = a
           t == RemoveAt(consumers, k)
<1>1. k \in DOMAIN consumers /\ consumers[k] = a
  OBVIOUS
<1>2. PICK n \in Nat : n = Len(consumers) /\ DOMAIN consumers = 1..n
  BY LenProperties
<1>3. StopsListening(a) = t
  BY DEF StopsListening
<1> HIDE DEF k
<1>4. /\ t \in Seq(Attempts) /\ Len(t) = n - 1
      /\ \A i \in 1..(n - 1) : t[i] = IF i < k THEN consumers[i] ELSE consumers[i + 1]
  BY <1>1, <1>2, Removed
<1> HIDE DEF t
<1>5. DOMAIN t = 1..(n - 1)
  BY <1>4, LenProperties
<1>6. \A i, j \in 1..(n - 1) : t[i] = t[j] => i = j
  <2> SUFFICES ASSUME NEW i \in 1..(n - 1), NEW j \in 1..(n - 1), t[i] = t[j]
               PROVE  i = j
    OBVIOUS
  <2> DEFINE p == IF i < k THEN i ELSE i + 1
             q == IF j < k THEN j ELSE j + 1
  <2>1. k \in 1..n /\ p \in 1..n /\ q \in 1..n
    BY <1>1, <1>2
  <2>2. t[i] = consumers[p] /\ t[j] = consumers[q]
    BY <1>4
  <2>3. p = q
    BY <1>2, <2>1, <2>2
  <2>4. QED
    BY <2>1, <2>3
<1>7. ASSUME NEW b \in Attempts
      PROVE  (\E i \in 1..(n - 1) : t[i] = b)
             <=> (b # a /\ \E i \in 1..n : consumers[i] = b)
  <2>1. ASSUME NEW i \in 1..(n - 1), t[i] = b
        PROVE  b # a /\ \E j \in 1..n : consumers[j] = b
    <3> DEFINE p == IF i < k THEN i ELSE i + 1
    <3>1. k \in 1..n /\ p \in 1..n /\ p # k
      BY <1>1, <1>2
    <3>2. consumers[p] = b
      BY <1>4, <2>1
    <3>3. QED
      BY <1>1, <1>2, <3>1, <3>2
  <2>2. ASSUME NEW j \in 1..n, consumers[j] = b, b # a
        PROVE  \E i \in 1..(n - 1) : t[i] = b
    <3> DEFINE i == IF j < k THEN j ELSE j - 1
    <3>1. j # k /\ k \in 1..n
      BY <1>1, <1>2, <2>2
    <3>2. /\ i \in 1..(n - 1) /\ (i < k <=> j < k) /\ (~(i < k) => i + 1 = j)
      BY <1>2, <3>1
    <3>3. t[i] = consumers[j]
      BY <1>4, <3>1, <3>2
    <3>4. QED
      BY <2>2, <3>2, <3>3
  <2>3. QED
    BY <2>1, <2>2
<1>8. QED
  BY <1>2, <1>3, <1>4, <1>5, <1>6, <1>7

LEMMA NewFits ==
    /\ NewAttempt \in Attempt
    /\ NewAttempt.pc = "idle" /\ NewAttempt.endedBy = "none" /\ NewAttempt.outcome = "none"
<1>1. 0 \in 0..MaxPasteAttempts
  BY FlowAssumption
<1>2. QED
  BY <1>1 DEF NewAttempt, Attempt, Makers, Releases, Capture

LEMMA Reading ==
    ASSUME NEW a \in Attempts, NEW q \in Callbacks
    PROVE  /\ ReadCallback(q, a) \in Capture
           /\ EndsWait(ReadCallback(q, a)) => q.state = a
BY DEF Callbacks, Query, ReadCallback, EndsWait, Capture, Makers, Problems

(* An attempt whose wait is over, by what it was ended.                    *)
LEMMA EndedFits ==
    ASSUME FlowInv, NEW a \in Attempts, NEW capture \in Capture, NEW by \in {a, "box"},
           attempts[a].pc = "waiting", Ended(a, capture, by),
           capture = "state-mismatch" => by = "box"
    PROVE  FlowInv'
<1>1. PICK new \in Attempt :
        /\ attempts' = [attempts EXCEPT ![a] = new] /\ new.pc # "waiting"
        /\ new.endedBy = by /\ (new.outcome = "state-mismatch" => by = "box")
  <2>1. CASE capture \in Makers
    <3> DEFINE new == [NewAttempt EXCEPT
                !.pc = "exchanging", !.configured = attempts[a].configured,
                !.code = capture, !.endedBy = by]
    <3>1. attempts' = [attempts EXCEPT ![a] = new]
      BY <2>1 DEF Ended, Turns
    <3>2. attempts[a].configured \in BOOLEAN
      BY DEF FlowInv, FlowTypeOK, Attempt
    <3>3. new \in Attempt
      BY <2>1, <3>2, NewFits DEF Attempt, Makers
    <3>4. new.pc # "waiting" /\ new.endedBy = by /\ new.outcome = "none"
      BY NewFits DEF Attempt
    <3>5. QED
      BY <3>1, <3>3, <3>4
  <2>2. CASE capture \notin Makers
    <3> DEFINE outcome == IF capture \in Problems THEN capture ELSE "cancelled"
               new == [NewAttempt EXCEPT !.pc = "done", !.endedBy = by, !.outcome = outcome]
    <3>1. attempts' = [attempts EXCEPT ![a] = new]
      BY <2>2 DEF Ended, Turns
    <3>2. /\ outcome \in Problems \cup {"cancelled"}
          /\ outcome = "state-mismatch" => capture = "state-mismatch"
      OBVIOUS
    <3> HIDE DEF outcome
    <3>3. new \in Attempt
      BY <3>2, NewFits DEF Attempt, Makers
    <3>4. new.pc # "waiting" /\ new.endedBy = by /\ new.outcome = outcome
      BY NewFits DEF Attempt
    <3>5. QED
      BY <3>1, <3>2, <3>3, <3>4
  <2>3. QED
    BY <2>1, <2>2
<1>2. /\ attempts' \in [Attempts -> Attempt] /\ attempts'[a] = new
      /\ \A b \in Attempts : b # a => attempts'[b] = attempts[b]
  BY <1>1 DEF FlowInv, FlowTypeOK
<1>3. consumers' = StopsListening(a)
  BY DEF Ended
<1>4. /\ consumers \in Seq(Attempts)
      /\ \A i, j \in DOMAIN consumers : consumers[i] = consumers[j] => i = j
      /\ \A b \in Attempts :
           attempts[b].pc = "waiting" <=> \E i \in DOMAIN consumers : consumers[i] = b
  BY DEF FlowInv, FlowTypeOK, ListensWhileWaiting
<1>5. /\ consumers' \in Seq(Attempts)
      /\ \A i, j \in DOMAIN consumers' : consumers'[i] = consumers'[j] => i = j
      /\ \A b \in Attempts :
           (\E i \in DOMAIN consumers' : consumers'[i] = b)
           <=> (b # a /\ attempts[b].pc = "waiting")
  <2>1. \E i \in DOMAIN consumers : consumers[i] = a
    BY <1>4
  <2> HIDE DEF FlowInv
  <2>2. QED
    BY <1>3, <1>4, <2>1, OneLeaves
<1>6. EndedByItsOwn'
  BY <1>1, <1>2 DEF FlowInv, EndedByItsOwn
<1>7. QED
  BY <1>1, <1>2, <1>5, <1>6 DEF FlowInv, FlowTypeOK, ListensWhileWaiting

(* An attempt that goes on while the handler's set stays as it is.         *)
LEMMA TurnsFit ==
    ASSUME FlowInv, NEW a \in Attempts, NEW new \in Attempt, Turns(a, new),
           UNCHANGED consumers, new.pc = "waiting" <=> attempts[a].pc = "waiting",
           new.endedBy \in {a, "box", "none"},
           new.outcome = "state-mismatch" => new.endedBy = "box"
    PROVE  FlowInv'
<1>1. /\ attempts' \in [Attempts -> Attempt] /\ attempts'[a] = new
      /\ \A b \in Attempts : b # a => attempts'[b] = attempts[b]
  BY DEF FlowInv, FlowTypeOK, Turns
<1>2. \A b \in Attempts : attempts'[b].pc = "waiting" <=> attempts[b].pc = "waiting"
  BY <1>1
<1>3. FlowTypeOK' /\ EndedByItsOwn'
  BY <1>1 DEF FlowInv, FlowTypeOK, EndedByItsOwn
<1>4. ListensWhileWaiting'
  BY <1>2 DEF FlowInv, ListensWhileWaiting
<1>5. QED
  BY <1>3, <1>4 DEF FlowInv

LEMMA StopsFit ==
    ASSUME FlowInv, NEW a \in Attempts,
           NEW outcome \in (Problems \ {"state-mismatch"}) \cup {"tokens", "cancelled"},
           Stops(a, outcome), UNCHANGED consumers, attempts[a].pc # "waiting"
    PROVE  FlowInv'
<1> DEFINE new == [NewAttempt EXCEPT !.pc = "done", !.outcome = outcome,
                                     !.endedBy = attempts[a].endedBy]
<1>1. /\ attempts[a].endedBy \in Makers \cup {"box", "none"}
      /\ attempts[a].endedBy \in {a, "box", "none"}
  BY DEF FlowInv, FlowTypeOK, EndedByItsOwn, Attempt
<1>2. new \in Attempt
  BY <1>1, NewFits DEF Attempt
<1>3. new.pc = "done" /\ new.outcome = outcome /\ new.endedBy = attempts[a].endedBy
  BY NewFits DEF Attempt
<1>4. Turns(a, new)
  BY DEF Stops
<1> HIDE DEF new
<1>5. QED
  BY <1>1, <1>2, <1>3, <1>4, TurnsFit

LEMMA FlowBegins == FlowInit => FlowInv
<1> SUFFICES ASSUME FlowInit PROVE FlowInv
  OBVIOUS
<1>1. /\ attempts \in [Attempts -> Attempt] /\ \A a \in Attempts : attempts[a] = NewAttempt
  BY NewFits DEF FlowInit
<1>2. consumers \in Seq(Attempts) /\ DOMAIN consumers = {}
  BY DEF FlowInit
<1>3. QED
  BY <1>1, <1>2, NewFits DEF FlowInv, FlowTypeOK, EndedByItsOwn, ListensWhileWaiting

LEMMA CallbackFits ==
    ASSUME FlowInv, CallbackArrives
    PROVE  FlowInv'
<1>1. PICK q \in Callbacks : HandleUri(q)
  BY DEF CallbackArrives
<1>2. PICK i \in DOMAIN consumers :
        /\ Accepts(q, i)
        /\ Ended(consumers[i], ReadCallback(q, consumers[i]), q.state)
  BY <1>1 DEF HandleUri
<1> DEFINE a == consumers[i]
<1>3. a \in Attempts /\ attempts[a].pc = "waiting"
  <2>1. consumers \in Seq(Attempts)
    BY DEF FlowInv, FlowTypeOK
  <2>2. a \in Attempts
    BY <2>1, ElementOfSeq, LenProperties
  <2>3. QED
    BY <2>2 DEF FlowInv, ListensWhileWaiting
<1>4. EndsWait(ReadCallback(q, a)) /\ Ended(a, ReadCallback(q, a), q.state)
  BY <1>2 DEF Accepts
<1> HIDE DEF a
<1>5. q.state = a /\ ReadCallback(q, a) \in Capture /\ ReadCallback(q, a) # "state-mismatch"
  <2>1. ReadCallback(q, a) # "state-mismatch"
    BY <1>4 DEF EndsWait
  <2>2. QED
    BY <1>3, <1>4, <2>1, Reading
<1>6. QED
  BY <1>3, <1>4, <1>5, EndedFits

LEMMA AttemptFits ==
    ASSUME FlowInv, NEW a \in Attempts, AttemptStep(a)
    PROVE  FlowInv'
<1>1. /\ attempts[a] \in Attempt /\ attempts[a].endedBy \in {a, "box", "none"}
      /\ attempts[a].outcome = "state-mismatch" => attempts[a].endedBy = "box"
  BY DEF FlowInv, FlowTypeOK, EndedByItsOwn
<1>2. CASE Begin(a)
  <2>1. PICK configured \in BOOLEAN, release \in Releases :
          Turns(a, [NewAttempt EXCEPT !.pc = "preparing", !.configured = configured,
                                      !.release = release])
    BY <1>2 DEF Begin
  <2> DEFINE new == [NewAttempt EXCEPT !.pc = "preparing", !.configured = configured,
                                       !.release = release]
  <2>2. /\ new \in Attempt /\ new.pc = "preparing" /\ new.endedBy = "none"
        /\ new.outcome = "none"
    BY NewFits DEF Attempt
  <2>3. Turns(a, new)
    BY <2>1
  <2> HIDE DEF new
  <2>4. attempts[a].pc = "idle" /\ UNCHANGED consumers
    BY <1>2 DEF Begin
  <2>5. QED
    BY <2>2, <2>3, <2>4, TurnsFit
<1>3. CASE Prepared(a)
  <2>1. attempts[a].pc = "preparing" /\ UNCHANGED consumers
    BY <1>3 DEF Prepared
  <2>2. CASE Stops(a, "client-id-required")
    <3>1. "client-id-required" \in Problems \ {"state-mismatch"}
      BY DEF Problems
    <3>2. QED
      BY <2>1, <2>2, <3>1, StopsFit
  <2>3. CASE ~Stops(a, "client-id-required")
    <3>1. PICK offered \in BOOLEAN :
            Turns(a, [attempts[a] EXCEPT !.pc = "opening", !.release = "unknown",
                          !.redirects = offered /\ attempts[a].configured])
      BY <1>3, <2>3 DEF Prepared
    <3>2. PICK new : new = [attempts[a] EXCEPT !.pc = "opening", !.release = "unknown",
                               !.redirects = offered /\ attempts[a].configured]
      OBVIOUS
    <3>3. /\ new \in Attempt /\ new.pc = "opening" /\ new.endedBy = attempts[a].endedBy
          /\ new.outcome = attempts[a].outcome
      <4>1. PICK r \in BOOLEAN : r = (offered /\ attempts[a].configured)
        OBVIOUS
      <4>2. new = [attempts[a] EXCEPT !.pc = "opening", !.release = "unknown",
                                      !.redirects = r]
        BY <3>2, <4>1
      <4>3. QED
        BY <1>1, <4>2 DEF Attempt, Releases
    <3>4. QED
      BY <1>1, <2>1, <3>1, <3>2, <3>3, TurnsFit
  <2>4. QED
    BY <2>2, <2>3
<1>4. CASE Opened(a)
  <2> DEFINE new == [attempts[a] EXCEPT !.pc = "waiting", !.tries = 1]
  <2>1. /\ attempts[a].pc = "opening" /\ attempts' = [attempts EXCEPT ![a] = new]
        /\ consumers' = Append(consumers, a)
    BY <1>4 DEF Opened, Turns
  <2>2. /\ new \in Attempt /\ new.pc = "waiting" /\ new.endedBy = attempts[a].endedBy
        /\ new.outcome = attempts[a].outcome
    <3>1. 1 \in 0..MaxPasteAttempts
      BY FlowAssumption
    <3>2. QED
      BY <1>1, <3>1 DEF Attempt
  <2> HIDE DEF new
  <2>3. /\ attempts' \in [Attempts -> Attempt] /\ attempts'[a] = new
        /\ \A b \in Attempts : b # a => attempts'[b] = attempts[b]
    BY <2>1, <2>2 DEF FlowInv, FlowTypeOK
  <2>4. PICK n \in Nat : n = Len(consumers) /\ DOMAIN consumers = 1..n
    BY LenProperties DEF FlowInv, FlowTypeOK
  <2>5. /\ consumers' \in Seq(Attempts) /\ Len(consumers') = n + 1
        /\ \A i \in 1..n : consumers'[i] = consumers[i]
        /\ consumers'[n + 1] = a
    <3>1. consumers \in Seq(Attempts)
      BY DEF FlowInv, FlowTypeOK
    <3>2. QED
      BY <2>1, <2>4, <3>1, AppendProperties
  <2>6. DOMAIN consumers' = 1..(n + 1)
    BY <2>5, LenProperties
  <2>7. \A i \in 1..n : consumers[i] # a /\ consumers[i] \in Attempts
    BY <2>1, <2>4, ElementOfSeq DEF FlowInv, FlowTypeOK, ListensWhileWaiting
  <2>8. \A i \in 1..(n + 1) : i = n + 1 \/ i \in 1..n
    BY <2>4
  <2>9. /\ n + 1 \in 1..(n + 1) /\ 1..n \subseteq 1..(n + 1)
        /\ n + 1 \notin 1..n
    BY <2>4
  <2>10. \A i, j \in DOMAIN consumers' : consumers'[i] = consumers'[j] => i = j
    BY <2>4, <2>5, <2>6, <2>7, <2>8 DEF FlowInv, ListensWhileWaiting
  <2>11. ASSUME NEW b \in Attempts
         PROVE  attempts'[b].pc = "waiting"
                <=> \E i \in DOMAIN consumers' : consumers'[i] = b
    <3>1. CASE b = a
      BY <2>2, <2>3, <2>5, <2>6, <2>9, <3>1
    <3>2. CASE b # a
      <4>1. attempts[b].pc = "waiting" <=> \E i \in 1..n : consumers[i] = b
        BY <2>4 DEF FlowInv, ListensWhileWaiting
      <4>2. (\E i \in DOMAIN consumers' : consumers'[i] = b)
            <=> \E i \in 1..n : consumers[i] = b
        BY <2>5, <2>6, <2>8, <2>9, <3>2
      <4>3. QED
        BY <2>3, <3>2, <4>1, <4>2
    <3>3. QED
      BY <3>1, <3>2
  <2>12. EndedByItsOwn'
    BY <1>1, <2>2, <2>3 DEF FlowInv, EndedByItsOwn
  <2>13. QED
    BY <2>3, <2>5, <2>10, <2>11, <2>12 DEF FlowInv, FlowTypeOK, ListensWhileWaiting
<1>5. CASE OpenFails(a)
  <2>1. /\ attempts[a].pc = "opening" /\ UNCHANGED consumers /\ Stops(a, "thrown")
        /\ "thrown" \in Problems \ {"state-mismatch"}
    BY <1>5 DEF OpenFails, Problems
  <2>2. QED
    BY <2>1, StopsFit
<1>6. CASE BoxAnswered(a)
  <2>1. PICK capture \in Pasted(a) :
          IF EndsWait(capture) \/ ~TriesLeft(a)
          THEN Ended(a, capture, "box")
          ELSE /\ Turns(a, [attempts[a] EXCEPT
                     !.tries = IF @ < MaxPasteAttempts THEN @ + 1 ELSE @,
                     !.last = capture])
               /\ UNCHANGED consumers
    BY <1>6 DEF BoxAnswered
  <2>2. attempts[a].pc = "waiting"
    BY <1>6 DEF BoxAnswered
  <2>3. capture \in Capture
    <3>1. {"cancelled"} \cup Makers \subseteq Capture
      BY DEF Capture
    <3>2. QED
      BY <3>1, Reading DEF Pasted
  <2>4. CASE EndsWait(capture) \/ ~TriesLeft(a)
    BY <2>1, <2>2, <2>3, <2>4, EndedFits
  <2>5. CASE ~(EndsWait(capture) \/ ~TriesLeft(a))
    <3> DEFINE tries == IF attempts[a].tries < MaxPasteAttempts THEN attempts[a].tries + 1
                                                                ELSE attempts[a].tries
    <3>1. tries \in 0..MaxPasteAttempts
      <4>1. attempts[a].tries \in 0..MaxPasteAttempts
        BY <1>1 DEF Attempt
      <4>2. QED
        BY <4>1, FlowAssumption
    <3>2. PICK new : new = [attempts[a] EXCEPT !.tries = tries, !.last = capture]
      OBVIOUS
    <3>3. Turns(a, new) /\ UNCHANGED consumers
      BY <2>1, <2>5, <3>2
    <3> HIDE DEF tries
    <3>4. /\ new \in Attempt /\ new.pc = attempts[a].pc
          /\ new.endedBy = attempts[a].endedBy /\ new.outcome = attempts[a].outcome
      BY <1>1, <2>3, <3>1, <3>2 DEF Attempt
    <3>5. QED
      BY <1>1, <3>3, <3>4, TurnsFit
  <2>6. QED
    BY <2>4, <2>5
<1>7. CASE BoxFails(a)
  <2>1. /\ attempts[a].pc = "waiting" /\ Ended(a, attempts[a].last, "box")
        /\ attempts[a].last \in Capture
    BY <1>1, <1>7 DEF BoxFails, Attempt
  <2>2. QED
    BY <2>1, EndedFits
<1>8. CASE Exchanged(a)
  <2>1. attempts[a].pc = "exchanging" /\ UNCHANGED consumers
    BY <1>8 DEF Exchanged
  <2>2. CASE Turns(a, [attempts[a] EXCEPT !.pc = "writing"])
    <3>1. PICK new : new = [attempts[a] EXCEPT !.pc = "writing"]
      OBVIOUS
    <3>2. /\ new \in Attempt /\ new.pc = "writing"
          /\ new.endedBy = attempts[a].endedBy /\ new.outcome = attempts[a].outcome
      BY <1>1, <3>1 DEF Attempt
    <3>3. QED
      BY <1>1, <2>1, <2>2, <3>1, <3>2, TurnsFit
  <2>3. ASSUME NEW outcome \in Problems \ {"state-mismatch"}, Stops(a, outcome)
        PROVE  FlowInv'
    BY <2>1, <2>3, StopsFit
  <2>4. {"oauth-rejected", "token-endpoint-unreachable", "client-id-required"}
            \subseteq Problems \ {"state-mismatch"}
    BY DEF Problems
  <2>5. QED
    BY <1>8, <2>2, <2>3, <2>4 DEF Exchanged
<1>9. CASE SessionKept(a)
  <2>1. /\ attempts[a].pc = "writing" /\ UNCHANGED consumers
        /\ \E outcome \in {"tokens", "thrown"} : Stops(a, outcome)
    BY <1>9 DEF SessionKept
  <2>2. "thrown" \in Problems \ {"state-mismatch"}
    BY DEF Problems
  <2>3. QED
    BY <2>1, <2>2, StopsFit
<1>10. CASE Again(a)
  BY <1>10, NewFits, TurnsFit DEF Again
<1>11. QED
  BY <1>2, <1>3, <1>4, <1>5, <1>6, <1>7, <1>8, <1>9, <1>10 DEF AttemptStep

LEMMA FlowStep ==
    ASSUME FlowInv, [FlowNext]_flowVars
    PROVE  FlowInv'
<1>1. CASE UNCHANGED flowVars
  BY <1>1 DEF flowVars, FlowInv, FlowTypeOK, EndedByItsOwn, ListensWhileWaiting
<1>2. QED
  BY <1>1, CallbackFits, AttemptFits DEF FlowNext

(* A wait is ended by the attempt's own callback or at its own box, and the *)
(* handler holds exactly the attempts that wait, each once: for any number *)
(* of overlapping attempts, and whatever links come, whenever they do      *)
(* (browserFlow.ts, uriHandler.ts).                                        *)
THEOREM FlowHolds == AccountsSpec => []FlowIsOwn
<1>1. AccountsInit => FlowInv
  BY FlowBegins DEF AccountsInit
<1>2. FlowInv /\ [AccountsNext]_accountsVars => FlowInv'
  BY PartsStep, FlowStep
<1>3. FlowInv => FlowIsOwn
  BY DEF FlowInv, FlowIsOwn
<1>4. QED
  BY <1>1, <1>2, <1>3, PTL DEF AccountsSpec

-----------------------------------------------------------------------------
(* The provider.  A renewal is for the endpoint its profile had when it     *)
(* began, and holds no session of another; a call that waits has joined    *)
(* one for the endpoint it was asked about.                                *)
Stands(r) ==
    /\ r.pc \notin {"reading", "unreadable"} => r.entry \in Entry
    /\ r.pc \in {"identifying", "writing"} =>
          r.session \in Session /\ r.session.endpoint = r.endpoint /\ r.session.at = r.endpoint
    /\ r.pc = "refreshing" => r.entry.endpoint \in {Nobody, r.endpoint}

SigningInPlaces == {"browser", "keeping", "identifying", "writing"}
AskFits(e) ==
    /\ e \in Ask
    /\ e.pc \in SigningInPlaces => e.of \in Accounts /\ e.endpoint \in Deployments
    /\ e.pc \in SigningInPlaces \ {"browser"} => e.user \in People
    /\ e.pc = "clearing" => e.of \in Accounts
    /\ \A a \in Accounts : e.answer[a] \in Session =>
          e.answer[a].endpoint = e.asked[a] /\ e.answer[a].at = e.asked[a]

PlainFits ==
    /\ endpointOf \in [Accounts -> Deployments] /\ moves \in 0..MaxMoves
    /\ grants \in 1..MaxGrants /\ published \in [Accounts -> Row]
    /\ refused \subseteq Accounts \X (1..MaxGrants) /\ signedOut \subseteq Accounts
StoredFits == stored \in [Accounts -> Entry \cup {Nobody, Unreadable}]
LiveFits ==
    /\ live \in [Accounts -> Held \cup {Nobody}]
    /\ \A a \in Accounts : live[a] # Nobody => live[a].session.at = live[a].session.endpoint
RenewalsFit ==
    /\ resolving \in [Accounts -> Renewal \cup {Nobody}]
    /\ \A a \in Accounts : resolving[a] # Nobody => Stands(resolving[a])
CallsFit ==
    /\ ask \in [AuthCalls -> Ask]
    /\ \A c \in AuthCalls : AskFits(ask[c])
    /\ \A c \in AuthCalls, a \in Accounts :
         ask[c].pc = "all" /\ ask[c].answer[a] = Waits =>
             resolving[a] # Nobody /\ resolving[a].endpoint = ask[c].asked[a]

AuthInv == PlainFits /\ StoredFits /\ LiveFits /\ RenewalsFit /\ CallsFit

LEMMA Absences ==
    /\ Nobody # Waits /\ Nobody # Unreadable
    /\ Nobody \notin Session /\ Nobody \notin Held /\ Nobody \notin Entry
    /\ Nobody \notin Renewal /\ Waits \notin Session /\ Unreadable \notin Entry
    /\ Nobody \notin Accounts /\ Nobody \notin Deployments /\ Nobody \notin People
BY AbsenceAssumption, AuthAssumption

LEMMA Bounds == MaxGrants \in Nat /\ MaxGrants >= 1 /\ MaxMoves \in Nat
<1>1. MaxGrants \in Nat \ {0} /\ MaxMoves \in Nat
  BY AuthAssumption, Zenon
<1>2. QED
  BY <1>1

LEMMA IdleFits ==
    /\ IdleAsk \in Ask /\ AskFits(IdleAsk)
    /\ IdleAsk.pc = "idle" /\ IdleAsk.of = Nobody /\ IdleAsk.grant = 0
    /\ IdleAsk.answer = NoAnswers /\ IdleAsk.asked = NoAnswers
    /\ \A a \in Accounts : IdleAsk.answer[a] = Nobody
<1>1. NoAnswers \in [Accounts -> Answer] /\ NoAnswers \in [Accounts -> Deployments \cup {Nobody}]
  BY DEF NoAnswers, Answer
<1>2. 0 \in 0..MaxGrants
  BY Bounds
<1>3. IdleAsk \in Ask
  BY <1>1, <1>2 DEF IdleAsk, Ask, Places
<1>4. /\ IdleAsk.pc = "idle" /\ IdleAsk.of = Nobody /\ IdleAsk.grant = 0
      /\ IdleAsk.answer = NoAnswers /\ IdleAsk.asked = NoAnswers
  BY DEF IdleAsk
<1>5. \A a \in Accounts : NoAnswers[a] = Nobody
  BY DEF NoAnswers
<1>6. QED
  BY <1>3, <1>4, <1>5, Absences DEF AskFits, SigningInPlaces

LEMMA AuthBegins == AccountsInit => AuthInv
<1> SUFFICES ASSUME AccountsInit PROVE AuthInv
  OBVIOUS
<1>1. Init
  BY DEF AccountsInit
<1>2. PlainFits
  <2>1. moves = 0 /\ MaxMoves \in Nat /\ grants = 1 /\ MaxGrants \in Nat \ {0}
    BY <1>1, AuthAssumption DEF Init
  <2>2. QED
    BY <1>1, <2>1 DEF Init, PlainFits, Row
<1>3. StoredFits
  BY <1>1 DEF Init, StoredFits
<1>4. LiveFits
  BY <1>1 DEF Init, LiveFits
<1>5. RenewalsFit
  BY <1>1 DEF Init, RenewalsFit
<1>6. CallsFit
  <2>1. ask \in [AuthCalls -> Ask] /\ \A c \in AuthCalls : ask[c] = IdleAsk
    BY <1>1, IdleFits DEF Init
  <2>2. QED
    BY <2>1, IdleFits, Absences DEF CallsFit
<1>7. QED
  BY <1>2, <1>3, <1>4, <1>5, <1>6 DEF AuthInv

(* A renewal that goes on.                                                 *)
LEMMA RenewalGoesOn ==
    ASSUME RenewalsFit, CallsFit, NEW a \in Accounts, NEW new \in Renewal,
           resolving[a] # Nobody, resolving' = [resolving EXCEPT ![a] = new],
           new.endpoint = resolving[a].endpoint, Stands(new), UNCHANGED ask
    PROVE  RenewalsFit' /\ CallsFit'
<1>1. /\ resolving' \in [Accounts -> Renewal \cup {Nobody}] /\ resolving'[a] = new
      /\ \A b \in Accounts : b # a => resolving'[b] = resolving[b]
  BY DEF RenewalsFit
<1>2. new # Nobody
  BY Absences
<1>3. RenewalsFit'
  BY <1>1 DEF RenewalsFit
<1>4. \A b \in Accounts :
        resolving[b] # Nobody => resolving'[b] # Nobody /\ resolving'[b].endpoint = resolving[b].endpoint
  BY <1>1, <1>2
<1>5. CallsFit'
  BY <1>4 DEF CallsFit
<1>6. QED
  BY <1>3, <1>5

LEMMA RenewalGoes ==
    ASSUME RenewalsFit, CallsFit, NEW a \in Accounts, NEW pc \in RenewalPlaces,
           resolving[a] # Nobody, Goes(a, pc), UNCHANGED ask,
           Stands([resolving[a] EXCEPT !.pc = pc])
    PROVE  RenewalsFit' /\ CallsFit'
<1>1. PICK new : new = [resolving[a] EXCEPT !.pc = pc]
  OBVIOUS
<1>2. resolving[a] \in Renewal
  BY DEF RenewalsFit
<1>3. new \in Renewal /\ new.endpoint = resolving[a].endpoint
  BY <1>1, <1>2 DEF Renewal
<1>4. resolving' = [resolving EXCEPT ![a] = new]
  BY <1>1 DEF Goes
<1>5. Stands(new)
  BY <1>1
<1>6. QED
  BY <1>3, <1>4, <1>5, RenewalGoesOn

(* A renewal that ends: the calls that waited have its session, or none.   *)
LEMMA EndsFit ==
    ASSUME RenewalsFit, CallsFit, NEW a \in Accounts, NEW session \in Session \cup {Nobody},
           resolving[a] # Nobody, Ends(a, session),
           session # Nobody => /\ session.endpoint = resolving[a].endpoint
                               /\ session.at = resolving[a].endpoint
    PROVE  /\ RenewalsFit' /\ CallsFit'
           /\ resolving'[a] = Nobody
           /\ \A b \in Accounts : b # a => resolving'[b] = resolving[b]
           /\ \A c \in AuthCalls :
                /\ ask'[c].kind = ask[c].kind /\ ask'[c].pc = ask[c].pc /\ ask'[c].of = ask[c].of
                /\ ask'[c].endpoint = ask[c].endpoint /\ ask'[c].user = ask[c].user
                /\ ask'[c].grant = ask[c].grant /\ ask'[c].asked = ask[c].asked
<1>1. /\ resolving'[a] = Nobody /\ \A b \in Accounts : b # a => resolving'[b] = resolving[b]
      /\ resolving' \in [Accounts -> Renewal \cup {Nobody}]
  BY DEF Ends, RenewalsFit
<1>2. RenewalsFit'
  BY <1>1 DEF RenewalsFit
<1>3. ASSUME NEW c \in AuthCalls
      PROVE  /\ AskFits(ask'[c])
             /\ ask'[c].kind = ask[c].kind /\ ask'[c].pc = ask[c].pc /\ ask'[c].of = ask[c].of
             /\ ask'[c].endpoint = ask[c].endpoint /\ ask'[c].user = ask[c].user
             /\ ask'[c].grant = ask[c].grant /\ ask'[c].asked = ask[c].asked
             /\ \A b \in Accounts : b # a => ask'[c].answer[b] = ask[c].answer[b]
             /\ ask'[c].pc = "all" => ask'[c].answer[a] # Waits
  <2>0. ask[c] \in Ask /\ AskFits(ask[c])
    BY DEF CallsFit
  <2>1. CASE ask[c].pc = "all" /\ ask[c].answer[a] = Waits
    <3>1. ask'[c] = [ask[c] EXCEPT !.answer[a] = session]
      BY <2>1 DEF Ends
    <3>2. PICK new : new = [ask[c].answer EXCEPT ![a] = session]
      OBVIOUS
    <3>3. ask'[c] = [ask[c] EXCEPT !.answer = new]
      BY <3>1, <3>2
    <3>4. /\ new \in [Accounts -> Answer] /\ new[a] = session
          /\ \A b \in Accounts : b # a => new[b] = ask[c].answer[b]
      BY <2>0, <3>2 DEF Ask, Answer
    <3>5. /\ ask'[c] \in Ask /\ ask'[c].answer = new
          /\ ask'[c].kind = ask[c].kind /\ ask'[c].pc = ask[c].pc /\ ask'[c].of = ask[c].of
          /\ ask'[c].endpoint = ask[c].endpoint /\ ask'[c].user = ask[c].user
          /\ ask'[c].grant = ask[c].grant /\ ask'[c].asked = ask[c].asked
      BY <2>0, <3>3, <3>4 DEF Ask
    <3>6. session \in Session => session.endpoint = ask[c].asked[a] /\ session.at = ask[c].asked[a]
      BY <2>1, Absences DEF CallsFit
    <3>7. session # Waits
      BY Absences
    <3>8. QED
      BY <2>0, <3>4, <3>5, <3>6, <3>7 DEF AskFits
  <2>2. CASE ~(ask[c].pc = "all" /\ ask[c].answer[a] = Waits)
    <3>1. ask'[c] = ask[c]
      BY <2>2 DEF Ends
    <3>2. QED
      BY <2>0, <2>2, <3>1
  <2>3. QED
    BY <2>1, <2>2
<1>4. ask' \in [AuthCalls -> Ask]
  <2>1. /\ DOMAIN ask' = AuthCalls
        /\ ask' = [c \in AuthCalls |-> ask'[c]]
    BY DEF Ends
  <2>2. \A c \in AuthCalls : ask'[c] \in Ask
    BY <1>3 DEF AskFits
  <2>3. QED
    BY <2>1, <2>2
<1>5. ASSUME NEW c \in AuthCalls, NEW b \in Accounts,
             ask'[c].pc = "all", ask'[c].answer[b] = Waits
      PROVE  resolving'[b] # Nobody /\ resolving'[b].endpoint = ask'[c].asked[b]
  <2>1. b # a
    BY <1>3, <1>5
  <2>2. ask[c].pc = "all" /\ ask[c].answer[b] = Waits /\ ask'[c].asked = ask[c].asked
    BY <1>3, <1>5, <2>1
  <2>3. QED
    BY <1>1, <2>1, <2>2 DEF CallsFit
<1>6. CallsFit'
  BY <1>3, <1>4, <1>5 DEF CallsFit
<1>7. QED
  BY <1>1, <1>2, <1>3, <1>6

(* A call that goes on while the renewals stay as they are.                *)
LEMMA CallTurns ==
    ASSUME RenewalsFit, CallsFit, NEW c \in AuthCalls, NEW new, AskFits(new),
           ask' = [ask EXCEPT ![c] = new], UNCHANGED resolving,
           new.pc # "all" \/ \A a \in Accounts : new.answer[a] # Waits
    PROVE  RenewalsFit' /\ CallsFit'
<1>1. /\ ask' \in [AuthCalls -> Ask] /\ ask'[c] = new
      /\ \A d \in AuthCalls : d # c => ask'[d] = ask[d]
  BY DEF CallsFit, AskFits
<1>2. RenewalsFit'
  BY DEF RenewalsFit
<1>3. \A d \in AuthCalls : AskFits(ask'[d])
  BY <1>1 DEF CallsFit
<1>4. QED
  BY <1>1, <1>2, <1>3 DEF CallsFit

(* A call that asks for every session: each is in memory, or is waited for. *)
LEMMA AllBegins ==
    ASSUME PlainFits, LiveFits, RenewalsFit, CallsFit, NEW c \in AuthCalls,
           NEW kind \in {"get", "create", "remove"}, NEW of \in Accounts \cup {Nobody},
           BeginAll(c, kind, of)
    PROVE  /\ LiveFits' /\ RenewalsFit' /\ CallsFit'
           /\ \A a \in Accounts :
                /\ live'[a] = live[a] \/ live'[a] = Nobody
                /\ \/ resolving'[a] = resolving[a]
                   \/ /\ resolving[a] = Nobody /\ At(a, "reading")'
           /\ ask'[c].pc = "all" /\ \A d \in AuthCalls : d # c => ask'[d] = ask[d]
<1> DEFINE begun(a) == [pc |-> "reading", endpoint |-> endpointOf[a],
                        entry |-> Nobody, session |-> Nobody]
           asked == [a \in Accounts |->
                       IF resolving[a] = Nobody THEN endpointOf[a] ELSE resolving[a].endpoint]
           answer == [a \in Accounts |->
                       IF resolving[a] # Nobody \/ Starts(a) THEN Waits ELSE live[a].session]
<1>1. ASSUME NEW a \in Accounts
      PROVE  /\ live'[a] = live[a] \/ live'[a] = Nobody
             /\ resolving'[a] = IF Starts(a) THEN begun(a) ELSE resolving[a]
             /\ begun(a) \in Renewal /\ begun(a) # Nobody /\ Stands(begun(a))
             /\ begun(a).pc = "reading" /\ begun(a).endpoint = endpointOf[a]
             /\ endpointOf[a] \in Deployments
             /\ resolving[a] \in Renewal \cup {Nobody}
  <2>1. begun(a) \in Renewal
    BY DEF PlainFits, Renewal, RenewalPlaces
  <2>2. Stands(begun(a)) /\ begun(a).pc = "reading" /\ begun(a).endpoint = endpointOf[a]
    BY DEF Stands
  <2>3. live'[a] = live[a] \/ live'[a] = Nobody
    BY DEF BeginAll
  <2>4. resolving'[a] = IF Starts(a) THEN begun(a) ELSE resolving[a]
    BY DEF BeginAll
  <2>5. endpointOf[a] \in Deployments /\ resolving[a] \in Renewal \cup {Nobody}
    BY DEF PlainFits, RenewalsFit
  <2> HIDE DEF begun
  <2>6. QED
    BY <2>1, <2>2, <2>3, <2>4, <2>5, Absences
<1>2. DOMAIN live' = Accounts /\ DOMAIN resolving' = Accounts
      /\ live' = [a \in Accounts |-> live'[a]] /\ resolving' = [a \in Accounts |-> resolving'[a]]
  BY DEF BeginAll
<1>3. ask' = [ask EXCEPT ![c] = [IdleAsk EXCEPT !.kind = kind, !.pc = "all", !.of = of,
                                                !.asked = asked, !.answer = answer]]
  BY DEF BeginAll
<1> HIDE DEF begun
<1>4. LiveFits'
  <2>1. live' \in [Accounts -> Held \cup {Nobody}]
    BY <1>1, <1>2 DEF LiveFits
  <2>2. QED
    BY <1>1, <2>1 DEF LiveFits
<1>5. RenewalsFit'
  <2>1. resolving' \in [Accounts -> Renewal \cup {Nobody}]
    BY <1>1, <1>2
  <2>2. \A a \in Accounts : resolving'[a] # Nobody => Stands(resolving'[a])
    BY <1>1 DEF RenewalsFit
  <2>3. QED
    BY <2>1, <2>2 DEF RenewalsFit
<1>6. ASSUME NEW a \in Accounts
      PROVE  /\ asked[a] \in Deployments
             /\ answer[a] = Waits => resolving'[a] # Nobody /\ resolving'[a].endpoint = asked[a]
             /\ answer[a] # Waits =>
                   answer[a] \in Session /\ answer[a].endpoint = asked[a] /\ answer[a].at = asked[a]
  <2>1. asked[a] = IF resolving[a] = Nobody THEN endpointOf[a] ELSE resolving[a].endpoint
    OBVIOUS
  <2>2. answer[a] = IF resolving[a] # Nobody \/ Starts(a) THEN Waits ELSE live[a].session
    OBVIOUS
  <2> HIDE DEF asked, answer
  <2>3. CASE resolving[a] # Nobody
    <3>1. resolving'[a] = resolving[a] /\ resolving[a].endpoint \in Deployments
      BY <1>1, <2>3 DEF Starts, Renewal
    <3>2. QED
      BY <2>1, <2>2, <2>3, <3>1
  <2>4. CASE resolving[a] = Nobody /\ Starts(a)
    BY <1>1, <2>1, <2>2, <2>4
  <2>5. CASE resolving[a] = Nobody /\ ~Starts(a)
    <3>1. Serves(a)
      BY <2>5 DEF Starts
    <3>2. /\ live[a] \in Held /\ live[a].session.endpoint = endpointOf[a]
          /\ live[a].session.at = endpointOf[a]
      BY <3>1 DEF Serves, Moved, LiveFits
    <3>3. live[a].session \in Session
      BY <3>2 DEF Held
    <3>4. QED
      BY Absences, <1>1, <2>1, <2>2, <2>5, <3>2, <3>3
  <2>6. QED
    BY <2>3, <2>4, <2>5
<1>7. /\ asked \in [Accounts -> Deployments \cup {Nobody}]
      /\ answer \in [Accounts -> Answer]
  <2>1. \A a \in Accounts : answer[a] \in Answer
    BY <1>6 DEF Answer
  <2>2. /\ asked = [a \in Accounts |-> asked[a]] /\ answer = [a \in Accounts |-> answer[a]]
    OBVIOUS
  <2> HIDE DEF asked, answer
  <2>3. QED
    BY <1>6, <2>1, <2>2
<1> HIDE DEF asked, answer
<1>8. PICK new : new = [IdleAsk EXCEPT !.kind = kind, !.pc = "all", !.of = of,
                                       !.asked = asked, !.answer = answer]
  OBVIOUS
<1>9. /\ new \in Ask /\ new.pc = "all" /\ new.asked = asked /\ new.answer = answer
  BY <1>7, <1>8, IdleFits DEF Ask, Places
<1>10. AskFits(new)
  BY <1>6, <1>9, Absences DEF AskFits, SigningInPlaces
<1>11. /\ ask' \in [AuthCalls -> Ask] /\ ask'[c] = new
       /\ \A d \in AuthCalls : d # c => ask'[d] = ask[d]
  BY <1>3, <1>8, <1>9 DEF CallsFit
<1>12. \A a \in Accounts :
         /\ resolving[a] # Nobody => resolving'[a] = resolving[a]
         /\ resolving'[a] = resolving[a] \/ (resolving[a] = Nobody /\ At(a, "reading")')
  BY <1>1 DEF Starts, At
<1>13. ASSUME NEW d \in AuthCalls, NEW a \in Accounts,
              ask'[d].pc = "all", ask'[d].answer[a] = Waits
       PROVE  resolving'[a] # Nobody /\ resolving'[a].endpoint = ask'[d].asked[a]
  <2>1. CASE d = c
    BY <1>6, <1>9, <1>11, <1>13, <2>1
  <2>2. CASE d # c
    <3>1. resolving[a] # Nobody /\ resolving[a].endpoint = ask[d].asked[a] /\ ask'[d] = ask[d]
      BY <1>11, <1>13, <2>2 DEF CallsFit
    <3>2. QED
      BY <1>12, <3>1
  <2>3. QED
    BY <2>1, <2>2
<1>14. CallsFit'
  <2>1. \A d \in AuthCalls : AskFits(ask'[d])
    BY <1>10, <1>11 DEF CallsFit
  <2>2. QED
    BY <1>11, <1>13, <2>1 DEF CallsFit
<1>15. QED
  BY <1>1, <1>4, <1>5, <1>9, <1>11, <1>12, <1>14

LEMMA LiveForgets ==
    ASSUME LiveFits, NEW a \in Accounts, Forgets(a)
    PROVE  /\ LiveFits' /\ live'[a] = Nobody
           /\ \A b \in Accounts : b # a => live'[b] = live[b]
BY DEF LiveFits, Forgets

LEMMA LiveKeeps ==
    ASSUME LiveFits, NEW a \in Accounts, NEW s \in Session, s.at = s.endpoint, Keeps(a, s)
    PROVE  LiveFits' /\ \A b \in Accounts : b # a => live'[b] = live[b]
<1>1. PICK h : h = [session |-> s, spent |-> FALSE]
  OBVIOUS
<1>2. h \in Held /\ h.session = s
  BY <1>1 DEF Held
<1>3. /\ live' \in [Accounts -> Held \cup {Nobody}] /\ live'[a] = h
      /\ \A b \in Accounts : b # a => live'[b] = live[b]
  BY <1>1, <1>2 DEF LiveFits, Keeps
<1>4. QED
  BY <1>2, <1>3 DEF LiveFits

LEMMA StoredClears ==
    ASSUME StoredFits, NEW a \in Accounts, Clears(a)
    PROVE  /\ StoredFits' /\ stored'[a] = Nobody
           /\ \A b \in Accounts : b # a => stored'[b] = stored[b]
BY DEF StoredFits, Clears

(* The entry of one account is written, with this grant or empty.          *)
StoredBecomes(a, endpoint, grant) ==
    /\ \A b \in Accounts : b # a => stored'[b] = stored[b]
    /\ stored'[a] \in Entry => stored'[a].grant = grant /\ stored'[a].endpoint = endpoint

LEMMA StoredIs ==
    ASSUME StoredFits, NEW a \in Accounts, NEW by \in People, NEW at \in Deployments,
           NEW endpoint \in Deployments, NEW grant \in 0..MaxGrants,
           stored' = [stored EXCEPT ![a] = ToStored(by, at, endpoint, grant)]
    PROVE  StoredFits' /\ StoredBecomes(a, endpoint, grant)
<1>1. CASE grant = 0
  <2>1. ToStored(by, at, endpoint, grant) = Nobody
    BY <1>1 DEF ToStored
  <2>2. QED
    BY <2>1, Absences DEF StoredFits, StoredBecomes
<1>2. CASE grant # 0
  <2>1. PICK e : e = [by |-> by, at |-> at, endpoint |-> endpoint, grant |-> grant]
    OBVIOUS
  <2>2. ToStored(by, at, endpoint, grant) = e
    BY <1>2, <2>1 DEF ToStored
  <2>3. grant \in 1..MaxGrants
    BY <1>2, Bounds
  <2>4. e \in Entry /\ e.grant = grant /\ e.endpoint = endpoint
    BY <2>1, <2>3 DEF Entry
  <2>5. QED
    BY <2>2, <2>4 DEF StoredFits, StoredBecomes
<1>3. QED
  BY <1>1, <1>2

LEMMA Standing ==
    ASSUME RenewalsFit, NEW a \in Accounts, NEW pc, At(a, pc)
    PROVE  /\ resolving[a] # Nobody /\ resolving[a] \in Renewal /\ resolving[a].pc = pc
           /\ Stands(resolving[a]) /\ resolving[a].endpoint \in Deployments
<1>1. resolving[a] # Nobody /\ resolving[a] \in Renewal /\ resolving[a].pc = pc
  BY DEF RenewalsFit, At
<1>2. QED
  BY <1>1 DEF RenewalsFit, Renewal

LEMMA RenewsFits ==
    ASSUME AuthInv, NEW a \in Accounts, Renews(a)
    PROVE  AuthInv'
<1> USE DEF AuthInv
<1>1. CASE ReadsEntry(a)
  <2>1. At(a, "reading") /\ PlainFits' /\ StoredFits'
    BY <1>1 DEF ReadsEntry, PlainFits, StoredFits
  <2>2. /\ resolving[a] # Nobody /\ resolving[a] \in Renewal /\ resolving[a].pc = "reading"
        /\ resolving[a].endpoint \in Deployments
    BY <2>1, Standing
  <2>3. stored[a] = Unreadable \/ stored[a] = Nobody \/ stored[a] \in Entry
    BY DEF StoredFits
  <2>4. CASE stored[a] = Unreadable
    <3>1. Goes(a, "unreadable") /\ UNCHANGED <<live, ask>>
      BY <1>1, <2>4, Absences DEF ReadsEntry
    <3>2. Stands([resolving[a] EXCEPT !.pc = "unreadable"])
      BY <2>2 DEF Stands, Renewal
    <3>3. "unreadable" \in RenewalPlaces
      BY DEF RenewalPlaces
    <3>4. RenewalsFit' /\ CallsFit'
      BY <2>2, <3>1, <3>2, <3>3, RenewalGoes
    <3>5. LiveFits'
      BY <3>1 DEF LiveFits
    <3>6. QED
      BY <2>1, <3>4, <3>5
  <2>5. CASE stored[a] = Nobody
    <3>1. Forgets(a) /\ Ends(a, Nobody)
      BY <1>1, <2>5, Absences DEF ReadsEntry
    <3>2. QED
      BY <2>1, <2>2, <3>1, EndsFit, LiveForgets
  <2>6. CASE stored[a] \in Entry
    <3> DEFINE foreign == Foreign(stored[a], resolving[a].endpoint)
    <3>1. /\ resolving' = [resolving EXCEPT
                 ![a].entry = stored[a],
                 ![a].pc = IF foreign THEN "judging" ELSE "refreshing"]
          /\ live' = IF foreign THEN [live EXCEPT ![a] = Nobody] ELSE live
          /\ UNCHANGED ask
      BY <1>1, <2>6, Absences DEF ReadsEntry
    <3>2. PICK pc : pc = IF foreign THEN "judging" ELSE "refreshing"
      OBVIOUS
    <3>3. /\ pc \in {"judging", "refreshing"}
          /\ pc = "refreshing" => stored[a].endpoint \in {Nobody, resolving[a].endpoint}
      BY <3>2 DEF Foreign
    <3>4. PICK new : new = [resolving[a] EXCEPT !.entry = stored[a], !.pc = pc]
      OBVIOUS
    <3>5. resolving' = [resolving EXCEPT ![a] = new]
      BY <3>1, <3>2, <3>4 DEF RenewalsFit
    <3>6. /\ new \in Renewal /\ new.endpoint = resolving[a].endpoint
          /\ new.entry = stored[a] /\ new.pc = pc
      BY <2>2, <2>6, <3>3, <3>4 DEF Renewal, RenewalPlaces
    <3>7. Stands(new)
      BY <2>6, <3>3, <3>6 DEF Stands
    <3>8. RenewalsFit' /\ CallsFit'
      BY <2>2, <3>1, <3>5, <3>6, <3>7, RenewalGoesOn
    <3>9. LiveFits'
      BY <3>1 DEF LiveFits
    <3>10. QED
      BY <2>1, <3>8, <3>9
  <2>7. QED
    BY <2>3, <2>4, <2>5, <2>6
<1>2. CASE DropsUnreadable(a)
  <2>1. At(a, "unreadable") /\ Clears(a) /\ Forgets(a) /\ Ends(a, Nobody) /\ PlainFits'
    BY <1>2 DEF DropsUnreadable, PlainFits
  <2>2. QED
    BY <2>1, Standing, EndsFit, LiveForgets, StoredClears
<1>3. CASE Refreshed(a)
  <2> DEFINE r == resolving[a]
             s == WhoIs(r.entry.by, r.entry.at, r.endpoint)
             known == [s EXCEPT !.user = live[a].session.user]
  <2>1. /\ At(a, "refreshing") /\ Takes(r)
        /\ UNCHANGED <<endpointOf, moves, stored, published, ask, refused, signedOut>>
    BY <1>3 DEF Refreshed
  <2>2. PICK grant \in Rotations(r) :
          /\ grants' = IF grant > grants THEN grant ELSE grants
          /\ IF Cached(a)
             THEN /\ Keeps(a, known)
                  /\ resolving' = [resolving EXCEPT
                         ![a].pc = "writing", ![a].session = known, ![a].entry.grant = grant]
             ELSE /\ resolving' = [resolving EXCEPT
                         ![a].pc = "identifying", ![a].session = s, ![a].entry.grant = grant]
                  /\ UNCHANGED live
    BY <1>3 DEF Refreshed
  <2>3. /\ r # Nobody /\ r \in Renewal /\ r.pc = "refreshing" /\ r.endpoint \in Deployments
        /\ r.entry \in Entry /\ r.entry.at = r.endpoint
    BY <2>1, Standing DEF Stands, Takes
  <2>4. /\ r.entry.by \in People /\ r.entry.at \in Deployments
        /\ r.entry.grant \in 1..MaxGrants
    BY <2>3 DEF Entry
  <2>5. grant \in 1..MaxGrants
    BY <2>2, <2>4, Bounds DEF Rotations, PlainFits
  <2>6. s \in Session /\ s.endpoint = r.endpoint /\ s.at = r.endpoint
    BY <2>3, <2>4 DEF WhoIs, Session
  <2>7. Cached(a) => known \in Session /\ known.endpoint = r.endpoint /\ known.at = r.endpoint
    <3> SUFFICES ASSUME Cached(a)
                 PROVE  known \in Session /\ known.endpoint = r.endpoint /\ known.at = r.endpoint
      OBVIOUS
    <3>1. live[a].session.user \in People
      BY DEF Cached, LiveFits, Held, Session
    <3> HIDE DEF s, r
    <3>2. QED
      BY <2>6, <3>1 DEF Session
  <2>8. PICK e : e = [r.entry EXCEPT !.grant = grant]
    OBVIOUS
  <2>9. e \in Entry
    BY <2>3, <2>5, <2>8 DEF Entry
  <2>10. ASSUME NEW pc \in {"writing", "identifying"}, NEW t \in Session,
                t.endpoint = r.endpoint, t.at = r.endpoint,
                resolving' = [resolving EXCEPT ![a].pc = pc, ![a].session = t,
                                               ![a].entry.grant = grant]
         PROVE  RenewalsFit' /\ CallsFit'
    <3>1. PICK new : new = [r EXCEPT !.pc = pc, !.session = t, !.entry = e]
      OBVIOUS
    <3>2. /\ new \in Renewal /\ new.endpoint = r.endpoint /\ new.pc = pc /\ new.session = t
          /\ new.entry = e
      BY <2>3, <2>9, <3>1 DEF Renewal, RenewalPlaces
    <3>3. [r EXCEPT !.pc = pc, !.session = t, !.entry.grant = grant] = new
      BY <2>3, <2>8, <3>1 DEF Renewal
    <3>4. resolving' = [resolving EXCEPT ![a] = new]
      BY <2>10, <3>3 DEF RenewalsFit
    <3>5. Stands(new)
      BY <2>9, <2>10, <3>2 DEF Stands
    <3>6. QED
      BY <2>1, <2>3, <3>2, <3>4, <3>5, RenewalGoesOn
  <2>11. PlainFits' /\ StoredFits'
    <3>1. grants' \in 1..MaxGrants
      BY <2>2, <2>5 DEF PlainFits
    <3>2. QED
      BY <2>1, <3>1 DEF PlainFits, StoredFits
  <2> HIDE DEF s, known
  <2>12. CASE Cached(a)
    <3>1. LiveFits'
      BY <2>2, <2>7, <2>12, LiveKeeps
    <3>2. RenewalsFit' /\ CallsFit'
      BY <2>2, <2>7, <2>10, <2>12
    <3>3. QED
      BY <2>11, <3>1, <3>2
  <2>13. CASE ~Cached(a)
    <3>1. LiveFits'
      BY <2>2, <2>13 DEF LiveFits
    <3>2. RenewalsFit' /\ CallsFit'
      BY <2>2, <2>6, <2>10, <2>13
    <3>3. QED
      BY <2>11, <3>1, <3>2
  <2>14. QED
    BY <2>12, <2>13
<1>4. CASE RefreshFails(a)
  <2>1. At(a, "refreshing") /\ Forgets(a)
        /\ UNCHANGED <<endpointOf, moves, stored, grants, published, signedOut>>
    BY <1>4 DEF RefreshFails
  <2>2. /\ resolving[a] # Nobody /\ resolving[a] \in Renewal /\ resolving[a].pc = "refreshing"
        /\ resolving[a].entry \in Entry
    BY <2>1, Standing DEF Stands
  <2>3. /\ refused' = refused \cup {<<a, resolving[a].entry.grant>>} \/ refused' = refused
        /\ (Goes(a, "judging") /\ UNCHANGED ask) \/ Ends(a, Nobody)
    BY <1>4 DEF RefreshFails
  <2>4. resolving[a].entry.grant \in 1..MaxGrants
    BY <2>2 DEF Entry
  <2>5. PlainFits' /\ StoredFits' /\ LiveFits'
    BY <2>1, <2>3, <2>4, LiveForgets DEF PlainFits, StoredFits
  <2>6. ASSUME Goes(a, "judging"), UNCHANGED ask PROVE RenewalsFit' /\ CallsFit'
    <3>1. Stands([resolving[a] EXCEPT !.pc = "judging"])
      BY <2>2 DEF Stands, Renewal
    <3>2. "judging" \in RenewalPlaces
      BY DEF RenewalPlaces
    <3>3. QED
      BY <2>2, <2>6, <3>1, <3>2, RenewalGoes
  <2>7. QED
    BY <2>2, <2>3, <2>5, <2>6, EndsFit
<1>5. CASE Identified(a)
  <2>1. At(a, "identifying") /\ Keeps(a, resolving[a].session) /\ Goes(a, "writing")
        /\ UNCHANGED <<endpointOf, moves, stored, grants, published, ask, refused, signedOut>>
    BY <1>5 DEF Identified
  <2>2. /\ resolving[a] # Nobody /\ resolving[a] \in Renewal /\ resolving[a].pc = "identifying"
        /\ resolving[a].session \in Session /\ resolving[a].entry \in Entry
        /\ resolving[a].session.endpoint = resolving[a].endpoint
        /\ resolving[a].session.at = resolving[a].endpoint
    BY <2>1, Standing DEF Stands
  <2>3. LiveFits'
    BY <2>1, <2>2, LiveKeeps
  <2>4. Stands([resolving[a] EXCEPT !.pc = "writing"])
    BY <2>2 DEF Stands, Renewal
  <2>5. "writing" \in RenewalPlaces
    BY DEF RenewalPlaces
  <2>6. RenewalsFit' /\ CallsFit'
    BY <2>1, <2>2, <2>4, <2>5, RenewalGoes
  <2>7. QED
    BY <2>1, <2>3, <2>6 DEF PlainFits, StoredFits
<1>6. CASE NotIdentified(a)
  <2>1. At(a, "identifying") /\ Ends(a, Nobody)
        /\ UNCHANGED <<endpointOf, moves, live, stored, grants, published, refused, signedOut>>
    BY <1>6 DEF NotIdentified
  <2>2. RenewalsFit' /\ CallsFit'
    BY <2>1, Standing, EndsFit
  <2>3. QED
    BY <2>1, <2>2 DEF PlainFits, StoredFits, LiveFits
<1>7. CASE Written(a)
  <2> DEFINE r == resolving[a]
  <2>1. /\ At(a, "writing") /\ Ends(a, r.session)
        /\ stored' = [stored EXCEPT ![a] =
                          ToStored(r.entry.by, r.entry.at, r.endpoint, r.entry.grant)]
        /\ UNCHANGED <<endpointOf, moves, live, grants, published, refused, signedOut>>
    BY <1>7 DEF Written
  <2>2. /\ r # Nobody /\ r.session \in Session /\ r.entry \in Entry /\ r.endpoint \in Deployments
        /\ r.session.endpoint = r.endpoint /\ r.session.at = r.endpoint
    BY <2>1, Standing DEF Stands
  <2>3. RenewalsFit' /\ CallsFit'
    BY <2>1, <2>2, EndsFit
  <2>4. /\ r.entry.by \in People /\ r.entry.at \in Deployments /\ r.entry.grant \in 0..MaxGrants
    BY <2>2, Bounds DEF Entry
  <2>5. StoredFits'
    BY <2>1, <2>2, <2>4, StoredIs
  <2>6. QED
    BY <2>1, <2>3, <2>5 DEF PlainFits, LiveFits
<1>8. CASE Judges(a)
  <2>1. /\ At(a, "judging")
        /\ (Goes(a, "clearing") /\ UNCHANGED ask) \/ Ends(a, Nobody)
        /\ UNCHANGED <<endpointOf, moves, live, stored, grants, published, refused, signedOut>>
    BY <1>8 DEF Judges
  <2>2. /\ resolving[a] # Nobody /\ resolving[a] \in Renewal /\ resolving[a].entry \in Entry
    BY <2>1, Standing DEF Stands
  <2>3. ASSUME Goes(a, "clearing"), UNCHANGED ask PROVE RenewalsFit' /\ CallsFit'
    <3>1. Stands([resolving[a] EXCEPT !.pc = "clearing"])
      BY <2>2 DEF Stands, Renewal
    <3>2. "clearing" \in RenewalPlaces
      BY DEF RenewalPlaces
    <3>3. QED
      BY <2>2, <2>3, <3>1, <3>2, RenewalGoes
  <2>4. RenewalsFit' /\ CallsFit'
    BY <2>1, <2>2, <2>3, EndsFit
  <2>5. QED
    BY <2>1, <2>4 DEF PlainFits, StoredFits, LiveFits
<1>9. CASE Discards(a)
  <2>1. At(a, "clearing") /\ Clears(a) /\ Ends(a, Nobody) /\ PlainFits' /\ LiveFits'
    BY <1>9 DEF Discards, PlainFits, LiveFits
  <2>2. QED
    BY <2>1, Standing, EndsFit, StoredClears
<1>10. CASE StorageFails(a)
  <2>1. /\ \E pc \in {"reading", "unreadable", "judging", "clearing", "writing"} : At(a, pc)
        /\ Ends(a, Nobody) /\ refused' \subseteq refused
        /\ UNCHANGED <<endpointOf, moves, live, stored, grants, published, signedOut>>
    BY <1>10 DEF StorageFails
  <2>2. RenewalsFit' /\ CallsFit'
    BY <2>1, Standing, EndsFit
  <2>3. QED
    BY <2>1, <2>2 DEF PlainFits, StoredFits, LiveFits
<1>11. QED
  BY <1>1, <1>2, <1>3, <1>4, <1>5, <1>6, <1>7, <1>8, <1>9, <1>10 DEF Renews

LEMMA CallsFits ==
    ASSUME AuthInv, NEW c \in AuthCalls, Calls(c)
    PROVE  AuthInv'
<1> USE DEF AuthInv
<1>0. ask[c] \in Ask /\ AskFits(ask[c])
  BY DEF CallsFit
<1>1. CASE GetSessions(c)
  <2>1. PICK of \in Accounts \cup {Nobody} : BeginAll(c, "get", of)
    BY <1>1 DEF GetSessions
  <2>2. LiveFits' /\ RenewalsFit' /\ CallsFit'
    BY <2>1, AllBegins
  <2>3. QED
    BY <1>1, <2>2 DEF GetSessions, PlainFits, StoredFits
<1>2. ASSUME NEW a \in Accounts, GiveUp(c, a) PROVE AuthInv'
  <2>1. ask' = [ask EXCEPT ![c].answer[a] = Nobody] /\ UNCHANGED resolving
    BY <1>2 DEF GiveUp
  <2>2. PICK answer : answer = [ask[c].answer EXCEPT ![a] = Nobody]
    OBVIOUS
  <2>3. /\ answer \in [Accounts -> Answer] /\ answer[a] = Nobody
        /\ \A b \in Accounts : b # a => answer[b] = ask[c].answer[b]
    BY <1>0, <2>2 DEF Ask, Answer
  <2>4. PICK new : new = [ask[c] EXCEPT !.answer = answer]
    OBVIOUS
  <2>5. ask' = [ask EXCEPT ![c] = new]
    BY <2>1, <2>2, <2>4 DEF CallsFit
  <2>6. /\ new \in Ask /\ new.answer = answer /\ new.pc = ask[c].pc /\ new.of = ask[c].of
        /\ new.endpoint = ask[c].endpoint /\ new.user = ask[c].user /\ new.asked = ask[c].asked
    BY <1>0, <2>3, <2>4 DEF Ask
  <2>7. AskFits(new)
    BY <1>0, <2>3, <2>6, Absences DEF AskFits
  <2>8. /\ ask' \in [AuthCalls -> Ask] /\ ask'[c] = new
        /\ \A d \in AuthCalls : d # c => ask'[d] = ask[d]
    BY <2>5, <2>6 DEF CallsFit
  <2>9. RenewalsFit'
    BY <2>1 DEF RenewalsFit
  <2>10. CallsFit'
    <3>1. \A d \in AuthCalls : AskFits(ask'[d])
      BY <2>7, <2>8 DEF CallsFit
    <3>2. ASSUME NEW d \in AuthCalls, NEW b \in Accounts,
                 ask'[d].pc = "all", ask'[d].answer[b] = Waits
          PROVE  resolving'[b] # Nobody /\ resolving'[b].endpoint = ask'[d].asked[b]
      <4>1. /\ ask[d].pc = "all" /\ ask[d].answer[b] = Waits /\ ask'[d].asked = ask[d].asked
        BY <2>3, <2>6, <2>8, <3>2, Absences
      <4>2. QED
        BY <2>1, <4>1 DEF CallsFit
    <3>3. QED
      BY <2>8, <3>1, <3>2 DEF CallsFit
  <2>11. QED
    BY <1>2, <2>9, <2>10 DEF GiveUp, PlainFits, StoredFits, LiveFits
<1>3. ASSUME NEW a \in Accounts, CreateSession(c, a) PROVE AuthInv'
  <2>1. PICK new : new = [IdleAsk EXCEPT !.kind = "create", !.pc = "browser", !.of = a,
                                         !.endpoint = endpointOf[a]]
    OBVIOUS
  <2>2. ask' = [ask EXCEPT ![c] = new] /\ UNCHANGED resolving
    BY <1>3, <2>1 DEF CreateSession
  <2>3. endpointOf[a] \in Deployments
    BY DEF PlainFits
  <2>4. /\ new \in Ask /\ new.pc = "browser" /\ new.of = a /\ new.endpoint = endpointOf[a]
        /\ new.answer = NoAnswers
    BY <2>1, <2>3, IdleFits DEF Ask, Places
  <2>5. AskFits(new)
    BY <2>3, <2>4, IdleFits, Absences DEF AskFits, SigningInPlaces
  <2>6. RenewalsFit' /\ CallsFit'
    BY <2>2, <2>4, <2>5, CallTurns
  <2>7. QED
    BY <1>3, <2>6 DEF CreateSession, PlainFits, StoredFits, LiveFits
<1>4. ASSUME NEW a \in Accounts, RemoveSession(c, a) PROVE AuthInv'
  <2>1. PICK new : new = [IdleAsk EXCEPT !.kind = "remove", !.pc = "clearing", !.of = a]
    OBVIOUS
  <2>2. ask' = [ask EXCEPT ![c] = new] /\ UNCHANGED resolving /\ Forgets(a)
    BY <1>4, <2>1 DEF RemoveSession
  <2>3. new \in Ask /\ new.pc = "clearing" /\ new.of = a /\ new.answer = NoAnswers
    BY <2>1, IdleFits DEF Ask, Places
  <2>4. AskFits(new)
    BY <2>3, IdleFits, Absences DEF AskFits, SigningInPlaces
  <2>5. RenewalsFit' /\ CallsFit' /\ LiveFits'
    BY <2>2, <2>3, <2>4, CallTurns, LiveForgets
  <2>6. QED
    BY <1>4, <2>5 DEF RemoveSession, PlainFits, StoredFits
<1>5. ASSUME Fails(c), UNCHANGED resolving PROVE RenewalsFit' /\ CallsFit'
  <2>1. PICK new : new = [IdleAsk EXCEPT !.pc = "done"]
    OBVIOUS
  <2>2. ask' = [ask EXCEPT ![c] = new]
    BY <1>5, <2>1 DEF Fails
  <2>3. new \in Ask /\ new.pc = "done" /\ new.answer = NoAnswers
    BY <2>1, IdleFits DEF Ask, Places
  <2>4. AskFits(new)
    BY <2>3, IdleFits, Absences DEF AskFits, SigningInPlaces
  <2>5. QED
    BY <1>5, <2>2, <2>3, <2>4, CallTurns
<1>6. CASE Publish(c)
  <2>1. Fails(c) /\ UNCHANGED resolving
    BY <1>6 DEF Publish, Fails
  <2>2. published' \in [Accounts -> Row]
    <3>1. ASSUME NEW a \in Accounts PROVE Summary(ask[c].answer[a]) \in Row
      <4>1. ask[c].answer[a] \in Session \cup {Nobody}
        BY <1>0, <1>6 DEF Publish, Ask, Answer
      <4>2. QED
        BY <4>1 DEF Summary, Row, Session
    <3>2. QED
      BY <1>6, <3>1 DEF Publish
  <2>3. QED
    BY <1>5, <1>6, <2>1, <2>2 DEF Publish, PlainFits, StoredFits, LiveFits
<1>7. CASE SignedIn(c)
  <2>1. PICK u \in People, grant \in {0, grants + 1} :
          /\ ask' = [ask EXCEPT ![c].pc = "keeping", ![c].user = u, ![c].grant = grant]
          /\ grants' = IF grant = 0 THEN grants ELSE grant
    BY <1>7 DEF SignedIn
  <2>2. grants + 1 \in 1..MaxGrants /\ grant \in 0..MaxGrants /\ grants' \in 1..MaxGrants
    BY <1>7, <2>1, Bounds DEF SignedIn, PlainFits
  <2>3. PICK new : new = [ask[c] EXCEPT !.pc = "keeping", !.user = u, !.grant = grant]
    OBVIOUS
  <2>4. ask' = [ask EXCEPT ![c] = new] /\ UNCHANGED resolving /\ ask[c].pc = "browser"
    BY <1>7, <2>1, <2>3 DEF SignedIn, CallsFit
  <2>5. /\ new \in Ask /\ new.pc = "keeping" /\ new.user = u /\ new.of = ask[c].of
        /\ new.endpoint = ask[c].endpoint /\ new.answer = ask[c].answer
        /\ new.asked = ask[c].asked
    BY <1>0, <2>2, <2>3 DEF Ask, Places
  <2>6. AskFits(new)
    BY <1>0, <2>4, <2>5 DEF AskFits, SigningInPlaces
  <2>7. RenewalsFit' /\ CallsFit'
    BY <2>4, <2>5, <2>6, CallTurns
  <2>8. QED
    BY <1>7, <2>2, <2>7 DEF SignedIn, PlainFits, StoredFits, LiveFits
<1>8. CASE NotSignedIn(c)
  BY <1>5, <1>8 DEF NotSignedIn, PlainFits, StoredFits, LiveFits
<1>9. ASSUME NEW pc \in {"identifying", "writing"}, Settles(c, pc), UNCHANGED resolving,
             ask[c].pc \in {"keeping", "identifying"}
      PROVE  RenewalsFit' /\ CallsFit'
  <2>1. PICK new : new = [ask[c] EXCEPT !.pc = pc]
    OBVIOUS
  <2>2. ask' = [ask EXCEPT ![c] = new]
    BY <1>9, <2>1 DEF Settles
  <2>3. /\ new \in Ask /\ new.pc = pc /\ new.user = ask[c].user /\ new.of = ask[c].of
        /\ new.endpoint = ask[c].endpoint /\ new.answer = ask[c].answer
        /\ new.asked = ask[c].asked
    BY <1>0, <2>1 DEF Ask, Places
  <2>4. AskFits(new) /\ new.pc # "all"
    BY <1>0, <1>9, <2>3 DEF AskFits, SigningInPlaces
  <2>5. QED
    BY <1>9, <2>2, <2>4, CallTurns
<1>10. ASSUME ask[c].pc \in SigningInPlaces \ {"browser"}
       PROVE  /\ ask[c].of \in Accounts /\ ask[c].endpoint \in Deployments
              /\ ask[c].user \in People /\ ask[c].grant \in 0..MaxGrants
  BY <1>0, <1>10 DEF AskFits, Ask
<1>11. ASSUME KeepsGrant(c), ask[c].pc \in SigningInPlaces \ {"browser"} PROVE StoredFits'
  BY <1>10, <1>11, StoredIs DEF KeepsGrant
<1>12. CASE Kept(c)
  <2>1. /\ ask[c].pc = "keeping" /\ ask[c].pc \in SigningInPlaces \ {"browser"}
        /\ KeepsGrant(c) /\ Settles(c, "identifying") /\ UNCHANGED resolving
        /\ signedOut' \subseteq signedOut
    BY <1>12 DEF Kept, SigningInPlaces
  <2>2. QED
    BY <1>9, <1>11, <1>12, <2>1 DEF Kept, PlainFits, LiveFits
<1>13. CASE Named(c)
  <2>1. /\ ask[c].pc = "identifying" /\ ask[c].pc \in SigningInPlaces \ {"browser"}
        /\ Keeps(ask[c].of, WhoIs(ask[c].user, ask[c].endpoint, ask[c].endpoint))
        /\ Settles(c, "writing") /\ UNCHANGED resolving
    BY <1>13 DEF Named, SigningInPlaces
  <2>2. PICK s : s = WhoIs(ask[c].user, ask[c].endpoint, ask[c].endpoint)
    OBVIOUS
  <2>3. s \in Session /\ s.at = s.endpoint
    BY <1>10, <2>1, <2>2 DEF WhoIs, Session
  <2>4. LiveFits'
    BY <1>10, <2>1, <2>2, <2>3, LiveKeeps
  <2>5. QED
    BY <1>9, <1>13, <2>1, <2>4 DEF Named, PlainFits, StoredFits
<1>14. CASE NotNamed(c)
  BY <1>5, <1>14 DEF NotNamed, PlainFits, StoredFits, LiveFits
<1>15. CASE Established(c)
  <2>1. /\ ask[c].pc \in SigningInPlaces \ {"browser"} /\ KeepsGrant(c)
        /\ BeginAll(c, "create", ask[c].of)
    BY <1>15 DEF Established, SigningInPlaces
  <2>2. ask[c].of \in Accounts \cup {Nobody}
    BY <1>10, <2>1
  <2>3. LiveFits' /\ RenewalsFit' /\ CallsFit'
    BY <2>1, <2>2, AllBegins
  <2>4. QED
    BY <1>11, <1>15, <2>1, <2>3 DEF Established, PlainFits
<1>16. CASE Cleared(c)
  <2>1. /\ ask[c].pc = "clearing" /\ Clears(ask[c].of) /\ BeginAll(c, "remove", ask[c].of)
        /\ signedOut' = signedOut \cup {ask[c].of}
    BY <1>16 DEF Cleared
  <2>2. ask[c].of \in Accounts
    BY <1>0, <2>1 DEF AskFits
  <2>3. LiveFits' /\ RenewalsFit' /\ CallsFit'
    BY <2>1, <2>2, AllBegins
  <2>4. StoredFits'
    BY <2>1, <2>2, StoredClears
  <2>5. QED
    BY <1>16, <2>1, <2>2, <2>3, <2>4 DEF Cleared, PlainFits
<1>17. QED
  BY <1>1, <1>2, <1>3, <1>4, <1>6, <1>7, <1>8, <1>12, <1>13, <1>14, <1>15, <1>16 DEF Calls

LEMMA SurroundingsFit ==
    ASSUME AuthInv, NEW a \in Accounts, MovesEndpoint(a) \/ Expires(a) \/ OtherWindow(a)
    PROVE  AuthInv'
<1> USE DEF AuthInv
<1>1. CASE MovesEndpoint(a)
  <2>1. PICK d \in Deployments : endpointOf' = [endpointOf EXCEPT ![a] = d]
    BY <1>1 DEF MovesEndpoint
  <2>2. moves' = moves + 1 /\ moves < MaxMoves
    BY <1>1 DEF MovesEndpoint
  <2>3. PlainFits'
    <3>1. moves' \in 0..MaxMoves
      BY <2>2, Bounds DEF PlainFits
    <3>2. endpointOf' \in [Accounts -> Deployments]
      BY <2>1 DEF PlainFits
    <3>3. QED
      BY <1>1, <3>1, <3>2 DEF MovesEndpoint, PlainFits
  <2>4. QED
    BY <1>1, <2>3 DEF MovesEndpoint, StoredFits, LiveFits, RenewalsFit, CallsFit
<1>2. CASE Expires(a)
  <2>1. PICK h : h = [live[a] EXCEPT !.spent = TRUE]
    OBVIOUS
  <2>2. live[a] \in Held /\ live[a] # Nobody /\ live' = [live EXCEPT ![a] = h]
    BY <1>2, <2>1 DEF Expires, LiveFits
  <2>3. h \in Held /\ h.session = live[a].session
    BY <2>1, <2>2 DEF Held
  <2>4. LiveFits'
    BY <2>2, <2>3 DEF LiveFits
  <2>5. QED
    BY <1>2, <2>4 DEF Expires, PlainFits, StoredFits, RenewalsFit, CallsFit
<1>3. CASE OtherWindow(a)
  <2>1. UNCHANGED <<endpointOf, moves, live, resolving, published, ask, refused>>
    BY <1>3, Zenon DEF OtherWindow
  <2>2. \/ /\ grants < MaxGrants /\ grants' = grants + 1 /\ signedOut' = signedOut \ {a}
           /\ \/ \E u \in People :
                   stored' = [stored EXCEPT ![a] =
                       ToStored(u, endpointOf[a], endpointOf[a], grants + 1)]
              \/ /\ stored[a] \in Entry
                 /\ stored' = [stored EXCEPT ![a] =
                       ToStored(stored[a].by, stored[a].at, stored[a].at, grants + 1)]
        \/ Clears(a) /\ UNCHANGED <<grants, signedOut>>
    BY <1>3, Zenon DEF OtherWindow
  <2>3. grants < MaxGrants => grants + 1 \in 1..MaxGrants /\ grants + 1 \in 0..MaxGrants
    BY Bounds DEF PlainFits
  <2>4. StoredFits'
    <3>1. endpointOf[a] \in Deployments
      BY DEF PlainFits
    <3>2. stored[a] \in Entry => stored[a].by \in People /\ stored[a].at \in Deployments
      BY DEF Entry
    <3>3. QED
      BY <2>2, <2>3, <3>1, <3>2, StoredIs, StoredClears
  <2>5. grants' \in 1..MaxGrants /\ signedOut' \subseteq Accounts
    BY <2>2, <2>3 DEF PlainFits
  <2>6. PlainFits'
    BY <2>1, <2>5 DEF PlainFits
  <2>7. QED
    BY <2>1, <2>4, <2>6 DEF LiveFits, RenewalsFit, CallsFit
<1>4. QED
  BY <1>1, <1>2, <1>3

LEMMA AuthStep ==
    ASSUME AuthInv, [Next /\ Apart']_vars
    PROVE  AuthInv'
<1>1. CASE UNCHANGED vars
  BY <1>1 DEF vars, AuthInv, PlainFits, StoredFits, LiveFits, RenewalsFit, CallsFit
<1>2. CASE Next
  BY <1>2, RenewsFits, CallsFits, SurroundingsFit DEF Next
<1>3. QED
  BY <1>1, <1>2

-----------------------------------------------------------------------------
(* What a step of a renewal, or of a call, does to the rest.               *)
RenewalMoves(a) ==
    /\ resolving[a] # Nobody /\ signedOut' = signedOut
    /\ \A b \in Accounts : b # a =>
         /\ resolving'[b] = resolving[b] /\ stored'[b] = stored[b] /\ live'[b] = live[b]
         /\ \A g : <<b, g>> \in refused' <=> <<b, g>> \in refused
    /\ \A c \in AuthCalls :
         ask'[c].pc = ask[c].pc /\ ask'[c].of = ask[c].of /\ ask'[c].grant = ask[c].grant
    /\ At(a, "reading") /\ stored[a] = Nobody =>
          resolving'[a] = Nobody /\ stored'[a] = Nobody /\ live'[a] \in {Nobody, live[a]}
    /\ At(a, "clearing")' =>
          /\ stored'[a] \in Entry /\ stored'[a].grant = resolving'[a].entry.grant

KeepingPlaces == {"keeping", "identifying", "writing"}
CallMoves(c) ==
    /\ UNCHANGED refused
    /\ \A d \in AuthCalls : d # c => ask'[d] = ask[d]
    /\ \A a \in Accounts :
         /\ resolving'[a] = resolving[a] \/ (resolving[a] = Nobody /\ At(a, "reading")')
         /\ \/ live'[a] = live[a] \/ live'[a] = Nobody
            \/ ask[c].pc = "identifying" /\ a = ask[c].of
         /\ \/ stored'[a] = stored[a] \/ stored'[a] = Nobody
            \/ /\ ask[c].pc \in {"keeping", "writing"} /\ a = ask[c].of
               /\ ask[c].pc = "keeping" => a \notin signedOut'
               /\ stored'[a] \in Entry =>
                     stored'[a].grant = ask[c].grant /\ stored'[a].endpoint # Nobody
    /\ ask'[c].pc \in KeepingPlaces =>
          \/ ask[c].pc \in KeepingPlaces /\ ask'[c].grant = ask[c].grant
          \/ ask'[c].grant \in {0, grants + 1}
    /\ ask'[c].pc = "clearing" => live'[ask'[c].of] = Nobody
    /\ ask'[c].pc \in {"identifying", "writing"} =>
          /\ ask'[c].of = ask[c].of
          /\ \/ ask[c].pc = "identifying"
             \/ ask[c].pc = "keeping" /\ ask[c].of \notin signedOut'
    /\ \/ signedOut' \subseteq signedOut
       \/ /\ ask[c].pc = "clearing" /\ signedOut' = signedOut \cup {ask[c].of}
          /\ stored'[ask[c].of] = Nobody

LEMMA RenewalEffects ==
    ASSUME AuthInv, NEW a \in Accounts, Renews(a)
    PROVE  RenewalMoves(a)
<1> USE DEF AuthInv
<1>1. ASSUME NEW pc \in RenewalPlaces, Goes(a, pc), resolving[a] # Nobody
      PROVE  /\ resolving'[a] = [resolving[a] EXCEPT !.pc = pc]
             /\ \A b \in Accounts : b # a => resolving'[b] = resolving[b]
             /\ At(a, pc)' /\ resolving'[a].entry = resolving[a].entry
  <2>1. resolving[a] \in Renewal
    BY <1>1 DEF RenewalsFit
  <2>2. /\ resolving'[a] = [resolving[a] EXCEPT !.pc = pc]
        /\ \A b \in Accounts : b # a => resolving'[b] = resolving[b]
    BY <1>1 DEF Goes, RenewalsFit
  <2>3. resolving'[a] \in Renewal /\ resolving'[a].pc = pc
        /\ resolving'[a].entry = resolving[a].entry
    BY <2>1, <2>2 DEF Renewal
  <2>4. QED
    BY <2>2, <2>3, Absences DEF At
<1>2. ASSUME NEW s \in Session \cup {Nobody}, Ends(a, s), resolving[a] # Nobody,
             s # Nobody => s.endpoint = resolving[a].endpoint /\ s.at = resolving[a].endpoint
      PROVE  /\ resolving'[a] = Nobody /\ ~At(a, "clearing")'
             /\ \A b \in Accounts : b # a => resolving'[b] = resolving[b]
             /\ \A c \in AuthCalls :
                  ask'[c].pc = ask[c].pc /\ ask'[c].of = ask[c].of /\ ask'[c].grant = ask[c].grant
  BY <1>2, EndsFit DEF At
<1>3. CASE ReadsEntry(a)
  <2>1. /\ At(a, "reading") /\ UNCHANGED <<stored, refused, signedOut>>
        /\ resolving[a] # Nobody /\ resolving[a] \in Renewal
    BY <1>3, Standing DEF ReadsEntry
  <2>2. CASE stored[a] = Unreadable
    <3>1. Goes(a, "unreadable") /\ UNCHANGED <<live, ask>> /\ "unreadable" \in RenewalPlaces
      BY <1>3, <2>2, Absences DEF ReadsEntry, RenewalPlaces
    <3>2. At(a, "unreadable")' /\ ~At(a, "clearing")'
      BY <1>1, <2>1, <3>1 DEF At
    <3>3. QED
      BY <1>1, <2>1, <2>2, <3>1, <3>2, Absences DEF RenewalMoves
  <2>3. CASE stored[a] = Nobody
    <3>1. Forgets(a) /\ Ends(a, Nobody)
      BY <1>3, <2>3, Absences DEF ReadsEntry
    <3>2. QED
      BY <1>2, <2>1, <2>3, <3>1, LiveForgets DEF RenewalMoves
  <2>4. CASE stored[a] \in Entry
    <3>1. PICK pc \in {"judging", "refreshing"} :
            /\ resolving' = [resolving EXCEPT ![a].entry = stored[a], ![a].pc = pc]
            /\ live' = live \/ live' = [live EXCEPT ![a] = Nobody]
            /\ UNCHANGED ask
      BY <1>3, <2>4, Absences DEF ReadsEntry
    <3>2. /\ \A b \in Accounts : b # a => resolving'[b] = resolving[b] /\ live'[b] = live[b]
          /\ resolving'[a] = [resolving[a] EXCEPT !.entry = stored[a], !.pc = pc]
      BY <3>1 DEF RenewalsFit, LiveFits
    <3>3. resolving'[a].pc = pc
      BY <2>1, <3>2 DEF Renewal
    <3>4. ~At(a, "clearing")' /\ stored[a] # Nobody
      BY <2>4, <3>3, Absences DEF At
    <3>5. QED
      BY <2>1, <3>1, <3>2, <3>4 DEF RenewalMoves
  <2>5. QED
    BY <2>2, <2>3, <2>4 DEF StoredFits
<1>4. CASE DropsUnreadable(a)
  <2>1. /\ At(a, "unreadable") /\ Clears(a) /\ Forgets(a) /\ Ends(a, Nobody)
        /\ UNCHANGED <<refused, signedOut>>
    BY <1>4 DEF DropsUnreadable
  <2>2. resolving[a] # Nobody
    BY <2>1 DEF At
  <2>3. QED
    BY <1>2, <2>1, <2>2, LiveForgets, StoredClears DEF RenewalMoves
<1>5. CASE Refreshed(a)
  <2>1. /\ At(a, "refreshing") /\ UNCHANGED <<stored, ask, refused, signedOut>>
        /\ resolving[a] # Nobody /\ resolving[a] \in Renewal
    BY <1>5, Standing DEF Refreshed
  <2> DEFINE s == WhoIs(resolving[a].entry.by, resolving[a].entry.at, resolving[a].endpoint)
             known == [s EXCEPT !.user = live[a].session.user]
  <2>2. PICK grant \in Rotations(resolving[a]) :
          IF Cached(a)
          THEN /\ Keeps(a, known)
               /\ resolving' = [resolving EXCEPT ![a].pc = "writing", ![a].session = known,
                                                 ![a].entry.grant = grant]
          ELSE /\ resolving' = [resolving EXCEPT ![a].pc = "identifying", ![a].session = s,
                                                 ![a].entry.grant = grant]
               /\ UNCHANGED live
    BY <1>5 DEF Refreshed
  <2> HIDE DEF s, known
  <2>3. /\ \A b \in Accounts : b # a => resolving'[b] = resolving[b] /\ live'[b] = live[b]
        /\ resolving'[a].pc \in {"writing", "identifying"}
    <3>1. PICK pc \in {"writing", "identifying"} : \E t :
            resolving' = [resolving EXCEPT ![a].pc = pc, ![a].session = t, ![a].entry.grant = grant]
      BY <2>2
    <3>2. PICK t :
            resolving' = [resolving EXCEPT ![a].pc = pc, ![a].session = t, ![a].entry.grant = grant]
      BY <3>1
    <3>3. PICK e : e = [resolving[a].entry EXCEPT !.grant = grant]
      OBVIOUS
    <3>4. PICK new : new = [resolving[a] EXCEPT !.pc = pc, !.session = t, !.entry = e]
      OBVIOUS
    <3>5. [resolving[a] EXCEPT !.pc = pc, !.session = t, !.entry.grant = grant] = new
      BY <2>1, <3>3, <3>4 DEF Renewal
    <3>6. resolving' = [resolving EXCEPT ![a] = new]
      BY <3>2, <3>5 DEF RenewalsFit
    <3>7. new.pc = pc
      BY <2>1, <3>4 DEF Renewal
    <3>8. \A b \in Accounts : b # a => live'[b] = live[b]
      BY <2>2 DEF Keeps, LiveFits
    <3>9. QED
      BY <3>6, <3>7, <3>8 DEF RenewalsFit
  <2>4. ~At(a, "clearing")' /\ ~At(a, "reading")
    BY <2>1, <2>3 DEF At
  <2>5. QED
    BY <2>1, <2>3, <2>4 DEF RenewalMoves
<1>6. CASE RefreshFails(a)
  <2>1. /\ At(a, "refreshing") /\ Forgets(a) /\ UNCHANGED <<stored, signedOut>>
        /\ resolving[a] # Nobody /\ resolving[a] \in Renewal /\ ~At(a, "reading")
    BY <1>6, Standing DEF RefreshFails, At
  <2>2. /\ refused' = refused \cup {<<a, resolving[a].entry.grant>>} \/ refused' = refused
        /\ (Goes(a, "judging") /\ UNCHANGED ask) \/ Ends(a, Nobody)
    BY <1>6 DEF RefreshFails
  <2>3. \A b \in Accounts : b # a => \A g : <<b, g>> \in refused' <=> <<b, g>> \in refused
    BY <2>2
  <2>4. CASE Goes(a, "judging") /\ UNCHANGED ask
    <3>1. "judging" \in RenewalPlaces
      BY DEF RenewalPlaces
    <3>2. At(a, "judging")' /\ ~At(a, "clearing")'
      BY <1>1, <2>1, <2>4, <3>1 DEF At
    <3>3. QED
      BY <1>1, <2>1, <2>3, <2>4, <3>1, <3>2, LiveForgets DEF RenewalMoves
  <2>5. CASE Ends(a, Nobody)
    BY <1>2, <2>1, <2>3, <2>5, LiveForgets DEF RenewalMoves
  <2>6. QED
    BY <2>2, <2>4, <2>5
<1>7. CASE Identified(a)
  <2>1. /\ At(a, "identifying") /\ Keeps(a, resolving[a].session) /\ Goes(a, "writing")
        /\ UNCHANGED <<stored, ask, refused, signedOut>> /\ "writing" \in RenewalPlaces
        /\ resolving[a] # Nobody /\ ~At(a, "reading")
    BY <1>7 DEF Identified, At, RenewalPlaces
  <2>2. \A b \in Accounts : b # a => live'[b] = live[b]
    BY <2>1 DEF Keeps, LiveFits
  <2>3. ~At(a, "clearing")'
    BY <1>1, <2>1 DEF At
  <2>4. QED
    BY <1>1, <2>1, <2>2, <2>3 DEF RenewalMoves
<1>8. CASE NotIdentified(a)
  <2>1. /\ At(a, "identifying") /\ Ends(a, Nobody) /\ UNCHANGED <<live, stored, refused, signedOut>>
        /\ resolving[a] # Nobody /\ ~At(a, "reading")
    BY <1>8 DEF NotIdentified, At
  <2>2. QED
    BY <1>2, <2>1 DEF RenewalMoves
<1>9. CASE Written(a)
  <2>1. /\ At(a, "writing") /\ Ends(a, resolving[a].session)
        /\ UNCHANGED <<live, refused, signedOut>> /\ ~At(a, "reading")
        /\ \A b \in Accounts : b # a => stored'[b] = stored[b]
    BY <1>9 DEF Written, At
  <2>2. /\ resolving[a] # Nobody /\ resolving[a].session \in Session
        /\ resolving[a].session.endpoint = resolving[a].endpoint
        /\ resolving[a].session.at = resolving[a].endpoint
    BY <2>1, Standing DEF Stands
  <2>3. QED
    BY <1>2, <2>1, <2>2 DEF RenewalMoves
<1>10. CASE Judges(a)
  <2>1. /\ At(a, "judging") /\ ~At(a, "reading") /\ resolving[a] # Nobody
        /\ UNCHANGED <<live, stored, refused, signedOut>>
        /\ \/ Goes(a, "clearing") /\ UNCHANGED ask /\ StillTheEntry(a)
           \/ Ends(a, Nobody)
    BY <1>10 DEF Judges, At
  <2>2. CASE Goes(a, "clearing") /\ UNCHANGED ask /\ StillTheEntry(a)
    <3>1. "clearing" \in RenewalPlaces
      BY DEF RenewalPlaces
    <3>2. stored'[a] \in Entry /\ stored'[a].grant = resolving'[a].entry.grant
      BY <1>1, <2>1, <2>2, <3>1 DEF StillTheEntry
    <3>3. QED
      BY <1>1, <2>1, <2>2, <3>1, <3>2 DEF RenewalMoves
  <2>3. CASE Ends(a, Nobody)
    BY <1>2, <2>1, <2>3 DEF RenewalMoves
  <2>4. QED
    BY <2>1, <2>2, <2>3
<1>11. CASE Discards(a)
  <2>1. /\ At(a, "clearing") /\ Clears(a) /\ Ends(a, Nobody) /\ UNCHANGED <<live, refused, signedOut>>
        /\ resolving[a] # Nobody /\ ~At(a, "reading")
    BY <1>11 DEF Discards, At
  <2>2. QED
    BY <1>2, <2>1, StoredClears DEF RenewalMoves
<1>12. CASE StorageFails(a)
  <2>1. /\ Ends(a, Nobody) /\ UNCHANGED <<live, stored, signedOut>> /\ resolving[a] # Nobody
        /\ refused' = refused \ {<<a, g>> : g \in 1..MaxGrants}
    BY <1>12 DEF StorageFails, At
  <2>2. \A b \in Accounts : b # a => \A g : <<b, g>> \in refused' <=> <<b, g>> \in refused
    BY <2>1
  <2>3. QED
    BY <1>2, <2>1, <2>2 DEF RenewalMoves
<1>13. QED
  BY <1>3, <1>4, <1>5, <1>6, <1>7, <1>8, <1>9, <1>10, <1>11, <1>12 DEF Renews

(* A call of which only the place is said, at none where a grant is kept,  *)
(* and by which nothing else changes.                                      *)
LEMMA QuietCall ==
    ASSUME AuthInv, NEW c \in AuthCalls, NEW new \in Ask,
           ask' = [ask EXCEPT ![c] = new],
           new.pc \notin KeepingPlaces \cup {"clearing"},
           UNCHANGED <<live, stored, resolving, refused, signedOut>>
    PROVE  CallMoves(c)
<1>1. ask'[c] = new /\ \A d \in AuthCalls : d # c => ask'[d] = ask[d]
  BY DEF AuthInv, CallsFit
<1>2. QED
  BY <1>1 DEF CallMoves, KeepingPlaces

LEMMA CallEffects ==
    ASSUME AuthInv, NEW c \in AuthCalls, Calls(c)
    PROVE  CallMoves(c)
<1> USE DEF AuthInv
<1>0. ask[c] \in Ask /\ AskFits(ask[c])
  BY DEF CallsFit
<1>1. ASSUME NEW kind \in {"get", "create", "remove"}, NEW of \in Accounts \cup {Nobody},
             BeginAll(c, kind, of)
      PROVE  /\ \A a \in Accounts :
                  /\ live'[a] = live[a] \/ live'[a] = Nobody
                  /\ resolving'[a] = resolving[a] \/ (resolving[a] = Nobody /\ At(a, "reading")')
             /\ ask'[c].pc = "all" /\ \A d \in AuthCalls : d # c => ask'[d] = ask[d]
  BY <1>1, AllBegins
<1>2. CASE GetSessions(c)
  <2>1. PICK of \in Accounts \cup {Nobody} : BeginAll(c, "get", of)
    BY <1>2 DEF GetSessions
  <2>2. UNCHANGED <<stored, refused, signedOut>>
    BY <1>2 DEF GetSessions
  <2>3. QED
    BY <1>1, <2>1, <2>2 DEF CallMoves, KeepingPlaces
<1>3. ASSUME NEW a \in Accounts, GiveUp(c, a) PROVE CallMoves(c)
  <2>1. PICK answer : answer = [ask[c].answer EXCEPT ![a] = Nobody]
    OBVIOUS
  <2>2. answer \in [Accounts -> Answer]
    BY <1>0, <2>1 DEF Ask, Answer
  <2>3. PICK new : new = [ask[c] EXCEPT !.answer = answer]
    OBVIOUS
  <2>4. ask' = [ask EXCEPT ![c] = new] /\ ask[c].pc = "all"
    BY <1>3, <2>1, <2>3 DEF GiveUp, CallsFit
  <2>5. new \in Ask /\ new.pc = "all"
    BY <1>0, <2>2, <2>3, <2>4 DEF Ask
  <2>6. new.pc \notin KeepingPlaces \cup {"clearing"}
    BY <2>5 DEF KeepingPlaces
  <2>7. QED
    BY <1>3, <2>4, <2>5, <2>6, QuietCall DEF GiveUp
<1>4. ASSUME NEW a \in Accounts, CreateSession(c, a) PROVE CallMoves(c)
  <2>1. PICK new : new = [IdleAsk EXCEPT !.kind = "create", !.pc = "browser", !.of = a,
                                         !.endpoint = endpointOf[a]]
    OBVIOUS
  <2>2. new \in Ask /\ new.pc = "browser"
    BY <2>1, IdleFits DEF Ask, Places, PlainFits
  <2>3. new.pc \notin KeepingPlaces \cup {"clearing"}
    BY <2>2 DEF KeepingPlaces
  <2>4. QED
    BY <1>4, <2>1, <2>2, <2>3, QuietCall DEF CreateSession
<1>5. ASSUME NEW a \in Accounts, RemoveSession(c, a) PROVE CallMoves(c)
  <2>1. PICK new : new = [IdleAsk EXCEPT !.kind = "remove", !.pc = "clearing", !.of = a]
    OBVIOUS
  <2>2. new \in Ask /\ new.pc = "clearing" /\ new.of = a
    BY <2>1, IdleFits DEF Ask, Places
  <2>3. /\ ask' = [ask EXCEPT ![c] = new] /\ Forgets(a)
        /\ UNCHANGED <<stored, resolving, refused, signedOut>>
    BY <1>5, <2>1 DEF RemoveSession
  <2>4. ask'[c] = new /\ \A d \in AuthCalls : d # c => ask'[d] = ask[d]
    BY <2>3 DEF CallsFit
  <2>5. live'[a] = Nobody /\ \A b \in Accounts : b # a => live'[b] = live[b]
    BY <2>3, LiveForgets
  <2>6. QED
    BY <2>2, <2>3, <2>4, <2>5 DEF CallMoves, KeepingPlaces
<1>6. ASSUME Fails(c), UNCHANGED <<live, stored, resolving, refused, signedOut>>
      PROVE  CallMoves(c)
  <2>1. PICK new : new = [IdleAsk EXCEPT !.pc = "done"]
    OBVIOUS
  <2>2. new \in Ask /\ new.pc = "done"
    BY <2>1, IdleFits DEF Ask, Places
  <2>3. new.pc \notin KeepingPlaces \cup {"clearing"}
    BY <2>2 DEF KeepingPlaces
  <2>4. QED
    BY <1>6, <2>1, <2>2, <2>3, QuietCall DEF Fails
<1>7. CASE Publish(c) \/ NotSignedIn(c) \/ NotNamed(c)
  BY <1>6, <1>7 DEF Publish, NotSignedIn, NotNamed, Fails
<1>8. CASE SignedIn(c)
  <2>1. PICK u \in People, grant \in {0, grants + 1} :
          ask' = [ask EXCEPT ![c].pc = "keeping", ![c].user = u, ![c].grant = grant]
    BY <1>8 DEF SignedIn
  <2>2. PICK new : new = [ask[c] EXCEPT !.pc = "keeping", !.user = u, !.grant = grant]
    OBVIOUS
  <2>3. /\ ask'[c] = new /\ \A d \in AuthCalls : d # c => ask'[d] = ask[d]
        /\ UNCHANGED <<live, stored, resolving, refused, signedOut>>
    BY <1>8, <2>1, <2>2 DEF SignedIn, CallsFit
  <2>4. new.pc = "keeping" /\ new.grant = grant
    BY <1>0, <2>2 DEF Ask
  <2>5. QED
    BY <2>3, <2>4 DEF CallMoves, KeepingPlaces
<1>9. ASSUME NEW pc, Settles(c, pc)
      PROVE  /\ ask'[c].pc = pc /\ ask'[c].of = ask[c].of /\ ask'[c].grant = ask[c].grant
             /\ \A d \in AuthCalls : d # c => ask'[d] = ask[d]
  <2>1. PICK new : new = [ask[c] EXCEPT !.pc = pc]
    OBVIOUS
  <2>2. new.pc = pc /\ new.of = ask[c].of /\ new.grant = ask[c].grant
    BY <1>0, <2>1 DEF Ask
  <2>3. ask'[c] = new /\ \A d \in AuthCalls : d # c => ask'[d] = ask[d]
    BY <1>9, <2>1 DEF Settles, CallsFit
  <2>4. QED
    BY <2>2, <2>3
<1>10. ASSUME ask[c].pc \in KeepingPlaces
       PROVE  /\ ask[c].of \in Accounts /\ ask[c].endpoint \in Deployments
              /\ ask[c].user \in People /\ ask[c].grant \in 0..MaxGrants
  BY <1>0, <1>10 DEF AskFits, Ask, KeepingPlaces, SigningInPlaces
<1>11. ASSUME KeepsGrant(c), ask[c].pc \in KeepingPlaces
       PROVE  /\ \A b \in Accounts : b # ask[c].of => stored'[b] = stored[b]
              /\ stored'[ask[c].of] \in Entry =>
                    /\ stored'[ask[c].of].grant = ask[c].grant
                    /\ stored'[ask[c].of].endpoint # Nobody
  <2>1. /\ StoredFits /\ ask[c].of \in Accounts /\ ask[c].endpoint \in Deployments
        /\ ask[c].user \in People /\ ask[c].grant \in 0..MaxGrants
        /\ stored' = [stored EXCEPT ![ask[c].of] =
               ToStored(ask[c].user, ask[c].endpoint, ask[c].endpoint, ask[c].grant)]
    BY <1>10, <1>11 DEF KeepsGrant
  <2>2. StoredBecomes(ask[c].of, ask[c].endpoint, ask[c].grant)
    BY <2>1, StoredIs
  <2>3. QED
    BY <2>1, <2>2, Absences DEF StoredBecomes
<1>12. CASE Kept(c)
  <2>1. /\ ask[c].pc = "keeping" /\ ask[c].pc \in KeepingPlaces
        /\ KeepsGrant(c) /\ Settles(c, "identifying")
        /\ UNCHANGED <<live, resolving, refused>> /\ signedOut' = signedOut \ {ask[c].of}
    BY <1>12 DEF Kept, KeepingPlaces
  <2>2. QED
    BY <1>9, <1>11, <2>1 DEF CallMoves, KeepingPlaces
<1>13. CASE Named(c)
  <2>1. /\ ask[c].pc = "identifying" /\ ask[c].pc \in KeepingPlaces
        /\ Keeps(ask[c].of, WhoIs(ask[c].user, ask[c].endpoint, ask[c].endpoint))
        /\ Settles(c, "writing") /\ UNCHANGED <<stored, resolving, refused, signedOut>>
    BY <1>13 DEF Named, KeepingPlaces
  <2>2. \A b \in Accounts : b # ask[c].of => live'[b] = live[b]
    BY <2>1 DEF Keeps, LiveFits
  <2>3. QED
    BY <1>9, <2>1, <2>2 DEF CallMoves, KeepingPlaces
<1>14. CASE Established(c)
  <2>1. /\ ask[c].pc = "writing" /\ ask[c].pc \in KeepingPlaces /\ KeepsGrant(c)
        /\ BeginAll(c, "create", ask[c].of) /\ UNCHANGED <<refused, signedOut>>
    BY <1>14 DEF Established, KeepingPlaces
  <2>2. ask[c].of \in Accounts \cup {Nobody}
    BY <1>10, <2>1
  <2>3. /\ \A a \in Accounts :
             /\ live'[a] = live[a] \/ live'[a] = Nobody
             /\ resolving'[a] = resolving[a] \/ (resolving[a] = Nobody /\ At(a, "reading")')
        /\ ask'[c].pc = "all" /\ \A d \in AuthCalls : d # c => ask'[d] = ask[d]
    BY <1>1, <2>1, <2>2
  <2>4. QED
    BY <1>11, <2>1, <2>3 DEF CallMoves, KeepingPlaces
<1>15. CASE Cleared(c)
  <2>1. /\ ask[c].pc = "clearing" /\ Clears(ask[c].of) /\ BeginAll(c, "remove", ask[c].of)
        /\ signedOut' = signedOut \cup {ask[c].of} /\ UNCHANGED refused
    BY <1>15 DEF Cleared
  <2>2. ask[c].of \in Accounts
    BY <1>0, <2>1 DEF AskFits
  <2>3. /\ \A a \in Accounts :
             /\ live'[a] = live[a] \/ live'[a] = Nobody
             /\ resolving'[a] = resolving[a] \/ (resolving[a] = Nobody /\ At(a, "reading")')
        /\ ask'[c].pc = "all" /\ \A d \in AuthCalls : d # c => ask'[d] = ask[d]
    BY <1>1, <2>1, <2>2
  <2>4. /\ stored'[ask[c].of] = Nobody
        /\ \A b \in Accounts : b # ask[c].of => stored'[b] = stored[b]
    BY <2>1, <2>2, StoredClears
  <2>5. QED
    BY <2>1, <2>3, <2>4 DEF CallMoves, KeepingPlaces
<1>16. QED
  BY <1>2, <1>3, <1>4, <1>5, <1>7, <1>8, <1>12, <1>13, <1>14, <1>15 DEF Calls

-----------------------------------------------------------------------------
(* A token of unknown origin that was refused.  Such a token is the one its *)
(* profile had before this version of the extension: its number is 1.      *)
(* Once it has been refused it is only in an entry under judgement.        *)
TokenFits(a) ==
    /\ stored[a] \in Entry /\ stored[a].endpoint = Nobody => stored[a].grant = 1
    /\ At(a, "refreshing") /\ resolving[a].entry.endpoint = Nobody
           => resolving[a].entry.grant = 1
    /\ <<a, 1>> \in refused =>
         /\ stored[a] \in Entry /\ stored[a].grant = 1 =>
               (At(a, "judging") \/ At(a, "clearing")) /\ resolving[a].entry.grant = 1
         /\ At(a, "refreshing") \/ At(a, "identifying") \/ At(a, "writing")
               => resolving[a].entry.grant # 1

TokensInv ==
    /\ \A a \in Accounts : \A g : <<a, g>> \in refused => g = 1
    /\ \A c \in AuthCalls : ask[c].pc \in KeepingPlaces => ask[c].grant # 1
    /\ \A a \in Accounts : TokenFits(a)

LEMMA TokensBegin == AccountsInit => TokensInv
<1> SUFFICES ASSUME AccountsInit PROVE TokensInv
  OBVIOUS
<1>1. /\ refused = {} /\ \A a \in Accounts : resolving[a] = Nobody
      /\ \A c \in AuthCalls : ask[c].pc = "idle"
  BY IdleFits DEF AccountsInit, Init
<1>2. \A a \in Accounts : stored[a] \in Entry => stored[a].grant = 1
  BY Absences DEF AccountsInit, Init
<1>3. QED
  BY <1>1, <1>2 DEF TokensInv, TokenFits, At, KeepingPlaces

(* The account whose renewal takes a step.                                 *)
LEMMA TokenRenews ==
    ASSUME AuthInv, TokensInv, NEW a \in Accounts, Renews(a)
    PROVE  TokenFits(a)' /\ \A g : <<a, g>> \in refused' => g = 1
<1> USE DEF AuthInv
<1>0. TokenFits(a) /\ \A g : <<a, g>> \in refused => g = 1
  BY DEF TokensInv
<1>1. ASSUME NEW s \in Session \cup {Nobody}, Ends(a, s)
      PROVE  resolving'[a] = Nobody /\ \A pc : ~At(a, pc)'
  BY <1>1 DEF At, Ends, RenewalsFit
<1>2. ASSUME NEW pc \in RenewalPlaces, Goes(a, pc), resolving[a] # Nobody
      PROVE  /\ \A p : At(a, p)' <=> p = pc
             /\ resolving'[a].entry = resolving[a].entry
  <2>1. resolving[a] \in Renewal /\ resolving'[a] = [resolving[a] EXCEPT !.pc = pc]
    BY <1>2 DEF RenewalsFit, Goes
  <2>2. resolving'[a] \in Renewal /\ resolving'[a].pc = pc
        /\ resolving'[a].entry = resolving[a].entry
    BY <2>1 DEF Renewal
  <2>3. QED
    BY <2>2, Absences DEF At
<1>3. CASE ReadsEntry(a)
  <2>1. /\ At(a, "reading") /\ UNCHANGED <<stored, refused>>
        /\ resolving[a] # Nobody /\ resolving[a] \in Renewal /\ resolving[a].pc = "reading"
    BY <1>3, Standing DEF ReadsEntry
  <2>2. CASE stored[a] = Unreadable
    <3>1. Goes(a, "unreadable") /\ "unreadable" \in RenewalPlaces
      BY <1>3, <2>2, Absences DEF ReadsEntry, RenewalPlaces
    <3>2. QED
      BY <1>0, <1>2, <2>1, <2>2, <3>1, Absences DEF TokenFits
  <2>3. CASE stored[a] = Nobody
    <3>1. Ends(a, Nobody)
      BY <1>3, <2>3, Absences DEF ReadsEntry
    <3>2. QED
      BY <1>0, <1>1, <2>1, <2>3, <3>1, Absences DEF TokenFits
  <2>4. CASE stored[a] \in Entry
    <3>1. PICK pc \in {"judging", "refreshing"} :
            resolving' = [resolving EXCEPT ![a].entry = stored[a], ![a].pc = pc]
      BY <1>3, <2>4, Absences DEF ReadsEntry
    <3>2. resolving'[a] = [resolving[a] EXCEPT !.entry = stored[a], !.pc = pc]
      BY <3>1 DEF RenewalsFit
    <3>3. resolving'[a].pc = pc /\ resolving'[a].entry = stored[a]
      BY <2>1, <3>2 DEF Renewal
    <3>4. <<a, 1>> \in refused => stored[a].grant # 1
      BY <1>0, <2>1, <2>4 DEF TokenFits, At
    <3>5. QED
      BY <1>0, <2>1, <2>4, <3>3, <3>4 DEF TokenFits, At
  <2>5. QED
    BY <2>2, <2>3, <2>4 DEF StoredFits
<1>4. CASE DropsUnreadable(a)
  <2>1. Ends(a, Nobody) /\ stored'[a] = Nobody /\ UNCHANGED refused
    BY <1>4, StoredClears DEF DropsUnreadable
  <2>2. QED
    BY <1>0, <1>1, <2>1, Absences DEF TokenFits
<1>5. CASE Refreshed(a)
  <2>1. /\ At(a, "refreshing") /\ UNCHANGED <<stored, refused>>
        /\ resolving[a] # Nobody /\ resolving[a] \in Renewal /\ resolving[a].pc = "refreshing"
        /\ resolving[a].entry \in Entry
    BY <1>5, Standing DEF Refreshed, Stands
  <2> DEFINE s == WhoIs(resolving[a].entry.by, resolving[a].entry.at, resolving[a].endpoint)
             known == [s EXCEPT !.user = live[a].session.user]
  <2>2. PICK grant \in Rotations(resolving[a]) :
          \/ resolving' = [resolving EXCEPT ![a].pc = "writing", ![a].session = known,
                                            ![a].entry.grant = grant]
          \/ resolving' = [resolving EXCEPT ![a].pc = "identifying", ![a].session = s,
                                            ![a].entry.grant = grant]
    BY <1>5 DEF Refreshed
  <2> HIDE DEF s, known
  <2>3. PICK pc \in {"writing", "identifying"} : \E t :
          resolving' = [resolving EXCEPT ![a].pc = pc, ![a].session = t, ![a].entry.grant = grant]
    BY <2>2
  <2>4. PICK t :
          resolving' = [resolving EXCEPT ![a].pc = pc, ![a].session = t, ![a].entry.grant = grant]
    BY <2>3
  <2>5. PICK e : e = [resolving[a].entry EXCEPT !.grant = grant]
    OBVIOUS
  <2>6. PICK new : new = [resolving[a] EXCEPT !.pc = pc, !.session = t, !.entry = e]
    OBVIOUS
  <2>7. [resolving[a] EXCEPT !.pc = pc, !.session = t, !.entry.grant = grant] = new
    BY <2>1, <2>5, <2>6 DEF Renewal
  <2>8. resolving'[a] = new
    BY <2>4, <2>7 DEF RenewalsFit
  <2>9. new.pc = pc /\ new.entry = e /\ e.grant = grant
    BY <2>1, <2>5, <2>6 DEF Renewal, Entry
  <2>10. <<a, 1>> \in refused => grant # 1
    <3>1. grants + 1 # 1
      BY Bounds DEF PlainFits
    <3>2. <<a, 1>> \in refused => resolving[a].entry.grant # 1
      BY <1>0, <2>1 DEF TokenFits
    <3>3. QED
      BY <3>1, <3>2 DEF Rotations
  <2>11. <<a, 1>> \in refused => ~(stored[a] \in Entry /\ stored[a].grant = 1)
    BY <1>0, <2>1 DEF TokenFits, At
  <2>12. QED
    BY <1>0, <2>1, <2>8, <2>9, <2>10, <2>11 DEF TokenFits, At
<1>6. CASE RefreshFails(a)
  <2>1. /\ At(a, "refreshing") /\ UNCHANGED stored /\ resolving[a] # Nobody
        /\ resolving[a].pc = "refreshing"
    BY <1>6, Standing DEF RefreshFails
  <2>2. <<a, 1>> \in refused => ~(stored[a] \in Entry /\ stored[a].grant = 1)
    BY <1>0, <2>1 DEF TokenFits, At
  <2>3. \/ /\ refused' = refused \cup {<<a, resolving[a].entry.grant>>}
           /\ resolving[a].entry.endpoint = Nobody /\ Goes(a, "judging")
        \/ refused' = refused /\ Ends(a, Nobody)
    BY <1>6 DEF RefreshFails, Unowned
  <2>4. CASE /\ refused' = refused \cup {<<a, resolving[a].entry.grant>>}
             /\ resolving[a].entry.endpoint = Nobody /\ Goes(a, "judging")
    <3>1. resolving[a].entry.grant = 1
      BY <1>0, <2>1, <2>4 DEF TokenFits
    <3>2. \A p : At(a, p)' <=> p = "judging"
      BY <1>2, <2>1, <2>4 DEF RenewalPlaces
    <3>3. resolving'[a].entry.grant = 1
      BY <1>2, <2>1, <2>4, <3>1 DEF RenewalPlaces
    <3>4. \A g : <<a, g>> \in refused' => g = 1
      BY <1>0, <2>4, <3>1
    <3>5. QED
      BY <1>0, <2>1, <3>2, <3>3, <3>4 DEF TokenFits
  <2>5. CASE refused' = refused /\ Ends(a, Nobody)
    BY <1>0, <1>1, <2>1, <2>2, <2>5 DEF TokenFits
  <2>6. QED
    BY <2>3, <2>4, <2>5
<1>7. CASE Identified(a)
  <2>1. /\ At(a, "identifying") /\ Goes(a, "writing") /\ UNCHANGED <<stored, refused>>
        /\ resolving[a] # Nobody /\ "writing" \in RenewalPlaces /\ resolving[a].pc = "identifying"
    BY <1>7, Standing DEF Identified, RenewalPlaces
  <2>2. /\ <<a, 1>> \in refused => ~(stored[a] \in Entry /\ stored[a].grant = 1)
        /\ <<a, 1>> \in refused => resolving[a].entry.grant # 1
    BY <1>0, <2>1 DEF TokenFits, At
  <2>3. QED
    BY <1>0, <1>2, <2>1, <2>2 DEF TokenFits
<1>8. CASE NotIdentified(a)
  <2>1. /\ Ends(a, Nobody) /\ UNCHANGED <<stored, refused>> /\ resolving[a].pc = "identifying"
    BY <1>8, Standing DEF NotIdentified
  <2>2. <<a, 1>> \in refused => ~(stored[a] \in Entry /\ stored[a].grant = 1)
    BY <1>0, <2>1 DEF TokenFits, At
  <2>3. QED
    BY <1>0, <1>1, <2>1, <2>2 DEF TokenFits
<1>9. CASE Written(a)
  <2> DEFINE r == resolving[a]
  <2>1. /\ At(a, "writing") /\ Ends(a, r.session) /\ UNCHANGED refused
        /\ stored' = [stored EXCEPT ![a] =
                          ToStored(r.entry.by, r.entry.at, r.endpoint, r.entry.grant)]
    BY <1>9 DEF Written
  <2>2. r # Nobody /\ r.session \in Session /\ r.entry \in Entry /\ r.endpoint \in Deployments
    BY <2>1, Standing DEF Stands
  <2>3. /\ r.entry.by \in People /\ r.entry.at \in Deployments /\ r.entry.grant \in 0..MaxGrants
    BY <2>2, Bounds DEF Entry
  <2>4. StoredBecomes(a, r.endpoint, r.entry.grant)
    BY <2>1, <2>2, <2>3, StoredIs
  <2>5. <<a, 1>> \in refused => r.entry.grant # 1
    BY <1>0, <2>1 DEF TokenFits
  <2>6. \A p : ~At(a, p)'
    BY <1>1, <2>1, <2>2
  <2>7. QED
    BY <1>0, <2>1, <2>2, <2>4, <2>5, <2>6, Absences DEF TokenFits, StoredBecomes
<1>10. CASE Judges(a)
  <2>1. /\ At(a, "judging") /\ UNCHANGED <<stored, refused>> /\ resolving[a] # Nobody
        /\ resolving[a].pc = "judging"
        /\ IF StillTheEntry(a) THEN Goes(a, "clearing") ELSE Ends(a, Nobody)
    BY <1>10, Standing DEF Judges
  <2>2. <<a, 1>> \in refused /\ stored[a] \in Entry /\ stored[a].grant = 1
            => resolving[a].entry.grant = 1
    BY <1>0 DEF TokenFits
  <2>3. CASE StillTheEntry(a)
    <3>1. Goes(a, "clearing") /\ "clearing" \in RenewalPlaces
      BY <2>1, <2>3 DEF RenewalPlaces
    <3>2. QED
      BY <1>0, <1>2, <2>1, <2>2, <3>1 DEF TokenFits
  <2>4. CASE ~StillTheEntry(a)
    <3>1. Ends(a, Nobody)
      BY <2>1, <2>4
    <3>2. <<a, 1>> \in refused => ~(stored[a] \in Entry /\ stored[a].grant = 1)
      BY <2>2, <2>4 DEF StillTheEntry
    <3>3. QED
      BY <1>0, <1>1, <2>1, <3>1, <3>2 DEF TokenFits
  <2>5. QED
    BY <2>3, <2>4
<1>11. CASE Discards(a)
  <2>1. Ends(a, Nobody) /\ stored'[a] = Nobody /\ UNCHANGED refused
    BY <1>11, StoredClears DEF Discards
  <2>2. QED
    BY <1>0, <1>1, <2>1, Absences DEF TokenFits
<1>12. CASE StorageFails(a)
  <2>1. /\ Ends(a, Nobody) /\ UNCHANGED stored
        /\ refused' = refused \ {<<a, g>> : g \in 1..MaxGrants}
    BY <1>12 DEF StorageFails
  <2>2. <<a, 1>> \notin refused'
    BY <2>1, Bounds
  <2>3. QED
    BY <1>0, <1>1, <2>1, <2>2 DEF TokenFits
<1>13. QED
  BY <1>3, <1>4, <1>5, <1>6, <1>7, <1>8, <1>9, <1>10, <1>11, <1>12 DEF Renews

LEMMA TokensStep ==
    ASSUME AuthInv, TokensInv, [Next /\ Apart']_vars
    PROVE  TokensInv'
<1>1. CASE UNCHANGED vars
  BY <1>1 DEF vars, TokensInv, TokenFits, At
<1>2. ASSUME NEW a \in Accounts, Renews(a) PROVE TokensInv'
  <2>1. RenewalMoves(a)
    BY <1>2, RenewalEffects
  <2>2. TokenFits(a)' /\ \A g : <<a, g>> \in refused' => g = 1
    BY <1>2, TokenRenews
  <2>3. ASSUME NEW b \in Accounts, b # a PROVE TokenFits(b)'
    <3>1. /\ resolving'[b] = resolving[b] /\ stored'[b] = stored[b]
          /\ <<b, 1>> \in refused' <=> <<b, 1>> \in refused
      BY <2>1, <2>3 DEF RenewalMoves
    <3>2. QED
      BY <3>1 DEF TokensInv, TokenFits, At
  <2>4. \A c \in AuthCalls : ask'[c].pc \in KeepingPlaces => ask'[c].grant # 1
    BY <2>1 DEF RenewalMoves, TokensInv
  <2>5. \A b \in Accounts : \A g : <<b, g>> \in refused' => g = 1
    BY <2>1, <2>2 DEF RenewalMoves, TokensInv
  <2>6. QED
    BY <2>2, <2>3, <2>4, <2>5 DEF TokensInv
<1>3. ASSUME NEW c \in AuthCalls, Calls(c) PROVE TokensInv'
  <2>1. CallMoves(c)
    BY <1>3, CallEffects
  <2>2. grants + 1 # 1 /\ 0 # 1
    BY Bounds DEF AuthInv, PlainFits
  <2>3. \A d \in AuthCalls : ask'[d].pc \in KeepingPlaces => ask'[d].grant # 1
    BY <2>1, <2>2 DEF CallMoves, TokensInv
  <2>4. ASSUME NEW a \in Accounts PROVE TokenFits(a)'
    <3>1. /\ resolving'[a] = resolving[a] \/ (resolving[a] = Nobody /\ At(a, "reading")')
          /\ \/ stored'[a] = stored[a] \/ stored'[a] = Nobody
             \/ stored'[a] \in Entry => stored'[a].grant # 1 /\ stored'[a].endpoint # Nobody
          /\ refused' = refused
      BY <2>1 DEF CallMoves, TokensInv, KeepingPlaces
    <3>2. TokenFits(a)
      BY DEF TokensInv
    <3>3. CASE resolving'[a] = resolving[a]
      BY <3>1, <3>2, <3>3, Absences DEF TokenFits, At
    <3>4. CASE resolving[a] = Nobody /\ At(a, "reading")'
      BY <3>1, <3>2, <3>4, Absences DEF TokenFits, At
    <3>5. QED
      BY <3>1, <3>3, <3>4
  <2>5. QED
    BY <2>1, <2>3, <2>4 DEF TokensInv, CallMoves
<1>4. ASSUME NEW a \in Accounts, MovesEndpoint(a) \/ Expires(a) PROVE TokensInv'
  <2>1. UNCHANGED <<stored, resolving, refused, ask>>
    BY <1>4 DEF MovesEndpoint, Expires
  <2>2. QED
    BY <2>1 DEF TokensInv, TokenFits, At
<1>5. ASSUME NEW a \in Accounts, OtherWindow(a) PROVE TokensInv'
  <2>1. UNCHANGED <<resolving, refused, ask>>
    BY <1>5, Zenon DEF OtherWindow
  <2>2. /\ \A b \in Accounts : b # a => stored'[b] = stored[b]
        /\ stored'[a] \in Entry => stored'[a].grant = grants + 1 /\ stored'[a].endpoint # Nobody
    <3>1. \/ /\ grants < MaxGrants
             /\ \/ \E u \in People :
                     stored' = [stored EXCEPT ![a] =
                         ToStored(u, endpointOf[a], endpointOf[a], grants + 1)]
                \/ /\ stored[a] \in Entry
                   /\ stored' = [stored EXCEPT ![a] =
                         ToStored(stored[a].by, stored[a].at, stored[a].at, grants + 1)]
          \/ Clears(a)
      BY <1>5, Zenon DEF OtherWindow
    <3>2. grants < MaxGrants => grants + 1 \in 0..MaxGrants
      BY Bounds DEF AuthInv, PlainFits
    <3>3. endpointOf[a] \in Deployments
      BY DEF AuthInv, PlainFits
    <3>4. stored[a] \in Entry => stored[a].by \in People /\ stored[a].at \in Deployments
      BY DEF Entry
    <3>5. StoredFits
      BY DEF AuthInv
    <3>6. CASE Clears(a)
      BY <3>5, <3>6, StoredClears, Absences
    <3>7. ASSUME NEW u \in People, NEW d \in Deployments, grants < MaxGrants,
                 stored' = [stored EXCEPT ![a] = ToStored(u, d, d, grants + 1)]
          PROVE  /\ \A b \in Accounts : b # a => stored'[b] = stored[b]
                 /\ stored'[a] \in Entry =>
                      stored'[a].grant = grants + 1 /\ stored'[a].endpoint # Nobody
      <4>1. StoredBecomes(a, d, grants + 1)
        BY <3>2, <3>5, <3>7, StoredIs
      <4>2. QED
        BY <4>1, Absences DEF StoredBecomes
    <3>8. QED
      BY <3>1, <3>3, <3>4, <3>6, <3>7
  <2>3. grants + 1 # 1
    BY Bounds DEF AuthInv, PlainFits
  <2>4. ASSUME NEW b \in Accounts PROVE TokenFits(b)'
    BY <2>1, <2>2, <2>3 DEF TokensInv, TokenFits, At
  <2>5. QED
    BY <2>1, <2>4 DEF TokensInv
<1>6. QED
  BY <1>1, <1>2, <1>3, <1>4, <1>5 DEF Next

-----------------------------------------------------------------------------
(* Signing out, when no renewal and no sign-in of the profile is under way. *)
Undisturbed == "work under sign-out" \notin Meetings
SignedOutApart ==
    \A a \in Accounts : SigningOut(a) => resolving[a] = Nobody /\ ~SigningIn(a)

SignedOutInv ==
    /\ \A c \in AuthCalls :
         /\ ask[c].pc = "clearing" => live[ask[c].of] = Nobody
         /\ ask[c].pc \in {"identifying", "writing"} => ask[c].of \notin signedOut
    /\ \A a \in signedOut :
         live[a] = Nobody /\ stored[a] = Nobody /\ (resolving[a] = Nobody \/ At(a, "reading"))

LEMMA ApartThen == Undisturbed /\ Apart => SignedOutApart
BY Zenon DEF Undisturbed, Apart, SignedOutApart

LEMMA ApartBegins == AccountsInit => Apart
<1> SUFFICES ASSUME AccountsInit PROVE Apart
  OBVIOUS
<1>1. \A a \in Accounts : resolving[a] = Nobody
  BY DEF AccountsInit, Init
<1>2. \A c \in AuthCalls : ask[c].pc = "idle"
  BY IdleFits DEF AccountsInit, Init
<1>3. \A a \in Accounts : ~SigningIn(a) /\ ~SigningOut(a)
  BY <1>2 DEF SigningIn, SigningOut, CallsAt
<1>4. QED
  BY <1>1, <1>3, Zenon DEF Apart

LEMMA ApartStays == Apart /\ [Next /\ Apart']_vars => Apart'
<1>1. CASE UNCHANGED vars
  <2>1. UNCHANGED <<resolving, ask>>
    BY <1>1 DEF vars
  <2>2. QED
    BY <2>1, Zenon DEF Apart, SigningIn, SigningOut, CallsAt
<1>2. QED
  BY <1>1, Zenon

LEMMA SignedOutBegins == AccountsInit => SignedOutInv
<1> SUFFICES ASSUME AccountsInit PROVE SignedOutInv
  OBVIOUS
<1>1. signedOut = {} /\ \A c \in AuthCalls : ask[c].pc = "idle"
  BY IdleFits DEF AccountsInit, Init
<1>2. QED
  BY <1>1 DEF SignedOutInv

LEMMA SignedOutStep ==
    ASSUME AuthInv, SignedOutApart, SignedOutInv, [Next /\ Apart']_vars
    PROVE  SignedOutInv'
<1>0. \A c \in AuthCalls :
        /\ ask[c].pc = "clearing" =>
              /\ ask[c].of \in Accounts /\ SigningOut(ask[c].of)
              /\ resolving[ask[c].of] = Nobody
              /\ \A d \in AuthCalls : ask[d].pc \in SigningInPlaces => ask[d].of # ask[c].of
        /\ ask[c].pc \in {"identifying", "writing"} => ask[c].of \in Accounts
  <2> SUFFICES ASSUME NEW c \in AuthCalls
               PROVE  /\ ask[c].pc = "clearing" =>
                            /\ ask[c].of \in Accounts /\ SigningOut(ask[c].of)
                            /\ resolving[ask[c].of] = Nobody
                            /\ \A d \in AuthCalls :
                                 ask[d].pc \in SigningInPlaces => ask[d].of # ask[c].of
                      /\ ask[c].pc \in {"identifying", "writing"} => ask[c].of \in Accounts
    OBVIOUS
  <2>1. AskFits(ask[c])
    BY DEF AuthInv, CallsFit
  <2>2. ask[c].pc \in {"identifying", "writing"} => ask[c].of \in Accounts
    BY <2>1 DEF AskFits, SigningInPlaces
  <2>3. ASSUME ask[c].pc = "clearing"
        PROVE  /\ ask[c].of \in Accounts /\ SigningOut(ask[c].of)
               /\ resolving[ask[c].of] = Nobody
               /\ \A d \in AuthCalls : ask[d].pc \in SigningInPlaces => ask[d].of # ask[c].of
    <3>1. ask[c].of \in Accounts /\ SigningOut(ask[c].of)
      BY <2>1, <2>3 DEF AskFits, SigningOut, CallsAt
    <3>2. resolving[ask[c].of] = Nobody /\ ~SigningIn(ask[c].of)
      BY <3>1 DEF SignedOutApart
    <3>3. QED
      BY <3>1, <3>2 DEF SigningIn, CallsAt, SigningInPlaces
  <2>4. QED
    BY <2>2, <2>3
<1>1. CASE UNCHANGED vars
  BY <1>1 DEF vars, SignedOutInv, At
<1>2. ASSUME NEW a \in Accounts, Renews(a) PROVE SignedOutInv'
  <2>1. RenewalMoves(a)
    BY <1>2, RenewalEffects
  <2>2. ASSUME NEW c \in AuthCalls
        PROVE  /\ ask'[c].pc = "clearing" => live'[ask'[c].of] = Nobody
               /\ ask'[c].pc \in {"identifying", "writing"} => ask'[c].of \notin signedOut'
    <3>1. /\ ask'[c].pc = ask[c].pc /\ ask'[c].of = ask[c].of /\ signedOut' = signedOut
          /\ resolving[a] # Nobody
      BY <2>1 DEF RenewalMoves
    <3>2. ask[c].pc = "clearing" => ask[c].of \in Accounts /\ ask[c].of # a
      BY <1>0, <3>1
    <3>3. ask[c].pc = "clearing" => live'[ask[c].of] = live[ask[c].of]
      BY <2>1, <3>2 DEF RenewalMoves
    <3>4. QED
      BY <3>1, <3>3 DEF SignedOutInv
  <2>3. ASSUME NEW b \in signedOut'
        PROVE  /\ live'[b] = Nobody /\ stored'[b] = Nobody
               /\ resolving'[b] = Nobody \/ At(b, "reading")'
    <3>1. /\ b \in signedOut /\ b \in Accounts /\ live[b] = Nobody /\ stored[b] = Nobody
          /\ resolving[b] = Nobody \/ At(b, "reading")
      BY <2>1 DEF RenewalMoves, SignedOutInv, AuthInv, PlainFits
    <3>2. CASE b = a
      BY <2>1, <3>1, <3>2 DEF RenewalMoves
    <3>3. CASE b # a
      BY <2>1, <3>1, <3>3 DEF RenewalMoves, At
    <3>4. QED
      BY <3>2, <3>3
  <2>4. QED
    BY <2>2, <2>3 DEF SignedOutInv
<1>3. ASSUME NEW c \in AuthCalls, Calls(c) PROVE SignedOutInv'
  <2>1. CallMoves(c)
    BY <1>3, CallEffects
  <2>2. ASSUME NEW a \in Accounts, live[a] = Nobody, \A d \in AuthCalls :
                 ask[d].pc = "identifying" => ask[d].of # a
        PROVE  live'[a] = Nobody
    BY <2>1, <2>2 DEF CallMoves
  <2>3. ASSUME NEW d \in AuthCalls, ask'[d].pc = "clearing" PROVE live'[ask'[d].of] = Nobody
    <3>1. CASE d = c
      BY <2>1, <2>3, <3>1 DEF CallMoves
    <3>2. CASE d # c
      <4>1. ask'[d] = ask[d]
        BY <2>1, <3>2 DEF CallMoves
      <4>2. /\ ask[d].of \in Accounts /\ live[ask[d].of] = Nobody
            /\ \A e \in AuthCalls : ask[e].pc = "identifying" => ask[e].of # ask[d].of
        BY <1>0, <2>3, <4>1 DEF SignedOutInv, SigningInPlaces
      <4>3. QED
        BY <2>2, <4>1, <4>2
    <3>3. QED
      BY <3>1, <3>2
  <2>4. ASSUME NEW d \in AuthCalls, ask'[d].pc \in {"identifying", "writing"}
        PROVE  ask'[d].of \notin signedOut'
    <3>1. CASE d = c
      <4>1. /\ ask'[c].of = ask[c].of
            /\ \/ ask[c].pc = "identifying"
               \/ ask[c].pc = "keeping" /\ ask[c].of \notin signedOut'
        BY <2>1, <2>4, <3>1 DEF CallMoves
      <4>2. CASE ask[c].pc = "identifying"
        <5>1. signedOut' \subseteq signedOut
          BY <2>1, <4>2 DEF CallMoves
        <5>2. QED
          BY <3>1, <4>1, <4>2, <5>1 DEF SignedOutInv
      <4>3. QED
        BY <3>1, <4>1, <4>2
    <3>2. CASE d # c
      <4>1. ask'[d] = ask[d] /\ ask[d].of \notin signedOut
        BY <2>1, <2>4, <3>2 DEF CallMoves, SignedOutInv
      <4>2. ask[c].pc = "clearing" => ask[d].of # ask[c].of
        BY <1>0, <2>4, <4>1 DEF SigningInPlaces
      <4>3. QED
        BY <2>1, <4>1, <4>2 DEF CallMoves
    <3>3. QED
      BY <3>1, <3>2
  <2>5. ASSUME NEW b \in signedOut'
        PROVE  /\ live'[b] = Nobody /\ stored'[b] = Nobody
               /\ resolving'[b] = Nobody \/ At(b, "reading")'
    <3>1. CASE b \in signedOut
      <4>1. /\ b \in Accounts /\ live[b] = Nobody /\ stored[b] = Nobody
            /\ resolving[b] = Nobody \/ At(b, "reading")
        BY <3>1 DEF SignedOutInv, AuthInv, PlainFits
      <4>2. \A d \in AuthCalls : ask[d].pc \in {"identifying", "writing"} => ask[d].of # b
        BY <3>1 DEF SignedOutInv
      <4>3. live'[b] = Nobody
        BY <2>2, <4>1, <4>2
      <4>4. stored'[b] = Nobody
        BY <2>1, <2>5, <4>1, <4>2 DEF CallMoves
      <4>5. resolving'[b] = Nobody \/ At(b, "reading")'
        BY <2>1, <4>1 DEF CallMoves, At
      <4>6. QED
        BY <4>3, <4>4, <4>5
    <3>2. CASE b \notin signedOut
      <4>1. /\ ask[c].pc = "clearing" /\ b = ask[c].of /\ stored'[b] = Nobody
        BY <2>1, <2>5, <3>2 DEF CallMoves
      <4>2. /\ b \in Accounts /\ live[b] = Nobody /\ resolving[b] = Nobody
            /\ \A d \in AuthCalls : ask[d].pc = "identifying" => ask[d].of # b
        BY <1>0, <4>1 DEF SignedOutInv, SigningInPlaces
      <4>3. live'[b] = Nobody
        BY <2>2, <4>2
      <4>4. resolving'[b] = Nobody \/ At(b, "reading")'
        BY <2>1, <4>2 DEF CallMoves
      <4>5. QED
        BY <4>1, <4>3, <4>4
    <3>3. QED
      BY <3>1, <3>2
  <2>6. QED
    BY <2>3, <2>4, <2>5 DEF SignedOutInv
<1>4. ASSUME NEW a \in Accounts, MovesEndpoint(a) PROVE SignedOutInv'
  BY <1>4 DEF MovesEndpoint, SignedOutInv, At
<1>5. ASSUME NEW a \in Accounts, Expires(a) PROVE SignedOutInv'
  <2>1. /\ live[a] # Nobody /\ UNCHANGED <<stored, resolving, ask, signedOut>>
        /\ \A b \in Accounts : b # a => live'[b] = live[b]
    BY <1>5 DEF Expires, AuthInv, LiveFits
  <2>2. a \notin signedOut /\ signedOut \subseteq Accounts
    BY <2>1 DEF SignedOutInv, AuthInv, PlainFits
  <2>3. \A c \in AuthCalls : ask[c].pc = "clearing" => ask[c].of # a /\ ask[c].of \in Accounts
    BY <1>0, <2>1 DEF SignedOutInv
  <2>4. QED
    BY <2>1, <2>2, <2>3 DEF SignedOutInv, At
<1>6. ASSUME NEW a \in Accounts, OtherWindow(a) PROVE SignedOutInv'
  <2>1. UNCHANGED <<live, resolving, ask>>
    BY <1>6, Zenon DEF OtherWindow
  <2>2. \/ /\ \A b \in Accounts : b # a => stored'[b] = stored[b]
           /\ signedOut' = signedOut \ {a}
        \/ Clears(a) /\ signedOut' = signedOut
    <3>1. \/ /\ \E e : stored' = [stored EXCEPT ![a] = e]
             /\ signedOut' = signedOut \ {a}
          \/ Clears(a) /\ signedOut' = signedOut
      BY <1>6, Zenon DEF OtherWindow
    <3>2. QED
      BY <3>1 DEF AuthInv, StoredFits
  <2>3. Clears(a) => stored'[a] = Nobody /\ \A b \in Accounts : b # a => stored'[b] = stored[b]
    BY StoredClears DEF AuthInv
  <2>4. signedOut \subseteq Accounts
    BY DEF AuthInv, PlainFits
  <2>5. QED
    BY <2>1, <2>2, <2>3, <2>4 DEF SignedOutInv, At
<1>7. QED
  BY <1>1, <1>2, <1>3, <1>4, <1>5, <1>6 DEF Next

-----------------------------------------------------------------------------
(* Discarding an entry, when nobody else writes one after its second        *)
(* reading.                                                                *)
Guarded ==
    "renewal under sign-in" \notin Meetings /\ "window in the gap" \notin Meetings
RenewedApart == \A a \in Accounts : resolving[a] # Nobody => ~SigningIn(a)

GapInv ==
    \A a \in Accounts : At(a, "clearing") /\ stored[a] # Nobody =>
        stored[a] \in Entry /\ stored[a].grant = resolving[a].entry.grant

LEMMA GuardedThen == Guarded /\ Apart => RenewedApart
BY Zenon DEF Guarded, Apart, RenewedApart

LEMMA GapBegins == AccountsInit => GapInv
BY DEF AccountsInit, Init, GapInv, At

LEMMA GapStep ==
    ASSUME AuthInv, Guarded, RenewedApart, GapInv, [Next /\ Apart']_vars
    PROVE  GapInv'
<1>1. CASE UNCHANGED vars
  BY <1>1 DEF vars, GapInv, At
<1>2. ASSUME NEW a \in Accounts, Renews(a) PROVE GapInv'
  <2>1. RenewalMoves(a)
    BY <1>2, RenewalEffects
  <2>2. QED
    BY <2>1 DEF RenewalMoves, GapInv, At
<1>3. ASSUME NEW c \in AuthCalls, Calls(c) PROVE GapInv'
  <2>1. CallMoves(c)
    BY <1>3, CallEffects
  <2>2. SUFFICES ASSUME NEW a \in Accounts, At(a, "clearing")', stored'[a] # Nobody
                 PROVE  stored'[a] \in Entry /\ stored'[a].grant = resolving'[a].entry.grant
    BY DEF GapInv
  <2>3. resolving'[a] = resolving[a] /\ At(a, "clearing") /\ resolving[a] # Nobody
    BY <2>1, <2>2 DEF CallMoves, At
  <2>4. ask[c].pc \in {"keeping", "writing"} => ask[c].of # a
    BY <2>3 DEF RenewedApart, SigningIn, CallsAt
  <2>5. stored'[a] = stored[a]
    BY <2>1, <2>2, <2>4 DEF CallMoves
  <2>6. QED
    BY <2>2, <2>3, <2>5 DEF GapInv
<1>4. ASSUME NEW a \in Accounts, MovesEndpoint(a) \/ Expires(a) PROVE GapInv'
  BY <1>4 DEF MovesEndpoint, Expires, GapInv, At
<1>5. ASSUME NEW a \in Accounts, OtherWindow(a) PROVE GapInv'
  <2>1. UNCHANGED resolving /\ ~At(a, "clearing")
    BY <1>5, Zenon DEF OtherWindow, GapQuiet, Guarded
  <2>2. \A b \in Accounts : b # a => stored'[b] = stored[b]
    <3>1. \E e : stored' = [stored EXCEPT ![a] = e]
      BY <1>5, Zenon DEF OtherWindow, Clears
    <3>2. QED
      BY <3>1 DEF AuthInv, StoredFits
  <2>3. QED
    BY <2>1, <2>2 DEF GapInv, At
<1>6. QED
  BY <1>1, <1>2, <1>3, <1>4, <1>5 DEF Next

-----------------------------------------------------------------------------
LEMMA ProviderStep ==
    /\ AccountsInit => AuthInv /\ TokensInv
    /\ (AuthInv /\ TokensInv) /\ [AccountsNext]_accountsVars => (AuthInv /\ TokensInv)'
BY AuthBegins, TokensBegin, PartsStep, AuthStep, TokensStep

(* An account answers with sessions of the deployment its profile named    *)
(* when the caller asked, or when the renewal it joined began, and no      *)
(* refresh token is sent to a deployment it is known not to be of, or sent *)
(* again once it was refused (authProvider.ts): for any number of profiles *)
(* and callers, and whatever sign-ins, sign-outs, edits of the endpoint and *)
(* other windows meet the renewals.                                        *)
THEOREM SessionsFit == AccountsSpec => [](AnswerFits /\ TokensStayHome)
<1>1. AuthInv => AnswerFits
  BY DEF AuthInv, CallsFit, AskFits, AnswerFits
<1>2. AuthInv /\ TokensInv => TokensStayHome
  <2> SUFFICES ASSUME AuthInv, TokensInv, NEW a \in Accounts, At(a, "refreshing")
               PROVE  /\ resolving[a].entry.endpoint \in {Nobody, resolving[a].endpoint}
                      /\ <<a, resolving[a].entry.grant>> \notin refused
    BY DEF TokensStayHome
  <2>1. Stands(resolving[a]) /\ resolving[a].pc = "refreshing"
    BY Standing DEF AuthInv
  <2>2. <<a, resolving[a].entry.grant>> \in refused => resolving[a].entry.grant = 1
    BY DEF TokensInv
  <2>3. <<a, 1>> \in refused => resolving[a].entry.grant # 1
    BY DEF TokensInv, TokenFits
  <2>4. QED
    BY <2>1, <2>2, <2>3 DEF Stands
<1>3. QED
  BY <1>1, <1>2, ProviderStep, PTL DEF AccountsSpec

(* All of that, and after a sign-out nothing of the sign-in is left until  *)
(* someone signs in again, if no renewal and no sign-in of the profile is  *)
(* under way while it is signed out: the code does not wait for them.      *)
THEOREM SessionsHold ==
    ASSUME "work under sign-out" \notin Meetings
    PROVE  AccountsSpec => []SessionsAreOwn
<1>1. Undisturbed
  BY Zenon DEF Undisturbed
<1> DEFINE Inv == AuthInv /\ Apart /\ SignedOutInv
<1>2. AccountsInit => Inv
  BY AuthBegins, ApartBegins, SignedOutBegins
<1>3. Inv /\ [AccountsNext]_accountsVars => Inv'
  BY <1>1, PartsStep, AuthStep, ApartThen, ApartStays, SignedOutStep
<1>4. Inv => SignOutSticks
  BY DEF SignedOutInv, SignOutSticks
<1>5. AccountsSpec => []SignOutSticks
  BY <1>2, <1>3, <1>4, PTL DEF AccountsSpec
<1>6. AnswerFits /\ TokensStayHome /\ SignOutSticks <=> SessionsAreOwn
  BY DEF SessionsAreOwn
<1>7. QED
  BY <1>5, <1>6, SessionsFit, PTL

(* A renewal removes only the entry it has judged, if no sign-in of the    *)
(* profile is under way and no other window writes between the second      *)
(* reading and the removal: the secret storage cannot compare and clear.   *)
THEOREM DiscardsHold ==
    ASSUME "renewal under sign-in" \notin Meetings, "window in the gap" \notin Meetings
    PROVE  AccountsSpec => DiscardsOnlyJudged
<1>1. Guarded
  BY Zenon DEF Guarded
<1> DEFINE Inv == AuthInv /\ Apart /\ GapInv
<1>2. AccountsInit => Inv
  BY AuthBegins, ApartBegins, GapBegins
<1>3. Inv /\ [AccountsNext]_accountsVars => Inv'
  BY <1>1, PartsStep, AuthStep, GuardedThen, ApartStays, GapStep
<1>4. Inv => [\A a \in Accounts :
                 /\ At(a, "clearing")
                 /\ stored[a] # Nobody /\ stored'[a] = Nobody /\ resolving'[a] = Nobody
                 => stored[a].grant = resolving[a].entry.grant]_vars
  BY DEF GapInv
<1>5. QED
  BY <1>2, <1>3, <1>4, PTL DEF AccountsSpec, DiscardsOnlyJudged

(* Every variable of signing in has its type.                              *)
THEOREM AccountsTyped == AccountsSpec => []AccountsTypeOK
<1> DEFINE Inv == AuthInv /\ FlowInv /\ Fits(exchange)
<1>1. AccountsInit => Inv
  BY AuthBegins, FlowBegins, ExchangeBegins DEF AccountsInit
<1>2. Inv /\ [AccountsNext]_accountsVars => Inv'
  <2> SUFFICES ASSUME Inv, [AccountsNext]_accountsVars PROVE Inv'
    OBVIOUS
  <2>1. AuthInv' /\ FlowInv'
    BY PartsStep, AuthStep, FlowStep
  <2>2. Fits(exchange')
    BY PartsStep, ExchangeStep
  <2>3. Fits(exchange)'
    BY <2>2 DEF Fits
  <2>4. QED
    BY <2>1, <2>3
<1>3. Inv => AccountsTypeOK
  BY DEF AccountsTypeOK, TypeOK, FlowTypeOK, HttpTypeOK, AuthInv, PlainFits, StoredFits,
         LiveFits, RenewalsFit, CallsFit, FlowInv, Fits
<1>4. QED
  BY <1>1, <1>2, <1>3, PTL DEF AccountsSpec
=============================================================================

---------------------------- MODULE AuthProvider ----------------------------
(***************************************************************************)
(* The authentication provider of one window (src/auth/authProvider.ts):   *)
(* the sessions it holds in memory, the renewals in flight, and the stored *)
(* sign-ins of src/auth/sessionStore.ts, which every window shares.        *)
(*                                                                         *)
(* An invocation of getSessions, createSession or removeSession is a slot  *)
(* of Calls.  An action is what runs between two awaits.  Covered: answers *)
(* that come late or never, refused and failed renewals, edits of the      *)
(* endpoint, another window that signs in, renews or signs out.  Left out: *)
(* an untrusted folder, in which the three calls end at once, and how a    *)
(* token is encoded.                                                       *)
(***************************************************************************)
EXTENDS Naturals

CONSTANTS
    Accounts,       \* profile ids
    Deployments,    \* endpoints
    People,         \* users of the deployments
    AuthCalls,      \* slots for invocations
    Nobody,         \* "undefined"
    Unreadable,     \* a stored entry that does not parse
    Waits,          \* an answer that is still to come
    MaxGrants,      \* bound on the refresh tokens ever issued
    MaxMoves,       \* bound on the edits of a profile's endpoint
    Meetings        \* what may happen while something else is under way

ASSUME AuthAssumption ==
    /\ Nobody \notin Accounts \cup Deployments \cup People \cup AuthCalls
    /\ MaxGrants \in Nat \ {0}
    /\ MaxMoves \in Nat
    /\ Meetings \subseteq {"renewal under sign-in", "work under sign-out",
                           "other window", "window in the gap"}

VARIABLES
    endpointOf,   \* the endpoint in each profile's settings
    moves,        \* edits of an endpoint so far
    live,         \* ViyaAuthenticationProvider.live
    stored,       \* the entry of each profile in the secret storage
    grants,       \* refresh tokens issued so far; the next one's number
    resolving,    \* ViyaAuthenticationProvider.resolving
    published,    \* ViyaAuthenticationProvider.published
    ask,          \* the state of each invocation
    refused,      \* history: refresh tokens of unknown origin refused while
                  \* the storage has worked
    signedOut     \* history: profiles signed out and not signed in since

vars == <<endpointOf, moves, live, stored, grants, resolving, published, ask,
          refused, signedOut>>

-----------------------------------------------------------------------------
(* Values.  In a token, `by' and `at' are whose it is and who issued it:   *)
(* no code reads them, the deployments do.                                 *)

Session == [by : People, at : Deployments,
            user : People, endpoint : Deployments]
Held == [session : Session, spent : BOOLEAN]
Entry == [by : People, at : Deployments,
          endpoint : Deployments \cup {Nobody}, grant : 1 .. MaxGrants]

RenewalPlaces == {"reading", "unreadable", "refreshing", "identifying",
                  "writing", "judging", "clearing"}
Renewal == [pc : RenewalPlaces,
            endpoint : Deployments,             \* of the profile it was given
            entry : Entry \cup {Nobody},        \* what it read from the store
            session : Session \cup {Nobody}]

Answer == Session \cup {Nobody, Waits}
Places == {"idle", "browser", "keeping", "identifying", "writing",
           "clearing", "all", "done"}
Ask == [kind : {"get", "create", "remove"},
        pc : Places,
        of : Accounts \cup {Nobody},            \* the profile it is about
        endpoint : Deployments \cup {Nobody},   \* of that profile, as read
        user : People \cup {Nobody},
        grant : 0 .. MaxGrants,                 \* 0: no refresh token issued
        asked : [Accounts -> Deployments \cup {Nobody}],    \* history
        answer : [Accounts -> Answer]]

(* No record is taken for the absence of one.                              *)
ASSUME AbsenceAssumption ==
    /\ Nobody # Waits /\ Nobody # Unreadable
    /\ \A v \in {Nobody, Waits, Unreadable} :
         v \notin Session \cup Held \cup Entry \cup Renewal

NoAnswers == [a \in Accounts |-> Nobody]
IdleAsk == [kind |-> "get", pc |-> "idle", of |-> Nobody, endpoint |-> Nobody,
            user |-> Nobody, grant |-> 0, asked |-> NoAnswers,
            answer |-> NoAnswers]

(* The row of the Accounts menu.                                           *)
Summary(s) == IF s = Nobody THEN Nobody
              ELSE [user |-> s.user, endpoint |-> s.endpoint]
Row == [user : People, endpoint : Deployments] \cup {Nobody}

(* The user the deployment names for a token.                              *)
WhoIs(by, at, endpoint) == [by |-> by, at |-> at, user |-> by,
                            endpoint |-> endpoint]

(* Fault: a grant without a refresh token is written as an empty entry.    *)
ToStoredEmpty(by, at, endpoint, grant) ==
    [by |-> by, at |-> at, endpoint |-> endpoint, grant |-> grant]

(* The stored entry after SessionStore.write: toStoredSession keeps nothing  *)
(* of a grant without a refresh token, and write then clears the entry.    *)
ToStored(by, at, endpoint, grant) ==
    IF grant = 0 THEN Nobody
    ELSE [by |-> by, at |-> at, endpoint |-> endpoint, grant |-> grant]

At(a, pc) == resolving[a] # Nobody /\ resolving[a].pc = pc
CallsAt(places) == {c \in AuthCalls : ask[c].pc \in places}
SigningIn(a) == \E c \in CallsAt({"browser", "keeping", "identifying", "writing"}) :
                    ask[c].of = a
SigningOut(a) == \E c \in CallsAt({"clearing"}) : ask[c].of = a

(* The assumptions that Meetings lifts: renewals, sign-ins and sign-outs of *)
(* one profile do not overlap, and no other window writes an entry between *)
(* its second reading here and its removal.                                *)
Apart ==
    \A a \in Accounts :
        /\ resolving[a] # Nobody /\ SigningIn(a)
               => "renewal under sign-in" \in Meetings
        /\ SigningOut(a) /\ (resolving[a] # Nobody \/ SigningIn(a))
               => "work under sign-out" \in Meetings
GapQuiet(a) ==
    At(a, "clearing") \/ At(a, "unreadable") => "window in the gap" \in Meetings

-----------------------------------------------------------------------------
Init ==
    /\ endpointOf \in [Accounts -> Deployments]
    /\ moves = 0
    /\ live = [a \in Accounts |-> Nobody]
    /\ stored \in [Accounts -> {Nobody, Unreadable} \cup
                     {e \in Entry : e.grant = 1 /\ e.endpoint \in {e.at, Nobody}}]
    /\ grants = 1
    /\ resolving = [a \in Accounts |-> Nobody]
    /\ published = [a \in Accounts |-> Nobody]
    /\ ask = [c \in AuthCalls |-> IdleAsk]
    /\ refused = {}
    /\ signedOut = {}

-----------------------------------------------------------------------------
(* Every session of the window: allSessions                                *)

Moved(a) == live[a] # Nobody /\ live[a].session.endpoint # endpointOf[a]
(* Fault: the copy in memory is not held against the profile's endpoint.   *)
ServesMoved(a) == live[a] # Nobody /\ ~live[a].spent

Serves(a) == live[a] # Nobody /\ ~Moved(a) /\ ~live[a].spent

(* A profile is answered from memory, joins the renewal in flight for it,  *)
(* or starts one; the start is resolve() up to its first await.            *)
Starts(a) == resolving[a] = Nobody /\ ~Serves(a)
BeginAll(c, kind, of) ==
    /\ live' = [a \in Accounts |-> IF Starts(a) /\ Moved(a) THEN Nobody
                                                           ELSE live[a]]
    /\ resolving' = [a \in Accounts |->
           IF Starts(a) THEN [pc |-> "reading", endpoint |-> endpointOf[a],
                              entry |-> Nobody, session |-> Nobody]
                        ELSE resolving[a]]
    /\ ask' = [ask EXCEPT ![c] =
           [IdleAsk EXCEPT
               !.kind = kind, !.pc = "all", !.of = of,
               !.asked = [a \in Accounts |->
                   IF resolving[a] = Nobody THEN endpointOf[a]
                                            ELSE resolving[a].endpoint],
               !.answer = [a \in Accounts |->
                   IF resolving[a] # Nobody \/ Starts(a) THEN Waits
                                                         ELSE live[a].session]]]

(* `of' is the profile of the account the caller named, if it named one.   *)
GetSessions(c) ==
    /\ ask[c].pc = "idle"
    /\ \E of \in Accounts \cup {Nobody} : BeginAll(c, "get", of)
    /\ UNCHANGED <<endpointOf, moves, stored, grants, published, refused,
                   signedOut>>

(* Fault: only a poll is held to the budget, not a sign-in or a sign-out.  *)
BoundedPoll(c, a) == ask[c].kind = "get" /\ ask[c].of = Nobody /\ a = a

(* within: the budget of a profile that was not named is spent.            *)
Bounded(c, a) == ask[c].kind # "get" \/ ask[c].of # a

GiveUp(c, a) ==
    /\ ask[c].pc = "all" /\ ask[c].answer[a] = Waits
    /\ Bounded(c, a)
    /\ ask' = [ask EXCEPT ![c].answer[a] = Nobody]
    /\ UNCHANGED <<endpointOf, moves, live, stored, grants, resolving,
                   published, refused, signedOut>>

Publish(c) ==
    /\ ask[c].pc = "all"
    /\ \A a \in Accounts : ask[c].answer[a] # Waits
    /\ published' = [a \in Accounts |-> Summary(ask[c].answer[a])]
    /\ ask' = [ask EXCEPT ![c] = [IdleAsk EXCEPT !.pc = "done"]]
    /\ UNCHANGED <<endpointOf, moves, live, stored, grants, resolving,
                   refused, signedOut>>

-----------------------------------------------------------------------------
(* A renewal: resolve, establish, discardMoved, forgetRefused              *)

Goes(a, pc) == resolving' = [resolving EXCEPT ![a].pc = pc]

(* Every call that waits for the renewal has its answer at once, and the   *)
(* next call starts another.                                               *)
Ends(a, session) ==
    /\ resolving' = [resolving EXCEPT ![a] = Nobody]
    /\ ask' = [c \in AuthCalls |->
           IF ask[c].pc = "all" /\ ask[c].answer[a] = Waits
           THEN [ask[c] EXCEPT !.answer[a] = session] ELSE ask[c]]

Forgets(a) == live' = [live EXCEPT ![a] = Nobody]
Clears(a) == stored' = [stored EXCEPT ![a] = Nobody]
Keeps(a, session) == live' = [live EXCEPT ![a] = [session |-> session,
                                                  spent |-> FALSE]]

(* The entry was issued by another deployment than the profile's.          *)
Foreign(entry, endpoint) == entry.endpoint \notin {Nobody, endpoint}

ReadsEntry(a) ==
    /\ At(a, "reading")
    /\ CASE stored[a] = Unreadable ->
              Goes(a, "unreadable") /\ UNCHANGED <<live, ask>>
         [] stored[a] = Nobody ->
              Forgets(a) /\ Ends(a, Nobody)
         [] stored[a] \in Entry ->
              LET foreign == Foreign(stored[a], resolving[a].endpoint) IN
              /\ resolving' = [resolving EXCEPT
                     ![a].entry = stored[a],
                     ![a].pc = IF foreign THEN "judging" ELSE "refreshing"]
              /\ live' = IF foreign THEN [live EXCEPT ![a] = Nobody] ELSE live
              /\ UNCHANGED ask
    /\ UNCHANGED <<endpointOf, moves, stored, grants, published, refused,
                   signedOut>>

(* SessionStore.read has cleared an entry it cannot parse.                 *)
DropsUnreadable(a) ==
    /\ At(a, "unreadable")
    /\ Clears(a) /\ Forgets(a) /\ Ends(a, Nobody)
    /\ UNCHANGED <<endpointOf, moves, grants, published, refused, signedOut>>

(* The token endpoint: a deployment takes the tokens it issued, and may or *)
(* may not answer with a new refresh token; submit keeps the old one then. *)
Takes(r) == r.entry.at = r.endpoint
Rotations(r) == {r.entry.grant} \cup (IF grants < MaxGrants THEN {grants + 1}
                                                            ELSE {})

(* establish for a renewed token: the user already in memory is not asked  *)
(* for again, provided the deployment is the same.                         *)
Cached(a) == live[a] # Nobody /\ live[a].session.endpoint = resolving[a].endpoint

Refreshed(a) ==
    /\ At(a, "refreshing")
    /\ LET r == resolving[a]
           s == WhoIs(r.entry.by, r.entry.at, r.endpoint)
           known == [s EXCEPT !.user = live[a].session.user]
       IN /\ Takes(r)
          /\ \E grant \in Rotations(r) :
               /\ grants' = IF grant > grants THEN grant ELSE grants
               /\ IF Cached(a)
                  THEN /\ Keeps(a, known)
                       /\ resolving' = [resolving EXCEPT
                              ![a].pc = "writing", ![a].session = known,
                              ![a].entry.grant = grant]
                  ELSE /\ resolving' = [resolving EXCEPT
                              ![a].pc = "identifying", ![a].session = s,
                              ![a].entry.grant = grant]
                       /\ UNCHANGED live
    /\ UNCHANGED <<endpointOf, moves, stored, published, ask, refused, signedOut>>

(* Fault: a refused entry is left in place.                                *)
UnownedNever(entry) == FALSE

(* A refusal of a token that does not say who issued it ends its entry: it *)
(* could be the former deployment's, and would be sent at every poll.      *)
Unowned(entry) == entry.endpoint = Nobody

RefreshFails(a) ==
    /\ At(a, "refreshing")
    /\ Forgets(a)
    /\ \E isRefusal \in BOOLEAN :
         LET entry == resolving[a].entry IN
         /\ refused' = IF isRefusal /\ entry.endpoint = Nobody
                       THEN refused \cup {<<a, entry.grant>>} ELSE refused
         /\ IF isRefusal /\ Unowned(entry)
            THEN Goes(a, "judging") /\ UNCHANGED ask
            ELSE Ends(a, Nobody)
    /\ UNCHANGED <<endpointOf, moves, stored, grants, published, signedOut>>

Identified(a) ==
    /\ At(a, "identifying")
    /\ Keeps(a, resolving[a].session) /\ Goes(a, "writing")
    /\ UNCHANGED <<endpointOf, moves, stored, grants, published, ask, refused,
                   signedOut>>

NotIdentified(a) ==
    /\ At(a, "identifying")
    /\ Ends(a, Nobody)
    /\ UNCHANGED <<endpointOf, moves, live, stored, grants, published, refused,
                   signedOut>>

Written(a) ==
    /\ At(a, "writing")
    /\ LET r == resolving[a] IN
       /\ stored' = [stored EXCEPT ![a] =
              ToStored(r.entry.by, r.entry.at, r.endpoint, r.entry.grant)]
       /\ Ends(a, r.session)
    /\ UNCHANGED <<endpointOf, moves, live, grants, published, refused, signedOut>>

(* Fault: whatever is there now is taken for what was read.                *)
StillAnEntry(a) == stored[a] \in Entry

(* The entry is read again: another window may have put a newer one there. *)
StillTheEntry(a) ==
    /\ stored[a] \in Entry
    /\ stored[a].grant = resolving[a].entry.grant

Judges(a) ==
    /\ At(a, "judging")
    /\ IF StillTheEntry(a) THEN Goes(a, "clearing") /\ UNCHANGED ask
                           ELSE Ends(a, Nobody)
    /\ UNCHANGED <<endpointOf, moves, live, stored, grants, published, refused,
                   signedOut>>

Discards(a) ==
    /\ At(a, "clearing")
    /\ Clears(a) /\ Ends(a, Nobody)
    /\ UNCHANGED <<endpointOf, moves, live, grants, published, refused, signedOut>>

(* resolveOnce: the secret storage throws; the profile is left out.        *)
StorageFails(a) ==
    /\ \E pc \in {"reading", "unreadable", "judging", "clearing", "writing"} :
         At(a, pc)
    /\ Ends(a, Nobody)
    /\ refused' = refused \ {<<a, g>> : g \in 1 .. MaxGrants}
    /\ UNCHANGED <<endpointOf, moves, live, stored, grants, published, signedOut>>

Renews(a) ==
    \/ ReadsEntry(a) \/ DropsUnreadable(a)
    \/ Refreshed(a) \/ RefreshFails(a)
    \/ Identified(a) \/ NotIdentified(a) \/ Written(a)
    \/ Judges(a) \/ Discards(a) \/ StorageFails(a)

-----------------------------------------------------------------------------
(* createSession and removeSession, from the commands of src/auth/commands *)

Settles(c, pc) == ask' = [ask EXCEPT ![c].pc = pc]
Fails(c) == ask' = [ask EXCEPT ![c] = [IdleAsk EXCEPT !.pc = "done"]]

CreateSession(c, a) ==
    /\ ask[c].pc = "idle"
    /\ ask' = [ask EXCEPT ![c] = [IdleAsk EXCEPT
           !.kind = "create", !.pc = "browser", !.of = a,
           !.endpoint = endpointOf[a]]]
    /\ UNCHANGED <<endpointOf, moves, live, stored, grants, resolving,
                   published, refused, signedOut>>

(* signInWithBrowser has exchanged a code, for whoever the user chose to   *)
(* be; the deployment may be one that issues no refresh tokens.            *)
SignedIn(c) ==
    /\ ask[c].pc = "browser" /\ grants < MaxGrants
    /\ \E u \in People, grant \in {0, grants + 1} :
         /\ ask' = [ask EXCEPT ![c].pc = "keeping", ![c].user = u,
                               ![c].grant = grant]
         /\ grants' = IF grant = 0 THEN grants ELSE grant
    /\ UNCHANGED <<endpointOf, moves, live, stored, resolving, published,
                   refused, signedOut>>

(* A sign-in that was cancelled, or failed before there were tokens.       *)
NotSignedIn(c) ==
    /\ ask[c].pc = "browser"
    /\ Fails(c)
    /\ UNCHANGED <<endpointOf, moves, live, stored, grants, resolving,
                   published, refused, signedOut>>

KeepsGrant(c) ==
    stored' = [stored EXCEPT ![ask[c].of] =
        ToStored(ask[c].user, ask[c].endpoint, ask[c].endpoint, ask[c].grant)]

(* The last step of signInWithBrowser.                                     *)
Kept(c) ==
    /\ ask[c].pc = "keeping"
    /\ KeepsGrant(c)
    /\ Settles(c, "identifying")
    /\ signedOut' = signedOut \ {ask[c].of}
    /\ UNCHANGED <<endpointOf, moves, live, grants, resolving, published,
                   refused>>

(* establish for a new sign-in: the user is always asked for.              *)
Named(c) ==
    /\ ask[c].pc = "identifying"
    /\ Keeps(ask[c].of, WhoIs(ask[c].user, ask[c].endpoint, ask[c].endpoint))
    /\ Settles(c, "writing")
    /\ UNCHANGED <<endpointOf, moves, stored, grants, resolving, published,
                   refused, signedOut>>

NotNamed(c) ==
    /\ ask[c].pc = "identifying"
    /\ Fails(c)
    /\ UNCHANGED <<endpointOf, moves, live, stored, grants, resolving,
                   published, refused, signedOut>>

Established(c) ==
    /\ ask[c].pc = "writing"
    /\ KeepsGrant(c)
    /\ BeginAll(c, "create", ask[c].of)
    /\ UNCHANGED <<endpointOf, moves, grants, published, refused, signedOut>>

(* Fault: the copy in memory outlives the stored entry.                    *)
RemoveSessionStoredOnly(c, a) ==
    /\ ask[c].pc = "idle"
    /\ ask' = [ask EXCEPT ![c] = [IdleAsk EXCEPT
           !.kind = "remove", !.pc = "clearing", !.of = a]]
    /\ UNCHANGED <<endpointOf, moves, live, stored, grants, resolving,
                   published, refused, signedOut>>

(* signOut disconnects first, while there is still a token to do it with;  *)
(* SessionManager has the disconnect.                                      *)
RemoveSession(c, a) ==
    /\ ask[c].pc = "idle"
    /\ Forgets(a)
    /\ ask' = [ask EXCEPT ![c] = [IdleAsk EXCEPT
           !.kind = "remove", !.pc = "clearing", !.of = a]]
    /\ UNCHANGED <<endpointOf, moves, stored, grants, resolving, published,
                   refused, signedOut>>

Cleared(c) ==
    /\ ask[c].pc = "clearing"
    /\ Clears(ask[c].of)
    /\ BeginAll(c, "remove", ask[c].of)
    /\ signedOut' = signedOut \cup {ask[c].of}
    /\ UNCHANGED <<endpointOf, moves, grants, published, refused>>

Calls(c) ==
    \/ GetSessions(c)
    \/ \E a \in Accounts : GiveUp(c, a) \/ CreateSession(c, a) \/ RemoveSession(c, a)
    \/ Publish(c)
    \/ SignedIn(c) \/ NotSignedIn(c) \/ Kept(c) \/ Named(c) \/ NotNamed(c)
    \/ Established(c) \/ Cleared(c)

-----------------------------------------------------------------------------
(* The surroundings                                                        *)

MovesEndpoint(a) ==
    /\ moves < MaxMoves
    /\ \E d \in Deployments \ {endpointOf[a]} :
         endpointOf' = [endpointOf EXCEPT ![a] = d]
    /\ moves' = moves + 1
    /\ UNCHANGED <<live, stored, grants, resolving, published, ask, refused,
                   signedOut>>

(* needsRefresh: the access token is within the skew of its expiry.        *)
Expires(a) ==
    /\ live[a] # Nobody /\ ~live[a].spent
    /\ live' = [live EXCEPT ![a].spent = TRUE]
    /\ UNCHANGED <<endpointOf, moves, stored, grants, resolving, published,
                   ask, refused, signedOut>>

(* Another window signs in on the profile's endpoint, renews the entry, or *)
(* signs out.                                                              *)
OtherWindow(a) ==
    /\ "other window" \in Meetings /\ GapQuiet(a)
    /\ \/ /\ grants < MaxGrants
          /\ grants' = grants + 1
          /\ \/ \E u \in People :
                  stored' = [stored EXCEPT ![a] =
                      ToStored(u, endpointOf[a], endpointOf[a], grants + 1)]
             \/ /\ stored[a] \in Entry /\ stored[a].at = endpointOf[a]
                /\ ~Foreign(stored[a], endpointOf[a])
                /\ stored' = [stored EXCEPT ![a] =
                      ToStored(stored[a].by, stored[a].at, stored[a].at, grants + 1)]
          /\ signedOut' = signedOut \ {a}
       \/ /\ stored[a] # Nobody
          /\ Clears(a)
          /\ UNCHANGED <<grants, signedOut>>
    /\ UNCHANGED <<endpointOf, moves, live, resolving, published, ask, refused>>

Next ==
    \/ \E c \in AuthCalls : Calls(c)
    \/ \E a \in Accounts :
         Renews(a) \/ MovesEndpoint(a) \/ Expires(a) \/ OtherWindow(a)

Spec == Init /\ [][Next /\ Apart']_vars

(* Only timers and continuations are asked to be fair: a renewal may hang. *)
Fairness ==
    \A c \in AuthCalls :
        WF_vars((Publish(c) \/ \E a \in Accounts : GiveUp(c, a)) /\ Apart')

FairSpec == Spec /\ Fairness
-----------------------------------------------------------------------------
(* Properties                                                              *)

(* Every variable has its type.                                            *)
TypeOK ==
    /\ endpointOf \in [Accounts -> Deployments]
    /\ moves \in 0 .. MaxMoves
    /\ live \in [Accounts -> Held \cup {Nobody}]
    /\ stored \in [Accounts -> Entry \cup {Nobody, Unreadable}]
    /\ grants \in 1 .. MaxGrants
    /\ resolving \in [Accounts -> Renewal \cup {Nobody}]
    /\ published \in [Accounts -> Row]
    /\ ask \in [AuthCalls -> Ask]
    /\ refused \subseteq Accounts \X (1 .. MaxGrants)
    /\ signedOut \subseteq Accounts

(* A caller is given a session of the deployment the profile named when    *)
(* the caller asked, or when the renewal it joined began, with a token of  *)
(* that deployment: the endpoint may be edited at any time under the       *)
(* caches, which are keyed on the profile (#250).                          *)
AnswerFits ==
    \A c \in AuthCalls, a \in Accounts :
        ask[c].answer[a] \in Session =>
            /\ ask[c].answer[a].endpoint = ask[c].asked[a]
            /\ ask[c].answer[a].at = ask[c].asked[a]

(* No refresh token known to be another deployment's is sent to this one,  *)
(* and one of unknown origin that was refused is not sent again.           *)
TokensStayHome ==
    \A a \in Accounts :
        At(a, "refreshing") =>
            /\ resolving[a].entry.endpoint \in {Nobody, resolving[a].endpoint}
            /\ <<a, resolving[a].entry.grant>> \notin refused

(* The session a window holds, and each one it renews, names the user its  *)
(* token belongs to: "a wrong name against a real credential, which is     *)
(* worse than no name at all".                                             *)
NamedForToken ==
    \A a \in Accounts : live[a] # Nobody => live[a].session.user = live[a].session.by

(* After a sign-out nothing of the sign-in is left, in memory or stored,   *)
(* until someone signs in again.                                           *)
SignOutSticks ==
    \A a \in signedOut : live[a] = Nobody /\ stored[a] = Nobody

(* A renewal removes only the entry it judged, never one that another      *)
(* window has put in its place since.                                      *)
DiscardsOnlyJudged ==
    [][\A a \in Accounts :
         /\ At(a, "clearing")
         /\ stored[a] # Nobody /\ stored'[a] = Nobody /\ resolving'[a] = Nobody
         => stored[a].grant = resolving[a].entry.grant]_vars

(* Drawing the Accounts menu ends, and so do a sign-in and a sign-out that *)
(* redraw it, even when a deployment never answers a renewal.  Only a call *)
(* that names an account waits for that account's renewal.                 *)
CallsSettle ==
    \A c \in AuthCalls :
        ask[c].pc = "all" /\ (ask[c].kind # "get" \/ ask[c].of = Nobody)
            ~> ask[c].pc = "done"
=============================================================================

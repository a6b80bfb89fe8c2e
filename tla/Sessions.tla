------------------------------ MODULE Sessions ------------------------------
(***************************************************************************)
(* Login challenges, session tokens and WebSocket tickets of one user       *)
(* (sessions.py, api/auth.py), and how long the user's sockets outlive them *)
(* (the authentication of api/inbox.py).                                    *)
(*                                                                          *)
(* Every await on Redis is a step, so that requests interleave there.  The  *)
(* unit of time is days; a request takes far less, so time passes between   *)
(* requests only.  Challenges and tickets live for seconds.                 *)
(***************************************************************************)
EXTENDS Integers, FiniteSets

CONSTANTS
    New,            \* tokens that logins will generate
    Legacy,         \* tokens stored in plain by the first version
    Bare,           \* tokens stored hashed, before values had a created_at
    Challenges, Tickets, Handlers, Sockets,
    Ttl,            \* SESSION_TTL_SECONDS, in units of time
    Abs,            \* SESSION_ABSOLUTE_MAX_SECONDS
    MaxRequests,    \* bound: requests that present a token
    MaxFaults       \* bound: failed calls, lost publications, dead handlers

Tokens == New \cup Legacy \cup Bare
IndexTtl == Abs + 1         \* TTL of the reverse index: a day above the ceiling
Forever  == IndexTtl + 1    \* a key that SADD made and EXPIRE has not seen yet

ASSUME SessionSets ==
    /\ New \cap (Legacy \cup Bare) = {} /\ Legacy \cap Bare = {}
    /\ IsFiniteSet(Tokens)
ASSUME SessionNumbers ==
    /\ Ttl \in Nat \ {0} /\ Abs \in Nat /\ Ttl <= Abs
    /\ MaxRequests \in Nat /\ MaxFaults \in Nat

VARIABLES
    key,        \* key[t]: how the session key of t is stored, if it is
    left,       \* left[t]: its TTL
    age,        \* age[t]: time since created_at
    index,      \* morok:user_sessions: <<form, token>>
    indexLeft,  \* its TTL
    chal, tickets,  \* outstanding challenges and tickets
    h,          \* h[p]: a request being served
    sock,       \* sock[s]: a WebSocket
    requests, faults,
    issued,     \* history: tokens drawn by logins
    given,      \* history: tokens clients hold
    drawn,      \* history: challenges and tickets generated
    overdue,    \* history: tokens accepted above the ceiling
    killed,     \* history: tokens revoked
    orphaned    \* history: sessions whose index entry a revocation dropped

store   == <<key, left, age>>
reverse == <<index, indexLeft>>
once    == <<chal, tickets>>
history == <<issued, given, drawn, overdue, killed, orphaned>>
vars == <<store, reverse, once, h, sock, requests, faults, history>>

Idle   == [pc |-> "idle", tok |-> "none", goal |-> "none", list |-> {}]
Fresh  == [pc |-> "new", tok |-> "none", evt |-> FALSE]
Closed == [pc |-> "closed", tok |-> "none", evt |-> FALSE]
Form(t) == IF key[t] = "raw" THEN "raw" ELSE "digest"
Stored(t) == key[t] # "none"
Goals == {"ticket", "socket", "logout", "revoke_all"}

(* Requests that arrive take the first free place.                          *)
Free(p) == h[p] = Idle /\ p = CHOOSE q \in Handlers : h[q] = Idle

Init ==
    /\ key = [t \in Tokens |-> CASE t \in Legacy -> "raw" [] t \in Bare -> "bare"
                                 [] OTHER -> "none"]
    /\ left = [t \in Tokens |-> IF t \in New THEN 0 ELSE Ttl]
    /\ age = [t \in Tokens |-> 0]
    /\ index = ({"raw"} \X Legacy) \cup ({"digest"} \X Bare)
    /\ indexLeft = IF index = {} THEN 0 ELSE Ttl + 1
    /\ chal = {} /\ tickets = {}
    /\ h = [p \in Handlers |-> Idle] /\ sock = [s \in Sockets |-> Fresh]
    /\ requests = 0 /\ faults = 0 /\ issued = {} /\ given = Legacy \cup Bare
    /\ drawn = {}
    /\ overdue = {} /\ killed = {} /\ orphaned = {}

----------------------------------------------------------------------------
(* Logging in.                                                              *)

RequestChallenge(c) ==
    /\ c \notin drawn /\ drawn' = drawn \cup {c} /\ chal' = chal \cup {c}
    /\ UNCHANGED <<store, reverse, tickets, h, sock, requests, faults, issued, given,
                   overdue, killed, orphaned>>

(* consume_challenge: GET and DEL in one transaction.                       *)
VerifyChallenge(p, c) ==
    /\ Free(p) /\ c \in chal /\ chal' = chal \ {c}
    /\ \E t \in New \ issued :
         /\ issued' = issued \cup {t}
         /\ h' = [h EXCEPT ![p] = [Idle EXCEPT !.pc = "setex", !.tok = t]]
    /\ UNCHANGED <<store, reverse, tickets, sock, requests, faults, given, drawn, overdue,
                   killed, orphaned>>

(* create_session: SETEX, SADD, EXPIRE.                                     *)
At(p, pc) == h[p].pc = pc
Goto(p, pc) == h' = [h EXCEPT ![p].pc = pc]
Finish(p) == h' = [h EXCEPT ![p] = Idle]
AddTo(entry) ==
    /\ index' = index \cup {entry}
    /\ indexLeft' = IF index = {} THEN Forever ELSE indexLeft

CreateForward(p) ==
    /\ At(p, "setex") /\ Goto(p, "sadd")
    /\ key' = [key EXCEPT ![h[p].tok] = "dated"]
    /\ left' = [left EXCEPT ![h[p].tok] = Ttl]
    /\ age' = [age EXCEPT ![h[p].tok] = 0]
    /\ UNCHANGED <<reverse, once, sock, requests, faults, history>>

CreateReverse(p) ==
    /\ At(p, "sadd") /\ Goto(p, "expire") /\ AddTo(<<"digest", h[p].tok>>)
    /\ UNCHANGED <<store, once, sock, requests, faults, history>>

CreateExpire(p) ==
    /\ At(p, "expire") /\ Finish(p)
    /\ indexLeft' = IF index = {} THEN 0 ELSE IndexTtl
    /\ given' = given \cup {h[p].tok}
    /\ UNCHANGED <<store, index, once, sock, requests, faults, issued, drawn, overdue, killed,
                   orphaned>>

----------------------------------------------------------------------------
(* verify_session_token, for a request with a goal.                         *)

Request(p, t, goal) ==
    /\ Free(p) /\ t \in given
    /\ requests < MaxRequests /\ requests' = requests + 1
    /\ h' = [h EXCEPT ![p] = [Idle EXCEPT !.pc = "get", !.tok = t, !.goal = goal]]
    /\ UNCHANGED <<store, reverse, once, sock, faults, history>>

(* Only a value with a created_at has a ceiling.                            *)
TooOldNever(t) == FALSE                 \* faulty variant: the window only slides
TooOld(t) == key[t] = "dated" /\ age[t] > Abs

VerifyGet(p) ==
    LET t == h[p].tok
    IN  /\ At(p, "get")
        /\ Goto(p, CASE key[t] \in {"none", "raw"} -> "getraw"
                     [] TooOld(t) -> "cap" [] OTHER -> "slide")
        /\ UNCHANGED <<store, reverse, once, sock, requests, faults, history>>

VerifyGetRaw(p) ==
    /\ At(p, "getraw")
    /\ IF key[h[p].tok] = "raw" THEN Goto(p, "migrate") ELSE Finish(p)
    /\ UNCHANGED <<store, reverse, once, sock, requests, faults, history>>

(* The migration is one transaction and does not look at the old key again. *)
VerifyMigrate(p) ==
    LET t == h[p].tok
    IN  /\ At(p, "migrate") /\ Goto(p, "slide")
        /\ key' = [key EXCEPT ![t] = "dated"]
        /\ left' = [left EXCEPT ![t] = Ttl] /\ age' = [age EXCEPT ![t] = 0]
        /\ index' = (index \ {<<"raw", t>>}) \cup {<<"digest", t>>}
        /\ indexLeft' = IF index \subseteq {<<"raw", t>>} THEN Forever ELSE indexLeft
        /\ UNCHANGED <<once, sock, requests, faults, history>>

(* Above the ceiling: DEL, SREM, 401.                                       *)
DropKey(t) ==
    /\ key' = [key EXCEPT ![t] = "none"] /\ left' = [left EXCEPT ![t] = 0]
    /\ age' = [age EXCEPT ![t] = 0]
DropEntries(es) ==
    /\ index' = index \ es
    /\ indexLeft' = IF index \subseteq es THEN 0 ELSE indexLeft

VerifyCap(p) ==
    /\ At(p, "cap") /\ Goto(p, "capix") /\ DropKey(h[p].tok)
    /\ UNCHANGED <<reverse, once, sock, requests, faults, history>>
VerifyCapIndex(p) ==
    /\ At(p, "capix") /\ Finish(p) /\ DropEntries({<<"digest", h[p].tok>>})
    /\ UNCHANGED <<store, once, sock, requests, faults, history>>

(* The sliding window: EXPIRE does nothing to a key that has gone.          *)
SlideBlind(t) ==                        \* faulty variant: a TTL without a key
    left' = [left EXCEPT ![t] = Ttl] /\ UNCHANGED key
SlideSetex(t) ==                        \* faulty variant: SETEX in its place
    left' = [left EXCEPT ![t] = Ttl] /\ key' = [key EXCEPT ![t] = "dated"]
Slide(t) ==
    left' = [left EXCEPT ![t] = IF Stored(t) THEN Ttl ELSE 0] /\ UNCHANGED key
VerifySlide(p) ==
    /\ At(p, "slide") /\ Goto(p, "slideix") /\ Slide(h[p].tok)
    /\ UNCHANGED <<age, reverse, once, sock, requests, faults, history>>

SlidIndexNever == indexLeft             \* faulty variant: set by create alone
SlidIndex == IF index = {} THEN 0 ELSE IndexTtl
Continue(p) ==
    Goto(p, IF h[p].goal = "revoke_all" THEN "smembers" ELSE h[p].goal)
VerifySlideIndex(p) ==
    LET t == h[p].tok
    IN  /\ At(p, "slideix") /\ Continue(p)
        /\ indexLeft' = SlidIndex
        /\ overdue' = overdue \cup {u \in {t} : age[u] > Abs}
        /\ UNCHANGED <<store, index, once, sock, requests, faults, issued, given, drawn, killed,
                       orphaned>>

----------------------------------------------------------------------------
(* Revocation.                                                              *)

(* Another request has read the plain key of t and will store t again.      *)
Migrating(t) == \E p \in Handlers : At(p, "migrate") /\ h[p].tok = t

(* revoke_session: DEL, SREM, then the event.  The key is hashed by now:    *)
(* the request's own verification has migrated it.                          *)
LogoutDelete(p) ==
    LET t == h[p].tok
    IN  /\ At(p, "logout")
        /\ IF Stored(t) THEN Goto(p, "srem") /\ DropKey(t)
           ELSE Finish(p) /\ UNCHANGED store
        /\ killed' = IF Migrating(t) THEN killed ELSE killed \cup {t}
        /\ UNCHANGED <<reverse, once, sock, requests, faults, issued, given, drawn, overdue,
                       orphaned>>
LogoutIndex(p) ==
    /\ At(p, "srem") /\ Goto(p, "publish")
    /\ DropEntries({"raw", "digest"} \X {h[p].tok})
    /\ orphaned' = orphaned \cup {t \in {h[p].tok} : Stored(t)}
    /\ UNCHANGED <<store, once, sock, requests, faults, issued, given, drawn, overdue, killed>>

(* revoke_all_sessions: SMEMBERS, then DEL of the keys and DEL of the set,  *)
(* in a pipeline that is no transaction.                                    *)
RevokeList(p) ==
    /\ At(p, "smembers")
    /\ h' = [h EXCEPT ![p].pc = IF index = {} THEN "publish" ELSE "delkeys",
                      ![p].list = index]
    /\ UNCHANGED <<store, reverse, once, sock, requests, faults, history>>

RevokeKeys(p) ==
    LET dead == {t \in Tokens : Stored(t) /\ <<Form(t), t>> \in h[p].list}
    IN  /\ At(p, "delkeys")
        /\ h' = [h EXCEPT ![p] = [Idle EXCEPT !.pc = "delindex", !.goal = h[p].goal]]
        /\ key' = [t \in Tokens |-> IF t \in dead THEN "none" ELSE key[t]]
        /\ left' = [t \in Tokens |-> IF t \in dead THEN 0 ELSE left[t]]
        /\ age' = [t \in Tokens |-> IF t \in dead THEN 0 ELSE age[t]]
        /\ killed' = killed \cup {t \in Tokens : <<"digest", t>> \in h[p].list
                                              /\ ~Migrating(t)}
        /\ UNCHANGED <<reverse, once, sock, requests, faults, issued, given, drawn, overdue,
                       orphaned>>

RevokeIndex(p) ==
    /\ At(p, "delindex") /\ Goto(p, "publish")
    /\ index' = {} /\ indexLeft' = 0
    /\ orphaned' = orphaned \cup {t \in Tokens : Stored(t) /\ <<"digest", t>> \in index}
    /\ UNCHANGED <<store, once, sock, requests, faults, issued, given, drawn, overdue, killed>>

(* _publish_session_revoked: one token, or all of the user's sockets; a     *)
(* socket that has not subscribed yet hears nothing.                        *)
Concerned(s, p) == /\ sock[s].pc = "open"
                   /\ h[p].goal = "logout" => sock[s].tok = h[p].tok
Publish(p) ==
    /\ At(p, "publish") /\ Finish(p)
    /\ \/ /\ sock' = [s \in Sockets |-> IF Concerned(s, p)
                        THEN [sock[s] EXCEPT !.evt = TRUE] ELSE sock[s]]
          /\ UNCHANGED faults
       \/ /\ faults < MaxFaults /\ faults' = faults + 1 /\ UNCHANGED sock
    /\ UNCHANGED <<store, reverse, once, requests, history>>

(* A call to Redis fails, or the worker dies, after the first write of the  *)
(* request or of its verification: the request ends where it is;            *)
(* delete_me, unlike the revoke-all request, tries revoke_all_sessions      *)
(* again, here after any number of faults; in the code, twice.              *)
Fault(p) ==
    /\ h[p].pc \in {"sadd", "expire", "slide", "slideix", "capix", "srem",
                   "smembers", "delkeys", "delindex"}
    /\ faults < MaxFaults /\ faults' = faults + 1
    /\ \/ Finish(p)
       \/ h[p].pc \in {"smembers", "delkeys", "delindex"} /\ Goto(p, "smembers")
    /\ UNCHANGED <<store, reverse, once, sock, requests, history>>

----------------------------------------------------------------------------
(* Tickets and sockets.                                                     *)

IssueTicket(p) ==
    /\ At(p, "ticket") /\ Finish(p)
    /\ \E k \in Tickets \ drawn :
         tickets' = tickets \cup {k} /\ drawn' = drawn \cup {k}
    /\ UNCHANGED <<store, reverse, chal, sock, requests, faults, issued, given,
                   overdue, killed, orphaned>>

(* consume_ws_ticket: GETDEL.  A socket is bound to no token then.          *)
ConnectTicket(s, k) ==
    /\ sock[s] = Fresh /\ k \in tickets /\ tickets' = tickets \ {k}
    /\ sock' = [sock EXCEPT ![s] = [Fresh EXCEPT !.pc = "accepted", !.tok = "ticket"]]
    /\ UNCHANGED <<store, reverse, chal, h, requests, faults, history>>
ConnectToken(s, p) ==
    /\ At(p, "socket") /\ sock[s] = Fresh /\ Finish(p)
    /\ sock' = [sock EXCEPT ![s] = [Fresh EXCEPT !.pc = "accepted", !.tok = h[p].tok]]
    /\ UNCHANGED <<store, reverse, once, requests, faults, history>>
GoAway(p) ==            \* any other request, or a client that gave up
    /\ h[p].pc \in {"ticket", "socket"} /\ Finish(p)
    /\ UNCHANGED <<store, reverse, once, sock, requests, faults, history>>
Subscribe(s) ==
    /\ sock[s].pc = "accepted" /\ sock' = [sock EXCEPT ![s].pc = "open"]
    /\ UNCHANGED <<store, reverse, once, h, requests, faults, history>>

(* reader_task: the event closes the socket.                                *)
HearRevoked(s) ==
    /\ sock[s].pc = "open" /\ sock[s].evt
    /\ sock' = [sock EXCEPT ![s] = Closed]
    /\ UNCHANGED <<store, reverse, once, h, requests, faults, history>>

(* pinger_task: is_session_alive reads the key and refreshes nothing;       *)
(* has_any_live_session counts the entries of the index.                    *)
AliveIndexed(s) == index # {}           \* faulty variant: one check for both
AnySession == index # {}
Alive(s) == IF sock[s].tok = "ticket" THEN AnySession
            ELSE Stored(sock[s].tok) /\ ~TooOld(sock[s].tok)
Ping(s) ==
    /\ sock[s].pc = "open" /\ ~Alive(s)
    /\ sock' = [sock EXCEPT ![s] = Closed]
    /\ UNCHANGED <<store, reverse, once, h, requests, faults, history>>

(* The client goes away.                                                    *)
Disconnect(s) ==
    /\ sock[s].pc = "open" /\ sock' = [sock EXCEPT ![s] = Closed]
    /\ UNCHANGED <<store, reverse, once, h, requests, faults, history>>

(* A unit of time passes, between requests.                                 *)
Tick ==
    /\ \A p \in Handlers : h[p] = Idle
    /\ \A s \in Sockets : sock[s].pc # "accepted"
    /\ left' = [t \in Tokens |-> IF left[t] > 0 THEN left[t] - 1 ELSE 0]
    /\ key' = [t \in Tokens |-> IF left[t] <= 1 THEN "none" ELSE key[t]]
    /\ age' = [t \in Tokens |-> IF left[t] <= 1 THEN 0
                                ELSE IF age[t] > Abs THEN age[t] ELSE age[t] + 1]
    /\ indexLeft' = IF indexLeft \in 1 .. IndexTtl THEN indexLeft - 1 ELSE indexLeft
    /\ index' = IF indexLeft = 1 THEN {} ELSE index
    /\ chal' = {} /\ tickets' = {}
    /\ UNCHANGED <<h, sock, requests, faults, history>>

----------------------------------------------------------------------------
Step(p) ==
    \/ CreateForward(p) \/ CreateReverse(p) \/ CreateExpire(p)
    \/ VerifyGet(p) \/ VerifyGetRaw(p) \/ VerifyMigrate(p)
    \/ VerifyCap(p) \/ VerifyCapIndex(p) \/ VerifySlide(p) \/ VerifySlideIndex(p)
    \/ LogoutDelete(p) \/ LogoutIndex(p)
    \/ RevokeList(p) \/ RevokeKeys(p) \/ RevokeIndex(p) \/ Publish(p)
    \/ IssueTicket(p) \/ GoAway(p) \/ \E s \in Sockets : ConnectToken(s, p)

Next ==
    \/ \E c \in Challenges : RequestChallenge(c)
    \/ \E p \in Handlers, c \in Challenges : VerifyChallenge(p, c)
    \/ \E p \in Handlers, t \in Tokens, g \in Goals : Request(p, t, g)
    \/ \E p \in Handlers : Step(p) \/ Fault(p)
    \/ \E s \in Sockets : \/ Subscribe(s) \/ HearRevoked(s) \/ Ping(s)
                          \/ Disconnect(s)
                          \/ \E k \in Tickets : ConnectTicket(s, k)
    \/ Tick

Spec == Init /\ [][Next]_vars

(* The event loop runs every request and every socket's tasks, and time     *)
(* passes.                                                                  *)
FairSpec ==
    /\ Spec
    /\ \A p \in Handlers : WF_vars(Step(p))
    /\ \A s \in Sockets : WF_vars(Subscribe(s)) /\ WF_vars(Ping(s))
    /\ WF_vars(Tick)

----------------------------------------------------------------------------
(* The shape of the keys: a key has a TTL exactly while it exists.          *)
TypeOK ==
    /\ key \in [Tokens -> {"none", "raw", "bare", "dated"}]
    /\ left \in [Tokens -> 0 .. Ttl] /\ age \in [Tokens -> 0 .. Abs + 1]
    /\ \A t \in Tokens : left[t] > 0 <=> Stored(t)
    /\ index \subseteq {"raw", "digest"} \X Tokens
    /\ indexLeft \in 0 .. Forever /\ (indexLeft > 0 <=> index # {})
    /\ chal \subseteq Challenges /\ tickets \subseteq Tickets
    /\ DOMAIN h = Handlers /\ DOMAIN sock = Sockets

(* No request is served with a session older than the absolute ceiling,     *)
(* however often it is used: neither with a new one nor with one migrated   *)
(* from the plain scheme, whose age counts from its migration.              *)
CeilingHolds == overdue \subseteq Bare

(* sessions.py, on SESSION_ABSOLUTE_MAX_SECONDS: a session dies at the      *)
(* ceiling whatever its activity; those issued before the patch too, 30     *)
(* days after its deployment.                                               *)
EveryCeilingHolds == overdue = {}

(* A session a client can use is in the reverse index, and between requests *)
(* the index will outlive it, unless a revocation dropped the entry while   *)
(* the session was being made (create_session, verify_session_token).  For  *)
(* a migrated session no request may have died before it refreshed the      *)
(* index, whose TTL the first version kept short.                           *)
UsableFor(t) == IF key[t] = "dated" /\ Abs + 1 - age[t] < left[t]
                THEN Abs + 1 - age[t] ELSE left[t]
IndexCoversLive ==
    \A t \in given \ orphaned :
        (UsableFor(t) > 0 /\ (t \in New \/ faults = 0)) =>
            /\ <<Form(t), t>> \in index
            /\ (\A p \in Handlers : h[p] = Idle) => indexLeft >= UsableFor(t)

(* A session logged out, or in the index when a revoke_all listed it, never *)
(* works again, whatever requests were under way with it; only one being    *)
(* migrated from the plain scheme at that moment comes back.                *)
RevokedStaysDead == \A t \in killed : ~Stored(t)

(* An open socket whose session is gone: with a ticket, all of its user's.  *)
Outlives(s) ==
    /\ sock[s].pc = "open"
    /\ IF sock[s].tok = "ticket" THEN \A t \in Tokens : ~Stored(t)
       ELSE ~Stored(sock[s].tok)

(* A login or a migration failed between SADD and EXPIRE and has left an    *)
(* index that never expires (create_session, verify_session_token).         *)
Stranded == faults > 0 /\ indexLeft = Forever

(* No socket outlives its session for ever, even if it subscribed too late  *)
(* to hear of the revocation or the event was lost: the pinger closes it.   *)
(* One opened with a ticket may wait until the index of its user's sessions *)
(* has expired as well, long after the last of them (has_any_live_session); *)
(* it may wait for ever if that index is stranded.                          *)
SocketCloses ==
    \A s \in Sockets :
        Outlives(s) ~> (~Outlives(s) \/ (sock[s].tok = "ticket" /\ Stranded))

(* inbox.py, pinger_task: once all sessions of its user are revoked or have *)
(* expired, a ticket socket dies too.                                       *)
EverySocketCloses == \A s \in Sockets : Outlives(s) ~> ~Outlives(s)
=============================================================================

--------------------------- MODULE SessionsProofs ---------------------------
(* Proofs about Sessions, for any number of tokens, handlers and sockets    *)
(* and any lifetimes.                                                       *)
EXTENDS Sessions, TLAPS

----------------------------------------------------------------------------
(* The requests being served.  A login owns the token it makes until it     *)
(* hands it over; every other request presents a token that was given out.  *)
Creating  == {"setex", "sadd", "expire"}
Verifying == {"get", "getraw", "migrate", "slide", "slideix"}
Holding   == Verifying \cup {"cap", "capix", "ticket", "socket", "logout", "srem"}
Revoking  == {"smembers", "delkeys", "delindex", "publish"}
Entries   == {"raw", "digest"} \X Tokens
HandlerType == [pc : {"idle"} \cup Creating \cup Holding \cup Revoking,
                tok : Tokens \cup {"none"}, goal : Goals \cup {"none"},
                list : SUBSET Entries]

HandlerInv ==
    /\ h \in [Handlers -> HandlerType]
    /\ issued \subseteq New /\ given \subseteq issued \cup Legacy \cup Bare
    /\ \A p \in Handlers :
         /\ h[p].pc \in Creating => h[p].tok \in issued \ given
         /\ h[p].pc \in Holding => h[p].tok \in given
         /\ h[p].pc \in Verifying => h[p].goal \in Goals
    /\ \A p, q \in Handlers :
         h[p].pc \in Creating /\ h[q].pc \in Creating /\ h[p].tok = h[q].tok => p = q

(* Where a step that only moves on goes.                                    *)
Edge(from, to) ==
    \/ from = "setex" /\ to = "sadd"
    \/ from = "sadd" /\ to = "expire"
    \/ from = "get" /\ to \in {"getraw", "cap", "slide"}
    \/ from = "getraw" /\ to = "migrate"
    \/ from = "migrate" /\ to = "slide"
    \/ from = "cap" /\ to = "capix"
    \/ from = "slide" /\ to = "slideix"
    \/ from = "slideix" /\ to \in {"ticket", "socket", "logout", "smembers"}
    \/ from = "logout" /\ to = "srem"
    \/ from \in {"srem", "delindex"} /\ to = "publish"
    \/ from \in {"smembers", "delkeys", "delindex"} /\ to = "smembers"

(* The steps by which handlers move.                                        *)
LEMMA HandlerMoves ==
    ASSUME HandlerInv, [Next]_vars
    PROVE  \/ UNCHANGED <<h, issued, given>>
           \/ \E p \in Handlers :
                \/ CreateExpire(p)
                \/ \E c \in Challenges : VerifyChallenge(p, c)
                \/ /\ UNCHANGED <<issued, given>>
                   /\ \/ Finish(p)
                      \/ \E t \in Tokens, g \in Goals : Request(p, t, g)
                      \/ \E to : Edge(h[p].pc, to) /\ Goto(p, to)
                      \/ RevokeList(p)
                      \/ RevokeKeys(p)
<1>1. ASSUME NEW p \in Handlers, CreateForward(p) \/ CreateReverse(p)
      PROVE  /\ UNCHANGED <<issued, given>>
             /\ \E to : Edge(h[p].pc, to) /\ Goto(p, to)
  BY <1>1 DEF CreateForward, CreateReverse, At, Edge, history
<1>2. ASSUME NEW p \in Handlers, \/ VerifyGet(p) \/ VerifyGetRaw(p) \/ VerifyMigrate(p)
                                 \/ VerifyCap(p) \/ VerifySlide(p)
      PROVE  /\ UNCHANGED <<issued, given>>
             /\ \/ Finish(p)
                \/ \E to : Edge(h[p].pc, to) /\ Goto(p, to)
  BY <1>2 DEF VerifyGet, VerifyGetRaw, VerifyMigrate, VerifyCap, VerifySlide, At, Edge,
              history
<1>3. ASSUME NEW p \in Handlers, VerifySlideIndex(p)
      PROVE  /\ UNCHANGED <<issued, given>>
             /\ \E to : Edge(h[p].pc, to) /\ Goto(p, to)
  <2>1. h[p].goal \in Goals
    BY <1>3 DEF HandlerInv, VerifySlideIndex, At, Verifying
  <2>2. QED
    BY <1>3, <2>1 DEF VerifySlideIndex, At, Edge, Continue, Goals
<1>4. ASSUME NEW p \in Handlers,
             \/ VerifyCapIndex(p) \/ LogoutDelete(p) \/ LogoutIndex(p) \/ RevokeIndex(p)
             \/ Publish(p) \/ IssueTicket(p) \/ GoAway(p)
             \/ \E s \in Sockets : ConnectToken(s, p)
             \/ Fault(p)
      PROVE  /\ UNCHANGED <<issued, given>>
             /\ \/ Finish(p)
                \/ \E to : Edge(h[p].pc, to) /\ Goto(p, to)
  BY <1>4 DEF VerifyCapIndex, LogoutDelete, LogoutIndex, RevokeIndex, Publish,
              IssueTicket, GoAway, ConnectToken, Fault, At, Edge, history
<1>5. ASSUME NEW p \in Handlers, NEW t \in Tokens, NEW g \in Goals,
             Request(p, t, g)
      PROVE  UNCHANGED <<issued, given>>
  BY <1>5 DEF Request, history
<1>6. ASSUME NEW p \in Handlers, RevokeList(p) \/ RevokeKeys(p)
      PROVE  UNCHANGED <<issued, given>>
  BY <1>6 DEF RevokeList, RevokeKeys, history
<1>7. ASSUME \/ \E c \in Challenges : RequestChallenge(c)
             \/ \E s \in Sockets : \/ Subscribe(s) \/ HearRevoked(s) \/ Ping(s)
                                   \/ Disconnect(s)
                                   \/ \E k \in Tickets : ConnectTicket(s, k)
             \/ Tick \/ UNCHANGED vars
      PROVE  UNCHANGED <<h, issued, given>>
  BY <1>7 DEF RequestChallenge, Subscribe, HearRevoked, Ping, Disconnect, ConnectTicket,
              Tick, vars, history
<1>8. QED
  BY <1>1, <1>2, <1>3, <1>4, <1>5, <1>6, <1>7 DEF Next, Step

(* Nobody but its own step touches a request.                               *)
LEMMA OwnSteps ==
    ASSUME HandlerInv, [Next]_vars, NEW p \in Handlers
    PROVE  \/ h'[p] = h[p]
           \/ h[p].pc = "idle"
           \/ Step(p) \/ Fault(p)
<1>a. h \in [Handlers -> HandlerType]
  BY DEF HandlerInv
<1>1. ASSUME NEW q \in Handlers, q # p, Finish(q) \/ \E to : Goto(q, to)
      PROVE  h'[p] = h[p]
  BY <1>a, <1>1 DEF Finish, Goto
<1>2. ASSUME NEW q \in Handlers, q # p, Step(q) PROVE h'[p] = h[p]
  <2>1. \/ Finish(q) \/ \E to : Goto(q, to)
        \/ RevokeList(q) \/ RevokeKeys(q)
    BY <1>2 DEF Step, CreateForward, CreateReverse, CreateExpire, VerifyGet, VerifyGetRaw,
       VerifyMigrate, VerifyCap, VerifyCapIndex, VerifySlide, VerifySlideIndex, Continue,
       LogoutDelete, LogoutIndex, RevokeIndex, Publish, IssueTicket, GoAway, ConnectToken
  <2>2. CASE RevokeList(q) \/ RevokeKeys(q)
    BY <1>a, <1>2, <2>2 DEF RevokeList, RevokeKeys
  <2>3. QED
    BY <1>1, <1>2, <2>1, <2>2
<1>3. ASSUME NEW q \in Handlers, q # p, Fault(q) PROVE h'[p] = h[p]
  BY <1>1, <1>3 DEF Fault
<1>4. ASSUME NEW q \in Handlers,
             \/ \E c \in Challenges : VerifyChallenge(q, c)
             \/ \E t \in Tokens, g \in Goals : Request(q, t, g)
      PROVE  h'[p] = h[p] \/ h[p].pc = "idle"
  <2>1. h[q] = Idle /\ \E new : h' = [h EXCEPT ![q] = new]
    BY <1>4 DEF VerifyChallenge, Request, Free
  <2>2. Idle.pc = "idle"
    BY DEF Idle
  <2>3. QED
    BY <1>a, <2>1, <2>2
<1>5. ASSUME \/ \E c \in Challenges : RequestChallenge(c)
             \/ \E s \in Sockets : \/ Subscribe(s) \/ HearRevoked(s) \/ Ping(s)
                                   \/ Disconnect(s)
                                   \/ \E k \in Tickets : ConnectTicket(s, k)
             \/ Tick \/ UNCHANGED vars
      PROVE  h'[p] = h[p]
  BY <1>5 DEF RequestChallenge, Subscribe, HearRevoked, Ping, Disconnect, ConnectTicket,
              Tick, vars
<1>6. QED
  BY <1>2, <1>3, <1>4, <1>5 DEF Next

(* Where the own step of a request takes it.                                *)
LEMMA OwnTargets ==
    ASSUME HandlerInv, NEW p \in Handlers
    PROVE  /\ CreateForward(p) => h'[p].pc = "sadd"
           /\ CreateReverse(p) => h'[p].pc = "expire"
           /\ VerifyGet(p) => h'[p].pc \in {"getraw", "cap", "slide"}
           /\ VerifyGetRaw(p) => h'[p].pc \in {"migrate", "idle"}
           /\ VerifyMigrate(p) => h'[p].pc = "slide"
           /\ VerifyCap(p) => h'[p].pc = "capix"
           /\ VerifySlide(p) => h'[p].pc = "slideix"
           /\ VerifySlideIndex(p) =>
                h'[p].pc \in {"ticket", "socket", "logout", "smembers"}
           /\ LogoutDelete(p) => h'[p].pc \in {"srem", "idle"}
           /\ LogoutIndex(p) \/ RevokeIndex(p) => h'[p].pc = "publish"
           /\ RevokeList(p) => h'[p].pc \in {"publish", "delkeys"}
           /\ RevokeKeys(p) => h'[p].pc = "delindex"
           /\ CreateExpire(p) \/ VerifyCapIndex(p) \/ Publish(p) \/ IssueTicket(p)
              \/ GoAway(p) \/ (\E s \in Sockets : ConnectToken(s, p)) => h'[p].pc = "idle"
           /\ Fault(p) => h'[p].pc \in {"idle", "smembers"}
<1>a. h \in [Handlers -> HandlerType]
  BY DEF HandlerInv
<1>1. ASSUME NEW to, Goto(p, to) PROVE h'[p].pc = to
  BY <1>a, <1>1 DEF Goto, HandlerType
<1>2. ASSUME Finish(p) PROVE h'[p].pc = "idle"
  BY <1>a, <1>2 DEF Finish, Idle
<1>3. /\ CreateForward(p) => h'[p].pc = "sadd"
      /\ CreateReverse(p) => h'[p].pc = "expire"
      /\ VerifyGetRaw(p) => h'[p].pc \in {"migrate", "idle"}
      /\ VerifyMigrate(p) => h'[p].pc = "slide"
      /\ VerifyCap(p) => h'[p].pc = "capix"
      /\ VerifySlide(p) => h'[p].pc = "slideix"
      /\ LogoutDelete(p) => h'[p].pc \in {"srem", "idle"}
      /\ LogoutIndex(p) \/ RevokeIndex(p) => h'[p].pc = "publish"
  BY <1>1, <1>2 DEF CreateForward, CreateReverse, VerifyGetRaw, VerifyMigrate, VerifyCap,
                    VerifySlide, LogoutDelete, LogoutIndex, RevokeIndex
<1>4. /\ CreateExpire(p) \/ VerifyCapIndex(p) \/ Publish(p) \/ IssueTicket(p)
         \/ GoAway(p) \/ (\E s \in Sockets : ConnectToken(s, p)) => h'[p].pc = "idle"
      /\ Fault(p) => h'[p].pc \in {"idle", "smembers"}
  <2>1. CreateExpire(p) \/ VerifyCapIndex(p) \/ Publish(p) \/ IssueTicket(p)
         \/ GoAway(p) \/ (\E s \in Sockets : ConnectToken(s, p)) => Finish(p)
    BY DEF CreateExpire, VerifyCapIndex, Publish, IssueTicket, GoAway, ConnectToken
  <2>2. Fault(p) => Finish(p) \/ Goto(p, "smembers")
    BY DEF Fault
  <2>3. QED
    BY <1>1, <1>2, <2>1, <2>2
<1>5. VerifyGet(p) => h'[p].pc \in {"getraw", "cap", "slide"}
  <2>1. VerifyGet(p) => \E to \in {"getraw", "cap", "slide"} : Goto(p, to)
    BY DEF VerifyGet
  <2>2. QED
    BY <1>1, <2>1
<1>6. VerifySlideIndex(p) => h'[p].pc \in {"ticket", "socket", "logout", "smembers"}
  <2>1. ASSUME VerifySlideIndex(p) PROVE h[p].goal \in Goals /\ Continue(p)
    BY <2>1 DEF HandlerInv, VerifySlideIndex, At, Verifying
  <2>2. QED
    BY <1>1, <2>1 DEF Continue, Goals
<1>7. /\ RevokeList(p) => h'[p].pc \in {"publish", "delkeys"}
      /\ RevokeKeys(p) => h'[p].pc = "delindex"
  <2>1. ASSUME RevokeList(p) PROVE h'[p].pc \in {"publish", "delkeys"}
    BY <1>a, <2>1 DEF RevokeList, HandlerType
  <2>2. ASSUME RevokeKeys(p) PROVE h'[p].pc = "delindex"
    BY <1>a, <2>2 DEF RevokeKeys, Idle
  <2>3. QED
    BY <2>1, <2>2
<1>8. QED
  BY <1>3, <1>4, <1>5, <1>6, <1>7

(* Whose step brought a request to a label, for the labels that matter.     *)
LEMMA CameFrom ==
    ASSUME HandlerInv, [Next]_vars, NEW p \in Handlers, h'[p] # h[p]
    PROVE  /\ h'[p].pc = "slide" => VerifyGet(p) \/ VerifyMigrate(p)
           /\ h'[p].pc = "slideix" => VerifySlide(p)
           /\ h'[p].pc = "migrate" => VerifyGetRaw(p)
           /\ h'[p].pc = "cap" => VerifyGet(p)
           /\ h'[p].pc = "capix" => VerifyCap(p)
           /\ h'[p].pc = "sadd" => CreateForward(p)
           /\ h'[p].pc = "expire" => CreateReverse(p)
           /\ h'[p].pc = "delkeys" => RevokeList(p)
           /\ h'[p].pc = "delindex" => RevokeKeys(p)
           /\ h'[p].pc = "setex" => \E c \in Challenges : VerifyChallenge(p, c)
<1>a. h \in [Handlers -> HandlerType] /\ Idle.pc = "idle"
  BY DEF HandlerInv, Idle
<1>1. CASE Step(p) \/ Fault(p)
  BY <1>1, OwnTargets DEF Step
<1>2. CASE h[p].pc = "idle"
  <2>1. ASSUME NEW q \in Handlers, q # p, Finish(q) \/ \E to : Goto(q, to)
        PROVE  FALSE
    BY <1>a, <2>1 DEF Finish, Goto
  <2>2. ASSUME NEW q \in Handlers, NEW t \in Tokens, NEW g \in Goals, Request(q, t, g)
        PROVE  h'[p].pc = "get"
    BY <1>a, <2>2 DEF Request, Idle
  <2>3. ASSUME NEW q \in Handlers, NEW c \in Challenges, VerifyChallenge(q, c)
        PROVE  q = p /\ h'[p].pc = "setex"
    BY <1>a, <2>3 DEF VerifyChallenge, Idle
  <2>4. ASSUME NEW q \in Handlers, RevokeList(q) \/ RevokeKeys(q) PROVE FALSE
    BY <1>a, <1>2, <2>4 DEF RevokeList, RevokeKeys, At
  <2>5. ASSUME NEW to, Edge(h[p].pc, to) PROVE FALSE
    BY <1>2, <2>5 DEF Edge
  <2>6. ASSUME Finish(p) PROVE h'[p].pc = "idle"
    BY <1>a, <2>6 DEF Finish
  <2>7. ASSUME NEW q \in Handlers, CreateExpire(q) PROVE FALSE
    BY <1>2, <2>1, <2>7 DEF CreateExpire, At
  <2>8. \/ h'[p].pc \in {"idle", "get"}
        \/ h'[p].pc = "setex" /\ \E c \in Challenges : VerifyChallenge(p, c)
    BY <2>1, <2>2, <2>3, <2>4, <2>5, <2>6, <2>7, HandlerMoves
  <2>9. QED
    BY <2>8
<1>3. QED
  BY <1>1, <1>2, OwnSteps
(* Every step keeps the handlers well-formed.                               *)
LEMMA HandlerStep == HandlerInv /\ index \subseteq Entries /\ [Next]_vars => HandlerInv'
<1> SUFFICES ASSUME HandlerInv, index \subseteq Entries, [Next]_vars PROVE HandlerInv'
  OBVIOUS
<1> USE DEF Creating, Verifying, Holding, Revoking
<1>a. /\ h \in [Handlers -> HandlerType]
      /\ issued \subseteq New /\ given \subseteq issued \cup Legacy \cup Bare
      /\ \A p \in Handlers :
           /\ h[p].pc \in Creating => h[p].tok \in issued \ given
           /\ h[p].pc \in Holding => h[p].tok \in given
           /\ h[p].pc \in Verifying => h[p].goal \in Goals
      /\ \A p, q \in Handlers :
           h[p].pc \in Creating /\ h[q].pc \in Creating /\ h[p].tok = h[q].tok => p = q
      /\ Idle \in HandlerType /\ Idle.pc = "idle" /\ Tokens = New \cup Legacy \cup Bare
  BY DEF HandlerInv, HandlerType, Idle, Tokens
<1>1. CASE UNCHANGED <<h, issued, given>>
  BY <1>a, <1>1 DEF HandlerInv
<1>2. ASSUME NEW p \in Handlers, Finish(p), UNCHANGED <<issued, given>> PROVE HandlerInv'
  BY <1>a, <1>2 DEF HandlerInv, Finish
<1>3. ASSUME NEW p \in Handlers, CreateExpire(p) PROVE HandlerInv'
  <2>1. /\ Finish(p) /\ issued' = issued /\ given' = given \cup {h[p].tok}
        /\ h[p].pc = "expire"
    BY <1>3 DEF CreateExpire, At
  <2>2. h' \in [Handlers -> HandlerType] /\ given' \subseteq issued \cup Legacy \cup Bare
    BY <1>a, <2>1 DEF Finish
  <2>3. \A q \in Handlers : h'[q] = IF q = p THEN Idle ELSE h[q]
    BY <1>a, <2>1 DEF Finish
  <2>4. QED
    BY <1>a, <2>1, <2>2, <2>3 DEF HandlerInv
<1>4. ASSUME NEW p \in Handlers, NEW c \in Challenges, VerifyChallenge(p, c)
      PROVE  HandlerInv'
  <2>1. PICK t \in New \ issued :
          /\ issued' = issued \cup {t} /\ given' = given
          /\ h' = [h EXCEPT ![p] = [Idle EXCEPT !.pc = "setex", !.tok = t]]
    BY <1>4 DEF VerifyChallenge
  <2>2. [Idle EXCEPT !.pc = "setex", !.tok = t] \in HandlerType
    BY <1>a DEF HandlerType, Idle
  <2>3. t \notin given
    BY <1>a, SessionSets
  <2>4. \A q \in Handlers : h'[q] = IF q = p THEN [Idle EXCEPT !.pc = "setex", !.tok = t]
                                    ELSE h[q]
    BY <1>a, <2>1
  <2>5. [Idle EXCEPT !.pc = "setex", !.tok = t].pc = "setex"
        /\ [Idle EXCEPT !.pc = "setex", !.tok = t].tok = t
    BY DEF Idle
  <2>6. h' \in [Handlers -> HandlerType]
    BY <1>a, <2>1, <2>2
  <2>7. QED
    BY <1>a, <2>1, <2>3, <2>4, <2>5, <2>6 DEF HandlerInv
<1>5. ASSUME NEW p \in Handlers, NEW t \in Tokens, NEW g \in Goals, Request(p, t, g),
             UNCHANGED <<issued, given>>
      PROVE  HandlerInv'
  <2> DEFINE new == [Idle EXCEPT !.pc = "get", !.tok = t, !.goal = g]
  <2>1. new \in HandlerType /\ new.pc = "get" /\ new.tok = t /\ new.goal = g
    BY DEF HandlerType, Idle
  <2>2. h' = [h EXCEPT ![p] = new] /\ t \in given
    BY <1>5 DEF Request
  <2> HIDE DEF new
  <2>3. h' \in [Handlers -> HandlerType]
        /\ \A q \in Handlers : h'[q] = IF q = p THEN new ELSE h[q]
    BY <1>a, <2>1, <2>2
  <2>4. QED
    BY <1>a, <1>5, <2>1, <2>2, <2>3 DEF HandlerInv
<1>6. ASSUME NEW p \in Handlers, NEW to, Edge(h[p].pc, to), Goto(p, to),
             UNCHANGED <<issued, given>>
      PROVE  HandlerInv'
  <2>1. /\ to \in {"idle"} \cup Creating \cup Holding \cup Revoking
        /\ to \in Creating => h[p].pc \in Creating
        /\ to \in Holding => h[p].pc \in Holding
        /\ to \in Verifying => h[p].pc \in Verifying
    BY <1>6 DEF Edge
  <2>2. h' \in [Handlers -> HandlerType]
    BY <1>a, <1>6, <2>1 DEF Goto, HandlerType
  <2>3. \A q \in Handlers : /\ h'[q].tok = h[q].tok /\ h'[q].goal = h[q].goal
                            /\ h'[q].pc = IF q = p THEN to ELSE h[q].pc
    BY <1>a, <1>6 DEF Goto, HandlerType
  <2>4. QED
    BY <1>a, <1>6, <2>1, <2>2, <2>3 DEF HandlerInv
<1>7. ASSUME NEW p \in Handlers, RevokeList(p) \/ RevokeKeys(p), UNCHANGED <<issued, given>>
      PROVE  HandlerInv'
  <2>1. h'[p] \in HandlerType /\ h'[p].pc \in Revoking
    <3>1. CASE RevokeList(p)
      BY <1>a, <3>1 DEF RevokeList, HandlerType
    <3>2. CASE RevokeKeys(p)
      BY <1>a, <3>2 DEF RevokeKeys, HandlerType, Idle
    <3>3. QED
      BY <1>7, <3>1, <3>2
  <2>2. \A q \in Handlers \ {p} : h'[q] = h[q]
    BY <1>a, <1>7 DEF RevokeList, RevokeKeys
  <2>3. h' \in [Handlers -> HandlerType]
    <3>1. DOMAIN h' = Handlers /\ h' = [q \in Handlers |-> h'[q]]
      BY <1>a, <1>7 DEF RevokeList, RevokeKeys
    <3>2. QED
      BY <1>a, <2>1, <2>2, <3>1
  <2>4. QED
    BY <1>a, <1>7, <2>1, <2>2, <2>3 DEF HandlerInv
<1>8. QED
  BY <1>1, <1>2, <1>3, <1>4, <1>5, <1>6, <1>7, HandlerMoves

----------------------------------------------------------------------------
(* The session keys and the reverse index.                                  *)
(* Which steps touch the keys, and which the index.                         *)
LEMMA StoreMoves ==
    ASSUME [Next]_vars
    PROVE  \/ UNCHANGED store
           \/ \E p \in Handlers :
                \/ CreateForward(p) \/ VerifyMigrate(p) \/ VerifySlide(p)
                \/ (VerifyCap(p) \/ LogoutDelete(p)) /\ DropKey(h[p].tok)
                \/ RevokeKeys(p)
           \/ Tick
BY DEF Next, Step, RequestChallenge, VerifyChallenge, Request, CreateReverse,
       CreateExpire, VerifyGet, VerifyGetRaw, VerifyCap, VerifyCapIndex,
       VerifySlideIndex, LogoutDelete, LogoutIndex, RevokeList, RevokeIndex, Publish,
       IssueTicket, GoAway, ConnectToken, Fault, Subscribe, HearRevoked, Ping,
       Disconnect, ConnectTicket, vars

(* The steps that write the reverse index.                                  *)
LEMMA IndexMoves ==
    ASSUME [Next]_vars
    PROVE  \/ UNCHANGED reverse
           \/ \E p \in Handlers :
                \/ CreateReverse(p) \/ CreateExpire(p) \/ VerifyMigrate(p)
                \/ VerifyCapIndex(p) \/ VerifySlideIndex(p) \/ LogoutIndex(p)
                \/ RevokeIndex(p)
           \/ Tick
BY DEF Next, Step, RequestChallenge, VerifyChallenge, Request, CreateForward,
       VerifyGet, VerifyGetRaw, VerifyCap, VerifySlide, LogoutDelete, RevokeList,
       RevokeKeys, Publish, IssueTicket, GoAway, ConnectToken, Fault, Subscribe,
       HearRevoked, Ping, Disconnect, ConnectTicket, vars

StoreOK ==
    /\ key \in [Tokens -> {"none", "raw", "bare", "dated"}]
    /\ left \in [Tokens -> 0 .. Ttl] /\ age \in [Tokens -> 0 .. Abs + 1]
    /\ \A t \in Tokens : left[t] > 0 <=> key[t] # "none"
IndexOK ==
    /\ index \subseteq Entries
    /\ indexLeft \in 0 .. Forever /\ (indexLeft > 0 <=> index # {})

TypeInv == TypeOK /\ HandlerInv

(* Every step keeps the sessions well-formed.                               *)
LEMMA StoreStep == ASSUME StoreOK, HandlerInv, [Next]_vars PROVE StoreOK'
<1>a. /\ key \in [Tokens -> {"none", "raw", "bare", "dated"}]
      /\ left \in [Tokens -> 0 .. Ttl] /\ age \in [Tokens -> 0 .. Abs + 1]
      /\ \A t \in Tokens : left[t] > 0 <=> key[t] # "none"
      /\ Ttl \in Nat \ {0} /\ Abs \in Nat
  BY SessionNumbers DEF StoreOK
<1>b. /\ \A p \in Handlers : h[p].pc \in Creating \cup Holding => h[p].tok \in Tokens
  BY DEF HandlerInv, Tokens
<1>1. CASE UNCHANGED store
  BY <1>a, <1>1 DEF store, StoreOK
<1>2. ASSUME NEW p \in Handlers, CreateForward(p) \/ VerifyMigrate(p) PROVE StoreOK'
  <2>1. h[p].tok \in Tokens
    BY <1>b, <1>2 DEF CreateForward, VerifyMigrate, At, Creating, Holding, Verifying
  <2>2. /\ key' = [key EXCEPT ![h[p].tok] = "dated"]
        /\ left' = [left EXCEPT ![h[p].tok] = Ttl]
        /\ age' = [age EXCEPT ![h[p].tok] = 0]
    BY <1>2 DEF CreateForward, VerifyMigrate
  <2>3. QED
    BY <1>a, <2>1, <2>2 DEF StoreOK
<1>3. ASSUME NEW p \in Handlers, VerifySlide(p) PROVE StoreOK'
  <2>1. h[p].tok \in Tokens
    BY <1>b, <1>3 DEF VerifySlide, At, Holding, Verifying
  <2>2. /\ key' = key /\ age' = age
        /\ left' = [left EXCEPT ![h[p].tok] = IF key[h[p].tok] # "none" THEN Ttl ELSE 0]
    BY <1>3 DEF VerifySlide, Slide, Stored
  <2>3. QED
    BY <1>a, <2>1, <2>2 DEF StoreOK
<1>4. ASSUME NEW p \in Handlers, VerifyCap(p) \/ LogoutDelete(p), DropKey(h[p].tok)
      PROVE  StoreOK'
  <2>1. h[p].tok \in Tokens
    BY <1>b, <1>4 DEF VerifyCap, LogoutDelete, At, Holding
  <2>2. QED
    BY <1>a, <1>4, <2>1 DEF StoreOK, DropKey
<1>5. ASSUME NEW p \in Handlers, RevokeKeys(p) PROVE StoreOK'
  <2>1. PICK dead :
          /\ key' = [t \in Tokens |-> IF t \in dead THEN "none" ELSE key[t]]
          /\ left' = [t \in Tokens |-> IF t \in dead THEN 0 ELSE left[t]]
          /\ age' = [t \in Tokens |-> IF t \in dead THEN 0 ELSE age[t]]
    BY <1>5 DEF RevokeKeys
  <2>2. QED
    BY <1>a, <2>1 DEF StoreOK
<1>6. CASE Tick
  <2>1. key' \in [Tokens -> {"none", "raw", "bare", "dated"}]
    BY <1>6, <1>a DEF Tick
  <2>2. left' \in [Tokens -> 0 .. Ttl]
    BY <1>6, <1>a DEF Tick
  <2>3. age' \in [Tokens -> 0 .. Abs + 1]
    BY <1>6, <1>a DEF Tick
  <2>4. \A t \in Tokens : left'[t] > 0 <=> key'[t] # "none"
    BY <1>6, <1>a DEF Tick
  <2>5. QED
    BY <2>1, <2>2, <2>3, <2>4 DEF StoreOK
<1>7. QED
  BY <1>1, <1>2, <1>3, <1>4, <1>5, <1>6, StoreMoves

(* Every step keeps the reverse index well-formed.                          *)
LEMMA IndexStep == ASSUME IndexOK, HandlerInv, [Next]_vars PROVE IndexOK'
<1>a. /\ index \subseteq Entries /\ indexLeft \in 0 .. Abs + 2
      /\ (indexLeft > 0 <=> index # {}) /\ Abs \in Nat
      /\ Forever = Abs + 2 /\ IndexTtl = Abs + 1
  <2>1. Forever = Abs + 2 /\ IndexTtl = Abs + 1 /\ Abs \in Nat
    BY SessionNumbers DEF Forever, IndexTtl
  <2>2. QED
    BY <2>1 DEF IndexOK
<1>b. \A p \in Handlers : h[p].pc \in Creating \cup Holding => h[p].tok \in Tokens
  BY DEF HandlerInv, Tokens
<1>1. CASE UNCHANGED reverse
  BY <1>a, <1>1 DEF reverse, IndexOK
<1>2. ASSUME NEW p \in Handlers, CreateReverse(p) PROVE IndexOK'
  <2>1. h[p].tok \in Tokens
    BY <1>b, <1>2 DEF CreateReverse, At, Creating
  <2>2. <<"digest", h[p].tok>> \in Entries
    BY <2>1 DEF Entries
  <2>3. QED
    BY <1>a, <1>2, <2>2 DEF CreateReverse, AddTo, IndexOK
<1>3. ASSUME NEW p \in Handlers, CreateExpire(p) \/ VerifySlideIndex(p) PROVE IndexOK'
  BY <1>a, <1>3 DEF CreateExpire, VerifySlideIndex, SlidIndex, IndexOK
<1>4. ASSUME NEW p \in Handlers, VerifyMigrate(p) PROVE IndexOK'
  <2>1. h[p].tok \in Tokens
    BY <1>b, <1>4 DEF VerifyMigrate, At, Holding, Verifying
  <2>2. <<"digest", h[p].tok>> \in Entries
    BY <2>1 DEF Entries
  <2>3. /\ index' = (index \ {<<"raw", h[p].tok>>}) \cup {<<"digest", h[p].tok>>}
        /\ indexLeft' = IF index \subseteq {<<"raw", h[p].tok>>} THEN Forever ELSE indexLeft
    BY <1>4 DEF VerifyMigrate
  <2>4. QED
    BY <1>a, <2>2, <2>3 DEF IndexOK
<1>5. ASSUME NEW es, DropEntries(es) PROVE IndexOK'
  BY <1>a, <1>5 DEF DropEntries, IndexOK
<1>6. ASSUME NEW p \in Handlers, VerifyCapIndex(p) \/ LogoutIndex(p) PROVE IndexOK'
  BY <1>5, <1>6 DEF VerifyCapIndex, LogoutIndex
<1>7. ASSUME NEW p \in Handlers, RevokeIndex(p) PROVE IndexOK'
  BY <1>a, <1>7 DEF RevokeIndex, IndexOK
<1>8. CASE Tick
  <2>1. /\ indexLeft' = IF indexLeft \in 1 .. IndexTtl THEN indexLeft - 1 ELSE indexLeft
        /\ index' = IF indexLeft = 1 THEN {} ELSE index
    BY <1>8 DEF Tick
  <2>2. QED
    BY <1>a, <2>1 DEF IndexOK
<1>9. QED
  BY <1>1, <1>2, <1>3, <1>4, <1>6, <1>7, <1>8, IndexMoves

(* Every step keeps the types.                                              *)
LEMMA TypeStep == TypeInv /\ [Next]_vars => TypeInv'
<1> SUFFICES ASSUME TypeInv, [Next]_vars PROVE TypeInv'
  OBVIOUS
<1>1. StoreOK /\ IndexOK /\ HandlerInv
  BY DEF TypeInv, TypeOK, StoreOK, IndexOK, Stored, Entries
<1>2. StoreOK' /\ IndexOK' /\ HandlerInv'
  BY <1>1, StoreStep, IndexStep, HandlerStep DEF IndexOK
<1>3. chal' \subseteq Challenges /\ tickets' \subseteq Tickets
  <2>1. chal \subseteq Challenges /\ tickets \subseteq Tickets
    BY DEF TypeInv, TypeOK
  <2>2. QED
    BY <2>1 DEF Next, Step, RequestChallenge, VerifyChallenge, Request, CreateForward,
       CreateReverse, CreateExpire, VerifyGet, VerifyGetRaw, VerifyMigrate, VerifyCap,
       VerifyCapIndex, VerifySlide, VerifySlideIndex, LogoutDelete, LogoutIndex,
       RevokeList, RevokeKeys, RevokeIndex, Publish, IssueTicket, GoAway, ConnectToken,
       Fault, Subscribe, HearRevoked, Ping, Disconnect, ConnectTicket, Tick, vars, once
<1>4. DOMAIN sock' = Sockets
  <2>1. DOMAIN sock = Sockets
    BY DEF TypeInv, TypeOK
  <2>2. QED
    BY <2>1 DEF Next, Step, RequestChallenge, VerifyChallenge, Request, CreateForward,
       CreateReverse, CreateExpire, VerifyGet, VerifyGetRaw, VerifyMigrate, VerifyCap,
       VerifyCapIndex, VerifySlide, VerifySlideIndex, LogoutDelete, LogoutIndex,
       RevokeList, RevokeKeys, RevokeIndex, Publish, IssueTicket, GoAway, ConnectToken,
       Fault, Subscribe, HearRevoked, Ping, Disconnect, ConnectTicket, Tick, vars
<1>5. QED
  BY <1>2, <1>3, <1>4 DEF TypeInv, TypeOK, StoreOK, IndexOK, HandlerInv, Stored, Entries

(* The types always hold.                                                   *)
LEMMA TypeInvHolds == Spec => []TypeInv
<1>1. Init => TypeInv
  <2> SUFFICES ASSUME Init PROVE TypeInv
    OBVIOUS
  <2>1. Ttl \in Nat \ {0} /\ Abs \in Nat /\ Ttl <= Abs /\ Forever = Abs + 2
    BY SessionNumbers DEF Forever, IndexTtl
  <2>2. /\ key \in [Tokens -> {"none", "raw", "bare", "dated"}]
        /\ left \in [Tokens -> 0 .. Ttl] /\ age \in [Tokens -> 0 .. Abs + 1]
    BY <2>1 DEF Init
  <2>3. ASSUME NEW t \in Tokens PROVE left[t] > 0 <=> key[t] # "none"
    <3>1. CASE t \in New
      BY <3>1, SessionSets DEF Init
    <3>2. CASE t \notin New
      BY <2>1, <3>2 DEF Init, Tokens
    <3>3. QED
      BY <3>1, <3>2
  <2>4. /\ index \subseteq {"raw", "digest"} \X Tokens
        /\ indexLeft \in 0 .. Forever /\ (indexLeft > 0 <=> index # {})
    BY <2>1 DEF Init, Tokens
  <2>5. HandlerInv
    BY DEF Init, HandlerInv, HandlerType, Idle, Creating, Holding, Verifying
  <2>6. QED
    BY <2>2, <2>3, <2>4, <2>5 DEF Init, TypeInv, TypeOK, Stored
<1>2. QED
  BY <1>1, TypeStep, PTL DEF Spec

(* A session key has a TTL exactly while it exists, and so has the reverse  *)
(* index, however requests, revocations and expiry interleave.              *)
THEOREM SessionsTypeCorrect == Spec => []TypeOK
<1>1. TypeInv => TypeOK
  BY DEF TypeInv
<1>2. QED
  BY <1>1, TypeInvHolds, PTL

----------------------------------------------------------------------------
(* The ceiling: a request past its check has a session that was young       *)
(* enough, or one without a created_at; time does not pass meanwhile.       *)
CeilingInv ==
    /\ CeilingHolds
    /\ \A t \in Tokens : key[t] = "bare" => t \in Bare
    /\ \A p \in Handlers : h[p].pc \in {"slide", "slideix"} =>
                             h[p].tok \in Bare \/ age[h[p].tok] <= Abs

(* No step extends a session beyond its ceiling.                            *)
LEMMA CeilingStep == TypeInv /\ CeilingInv /\ [Next]_vars => CeilingInv'
<1> SUFFICES ASSUME TypeInv, CeilingInv, [Next]_vars PROVE CeilingInv'
  OBVIOUS
<1>a. /\ StoreOK /\ HandlerInv /\ h \in [Handlers -> HandlerType]
      /\ age \in [Tokens -> 0 .. Abs + 1] /\ Abs \in Nat
      /\ key \in [Tokens -> {"none", "raw", "bare", "dated"}]
      /\ \A p \in Handlers : h[p].pc \in Creating \cup Holding => h[p].tok \in Tokens
  BY SessionNumbers DEF TypeInv, TypeOK, StoreOK, Stored, HandlerInv, Tokens
<1>b. /\ overdue \subseteq Bare /\ \A t \in Tokens : key[t] = "bare" => t \in Bare
      /\ \A p \in Handlers : h[p].pc \in {"slide", "slideix"} =>
                             h[p].tok \in Bare \/ age[h[p].tok] <= Abs
  BY DEF CeilingInv, CeilingHolds
(* Ages only fall while a request is served, and no key becomes bare.       *)
<1>1. /\ \A t \in Tokens : key'[t] = "bare" => t \in Bare
      /\ ~Tick => \A t \in Tokens : age'[t] \in {age[t], 0}
  BY <1>a, <1>b, StoreMoves DEF store, CreateForward, VerifyMigrate, VerifySlide, Slide,
                            DropKey, RevokeKeys, Tick
<1>2. overdue' \subseteq Bare
  <2>1. overdue' = overdue \/ \E p \in Handlers : VerifySlideIndex(p)
    BY DEF Next, Step, RequestChallenge, VerifyChallenge, Request, CreateForward,
       CreateReverse, CreateExpire, VerifyGet, VerifyGetRaw, VerifyMigrate, VerifyCap,
       VerifyCapIndex, VerifySlide, LogoutDelete, LogoutIndex, RevokeList, RevokeKeys,
       RevokeIndex, Publish, IssueTicket, GoAway, ConnectToken, Fault, Subscribe,
       HearRevoked, Ping, Disconnect, ConnectTicket, Tick, vars, history
  <2>2. ASSUME NEW p \in Handlers, VerifySlideIndex(p) PROVE overdue' \subseteq Bare
    <3>1. /\ overdue' = overdue \cup {u \in {h[p].tok} : age[u] > Abs}
          /\ h[p].pc = "slideix" /\ h[p].tok \in Tokens
      BY <1>a, <2>2 DEF VerifySlideIndex, At, Holding, Verifying
    <3>2. age[h[p].tok] > Abs => h[p].tok \in Bare
      BY <1>a, <1>b, <3>1
    <3>3. QED
      BY <1>b, <3>1, <3>2
  <2>3. QED
    BY <1>b, <2>1, <2>2
<1>3. ASSUME NEW p \in Handlers, h'[p].pc \in {"slide", "slideix"}
      PROVE  h'[p].tok \in Bare \/ age'[h'[p].tok] <= Abs
  <2>1. CASE Tick
    BY <1>3, <1>a, <2>1 DEF Tick, Idle
  <2>2. CASE ~Tick /\ h'[p] = h[p]
    <3>1. h[p].tok \in Tokens
      BY <1>3, <1>a, <2>2 DEF Holding, Verifying
    <3>2. QED
      BY <1>1, <1>3, <1>a, <1>b, <2>2, <3>1
  <2>3. CASE h'[p] # h[p]
    <3>1. VerifyGet(p) \/ VerifyMigrate(p) \/ VerifySlide(p)
      BY <1>3, <1>a, <2>3, CameFrom
    <3>2. h[p].tok \in Tokens /\ h'[p].tok = h[p].tok
      BY <3>1, <1>a DEF VerifyGet, VerifyMigrate, VerifySlide, At, Goto, HandlerType,
                        Holding, Verifying
    <3>3. CASE VerifyGet(p)
      <4>1. /\ age' = age /\ (key[h[p].tok] = "dated" => ~(age[h[p].tok] > Abs))
            /\ key[h[p].tok] \in {"bare", "dated"}
        BY <3>3, <3>2, <1>3, <1>a DEF VerifyGet, Goto, TooOld, HandlerType, store
      <4>2. QED
        BY <1>a, <1>b, <3>2, <4>1
    <3>4. CASE VerifyMigrate(p)
      BY <1>a, <3>2, <3>4 DEF VerifyMigrate
    <3>5. CASE VerifySlide(p)
      BY <1>a, <1>b, <3>2, <3>5 DEF VerifySlide, At
    <3>6. QED
      BY <3>1, <3>3, <3>4, <3>5
  <2>4. QED
    BY <2>1, <2>2, <2>3
<1>4. QED
  BY <1>1, <1>2, <1>3 DEF CeilingInv, CeilingHolds

(* No request is served with a session above the absolute ceiling, except   *)
(* one stored before sessions had a created_at.                             *)
THEOREM CeilingIsHeld == Spec => []CeilingHolds
<1>1. Init => CeilingInv
  BY DEF Init, CeilingInv, CeilingHolds, Idle, Tokens
<1>2. CeilingInv => CeilingHolds
  BY DEF CeilingInv
<1>3. QED
  BY <1>1, <1>2, CeilingStep, TypeInvHolds, PTL DEF Spec

----------------------------------------------------------------------------
(* Revocation.  A token is made once its login has stored it: nothing will  *)
(* store it again, but for a migration that has read its plain key.         *)
Made(t) ==
    /\ t \in issued \cup Legacy \cup Bare
    /\ \A p \in Handlers : h[p].pc = "setex" => h[p].tok # t

(* A session that was made was made for good.                               *)
LEMMA MadeStays ==
    ASSUME TypeInv, [Next]_vars, NEW t, Made(t)
    PROVE  Made(t)'
<1>a. HandlerInv /\ issued \subseteq New
  BY DEF TypeInv, HandlerInv
<1>1. issued \subseteq issued'
  BY <1>a, HandlerMoves DEF CreateExpire, VerifyChallenge
<1>2. ASSUME NEW p \in Handlers, h'[p].pc = "setex" PROVE h'[p].tok # t
  <2>1. CASE h'[p] = h[p]
    BY <1>2, <2>1 DEF Made
  <2>2. CASE h'[p] # h[p]
    <3>1. PICK u \in New \ issued :
            h' = [h EXCEPT ![p] = [Idle EXCEPT !.pc = "setex", !.tok = u]]
      BY <1>2, <1>a, <2>2, CameFrom DEF VerifyChallenge
    <3>2. h'[p].tok = u
      BY <3>1, <1>a DEF HandlerInv, Idle
    <3>3. QED
      BY <3>1, <3>2, SessionSets DEF Made
  <2>3. QED
    BY <2>1, <2>2
<1>3. QED
  BY <1>1, <1>2 DEF Made

(* A token in a client's hands belongs to a session that was made.          *)
LEMMA GivenIsMade == TypeInv => \A t \in given : Made(t)
BY DEF TypeInv, HandlerInv, Made, Creating

(* What revoke_all_sessions works on is what the index held.                *)
LEMMA ListMoves ==
    ASSUME TypeInv, [Next]_vars, NEW p \in Handlers
    PROVE  h'[p].list \in {h[p].list, {}} \/ (RevokeList(p) /\ h'[p].list = index)
<1>a. HandlerInv /\ h \in [Handlers -> HandlerType] /\ Idle.list = {}
  BY DEF TypeInv, HandlerInv, Idle
<1>1. ASSUME NEW q \in Handlers, Finish(q) PROVE h'[p].list \in {h[p].list, {}}
  BY <1>a, <1>1 DEF Finish
<1>2. ASSUME NEW q \in Handlers, NEW to, Goto(q, to) PROVE h'[p].list = h[p].list
  BY <1>a, <1>2 DEF Goto, HandlerType
<1>3. ASSUME NEW q \in Handlers, RevokeKeys(q) PROVE h'[p].list \in {h[p].list, {}}
  BY <1>a, <1>3 DEF RevokeKeys, Idle
<1>4. ASSUME NEW q \in Handlers, RevokeList(q)
      PROVE  h'[p].list = IF q = p THEN index ELSE h[p].list
  BY <1>a, <1>4 DEF RevokeList, HandlerType
<1>5. ASSUME NEW q \in Handlers, NEW c \in Challenges, VerifyChallenge(q, c)
      PROVE  h'[p].list \in {h[p].list, {}}
  BY <1>a, <1>5 DEF VerifyChallenge, Idle
<1>6. ASSUME NEW q \in Handlers, NEW t \in Tokens, NEW g \in Goals, Request(q, t, g)
      PROVE  h'[p].list \in {h[p].list, {}}
  BY <1>a, <1>6 DEF Request, Idle
<1>7. ASSUME NEW q \in Handlers, CreateExpire(q) PROVE h'[p].list \in {h[p].list, {}}
  BY <1>1, <1>7 DEF CreateExpire
<1>8. QED
  BY <1>a, <1>1, <1>2, <1>3, <1>4, <1>5, <1>6, <1>7, HandlerMoves

(* The keys over one step: only a login and a migration store one, and      *)
(* nothing is stored in plain again.                                        *)
LEMMA KeyMoves ==
    ASSUME TypeInv, [Next]_vars, NEW t \in Tokens
    PROVE  \/ key'[t] \in {key[t], "none"}
           \/ /\ key'[t] = "dated"
              /\ \E p \in Handlers : (CreateForward(p) \/ VerifyMigrate(p)) /\ h[p].tok = t
<1>a. key \in [Tokens -> {"none", "raw", "bare", "dated"}]
  BY DEF TypeInv, TypeOK
<1>1. QED
  BY <1>a, StoreMoves DEF store, CreateForward, VerifyMigrate, VerifySlide, Slide, DropKey,
                      RevokeKeys, Tick

(* Entries and lists name made tokens only, and the digest of no token      *)
(* that is still stored in plain.                                           *)
EntryInv ==
    /\ \A t \in Tokens, f \in {"raw", "digest"} :
         /\ <<f, t>> \in index => Made(t)
         /\ \A p \in Handlers : <<f, t>> \in h[p].list => Made(t)
    /\ \A t \in Tokens : key[t] = "raw" =>
         /\ t \in Legacy /\ <<"digest", t>> \notin index
         /\ \A p \in Handlers : <<"digest", t>> \notin h[p].list

(* Every step keeps the entries of the index those of sessions that were    *)
(* made.                                                                    *)
LEMMA EntryStep == TypeInv /\ EntryInv /\ [Next]_vars => EntryInv'
<1> SUFFICES ASSUME TypeInv, EntryInv, [Next]_vars PROVE EntryInv'
  OBVIOUS
<1>a. TypeInv' /\ HandlerInv
  BY TypeStep DEF TypeInv
<1>b. \A t \in Tokens : key'[t] = "raw" => key[t] = "raw"
  BY KeyMoves
<1>c. ASSUME NEW t \in Tokens, NEW f \in {"raw", "digest"}, <<f, t>> \in index',
             <<f, t>> \notin index
      PROVE  f = "digest" /\ \E p \in Handlers : /\ CreateReverse(p) \/ VerifyMigrate(p)
                                                 /\ h[p].tok = t
  BY <1>c, IndexMoves DEF reverse, CreateReverse, AddTo, CreateExpire, VerifyMigrate,
     VerifyCapIndex, VerifySlideIndex, LogoutIndex, RevokeIndex, DropEntries, Tick
<1>d. ASSUME NEW p \in Handlers, CreateReverse(p), NEW t \in Tokens, h[p].tok = t
      PROVE  Made(t)' /\ t \in New
  <2>1. h[p].pc = "sadd" /\ t \in issued
    BY <1>d, <1>a DEF CreateReverse, At, HandlerInv, Creating
  <2>2. Made(t)
    BY <1>d, <2>1, <1>a DEF Made, HandlerInv, Creating
  <2>3. QED
    BY <2>1, <2>2, <1>a, MadeStays DEF HandlerInv
<1>e. ASSUME NEW p \in Handlers, VerifyMigrate(p), NEW t \in Tokens, h[p].tok = t
      PROVE  Made(t)' /\ key'[t] = "dated"
  <2>1. t \in given
    BY <1>e, <1>a DEF VerifyMigrate, At, HandlerInv, Holding, Verifying
  <2>2. key'[t] = "dated"
    BY <1>e, <2>1 DEF VerifyMigrate, TypeInv, TypeOK
  <2>3. QED
    BY <2>1, <2>2, GivenIsMade, MadeStays
<1>1. ASSUME NEW t \in Tokens, NEW f \in {"raw", "digest"}, <<f, t>> \in index'
      PROVE  Made(t)'
  <2>1. CASE <<f, t>> \in index
    BY <2>1, MadeStays DEF EntryInv
  <2>2. CASE <<f, t>> \notin index
    BY <1>1, <1>c, <1>d, <1>e, <2>2
  <2>3. QED
    BY <2>1, <2>2
<1>2. ASSUME NEW t \in Tokens, NEW f \in {"raw", "digest"}, NEW p \in Handlers,
             <<f, t>> \in h'[p].list
      PROVE  Made(t)'
  <2>1. <<f, t>> \in h[p].list \/ <<f, t>> \in index
    BY <1>2, ListMoves
  <2>2. QED
    BY <2>1, MadeStays DEF EntryInv
<1>3. ASSUME NEW t \in Tokens, key'[t] = "raw"
      PROVE  /\ t \in Legacy /\ <<"digest", t>> \notin index'
             /\ \A p \in Handlers : <<"digest", t>> \notin h'[p].list
  <2>1. key[t] = "raw" /\ t \in Legacy /\ <<"digest", t>> \notin index
    BY <1>3, <1>b DEF EntryInv
  <2>2. <<"digest", t>> \notin index'
    BY <1>3, <1>c, <1>d, <1>e, <2>1, SessionSets
  <2>3. ASSUME NEW p \in Handlers PROVE <<"digest", t>> \notin h'[p].list
    BY <2>1, ListMoves DEF EntryInv
  <2>4. QED
    BY <2>1, <2>2, <2>3
<1>4. QED
  BY <1>1, <1>2, <1>3 DEF EntryInv

(* At first the index is empty.                                             *)
LEMMA EntryInvInit == Init => EntryInv
<1> SUFFICES ASSUME Init PROVE EntryInv
  OBVIOUS
<1>1. \A p \in Handlers : h[p].pc = "idle" /\ h[p].list = {}
  BY DEF Init, Idle
<1>2. \A t \in Tokens : key[t] = "raw" => t \in Legacy
  BY DEF Init
<1>3. \A t \in Tokens, f \in {"raw", "digest"} : <<f, t>> \in index =>
        /\ t \in Legacy \cup Bare
        /\ f = "digest" => t \in Bare
  BY DEF Init
<1>4. QED
  BY <1>1, <1>2, <1>3, SessionSets DEF EntryInv, Made

(* No migration of a token begins once its plain key has gone.              *)
LEMMA NoNewMigration ==
    ASSUME TypeInv, [Next]_vars, NEW t \in Tokens, key[t] # "raw", ~Migrating(t)
    PROVE  key'[t] # "raw" /\ ~Migrating(t)'
<1>a. HandlerInv /\ h \in [Handlers -> HandlerType]
  BY DEF TypeInv, HandlerInv
<1>1. ASSUME NEW p \in Handlers, h'[p].pc = "migrate", h'[p].tok = t PROVE FALSE
  <2>1. CASE h'[p] = h[p]
    BY <1>1, <2>1 DEF Migrating, At
  <2>2. CASE h'[p] # h[p]
    <3>1. VerifyGetRaw(p)
      BY <1>a, <1>1, <2>2, CameFrom
    <3>2. Goto(p, "migrate") /\ key[h[p].tok] = "raw"
      BY <1>a, <1>1, <3>1 DEF VerifyGetRaw, Finish, Idle
    <3>3. h'[p].tok = h[p].tok
      BY <1>a, <3>2 DEF Goto, HandlerType
    <3>4. QED
      BY <1>1, <3>2, <3>3
  <2>3. QED
    BY <2>1, <2>2
<1>2. QED
  BY <1>1, KeyMoves DEF Migrating, At

(* Once gone, and out of reach of the migrations under way, always gone.    *)
LEMMA GoneStays ==
    ASSUME TypeInv, [Next]_vars, NEW t \in Tokens, Made(t), ~Migrating(t), ~Stored(t)
    PROVE  Made(t)' /\ ~Stored(t)' /\ ~Migrating(t)'
<1>1. ~\E p \in Handlers : CreateForward(p) /\ h[p].tok = t
  BY DEF CreateForward, At, Made
<1>2. ~\E p \in Handlers : VerifyMigrate(p) /\ h[p].tok = t
  BY DEF VerifyMigrate, Migrating
<1>3. ~Stored(t)'
  BY <1>1, <1>2, KeyMoves DEF Stored
<1>4. QED
  BY <1>3, MadeStays, NoNewMigration DEF Stored

(* What was revoked is not stored, and nobody is about to store it.         *)
DeadInv ==
    /\ killed \subseteq Tokens
    /\ \A t \in killed : Made(t) /\ ~Stored(t) /\ ~Migrating(t)

(* No step brings a revoked session back.                                   *)
LEMMA DeadStep == TypeInv /\ EntryInv /\ DeadInv /\ [Next]_vars => DeadInv'
<1> SUFFICES ASSUME TypeInv, EntryInv, DeadInv, [Next]_vars PROVE DeadInv'
  OBVIOUS
<1>a. /\ HandlerInv /\ key \in [Tokens -> {"none", "raw", "bare", "dated"}]
      /\ h \in [Handlers -> HandlerType]
  BY DEF TypeInv, TypeOK, HandlerInv
(* A token revoked by this step is dead after it.                           *)
<1>1. ASSUME NEW p \in Handlers, LogoutDelete(p), NEW t, t = h[p].tok, ~Migrating(t)
      PROVE  t \in Tokens /\ Made(t)' /\ ~Stored(t)' /\ ~Migrating(t)'
  <2>1. t \in Tokens /\ t \in given
    BY <1>1, <1>a DEF LogoutDelete, At, HandlerInv, Holding, Tokens
  <2>2. key'[t] = "none"
    BY <1>1, <1>a, <2>1 DEF LogoutDelete, DropKey, Stored, store
  <2>3. \A q \in Handlers : h'[q].pc = "migrate" => h'[q].tok = h[q].tok /\ h[q].pc = "migrate"
    BY <1>1, <1>a DEF LogoutDelete, Goto, Finish, At, HandlerType, Idle
  <2>4. QED
    BY <1>1, <2>1, <2>2, <2>3, GivenIsMade, MadeStays DEF Stored, Migrating, At
<1>2. ASSUME NEW p \in Handlers, RevokeKeys(p), NEW t \in Tokens,
             <<"digest", t>> \in h[p].list, ~Migrating(t)
      PROVE  Made(t)' /\ ~Stored(t)' /\ ~Migrating(t)'
  <2>1. Made(t) /\ key[t] # "raw"
    BY <1>2 DEF EntryInv
  <2>2. key'[t] = "none"
    BY <1>2, <1>a, <2>1 DEF RevokeKeys, Stored, Form
  <2>3. \A q \in Handlers : h'[q].pc = "migrate" => h'[q].tok = h[q].tok /\ h[q].pc = "migrate"
    BY <1>2, <1>a DEF RevokeKeys, HandlerType, Idle
  <2>4. QED
    BY <1>2, <2>1, <2>2, <2>3, MadeStays DEF Stored, Migrating, At
<1>3. ASSUME NEW t \in killed', t \notin killed
      PROVE  \E p \in Handlers :
               \/ LogoutDelete(p) /\ t = h[p].tok /\ ~Migrating(t)
               \/ RevokeKeys(p) /\ t \in Tokens /\ <<"digest", t>> \in h[p].list
                  /\ ~Migrating(t)
  <2>1. \/ killed' = killed
        \/ \E p \in Handlers : LogoutDelete(p) \/ RevokeKeys(p)
    BY DEF Next, Step, RequestChallenge, VerifyChallenge, Request, CreateForward,
       CreateReverse, CreateExpire, VerifyGet, VerifyGetRaw, VerifyMigrate, VerifyCap,
       VerifyCapIndex, VerifySlide, VerifySlideIndex, LogoutIndex, RevokeList,
       RevokeIndex, Publish, IssueTicket, GoAway, ConnectToken, Fault, Subscribe,
       HearRevoked, Ping, Disconnect, ConnectTicket, Tick, vars, history
  <2>2. QED
    BY <1>3, <2>1 DEF LogoutDelete, RevokeKeys
<1>4. ASSUME NEW t \in killed' PROVE t \in Tokens /\ Made(t)' /\ ~Stored(t)' /\ ~Migrating(t)'
  <2>1. CASE t \in killed
    BY <2>1, GoneStays DEF DeadInv
  <2>2. CASE t \notin killed
    BY <1>4, <1>1, <1>2, <1>3, <2>2
  <2>3. QED
    BY <2>1, <2>2
<1>5. QED
  BY <1>4 DEF DeadInv

(* The entries are always those of sessions that were made.                 *)
LEMMA EntryInvHolds == Spec => []EntryInv
BY EntryInvInit, EntryStep, TypeInvHolds, PTL DEF Spec

(* A session that was logged out, or listed by a revoke_all, never works    *)
(* again, whatever requests were under way with it; one being migrated from *)
(* the plain scheme at that moment is not counted as revoked.               *)
THEOREM RevokedSessionsStayDead == Spec => []RevokedStaysDead
<1>1. Init => DeadInv
  BY DEF Init, DeadInv
<1>2. DeadInv => RevokedStaysDead
  BY DEF DeadInv, RevokedStaysDead
<1>3. QED
  BY <1>1, <1>2, DeadStep, EntryInvHolds, TypeInvHolds, PTL DEF Spec

----------------------------------------------------------------------------
(* The index.  Removals meet no session they should not: the ceiling drops  *)
(* entries of keys that have gone for good, and what revoke_all_sessions    *)
(* drops in plain has been listed and deleted.                              *)
RemovalInv ==
    /\ \A t \in New : key[t] \in {"none", "dated"}
    /\ \A p \in Handlers, t \in Tokens :
         /\ h[p].pc = "migrate" /\ h[p].tok = t => t \in Legacy /\ ~TooOld(t)
         /\ h[p].pc \in {"cap", "capix"} /\ h[p].tok = t =>
              key[t] # "raw" /\ ~Migrating(t)
         /\ h[p].pc = "capix" /\ h[p].tok = t => ~Stored(t)
         /\ h[p].pc = "delkeys" /\ <<"raw", t>> \in index => <<"raw", t>> \in h[p].list
         /\ h[p].pc = "delindex" /\ <<"raw", t>> \in index => key[t] # "raw"
         /\ h[p].pc = "expire" /\ h[p].tok = t /\ Stored(t) /\ t \notin orphaned =>
              <<"digest", t>> \in index

(* Every step keeps a removal from the index behind the removal of the      *)
(* session.                                                                 *)
LEMMA RemovalStep == TypeInv /\ EntryInv /\ RemovalInv /\ [Next]_vars => RemovalInv'
<1> SUFFICES ASSUME TypeInv, EntryInv, RemovalInv, [Next]_vars PROVE RemovalInv'
  OBVIOUS
<1>a. /\ HandlerInv /\ h \in [Handlers -> HandlerType] /\ Abs \in Nat
      /\ key \in [Tokens -> {"none", "raw", "bare", "dated"}]
      /\ age \in [Tokens -> 0 .. Abs + 1]
      /\ \A p \in Handlers :
           /\ h[p].pc \in Creating => h[p].tok \in New /\ h[p].tok \notin given
           /\ h[p].pc \in Holding => h[p].tok \in given
      /\ \A p \in Handlers : h[p].pc \in Creating \cup Holding => h[p].tok \in Tokens
  BY SessionNumbers DEF TypeInv, TypeOK, HandlerInv, Tokens
(* A request is moved by its own step, and keeps its token.                 *)
<1>b. ASSUME NEW p \in Handlers, NEW to, Goto(p, to) PROVE h'[p].tok = h[p].tok
  BY <1>a, <1>b DEF Goto, HandlerType
<1>c. ASSUME NEW p \in Handlers, h[p].pc # "idle" PROVE ~Tick
  BY <1>c DEF Tick, Idle
(* Plain entries only go.                                                   *)
<1>d. \A t \in Tokens : <<"raw", t>> \in index' => <<"raw", t>> \in index
  BY IndexMoves DEF reverse, CreateReverse, AddTo, CreateExpire, VerifyMigrate,
     VerifyCapIndex, VerifySlideIndex, LogoutIndex, RevokeIndex, DropEntries, Tick
<1>1. ASSUME NEW t \in New PROVE key'[t] \in {"none", "dated"}
  BY KeyMoves DEF RemovalInv, Tokens
<1>2. ASSUME NEW p \in Handlers, NEW t \in Tokens, h'[p].pc = "migrate", h'[p].tok = t
      PROVE  t \in Legacy /\ ~TooOld(t)'
  <2>1. CASE h'[p] = h[p]
    <3>1. t \in Legacy /\ ~TooOld(t) /\ ~Tick
      BY <1>2, <1>c, <2>1 DEF RemovalInv
    <3>2. \/ key'[t] = key[t] /\ age'[t] = age[t]
          \/ age'[t] = 0
      BY <1>a, <3>1, StoreMoves DEF store, CreateForward, VerifyMigrate, VerifySlide,
         Slide, DropKey, RevokeKeys
    <3>3. QED
      BY <1>a, <3>1, <3>2 DEF TooOld
  <2>2. CASE h'[p] # h[p]
    <3>1. VerifyGetRaw(p)
      BY <1>a, <1>2, <2>2, CameFrom
    <3>2. Goto(p, "migrate") /\ key[h[p].tok] = "raw" /\ UNCHANGED store
      BY <1>a, <1>2, <3>1 DEF VerifyGetRaw, Finish, Idle
    <3>3. h[p].tok = t /\ key[t] = "raw" /\ key' = key
      BY <1>2, <1>b, <3>2 DEF store
    <3>4. QED
      BY <3>3 DEF TooOld, EntryInv
  <2>3. QED
    BY <2>1, <2>2
<1>3. ASSUME NEW p \in Handlers, NEW t \in Tokens, h'[p].pc \in {"cap", "capix"},
             h'[p].tok = t
      PROVE  key'[t] # "raw" /\ ~Migrating(t)'
  <2>1. key[t] # "raw" /\ ~Migrating(t)
    <3>1. CASE h'[p] = h[p]
      BY <1>3, <3>1 DEF RemovalInv
    <3>2. CASE VerifyGet(p) /\ h'[p].pc = "cap"
      <4>1. TooOld(h[p].tok) /\ Goto(p, "cap")
        BY <1>a, <3>2 DEF VerifyGet, Goto, HandlerType
      <4>2. TooOld(t)
        BY <1>3, <1>b, <4>1
      <4>3. QED
        BY <4>2 DEF TooOld, RemovalInv, Migrating, At
    <3>3. CASE VerifyCap(p)
      <4>1. h[p].pc = "cap" /\ h[p].tok = t
        BY <1>3, <1>b, <3>3 DEF VerifyCap, At
      <4>2. QED
        BY <4>1 DEF RemovalInv
    <3>4. QED
      BY <1>3, <1>a, <3>1, <3>2, <3>3, CameFrom
  <2>2. QED
    BY <2>1, NoNewMigration
<1>4. ASSUME NEW p \in Handlers, NEW t \in Tokens, h'[p].pc = "capix", h'[p].tok = t
      PROVE  ~Stored(t)'
  <2>1. CASE h'[p] = h[p]
    <3>1. h[p].pc = "capix" /\ h[p].tok = t /\ t \in given
      BY <1>4, <1>a, <2>1 DEF Holding
    <3>2. ~Stored(t) /\ ~Migrating(t) /\ Made(t)
      BY <3>1, GivenIsMade DEF RemovalInv
    <3>3. QED
      BY <3>2, GoneStays
  <2>2. CASE h'[p] # h[p]
    <3>1. VerifyCap(p)
      BY <1>a, <1>4, <2>2, CameFrom
    <3>2. h[p].tok = t /\ DropKey(t)
      BY <1>4, <1>b, <3>1 DEF VerifyCap
    <3>3. QED
      BY <1>a, <3>2 DEF DropKey, Stored
  <2>3. QED
    BY <2>1, <2>2
<1>5. ASSUME NEW p \in Handlers, NEW t \in Tokens, h'[p].pc = "delkeys",
             <<"raw", t>> \in index'
      PROVE  <<"raw", t>> \in h'[p].list
  <2>1. CASE h'[p] = h[p]
    BY <1>5, <1>d, <2>1 DEF RemovalInv
  <2>2. CASE h'[p] # h[p]
    <3>1. RevokeList(p)
      BY <1>a, <1>5, <2>2, CameFrom
    <3>2. h'[p].list = index
      BY <1>a, <3>1 DEF RevokeList, HandlerType
    <3>3. QED
      BY <1>5, <1>d, <3>2
  <2>3. QED
    BY <2>1, <2>2
<1>6. ASSUME NEW p \in Handlers, NEW t \in Tokens, h'[p].pc = "delindex",
             <<"raw", t>> \in index'
      PROVE  key'[t] # "raw"
  <2>1. CASE h'[p] = h[p]
    <3>1. key[t] # "raw"
      BY <1>6, <1>d, <2>1 DEF RemovalInv
    <3>2. QED
      BY <3>1, KeyMoves
  <2>2. CASE h'[p] # h[p]
    <3>1. RevokeKeys(p)
      BY <1>a, <1>6, <2>2, CameFrom
    <3>2. <<"raw", t>> \in h[p].list
      BY <1>6, <1>d, <3>1 DEF RemovalInv, RevokeKeys, At
    <3>3. QED
      BY <1>a, <3>1, <3>2 DEF RevokeKeys, Stored, Form
  <2>3. QED
    BY <2>1, <2>2
<1>7. ASSUME NEW p \in Handlers, NEW t \in Tokens, h'[p].pc = "expire", h'[p].tok = t,
             Stored(t)', t \notin orphaned'
      PROVE  <<"digest", t>> \in index'
  <2>1. CASE h'[p] = h[p]
    <3>1. h[p].pc = "expire" /\ h[p].tok = t /\ t \in New /\ t \notin given /\ ~Tick
      BY <1>7, <1>a, <1>c, <2>1 DEF Creating
    <3>2. \A q \in Handlers : h[q].pc \in {"setex", "migrate", "capix", "srem"} => h[q].tok # t
      BY <1>a, <3>1 DEF HandlerInv, Creating, Holding, Verifying
    <3>3. Stored(t)
      BY <1>7, <3>2, KeyMoves DEF Stored, CreateForward, VerifyMigrate, At
    <3>4. orphaned \subseteq orphaned'
      BY DEF Next, Step, RequestChallenge, VerifyChallenge, Request, CreateForward,
         CreateReverse, CreateExpire, VerifyGet, VerifyGetRaw, VerifyMigrate, VerifyCap,
         VerifyCapIndex, VerifySlide, VerifySlideIndex, LogoutDelete, LogoutIndex,
         RevokeList, RevokeKeys, RevokeIndex, Publish, IssueTicket, GoAway,
         ConnectToken, Fault, Subscribe, HearRevoked, Ping, Disconnect, ConnectTicket,
         Tick, vars, history
    <3>5. <<"digest", t>> \in index
      BY <1>7, <3>1, <3>3, <3>4 DEF RemovalInv
    <3>6. \A q \in Handlers : ~RevokeIndex(q)
      BY <1>7, <3>3, <3>5 DEF RevokeIndex
    <3>7. QED
      BY <3>1, <3>2, <3>5, <3>6, IndexMoves DEF reverse, CreateReverse, AddTo,
         CreateExpire, VerifyMigrate, VerifyCapIndex, VerifySlideIndex, LogoutIndex,
         DropEntries, At
  <2>2. CASE h'[p] # h[p]
    <3>1. CreateReverse(p)
      BY <1>a, <1>7, <2>2, CameFrom
    <3>2. QED
      BY <1>7, <1>b, <3>1 DEF CreateReverse, AddTo
  <2>3. QED
    BY <2>1, <2>2
<1>8. QED
  BY <1>1, <1>2, <1>3, <1>4, <1>5, <1>6, <1>7 DEF RemovalInv

(* A usable session is listed, and the index will outlive it: a new one     *)
(* because the index outlives the ceiling counted from its creation, an     *)
(* older one because whoever uses it renews the index.                      *)
Covered(t) == t \in given \ orphaned /\ UsableFor(t) > 0
CoverInv ==
    /\ faults \in Nat
    /\ \A t \in Tokens : Covered(t) /\ (t \in New \/ faults = 0) =>
           /\ <<Form(t), t>> \in index
           /\ t \in New => indexLeft >= Abs + 1 - age[t]
           /\ t \notin New => \/ indexLeft >= UsableFor(t)
                              \/ \E p \in Handlers : /\ h[p].pc \in {"slide", "slideix"}
                                                     /\ h[p].tok = t

(* What becomes of one token while a request is served.                     *)
LEMMA TokenMoves ==
    ASSUME TypeInv, [Next]_vars, ~Tick, NEW t \in Tokens
    PROVE  \/ key'[t] = key[t] /\ age'[t] = age[t] /\ left'[t] = left[t]
           \/ key'[t] = "none" /\ left'[t] = 0
           \/ \E p \in Handlers : CreateForward(p) /\ h[p].tok = t
           \/ \E p \in Handlers : VerifyMigrate(p) /\ h[p].tok = t
           \/ /\ key'[t] = key[t] /\ age'[t] = age[t] /\ key[t] # "none"
              /\ \E p \in Handlers : VerifySlide(p) /\ h[p].tok = t
<1>a. /\ key \in [Tokens -> {"none", "raw", "bare", "dated"}]
      /\ left \in [Tokens -> 0 .. Ttl] /\ age \in [Tokens -> 0 .. Abs + 1]
  BY DEF TypeInv, TypeOK
<1>1. ASSUME NEW p \in Handlers, CreateForward(p) \/ VerifyMigrate(p), h[p].tok # t
      PROVE  key'[t] = key[t] /\ age'[t] = age[t] /\ left'[t] = left[t]
  BY <1>a, <1>1 DEF CreateForward, VerifyMigrate
<1>2. ASSUME NEW p \in Handlers, VerifySlide(p)
      PROVE  /\ key'[t] = key[t] /\ age'[t] = age[t]
             /\ h[p].tok # t => left'[t] = left[t]
             /\ h[p].tok = t /\ key[t] = "none" => left'[t] = 0
  BY <1>a, <1>2 DEF VerifySlide, Slide, Stored
<1>3. ASSUME NEW p \in Handlers, DropKey(h[p].tok) \/ RevokeKeys(p)
      PROVE  \/ key'[t] = key[t] /\ age'[t] = age[t] /\ left'[t] = left[t]
             \/ key'[t] = "none" /\ left'[t] = 0
  BY <1>a, <1>3 DEF DropKey, RevokeKeys
<1>4. CASE UNCHANGED store
  BY <1>4 DEF store
<1>5. QED
  BY <1>1, <1>2, <1>3, <1>4, StoreMoves

(* While a request is served the TTL of an index with entries is kept or    *)
(* renewed.                                                                 *)
LEMMA IndexKept ==
    ASSUME TypeInv, [Next]_vars, ~Tick, index # {}, index' # {}
    PROVE  indexLeft' \in {indexLeft, IndexTtl, Forever}
BY IndexMoves DEF reverse, CreateReverse, AddTo, CreateExpire, VerifyMigrate,
   VerifyCapIndex, VerifySlideIndex, SlidIndex, LogoutIndex, RevokeIndex, DropEntries

(* Every step keeps a live session in the index, or the exception recorded. *)
LEMMA CoverStep ==
    TypeInv /\ EntryInv /\ RemovalInv /\ CoverInv /\ [Next]_vars => CoverInv'
<1> SUFFICES ASSUME TypeInv, EntryInv, RemovalInv, CoverInv, [Next]_vars
             PROVE  CoverInv'
  OBVIOUS
<1>a. /\ HandlerInv /\ h \in [Handlers -> HandlerType]
      /\ key \in [Tokens -> {"none", "raw", "bare", "dated"}]
      /\ left \in [Tokens -> 0 .. Ttl] /\ age \in [Tokens -> 0 .. Abs + 1]
      /\ \A t \in Tokens : left[t] > 0 <=> key[t] # "none"
      /\ indexLeft \in 0 .. Abs + 2 /\ (indexLeft > 0 <=> index # {})
      /\ Abs \in Nat /\ Ttl \in Nat \ {0} /\ Ttl <= Abs
      /\ Forever = Abs + 2 /\ IndexTtl = Abs + 1 /\ faults \in Nat
  <2>1. Forever = Abs + 2 /\ IndexTtl = Abs + 1 /\ Abs \in Nat
    BY SessionNumbers DEF Forever, IndexTtl
  <2>2. QED
    BY <2>1, SessionNumbers DEF TypeInv, TypeOK, HandlerInv, CoverInv, Stored
<1>b. ASSUME NEW p \in Handlers, NEW to, Goto(p, to) PROVE h'[p].tok = h[p].tok
  BY <1>a, <1>b DEF Goto, HandlerType
<1>c. faults' = faults \/ faults' = faults + 1
  BY DEF Next, Step, RequestChallenge, VerifyChallenge, Request, CreateForward,
     CreateReverse, CreateExpire, VerifyGet, VerifyGetRaw, VerifyMigrate, VerifyCap,
     VerifyCapIndex, VerifySlide, VerifySlideIndex, LogoutDelete, LogoutIndex,
     RevokeList, RevokeKeys, RevokeIndex, Publish, IssueTicket, GoAway, ConnectToken,
     Fault, Subscribe, HearRevoked, Ping, Disconnect, ConnectTicket, Tick, vars
<1>d. orphaned \subseteq orphaned'
  BY DEF Next, Step, RequestChallenge, VerifyChallenge, Request, CreateForward,
     CreateReverse, CreateExpire, VerifyGet, VerifyGetRaw, VerifyMigrate, VerifyCap,
     VerifyCapIndex, VerifySlide, VerifySlideIndex, LogoutDelete, LogoutIndex,
     RevokeList, RevokeKeys, RevokeIndex, Publish, IssueTicket, GoAway, ConnectToken,
     Fault, Subscribe, HearRevoked, Ping, Disconnect, ConnectTicket, Tick, vars, history
<1>e. faults' \in Nat /\ (faults' = 0 => faults = 0)
  BY <1>a, <1>c
<1> SUFFICES ASSUME NEW t \in Tokens, t \in given' \ orphaned', UsableFor(t)' > 0,
                    t \in New \/ faults' = 0
             PROVE  /\ <<Form(t)', t>> \in index'
                    /\ t \in New => indexLeft' >= Abs + 1 - age'[t]
                    /\ t \notin New =>
                         \/ indexLeft' >= UsableFor(t)'
                         \/ \E p \in Handlers : /\ h'[p].pc \in {"slide", "slideix"}
                                                /\ h'[p].tok = t
  BY <1>e DEF CoverInv, Covered
<1>f. /\ left'[t] > 0 /\ left'[t] \in 0 .. Ttl /\ age'[t] \in 0 .. Abs + 1
      /\ key'[t] \in {"raw", "bare", "dated"} /\ UsableFor(t)' <= left'[t]
      /\ key'[t] = "dated" => /\ age'[t] <= Abs /\ UsableFor(t)' <= Abs + 1 - age'[t]
  <2>1. /\ left'[t] \in 0 .. Ttl /\ age'[t] \in 0 .. Abs + 1
        /\ (left'[t] > 0 <=> key'[t] # "none")
        /\ key'[t] \in {"none", "raw", "bare", "dated"}
    BY TypeStep DEF TypeInv, TypeOK, Stored
  <2>2. UsableFor(t)' = IF key'[t] = "dated" /\ Abs + 1 - age'[t] < left'[t]
                        THEN Abs + 1 - age'[t] ELSE left'[t]
    BY DEF UsableFor
  <2>3. QED
    BY <1>a, <2>1, <2>2
(* A session that was usable before, with the key it had.                   *)
<1>1. ASSUME ~Tick, t \in given, key'[t] = key[t], age'[t] = age[t]
      PROVE  /\ key[t] # "none" /\ <<Form(t), t>> \in index
             /\ t \in New => indexLeft >= Abs + 1 - age[t]
             /\ t \notin New =>
                  \/ indexLeft >= UsableFor(t)
                  \/ \E p \in Handlers : h[p].pc \in {"slide", "slideix"} /\ h[p].tok = t
  <2>1. left[t] > 0 /\ (key[t] = "dated" => age[t] <= Abs)
    BY <1>a, <1>f, <1>1
  <2>2. UsableFor(t) > 0
    BY <1>a, <2>1 DEF UsableFor
  <2>3. Covered(t)
    BY <1>d, <1>1, <2>2 DEF Covered
  <2>4. QED
    BY <1>a, <1>e, <2>1, <2>3 DEF CoverInv
(* It keeps its entry.                                                      *)
<1>2. ASSUME ~Tick, t \in given, key'[t] = key[t], age'[t] = age[t]
      PROVE  /\ <<Form(t)', t>> \in index' /\ <<Form(t), t>> \in index
             /\ indexLeft' \in {indexLeft, IndexTtl, Forever}
  <2>1. Form(t)' = Form(t) /\ Form(t) \in {"raw", "digest"}
    BY <1>2 DEF Form
  <2>2. \A p \in Handlers : VerifyCapIndex(p) => h[p].tok # t
    BY <1>1, <1>2 DEF VerifyCapIndex, At, RemovalInv, Stored
  <2>3. \A p \in Handlers : LogoutIndex(p) => h[p].tok # t
    BY <1>1, <1>2 DEF LogoutIndex, Stored
  <2>4. \A p \in Handlers : ~RevokeIndex(p)
    <3>1. ASSUME NEW p \in Handlers, RevokeIndex(p) PROVE FALSE
      <4>1. h[p].pc = "delindex" /\ <<"digest", t>> \notin index
        BY <1>1, <1>2, <3>1 DEF RevokeIndex, At, Stored
      <4>2. Form(t) = "raw" /\ key[t] = "raw"
        BY <1>1, <1>2, <4>1 DEF Form
      <4>3. QED
        BY <1>1, <1>2, <4>1, <4>2 DEF RemovalInv
    <3>2. QED
      BY <3>1
  <2>5. \A p \in Handlers : VerifyMigrate(p) => h[p].tok # t \/ Form(t) = "digest"
    BY <1>a, <1>2 DEF VerifyMigrate, Form
  <2>6. <<Form(t), t>> \in index'
    BY <1>1, <1>2, <2>1, <2>2, <2>3, <2>4, <2>5, IndexMoves DEF reverse, CreateReverse,
       AddTo, CreateExpire, VerifyMigrate, VerifyCapIndex, VerifySlideIndex, LogoutIndex,
       DropEntries
  <2>7. QED
    BY <1>1, <1>2, <2>1, <2>6, IndexKept
(* It was not touched.                                                      *)
<1>3. ASSUME ~Tick, t \in given, key'[t] = key[t], age'[t] = age[t], left'[t] = left[t]
      PROVE  t \notin New =>
                         \/ indexLeft' >= UsableFor(t)'
                         \/ \E p \in Handlers : /\ h'[p].pc \in {"slide", "slideix"}
                                                /\ h'[p].tok = t
  <2> SUFFICES ASSUME t \notin New
               PROVE  \/ indexLeft' >= UsableFor(t)'
                      \/ \E p \in Handlers : /\ h'[p].pc \in {"slide", "slideix"}
                                             /\ h'[p].tok = t
    OBVIOUS
  <2>1. UsableFor(t)' = UsableFor(t) /\ UsableFor(t)' <= Ttl /\ UsableFor(t) \in Int
    BY <1>a, <1>f, <1>3 DEF UsableFor
  <2>2. CASE indexLeft >= UsableFor(t)
    BY <1>a, <1>2, <1>3, <2>1, <2>2
  <2>3. ASSUME NEW p \in Handlers, h[p].pc \in {"slide", "slideix"}, h[p].tok = t
        PROVE  \/ indexLeft' >= UsableFor(t)'
               \/ h'[p].pc \in {"slide", "slideix"} /\ h'[p].tok = t
    <3>1. CASE h'[p] = h[p]
      BY <2>3, <3>1
    <3>2. CASE Step(p) \/ Fault(p)
      <4>1. VerifySlide(p) \/ VerifySlideIndex(p)
        <5>1. ~Fault(p)
          BY <1>a, <1>e DEF Fault
        <5>2. QED
          BY <2>3, <3>2, <5>1 DEF Step, At, CreateForward, CreateReverse, CreateExpire,
             VerifyGet, VerifyGetRaw, VerifyMigrate, VerifyCap, VerifyCapIndex,
             LogoutDelete, LogoutIndex, RevokeList, RevokeKeys, RevokeIndex, Publish,
             IssueTicket, GoAway, ConnectToken
      <4>2. CASE VerifySlide(p)
        BY <1>a, <1>b, <2>3, <4>2, OwnTargets DEF VerifySlide
      <4>3. CASE VerifySlideIndex(p)
        <5>1. indexLeft' = IndexTtl
          BY <1>1, <1>3, <4>3 DEF VerifySlideIndex, SlidIndex
        <5>2. QED
          BY <1>a, <2>1, <5>1
      <4>4. QED
        BY <4>1, <4>2, <4>3
    <3>3. QED
      BY <1>a, <2>3, <3>1, <3>2, OwnSteps
  <2>4. QED
    BY <1>1, <1>3, <2>2, <2>3
<1>4. ASSUME ~Tick, t \in given
      PROVE  /\ <<Form(t)', t>> \in index'
             /\ t \in New => indexLeft' >= Abs + 1 - age'[t]
             /\ t \notin New =>
                         \/ indexLeft' >= UsableFor(t)'
                         \/ \E p \in Handlers : /\ h'[p].pc \in {"slide", "slideix"}
                                                /\ h'[p].tok = t
  <2>1. ASSUME key'[t] = key[t], age'[t] = age[t]
        PROVE  /\ <<Form(t)', t>> \in index'
               /\ t \in New => indexLeft' >= Abs + 1 - age'[t]
    BY <1>a, <1>1, <1>2, <1>4, <2>1
  <2>2. CASE key'[t] = key[t] /\ age'[t] = age[t] /\ left'[t] = left[t]
    BY <1>3, <1>4, <2>1, <2>2
  <2>3. CASE key'[t] = "none"
    BY <1>f, <2>3
  <2>4. ASSUME NEW p \in Handlers, CreateForward(p), h[p].tok = t PROVE FALSE
    BY <1>a, <1>4, <2>4 DEF CreateForward, At, HandlerInv, Creating
  <2>5. ASSUME NEW p \in Handlers, VerifyMigrate(p), h[p].tok = t
        PROVE  /\ <<Form(t)', t>> \in index' /\ t \notin New
               /\ h'[p].pc = "slide" /\ h'[p].tok = t
    <3>1. t \in Legacy
      BY <2>5 DEF VerifyMigrate, At, RemovalInv
    <3>2. key'[t] = "dated" /\ <<"digest", t>> \in index'
      BY <1>a, <2>5 DEF VerifyMigrate
    <3>3. h'[p].pc = "slide" /\ h'[p].tok = t
      BY <1>a, <1>b, <2>5, OwnTargets DEF VerifyMigrate
    <3>4. QED
      BY <3>1, <3>2, <3>3, SessionSets DEF Form
  <2>6. ASSUME NEW p \in Handlers, VerifySlide(p), h[p].tok = t
        PROVE  h'[p].pc = "slideix" /\ h'[p].tok = t
    BY <1>a, <1>b, <2>6, OwnTargets DEF VerifySlide
  <2>7. QED
    BY <1>4, <2>1, <2>2, <2>3, <2>4, <2>5, <2>6, TokenMoves
(* It is handed over by this step.                                          *)
<1>5. ASSUME ~Tick, t \notin given
      PROVE  /\ <<Form(t)', t>> \in index' /\ t \in New
             /\ indexLeft' >= Abs + 1 - age'[t]
  <2>1. PICK p \in Handlers : CreateExpire(p) /\ h[p].tok = t
    <3>1. \E p \in Handlers : CreateExpire(p)
      BY <1>a, <1>5, HandlerMoves DEF VerifyChallenge
    <3>2. QED
      BY <1>5, <3>1 DEF CreateExpire
  <2>2. t \in New /\ h[p].pc = "expire"
    BY <1>a, <2>1 DEF CreateExpire, At, HandlerInv, Creating
  <2>3. key' = key /\ age' = age /\ index' = index /\ orphaned' = orphaned
    BY <2>1 DEF CreateExpire, store
  <2>4. Stored(t) /\ key[t] = "dated"
    BY <1>f, <2>2, <2>3 DEF RemovalInv, Stored
  <2>5. <<"digest", t>> \in index
    BY <2>1, <2>2, <2>3, <2>4 DEF RemovalInv
  <2>6. indexLeft' = IndexTtl
    BY <2>1, <2>5 DEF CreateExpire
  <2>7. QED
    BY <1>a, <1>f, <2>2, <2>3, <2>4, <2>5, <2>6 DEF Form
(* Time passes: one unit for the session and for the index.                 *)
<1>6. ASSUME Tick
      PROVE  /\ <<Form(t)', t>> \in index'
             /\ t \in New => indexLeft' >= Abs + 1 - age'[t]
             /\ t \notin New => indexLeft' >= UsableFor(t)'
  <2>1. /\ left'[t] = IF left[t] > 0 THEN left[t] - 1 ELSE 0
        /\ key'[t] = IF left[t] <= 1 THEN "none" ELSE key[t]
        /\ age'[t] = IF left[t] <= 1 THEN 0
                     ELSE IF age[t] > Abs THEN age[t] ELSE age[t] + 1
        /\ given' = given
        /\ indexLeft' = IF indexLeft \in 1 .. IndexTtl THEN indexLeft - 1 ELSE indexLeft
        /\ index' = IF indexLeft = 1 THEN {} ELSE index
        /\ \A p \in Handlers : h[p].pc = "idle"
    BY <1>6 DEF Tick, Idle, history
  <2>2. left[t] > 1 /\ key'[t] = key[t] /\ left'[t] = left[t] - 1
    BY <1>a, <1>f, <2>1
  <2>3. key[t] = "dated" => age'[t] = age[t] + 1
    BY <1>a, <1>f, <2>1, <2>2
  <2>4. UsableFor(t)' = UsableFor(t) - 1 /\ UsableFor(t) \in Int
    BY <1>a, <2>2, <2>3 DEF UsableFor
  <2>5. Covered(t)
    BY <1>d, <2>1, <2>4 DEF Covered
  <2>6. /\ <<Form(t), t>> \in index
        /\ t \in New => indexLeft >= Abs + 1 - age[t]
        /\ t \notin New => indexLeft >= UsableFor(t)
    BY <1>e, <2>1, <2>5 DEF CoverInv
  <2>7. t \in New => key[t] = "dated" /\ UsableFor(t) <= Abs + 1 - age[t]
    BY <1>a, <1>f, <2>2 DEF RemovalInv, UsableFor
  <2>8. indexLeft >= UsableFor(t)
    BY <1>a, <2>4, <2>6, <2>7
  <2>9. indexLeft > 1 /\ index' = index /\ indexLeft' >= indexLeft - 1
    BY <1>a, <2>1, <2>4, <2>8
  <2>10. Form(t)' = Form(t)
    BY <2>2 DEF Form
  <2>11. t \in New => indexLeft' >= Abs + 1 - age'[t]
    BY <1>a, <2>1, <2>3, <2>6, <2>7, <2>9
  <2>12. indexLeft' >= UsableFor(t)'
    BY <1>a, <2>1, <2>4, <2>8, <2>9
  <2>13. QED
    BY <2>6, <2>9, <2>10, <2>11, <2>12
<1>7. QED
  BY <1>4, <1>5, <1>6

(* At first there is no session.                                            *)
LEMMA CoverInvInit == Init => RemovalInv /\ CoverInv
<1> SUFFICES ASSUME Init PROVE RemovalInv /\ CoverInv
  OBVIOUS
<1>1. \A p \in Handlers : h[p].pc = "idle"
  BY DEF Init, Idle
<1>2. \A t \in New : key[t] = "none" /\ left[t] = 0 /\ t \notin given
  BY SessionSets DEF Init, Tokens
<1>3. RemovalInv
  BY <1>1, <1>2 DEF RemovalInv
<1>4. ASSUME NEW t \in Tokens, Covered(t)
      PROVE  t \notin New /\ <<Form(t), t>> \in index /\ indexLeft >= UsableFor(t)
  <2>1. t \in Legacy \cup Bare /\ t \notin New
    BY <1>2, <1>4 DEF Covered, Tokens
  <2>2. key[t] = IF t \in Legacy THEN "raw" ELSE "bare"
    BY <2>1, SessionSets DEF Init, Tokens
  <2>3. <<Form(t), t>> \in index
    BY <2>1, <2>2 DEF Init, Form
  <2>4. UsableFor(t) = Ttl /\ indexLeft = Ttl + 1 /\ Ttl \in Nat
    <3>1. key[t] # "dated" /\ left[t] = Ttl /\ index # {}
      BY <2>1, <2>2, <2>3 DEF Init, Tokens
    <3>2. QED
      BY <3>1, SessionNumbers DEF Init, UsableFor
  <2>5. QED
    BY <2>1, <2>3, <2>4
<1>5. CoverInv
  BY <1>4 DEF CoverInv, Init
<1>6. QED
  BY <1>3, <1>5

(* A session a client can use is in the reverse index, and between requests *)
(* the index outlives it, so that revoke_all_sessions finds it.             *)
THEOREM IndexCoversLiveHolds == Spec => []IndexCoversLive
<1>1. TypeInv /\ RemovalInv /\ CoverInv => IndexCoversLive
  <2> SUFFICES ASSUME TypeInv, RemovalInv, CoverInv, NEW t \in given \ orphaned,
                      UsableFor(t) > 0, t \in New \/ faults = 0
               PROVE  /\ <<Form(t), t>> \in index
                      /\ (\A p \in Handlers : h[p] = Idle) => indexLeft >= UsableFor(t)
    BY DEF IndexCoversLive
  <2>a. /\ t \in Tokens /\ age[t] \in 0 .. Abs + 1 /\ left[t] \in 0 .. Ttl
        /\ (left[t] > 0 <=> key[t] # "none") /\ Abs \in Nat /\ Ttl \in Nat
        /\ indexLeft \in Int
    BY SessionNumbers DEF TypeInv, TypeOK, HandlerInv, Tokens, Stored, Forever, IndexTtl
  <2>1. /\ <<Form(t), t>> \in index
        /\ t \in New => indexLeft >= Abs + 1 - age[t]
        /\ t \notin New => \/ indexLeft >= UsableFor(t)
                           \/ \E p \in Handlers : h[p].pc \in {"slide", "slideix"}
    BY <2>a DEF CoverInv, Covered
  <2>2. t \in New => key[t] = "dated" /\ UsableFor(t) <= Abs + 1 - age[t] /\ UsableFor(t) \in Int
    BY <2>a DEF RemovalInv, UsableFor
  <2>3. CASE t \in New
    BY <2>1, <2>2, <2>3, <2>a
  <2>4. CASE t \notin New
    BY <2>1, <2>4 DEF Idle
  <2>5. QED
    BY <2>3, <2>4
<1>2. QED
  BY <1>1, CoverInvInit, RemovalStep, CoverStep, EntryInvHolds, TypeInvHolds, PTL DEF Spec
=============================================================================

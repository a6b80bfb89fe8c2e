----------------------- MODULE GroupMembershipProofs -----------------------
(* Proofs about GroupMembership, for any number of users, tokens and        *)
(* concurrent requests and any limits.                                      *)
EXTENDS GroupMembership, FiniteSetTheorems, TLAPS

(* Adding an element counts one more at most; a subset counts no more.      *)
LEMMA OneMore ==
    ASSUME NEW S, NEW x, IsFiniteSet(S)
    PROVE  /\ IsFiniteSet(S \cup {x})
           /\ Cardinality(S) \in Nat /\ Cardinality(S \cup {x}) \in Nat
           /\ Cardinality(S \cup {x}) <= Cardinality(S) + 1
<1>1. Cardinality(S) \in Nat
  BY FS_CardinalityType
<1>2. /\ IsFiniteSet(S \cup {x})
      /\ Cardinality(S \cup {x}) =
           IF x \in S THEN Cardinality(S) ELSE Cardinality(S) + 1
  BY FS_AddElement
<1>3. QED
  BY <1>1, <1>2

(* A subset of a finite set has no more elements.                           *)
LEMMA NoMore ==
    ASSUME NEW S, IsFiniteSet(S), NEW T \in SUBSET S
    PROVE  /\ IsFiniteSet(T)
           /\ Cardinality(S) \in Nat /\ Cardinality(T) \in Nat
           /\ Cardinality(T) <= Cardinality(S)
BY FS_Subset, FS_CardinalityType

(* A set without two elements counts one at most.                           *)
LEMMA AtMostOne ==
    ASSUME NEW S, \A x, y \in S : x = y
    PROVE  Cardinality(S) <= 1
<1>1. CASE S = {}
  BY <1>1, FS_EmptySet
<1>2. CASE S # {}
  <2>1. PICK x : x \in S
    BY <1>2
  <2>2. S = {x}
    BY <2>1
  <2>3. Cardinality(S) = 1
    BY <2>2, FS_Singleton
  <2>4. QED
    BY <2>3
<1>3. QED
  BY <1>1, <1>2

(* The handler between requests is of its type.                             *)
LEMMA IdleType == Idle \in HandlerType
BY MemberSets DEF Idle, HandlerType, Labels

(* Every action keeps the types.                                            *)
LEMMA TypeStep == TypeOK /\ [Next]_vars => TypeOK'
<1> SUFFICES ASSUME TypeOK, [Next]_vars PROVE TypeOK'
  OBVIOUS
<1> USE MemberSets, MemberNumbers, IdleType DEF TypeOK, HandlerType, Labels, At,
        Start, Goto, Finish, Asked, Loaded, LoadedByAdmin, Unlock, Alive, store,
        history
<1>1. ASSUME CreateGroup \/ DeleteGroup PROVE TypeOK'
  BY <1>1 DEF CreateGroup, DeleteGroup
<1>2. ASSUME NEW u \in Users, ReapMember(u) PROVE TypeOK'
  BY <1>2 DEF ReapMember
<1>3. ASSUME NEW t \in Tokens, TokenExpires(t) PROVE TypeOK'
  BY <1>3 DEF TokenExpires
<1>4. ASSUME NEW h \in Handlers, Ask(h) PROVE TypeOK'
  <2>1. ASSUME NEW u \in Users, AddLoad(h, u) PROVE TypeOK'
    BY <2>1 DEF AddLoad
  <2>2. ASSUME NEW u \in Users, RemoveLoad(h, u) PROVE TypeOK'
    BY <2>2 DEF RemoveLoad
  <2>3. ASSUME NEW t \in Tokens, RevokeLoad(h, t) PROVE TypeOK'
    BY <2>3 DEF RevokeLoad
  <2>4. ASSUME NEW t \in Tokens, NEW u \in Users, JoinConsume(h, u, t) PROVE TypeOK'
    BY <2>4 DEF JoinConsume
  <2>5. ASSUME InviteLoad(h) PROVE TypeOK'
    BY <2>5 DEF InviteLoad
  <2>6. ASSUME ListRead(h) PROVE TypeOK'
    BY <2>6 DEF ListRead
  <2>7. QED
    BY <1>4, <2>1, <2>2, <2>3, <2>4, <2>5, <2>6 DEF Ask
<1>5. ASSUME NEW h \in Handlers, Step(h) PROVE TypeOK'
  <2>1. ASSUME AddLock(h) PROVE TypeOK'
    BY <2>1 DEF AddLock, Idle
  <2>2. ASSUME AddCommit(h) PROVE TypeOK'
    BY <2>2 DEF AddCommit, Idle
  <2>3. ASSUME RemoveCommit(h) PROVE TypeOK'
    BY <2>3 DEF RemoveCommit, Idle
  <2>4. ASSUME InviteRefused(h) PROVE TypeOK'
    BY <2>4 DEF InviteRefused, Idle
  <2>5. ASSUME NEW t \in Tokens, InviteCreate(h, t) PROVE TypeOK'
    BY <2>5 DEF InviteCreate, Idle
  <2>6. ASSUME RevokeExec(h) PROVE TypeOK'
    BY <2>6 DEF RevokeExec, Idle
  <2>7. ASSUME ListClean(h) PROVE TypeOK'
    BY <2>7 DEF ListClean, Idle
  <2>8. ASSUME JoinLoad(h) PROVE TypeOK'
    BY <2>8 DEF JoinLoad, Idle
  <2>9. ASSUME JoinCommit(h) PROVE TypeOK'
    BY <2>9 DEF JoinCommit, Idle
  <2>10. QED
    BY <1>5, <2>1, <2>2, <2>3, <2>4, <2>5, <2>6, <2>7, <2>8, <2>9 DEF Step
<1>6. ASSUME NEW h \in Handlers, Rollback(h) PROVE TypeOK'
  BY <1>6 DEF Rollback, Idle
<1>7. ASSUME UNCHANGED vars PROVE TypeOK'
  BY <1>7 DEF vars
<1>8. QED
  BY <1>1, <1>2, <1>3, <1>4, <1>5, <1>6, <1>7 DEF Next

(* The membership tables, the keys and the handlers keep their shape, and   *)
(* the row lock is held exactly by the handler about to insert.             *)
THEOREM MembershipTypeCorrect == Spec => []TypeOK
<1>1. Init => TypeOK
  <2> SUFFICES ASSUME Init PROVE TypeOK
    OBVIOUS
  <2>1. \A h \in Handlers : rowLock # h /\ ~At(h, "insert")
    BY MemberSets DEF Init, At, Idle
  <2>2. handler \in [Handlers -> HandlerType]
    BY IdleType DEF Init
  <2>3. /\ token \in [Tokens -> {"new", "alive", "gone"}]
        /\ admitted \in [Tokens -> SUBSET Users]
    BY DEF Init
  <2>4. requests \in 0 .. MaxRequests
    BY MemberNumbers DEF Init
  <2>5. raced \in BOOLEAN
    BY DEF Init
  <2>6. /\ group \in {"new", "live", "deleted"} /\ members \subseteq Users
        /\ rowLock \in Handlers \cup {"free"} /\ listed \subseteq Tokens
        /\ revoked \subseteq Tokens
    BY DEF Init
  <2>7. QED
    BY <2>1, <2>2, <2>3, <2>4, <2>5, <2>6 DEF TypeOK
<1>2. QED
  BY <1>1, TypeStep, PTL DEF Spec

----------------------------------------------------------------------------
(* A join holds a token from its GETDEL until it commits or fails.          *)
Holds(h, t) == handler[h].pc \in {"consumed", "join"} /\ t \in handler[h].toks

(* A token that can still be redeemed has not been used in any way; a used  *)
(* one is held by one request, or was revoked, or admitted somebody, and    *)
(* never two of these.                                                      *)
TokenInv ==
    /\ \A t \in Tokens : token[t] # "gone" =>
           /\ admitted[t] = {} /\ t \notin revoked
           /\ \A h \in Handlers : ~Holds(h, t)
    /\ \A h \in Handlers, t \in Tokens : Holds(h, t) =>
           admitted[t] = {} /\ t \notin revoked
    /\ \A h, g \in Handlers, t \in Tokens : Holds(h, t) /\ Holds(g, t) => h = g
    /\ \A t \in revoked : admitted[t] = {}
    /\ \A t \in Tokens : \A u, v \in admitted[t] : u = v

(* At first no token was spent.                                             *)
LEMMA TokenInit == Init => TokenInv
BY DEF Init, TokenInv, Holds, Idle

(* Every step keeps a spent token out of every other hand.                  *)
LEMMA TokenStep == TypeOK /\ TypeOK' /\ TokenInv /\ [Next]_vars => TokenInv'
<1> SUFFICES ASSUME TypeOK, TypeOK', TokenInv, [Next]_vars PROVE TokenInv'
  OBVIOUS
<1> USE DEF TypeOK, HandlerType, TokenInv, Holds, At, Start, Goto, Finish, Asked,
        store, history
<1>1. ASSUME CreateGroup \/ DeleteGroup PROVE TokenInv'
  BY <1>1 DEF CreateGroup, DeleteGroup
<1>2. ASSUME NEW u \in Users, ReapMember(u) PROVE TokenInv'
  BY <1>2 DEF ReapMember
<1>3. ASSUME NEW t \in Tokens, TokenExpires(t) PROVE TokenInv'
  BY <1>3 DEF TokenExpires
<1>4. ASSUME NEW h \in Handlers, Ask(h) PROVE TokenInv'
  <2>1. ASSUME NEW u \in Users, AddLoad(h, u) PROVE TokenInv'
    BY <2>1 DEF AddLoad
  <2>2. ASSUME NEW u \in Users, RemoveLoad(h, u) PROVE TokenInv'
    BY <2>2 DEF RemoveLoad
  <2>3. ASSUME NEW t \in Tokens, RevokeLoad(h, t) PROVE TokenInv'
    BY <2>3 DEF RevokeLoad
  <2>4. ASSUME NEW t \in Tokens, NEW u \in Users, JoinConsume(h, u, t)
        PROVE  TokenInv'
    BY <2>4 DEF JoinConsume
  <2>5. ASSUME InviteLoad(h) PROVE TokenInv'
    BY <2>5 DEF InviteLoad
  <2>6. ASSUME ListRead(h) PROVE TokenInv'
    BY <2>6 DEF ListRead
  <2>7. QED
    BY <1>4, <2>1, <2>2, <2>3, <2>4, <2>5, <2>6 DEF Ask
<1>5. ASSUME NEW h \in Handlers, Step(h) PROVE TokenInv'
  <2>1. ASSUME AddLock(h) PROVE TokenInv'
    <3>1. /\ UNCHANGED <<token, admitted, revoked>>
          /\ \A g \in Handlers : \/ handler'[g] = handler[g]
                                 \/ handler'[g].pc \in {"idle", "insert"}
      BY <2>1 DEF AddLock, Idle
    <3>2. QED
      BY <3>1
  <2>2. ASSUME AddCommit(h) PROVE TokenInv'
    BY <2>2 DEF AddCommit, Idle
  <2>3. ASSUME RemoveCommit(h) PROVE TokenInv'
    BY <2>3 DEF RemoveCommit, Idle
  <2>4. ASSUME InviteRefused(h) PROVE TokenInv'
    BY <2>4 DEF InviteRefused, Idle
  <2>5. ASSUME NEW t \in Tokens, InviteCreate(h, t) PROVE TokenInv'
    BY <2>5 DEF InviteCreate, Idle
  <2>6. ASSUME RevokeExec(h) PROVE TokenInv'
    BY <2>6 DEF RevokeExec, Idle
  <2>7. ASSUME ListClean(h) PROVE TokenInv'
    BY <2>7 DEF ListClean, Idle
  <2>8. ASSUME JoinLoad(h) PROVE TokenInv'
    BY <2>8 DEF JoinLoad, Idle
  <2>9. ASSUME JoinCommit(h) PROVE TokenInv'
    BY <2>9 DEF JoinCommit, Idle
  <2>10. QED
    BY <1>5, <2>1, <2>2, <2>3, <2>4, <2>5, <2>6, <2>7, <2>8, <2>9 DEF Step
<1>6. ASSUME NEW h \in Handlers, Rollback(h) PROVE TokenInv'
  BY <1>6 DEF Rollback, Idle
<1>7. ASSUME UNCHANGED vars PROVE TokenInv'
  BY <1>7 DEF vars
<1>8. QED
  BY <1>1, <1>2, <1>3, <1>4, <1>5, <1>6, <1>7 DEF Next

(* Whatever joins, revocations, expiries and failures interleave, a token   *)
(* admits one user at most, and none once its revocation was confirmed.     *)
THEOREM TokensAreSpentOnce == Spec => []TokenIsSpentOnce
<1>1. TypeOK /\ TokenInv => TokenIsSpentOnce
  <2> SUFFICES ASSUME TypeOK, TokenInv, NEW t \in Tokens
      PROVE  Cardinality(admitted[t]) <= 1
    BY DEF TokenIsSpentOnce, TokenInv
  <2>1. \A u, v \in admitted[t] : u = v
    BY DEF TokenInv
  <2>2. QED
    BY <2>1, AtMostOne
<1>2. QED
  BY <1>1, TokenInit, TokenStep, MembershipTypeCorrect, PTL DEF Spec

----------------------------------------------------------------------------
(* What a clean-up or a join is about to drop from the set is dead for good. *)
ListInv ==
    /\ \A t \in listed : token[t] # "new"
    /\ \A h \in Handlers : \A t \in handler[h].toks :
           /\ token[t] # "new"
           /\ handler[h].pc \in {"consumed", "join", "list"} => token[t] = "gone"
    /\ LiveTokensAreListed

(* A step that revives nothing cannot pass the limit.                       *)
LEMMA FewerAlive ==
    ASSUME TypeOK, Cardinality(Alive(Tokens)) <= MaxTokens,
           Alive(Tokens)' \subseteq Alive(Tokens)
    PROVE  Cardinality(Alive(Tokens)') <= MaxTokens
<1>1. IsFiniteSet(Alive(Tokens))
  BY MemberSets, FS_Subset DEF Alive
<1>2. /\ Cardinality(Alive(Tokens)') <= Cardinality(Alive(Tokens))
      /\ Cardinality(Alive(Tokens)) \in Nat /\ Cardinality(Alive(Tokens)') \in Nat
  BY <1>1, NoMore
<1>3. QED
  BY <1>2, MemberNumbers

(* Every step keeps the living tokens listed, or about to be.               *)
LEMMA ListStep == TypeOK /\ TypeOK' /\ ListInv /\ [Next]_vars => ListInv'
<1> SUFFICES ASSUME TypeOK, TypeOK', ListInv, [Next]_vars PROVE ListInv'
  OBVIOUS
<1> DEFINE Marks == /\ \A t \in listed : token[t] # "new"
                    /\ \A h \in Handlers : \A t \in handler[h].toks :
                         /\ token[t] # "new"
                         /\ handler[h].pc \in {"consumed", "join", "list"} =>
                              token[t] = "gone"
                    /\ Alive(Tokens) \subseteq listed
<1>a. ASSUME Marks', Alive(Tokens)' \subseteq Alive(Tokens) PROVE ListInv'
  BY <1>a, FewerAlive DEF ListInv, LiveTokensAreListed
<1>b. Marks
  BY DEF ListInv, LiveTokensAreListed
<1> USE <1>b DEF TypeOK, HandlerType, At, Start, Goto, Finish, Asked,
        store, history, Alive
<1>1. ASSUME CreateGroup \/ DeleteGroup PROVE ListInv'
  BY <1>1, <1>a DEF CreateGroup, DeleteGroup
<1>2. ASSUME NEW u \in Users, ReapMember(u) PROVE ListInv'
  BY <1>2, <1>a DEF ReapMember
<1>3. ASSUME NEW t \in Tokens, TokenExpires(t) PROVE ListInv'
  BY <1>3, <1>a DEF TokenExpires
<1>4. ASSUME NEW h \in Handlers, Ask(h) PROVE ListInv'
  <2>1. ASSUME NEW u \in Users, AddLoad(h, u) PROVE ListInv'
    BY <2>1, <1>a DEF AddLoad
  <2>2. ASSUME NEW u \in Users, RemoveLoad(h, u) PROVE ListInv'
    BY <2>2, <1>a DEF RemoveLoad
  <2>3. ASSUME NEW t \in Tokens, RevokeLoad(h, t) PROVE ListInv'
    BY <2>3, <1>a DEF RevokeLoad
  <2>4. ASSUME NEW t \in Tokens, NEW u \in Users, JoinConsume(h, u, t)
        PROVE  ListInv'
    BY <2>4, <1>a DEF JoinConsume
  <2>5. ASSUME InviteLoad(h) PROVE ListInv'
    BY <2>5, <1>a DEF InviteLoad
  <2>6. ASSUME ListRead(h) PROVE ListInv'
    BY <2>6, <1>a DEF ListRead
  <2>7. QED
    BY <1>4, <2>1, <2>2, <2>3, <2>4, <2>5, <2>6 DEF Ask
<1>5. ASSUME NEW h \in Handlers, Step(h) PROVE ListInv'
  <2>1. ASSUME AddLock(h) PROVE ListInv'
    BY <2>1, <1>a DEF AddLock, Idle
  <2>2. ASSUME AddCommit(h) PROVE ListInv'
    BY <2>2, <1>a DEF AddCommit, Idle
  <2>3. ASSUME RemoveCommit(h) PROVE ListInv'
    BY <2>3, <1>a DEF RemoveCommit, Idle
  <2>4. ASSUME InviteRefused(h) PROVE ListInv'
    BY <2>4, <1>a DEF InviteRefused, Idle
  <2>5. ASSUME NEW t \in Tokens, InviteCreate(h, t) PROVE ListInv'
    <3>1. Marks'
      BY <2>5 DEF InviteCreate, Idle
    <3>2. Alive(listed) = Alive(Tokens) /\ Alive(Tokens)' = Alive(Tokens) \cup {t}
      BY <2>5 DEF InviteCreate
    <3>3. IsFiniteSet(Alive(Tokens))
      BY MemberSets, FS_Subset
    <3>4. Cardinality(Alive(Tokens)) < MaxTokens
      BY <2>5, <3>2 DEF InviteCreate, MayCreate
    <3> HIDE DEF Alive
    <3>5. /\ Cardinality(Alive(Tokens) \cup {t}) <= Cardinality(Alive(Tokens)) + 1
          /\ Cardinality(Alive(Tokens)) \in Nat
          /\ Cardinality(Alive(Tokens) \cup {t}) \in Nat
      BY <3>3, OneMore
    <3>6. Cardinality(Alive(Tokens) \cup {t}) <= MaxTokens
      BY <3>4, <3>5, MemberNumbers
    <3>7. QED
      BY <3>1, <3>2, <3>6 DEF ListInv, LiveTokensAreListed
  <2>6. ASSUME RevokeExec(h) PROVE ListInv'
    BY <2>6, <1>a DEF RevokeExec, Idle
  <2>7. ASSUME ListClean(h) PROVE ListInv'
    BY <2>7, <1>a DEF ListClean, Idle
  <2>8. ASSUME JoinLoad(h) PROVE ListInv'
    BY <2>8, <1>a DEF JoinLoad, Idle
  <2>9. ASSUME JoinCommit(h) PROVE ListInv'
    BY <2>9, <1>a DEF JoinCommit, Idle
  <2>10. QED
    BY <1>5, <2>1, <2>2, <2>3, <2>4, <2>5, <2>6, <2>7, <2>8, <2>9 DEF Step
<1>6. ASSUME NEW h \in Handlers, Rollback(h) PROVE ListInv'
  BY <1>6, <1>a DEF Rollback, Idle
<1>7. ASSUME UNCHANGED vars PROVE ListInv'
  BY <1>7, <1>a DEF vars
<1>8. QED
  BY <1>1, <1>2, <1>3, <1>4, <1>5, <1>6, <1>7 DEF Next

(* A living token is in the group's set, so that the admin can find and     *)
(* revoke it, and no more are alive than the creation script allows: the    *)
(* script counts what is listed, which is all that lives.                   *)
THEOREM LiveTokensStayListed == Spec => []LiveTokensAreListed
<1>1. Init => ListInv
  <2> SUFFICES ASSUME Init PROVE ListInv
    OBVIOUS
  <2>1. Alive(Tokens) = {}
    BY DEF Init, Alive
  <2>2. Cardinality(Alive(Tokens)) <= MaxTokens
    BY <2>1, FS_EmptySet, MemberNumbers
  <2>3. QED
    BY <2>1, <2>2 DEF Init, ListInv, LiveTokensAreListed, Idle
<1>2. ListInv => LiveTokensAreListed
  BY DEF ListInv
<1>3. QED
  BY <1>1, <1>2, ListStep, MembershipTypeCorrect, PTL DEF Spec

----------------------------------------------------------------------------
(* The joins that have counted the members and not yet inserted: each of    *)
(* them may add one to a group that has filled up meanwhile.                *)
Joining == {h \in Handlers : At(h, "join")}

MemberInv ==
    /\ \A h \in Handlers :
           /\ At(h, "insert") => Cardinality(members) < MaxMembers
           /\ At(h, "join") => Cardinality(handler[h].seen) < MaxMembers
           /\ group = "new" => handler[h].pc \notin {"add", "insert", "join"}
    /\ ~raced => Cardinality(members) <= MaxMembers
    /\ Cardinality(members) + Cardinality(Joining)
         < MaxMembers + Cardinality(Handlers)

(* The sets that are counted are finite.                                    *)
LEMMA Counts ==
    ASSUME TypeOK
    PROVE  /\ IsFiniteSet(members) /\ IsFiniteSet(Joining)
           /\ Cardinality(members) \in Nat /\ Cardinality(Joining) \in Nat
           /\ Cardinality(Handlers) \in Nat
           /\ Cardinality(Joining) <= Cardinality(Handlers)
<1>1. IsFiniteSet(members) /\ Cardinality(members) \in Nat
  BY NoMore, MemberSets DEF TypeOK
<1>2. Joining \in SUBSET Handlers
  BY DEF Joining
<1>3. QED
  BY <1>1, <1>2, NoMore, MemberSets

(* A step that adds no member and lets no new request near an insert.       *)
LEMMA CapKept ==
    ASSUME TypeOK, TypeOK', MemberInv, members' \subseteq members,
           group' = group \/ group' # "new", raced' = raced,
           \A h \in Handlers :
               \/ handler'[h] = handler[h]
               \/ handler'[h].pc \notin {"add", "insert", "join"}
               \/ handler'[h].pc = "add" /\ group' # "new"
    PROVE  MemberInv'
<1>1. Joining' \in SUBSET Joining
  BY DEF Joining, At
<1>2. Cardinality(Joining') <= Cardinality(Joining)
  BY <1>1, NoMore, Counts
<1>3. Cardinality(members') <= Cardinality(members)
  BY NoMore, Counts
<1>4. /\ Cardinality(members') \in Nat /\ Cardinality(Joining') \in Nat
      /\ Cardinality(members) \in Nat /\ Cardinality(Joining) \in Nat
      /\ Cardinality(Handlers) \in Nat
  <2>1. IsFiniteSet(members') /\ IsFiniteSet(Joining')
    BY <1>1, NoMore, Counts
  <2>2. QED
    BY <2>1, FS_CardinalityType, Counts
<1>5. /\ ~raced' => Cardinality(members') <= MaxMembers
      /\ Cardinality(members') + Cardinality(Joining')
           < MaxMembers + Cardinality(Handlers)
  BY <1>2, <1>3, <1>4, MemberNumbers DEF MemberInv
<1>6. \A h \in Handlers :
         /\ At(h, "insert")' => Cardinality(members') < MaxMembers
         /\ At(h, "join")' => Cardinality(handler'[h].seen) < MaxMembers
         /\ group' = "new" => handler'[h].pc \notin {"add", "insert", "join"}
  BY <1>3, <1>4, MemberNumbers DEF MemberInv, At
<1>7. QED
  BY <1>5, <1>6 DEF MemberInv

(* Every step keeps the count: members and the joins under way that read    *)
(* less than the cap.                                                       *)
LEMMA MemberStep == TypeOK /\ TypeOK' /\ MemberInv /\ [Next]_vars => MemberInv'
<1> SUFFICES ASSUME TypeOK, TypeOK', MemberInv, [Next]_vars PROVE MemberInv'
  OBVIOUS
<1> DEFINE Quiet == /\ members' \subseteq members /\ raced' = raced
                    /\ group' = group \/ group' # "new"
                    /\ \A h \in Handlers :
                         \/ handler'[h] = handler[h]
                         \/ handler'[h].pc \notin {"add", "insert", "join"}
                         \/ handler'[h].pc = "add" /\ group' # "new"
<1>a. Quiet => MemberInv'
  BY CapKept
<1>b. /\ Cardinality(members) \in Nat /\ Cardinality(Joining) \in Nat
      /\ Cardinality(members') \in Nat /\ Cardinality(Joining') \in Nat
      /\ Cardinality(Handlers) \in Nat /\ MaxMembers \in Nat \ {0}
      /\ Cardinality(Joining') <= Cardinality(Handlers)
  <2>1. Joining' \in SUBSET Handlers /\ members' \in SUBSET Users
    BY DEF Joining, TypeOK
  <2>2. QED
    BY <2>1, Counts, NoMore, MemberSets, MemberNumbers
<1>c. Cardinality(Handlers) > 0
  BY MemberSets, FS_EmptySet, <1>b
<1> USE DEF TypeOK, HandlerType, At, Start, Goto, Finish, Asked, Loaded,
        LoadedByAdmin, store, history
<1>1. ASSUME CreateGroup PROVE MemberInv'
  <2>1. /\ \A h \in Handlers : handler'[h].pc \notin {"add", "insert", "join"}
        /\ members' = {Creator} /\ group' = "live"
    BY <1>1 DEF CreateGroup, MemberInv
  <2>2. Joining' = {} /\ Cardinality(Joining') = 0 /\ Cardinality(members') = 1
    BY <2>1, FS_EmptySet, FS_Singleton DEF Joining
  <2>3. QED
    BY <1>b, <1>c, <2>1, <2>2 DEF MemberInv
<1>2. ASSUME DeleteGroup PROVE MemberInv'
  BY <1>2, <1>a DEF DeleteGroup
<1>3. ASSUME NEW u \in Users, ReapMember(u) PROVE MemberInv'
  BY <1>3, <1>a DEF ReapMember
<1>4. ASSUME NEW t \in Tokens, TokenExpires(t) PROVE MemberInv'
  BY <1>4, <1>a DEF TokenExpires
<1>5. ASSUME NEW h \in Handlers, Ask(h) PROVE MemberInv'
  <2>1. ASSUME NEW u \in Users, AddLoad(h, u) PROVE MemberInv'
    BY <2>1, <1>a DEF AddLoad
  <2>2. ASSUME NEW u \in Users, RemoveLoad(h, u) PROVE MemberInv'
    BY <2>2, <1>a DEF RemoveLoad
  <2>3. ASSUME NEW t \in Tokens, RevokeLoad(h, t) PROVE MemberInv'
    BY <2>3, <1>a DEF RevokeLoad
  <2>4. ASSUME NEW t \in Tokens, NEW u \in Users, JoinConsume(h, u, t)
        PROVE  MemberInv'
    BY <2>4, <1>a DEF JoinConsume
  <2>5. ASSUME InviteLoad(h) PROVE MemberInv'
    BY <2>5, <1>a DEF InviteLoad
  <2>6. ASSUME ListRead(h) PROVE MemberInv'
    BY <2>6, <1>a DEF ListRead
  <2>7. QED
    BY <1>5, <2>1, <2>2, <2>3, <2>4, <2>5, <2>6 DEF Ask
<1>6. ASSUME NEW h \in Handlers, Step(h) PROVE MemberInv'
  <2>1. ASSUME AddLock(h) PROVE MemberInv'
    <3>1. CASE Cardinality(members) >= MaxMembers
      BY <2>1, <3>1, <1>a DEF AddLock, Idle
    <3>2. CASE ~(Cardinality(members) >= MaxMembers)
      <4>1. /\ UNCHANGED <<group, members, raced>>
            /\ \A g \in Handlers \ {h} : handler'[g] = handler[g]
            /\ handler[h].pc = "add" /\ handler'[h].pc = "insert"
        BY <2>1, <3>2 DEF AddLock
      <4>2. Joining' = Joining
        BY <4>1 DEF Joining
      <4>3. Cardinality(members) < MaxMembers
        BY <3>2, <1>b
      <4>4. QED
        BY <4>1, <4>2, <4>3 DEF MemberInv
    <3>3. QED
      BY <3>1, <3>2
  <2>2. ASSUME AddCommit(h) PROVE MemberInv'
    <3>1. /\ UNCHANGED <<group, raced>>
          /\ \A g \in Handlers \ {h} : /\ handler'[g] = handler[g]
                                       /\ handler[g].pc # "insert"
          /\ handler[h].pc = "insert" /\ handler'[h].pc = "idle"
          /\ members' = members \cup {handler[h].user}
      BY <2>2 DEF AddCommit, Idle
    <3>2. Cardinality(members') <= Cardinality(members) + 1
      BY <3>1, Counts, OneMore
    <3>3. Cardinality(Joining') <= Cardinality(Handlers) - 1
      <4>1. Joining' \in SUBSET (Handlers \ {h})
        BY <3>1 DEF Joining
      <4>2. /\ IsFiniteSet(Handlers \ {h})
            /\ Cardinality(Handlers \ {h}) = Cardinality(Handlers) - 1
        BY FS_RemoveElement, MemberSets
      <4>3. QED
        BY <4>1, <4>2, NoMore
    <3>4. Cardinality(members) < MaxMembers /\ group # "new"
      BY <3>1 DEF MemberInv
    <3>5. Cardinality(members') <= MaxMembers
      BY <3>2, <3>4, <1>b
    <3>6. Cardinality(members') + Cardinality(Joining')
            < MaxMembers + Cardinality(Handlers)
      BY <3>3, <3>5, <1>b
    <3>7. QED
      BY <3>1, <3>4, <3>5, <3>6 DEF MemberInv
  <2>3. ASSUME RemoveCommit(h) PROVE MemberInv'
    BY <2>3, <1>a DEF RemoveCommit, Idle
  <2>4. ASSUME InviteRefused(h) PROVE MemberInv'
    BY <2>4, <1>a DEF InviteRefused, Idle
  <2>5. ASSUME NEW t \in Tokens, InviteCreate(h, t) PROVE MemberInv'
    BY <2>5, <1>a DEF InviteCreate, Idle
  <2>6. ASSUME RevokeExec(h) PROVE MemberInv'
    BY <2>6, <1>a DEF RevokeExec, Idle
  <2>7. ASSUME ListClean(h) PROVE MemberInv'
    BY <2>7, <1>a DEF ListClean, Idle
  <2>8. ASSUME JoinLoad(h) PROVE MemberInv'
    <3>1. CASE ~Loaded \/ handler[h].user \in members
                 \/ Cardinality(members) >= MaxMembers
      BY <2>8, <3>1, <1>a DEF JoinLoad, Idle
    <3>2. CASE ~(~Loaded \/ handler[h].user \in members
                   \/ Cardinality(members) >= MaxMembers)
      <4>1. /\ UNCHANGED <<group, members, raced>> /\ group # "new"
            /\ \A g \in Handlers \ {h} : handler'[g] = handler[g]
            /\ handler'[h].pc = "join" /\ handler'[h].seen = members
        BY <2>8, <3>2 DEF JoinLoad
      <4>2. Cardinality(members) < MaxMembers
        BY <3>2, <1>b
      <4>3. Cardinality(members') + Cardinality(Joining')
              < MaxMembers + Cardinality(Handlers)
        BY <4>1, <4>2, <1>b
      <4>4. QED
        BY <4>1, <4>2, <4>3 DEF MemberInv
    <3>3. QED
      BY <3>1, <3>2
  <2>9. ASSUME JoinCommit(h) PROVE MemberInv'
    <3>1. /\ UNCHANGED group
          /\ raced' = (raced \/ ~(members \subseteq handler[h].seen))
          /\ \A g \in Handlers \ {h} : handler'[g] = handler[g]
          /\ \A g \in Handlers : handler[g].pc # "insert"
          /\ handler[h].pc = "join" /\ handler'[h].pc = "idle"
          /\ members' = members \cup {handler[h].user}
      BY <2>9, MemberSets DEF JoinCommit, Idle
    <3>2. Cardinality(members') <= Cardinality(members) + 1
      BY <3>1, Counts, OneMore
    <3>3. Cardinality(Joining') = Cardinality(Joining) - 1
      <4>1. Joining' = Joining \ {h} /\ h \in Joining
        BY <3>1 DEF Joining
      <4>2. QED
        BY <4>1, Counts, FS_RemoveElement
    <3>4. ASSUME ~raced' PROVE Cardinality(members') <= MaxMembers
      <4>1. members \subseteq handler[h].seen /\ handler[h].seen \subseteq Users
        BY <3>1, <3>4
      <4>2. /\ Cardinality(members) <= Cardinality(handler[h].seen)
            /\ Cardinality(handler[h].seen) \in Nat
        BY <4>1, NoMore, MemberSets
      <4>3. Cardinality(handler[h].seen) < MaxMembers
        BY <3>1 DEF MemberInv
      <4>4. QED
        BY <3>2, <4>2, <4>3, <1>b
    <3>5. Cardinality(members') + Cardinality(Joining')
            < MaxMembers + Cardinality(Handlers)
      BY <3>2, <3>3, <1>b DEF MemberInv
    <3>6. \A g \in Handlers :
            /\ ~At(g, "insert")'
            /\ At(g, "join")' => Cardinality(handler'[g].seen) < MaxMembers
            /\ group' # "new"
      BY <3>1 DEF MemberInv
    <3>7. QED
      BY <3>4, <3>5, <3>6 DEF MemberInv
  <2>10. QED
    BY <1>6, <2>1, <2>2, <2>3, <2>4, <2>5, <2>6, <2>7, <2>8, <2>9 DEF Step
<1>7. ASSUME NEW h \in Handlers, Rollback(h) PROVE MemberInv'
  BY <1>7, <1>a DEF Rollback, Idle
<1>8. ASSUME UNCHANGED vars PROVE MemberInv'
  BY <1>8, <1>a DEF vars
<1>9. QED
  BY <1>1, <1>2, <1>3, <1>4, <1>5, <1>6, <1>7, <1>8 DEF Next

(* add_member, which counts under the row lock, never passes max_members;   *)
(* only a join with a stale count does, and all joins together pass it by   *)
(* less than the number of requests in flight.                              *)
THEOREM MemberCapHolds == Spec => []MemberCap
<1>1. Init => MemberInv
  <2> SUFFICES ASSUME Init PROVE MemberInv
    OBVIOUS
  <2>1. \A h \in Handlers : handler[h].pc = "idle"
    BY DEF Init, Idle
  <2>2. members = {} /\ Joining = {}
    BY <2>1 DEF Init, Joining, At
  <2>3. Cardinality(members) = 0 /\ Cardinality(Joining) = 0
    BY <2>2, FS_EmptySet
  <2>4. Cardinality(Handlers) \in Nat \ {0}
    BY MemberSets, FS_EmptySet, FS_CardinalityType
  <2>5. QED
    BY <2>1, <2>3, <2>4, MemberNumbers DEF MemberInv, At
<1>2. TypeOK /\ MemberInv => MemberCap
  BY Counts, MemberNumbers DEF MemberInv, MemberCap
<1>3. QED
  BY <1>1, <1>2, MemberStep, MembershipTypeCorrect, PTL DEF Spec
=============================================================================

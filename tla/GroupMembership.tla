-------------------------- MODULE GroupMembership --------------------------
(***************************************************************************)
(* Membership of one group on the relay that hosts it: the handlers of      *)
(* api/groups.py that add, remove and admit members, the invite tokens of   *)
(* invite_tokens.py, and the two processes that delete members or the whole *)
(* group behind the handlers' back.                                         *)
(*                                                                          *)
(* A handler is one database transaction (READ COMMITTED) that commits when *)
(* it returns.  add_member locks the group's row FOR UPDATE; every INSERT   *)
(* into group_members takes a key-share lock on that row, so it waits for a *)
(* FOR UPDATE, but a join takes no lock when it reads.  Tokens are in Redis, *)
(* outside the transaction.                                                 *)
(***************************************************************************)
EXTENDS Integers, FiniteSets

CONSTANTS
    Users,          \* public keys
    Creator,        \* the group's creator and only admin
    Anonymous,      \* users without a username, subject to clean-up
    MaxMembers,     \* Group.max_members
    Tokens,         \* invite tokens, each generated at most once
    MaxTokens,      \* MAX_ACTIVE_TOKENS_PER_GROUP
    Handlers,       \* requests being handled
    MaxRequests     \* bound: requests that are not joins

ASSUME MemberSets ==
    /\ IsFiniteSet(Users) /\ Creator \in Users /\ Anonymous \subseteq Users
    /\ IsFiniteSet(Tokens)
    /\ IsFiniteSet(Handlers) /\ Handlers # {} /\ "free" \notin Handlers
ASSUME MemberNumbers ==
    /\ MaxMembers \in Nat \ {0} /\ MaxTokens \in Nat \ {0}
    /\ MaxRequests \in Nat

VARIABLES
    group,      \* "new", "live", or "deleted" (deleted_at is set)
    members,    \* rows of group_members
    rowLock,    \* who holds the group's row FOR UPDATE: "free" or a handler
    token,      \* morok:invite_token:<t>: "new", "alive" or "gone"
    listed,     \* morok:group_invites:<group>
    handler,    \* requests between their first read and their commit
    requests,
    admitted,   \* history: admitted[t], users who joined with t
    revoked,    \* history: tokens whose revocation was confirmed
    raced       \* history: some join committed on a stale member count

vars == <<group, members, rowLock, token, listed, handler, requests, admitted,
          revoked, raced>>
store   == <<group, members, rowLock>>
history == <<admitted, revoked, raced>>

----------------------------------------------------------------------------
Labels == {"idle", "add", "insert", "consumed", "join", "remove", "invite",
           "revoke", "list"}
HandlerType == [pc : Labels, user : Users, seen : SUBSET Users,
                toks : SUBSET Tokens]
Idle == [pc |-> "idle", user |-> Creator, seen |-> {}, toks |-> {}]

At(h, label) == handler[h].pc = label
Start(h, label, u, toks) ==
    handler' = [handler EXCEPT ![h] = [pc |-> label, user |-> u,
                                       seen |-> members, toks |-> toks]]
Goto(h, label) == handler' = [handler EXCEPT ![h].pc = label]
Finish(h)      == handler' = [handler EXCEPT ![h] = Idle]
Asked(h) == /\ At(h, "idle")
            /\ requests < MaxRequests /\ requests' = requests + 1

(* _load_group, then _is_admin: the creator, while still a member.          *)
Loaded       == group = "live"
LoadedByAdmin == Loaded /\ Creator \in members
Unlock(h)    == IF rowLock = h THEN "free" ELSE rowLock

Init ==
    /\ group = "new" /\ members = {} /\ rowLock = "free"
    /\ token = [t \in Tokens |-> "new"] /\ listed = {}
    /\ handler = [h \in Handlers |-> Idle]
    /\ requests = 0
    /\ admitted = [t \in Tokens |-> {}] /\ revoked = {} /\ raced = FALSE

----------------------------------------------------------------------------
(* POST /groups: the group and its first member in one transaction.         *)
CreateGroup ==
    /\ group = "new"
    /\ group' = "live" /\ members' = {Creator}
    /\ UNCHANGED <<rowLock, token, listed, handler, requests, history>>

(* DELETE /groups/{id} by the creator, or reap_expired_groups: deleted_at.  *)
DeleteGroup ==
    /\ Loaded /\ rowLock = "free"
    /\ group' = "deleted"
    /\ UNCHANGED <<members, rowLock, token, listed, handler, requests, history>>

(* reap_anonymous_users deletes the memberships of a forgotten user.        *)
ReapMember(u) ==
    /\ u \in Anonymous \cap members
    /\ members' = members \ {u}
    /\ UNCHANGED <<group, rowLock, token, listed, handler, requests, history>>

----------------------------------------------------------------------------
(* POST /groups/{id}/members: load, SELECT ... FOR UPDATE, count, insert.   *)
AddLoad(h, u) ==
    /\ Asked(h) /\ LoadedByAdmin /\ u \notin members
    /\ Start(h, "add", u, {})
    /\ UNCHANGED <<store, token, listed, history>>

AddLockStale(h) ==                      \* faulty variant: the count as loaded
    /\ At(h, "add") /\ rowLock = "free"
    /\ IF Cardinality(handler[h].seen) >= MaxMembers
       THEN Finish(h) /\ UNCHANGED rowLock
       ELSE Goto(h, "insert") /\ rowLock' = h
    /\ UNCHANGED <<group, members, token, listed, requests, history>>
AddLockKept(h) ==                       \* faulty variant: no rollback on 409
    /\ At(h, "add") /\ rowLock = "free"
    /\ rowLock' = h
    /\ IF Cardinality(members) >= MaxMembers THEN Finish(h) ELSE Goto(h, "insert")
    /\ UNCHANGED <<group, members, token, listed, requests, history>>
AddLock(h) ==
    /\ At(h, "add") /\ rowLock = "free"
    /\ IF Cardinality(members) >= MaxMembers
       THEN Finish(h) /\ UNCHANGED rowLock
       ELSE Goto(h, "insert") /\ rowLock' = h
    /\ UNCHANGED <<group, members, token, listed, requests, history>>

(* A row that is already there violates uq_group_members: rolled back, and  *)
(* the result is the same.                                                  *)
AddCommit(h) ==
    /\ At(h, "insert")
    /\ members' = members \cup {handler[h].user}
    /\ rowLock' = Unlock(h)
    /\ Finish(h)
    /\ UNCHANGED <<group, token, listed, requests, history>>

(* DELETE /groups/{id}/members/{u}, by u or by the admin; never the creator. *)
RemoveLoad(h, u) ==
    /\ Asked(h) /\ Loaded /\ u \in members \ {Creator}
    /\ Start(h, "remove", u, {})
    /\ UNCHANGED <<store, token, listed, history>>

RemoveCommit(h) ==
    /\ At(h, "remove")
    /\ members' = members \ {handler[h].user}
    /\ Finish(h)
    /\ UNCHANGED <<group, rowLock, token, listed, requests, history>>

----------------------------------------------------------------------------
(* POST /groups/{id}/invites: the admin check, then one EVAL.               *)
InviteLoad(h) ==
    /\ Asked(h) /\ LoadedByAdmin
    /\ Cardinality({g \in Handlers : At(g, "invite")})
         < Cardinality({t \in Tokens : token[t] = "new"})  \* bound: Tokens
    /\ Start(h, "invite", Creator, {})
    /\ UNCHANGED <<store, token, listed, history>>

Alive(ts) == {t \in ts : token[t] = "alive"}

(* _CREATE_LUA counts the living members of the set and drops the others.   *)
MayCreate(ts) == Cardinality(ts) < MaxTokens

InviteCreate(h, t) ==
    /\ At(h, "invite") /\ token[t] = "new" /\ MayCreate(Alive(listed))
    /\ token' = [token EXCEPT ![t] = "alive"]
    /\ listed' = Alive(listed) \cup {t}
    /\ Finish(h)
    /\ UNCHANGED <<store, requests, history>>

InviteRefused(h) ==
    /\ At(h, "invite") /\ ~MayCreate(Alive(listed))
    /\ listed' = Alive(listed)
    /\ Finish(h)
    /\ UNCHANGED <<store, token, requests, history>>

(* DELETE /groups/{id}/invites/{t}: DEL and SREM in one MULTI; the answer   *)
(* says whether the key was there.                                          *)
RevokeLoad(h, t) ==
    /\ Asked(h) /\ LoadedByAdmin /\ token[t] # "new"
    /\ Start(h, "revoke", Creator, {t})
    /\ UNCHANGED <<store, token, listed, history>>

RevokeExec(h) ==
    /\ At(h, "revoke")
    /\ \E t \in handler[h].toks :
         /\ token' = [token EXCEPT ![t] = "gone"]
         /\ listed' = listed \ {t}
         /\ revoked' = IF token[t] = "alive" THEN revoked \cup {t} ELSE revoked
    /\ Finish(h)
    /\ UNCHANGED <<store, requests, admitted, raced>>

(* GET /groups/{id}/invites: SMEMBERS, the GETs, then SREM of the stale.    *)
ListRead(h) ==
    /\ Asked(h) /\ LoadedByAdmin
    /\ Start(h, "list", Creator, listed \ Alive(listed))
    /\ UNCHANGED <<store, token, listed, history>>

ListCleanAll(h) ==                      \* faulty variant: DEL of the whole set
    /\ At(h, "list")
    /\ listed' = IF handler[h].toks = {} THEN listed ELSE {}
    /\ Finish(h)
    /\ UNCHANGED <<store, token, requests, history>>
ListClean(h) ==
    /\ At(h, "list")
    /\ listed' = listed \ handler[h].toks
    /\ Finish(h)
    /\ UNCHANGED <<store, token, requests, history>>

TokenExpires(t) ==
    /\ token[t] = "alive"
    /\ token' = [token EXCEPT ![t] = "gone"]
    /\ UNCHANGED <<store, listed, handler, requests, history>>

----------------------------------------------------------------------------
(* POST /groups/join: GETDEL of the token, then SREM, which may fail.       *)
JoinConsumeGet(h, u, t) ==              \* faulty variant: GET, deleted later
    /\ At(h, "idle") /\ token[t] = "alive"
    /\ handler' = [handler EXCEPT ![h] = [pc |-> "consumed", user |-> u,
                                          seen |-> {}, toks |-> {t}]]
    /\ UNCHANGED <<store, token, listed, requests, history>>
JoinConsume(h, u, t) ==
    /\ At(h, "idle") /\ token[t] = "alive"
    /\ token' = [token EXCEPT ![t] = "gone"]
    /\ handler' = [handler EXCEPT ![h] = [pc |-> "consumed", user |-> u,
                                          seen |-> {}, toks |-> {t}]]
    /\ UNCHANGED <<store, listed, requests, history>>

(* _load_group: 404, already a member, full, or on to the insert.  The      *)
(* token is spent in every case.                                            *)
JoinLoad(h) ==
    /\ At(h, "consumed")
    /\ listed' \in {listed, listed \ handler[h].toks}
    /\ IF ~Loaded \/ handler[h].user \in members
          \/ Cardinality(members) >= MaxMembers
       THEN Finish(h)
       ELSE Start(h, "join", handler[h].user, handler[h].toks)
    /\ UNCHANGED <<store, token, requests, history>>

JoinCommit(h) ==
    /\ At(h, "join") /\ rowLock = "free"
    /\ LET u == handler[h].user
       IN  /\ members' = members \cup {u}
           /\ admitted' = [t \in Tokens |->
                             IF t \in handler[h].toks /\ u \notin members
                             THEN admitted[t] \cup {u} ELSE admitted[t]]
    /\ raced' = (raced \/ ~(members \subseteq handler[h].seen))
    /\ Finish(h)
    /\ UNCHANGED <<group, rowLock, token, listed, requests, revoked>>

(* The process dies or the database raises: the transaction is rolled back, *)
(* what Redis has done stays.                                               *)
Rollback(h) ==
    /\ ~At(h, "idle")
    /\ rowLock' = Unlock(h)
    /\ Finish(h)
    /\ UNCHANGED <<group, members, token, listed, requests, history>>

----------------------------------------------------------------------------
Ask(h) ==
    \/ \E u \in Users : AddLoad(h, u) \/ RemoveLoad(h, u)
    \/ \E t \in Tokens : RevokeLoad(h, t) \/ \E u \in Users : JoinConsume(h, u, t)
    \/ InviteLoad(h) \/ ListRead(h)

Step(h) ==
    \/ AddLock(h) \/ AddCommit(h) \/ RemoveCommit(h)
    \/ InviteRefused(h) \/ \E t \in Tokens : InviteCreate(h, t)
    \/ RevokeExec(h) \/ ListClean(h) \/ JoinLoad(h) \/ JoinCommit(h)

Next ==
    \/ CreateGroup \/ DeleteGroup
    \/ \E u \in Users : ReapMember(u)
    \/ \E t \in Tokens : TokenExpires(t)
    \/ \E h \in Handlers : Ask(h) \/ Step(h) \/ Rollback(h)

Spec == Init /\ [][Next]_vars

(* The event loop runs every handler; nothing else has to happen.           *)
FairSpec == Spec /\ \A h \in Handlers : WF_vars(Step(h))

----------------------------------------------------------------------------
(* The shape of the tables, the keys and the handlers; the row lock belongs *)
(* to the handler that is about to insert, or to nobody.                    *)
TypeOK ==
    /\ group \in {"new", "live", "deleted"}
    /\ members \subseteq Users
    /\ rowLock \in Handlers \cup {"free"}
    /\ \A h \in Handlers : rowLock = h <=> At(h, "insert")
    /\ token \in [Tokens -> {"new", "alive", "gone"}]
    /\ listed \subseteq Tokens
    /\ handler \in [Handlers -> HandlerType]
    /\ requests \in 0 .. MaxRequests
    /\ admitted \in [Tokens -> SUBSET Users]
    /\ revoked \subseteq Tokens
    /\ raced \in BOOLEAN

(* add_member counts under the row lock and cannot exceed max_members,      *)
(* whatever runs beside it.  The cap is passed only by a join whose count   *)
(* was stale when it committed, and then by less than the requests in       *)
(* flight.                                                                  *)
MemberCap ==
    /\ ~raced => Cardinality(members) <= MaxMembers
    /\ Cardinality(members) < MaxMembers + Cardinality(Handlers)

(* A token is spent once, however many users redeem it at once (GETDEL) and *)
(* whatever revocation races with them: it admits one user at most, and     *)
(* after a confirmed revocation (revoked: true) nobody got in, or will get  *)
(* in, with it.                                                             *)
TokenIsSpentOnce ==
    /\ \A t \in Tokens : Cardinality(admitted[t]) <= 1
    /\ \A t \in revoked : admitted[t] = {}

(* No more tokens are alive than MAX_ACTIVE_TOKENS_PER_GROUP, and the admin *)
(* can see and revoke each of them: concurrent list clean-ups never drop a  *)
(* living token from the set.                                               *)
LiveTokensAreListed ==
    /\ Alive(Tokens) \subseteq listed
    /\ Cardinality(Alive(Tokens)) <= MaxTokens

(* No request waits for ever on the row lock.                               *)
RequestsEnd == \A h \in Handlers : ~At(h, "idle") ~> At(h, "idle")
=============================================================================

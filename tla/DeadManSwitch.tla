--------------------------- MODULE DeadManSwitch ---------------------------
(***************************************************************************)
(* Dead man's switches: the handlers of api/dms.py, the "I am alive" side   *)
(* effect of every authenticated request (deps.py), the daily clean-up and  *)
(* account deletion that remove rows, and the hourly process of             *)
(* scripts/dms_reaper.py that sends the payload of a silent owner to the    *)
(* recipients.                                                              *)
(*                                                                          *)
(* The database serialises writers by row locks held to the end of a        *)
(* transaction; the envelopes go to Redis and are not part of it.  A clock  *)
(* reading is kept as its age, so time is unbounded: ages stop at Horizon,  *)
(* beyond which nothing is told apart.                                      *)
(***************************************************************************)
EXTENDS Integers, FiniteSets

CONSTANTS
    Switches,       \* ids of switches, each created at most once
    Owners,         \* public keys of their creators
    OwnerOf,        \* OwnerOf[d]
    Anonymous,      \* owners without a username
    Recipients,     \* public keys switches are addressed to
    RecipientsOf,   \* RecipientsOf[d]: rows of dead_man_switch_recipients
    Handlers,       \* requests and background tasks of the relay
    MaxActive,      \* DMS_FREE_TIER_MAX_ACTIVE
    Trigger,        \* trigger_seconds
    AnonInactive,   \* ANON_INACTIVE_SECONDS
    Delay,          \* the longest a handler or a pass takes
    SignedOnly,     \* is dms_checkin in MOROK_ACTION_PROOF_REQUIRED?
    MaxRequests,    \* bound: signs of life and attempts to cancel
    MaxFailures     \* bound: deliveries that raise and passes that die

Horizon == Trigger + Delay

ASSUME SwitchSets ==
    /\ IsFiniteSet(Switches) /\ Switches # {}
    /\ RecipientsOf \in [Switches -> (SUBSET Recipients) \ {{}}]
    /\ OwnerOf \in [Switches -> Owners]
    /\ Anonymous \subseteq Owners
    /\ {"free", "reaper"} \cap Handlers = {}
ASSUME SwitchNumbers ==
    /\ MaxActive \in Nat \ {0} /\ Trigger \in Nat \ {0}
    /\ AnonInactive \in Nat /\ Delay \in Nat
    /\ SignedOnly \in BOOLEAN
    /\ MaxRequests \in Nat /\ MaxFailures \in Nat

VARIABLES
    row,        \* table dead_man_switches with its recipients
    rowLock,    \* who holds the row lock of a switch: "free" or a holder
    quotaLock,  \* who holds pg_advisory_xact_lock(owner)
    seen,       \* seen[o]: age of users.last_seen_at
    strict,     \* owners with a morok:dms:signed_checkin key
    handler,    \* handlers between their first lock and their commit
    pass,       \* the reaper process
    queued,     \* <<d, r>>: envelopes whose metadata key exists
    copies,     \* history: times the payload of d was put in r's inbox
    halfway,    \* history: deliveries cut short between SET NX and the answer
    told,       \* history: age of the last check-in confirmed for d
    requests, faults, crashes

vars == <<row, rowLock, quotaLock, seen, strict, handler, pass, queued, copies,
          halfway, told, requests, faults, crashes>>

----------------------------------------------------------------------------
(* "deleted": removed by the owner or after its end; "reaped": removed with *)
(* an inactive account.                                                     *)
Statuses == {"new", "armed", "triggered", "cancelled", "deleted", "reaped"}
RowType  == [status : Statuses, age : 0 .. Horizon, payload : BOOLEAN,
             delivered : SUBSET Recipients]
NoRow    == [status |-> "new", age |-> 0, payload |-> FALSE, delivered |-> {}]

HandlerType == [pc : {"idle", "create", "checkin", "cancel", "bump", "signed"},
                d : Switches, age : 0 .. Delay]
Idle == [pc |-> "idle", d |-> CHOOSE d \in Switches : TRUE, age |-> 0]

(* todo: deliveries still to make; open: the one that has won its metadata  *)
(* key and not yet inserted; failed: deliveries that raised.                *)
PassType == [pc : {"idle", "select", "deliver"}, age : 0 .. Delay,
             batch : SUBSET Switches,
             todo : SUBSET (Switches \X Recipients),
             open : SUBSET (Switches \X Recipients),
             failed : SUBSET (Switches \X Recipients)]
Asleep == [pc |-> "idle", age |-> 0, batch |-> {}, todo |-> {},
           open |-> {}, failed |-> {}]

Of(o)      == {d \in Switches : OwnerOf[d] = o}
Armed(d)   == row[d].status = "armed"
ArmedOf(o) == {d \in Of(o) : Armed(d)}
Free(d)    == rowLock[d] = "free"
At(h, label) == handler[h].pc = label
Start(h, label, d) ==
    handler' = [handler EXCEPT ![h] = [pc |-> label, d |-> d, age |-> 0]]
Finish(h) == handler' = [handler EXCEPT ![h] = Idle]
MinOf(a, b) == IF a < b THEN a ELSE b
(* The history of a switch that has ended is dropped.                       *)
DropTold == told' = [d \in Switches |-> IF row'[d].status = "armed" THEN told[d]
                                                                    ELSE 0]

Init ==
    /\ row = [d \in Switches |-> NoRow]
    /\ rowLock = [d \in Switches |-> "free"]
    /\ quotaLock = [o \in Owners |-> "free"]
    /\ seen = [o \in Owners |-> 0]
    /\ strict = {}
    /\ handler = [h \in Handlers |-> Idle]
    /\ pass = Asleep
    /\ queued = {} /\ halfway = {}
    /\ copies = [d \in Switches |-> [r \in Recipients |-> 0]]
    /\ told = [d \in Switches |-> 0]
    /\ requests = 0 /\ faults = 0 /\ crashes = 0

----------------------------------------------------------------------------
(* POST /dms: under the advisory lock of the owner, count, refuse or insert. *)
HasQuota(o) == Cardinality(ArmedOf(o)) < MaxActive

CreateCountUnlocked(h, d) ==            \* faulty variant: no advisory lock
    /\ At(h, "idle") /\ row[d].status = "new"
    /\ \A g \in Handlers : handler[g].d = d => handler[g].pc # "create"
    /\ HasQuota(OwnerOf[d])
    /\ Start(h, "create", d)
    /\ UNCHANGED <<row, rowLock, quotaLock, seen, strict, pass, queued, copies,
                   halfway, told, requests, faults, crashes>>
CreateCount(h, d) ==
    /\ At(h, "idle") /\ row[d].status = "new"
    /\ quotaLock[OwnerOf[d]] = "free"
    /\ HasQuota(OwnerOf[d])
    /\ quotaLock' = [quotaLock EXCEPT ![OwnerOf[d]] = h]
    /\ Start(h, "create", d)
    /\ UNCHANGED <<row, rowLock, seen, strict, pass, queued, copies, halfway,
                   told, requests, faults, crashes>>

CreateCommit(h) ==
    /\ At(h, "create")
    /\ LET d == handler[h].d
       IN  /\ row' = [row EXCEPT ![d] = [status |-> "armed",
                                         age |-> handler[h].age,
                                         payload |-> TRUE, delivered |-> {}]]
           /\ told' = [told EXCEPT ![d] = handler[h].age]
           /\ quotaLock' = [quotaLock EXCEPT ![OwnerOf[d]] = "free"]
    /\ Finish(h)
    /\ UNCHANGED <<rowLock, seen, strict, pass, queued, copies, halfway,
                   requests, faults, crashes>>

----------------------------------------------------------------------------
(* Signs of life.                                                           *)

(* signed_checkin_enforced: a bearer token no longer counts for this owner. *)
Enforced(o) == SignedOnly /\ o \in strict

(* POST /dms/{id}/check-in: SELECT ... FOR UPDATE; not armed is 409.        *)
CheckInLock(h, d) ==
    /\ At(h, "idle") /\ Armed(d) /\ Free(d) /\ ~Enforced(OwnerOf[d])
    /\ requests < MaxRequests /\ requests' = requests + 1
    /\ seen' = [seen EXCEPT ![OwnerOf[d]] = 0]
    /\ rowLock' = [rowLock EXCEPT ![d] = h]
    /\ Start(h, "checkin", d)
    /\ UNCHANGED <<row, quotaLock, strict, pass, queued, copies, halfway, told,
                   faults, crashes>>

CheckInCommitDeadline(h) ==             \* faulty variant: stores the deadline
    /\ At(h, "checkin")
    /\ LET d == handler[h].d
       IN  /\ row' = [row EXCEPT ![d].age = handler[h].age - Trigger]
           /\ told' = [told EXCEPT ![d] = handler[h].age]
           /\ rowLock' = [rowLock EXCEPT ![d] = "free"]
    /\ Finish(h)
    /\ UNCHANGED <<quotaLock, seen, strict, pass, queued, copies, halfway,
                   requests, faults, crashes>>
CheckInCommit(h) ==
    /\ At(h, "checkin")
    /\ LET d == handler[h].d
       IN  /\ row' = [row EXCEPT ![d].age = handler[h].age]
           /\ told' = [told EXCEPT ![d] = handler[h].age]
           /\ rowLock' = [rowLock EXCEPT ![d] = "free"]
    /\ Finish(h)
    /\ UNCHANGED <<quotaLock, seen, strict, pass, queued, copies, halfway,
                   requests, faults, crashes>>

(* Any authenticated request: last_seen_at is bumped, and a background task *)
(* that has read the clock is on its way to the database.                   *)
Request(h, d) ==
    /\ At(h, "idle") /\ ~Enforced(OwnerOf[d])
    /\ requests < MaxRequests /\ requests' = requests + 1
    /\ seen' = [seen EXCEPT ![OwnerOf[d]] = 0]
    /\ Start(h, "bump", d)
    /\ UNCHANGED <<row, rowLock, quotaLock, strict, pass, queued, copies,
                   halfway, told, faults, crashes>>

(* POST /dms/checkin-signed, up to its UPDATE.                              *)
CheckInSigned(h, d) ==
    /\ At(h, "idle")
    /\ requests < MaxRequests /\ requests' = requests + 1
    /\ seen' = [seen EXCEPT ![OwnerOf[d]] = 0]
    /\ Start(h, "signed", d)
    /\ UNCHANGED <<row, rowLock, quotaLock, strict, pass, queued, copies,
                   halfway, told, faults, crashes>>

(* bump_check_in_for_pubkey: UPDATE ... WHERE creator AND armed.  It waits  *)
(* for locked rows and then looks at their status again.                    *)
BumpRows(o, age) ==
    /\ \A d \in ArmedOf(o) : Free(d)
    /\ row' = [d \in Switches |-> IF d \in ArmedOf(o)
                                  THEN [row[d] EXCEPT !.age = age] ELSE row[d]]

BumpCommit(h) ==
    /\ At(h, "bump")
    /\ BumpRows(OwnerOf[handler[h].d], handler[h].age)
    /\ Finish(h)
    /\ UNCHANGED <<rowLock, quotaLock, seen, strict, pass, queued, copies,
                   halfway, told, requests, faults, crashes>>

(* The commit, then remember_signed_checkin, which may fail silently.       *)
SignedCommit(h) ==
    /\ At(h, "signed")
    /\ LET o == OwnerOf[handler[h].d]
       IN  /\ BumpRows(o, handler[h].age)
           /\ told' = [d \in Switches |-> IF d \in ArmedOf(o)
                                          THEN handler[h].age ELSE told[d]]
           /\ strict' \in {strict, strict \cup {o}}
    /\ Finish(h)
    /\ UNCHANGED <<rowLock, quotaLock, seen, pass, queued, copies, halfway,
                   requests, faults, crashes>>

----------------------------------------------------------------------------
(* The end of a switch by its owner or by the clean-up.                     *)

(* DELETE /dms/{id}: FOR UPDATE; only an armed switch goes on to the proof. *)
CancelLock(h, d) ==
    /\ At(h, "idle") /\ Armed(d) /\ Free(d)
    /\ requests < MaxRequests /\ requests' = requests + 1
    /\ rowLock' = [rowLock EXCEPT ![d] = h]
    /\ Start(h, "cancel", d)
    /\ UNCHANGED <<row, quotaLock, seen, strict, pass, queued, copies, halfway,
                   told, faults, crashes>>

(* The payload is scrubbed; nothing reads the last check-in any more.       *)
Ended(d, status) == [row[d] EXCEPT !.status = status, !.payload = FALSE, !.age = 0]

CancelCommit(h) ==
    /\ At(h, "cancel")
    /\ LET d == handler[h].d
       IN  /\ row' = [row EXCEPT ![d] = Ended(d, "cancelled")]
           /\ rowLock' = [rowLock EXCEPT ![d] = "free"]
    /\ DropTold /\ Finish(h)
    /\ UNCHANGED <<quotaLock, seen, strict, pass, queued, copies, halfway,
                   requests, faults, crashes>>

(* enforce_sensitive_action refuses, or the database raises: roll back.     *)
Rollback(h) ==
    /\ ~At(h, "idle")
    /\ rowLock' = [d \in Switches |-> IF rowLock[d] = h THEN "free" ELSE rowLock[d]]
    /\ quotaLock' = [o \in Owners |-> IF quotaLock[o] = h THEN "free"
                                                          ELSE quotaLock[o]]
    /\ Finish(h)
    /\ UNCHANGED <<row, seen, strict, pass, queued, copies, halfway, told,
                   requests, faults, crashes>>

Exists(d) == row[d].status \in {"armed", "triggered", "cancelled"}
Remove(ds, how) ==
    /\ \A d \in ds : Free(d)
    /\ row' = [d \in Switches |-> IF d \in ds /\ Exists(d)
                                  THEN [NoRow EXCEPT !.status = how] ELSE row[d]]
    /\ DropTold

(* DELETE /account: every switch of the owner, whatever its status.         *)
AccountDelete(o) ==
    /\ \E d \in Of(o) : Exists(d)
    /\ Remove(Of(o), "deleted")
    /\ UNCHANGED <<rowLock, quotaLock, seen, strict, handler, pass, queued,
                   copies, halfway, requests, faults, crashes>>

(* reap_anonymous_users: an owner without username, silent for a week, goes *)
(* with all switches, the armed ones too.                                   *)
ReapAnonymous(o) ==
    /\ o \in Anonymous /\ seen[o] > AnonInactive
    /\ \E d \in Of(o) : Exists(d)
    /\ Remove(Of(o), "reaped")
    /\ UNCHANGED <<rowLock, quotaLock, seen, strict, handler, pass, queued,
                   copies, halfway, requests, faults, crashes>>

(* reap_terminal_dms.                                                       *)
Terminal(d) == row[d].status \in {"cancelled", "triggered"}
ReapTerminal(d) ==
    /\ Terminal(d) /\ Remove({d}, "deleted")
    /\ UNCHANGED <<rowLock, quotaLock, seen, strict, handler, pass, queued,
                   copies, halfway, requests, faults, crashes>>

----------------------------------------------------------------------------
(* scripts/dms_reaper.py: one process, started by a timer.                  *)

(* int(time.time()), then the keys, Redis and the database are checked.     *)
PassStart ==
    /\ pass.pc = "idle"
    /\ \E d \in Switches : Armed(d)
    /\ pass' = [Asleep EXCEPT !.pc = "select"]
    /\ UNCHANGED <<row, rowLock, quotaLock, seen, strict, handler, queued,
                   copies, halfway, told, requests, faults, crashes>>

(* last_check_in_at + trigger_seconds <= now, for the now read earlier.     *)
DueEarly(d)   == row[d].age + pass.age >= Trigger  \* faulty variant
DueExactly(d) == row[d].age - pass.age = Trigger   \* faulty variant
Due(d)      == row[d].age - pass.age >= Trigger

(* SELECT ... FOR UPDATE SKIP LOCKED.                                       *)
LockBatchNone(due) == rowLock           \* faulty variant: a plain SELECT
LockBatch(due) ==
    [d \in Switches |-> IF d \in due THEN "reaper" ELSE rowLock[d]]

PassSelect ==
    /\ pass.pc = "select"
    /\ LET due == {d \in Switches : Armed(d) /\ Free(d) /\ Due(d)}
       IN  /\ rowLock' = LockBatch(due)
           /\ pass' = IF due = {} THEN Asleep
                      ELSE [pass EXCEPT
                              !.pc = "deliver", !.batch = due,
                              !.todo = {p \in due \X Recipients :
                                  p[2] \in RecipientsOf[p[1]] \ row[p[1]].delivered}]
    /\ UNCHANGED <<row, quotaLock, seen, strict, handler, queued, copies,
                   halfway, told, requests, faults, crashes>>

(* _build_and_deliver_envelope: the envelope id is the same in every pass.  *)
(* An existing metadata key is a duplicate and counts as delivered.         *)
PassSkips ==
    /\ pass.pc = "deliver" /\ pass.open = {}
    /\ \E p \in pass.todo \cap queued : pass' = [pass EXCEPT !.todo = @ \ {p}]
    /\ UNCHANGED <<row, rowLock, quotaLock, seen, strict, handler, queued,
                   copies, halfway, told, requests, faults, crashes>>

(* Otherwise SET NX writes the key ...                                      *)
PassClaims ==
    /\ pass.pc = "deliver" /\ pass.open = {}
    /\ \E p \in pass.todo \ queued : /\ pass' = [pass EXCEPT !.open = {p}]
                                     /\ queued' = queued \cup {p}
    /\ UNCHANGED <<row, rowLock, quotaLock, seen, strict, handler, copies,
                   halfway, told, requests, faults, crashes>>

(* ... and the EVAL puts the envelope in the inbox.                         *)
Send(p) == copies' = [copies EXCEPT ![p[1]][p[2]] = @ + 1]
PassInserts ==
    /\ pass.pc = "deliver"
    /\ \E p \in pass.open : /\ pass' = [pass EXCEPT !.todo = @ \ {p}, !.open = {}]
                            /\ Send(p)
    /\ UNCHANGED <<row, rowLock, quotaLock, seen, strict, handler, queued,
                   halfway, told, requests, faults, crashes>>

(* A delivery that raises is logged; the others still get theirs.           *)
Raises(p) ==
    /\ pass.pc = "deliver" /\ faults + crashes < MaxFailures
    /\ faults' = faults + 1
    /\ pass' = [pass EXCEPT !.todo = @ \ {p}, !.open = {}, !.failed = @ \cup {p}]
    /\ UNCHANGED <<row, rowLock, quotaLock, seen, strict, handler, told,
                   requests, crashes>>

(* Up to SET NX, whose answer may be lost after it wrote the key.           *)
PassClaimFails ==
    /\ pass.open = {}
    /\ \E p \in pass.todo :
         /\ Raises(p)
         /\ \/ UNCHANGED <<queued, halfway>>
            \/ /\ p \notin queued
               /\ queued' = queued \cup {p} /\ halfway' = halfway \cup {p}
    /\ UNCHANGED copies

(* The inbox is full, the EVAL raises with or without its effect, or the    *)
(* MULTI after it does: the key is removed, unless that fails too or it was *)
(* the MULTI.                                                               *)
PassInsertFails ==
    /\ \E p \in pass.open :
         /\ Raises(p)
         /\ queued' \in {queued, queued \ {p}}
         /\ \/ Send(p) /\ halfway' = halfway \cup {p}
            \/ /\ halfway' = halfway \cup (pass.open \cap queued')
               /\ UNCHANGED copies

(* What the single commit at the end of a pass makes of a switch.           *)
Missed(d) == {r \in Recipients : <<d, r>> \in pass.failed}
FiredAlways(d) ==                       \* faulty variant: failures ignored
    [Ended(d, "triggered") EXCEPT !.delivered = RecipientsOf[d]]
FiredForgets(d) ==                      \* faulty variant: all or nothing
    IF Missed(d) = {} THEN FiredAlways(d) ELSE row[d]
Fired(d) ==
    [(IF Missed(d) = {} THEN Ended(d, "triggered") ELSE row[d])
        EXCEPT !.delivered = RecipientsOf[d] \ Missed(d)]

PassCommit ==
    /\ pass.pc = "deliver" /\ pass.todo = {}
    /\ row' = [d \in Switches |-> IF d \in pass.batch THEN Fired(d) ELSE row[d]]
    /\ rowLock' = [d \in Switches |-> IF rowLock[d] = "reaper" THEN "free"
                                                               ELSE rowLock[d]]
    /\ DropTold /\ pass' = Asleep
    /\ UNCHANGED <<quotaLock, seen, strict, handler, queued, copies, halfway,
                   requests, faults, crashes>>

(* The process dies, or the commit fails: the database rolls back, the      *)
(* envelopes stay where they are.                                           *)
PassDies ==
    /\ pass.pc # "idle" /\ faults + crashes < MaxFailures
    /\ crashes' = crashes + 1
    /\ rowLock' = [d \in Switches |-> IF rowLock[d] = "reaper" THEN "free"
                                                               ELSE rowLock[d]]
    /\ pass' = Asleep
    /\ halfway' = halfway \cup pass.open
    /\ UNCHANGED <<row, quotaLock, seen, strict, handler, queued, copies, told,
                   requests, faults>>

(* The metadata key goes: with the acknowledgement of the recipient, who    *)
(* has the envelope only after the insert, or when its 24 hours are over.   *)
Taken(p) ==
    /\ p \in queued \ pass.open /\ queued' = queued \ {p}
    /\ UNCHANGED <<row, rowLock, quotaLock, seen, strict, handler, pass,
                   copies, halfway, told, requests, faults, crashes>>

----------------------------------------------------------------------------
Older(a) == MinOf(a + 1, Horizon)

Tick ==
    /\ \E d \in Switches : Armed(d)
    /\ pass.pc # "idle" => pass.age < Delay
    /\ \A h \in Handlers : ~At(h, "idle") => handler[h].age < Delay
    /\ row' = [d \in Switches |-> IF Armed(d) THEN [row[d] EXCEPT !.age = Older(@)]
                                             ELSE row[d]]
    /\ told' = [d \in Switches |-> IF Armed(d) THEN Older(told[d]) ELSE told[d]]
    /\ seen' = [o \in Owners |-> IF o \in Anonymous
                             THEN MinOf(seen[o] + 1, AnonInactive + 1) ELSE 0]
    /\ pass' = IF pass.pc = "idle" THEN pass ELSE [pass EXCEPT !.age = @ + 1]
    /\ handler' = [h \in Handlers |-> IF At(h, "idle") THEN handler[h]
                                      ELSE [handler[h] EXCEPT !.age = @ + 1]]
    /\ UNCHANGED <<rowLock, quotaLock, strict, queued, copies, halfway,
                   requests, faults, crashes>>

Commit(h) == \/ CreateCommit(h) \/ CheckInCommit(h) \/ BumpCommit(h)
             \/ SignedCommit(h) \/ CancelCommit(h) \/ Rollback(h)

Ask(h) == \E d \in Switches : \/ CreateCount(h, d) \/ CheckInLock(h, d)
                              \/ Request(h, d) \/ CheckInSigned(h, d)
                              \/ CancelLock(h, d)

Pass == \/ PassStart \/ PassSelect \/ PassSkips \/ PassClaims \/ PassInserts
        \/ PassCommit

Next ==
    \/ \E h \in Handlers : Ask(h) \/ Commit(h)
    \/ \E o \in Owners : AccountDelete(o) \/ ReapAnonymous(o)
    \/ \E d \in Switches : ReapTerminal(d)
    \/ Pass \/ PassClaimFails \/ PassInsertFails \/ PassDies
    \/ \E p \in Switches \X Recipients : Taken(p)
    \/ Tick

Spec == Init /\ [][Next]_vars

(* Handlers end, the timer starts a pass every hour, time goes on.  Nobody  *)
(* has to check in, cancel or take an envelope.                             *)
FairSpec == /\ Spec
            /\ \A h \in Handlers : WF_vars(Commit(h))
            /\ WF_vars(Pass) /\ WF_vars(Tick)

----------------------------------------------------------------------------
(* The shape of the table, the locks, the handlers and the pass.            *)
TypeOK ==
    /\ row \in [Switches -> RowType]
    /\ rowLock \in [Switches -> Handlers \cup {"free", "reaper"}]
    /\ quotaLock \in [Owners -> Handlers \cup {"free"}]
    /\ seen \in [Owners -> 0 .. AnonInactive + 1]
    /\ strict \subseteq Owners
    /\ handler \in [Handlers -> HandlerType]
    /\ pass \in PassType
    /\ queued \subseteq Switches \X Recipients
    /\ halfway \subseteq Switches \X Recipients
    /\ copies \in [Switches -> [Recipients -> Nat]]
    /\ told \in [Switches -> 0 .. Horizon]
    /\ requests \in Nat /\ faults \in Nat /\ crashes \in Nat

(* However many creations race, an owner has no more armed switches than    *)
(* the quota (create_dms, pg_advisory_xact_lock).                           *)
ActiveQuota == \A o \in Owners : Cardinality(ArmedOf(o)) <= MaxActive

(* "The person confirmed being alive, and the secret is already gone" must  *)
(* not happen (_load_dms_for_owner): a recipient gets a payload only when   *)
(* the last confirmed check-in was a full period before the pass began.     *)
(* Delay is the allowance for a background bump that read the clock before  *)
(* that check-in and is written after it.                                   *)
OnlySilentOwners ==
    [][\A d \in Switches : copies'[d] # copies[d] =>
         told[d] - pass.age >= Trigger - Delay]_vars

(* A payload leaves only while its switch is armed in the database: never   *)
(* after a cancellation or a deletion was confirmed, never again after the  *)
(* switch was marked triggered.                                             *)
OnlyArmedSends ==
    [][\A d \in Switches : copies'[d] # copies[d] => Armed(d)]_vars

(* Every recipient gets it, and gets it once: an armed switch keeps its     *)
(* payload for those it still owes it to; whoever is marked delivered or    *)
(* belongs to a triggered switch had it in the inbox, unless a delivery     *)
(* that died or raised left its metadata key behind without the insert, and *)
(* the next pass took the key for the envelope; and there is one more copy  *)
(* at most for each pass that died and for each delivery that raised after  *)
(* its own insert, which the failure of another recipient's does not cause  *)
(* (fire_dms_switches, enqueue_envelope).                                   *)
Mishaps(d, r) == crashes + (IF <<d, r>> \in halfway THEN faults ELSE 0)
EachRecipientOnce ==
    /\ \A d \in Switches :
        /\ Armed(d) => row[d].payload
        /\ \A r \in row[d].delivered
                   \cup (IF row[d].status = "triggered" THEN RecipientsOf[d] ELSE {}) :
             copies[d][r] > 0 \/ <<d, r>> \in halfway
        /\ \A r \in Recipients : copies[d][r] <= 1 + Mishaps(d, r)
    /\ crashes + faults = 0 => halfway = {}

(* The switch of a silent owner fires, whatever failed or died: once the    *)
(* signs of life have stopped, an armed switch ends triggered, unless its   *)
(* owner cancels it or deletes the account, or has no username and is       *)
(* forgotten with the account (fire_dms_switches, reap_anonymous_users).    *)
Ends(d) == {"triggered", "cancelled", "deleted"}
             \cup (IF OwnerOf[d] \in Anonymous THEN {"reaped"} ELSE {})
SilentSwitchFires ==
    \A d \in Switches : Armed(d) ~> row[d].status \in Ends(d)

(* What cleanup.py says of the rows it removes: "ARMED is never touched, it *)
(* is a guarantee in force, its term is set by the user through             *)
(* trigger_seconds, not by cleanup".                                        *)
ArmedIsNotReaped ==
    [][\A d \in Switches : Armed(d) => row'[d].status # "reaped"]_vars
=============================================================================

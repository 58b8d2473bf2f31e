------------------------------ MODULE Accounts ------------------------------
(***************************************************************************)
(* Provider accounts (src/crates/am-core/src/provider_accounts.rs, the      *)
(* limit policy of orchestrate.rs, src/crates/am-db/src/repos/              *)
(* provider_account.rs, and their users in agent_thread.rs, scheduler.rs    *)
(* and the message handlers of src/src/node/workbenchController.ts).        *)
(*                                                                         *)
(* The pool of accounts is one stored policy, read and written as a whole   *)
(* by the user's messages, by the registration of a CLI's own sign-in and   *)
(* by the synchronisation of settings.  Its limit states are rows of their  *)
(* own.  A thread picks an account at every launch and, at a usage limit,   *)
(* goes on with another one or waits for the scheduler.                     *)
(***************************************************************************)
EXTENDS Naturals, Sequences, FiniteSets

CONSTANTS
    Codex, Claude,
    System,      \* accounts that stand for a CLI's own sign-in
    Isolated,    \* accounts with a profile directory of their own
    CodexAccts,  \* the accounts of Codex; the others are of Claude
    Flaky,       \* accounts whose CLI may fail to answer a probe
    Credits,     \* accounts whose reset credits the user lets be redeemed
    Start,       \* accounts in the pool at first
    SignedAtFirst,
    UserOps,     \* kinds of messages of the user
    MaxOps,      \* bound: messages, sign-ins and sign-outs of the user
    MaxLimits,   \* bound: usage limits reached
    MaxFails,    \* bound: sign-in checks that fail or hang
    MaxBusy      \* bound: status reads that run at once

Accts == System \cup Isolated
Agents == {Codex, Claude}
None == "none"
AgentOf(a) == IF a \in CodexAccts THEN Codex ELSE Claude

ASSUME AcctsAssumption ==
    /\ System \cap Isolated = {} /\ CodexAccts \subseteq Accts /\ Credits \subseteq CodexAccts /\ Flaky \subseteq Accts
    /\ Start \in Seq(Accts) /\ SignedAtFirst \subseteq Accts
    /\ \A i, j \in DOMAIN Start : Start[i] = Start[j] => i = j
    /\ None \notin Accts \cup Agents
    /\ UserOps \subseteq {"add", "toggle", "activate", "delete", "system", "switch", "token"}
    /\ IsFiniteSet(Flaky) /\ {MaxOps, MaxLimits, MaxFails, MaxBusy} \subseteq Nat
    /\ \A a, b \in System : AgentOf(a) = AgentOf(b) => a = b

(* The user's message, the scheduler's tick, the fallback of a limited session
   and a launch each read statuses.                                          *)
Procs == {"ui", "tick", "fallback", "launch"}

VARIABLES
    policy,   \* the stored limit policy: order, on, gone (dismissed), auto, early
    st,       \* account -> its row: availability and reset
    signed,   \* accounts signed in at the provider (or with a stored token)
    wrong,    \* accounts whose cached sign-in check no longer says the truth
    lock,     \* holder of sync_lock
    job,      \* process -> its step and what it has read
    th,       \* the thread
    redeemed, \* accounts whose credit was redeemed
    ops, limits, fails,
    since     \* history: accounts limited, and accounts off, ever since the launch began

vars == <<policy, st, signed, wrong, lock, job, th, redeemed, ops, limits, fails, since>>

(* A row that is absent (unknown) counts like one that is available. *)
NoRow == [av |-> "available", reset |-> None]

NoCopy == [order |-> <<>>, on |-> {}, gone |-> {}, auto |-> FALSE, early |-> FALSE]

NoJob == [pc |-> "idle", op |-> None, who |-> None, agent |-> None, copy |-> NoCopy, cand |-> {},
          list |-> <<>>, on |-> {}, due |-> {}, ready |-> {}, managed |-> FALSE, held |-> FALSE]

InPool(p) == {p.order[i] : i \in DOMAIN p.order}
Limited(a) == st[a].av = "limited"
SystemOf(ag) == {a \in System : AgentOf(a) = ag}

Init ==
    /\ policy = [order |-> Start, on |-> {Start[i] : i \in DOMAIN Start}, gone |-> {},
                 auto |-> TRUE, early |-> TRUE]
    /\ st = [a \in Accts |-> NoRow]
    /\ signed = SignedAtFirst
    /\ wrong = {}
    /\ lock = None
    /\ job = [p \in Procs |-> NoJob]
    /\ th = [status |-> "idle", live |-> FALSE, end |-> None, agent |-> Codex, acct |-> None, refs |-> {}, resumed |-> None]
    /\ redeemed = {}
    /\ ops = 0 /\ limits = 0 /\ fails = 0
    /\ since = [lim |-> {}, off |-> Accts \ {Start[i] : i \in DOMAIN Start}]

-----------------------------------------------------------------------------
(* The limit policy *)

(* normalize_limit_policy: an agent with a system account is not dismissed. *)
Normalize(p) == [p EXCEPT !.gone = {g \in @ : SystemOf(g) \cap InPool(p) = {}}]

Push(p, a) == IF a \in InPool(p) THEN p
              ELSE [p EXCEPT !.order = Append(@, a), !.on = @ \cup {a}]

(* retain: an account is in the pool at most once. *)
Without(s, a) ==
    LET i == CHOOSE k \in DOMAIN s : s[k] = a
    IN  IF \E k \in DOMAIN s : s[k] = a THEN SubSeq(s, 1, i - 1) \o SubSeq(s, i + 1, Len(s)) ELSE s

Busy == {p \in Procs : job[p].pc # "idle"}
Idle(p) == job[p].pc = "idle" /\ Cardinality(Busy) < MaxBusy
Begin(p, op, who, ag) == [NoJob EXCEPT !.pc = "sync", !.op = op, !.who = who, !.agent = ag]
Done(p) == job' = [job EXCEPT ![p] = NoJob]

-----------------------------------------------------------------------------
(* provider_account_statuses_for, the steps of a process p *)

Wanted(p, a) == job[p].agent \in {None, AgentOf(a)}

(* probe_accounts: a recent result is reused, right or wrong; a CLI that is asked
   and fails or hangs counts as signed out, and that is cached as well.      *)
Probed(S, bad) == {a \in S \ bad : (a \in signed) # (a \in wrong)}
Failing(S, bad) == bad \subseteq (S \cap signed) \ wrong /\ fails + Cardinality(bad) <= MaxFails

(* The accounts of the stored policy, in its order. *)
PolicyRead(p) == [job[p] EXCEPT !.pc = "rows", !.list = policy.order, !.on = policy.on, !.cand = {}]

(* sync_system_provider_accounts_for: system accounts nobody added or dismissed
   are probed without the lock ...                                           *)
Candidates(p, bad) ==
    LET cand == {a \in System : /\ Wanted(p, a) /\ AgentOf(a) \notin policy.gone
                                /\ a \notin InPool(policy)}
        yes == Probed(cand, bad)
    IN  /\ job[p].pc = "sync" /\ Failing(cand, bad)
        /\ wrong' = wrong \cup bad /\ fails' = fails + Cardinality(bad)
        /\ job' = [job EXCEPT ![p] = IF yes = {} THEN PolicyRead(p)
                                     ELSE [@ EXCEPT !.pc = "lock", !.cand = yes]]
        /\ UNCHANGED <<policy, st, signed, lock, th, redeemed, ops, limits>>

(* ... and added to a copy of the policy read again under it. *)
SyncRead(p) ==
    /\ job[p].pc = "lock" /\ lock = None
    /\ lock' = p
    /\ job' = [job EXCEPT ![p].pc = "write", ![p].copy = policy]
    /\ UNCHANGED <<policy, st, signed, wrong, th, redeemed, ops, limits, fails>>

SyncWrite(p) ==
    LET add == {a \in job[p].cand : /\ AgentOf(a) \notin job[p].copy.gone
                                    /\ a \notin InPool(job[p].copy)}
        one == IF CodexAccts \cap add # {} THEN CodexAccts \cap add ELSE add
        a == CHOOSE x \in one : TRUE
        b == CHOOSE x \in add \ one : TRUE
        first == Push(job[p].copy, a)
    IN  /\ job[p].pc = "write"
        /\ policy' = IF add = {} THEN policy
                     ELSE Normalize(IF add = one THEN first ELSE Push(first, b))
        /\ lock' = None
        /\ job' = [job EXCEPT ![p].pc = "list", ![p].copy = NoCopy, ![p].cand = {}]
        /\ UNCHANGED <<st, signed, wrong, th, redeemed, ops, limits, fails>>

List(p) ==
    /\ job[p].pc = "list"
    /\ job' = [job EXCEPT ![p] = PolicyRead(p)]
    /\ UNCHANGED <<policy, st, signed, wrong, lock, th, redeemed, ops, limits, fails>>

(* Those of the agent that is asked for. *)
Listed(p) == {a \in {job[p].list[i] : i \in DOMAIN job[p].list} : Wanted(p, a)}

Enabled(p, S) == {a \in Listed(p) : a \in job[p].on /\ a \in S}

(* The first of the accounts S in an order s, if there is one. *)
FirstOf(s, S) == {s[i] : i \in {k \in DOMAIN s : s[k] \in S /\ \A j \in 1 .. k - 1 : s[j] \notin S}}

(* A row whose reset has passed. *)
Due(a) == st[a] = [av |-> "limited", reset |-> "due"]

(* Mutant: a limited account is as good as any. *)
ReadyLimited(p, yes) == Enabled(p, yes)

(* Mutant: an account that is switched off is as good as any. *)
ReadyOff(p, yes) == {a \in Listed(p) \cap yes : Limited(a) => Due(a)}

(* mark_active: the accounts that can take a run. *)
Ready(p, yes) == {a \in Enabled(p, yes) : Limited(a) => Due(a)}

(* select_provider_account_for: only the account asked for will do;
   next_ready_provider_account: any but the one that is limited.             *)
Suits(p, a) == CASE p = "launch" -> job[p].who \in {None, a}
                 [] p = "fallback" -> job[p].who # a
                 [] OTHER -> TRUE

(* The sign-ins are probed and the rows read.  A launch and a fallback keep the
   first account that is ready, and a launch whether one is held by a limit;
   the scheduler keeps all; a refresh of the workbench only shows them.      *)
ReadRows(p, bad) ==
    LET yes == Probed(Listed(p), bad)
        due == {a \in Listed(p) : Due(a)}
        able == {a \in Ready(p, yes) : Suits(p, a)}
        held == \E a \in Enabled(p, yes) : Suits(p, a) /\ Limited(a) /\ ~Due(a)
    IN  /\ job[p].pc = "rows" /\ Failing(Listed(p), bad)
        /\ wrong' = wrong \cup bad /\ fails' = fails + Cardinality(bad)
        /\ job' = [job EXCEPT ![p] = IF p = "ui" /\ due = {} THEN NoJob ELSE
                    [@ EXCEPT !.pc = IF due = {} THEN "use" ELSE "mark", !.on = {}, !.due = due,
                              !.managed = Listed(p) # {},
                              !.list = IF p = "tick" THEN job[p].list ELSE <<>>,
                              !.ready = CASE p = "ui" -> {} [] p = "tick" -> able
                                          [] OTHER -> FirstOf(job[p].list, able),
                              !.held = p = "launch" /\ held]]
        /\ UNCHANGED <<policy, st, signed, lock, th, redeemed, ops, limits>>

(* Mutant: a limit whose reset has passed stays. *)
MarkNever(p) ==
    /\ job[p].pc = "mark"
    /\ job' = [job EXCEPT ![p] = IF p = "ui" THEN NoJob
                                 ELSE [@ EXCEPT !.pc = "use", !.due = {}, !.ready = @ \ job[p].due]]
    /\ UNCHANGED <<policy, st, signed, wrong, lock, th, redeemed, ops, limits, fails>>

(* mark_available for the rows whose reset had passed when they were read; the
   refresh of the workbench ends here and shows what was read.               *)
MarkDue(p) ==
    /\ job[p].pc = "mark"
    /\ st' = [a \in Accts |-> IF a \in job[p].due THEN [av |-> "available", reset |-> None] ELSE st[a]]
    /\ job' = [job EXCEPT ![p] = IF p = "ui" THEN NoJob ELSE [@ EXCEPT !.pc = "use", !.due = {}]]
    /\ UNCHANGED <<policy, signed, wrong, lock, th, redeemed, ops, limits, fails>>

-----------------------------------------------------------------------------
(* Launches *)

(* run_agent_thread_inner: while waiting without automatic switching only the
   thread's own account will do.                                             *)
Required == IF th.status = "waiting" /\ (~policy.auto \/ ~policy.early) THEN th.acct ELSE None

BeginLaunch(op, who, ag) == [job EXCEPT !["launch"] = Begin("launch", op, who, ag)]

(* send_thread_message: a launch with a message asks for no account. *)
UserLaunch(ag) ==
    /\ Idle("launch") /\ ~th.live /\ th.status \in {"idle", "paused"}
    /\ job' = BeginLaunch("user", None, ag)
    /\ th' = [th EXCEPT !.agent = ag]
    /\ UNCHANGED <<policy, st, signed, wrong, lock, redeemed, ops, limits, fails>>

(* The profile a session lives in: the account, or the CLI's own. *)
Profile(a) == IF a \in Isolated THEN a ELSE AgentOf(a)

(* Mutant: the target of a session does not name its profile. *)
ResumeAny(a) == {r \in th.refs : r.agent = AgentOf(a)}

(* latest_thread_session_ref with the target hash of the profile. *)
ResumeRefs(a) == {r \in th.refs : r.agent = AgentOf(a) /\ r.profile = Profile(a)}

Chosen(p) == IF job[p].ready = {} THEN None ELSE CHOOSE a \in job[p].ready : TRUE

(* AccountSelection::Ready: the run starts in the account's profile. *)
SelectReady ==
    LET a == Chosen("launch") IN
    /\ job["launch"].pc = "use" /\ a # None
    /\ th' = [th EXCEPT !.status = "running", !.live = TRUE, !.agent = AgentOf(a), !.acct = a,
                        !.resumed = IF ResumeRefs(a) = {} THEN None
                                    ELSE (CHOOSE r \in ResumeRefs(a) : TRUE).profile]
    /\ Done("launch")
    /\ UNCHANGED <<policy, st, signed, wrong, lock, redeemed, ops, limits, fails>>

(* Unmanaged: the provider has no account in the pool; the CLI runs as it is. *)
SelectUnmanaged ==
    /\ job["launch"].pc = "use" /\ ~job["launch"].managed /\ job["launch"].who = None
    /\ th' = [th EXCEPT !.status = "running", !.live = TRUE, !.agent = job["launch"].agent,
                        !.acct = None, !.resumed = None]
    /\ Done("launch")
    /\ UNCHANGED <<policy, st, signed, wrong, lock, redeemed, ops, limits, fails>>

(* start_thread_fallback after a limit of the account a, or of all of a provider's. *)
Switches == policy.order # <<>> /\ policy.auto
Waits(t) == [t EXCEPT !.status = "waiting"]

(* Limited: enabled, signed-in accounts of the provider are there and none is
   free; the message is kept and the fallback looks for another account.     *)
SelectLimited ==
    /\ job["launch"].pc = "use" /\ Chosen("launch") = None /\ job["launch"].held
    /\ job["fallback"].pc = "idle"
    /\ IF Switches
       THEN /\ job' = [job EXCEPT !["launch"] = NoJob, !["fallback"] = Begin("fallback", "next", None, None)]
            /\ th' = th
       ELSE Done("launch") /\ th' = Waits(th)
    /\ UNCHANGED <<policy, st, signed, wrong, lock, redeemed, ops, limits, fails>>

(* SignedOut, or the one account that will do is not there.  The scheduler parks
   the thread; a user sees the error, a fallback's launch ignores it.        *)
SelectSignedOut ==
    /\ job["launch"].pc = "use" /\ Chosen("launch") = None /\ ~job["launch"].held
    /\ job["launch"].managed \/ job["launch"].who # None
    /\ th' = IF job["launch"].op = "tick" THEN [th EXCEPT !.status = "paused"] ELSE th
    /\ Done("launch")
    /\ UNCHANGED <<policy, st, signed, wrong, lock, redeemed, ops, limits, fails>>

(* The turn a session leaves for a later one of its profile to resume. *)
Kept == IF th.acct = None THEN th.refs
        ELSE th.refs \cup {[agent |-> th.agent, profile |-> Profile(th.acct)]}

RunEnds ==
    /\ th.live /\ th.end = None
    /\ th' = [th EXCEPT !.status = "idle", !.live = FALSE, !.resumed = None, !.refs = Kept]
    /\ UNCHANGED <<policy, st, signed, wrong, lock, job, redeemed, ops, limits, fails>>

(* The usage limit of a running session.  A credit is redeemed for an account
   that is still in the pool and opted in; otherwise the row is marked with
   the provider's reset, with the retry time, or without either.            *)
LimitReached(reset, credit) ==
    LET a == th.acct IN
    /\ th.live /\ th.end = None /\ a # None /\ limits < MaxLimits
    /\ credit => a \in Credits \cap InPool(policy) /\ a \notin redeemed
    /\ st' = [st EXCEPT ![a] = IF credit THEN [av |-> "available", reset |-> None]
                               ELSE [av |-> "limited", reset |-> reset]]
    /\ redeemed' = IF credit THEN redeemed \cup {a} ELSE redeemed
    /\ th' = [Waits(th) EXCEPT !.end = IF credit THEN "credit" ELSE "limit", !.resumed = None, !.refs = Kept]
    /\ limits' = limits + 1
    /\ UNCHANGED <<policy, signed, wrong, lock, job, ops, fails>>

(* After the session: the same agent again, ... *)
RestartAfterCredit ==
    /\ th.end = "credit" /\ Idle("launch")
    /\ th' = [th EXCEPT !.status = "queued", !.live = FALSE, !.end = None]
    /\ job' = BeginLaunch("spawned", None, th.agent)
    /\ UNCHANGED <<policy, st, signed, wrong, lock, redeemed, ops, limits, fails>>

(* ... or start_thread_fallback: another account, if the policy switches, ... *)
BeginFallback ==
    /\ th.end = "limit" /\ Idle("fallback")
    /\ job' = IF Switches THEN [job EXCEPT !["fallback"] = Begin("fallback", "next", th.acct, None)]
              ELSE job
    /\ th' = [Waits(th) EXCEPT !.live = FALSE, !.end = None]
    /\ UNCHANGED <<policy, st, signed, wrong, lock, redeemed, ops, limits, fails>>

(* ... next_ready_provider_account: the thread is queued on that account's agent
   and launched, or it waits.  Of two launches under way one registers, so a
   second one is left out.                                                   *)
UseFallback ==
    LET next == Chosen("fallback")
        free == job["launch"].pc = "idle" /\ ~th.live
    IN  /\ job["fallback"].pc = "use"
        /\ job' = [job EXCEPT !["fallback"] = NoJob,
                              !["launch"] = IF next # None /\ free
                                            THEN Begin("launch", "spawned", None, AgentOf(next)) ELSE @]
        /\ th' = IF next # None THEN [th EXCEPT !.agent = AgentOf(next), !.status = "queued"] ELSE Waits(th)
        /\ UNCHANGED <<policy, st, signed, wrong, lock, redeemed, ops, limits, fails>>

(* run_thread_queued_continuations *)
QueuedTick ==
    /\ Idle("launch") /\ job["tick"].pc = "idle" /\ th.status = "queued" /\ ~th.live
    /\ job' = BeginLaunch("tick", None, th.agent)
    /\ UNCHANGED <<policy, st, signed, wrong, lock, th, redeemed, ops, limits, fails>>

(* run_thread_reset_continuations; the scheduler awaits each launch it starts. *)
TickBegins ==
    /\ Idle("tick") /\ job["launch"].op # "tick" /\ th.status = "waiting" /\ policy.order # <<>>
    /\ job' = [job EXCEPT !["tick"] = Begin("tick", "resume", None, None)]
    /\ UNCHANGED <<policy, st, signed, wrong, lock, th, redeemed, ops, limits, fails>>

(* thread_resume_account *)
ResumeAccount ==
    LET mine(a) == th.acct = a \/ (th.acct = None /\ AgentOf(a) = th.agent)
    IN  FirstOf(job["tick"].list, {a \in job["tick"].ready : (policy.auto /\ policy.early) \/ mine(a)})

(* try_thread_scheduler_start *)
TickEnds ==
    /\ job["tick"].pc = "use"
    /\ IF ResumeAccount # {} /\ ~th.live /\ job["launch"].pc = "idle"
       THEN \E a \in ResumeAccount :
               /\ job' = [BeginLaunch("tick", Required, AgentOf(a)) EXCEPT !["tick"] = NoJob]
               /\ th' = [th EXCEPT !.agent = AgentOf(a)]
       ELSE Done("tick") /\ UNCHANGED th
    /\ UNCHANGED <<policy, st, signed, wrong, lock, redeemed, ops, limits, fails>>

-----------------------------------------------------------------------------
(* The user's messages.  The workbench handles one at a time; most of them read
   the policy, change the copy and write it back, then read the statuses.    *)

(* What removing a system account remembers. *)
Dismissal(a) == AgentOf(a)

(* What a message makes of its copy of the policy. *)
Edit(op, a, p) ==
    CASE op = "add"      -> Push(p, a)
      [] op = "toggle"   -> [p EXCEPT !.on = IF a \in @ THEN @ \ {a} ELSE @ \cup {a}]
      [] op = "activate" -> [p EXCEPT !.order = <<a>> \o Without(@, a), !.on = @ \cup {a}]
      [] op = "delete"   -> [p EXCEPT !.order = Without(@, a), !.on = @ \ {a},
                                      !.gone = IF a \in System \cap InPool(p) THEN @ \cup {Dismissal(a)} ELSE @]
      [] op = "system"   -> [Push(p, a) EXCEPT !.gone = @ \ {AgentOf(a)}]
      [] op = "switch"   -> [p EXCEPT !.auto = ~@]

MayEdit(op, a, p) ==
    CASE op = "add" -> a \in Isolated \ InPool(p)
      [] op = "system" -> a \in System
      [] op = "switch" -> a = CHOOSE x \in Accts : TRUE
      [] OTHER -> a \in InPool(p)

(* A message reads the policy; add_system_provider_account under the lock.  The
   workbench checks an activation against statuses it read before, which may
   no longer hold.                                                           *)
OpRead(op, a) ==
    /\ Idle("ui") /\ ops < MaxOps
    /\ op \in UserOps \ {"token"} /\ MayEdit(op, a, policy)
    /\ op = "system" => lock = None
    /\ lock' = IF op = "system" THEN "ui" ELSE lock
    /\ job' = [job EXCEPT !["ui"] = [NoJob EXCEPT !.pc = "set", !.op = op, !.who = a, !.copy = policy]]
    /\ ops' = ops + 1
    /\ UNCHANGED <<policy, st, signed, wrong, th, redeemed, limits, fails>>

(* delete_provider_account also drops the row and an isolated account's profile. *)
OpWrite ==
    LET j == job["ui"]
        del == j.op = "delete" IN
    /\ j.pc = "set"
    /\ policy' = Normalize(Edit(j.op, j.who, j.copy))
    /\ lock' = IF lock = "ui" THEN None ELSE lock
    /\ st' = IF del THEN [st EXCEPT ![j.who] = NoRow] ELSE st
    /\ signed' = IF del THEN signed \ ({j.who} \cap Isolated) ELSE signed
    /\ job' = [job EXCEPT !["ui"] = Begin("ui", "refresh", None, None)]
    /\ UNCHANGED <<wrong, th, redeemed, ops, limits, fails>>

(* set_provider_account_token, for a Claude account with a token of its own. *)
SetToken(a) ==
    /\ Idle("ui") /\ ops < MaxOps /\ "token" \in UserOps
    /\ a \in (Isolated \ CodexAccts) \cap InPool(policy)
    /\ signed' = signed \cup {a}
    /\ st' = [st EXCEPT ![a] = [av |-> "available", reset |-> None]]
    /\ wrong' = wrong \ {a}
    /\ job' = [job EXCEPT !["ui"] = Begin("ui", "refresh", None, None)]
    /\ ops' = ops + 1
    /\ UNCHANGED <<policy, lock, th, redeemed, limits, fails>>

-----------------------------------------------------------------------------
(* Time and the providers *)

ResetPasses(a) ==
    /\ st[a].reset = "later"
    /\ st' = [st EXCEPT ![a].reset = "due"]
    /\ UNCHANGED <<policy, signed, wrong, lock, job, th, redeemed, ops, limits, fails>>

(* PROBE_TTL ends for some results, or invalidate_account_probes empties the cache. *)
CacheExpires(S) ==
    /\ S # {} /\ S \subseteq wrong
    /\ wrong' = wrong \ S
    /\ UNCHANGED <<policy, st, signed, lock, job, th, redeemed, ops, limits, fails>>

(* The user signs in or out with a provider CLI; a check just before is cached. *)
SignInOut(a) ==
    /\ ops < MaxOps
    /\ a \in System \/ a \in InPool(policy)
    /\ ops' = ops + 1
    /\ signed' = IF a \in signed THEN signed \ {a} ELSE signed \cup {a}
    /\ wrong' = IF a \in wrong THEN wrong \ {a} ELSE wrong \cup {a}
    /\ UNCHANGED <<policy, st, lock, job, th, redeemed, limits, fails>>

-----------------------------------------------------------------------------
StatusStep(p) ==
    \/ SyncRead(p) \/ SyncWrite(p) \/ List(p) \/ MarkDue(p)
    \/ \E bad \in SUBSET Flaky : Candidates(p, bad) \/ ReadRows(p, bad)

(* What each process does with the statuses it has read. *)
UseStep(p) ==
    \/ p = "launch" /\ (SelectReady \/ SelectLimited \/ SelectSignedOut \/ SelectUnmanaged)
    \/ p = "fallback" /\ UseFallback
    \/ p = "tick" /\ TickEnds
    \/ p = "ui" /\ OpWrite

SessionEnd == RestartAfterCredit \/ BeginFallback

Step ==
    \/ \E p \in Procs : StatusStep(p) \/ UseStep(p)
    \/ SessionEnd
    \/ \E ag \in Agents : UserLaunch(ag)
    \/ RunEnds \/ TickBegins \/ QueuedTick
    \/ \E reset \in {"later", None}, credit \in BOOLEAN : LimitReached(reset, credit)
    \/ \E op \in UserOps \ {"token"}, a \in Accts : OpRead(op, a)
    \/ \E a \in Accts : SetToken(a) \/ ResetPasses(a) \/ SignInOut(a)
    \/ \E S \in SUBSET wrong : CacheExpires(S)

(* The history variable: reset while no launch runs, narrowed during one. *)
Track ==
    LET lim == {a \in Accts : st'[a].av = "limited" /\ st'[a].reset # "due"}
        off == Accts \ (policy'.on \cap InPool(policy'))
    IN  since' = IF job["launch"].pc = "idle" THEN [lim |-> lim, off |-> off]
                 ELSE [lim |-> since.lim \cap lim, off |-> since.off \cap off]

Next == Step /\ Track

Spec == Init /\ [][Next]_vars

(* Tasks of the runtime run on, the scheduler ticks, resets pass, cached probes
   expire; sign-in checks fail at most MaxFails times.                       *)
Fairness ==
    /\ \A p \in Procs : WF_vars((StatusStep(p) \/ UseStep(p)) /\ Track)
    /\ WF_vars(SessionEnd /\ Track)
    /\ WF_vars((\E a \in Accts : ResetPasses(a)) /\ Track) /\ WF_vars(CacheExpires(wrong) /\ Track)
    /\ WF_vars((TickBegins \/ QueuedTick) /\ Track)

LiveSpec == Spec /\ Fairness

-----------------------------------------------------------------------------
(* Properties *)

Row == [av : {"available", "limited"}, reset : {None, "later", "due"}]

Policy == [order : Seq(Accts), on : SUBSET Accts, gone : SUBSET Agents, auto : BOOLEAN, early : BOOLEAN]

Job ==
    [pc : {"idle", "set", "sync", "lock", "write", "list", "rows", "mark", "use"},
     op : UserOps \cup {"user", "spawned", "tick", "next", "resume", "refresh", None},
     who : Accts \cup {None}, agent : Agents \cup {None}, copy : Policy,
     cand : SUBSET System, list : Seq(Accts), on : SUBSET Accts, due : SUBSET Accts,
     ready : SUBSET Accts, managed : BOOLEAN, held : BOOLEAN]

Thread ==
    [status : {"idle", "running", "waiting", "queued", "paused"}, live : BOOLEAN,
     end : {None, "limit", "credit"}, agent : Agents, acct : Accts \cup {None},
     refs : SUBSET [agent : Agents, profile : Accts \cup Agents],
     resumed : Accts \cup Agents \cup {None}]

(* The policy, the rows, the processes and the thread have the shapes the code
   gives them.                                                               *)
TypeOK ==
    /\ policy \in Policy
    /\ st \in [Accts -> Row]
    /\ signed \subseteq Accts /\ wrong \subseteq Accts /\ redeemed \subseteq Accts
    /\ lock \in Procs \cup {None}
    /\ job \in [Procs -> Job]
    /\ th \in Thread
    /\ ops \in 0 .. MaxOps /\ limits \in 0 .. MaxLimits /\ fails \in 0 .. MaxFails
    /\ since \in [lim : SUBSET Accts, off : SUBSET Accts]

(* The pool names each account once, although a message, the registration of a
   sign-in and a removal each write back a copy they read earlier.           *)
PoolDistinct == \A i, j \in DOMAIN policy.order : policy.order[i] = policy.order[j] => i = j

(* A launch never starts on an account that was limited with its reset still
   ahead, switched off or not in the pool, when the launch began and ever
   since, although policy, rows and probes are read one after the other.     *)
PickedUsable == [][~th.live /\ th'.live => th'.acct \notin since.lim \cup since.off]_vars

(* "A session is only resumed by the profile that created it": switching
   accounts at a limit and back never hands one profile's session to another. *)
ResumedInOwnProfile ==
    th.live /\ th.resumed # None => th.acct # None /\ th.resumed = Profile(th.acct)

(* Accounts a waiting thread may go on with. *)
Usable(a) ==
    /\ a \in policy.on \cap InPool(policy) \cap signed
    /\ Limited(a) => st[a].reset # None
    /\ (policy.auto /\ policy.early) \/ th.acct = a

(* A thread that waits for a limit runs again, is paused by a failed sign-in
   check for the user to see, or no account is left that could ever take it:
   no reset, sign-in or switch is missed for good.                           *)
WaiterResumes ==
    th.status = "waiting" /\ ~th.live ~> th.live \/ th.status = "paused" \/ \A a \in Accts : ~Usable(a)

(* The state is well typed, the pool names each account once and a provider
   session is resumed in its own profile.                                    *)
AccountsSound == TypeOK /\ PoolDistinct /\ ResumedInOwnProfile
=============================================================================

------------------------------ MODULE Approvals ------------------------------
(***************************************************************************)
(* Live permission approvals: the registry of am-core/src/approvals.rs, the *)
(* adapter tasks that ask, the callers that decide, the consumer that ends  *)
(* a run and cancels what it left, and the workbench that shows a card for  *)
(* each pending request and rereads the registry when it hears of a change. *)
(*                                                                         *)
(* The registry is behind a mutex, but no operation is one section: an      *)
(* entry is inserted, then announced; taken, then answered, then announced. *)
(* The asking task, the timer, the callers and the end of the run meet in   *)
(* these gaps.                                                              *)
(***************************************************************************)
EXTENDS Naturals, Sequences, FiniteSets

CONSTANTS
    Request,  \* the control requests a provider sends, one approval each
    Run,      \* session or turn ids
    RunOf,    \* the session_id of each request's scope
    Caller    \* callers of resolve_approval: windows, the collaboration worker

ASSUME RunAssumption == RunOf \in [Request -> Run]

VARIABLES
    ask,      \* where the task that handles each request is
    pending,  \* the registry
    chan,     \* the oneshot channel of each request
    reply,    \* what the provider was told
    told,     \* the ApprovalResolved events of each request
    call,     \* where each caller of resolve_approval is
    run,      \* where the consumer of each run is
    clearing, \* what cancel_session_approvals took and has not announced
    mail,     \* approval events on their way to the workbench
    ui,       \* where the workbench's refresh loop is
    again,    \* refreshQueued
    seen,     \* the list the running refresh got (a local, {} when there is none)
    cards     \* the approvals of lastSnapshot

approvalVars == <<ask, pending, chan, reply, told, call, run, clearing, mail, ui, again,
          seen, cards>>
uiVars == <<ui, again, seen, cards>>

Decision == {"allow", "deny"}
Resolution == Decision \cup {"cancelled", "timed_out"}
NoReply == "none"
Off == [at |-> "off"]

(* Registry, channels, tasks and the refresh loop have their types. *)
ApprovalTypeOK ==
    /\ ask \in [Request -> {"idle", "asked", "inserted", "parked", "expired",
                            "timed_out", "done"}]
    /\ pending \subseteq Request
    /\ chan \in [Request -> Decision \cup {"open", "closed"}]
    /\ reply \in [Request -> Decision \cup {NoReply}]
    /\ told \in [Request -> Seq(Resolution)]
    /\ call \in [Caller -> {Off} \cup
                           [at : {"send", "publish"}, q : Request, d : Decision]]
    /\ run \in [Run -> {"live", "ending", "over"}]
    /\ clearing \in [Run -> SUBSET Request]
    /\ mail \in Nat
    /\ ui \in {"idle", "loading", "loaded"} /\ again \in BOOLEAN
    /\ seen \subseteq Request /\ cards \subseteq Request

ApprovalInit ==
    /\ ask = [q \in Request |-> "idle"]
    /\ pending = {}
    /\ chan = [q \in Request |-> "open"]
    /\ reply = [q \in Request |-> NoReply]
    /\ told = [q \in Request |-> << >>]
    /\ call = [c \in Caller |-> Off]
    /\ run = [r \in Run |-> "live"]
    /\ clearing = [r \in Run |-> {}]
    /\ mail = 0
    /\ ui = "idle" /\ again = FALSE /\ seen = {} /\ cards = {}

------------------------------------------------------------------------------
(* The provider asks while its run is live; the adapter spawns a task for it,
   which nobody stops when the run ends. *)
Ask(q) ==
    /\ ask[q] = "idle"
    /\ run[RunOf[q]] = "live"
    /\ ask' = [ask EXCEPT ![q] = "asked"]
    /\ UNCHANGED <<pending, chan, reply, told, call, run, clearing, mail, uiVars>>

(* request_approval: the entry is inserted under the mutex. *)
Insert(q) ==
    /\ ask[q] = "asked"
    /\ ask' = [ask EXCEPT ![q] = "inserted"]
    /\ pending' = pending \cup {q}
    /\ UNCHANGED <<chan, reply, told, call, run, clearing, mail, uiVars>>

(* The activity row, ApprovalRequested, and the wait begins. *)
Announce(q) ==
    /\ ask[q] = "inserted"
    /\ ask' = [ask EXCEPT ![q] = "parked"]
    /\ mail' = mail + 1
    /\ UNCHANGED <<pending, chan, reply, told, call, run, clearing, uiVars>>

(* Seeded fault: a wait whose sender is gone counts as allowed. *)
WakeFailsOpen(q) ==
    /\ ask[q] = "parked"
    /\ chan[q] # "open"
    /\ ask' = [ask EXCEPT ![q] = "done"]
    /\ reply' = [reply EXCEPT ![q] = IF chan[q] = "deny" THEN "deny" ELSE "allow"]
    /\ UNCHANGED <<pending, chan, told, call, run, clearing, mail, uiVars>>

(* The wait ends with the decision, or with the sender dropped: a denial. *)
Wake(q) ==
    /\ ask[q] = "parked"
    /\ chan[q] # "open"
    /\ ask' = [ask EXCEPT ![q] = "done"]
    /\ reply' = [reply EXCEPT ![q] = IF chan[q] = "closed" THEN "deny" ELSE chan[q]]
    /\ UNCHANGED <<pending, chan, told, call, run, clearing, mail, uiVars>>

(* Seeded fault: the wait has no time limit. *)
NeverTimesOut(q) ==
    /\ FALSE
    /\ UNCHANGED approvalVars

(* APPROVAL_TIMEOUT passes with the channel empty; the receiver is dropped
   before the registry is locked. *)
Timeout(q) ==
    /\ ask[q] = "parked"
    /\ chan[q] = "open"
    /\ ask' = [ask EXCEPT ![q] = "expired"]
    /\ UNCHANGED <<pending, chan, reply, told, call, run, clearing, mail, uiVars>>

(* Seeded fault: the timed-out task announces without looking whether the
   entry was still its own. *)
ExpireBlindly(q) ==
    /\ ask[q] = "expired"
    /\ pending' = pending \ {q}
    /\ ask' = [ask EXCEPT ![q] = "timed_out"]
    /\ UNCHANGED <<chan, reply, told, call, run, clearing, mail, uiVars>>

(* The timed-out task removes its entry, if nobody else has. *)
Expire(q) ==
    /\ ask[q] = "expired"
    /\ pending' = pending \ {q}
    /\ \/ q \in pending /\ ask' = [ask EXCEPT ![q] = "timed_out"] /\ UNCHANGED reply
       \/ /\ q \notin pending
          /\ ask' = [ask EXCEPT ![q] = "done"]
          /\ reply' = [reply EXCEPT ![q] = "deny"]
    /\ UNCHANGED <<chan, told, call, run, clearing, mail, uiVars>>

(* publish_resolution: the activity row, then ApprovalResolved. *)
PublishResolution(q, r) ==
    /\ told' = [told EXCEPT ![q] = Append(@, r)]
    /\ mail' = mail + 1

AnnounceTimeout(q) ==
    /\ ask[q] = "timed_out"
    /\ PublishResolution(q, "timed_out")
    /\ ask' = [ask EXCEPT ![q] = "done"]
    /\ reply' = [reply EXCEPT ![q] = "deny"]
    /\ UNCHANGED <<pending, chan, call, run, clearing, uiVars>>

------------------------------------------------------------------------------
(* resolve_approval takes the entry; an unknown id is refused and changes
   nothing. *)
ResolveTake(c, q, d) ==
    /\ call[c] = Off
    /\ q \in pending
    /\ pending' = pending \ {q}
    /\ call' = [call EXCEPT ![c] = [at |-> "send", q |-> q, d |-> d]]
    /\ UNCHANGED <<ask, chan, reply, told, run, clearing, mail, uiVars>>

(* The decision reaches the task, unless its receiver is gone by now. *)
ResolveSend(c) ==
    /\ call[c].at = "send"
    /\ LET q == call[c].q IN
         chan' = IF ask[q] \in {"inserted", "parked"}
                 THEN [chan EXCEPT ![q] = call[c].d] ELSE chan
    /\ call' = [call EXCEPT ![c].at = "publish"]
    /\ UNCHANGED <<ask, pending, reply, told, run, clearing, mail, uiVars>>

ResolvePublish(c) ==
    /\ call[c].at = "publish"
    /\ PublishResolution(call[c].q, call[c].d)
    /\ call' = [call EXCEPT ![c] = Off]
    /\ UNCHANGED <<ask, pending, chan, reply, run, clearing, uiVars>>

(* The run ends and its consumer calls cancel_session_approvals: the run's
   entries leave the registry and their senders are dropped, in one section. *)
CancelSession(r) ==
    /\ run[r] = "live"
    /\ run' = [run EXCEPT ![r] = "ending"]
    /\ LET mine == {q \in pending : RunOf[q] = r} IN
         /\ clearing' = [clearing EXCEPT ![r] = mine]
         /\ pending' = pending \ mine
         /\ chan' = [q \in Request |-> IF q \in mine THEN "closed" ELSE chan[q]]
    /\ UNCHANGED <<ask, reply, told, call, mail, uiVars>>

(* Then each one's cancellation is announced. *)
CancelPublish(r) ==
    /\ run[r] = "ending"
    /\ \/ \E q \in clearing[r] :
            /\ PublishResolution(q, "cancelled")
            /\ clearing' = [clearing EXCEPT ![r] = @ \ {q}]
            /\ UNCHANGED run
       \/ /\ clearing[r] = {}
          /\ run' = [run EXCEPT ![r] = "over"]
          /\ UNCHANGED <<told, mail, clearing>>
    /\ UNCHANGED <<ask, pending, chan, reply, call, uiVars>>

------------------------------------------------------------------------------
(* refresh(): starts the loop, or asks the running loop for another round. *)
Refresh ==
    /\ IF ui = "idle" THEN ui' = "loading" /\ again' = FALSE
                      ELSE again' = TRUE /\ UNCHANGED ui
    /\ UNCHANGED <<seen, cards>>

(* onDaemonEvent refreshes at once on an approval event. *)
Deliver ==
    /\ mail > 0
    /\ mail' = mail - 1
    /\ Refresh
    /\ UNCHANGED <<ask, pending, chan, reply, told, call, run, clearing>>

(* A refresh for any other reason: a timer, the window's focus, a command. *)
OtherRefresh ==
    /\ Refresh
    /\ UNCHANGED <<ask, pending, chan, reply, told, call, run, clearing, mail>>

(* snapshot() lists the pending approvals... *)
Fetch ==
    /\ ui = "loading"
    /\ ui' = "loaded"
    /\ seen' = pending
    /\ UNCHANGED <<ask, pending, chan, reply, told, call, run, clearing, mail, again, cards>>

(* Seeded fault: a refresh requested while another one runs is dropped. *)
ShowOnce ==
    /\ ui = "loaded"
    /\ cards' = seen /\ seen' = {}
    /\ ui' = "idle"
    /\ again' = FALSE
    /\ UNCHANGED <<ask, pending, chan, reply, told, call, run, clearing, mail>>

(* ... and is shown; another round follows if one was asked for meanwhile. *)
Show ==
    /\ ui = "loaded"
    /\ cards' = seen /\ seen' = {}
    /\ ui' = IF again THEN "loading" ELSE "idle"
    /\ again' = FALSE
    /\ UNCHANGED <<ask, pending, chan, reply, told, call, run, clearing, mail>>

------------------------------------------------------------------------------
AskTask(q) ==
    \/ Insert(q) \/ Announce(q) \/ Wake(q) \/ Timeout(q) \/ Expire(q)
    \/ AnnounceTimeout(q)

ApprovalNext ==
    \/ \E q \in Request : Ask(q) \/ AskTask(q)
    \/ \E c \in Caller, q \in Request, d \in Decision : ResolveTake(c, q, d)
    \/ \E c \in Caller : ResolveSend(c) \/ ResolvePublish(c)
    \/ \E r \in Run : CancelSession(r) \/ CancelPublish(r)
    \/ Deliver \/ OtherRefresh \/ Fetch \/ Show

ApprovalSpec == ApprovalInit /\ [][ApprovalNext]_approvalVars

(* The runtime polls every runnable task and a timer that is due fires.  The
   user need not decide, a run need not end, the workbench need not listen. *)
ApprovalLiveSpec == ApprovalSpec /\ \A q \in Request : WF_approvalVars(AskTask(q))

------------------------------------------------------------------------------
(* One resolution is announced for a request, whoever of the caller, the
   timer and the end of the run gets there: the entry of the registry is the
   right to announce, and only one of them removes it. *)
ToldOnce == \A q \in Request : Len(told[q]) <= 1

(* The provider is only allowed what a user allowed, and what was announced
   as denied, cancelled or timed out was not allowed: every other way out of
   the wait, the dropped sender and the timeout included, denies. *)
AllowedByUser ==
    \A q \in Request : reply[q] = "allow" =>
       \/ told[q] = <<"allow">>
       \/ told[q] = << >> /\ \E c \in Caller :
                               call[c] = [at |-> "publish", q |-> q, d |-> "allow"]

(* Somebody has changed the registry and has not announced it. *)
Unannounced ==
    \/ \E q \in Request : ask[q] \in {"inserted", "timed_out"}
    \/ \E c \in Caller : call[c] # Off
    \/ \E r \in Run : clearing[r] # {}

(* Once everything is announced and heard and no refresh runs, the workbench
   shows the registry: no card is left of a settled request and none is
   missing.  The order of change and event, and the flag of the refresh loop,
   are both needed for it. *)
CardsUpToDate == ~Unannounced /\ mail = 0 /\ ui = "idle" => cards = pending

(* "A forgotten prompt can never wedge an agent forever": each request gets an
   answer, also the one that reaches the registry after its run was
   cancelled, which nobody cancels any more. *)
EveryAskAnswered == \A q \in Request : ask[q] = "asked" ~> reply[q] # NoReply
==============================================================================

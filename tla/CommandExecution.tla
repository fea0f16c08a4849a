--------------------------- MODULE CommandExecution ---------------------------
(***************************************************************************)
(* How one command gets from JavaScript to the C client and its outcome    *)
(* back to the application.                                                *)
(*                                                                         *)
(* Command.execute (lib/commands/command.js) refuses when the client is    *)
(* not connected, else calls the native method with a callback.  A native  *)
(* method either hands an AsyncCommand to the C client, whose listener     *)
(* answers it (src/main/async.cc), or queues a libuv work request whose    *)
(* execute part runs on a worker thread and whose respond part answers it  *)
(* (async_invoke), or calls the C client and waits.  A native method may   *)
(* call back while execute() is still on the stack.  Client.close may come *)
(* at any time.                                                            *)
(***************************************************************************)
EXTENDS Naturals, FiniteSets

CONSTANTS Commands,     \* the commands issued
          Workers       \* threads of the libuv pool

ASSUME CommandsAssumption == IsFiniteSet(Commands)
ASSUME WorkersAssumption == Workers \in Nat \ {0}

VARIABLES
    connected,      \* Client.connected
    open,           \* as->cluster is not NULL
    style,          \* style[c]: "callback" or "promise", "none" before execute()
    stage,          \* stage[c]: see Stages
    failed,         \* failed[c]: cmd->err is set
    sent,           \* sent[c]: the C client was asked to execute the command
    object,         \* object[c]: the native command object
    scheduled,      \* scheduled[c]: an outcome left to process.nextTick or a reaction
    outcome,        \* outcome[c]: what the application was told last
    told            \* told[c]: how often it was told

perCommand == <<style, stage, failed, sent, object, scheduled, outcome, told>>
vars == <<connected, open, perCommand>>

Outcomes == {"none", "ok", "error", "thrown"}
Stages == {"idle", "queued", "running", "worked", "listening", "over"}

\* The stages in which native code still holds the command object.
Out(c) == stage[c] \in {"queued", "running", "worked", "listening"}

\* nextTick callbacks and promise reactions come before the next libuv event.
TurnOver == \A c \in Commands : scheduled[c] = "none"

-------------------------------------------------------------------------------
(* Command.execute: everything up to its return                            *)

\* Slip: no "sync" flag, the native callback calls the application's at once.
CallbackDuringExecute_Direct(c, s, result) ==
    IF s = "callback"
    THEN /\ outcome' = [outcome EXCEPT ![c] = result]
         /\ told' = [told EXCEPT ![c] = @ + 1]
         /\ UNCHANGED scheduled
    ELSE scheduled' = [scheduled EXCEPT ![c] = result] /\ UNCHANGED <<outcome, told>>

\* The native callback is called, or sendError() is, before execute() returns.
CallbackDuringExecute(c, s, result) ==
    /\ scheduled' = [scheduled EXCEPT ![c] = result]
    /\ UNCHANGED <<outcome, told>>

Begin(c, s) ==
    /\ stage[c] = "idle"
    /\ style' = [style EXCEPT ![c] = s]

\* sendError('Not connected.').
RefuseNotConnected(c, s) ==
    /\ Begin(c, s)
    /\ ~connected
    /\ stage' = [stage EXCEPT ![c] = "over"]
    /\ CallbackDuringExecute(c, s, "error")
    /\ UNCHANGED <<connected, open, failed, sent, object>>

\* A TYPE_CHECK of the native method throws: to the caller, or into the promise.
RejectTypes(c, s) ==
    /\ Begin(c, s)
    /\ connected
    /\ stage' = [stage EXCEPT ![c] = "over"]
    /\ \/ /\ s = "promise"
          /\ scheduled' = [scheduled EXCEPT ![c] = "error"]
          /\ UNCHANGED <<outcome, told>>
       \/ /\ s = "callback"
          /\ outcome' = [outcome EXCEPT ![c] = "thrown"]
          /\ told' = [told EXCEPT ![c] = @ + 1]
          /\ UNCHANGED scheduled
    /\ UNCHANGED <<connected, open, failed, sent, object>>

\* Slip: a command the C client did not accept is still left to its listener.
AsyncFails_StillListening(c, s) ==
    /\ Begin(c, s)
    /\ connected
    /\ stage' = [stage EXCEPT ![c] = "listening"]
    /\ failed' = [failed EXCEPT ![c] = TRUE]
    /\ object' = [object EXCEPT ![c] = "held"]
    /\ CallbackDuringExecute(c, s, "error")
    /\ UNCHANGED <<connected, open, sent>>

(***************************************************************************)
(* An argument cannot be converted, or the C client does not accept the    *)
(* command: the error callback runs at once and Cleanup deletes the        *)
(* command.                                                                *)
(***************************************************************************)
AsyncFails(c, s) ==
    /\ Begin(c, s)
    /\ connected
    /\ stage' = [stage EXCEPT ![c] = "over"]
    /\ failed' = [failed EXCEPT ![c] = TRUE]
    /\ object' = [object EXCEPT ![c] = "freed"]
    /\ CallbackDuringExecute(c, s, "error")
    /\ UNCHANGED <<connected, open, sent>>

\* The C client accepts the command: "cmd = NULL", the listener deletes it.
AsyncSent(c, s) ==
    /\ Begin(c, s)
    /\ connected
    /\ stage' = [stage EXCEPT ![c] = "listening"]
    /\ sent' = [sent EXCEPT ![c] = TRUE]
    /\ object' = [object EXCEPT ![c] = "held"]
    /\ UNCHANGED <<connected, open, failed, scheduled, outcome, told>>

\* async_invoke: prepare() may set an error, the request is queued either way.
WorkQueued(c, s) ==
    /\ Begin(c, s)
    /\ connected
    /\ stage' = [stage EXCEPT ![c] = "queued"]
    /\ \E bad \in BOOLEAN : failed' = [failed EXCEPT ![c] = bad]
    /\ object' = [object EXCEPT ![c] = "held"]
    /\ UNCHANGED <<connected, open, sent, scheduled, outcome, told>>

\* The user, role and XDR commands call the C client, which blocks, on the main
\* thread: their outcome, good or bad, is there before execute() returns.
BlockingCommand(c, s) ==
    /\ Begin(c, s)
    /\ connected
    /\ stage' = [stage EXCEPT ![c] = "over"]
    /\ sent' = [sent EXCEPT ![c] = TRUE]
    /\ object' = [object EXCEPT ![c] = "freed"]
    /\ \E bad \in BOOLEAN :
         /\ failed' = [failed EXCEPT ![c] = bad]
         /\ CallbackDuringExecute(c, s, IF bad THEN "error" ELSE "ok")
    /\ UNCHANGED <<connected, open>>

Execute(c, s) ==
    \/ RefuseNotConnected(c, s)
    \/ RejectTypes(c, s)
    \/ AsyncFails(c, s)
    \/ AsyncSent(c, s)
    \/ WorkQueued(c, s)
    \/ BlockingCommand(c, s)

-------------------------------------------------------------------------------
(* Worker threads                                                          *)

CanExecute(c) == ~failed[c] /\ open

\* execute() returns at once unless CanExecute(); else it enters the C client.
StartWork(c) ==
    /\ stage[c] = "queued"
    /\ Cardinality({d \in Commands : stage[d] = "running"}) < Workers
    /\ stage' = [stage EXCEPT ![c] = IF CanExecute(c) THEN "running" ELSE "worked"]
    /\ sent' = [sent EXCEPT ![c] = CanExecute(c)]
    /\ UNCHANGED <<connected, open, style, failed, object, scheduled, outcome, told>>

\* The C client returns to execute(), with cmd->err set or not.
FinishWork(c) ==
    /\ stage[c] = "running"
    /\ stage' = [stage EXCEPT ![c] = "worked"]
    /\ \E bad \in BOOLEAN : failed' = [failed EXCEPT ![c] = bad]
    /\ UNCHANGED <<connected, open, style, sent, object, scheduled, outcome, told>>

-------------------------------------------------------------------------------
(* Answers, on the main thread                                             *)

\* The native callback after execute() has returned.
CallbackLater(c, result) ==
    \/ /\ style[c] = "callback"
       /\ outcome' = [outcome EXCEPT ![c] = result]
       /\ told' = [told EXCEPT ![c] = @ + 1]
       /\ UNCHANGED scheduled
    \/ /\ style[c] = "promise"
       /\ scheduled' = [scheduled EXCEPT ![c] = result]
       /\ UNCHANGED <<outcome, told>>

\* Slip: the command object is not deleted after its callback.
Respond_Leaks(c) ==
    /\ stage[c] = "worked"
    /\ TurnOver
    /\ stage' = [stage EXCEPT ![c] = "over"]
    /\ CallbackLater(c, IF failed[c] THEN "error" ELSE "ok")
    /\ UNCHANGED <<connected, open, style, failed, sent, object>>

\* Slip: a request with an error is deleted without a callback.
Respond_SilentOnError(c) ==
    /\ stage[c] = "worked"
    /\ TurnOver
    /\ stage' = [stage EXCEPT ![c] = "over"]
    /\ object' = [object EXCEPT ![c] = "freed"]
    /\ IF failed[c] THEN UNCHANGED <<scheduled, outcome, told>> ELSE CallbackLater(c, "ok")
    /\ UNCHANGED <<connected, open, style, failed, sent>>

\* respond(): error callback if cmd->err is set, success if not; then delete.
Respond(c) ==
    /\ stage[c] = "worked"
    /\ TurnOver
    /\ stage' = [stage EXCEPT ![c] = "over"]
    /\ object' = [object EXCEPT ![c] = "freed"]
    /\ CallbackLater(c, IF failed[c] THEN "error" ELSE "ok")
    /\ UNCHANGED <<connected, open, style, failed, sent>>

\* The listener of a record, write or value command: callback, then delete.
Listener(c) ==
    /\ stage[c] = "listening"
    /\ TurnOver
    /\ stage' = [stage EXCEPT ![c] = "over"]
    /\ object' = [object EXCEPT ![c] = "freed"]
    /\ \E bad \in BOOLEAN :
         /\ failed' = [failed EXCEPT ![c] = bad]
         /\ CallbackLater(c, IF bad THEN "error" ELSE "ok")
    /\ UNCHANGED <<connected, open, style, sent>>

\* A nextTick callback, or the reaction of a settled promise.
Scheduled(c) ==
    /\ scheduled[c] # "none"
    /\ outcome' = [outcome EXCEPT ![c] = scheduled[c]]
    /\ told' = [told EXCEPT ![c] = @ + 1]
    /\ scheduled' = [scheduled EXCEPT ![c] = "none"]
    /\ UNCHANGED <<connected, open, style, stage, failed, sent, object>>

-------------------------------------------------------------------------------
\* Client.close on a connected client: the flag, then AerospikeClient::Close.
CloseClient ==
    /\ connected
    /\ connected' = FALSE
    /\ open' = FALSE
    /\ UNCHANGED perCommand

Init ==
    /\ connected \in BOOLEAN
    /\ open = connected
    /\ style = [c \in Commands |-> "none"]
    /\ stage = [c \in Commands |-> "idle"]
    /\ failed = [c \in Commands |-> FALSE]
    /\ sent = [c \in Commands |-> FALSE]
    /\ object = [c \in Commands |-> "none"]
    /\ scheduled = [c \in Commands |-> "none"]
    /\ outcome = [c \in Commands |-> "none"]
    /\ told = [c \in Commands |-> 0]

Next ==
    \/ \E c \in Commands, s \in {"callback", "promise"} : Execute(c, s)
    \/ \E c \in Commands : StartWork(c)
    \/ \E c \in Commands : FinishWork(c)
    \/ \E c \in Commands : Respond(c)
    \/ \E c \in Commands : Listener(c)
    \/ \E c \in Commands : Scheduled(c)
    \/ CloseClient

Spec == Init /\ [][Next]_vars

(***************************************************************************)
(* The pool runs what is queued, the C client returns and answers every    *)
(* command it accepted (its total timeouts), node runs its callbacks.      *)
(***************************************************************************)
Fairness ==
    \A c \in Commands :
        /\ WF_vars(StartWork(c))
        /\ WF_vars(FinishWork(c))
        /\ WF_vars(Respond(c))
        /\ WF_vars(Listener(c))
        /\ WF_vars(Scheduled(c))

FairSpec == Spec /\ Fairness

-------------------------------------------------------------------------------
(* Properties                                                              *)

\* Type correctness of every variable.
TypeOK ==
    /\ connected \in BOOLEAN /\ open \in BOOLEAN
    /\ style \in [Commands -> {"none", "callback", "promise"}]
    /\ stage \in [Commands -> Stages]
    /\ failed \in [Commands -> BOOLEAN]
    /\ sent \in [Commands -> BOOLEAN]
    /\ object \in [Commands -> {"none", "held", "freed"}]
    /\ scheduled \in [Commands -> Outcomes]
    /\ outcome \in [Commands -> Outcomes]
    /\ told \in [Commands -> 0..1]

\* The native command object lives exactly as long as a work request or a
\* listener can still reach it (the deletes of Cleanup, respond and listeners).
ObjectWhileOut == \A c \in Commands : (object[c] = "held") <=> Out(c)

\* Whatever path a command takes, the application is told at most once, and
\* only after native code has let go of it (executeWithCallback, listeners).
ToldOnce ==
    \A c \in Commands :
        LET due == IF scheduled[c] = "none" THEN 0 ELSE 1
        IN  told[c] + due = IF stage[c] = "over" THEN 1 ELSE 0

\* A callback is never called before execute() has returned; only an exception
\* reaches the caller there (the sync flag of executeWithCallback).
NeverDuringExecute ==
    [][\A c \in Commands :
          stage[c] = "idle" /\ stage'[c] # "idle" /\ told'[c] > told[c]
             => outcome'[c] = "thrown"]_vars

\* Every command that was issued is answered, whatever close() does meanwhile.
EveryCommandIsAnswered ==
    \A c \in Commands : stage[c] # "idle" ~> told[c] = 1

\* "Skipping execution ... because client is invalid" (CanExecute) is not a
\* success: success is reported only for what the C client was asked to do.
SuccessMeansSent == \A c \in Commands : outcome[c] = "ok" => sent[c]
===============================================================================

------------------------------- MODULE Launch -------------------------------
(***************************************************************************)
(* Launching apps: abilitymgr (source/services/abilitymgr) asks sessiond   *)
(* whether a session is active, keeps the table of instances, asks execd   *)
(* for the process and answers its client.                                 *)
(*                                                                         *)
(* Both questions have a time limit and neither carries a nonce: an answer *)
(* that comes too late stays in the inbox and is taken for the answer to   *)
(* the next question.  abilitymgr and execd each serve one request at a    *)
(* time and send into bounded queues, waiting for a place in them.  Apart  *)
(* from abilitymgr execd has no clients here.                              *)
(***************************************************************************)
EXTENDS Naturals, Sequences

CONSTANTS
    App,
    PreSession,      \* APP_PRE_SESSION
    Permitted,       \* apps that require only known capabilities
    Spawnable,       \* APP_UI_PROGRAMS
    States,          \* AbilityState values that transitions are asked for
    MaxInstances,    \* MAX_INSTANCES
    QueueDepth       \* places in an endpoint's queue

VARIABLES
    lnSession,    \* sessiond: SessionState
    lnInstance,   \* Broker.instances: the id is the position, none is removed
    lnAsked,      \* GET_STATE requests sessiond has not served
    lnAnswers,    \* its answers in the reply inbox
    lnExec,       \* spawn requests execd has not taken
    lnHandled,    \* execd has taken one and not answered it
    lnSpawned,    \* execd's answers that abilitymgr has not taken
    lnOut,        \* abilitymgr's answers that no client has taken
    lnPc          \* where abilitymgr is in serving a request

lnQueues == <<lnAsked, lnAnswers, lnExec, lnHandled, lnSpawned, lnOut>>
lnVars == <<lnSession, lnInstance, lnQueues, lnPc>>

Idle == [at |-> "recv"]

(* sessiond decides on auto-login before it serves anybody. *)
LnInit ==
    /\ lnSession \in {"Greeter", "Active"}
    /\ lnInstance = <<>>
    /\ lnAsked = 0 /\ lnAnswers = <<>> /\ lnExec = 0 /\ lnHandled = FALSE
    /\ lnSpawned = 0 /\ lnOut = 0
    /\ lnPc = Idle

-----------------------------------------------------------------------------
(* sessiond *)

Login ==
    /\ lnSession = "Greeter" /\ lnSession' = "Active"
    /\ UNCHANGED <<lnInstance, lnQueues, lnPc>>

(* The answer goes to the reply capability, without waiting for a place. *)
GetState ==
    /\ lnAsked > 0 /\ lnAsked' = lnAsked - 1
    /\ lnAnswers' = IF Len(lnAnswers) < QueueDepth THEN Append(lnAnswers, lnSession) ELSE lnAnswers
    /\ UNCHANGED <<lnSession, lnInstance, lnExec, lnHandled, lnSpawned, lnOut, lnPc>>

-----------------------------------------------------------------------------
(* Broker.  A request comes with a reply capability or without (cap). *)

Answering(cap) == [at |-> "answer", cap |-> cap]

ValidTransition(from, to) ==
    \/ from = "Created" /\ to = "Started"
    \/ from = "Started" /\ to \in {"Foreground", "Background"}
    \/ from = "Foreground" /\ to = "Background"
    \/ from = "Background" /\ to \in {"Foreground", "Suspended"}
    \/ from = "Suspended" /\ to \in {"Background", "Foreground"}
    \/ from # "Stopped" /\ to = "Stopped"

(* transition; another one is refused and changes nothing. *)
BrokerTransition(id, to, cap) ==
    /\ lnPc = Idle
    /\ lnInstance' = IF ValidTransition(lnInstance[id].state, to)
                     THEN [lnInstance EXCEPT ![id].state = to] ELSE lnInstance
    /\ lnPc' = Answering(cap)
    /\ UNCHANGED <<lnSession, lnQueues>>

(* launch_with_caps; then spawn_app for an app that has a payload to run,    *)
(* unless execd cannot be reached.                                           *)
LaunchWithCaps(app, cap) ==
    /\ Len(lnInstance) < MaxInstances /\ app \in Permitted
    /\ lnInstance' = Append(lnInstance, [app |-> app, state |-> "Created"])
    /\ \/ lnPc' = Answering(cap)
       \/ app \in Spawnable /\ lnPc' = [at |-> "spawn", cap |-> cap]

DispatchLaunch(app, cap) ==
    \/ LaunchWithCaps(app, cap)
    \/ /\ Len(lnInstance) >= MaxInstances \/ app \notin Permitted
       /\ lnPc' = Answering(cap)
       /\ UNCHANGED lnInstance

-----------------------------------------------------------------------------
(* service_main_loop *)

RequestPreSession(app, cap) ==
    /\ lnPc = Idle /\ app \in PreSession
    /\ DispatchLaunch(app, cap)
    /\ UNCHANGED <<lnSession, lnQueues>>

(* session_gate_active; refused if sessiond cannot be reached. *)
RequestGated(app, cap) ==
    /\ lnPc = Idle /\ app \notin PreSession
    /\ lnPc' \in {[at |-> "ask", app |-> app, cap |-> cap], Answering(cap)}
    /\ UNCHANGED <<lnSession, lnInstance, lnQueues>>

(* It sends its question, or finds no place in the queue until the deadline. *)
AskSession ==
    /\ lnPc.at = "ask"
    /\ \/ /\ lnAsked < QueueDepth /\ lnAsked' = lnAsked + 1
          /\ lnPc' = [lnPc EXCEPT !.at = "gate"]
       \/ /\ lnAsked >= QueueDepth /\ UNCHANGED lnAsked
          /\ lnPc' = Answering(lnPc.cap)
    /\ UNCHANGED <<lnSession, lnInstance, lnAnswers, lnExec, lnHandled, lnSpawned, lnOut>>

GateOpens_Fault(answer) == TRUE
GateOpens(answer) == answer = "Active"

GateAnswer ==
    /\ lnPc.at = "gate" /\ lnAnswers # <<>>
    /\ lnAnswers' = Tail(lnAnswers)
    /\ \/ GateOpens(Head(lnAnswers)) /\ DispatchLaunch(lnPc.app, lnPc.cap)
       \/ /\ ~ GateOpens(Head(lnAnswers))
          /\ lnPc' = Answering(lnPc.cap) /\ UNCHANGED lnInstance
    /\ UNCHANGED <<lnSession, lnAsked, lnExec, lnHandled, lnSpawned, lnOut>>

GateTimeout_Fault == FALSE /\ UNCHANGED lnVars

(* The deadline passes with nothing in the inbox: no session. *)
GateTimeout ==
    /\ lnPc.at = "gate" /\ lnAnswers = <<>>
    /\ lnPc' = Answering(lnPc.cap)
    /\ UNCHANGED <<lnSession, lnInstance, lnQueues>>

(* spawn_app: the request waits for a place in execd's queue without limit. *)
SendSpawn ==
    /\ lnPc.at = "spawn" /\ lnExec < QueueDepth
    /\ lnExec' = lnExec + 1
    /\ lnPc' = [lnPc EXCEPT !.at = "reply"]
    /\ UNCHANGED <<lnSession, lnInstance, lnAsked, lnAnswers, lnHandled, lnSpawned, lnOut>>

(* Whatever execd says, or nothing in time, is logged; the instance keeps    *)
(* its state.                                                                *)
SpawnAnswer ==
    /\ lnPc.at = "reply" /\ lnSpawned > 0
    /\ lnSpawned' = lnSpawned - 1
    /\ lnPc' = Answering(lnPc.cap)
    /\ UNCHANGED <<lnSession, lnInstance, lnAsked, lnAnswers, lnExec, lnHandled, lnOut>>

SpawnTimeout ==
    /\ lnPc.at = "reply" /\ lnSpawned = 0
    /\ lnPc' = Answering(lnPc.cap)
    /\ UNCHANGED <<lnSession, lnInstance, lnQueues>>

(* The answer to the client: to the reply capability at once (and lost if    *)
(* there is no place), else into the response queue, waiting for a place.    *)
Reply ==
    /\ lnPc.at = "answer"
    /\ \/ lnPc.cap /\ UNCHANGED lnOut
       \/ ~ lnPc.cap /\ lnOut < QueueDepth /\ lnOut' = lnOut + 1
    /\ lnPc' = Idle
    /\ UNCHANGED <<lnSession, lnInstance, lnAsked, lnAnswers, lnExec, lnHandled, lnSpawned>>

BrokerStep ==
    \/ AskSession \/ GateAnswer \/ GateTimeout
    \/ SendSpawn \/ SpawnAnswer \/ SpawnTimeout \/ Reply

(* A client takes its response. *)
ClientTakes ==
    /\ lnOut > 0 /\ lnOut' = lnOut - 1
    /\ UNCHANGED <<lnSession, lnInstance, lnAsked, lnAnswers, lnExec, lnHandled, lnSpawned, lnPc>>

-----------------------------------------------------------------------------
(* execd: service_main_loop takes a request, handle_frame starts the process *)
(* or refuses, and the answer waits for a place in the response queue.       *)

HandleFrame ==
    /\ ~ lnHandled /\ lnExec > 0
    /\ lnExec' = lnExec - 1 /\ lnHandled' = TRUE
    /\ UNCHANGED <<lnSession, lnInstance, lnAsked, lnAnswers, lnSpawned, lnOut, lnPc>>

ExecReply ==
    /\ lnHandled /\ lnSpawned < QueueDepth
    /\ lnHandled' = FALSE /\ lnSpawned' = lnSpawned + 1
    /\ UNCHANGED <<lnSession, lnInstance, lnAsked, lnAnswers, lnExec, lnOut, lnPc>>

ExecStep == HandleFrame \/ ExecReply

LnNext ==
    \/ Login \/ GetState \/ BrokerStep \/ ClientTakes \/ ExecStep
    \/ \E app \in App, cap \in BOOLEAN : RequestPreSession(app, cap) \/ RequestGated(app, cap)
    \/ \E id \in DOMAIN lnInstance, to \in States, cap \in BOOLEAN : BrokerTransition(id, to, cap)

LaunchSpec == LnInit /\ [][LnNext]_lnVars

-----------------------------------------------------------------------------
(* No app but the login surface is launched before somebody logged in,       *)
(* although the answers to questions that were given up are taken for the    *)
(* answers to later ones (session_gate_active).                              *)
LnNoLaunchBeforeLogin ==
    \A id \in DOMAIN lnInstance :
        lnInstance[id].app \notin PreSession => lnSession = "Active"

(* Every request is answered, though sessiond never answers and execd is     *)
(* slow: two waits have no limit, for a place in execd's queue (spawn_app)   *)
(* and in the response queue (service_main_loop), and the first one ends     *)
(* although execd itself waits for abilitymgr to take its answers, of which  *)
(* those that came too late are still there.                                 *)
LnRequestEnds == lnPc # Idle ~> lnPc = Idle
=============================================================================

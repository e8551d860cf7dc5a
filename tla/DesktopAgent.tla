---------------------------- MODULE DesktopAgent ----------------------------
(***************************************************************************)
(* The desktop's main process (desktop/src/main: index.ts, acp.ts,         *)
(* session.ts, runtime.ts): the inference gateway it spawns for the stored *)
(* connections, the agent it talks ACP to, one prompt at a time and the    *)
(* permissions the agent asks for, with the card DesktopApp.tsx shows.     *)
(*                                                                         *)
(* A handler runs alone until it awaits; every await below is a state of   *)
(* its own.  There is one window, which waits for a 'connect' and for a    *)
(* 'saveConnection' before it sends the next (connecting, savingProvider). *)
(* The agent behind the pipe is external: it may answer, ask, stay silent  *)
(* or exit at any moment.                                                  *)
(***************************************************************************)
EXTENDS Naturals, FiniteSets

CONSTANTS MaxEdits,   \* changes of the stored connections
          MaxAgents,  \* agents spawned
          AskIds      \* ids of permission requests; every agent counts from the same

ASSUME DesktopAssumption == MaxEdits \in Nat /\ MaxAgents \in Nat \ {0} /\ AskIds # {}

VARIABLES conns,     \* state.connections: a version, 0 when the list is empty
          edits,     \* versions so far
          gate,      \* gateway: the version the referenced process serves, or NoGate
          starting,  \* the calls of startGateway under way
          orphans,   \* versions served by running processes no variable refers to
          agent,     \* acp, and how far connectAcp is with it
          session,   \* sessionId, and what sessionByWorkspace holds
          prompting, \* busy, the pending session/prompt, what the agent still does
          asking,    \* acp.permissions, the event on its way and the card on screen
          consent    \* the last answer: what was on the card, what it was given for

desktopVars == <<conns, edits, gate, starting, orphans, agent, session, prompting,
                 asking, consent>>

Callers == {"boot", "connect", "edit"}
NoGate == MaxEdits + 1
NoCard == [agent |-> 0, id |-> CHOOSE i \in AskIds : TRUE]
Idle == [pc |-> "idle", serves |-> 0]
Silent == [busy |-> FALSE, pending |-> FALSE, works |-> FALSE]
NoAsk == [open |-> {}, event |-> NoCard, card |-> NoCard]

\* restore() has read connections and the session of the last workspace.
DesktopInit ==
  /\ conns \in {0, 1} /\ MaxEdits >= 1
  /\ edits = 1
  /\ gate = NoGate
  /\ starting = [c \in Callers |-> IF c = "boot" /\ conns # 0
                                   THEN [Idle EXCEPT !.pc = "port"] ELSE Idle]
  /\ orphans = {}
  /\ agent = [pc |-> "idle", on |-> FALSE, n |-> 0, gate |-> NoGate]
  /\ session \in [id : {FALSE}, stored : BOOLEAN]
  /\ prompting = Silent
  /\ asking = NoAsk
  /\ consent = [shown |-> 0, given |-> 0]

-----------------------------------------------------------------------------
(* startGateway: `if (gateway || no connections) return`, then two awaits *)

StartGateway(c, g, v) ==
  starting' = [starting EXCEPT ![c] = IF g = NoGate /\ v # 0 THEN [Idle EXCEPT !.pc = "port"]
                                      ELSE Idle]

\* After availablePort: the list is read again, a process is spawned with it.
SpawnGateway(c) ==
  /\ starting[c].pc = "port"
  /\ starting' = [starting EXCEPT ![c] = IF conns = 0 THEN Idle
                                         ELSE [pc |-> "ready", serves |-> conns]]
  /\ UNCHANGED <<conns, edits, gate, orphans, agent, session, prompting, asking, consent>>

\* waitReady returns: gateway = {child, port, token}, whatever it was.
GatewayReady(c) ==
  /\ starting[c].pc = "ready"
  /\ gate' = starting[c].serves
  /\ orphans' = orphans \cup ({gate} \ {NoGate})
  /\ starting' = [starting EXCEPT ![c] = Idle]
  /\ UNCHANGED <<conns, edits, agent, session, prompting, asking, consent>>

\* It throws: the process is gone, or is left behind by the timeout.
GatewayNotReady(c) ==
  /\ starting[c].pc = "ready"
  /\ \/ UNCHANGED orphans
     \/ orphans' = orphans \cup {starting[c].serves}
  /\ starting' = [starting EXCEPT ![c] = Idle]
  /\ agent' = IF c = "connect" THEN [agent EXCEPT !.pc = "idle"] ELSE agent
  /\ UNCHANGED <<conns, edits, gate, session, prompting, asking, consent>>

-----------------------------------------------------------------------------
(* AcpClient.close and the 'closed' listener of connectAcp: every pending  *)
(* request is rejected, the agent is killed.  The card stays on screen.    *)

CloseAgent(stored) ==
  /\ agent' = [agent EXCEPT !.on = FALSE]
  /\ session' = [id |-> FALSE, stored |-> stored]
  /\ prompting' = Silent
  /\ asking' = [asking EXCEPT !.open = {}]

\* acp?.close() in saveConnection and removeConnection.
CloseIfOn ==
  IF agent.on THEN CloseAgent(session.stored) ELSE UNCHANGED <<agent, session, prompting, asking>>

\* saveConnection, removeConnection: the list, the agent, the gateway, in this order.
EditConnections ==
  /\ edits < MaxEdits
  /\ starting["edit"] = Idle
  /\ edits' = edits + 1
  /\ conns' \in {0, edits + 1}
  /\ CloseIfOn
  /\ gate' = NoGate
  /\ StartGateway("edit", NoGate, conns')
  /\ UNCHANGED <<orphans, consent>>

-----------------------------------------------------------------------------
(* connectAcp *)

Connect ==
  /\ agent.pc = "idle" /\ ~agent.on /\ conns # 0
  /\ agent.n < MaxAgents
  /\ agent' = [agent EXCEPT !.pc = "gateway"]
  /\ StartGateway("connect", gate, conns)
  /\ UNCHANGED <<conns, edits, gate, orphans, session, prompting, asking, consent>>

\* startGateway has returned; hermesExecutable and writeHermesConfig are awaited.
LookForAgent ==
  /\ agent.pc = "gateway" /\ starting["connect"] = Idle
  /\ agent' = [agent EXCEPT !.pc = IF gate = NoGate THEN "idle" ELSE "spawn"]
  /\ UNCHANGED <<conns, edits, gate, starting, orphans, session, prompting, asking, consent>>

\* No agent is found, or its configuration is not written.
NoAgentFound ==
  /\ agent.pc = "spawn"
  /\ agent' = [agent EXCEPT !.pc = "idle"]
  /\ UNCHANGED <<conns, edits, gate, starting, orphans, session, prompting, asking, consent>>

\* acp = client.  sessionId keeps what openFolder put there.
SpawnAgent ==
  /\ agent.pc = "spawn"
  /\ agent' = [pc |-> "setup", on |-> TRUE, n |-> agent.n + 1, gate |-> gate]
  /\ UNCHANGED <<conns, edits, gate, starting, orphans, session, prompting, asking, consent>>

\* startSession returns: initialize, then session/load or session/new.
SessionStarts ==
  /\ agent.pc = "setup" /\ agent.on
  /\ agent' = [agent EXCEPT !.pc = "idle"]
  /\ session' = [id |-> TRUE, stored |-> TRUE]
  /\ UNCHANGED <<conns, edits, gate, starting, orphans, prompting, asking, consent>>

\* Mutant: close does not reject the requests that are pending.
SessionFailsIfOpen ==
  /\ agent.pc = "setup" /\ agent.on
  /\ agent' = [agent EXCEPT !.pc = "idle", !.on = FALSE]
  /\ session' = [session EXCEPT !.id = FALSE]
  /\ prompting' = Silent
  /\ asking' = [asking EXCEPT !.open = {}]
  /\ UNCHANGED <<conns, edits, gate, starting, orphans, consent>>

\* It throws, on an error or a timeout or because the client was closed.
SessionFails ==
  /\ agent.pc = "setup"
  /\ IF agent.on
     THEN /\ agent' = [agent EXCEPT !.pc = "idle", !.on = FALSE]
          /\ session' = [session EXCEPT !.id = FALSE]
          /\ prompting' = Silent
          /\ asking' = [asking EXCEPT !.open = {}]
     ELSE agent' = [agent EXCEPT !.pc = "idle"] /\ UNCHANGED <<session, prompting, asking>>
  /\ UNCHANGED <<conns, edits, gate, starting, orphans, consent>>

AgentExits ==
  /\ agent.on
  /\ CloseAgent(session.stored)
  /\ UNCHANGED <<conns, edits, gate, starting, orphans, consent>>

\* openFolder: another folder, or the same one; its stored session is taken over.
\* DesktopApp refuses while the agent is busy, not while it connects.
OpenFolder ==
  /\ ~prompting.busy
  /\ \E stored \in BOOLEAN :
        /\ agent' = [agent EXCEPT !.on = FALSE]
        /\ session' = [id |-> stored, stored |-> stored]
  /\ prompting' = Silent
  /\ asking' = NoAsk
  /\ UNCHANGED <<conns, edits, gate, starting, orphans, consent>>

ResetSession ==
  /\ agent' = [agent EXCEPT !.on = FALSE]
  /\ session' = [id |-> FALSE, stored |-> FALSE]
  /\ prompting' = IF agent.on THEN Silent ELSE prompting
  /\ asking' = [asking EXCEPT !.open = {}]
  /\ UNCHANGED <<conns, edits, gate, starting, orphans, consent>>

-----------------------------------------------------------------------------
(* prompt, cancel.  pending: the handler still waits for its request.      *)

Prompt ==
  /\ agent.on /\ session.id
  /\ ~prompting.busy
  /\ prompting' = [busy |-> TRUE, pending |-> TRUE, works |-> TRUE]
  /\ UNCHANGED <<conns, edits, gate, starting, orphans, agent, session, asking, consent>>

\* receive: an answer, an error, or the 'cancelled' that session/cancel asks for.
\* The answer to a request that timed out finds no pending entry and is dropped.
PromptAnswered ==
  /\ agent.on /\ prompting.works
  /\ prompting' = Silent
  /\ UNCHANGED <<conns, edits, gate, starting, orphans, agent, session, asking, consent>>

\* Mutant: busy is reset where the answer is handled, not in the finally clause.
BusyAfterTimeout ==
  /\ prompting.pending
  /\ prompting' = [prompting EXCEPT !.pending = FALSE]
  /\ UNCHANGED <<conns, edits, gate, starting, orphans, agent, session, asking, consent>>

\* The timer of thirty minutes; the agent is not told.
PromptTimesOut ==
  /\ prompting.pending
  /\ prompting' = [prompting EXCEPT !.busy = FALSE, !.pending = FALSE]
  /\ UNCHANGED <<conns, edits, gate, starting, orphans, agent, session, asking, consent>>

-----------------------------------------------------------------------------
(* session/request_permission, and answerPermission of DesktopApp *)

\* The request is kept, its event is on the way to the window.
Ask ==
  /\ agent.on /\ prompting.works /\ asking.event = NoCard
  /\ \E i \in AskIds \ asking.open :
        asking' = [asking EXCEPT !.open = @ \cup {i},
                                 !.event = [agent |-> agent.n, id |-> i]]
  /\ UNCHANGED <<conns, edits, gate, starting, orphans, agent, session, prompting, consent>>

\* setPermission: the card that was on screen is replaced.
ShowCard ==
  /\ asking.event # NoCard
  /\ asking' = [asking EXCEPT !.card = asking.event, !.event = NoCard]
  /\ UNCHANGED <<conns, edits, gate, starting, orphans, agent, session, prompting, consent>>

\* respondPermission looks the id up among those the agent waits for, and throws when
\* there is none; the card goes either way.
AnswerCard ==
  /\ asking.card # NoCard
  /\ asking' = [asking EXCEPT !.card = NoCard,
                              !.open = IF agent.on THEN @ \ {asking.card.id} ELSE @]
  /\ consent' = IF agent.on /\ asking.card.id \in asking.open
                THEN [shown |-> asking.card.agent, given |-> agent.n]
                ELSE consent
  /\ UNCHANGED <<conns, edits, gate, starting, orphans, agent, session, prompting>>

-----------------------------------------------------------------------------

DesktopNext ==
  \/ \E c \in Callers : SpawnGateway(c) \/ GatewayReady(c) \/ GatewayNotReady(c)
  \/ EditConnections \/ Connect \/ LookForAgent \/ NoAgentFound \/ SpawnAgent
  \/ SessionStarts \/ SessionFails \/ AgentExits \/ OpenFolder \/ ResetSession
  \/ Prompt \/ PromptAnswered \/ PromptTimesOut
  \/ Ask \/ ShowCard \/ AnswerCard

\* Node runs every timer and every continuation; waitReady and each request of
\* startSession have a timeout.
DesktopFairness ==
  /\ WF_desktopVars(\E c \in Callers : SpawnGateway(c) \/ GatewayReady(c) \/ GatewayNotReady(c))
  /\ WF_desktopVars(LookForAgent)
  /\ WF_desktopVars(SpawnAgent \/ NoAgentFound)
  /\ WF_desktopVars(SessionStarts \/ SessionFails)
  /\ WF_desktopVars(PromptTimesOut)

DesktopSpec == DesktopInit /\ [][DesktopNext]_desktopVars /\ DesktopFairness

-----------------------------------------------------------------------------

\* The window is told 'working' for exactly as long as a prompt waits for its answer:
\* through timeouts, late answers, agents that die or are replaced, folders that change.
BusyWhilePending == prompting.busy <=> prompting.pending

\* Whatever the agent does, the window gets its prompt back and may connect again.
DesktopSettles == (prompting.pending \/ agent.pc # "idle") ~> (~prompting.pending /\ agent.pc = "idle")

\* index.ts closes the agent with "Provider configuration changed; reconnect the agent.":
\* an agent that runs uses the gateway of the connections as they are.
AgentUsesCurrentKeys == agent.on => agent.gate = conns

\* A permission is given by a card that showed that very request.
ConsentIsForWhatWasShown == consent.shown = consent.given

\* Every gateway that runs is one that stopGateway would stop.
GatewaysAreStopped == orphans = {}
=============================================================================

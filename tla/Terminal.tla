------------------------------- MODULE Terminal -------------------------------
(***************************************************************************)
(* Shells in the browser: the sessions of api/terminal.py on a system with *)
(* ptys, the socket of each (terminal_ws of api/ws.py), and the panel of   *)
(* Terminal.tsx that asks for them.  The endpoints run on the event loop,  *)
(* read and write in threads of their own: between a thread's look at      *)
(* `alive' and its system call the loop may close the session.             *)
(***************************************************************************)
EXTENDS Integers, FiniteSets

CONSTANTS TerminalSessions, \* sessions that are ever created, numbered
          MaxSessions

ASSUME TerminalAssumption ==
  /\ TerminalSessions \in SUBSET (Nat \ {0}) /\ IsFiniteSet(TerminalSessions)
  /\ MaxSessions \in Nat \ {0}

\* A descriptor is the lowest number that is free; 0 is no session's number.
Descriptors == 1 .. Cardinality(TerminalSessions)
Free == 0

VARIABLES table,  \* the manager's sessions
          alive,  \* what each session believes of its shell
          shell,  \* "none", "running" or "exited"
          fd,     \* its master_fd, Free before it has one
          owner,  \* whose pty each descriptor is, Free when closed
          socket, \* of each session: "none", "open" or "closed"
          reader, \* its reading task: "none", "runs" or "ended"
          inside, \* calls of each session past their look at alive: subset of read, write
          strayed,\* <<s, t>>: a call of session s has reached the terminal of t
          panel   \* [open, asked: session it waits for or Free, shown: its socket's session]

terminalVars == <<table, alive, shell, fd, owner, socket, reader, inside, strayed, panel>>

TerminalInit ==
  /\ table = {} /\ strayed = {}
  /\ alive = [s \in TerminalSessions |-> FALSE] /\ shell = [s \in TerminalSessions |-> "none"]
  /\ fd = [s \in TerminalSessions |-> Free] /\ owner = [d \in Descriptors |-> Free]
  /\ socket = [s \in TerminalSessions |-> "none"] /\ reader = [s \in TerminalSessions |-> "none"]
  /\ inside = [s \in TerminalSessions |-> {}]
  /\ panel = [open |-> FALSE, asked |-> Free, shown |-> Free]

Unborn == {s \in TerminalSessions : shell[s] = "none"}
LowestFree(f) == CHOOSE d \in Descriptors : f[d] = Free /\ \A e \in Descriptors : f[e] = Free => d <= e

\* Mutant: a closed session stays in the table until it is cleaned up.
ClosingOnly(D) ==
  [table |-> table,
   owner |-> [d \in Descriptors |-> IF \E s \in D : fd[s] = d THEN Free ELSE owner[d]]]

\* close_session of every session of D: out of the table, its descriptor closed, and
\* the shell behind it hung up.
Closing(D) ==
  [table |-> table \ D,
   owner |-> [d \in Descriptors |-> IF \E s \in D : fd[s] = d THEN Free ELSE owner[d]]]

HungUp(o) == [s \in TerminalSessions |->
                IF shell[s] = "running" /\ \A d \in Descriptors : o[d] # s THEN "exited"
                ELSE shell[s]]

-----------------------------------------------------------------------------
(* The endpoints *)

DeadSessions == {s \in table : ~alive[s]}

\* create_session: those that died are cleaned up, then there must be room.
CreateSession(s) ==
  LET rest == Closing(DeadSessions)
      d == LowestFree(rest.owner)
  IN  /\ s \in Unborn /\ \A t \in Unborn : s <= t
      /\ IF Cardinality(rest.table) < MaxSessions
         THEN /\ table' = rest.table \cup {s}
              /\ fd' = [fd EXCEPT ![s] = d] /\ owner' = [rest.owner EXCEPT ![d] = s]
              /\ shell' = [HungUp(rest.owner) EXCEPT ![s] = "running"]
              /\ alive' = [t \in TerminalSessions |-> IF t = s THEN TRUE
                                                      ELSE alive[t] /\ t \in rest.table]
         ELSE /\ table' = rest.table /\ owner' = rest.owner \* 429
              /\ shell' = HungUp(rest.owner) /\ UNCHANGED <<alive, fd>>

CreateByOther(s) ==
  /\ CreateSession(s)
  /\ UNCHANGED <<socket, reader, inside, strayed, panel>>

\* DELETE of a session.
DeleteSession(s) ==
  /\ s \in table
  /\ LET c == Closing({s}) IN table' = c.table /\ owner' = c.owner /\ shell' = HungUp(c.owner)
  /\ alive' = [alive EXCEPT ![s] = FALSE]
  /\ UNCHANGED <<fd, socket, reader, inside, strayed, panel>>

ShellExits(s) ==
  /\ shell[s] = "running" /\ shell' = [shell EXCEPT ![s] = "exited"]
  /\ UNCHANGED <<table, alive, fd, owner, socket, reader, inside, strayed, panel>>

-----------------------------------------------------------------------------
(* terminal_ws, and read, write of a session *)

\* Accepted when the table has the session; its reading task starts.
ConnectTerminal(s) ==
  /\ socket[s] = "none"
  /\ IF s \in table
     THEN /\ socket' = [socket EXCEPT ![s] = "open"] /\ reader' = [reader EXCEPT ![s] = "runs"]
     ELSE /\ shell[s] # "none" /\ socket' = [socket EXCEPT ![s] = "closed"] /\ UNCHANGED reader

ConnectByOther(s) ==
  /\ s # panel.asked /\ ConnectTerminal(s)
  /\ UNCHANGED <<table, alive, shell, fd, owner, inside, strayed, panel>>

\* Both look at alive first; the reading task ends when it is unset, and tells nobody.
EnterRead(s) ==
  /\ reader[s] = "runs" /\ "read" \notin inside[s]
  /\ IF alive[s] THEN inside' = [inside EXCEPT ![s] = @ \cup {"read"}] /\ UNCHANGED reader
     ELSE reader' = [reader EXCEPT ![s] = "ended"] /\ UNCHANGED inside
  /\ UNCHANGED <<table, alive, shell, fd, owner, socket, strayed, panel>>

EnterWrite(s) ==
  /\ socket[s] = "open" /\ alive[s] /\ "write" \notin inside[s]
  /\ inside' = [inside EXCEPT ![s] = @ \cup {"write"}]
  /\ UNCHANGED <<table, alive, shell, fd, owner, socket, reader, strayed, panel>>

\* The system call: on a closed descriptor or an exited shell an error, and alive is
\* unset; on the descriptor's next owner it does what it was asked to, there.
SystemCall(s, call) ==
  LET t == owner[fd[s]]
  IN  /\ call \in inside[s]
      /\ inside' = [inside EXCEPT ![s] = @ \ {call}]
      /\ IF t = Free \/ (t # Free /\ shell[t] = "exited")
         THEN alive' = [alive EXCEPT ![s] = FALSE] /\ UNCHANGED strayed
         ELSE /\ strayed' = strayed \cup {x \in {<<s, t>>} : s # t}
              /\ UNCHANGED alive
      /\ UNCHANGED <<table, shell, fd, owner, socket, reader, panel>>

\* The client goes, or what it sends is no bytes (the panel sends text): the handler
\* ends, the session stays in the table, and a thread that is inside goes on.
HandlerEnds(s) ==
  /\ socket[s] = "open"
  /\ socket' = [socket EXCEPT ![s] = "closed"] /\ reader' = [reader EXCEPT ![s] = "ended"]
  /\ panel' = IF panel.shown = s THEN [panel EXCEPT !.shown = Free] ELSE panel
  /\ UNCHANGED <<table, alive, shell, fd, owner, inside, strayed>>

-----------------------------------------------------------------------------
(* Terminal.tsx: initTerminal, when the panel opens or its restart is pressed *)

\* The socket it has is closed; a session is asked for, and the answer is under way
\* (one answer at a time, a bound: nothing keeps the user from pressing again).
InitTerminal(s) ==
  /\ panel.asked = Free
  /\ CreateSession(s)
  /\ panel' = [open |-> TRUE, asked |-> IF s \in table' THEN s ELSE Free, shown |-> Free]
  /\ socket' = IF panel.shown # Free THEN [socket EXCEPT ![panel.shown] = "closed"] ELSE socket
  /\ reader' = IF panel.shown # Free THEN [reader EXCEPT ![panel.shown] = "ended"] ELSE reader
  /\ UNCHANGED <<inside, strayed>>

\* The answer arrives, be the panel open or not.
SessionArrives ==
  /\ panel.asked # Free
  /\ IF socket[panel.asked] = "none" THEN ConnectTerminal(panel.asked)
     ELSE UNCHANGED <<socket, reader>>
  /\ panel' = [panel EXCEPT !.asked = Free, !.shown = panel.asked]
  /\ UNCHANGED <<table, alive, shell, fd, owner, inside, strayed>>

\* The panel closes its socket, not the session.
ClosePanel ==
  /\ panel.open
  /\ panel' = [panel EXCEPT !.open = FALSE, !.shown = Free]
  /\ socket' = IF panel.shown # Free THEN [socket EXCEPT ![panel.shown] = "closed"] ELSE socket
  /\ reader' = IF panel.shown # Free THEN [reader EXCEPT ![panel.shown] = "ended"] ELSE reader
  /\ UNCHANGED <<table, alive, shell, fd, owner, inside, strayed>>

TerminalNext ==
  \/ SessionArrives \/ ClosePanel
  \/ \E s \in TerminalSessions :
       \/ CreateByOther(s) \/ DeleteSession(s) \/ ShellExits(s) \/ ConnectByOther(s)
       \/ EnterRead(s) \/ EnterWrite(s) \/ HandlerEnds(s) \/ InitTerminal(s)
       \/ SystemCall(s, "read") \/ SystemCall(s, "write")

TerminalSpec == TerminalInit /\ [][TerminalNext]_terminalVars

-----------------------------------------------------------------------------
(* Properties *)

\* However sessions are created, deleted, cleaned up and read: the open descriptors are
\* those of the sessions in the table, one each, so that closing a session closes
\* nobody else's terminal and none is left open; and there are at most MaxSessions.
DescriptorsAreSessions ==
  /\ \A s \in table : owner[fd[s]] = s
  /\ \A d \in Descriptors : owner[d] # Free => owner[d] \in table
  /\ Cardinality(table) <= MaxSessions

\* What a client reads or writes is its own shell's.  Violated: a thread looks at alive,
\* the session is deleted, another is created on the same descriptor, the thread reads.
CallsReachTheirOwn == strayed = {}

\* A socket that the panel opened is the one it shows, or closed.  Violated: the panel is
\* closed before its session arrives, and the socket then opened is nobody's.
NoSocketWithoutPanel == panel.shown # Free => panel.open

\* When its shell has exited and the reading task has ended, the client is told: violated,
\* the handler waits for its next key.
ClientsAreTold == \A s \in TerminalSessions : reader[s] = "ended" => socket[s] = "closed"
=============================================================================

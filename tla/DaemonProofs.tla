---------------------------- MODULE DaemonProofs ----------------------------
(***************************************************************************)
(* One command at a time keeps one daemon, and the pid file names it, for  *)
(* any number of commands and daemons.                                     *)
(*                                                                         *)
(* OneAtMost and Tracked say nothing of the middle of a command, where a   *)
(* child may live that no file names yet.  Calm fills the gap: who may be  *)
(* alive at each step of the one command under way.                        *)
(***************************************************************************)
EXTENDS Daemon, TLAPS

Active(c) == cmd[c].pc \in Busy

(* Only one command is under way. *)
OneCommand == \A c, d \in Command : Active(c) /\ Active(d) => c = d

(* Only the daemon the command knows may be alive, and none at all once    *)
(* it has found none.                                                      *)
KnowsWhoLives ==
  \A c \in Command, p \in Pid : Active(c) /\ Lives(p) =>
     cmd[c].pc \notin {"clearing", "spawning"} /\ p = cmd[c].pid

(* A daemon is named by the file, unless its start is about to write it.   *)
Named ==
  \A p \in Pid : Lives(p) =>
     \/ pidFile = p
     \/ \E c \in Command : cmd[c].pc \in {"writing", "renaming"} /\ cmd[c].pid = p

TmpIsOurs == \A c \in Command : cmd[c].pc = "renaming" => tmpFile = cmd[c].pid

OneAlive == \A p, q \in Pid : Lives(p) /\ Lives(q) => p = q

Calm == OneCommand /\ KnowsWhoLives /\ Named /\ TmpIsOurs /\ OneAlive

IInv == DaemonTypeOK /\ (~rushed => Calm)

LEMMA InitIInv == Init => IInv
<1> SUFFICES ASSUME Init PROVE IInv
  OBVIOUS
<1>1. DaemonTypeOK
  BY DEF Init, DaemonTypeOK, Life, Works, Busy, Over
<1>2. Calm
  BY DEF Init, Calm, OneCommand, KnowsWhoLives, Named, TmpIsOurs, OneAlive,
         Active, Busy, Lives, Alive, Pid, NoFile
<1>3. QED
  BY <1>1, <1>2 DEF IInv

-----------------------------------------------------------------------------
(* Steps of a daemon: no command moves.                                    *)
LEMMA DaemonStepKeeps ==
  ASSUME IInv, NEW p \in Pid,
         Boot(p) \/ Crash(p) \/ Leave(p) \/ RemoveOwnFile(p)
  PROVE  IInv'
<1>1. PICK to \in Life : daemon' = [daemon EXCEPT ![p] = to] /\ daemon[p] \in Alive
  BY DEF Boot, Crash, Leave, RemoveOwnFile, Become, Life, Alive
<1>2. /\ cmd' = cmd /\ tmpFile' = tmpFile /\ rushed' = rushed
      /\ pidFile' = pidFile \/ (pidFile' = NoFile /\ daemon'[p] = "dead")
  BY <1>1 DEF Boot, Crash, Leave, RemoveOwnFile, Become, IInv, DaemonTypeOK
<1>3. daemon \in [Pid -> Life] /\ daemon' \in [Pid -> Life]
  BY <1>1 DEF IInv, DaemonTypeOK
<1>4. DaemonTypeOK'
  BY <1>2, <1>3 DEF IInv, DaemonTypeOK
<1>5. \A q \in Pid : Lives(q)' => Lives(q)
  BY <1>1, <1>3 DEF Lives, NoFile, Pid
<1>6. ASSUME ~rushed PROVE Calm'
  <2>1. Calm
    BY <1>6 DEF IInv
  <2>2. OneCommand' /\ TmpIsOurs'
    BY <1>2, <2>1 DEF Calm, OneCommand, TmpIsOurs, Active
  <2>3. KnowsWhoLives' /\ OneAlive'
    BY <1>2, <1>5, <2>1 DEF Calm, KnowsWhoLives, OneAlive, Active
  <2>4. Named'
    <3>1. SUFFICES ASSUME NEW q \in Pid, Lives(q)'
                   PROVE  \/ pidFile' = q
                          \/ \E c \in Command : /\ cmd[c].pc \in {"writing", "renaming"}
                                                /\ cmd[c].pid = q
      BY <1>2 DEF Named
    <3>2. Lives(q) /\ Lives(p)
      BY <1>1, <1>5, <3>1 DEF Lives, NoFile, Pid
    <3>3. q = p
      BY <2>1, <3>2 DEF Calm, OneAlive
    <3>4. pidFile' = pidFile
      BY <1>2, <3>1, <3>3 DEF Lives, Alive
    <3>5. QED
      BY <2>1, <3>2, <3>4 DEF Calm, Named
  <2>5. QED
    BY <2>2, <2>3, <2>4 DEF Calm
<1>7. QED
  BY <1>2, <1>4, <1>6 DEF IInv

-----------------------------------------------------------------------------
(* Steps of a command: no other command moves.                             *)
Commands == [pc : {"new"} \cup Busy \cup Over, work : Works, pid : {NoFile} \cup Pid]

LEMMA GotoMoves ==
  ASSUME DaemonTypeOK, NEW c \in Command, NEW pc \in Busy \cup Over, Goto(c, pc)
  PROVE  /\ cmd' \in [Command -> Commands] /\ \A d \in Command \ {c} : cmd'[d] = cmd[d]
         /\ cmd'[c].pc = pc /\ cmd'[c].pid = cmd[c].pid
<1>1. cmd \in [Command -> Commands] /\ cmd' = [cmd EXCEPT ![c].pc = pc]
  BY DEF DaemonTypeOK, Commands, Goto
<1>2. [cmd[c] EXCEPT !.pc = pc] \in Commands
  BY <1>1 DEF Commands
<1>3. cmd' \in [Command -> Commands]
  BY <1>1, <1>2
<1>4. QED
  BY <1>1, <1>3 DEF Commands

LEMMA SpawnMoves ==
  ASSUME DaemonTypeOK, NEW c \in Command, Spawn(c)
  PROVE  \E p \in Pid :
           /\ daemon' = [daemon EXCEPT ![p] = "booting"]
           /\ cmd' \in [Command -> Commands] /\ \A d \in Command \ {c} : cmd'[d] = cmd[d]
           /\ cmd'[c].pc = "writing" /\ cmd'[c].pid = p
<1>0. PICK p \in Pid : /\ daemon' = [daemon EXCEPT ![p] = "booting"]
                       /\ cmd' = [cmd EXCEPT ![c].pc = "writing", ![c].pid = p]
  BY DEF Spawn
<1>1. cmd \in [Command -> Commands]
  BY DEF DaemonTypeOK, Commands
<1>2. [cmd[c] EXCEPT !.pc = "writing", !.pid = p] \in Commands
  BY <1>1 DEF Commands, Busy
<1>3. cmd' = [cmd EXCEPT ![c] = [cmd[c] EXCEPT !.pc = "writing", !.pid = p]]
  BY <1>0, <1>1 DEF Commands
<1>4. cmd' \in [Command -> Commands]
  BY <1>1, <1>2, <1>3
<1>5. cmd'[c] = [cmd[c] EXCEPT !.pc = "writing", !.pid = p]
  BY <1>1, <1>3
<1>6. cmd'[c].pc = "writing" /\ cmd'[c].pid = p
  BY <1>1, <1>5 DEF Commands
<1>7. \A d \in Command \ {c} : cmd'[d] = cmd[d]
  BY <1>1, <1>3
<1>8. QED
  BY <1>0, <1>4, <1>6, <1>7, Zenon

LEMMA CommandTypes ==
  ASSUME DaemonTypeOK, NEW c \in Command, Run(c) \/ Interrupt(c)
  PROVE  DaemonTypeOK'
<1>1. CASE ReadPidFile(c)
  BY <1>1 DEF ReadPidFile, DaemonTypeOK, Busy, Over, Pid, NoFile, Works
<1>2. CASE FoundRunning(c) \/ FoundDead(c) \/ Gone(c) \/ Kill(c)
  BY <1>2 DEF FoundRunning, FoundDead, Gone, Kill, Goto, DaemonTypeOK, Life, Busy, Over
<1>3. CASE Clear(c) \/ SpawnFails(c) \/ Interrupt(c)
  <2>1. PICK pc \in {"spawning", "stopped", "failed", "interrupted"} : Goto(c, pc)
    BY <1>3 DEF Clear, SpawnFails, Interrupt
  <2>2. /\ cmd' \in [Command -> Commands] /\ \A d \in Command \ {c} : cmd'[d] = cmd[d]
        /\ cmd'[c].pc = pc
    BY <2>1, GotoMoves DEF Busy, Over
  <2>3. /\ pidFile' \in {NoFile, pidFile} /\ tmpFile' = tmpFile /\ daemon' = daemon
        /\ rushed' \in BOOLEAN
    BY <1>3 DEF Clear, SpawnFails, Interrupt, DaemonTypeOK
  <2>4. pc \notin Busy \ {"clearing", "spawning"}
    BY DEF Busy
  <2>5. QED
    BY <2>2, <2>3, <2>4 DEF DaemonTypeOK, Commands
<1>4. CASE Spawn(c)
  <2>1. PICK p \in Pid :
          /\ daemon' = [daemon EXCEPT ![p] = "booting"] /\ cmd'[c].pid = p
          /\ cmd' \in [Command -> Commands] /\ \A d \in Command \ {c} : cmd'[d] = cmd[d]
    BY <1>4, SpawnMoves
  <2>4. daemon' \in [Pid -> Life]
    BY <2>1 DEF DaemonTypeOK, Life
  <2>5. pidFile' = pidFile /\ tmpFile' = tmpFile /\ rushed' = rushed
    BY <1>4 DEF Spawn
  <2>6. QED
    BY <2>1, <2>4, <2>5 DEF DaemonTypeOK, Commands
<1>5. CASE WriteTmp(c) \/ Rename(c) \/ WriteFails(c)
  BY <1>5 DEF WriteTmp, Rename, WriteFails, Goto, DaemonTypeOK, Life, Busy, Over
<1>6. QED
  BY <1>1, <1>2, <1>3, <1>4, <1>5 DEF Run

(* The step leaves Calm alone if the command ends or goes on in a state    *)
(* that fits who is alive.                                                 *)
LEMMA CalmStays ==
  ASSUME DaemonTypeOK, DaemonTypeOK', Calm, NEW c \in Command, Active(c) \/ Quiet,
         \A d \in Command \ {c} : cmd'[d] = cmd[d],
         \A p \in Pid : Lives(p)' /\ Active(c)' =>
            cmd'[c].pc \notin {"clearing", "spawning"} /\ p = cmd'[c].pid,
         \A p \in Pid : Lives(p)' =>
            \/ pidFile' = p
            \/ cmd'[c].pc \in {"writing", "renaming"} /\ cmd'[c].pid = p,
         cmd'[c].pc = "renaming" => tmpFile' = cmd'[c].pid,
         OneAlive'
  PROVE  Calm'
<1>1. \A d \in Command \ {c} : ~Active(d) /\ ~Active(d)'
  BY DEF Calm, OneCommand, Quiet, Active
<1>2. OneCommand'
  BY <1>1 DEF OneCommand
<1>3. KnowsWhoLives'
  BY <1>1 DEF KnowsWhoLives
<1>4. Named'
  BY DEF Named
<1>5. TmpIsOurs'
  BY <1>1 DEF TmpIsOurs, Active, Busy
<1>6. QED
  BY <1>2, <1>3, <1>4, <1>5 DEF Calm

LEMMA CommandKeepsCalm ==
  ASSUME IInv, NEW c \in Command, Run(c) \/ Interrupt(c), ~rushed'
  PROVE  Calm'
<1>1. DaemonTypeOK /\ DaemonTypeOK'
  BY CommandTypes DEF IInv
<1>2. ~rushed /\ Calm
  <2>1. rushed => rushed'
    BY DEF Run, ReadPidFile, FoundRunning, FoundDead, Clear, Spawn, SpawnFails, WriteTmp,
           Rename, WriteFails, Gone, Kill, Interrupt
  <2>2. QED
    BY <2>1 DEF IInv
<1>3. \A d \in Command \ {c} : cmd'[d] = cmd[d]
  BY <1>1 DEF DaemonTypeOK, Run, ReadPidFile, FoundRunning, FoundDead, Clear, Spawn, SpawnFails,
              WriteTmp, Rename, WriteFails, Gone, Kill, Interrupt, Goto
<1>4. /\ cmd \in [Command -> [pc : {"new"} \cup Busy \cup Over,
                              work : Works, pid : {NoFile} \cup Pid]]
      /\ daemon \in [Pid -> Life] /\ NoFile \notin Pid
  BY <1>1 DEF DaemonTypeOK, NoFile, Pid
<1>5. \A p, q \in Pid : Lives(p) /\ Lives(q) => p = q
  BY <1>2 DEF Calm, OneAlive
<1>6. \A p \in Pid : Active(c) /\ Lives(p) =>
         cmd[c].pc \notin {"clearing", "spawning"} /\ p = cmd[c].pid
  BY <1>2 DEF Calm, KnowsWhoLives
<1>7. \A p \in Pid : Lives(p) /\ (Active(c) \/ Quiet) =>
         \/ pidFile = p
         \/ cmd[c].pc \in {"writing", "renaming"} /\ cmd[c].pid = p
  BY <1>2, <1>4 DEF Calm, Named, OneCommand, Quiet, Active, Busy
<1>8. CASE ReadPidFile(c)
  <2>1. Quiet /\ pidFile' = pidFile /\ daemon' = daemon /\ cmd'[c].pid = pidFile
    BY <1>1, <1>4, <1>8 DEF ReadPidFile
  <2>2. /\ cmd'[c].pc \in {"checking", "clearing", "stopped"}
        /\ cmd'[c].pc \in {"clearing", "stopped"} => pidFile = NoFile
    BY <1>4, <1>8 DEF ReadPidFile, Works
  <2>3. ~Active(c)
    BY <2>1 DEF Quiet, Active
  <2>4. \A p \in Pid : Lives(p)' => Lives(p) /\ pidFile = p
    BY <1>7, <2>1, <2>3 DEF Lives, Active, Busy
  <2>5. QED
    BY <1>1, <1>2, <1>3, <1>4, <1>5, <2>1, <2>2, <2>4, CalmStays DEF OneAlive
<1>9. CASE FoundRunning(c) \/ FoundDead(c) \/ Gone(c) \/ Kill(c)
  <2>1. /\ Active(c) /\ cmd[c].pc \in {"checking", "waiting"}
        /\ pidFile' = pidFile /\ cmd'[c].pid = cmd[c].pid
        /\ cmd'[c].pc \in {"waiting", "running", "clearing"}
    BY <1>4, <1>9 DEF FoundRunning, FoundDead, Gone, Kill, Goto, Active, Busy
  <2>2. \A p \in Pid : Lives(p)' => Lives(p)
    BY <1>4, <1>9 DEF FoundRunning, FoundDead, Gone, Kill, Lives, Alive
  <2>3. \A p \in Pid : Lives(p)' => p = cmd[c].pid /\ pidFile = p
    BY <1>6, <1>7, <2>1, <2>2
  <2>4. cmd'[c].pc = "clearing" => \A p \in Pid : ~Lives(p)'
    BY <1>4, <1>9, <2>2, <2>3 DEF FoundRunning, FoundDead, Gone, Kill, Goto, Lives, Alive
  <2>5. QED
    BY <1>1, <1>2, <1>3, <2>1, <2>3, <2>4, CalmStays DEF OneAlive
<1>10. CASE Clear(c) \/ SpawnFails(c)
  <2>1. /\ Active(c) /\ cmd[c].pc \in {"clearing", "spawning"} /\ daemon' = daemon
        /\ cmd'[c].pc \in {"spawning", "stopped", "failed"}
    BY <1>4, <1>10 DEF Clear, SpawnFails, Goto, Active, Busy
  <2>2. \A p \in Pid : ~Lives(p)'
    BY <1>6, <2>1 DEF Lives
  <2>3. QED
    BY <1>1, <1>2, <1>3, <2>1, <2>2, CalmStays DEF OneAlive
<1>11. CASE Spawn(c)
  <2>1. PICK new \in Pid : /\ daemon' = [daemon EXCEPT ![new] = "booting"]
                           /\ cmd'[c].pc = "writing" /\ cmd'[c].pid = new
    BY <1>1, <1>11, SpawnMoves
  <2>2. Active(c) /\ cmd[c].pc = "spawning"
    BY <1>11 DEF Spawn, Active, Busy
  <2>3. \A p \in Pid : Lives(p)' => p = new
    BY <1>4, <1>6, <2>1, <2>2 DEF Lives
  <2>4. QED
    BY <1>1, <1>2, <1>3, <2>1, <2>2, <2>3, CalmStays DEF OneAlive
<1>12. CASE WriteTmp(c) \/ Rename(c) \/ WriteFails(c)
  <2>1. /\ Active(c) /\ cmd[c].pc \in {"writing", "renaming"} /\ cmd'[c].pid = cmd[c].pid
        /\ cmd'[c].pc \in {"renaming", "running", "failed"}
    BY <1>4, <1>12 DEF WriteTmp, Rename, WriteFails, Goto, Active, Busy
  <2>2. \A p \in Pid : Lives(p)' => Lives(p)
    BY <1>4, <1>12 DEF WriteTmp, Rename, WriteFails, Lives, Alive
  <2>3. \A p \in Pid : Lives(p)' => p = cmd[c].pid
    BY <1>6, <2>1, <2>2
  <2>4. cmd'[c].pc = "renaming" => tmpFile' = cmd[c].pid
    BY <1>4, <1>12 DEF WriteTmp, Rename, WriteFails, Goto
  <2>5. cmd'[c].pc = "running" => pidFile' = cmd[c].pid
    BY <1>2, <1>4, <1>12 DEF WriteTmp, Rename, WriteFails, Goto, Calm, TmpIsOurs
  <2>6. cmd'[c].pc = "failed" => \A p \in Pid : ~Lives(p)'
    BY <1>4, <1>12, <2>3 DEF WriteTmp, Rename, WriteFails, Goto, Lives, Alive
  <2>7. cmd'[c].pc \notin {"clearing", "spawning"}
    BY <2>1
  <2>8. QED
    BY <1>1, <1>2, <1>3, <2>1, <2>3, <2>4, <2>5, <2>6, <2>7, CalmStays DEF OneAlive
<1>13. CASE Interrupt(c)
  <2>1. /\ Active(c) /\ cmd[c].pc \notin {"writing", "renaming"}
        /\ cmd'[c].pc = "interrupted" /\ daemon' = daemon /\ pidFile' = pidFile
    BY <1>4, <1>13 DEF Interrupt, Goto, Active
  <2>2. \A p \in Pid : Lives(p)' => Lives(p) /\ pidFile = p
    BY <1>7, <2>1 DEF Lives
  <2>3. ~Active(c)'
    BY <2>1 DEF Active, Busy
  <2>4. QED
    BY <1>1, <1>2, <1>3, <2>1, <2>2, <2>3, CalmStays DEF OneAlive
<1>14. QED
  BY <1>8, <1>9, <1>10, <1>11, <1>12, <1>13 DEF Run

LEMMA NextKeeps == IInv /\ [Next]_vars => IInv'
<1> SUFFICES ASSUME IInv, [Next]_vars PROVE IInv'
  OBVIOUS
<1>1. ASSUME NEW c \in Command, Run(c) \/ Interrupt(c) PROVE IInv'
  BY <1>1, CommandTypes, CommandKeepsCalm DEF IInv
<1>2. ASSUME NEW p \in Pid, Boot(p) \/ Crash(p) \/ Leave(p) \/ RemoveOwnFile(p) PROVE IInv'
  BY <1>2, DaemonStepKeeps
<1>3. CASE UNCHANGED vars
  BY <1>3 DEF vars, IInv, DaemonTypeOK, Calm, OneCommand, KnowsWhoLives, Named, TmpIsOurs,
              OneAlive, Active, Lives
<1>4. QED
  BY <1>1, <1>2, <1>3 DEF Next

-----------------------------------------------------------------------------
(* Processes, files and commands keep their types, and a command past the  *)
(* first read knows a pid wherever it uses one.                            *)
THEOREM DaemonTypeCorrect == Spec => []DaemonTypeOK
<1>1. IInv => DaemonTypeOK
  BY DEF IInv
<1>2. QED
  BY <1>1, InitIInv, NextKeeps, PTL DEF Spec

(* One command at a time never has two daemons syncing. *)
THEOREM OneAtMostAlways == Spec => []OneAtMost
<1>1. IInv => OneAtMost
  BY DEF IInv, Calm, OneAlive, OneAtMost, Working, Lives, Alive, Pid, NoFile
<1>2. QED
  BY <1>1, InitIInv, NextKeeps, PTL DEF Spec

(* Between commands the pid file names the daemon that is syncing. *)
THEOREM AlwaysTracked == Spec => []Tracked
<1>1. IInv => Tracked
  <2> SUFFICES ASSUME IInv, ~rushed, Quiet, NEW p \in Pid, Working(p) PROVE pidFile = p
    BY DEF Tracked
  <2>1. Lives(p)
    BY DEF Working, Lives, Alive, Pid, NoFile
  <2>2. QED
    BY <2>1 DEF IInv, Calm, Named, Quiet, Busy
<1>2. QED
  BY <1>1, InitIInv, NextKeeps, PTL DEF Spec

(* "stopped" is only ever the answer when no daemon is syncing. *)
THEOREM StoppedAlwaysTrue == Spec => StoppedIsTrue
<1> DEFINE Truthful == \A c \in Command :
              ~rushed /\ cmd[c].pc # "stopped" /\ cmd'[c].pc = "stopped" /\ ~rushed'
                => \A p \in Pid : ~Working(p)'
<1>1. ASSUME IInv, Next, NEW c \in Command, ~rushed, ~rushed',
             cmd[c].pc # "stopped", cmd'[c].pc = "stopped"
      PROVE  \A p \in Pid : ~Lives(p)'
  <2>1. DaemonTypeOK /\ Calm /\ IInv'
    BY <1>1, NextKeeps DEF IInv
  <2>2. PICK d \in Command : Run(d) \/ Interrupt(d)
    BY <1>1 DEF Next, Boot, Crash, Leave, RemoveOwnFile
  <2>3. CASE ReadPidFile(d)
    <3>1. Quiet /\ daemon' = daemon
      BY <1>1, <2>1, <2>3 DEF ReadPidFile, DaemonTypeOK
    <3>2. d = c
      BY <1>1, <2>1, <2>3 DEF ReadPidFile, DaemonTypeOK
    <3>3. pidFile = NoFile
      BY <1>1, <2>1, <2>3, <3>2 DEF ReadPidFile, DaemonTypeOK
    <3>4. QED
      BY <2>1, <3>1, <3>3 DEF Calm, Named, Quiet, Busy, Lives
  <2>4. CASE Clear(d)
    <3>1. Active(d) /\ cmd[d].pc = "clearing" /\ daemon' = daemon
      BY <2>4 DEF Clear, Active, Busy
    <3>2. QED
      BY <2>1, <3>1 DEF Calm, KnowsWhoLives, Lives
  <2>5. CASE Spawn(d)
    <3>1. \A e \in Command : e # d => cmd'[e] = cmd[e]
      BY <2>1, <2>5, SpawnMoves
    <3>2. cmd'[d].pc = "writing"
      BY <2>1, <2>5, SpawnMoves
    <3>3. QED
      BY <1>1, <3>1, <3>2
  <2>6. CASE \/ FoundRunning(d) \/ FoundDead(d) \/ SpawnFails(d) \/ WriteTmp(d) \/ Rename(d)
             \/ WriteFails(d) \/ Gone(d) \/ Kill(d) \/ Interrupt(d)
    <3>1. PICK pc \in {"waiting", "running", "clearing", "failed", "renaming", "interrupted"} :
                Goto(d, pc)
      BY <2>6 DEF FoundRunning, FoundDead, SpawnFails, WriteTmp, Rename, WriteFails, Gone,
                  Kill, Interrupt
    <3>2. cmd'[d].pc = pc /\ \A e \in Command \ {d} : cmd'[e] = cmd[e]
      BY <2>1, <3>1, GotoMoves DEF Busy, Over
    <3>3. QED
      BY <1>1, <3>2
  <2>7. QED
    BY <2>2, <2>3, <2>4, <2>5, <2>6 DEF Run
<1>2. IInv /\ [Next]_vars => [Truthful]_vars
  BY <1>1 DEF Working, Lives, Alive, Pid, NoFile, vars
<1>3. QED
  BY <1>2, InitIInv, NextKeeps, PTL DEF Spec, StoppedIsTrue

=============================================================================

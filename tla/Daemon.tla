------------------------------- MODULE Daemon -------------------------------
(***************************************************************************)
(* `juno-exchange-kit daemon start | status | stop` and the daemons they   *)
(* manage through <data-dir>/daemon.pid.  The pid file is the only thing   *)
(* the processes share, and nothing locks it: each reads it, asks the      *)
(* kernel whether that process lives, and acts on the answer later.        *)
(*                                                                         *)
(* A pid is not reused here, and daemons run in the foreground, which no   *)
(* pid file ever names, are left out.                                      *)
(***************************************************************************)
EXTENDS Integers, FiniteSets

CONSTANTS
  Command,     \* invocations of start, status and stop
  MaxPid       \* bound: daemons ever started

Pid == 1..MaxPid
NoFile == 0

ASSUME DaemonAssumption == MaxPid \in Nat

VARIABLES
  pidFile,     \* what daemon.pid holds
  tmpFile,     \* what daemon.pid.tmp holds
  daemon,      \* Pid -> the life of the process
  cmd,         \* Command -> what the invocation does and knows
  rushed       \* history: a command began before another was over, or a
               \* start was interrupted between its child and the pid file

vars == <<pidFile, tmpFile, daemon, cmd, rushed>>

(* "booting" has not installed its signal handler yet; "leaving" has read  *)
(* its own pid from the file and is about to remove it.                    *)
Life  == {"unborn", "booting", "syncing", "leaving", "dead"}
Alive == {"booting", "syncing", "leaving"}

Works == {"start", "status", "stop"}
Busy  == {"checking", "clearing", "spawning", "writing", "renaming", "waiting"}
Over  == {"running", "stopped", "failed", "interrupted"}   \* what it answers

DaemonTypeOK ==
  /\ pidFile \in {NoFile} \cup Pid /\ tmpFile \in {NoFile} \cup Pid
  /\ daemon \in [Pid -> Life]
  /\ cmd \in [Command -> [pc : {"new"} \cup Busy \cup Over,
                          work : Works, pid : {NoFile} \cup Pid]]
  /\ rushed \in BOOLEAN
  /\ \A c \in Command : cmd[c].pc \in Busy \ {"clearing", "spawning"} => cmd[c].pid \in Pid

Init ==
  /\ pidFile = NoFile /\ tmpFile = NoFile
  /\ daemon = [p \in Pid |-> "unborn"]
  /\ cmd \in [Command -> [pc : {"new"}, work : Works, pid : {NoFile}]]
  /\ rushed = FALSE

-----------------------------------------------------------------------------
(* The commands.                                                           *)

Goto(c, pc)  == cmd' = [cmd EXCEPT ![c].pc = pc]
Lives(p)     == p # NoFile /\ daemon[p] \in Alive
Quiet        == \A c \in Command : cmd[c].pc \notin Busy

ReadPidFile_MissingIsZero(c) ==
  /\ cmd[c].pc = "new"
  /\ cmd' = [cmd EXCEPT ![c].pid = pidFile, ![c].pc = "checking"]
  /\ rushed' = (rushed \/ ~Quiet)
  /\ UNCHANGED <<pidFile, tmpFile, daemon>>

ReadPidFile_StartDoesNotLook(c) ==
  /\ cmd[c].pc = "new"
  /\ cmd' = [cmd EXCEPT ![c].pid = pidFile,
                        ![c].pc = CASE cmd[c].work = "start" -> "clearing"
                                    [] pidFile # NoFile      -> "checking"
                                    [] OTHER                 -> "stopped"]
  /\ rushed' = (rushed \/ ~Quiet)
  /\ UNCHANGED <<pidFile, tmpFile, daemon>>

(* readPIDFile, and for a missing file what the three commands make of it. *)
ReadPidFile(c) ==
  /\ cmd[c].pc = "new"
  /\ rushed' = (rushed \/ ~Quiet)
  /\ cmd' = [cmd EXCEPT ![c].pid = pidFile,
                        ![c].pc = CASE pidFile # NoFile        -> "checking"
                                    [] cmd[c].work = "start"   -> "clearing"
                                    [] OTHER                   -> "stopped"]
  /\ UNCHANGED <<pidFile, tmpFile, daemon>>

(* isProcessRunning says yes: start answers "already_running", status      *)
(* "running", and stop sends SIGTERM, which kills a daemon that has no     *)
(* handler yet and asks any other to leave.                                *)
FoundRunning(c) ==
  /\ cmd[c].pc = "checking" /\ Lives(cmd[c].pid)
  /\ Goto(c, IF cmd[c].work = "stop" THEN "waiting" ELSE "running")
  /\ daemon' = IF cmd[c].work = "stop" /\ daemon[cmd[c].pid] = "booting"
               THEN [daemon EXCEPT ![cmd[c].pid] = "dead"] ELSE daemon
  /\ UNCHANGED <<pidFile, tmpFile, rushed>>

FoundDead(c) ==
  /\ cmd[c].pc = "checking" /\ ~Lives(cmd[c].pid)
  /\ Goto(c, "clearing")
  /\ UNCHANGED <<pidFile, tmpFile, daemon, rushed>>

(* os.Remove, whatever the file holds by now. *)
Clear(c) ==
  /\ cmd[c].pc = "clearing"
  /\ pidFile' = NoFile
  /\ Goto(c, IF cmd[c].work = "start" THEN "spawning" ELSE "stopped")
  /\ UNCHANGED <<tmpFile, daemon, rushed>>

Spawn(c) ==
  /\ cmd[c].pc = "spawning"
  /\ \E p \in Pid : /\ daemon[p] = "unborn"
                    /\ \A q \in Pid : q < p => daemon[q] # "unborn"
                    /\ daemon' = [daemon EXCEPT ![p] = "booting"]
                    /\ cmd' = [cmd EXCEPT ![c].pc = "writing", ![c].pid = p]
  /\ UNCHANGED <<pidFile, tmpFile, rushed>>

(* No log file, no executable, no process. *)
SpawnFails(c) ==
  /\ cmd[c].pc = "spawning"
  /\ Goto(c, "failed")
  /\ UNCHANGED <<pidFile, tmpFile, daemon, rushed>>

WriteTmp(c) ==
  /\ cmd[c].pc = "writing"
  /\ tmpFile' = cmd[c].pid
  /\ Goto(c, "renaming")
  /\ UNCHANGED <<pidFile, daemon, rushed>>

Rename(c) ==
  /\ cmd[c].pc = "renaming" /\ tmpFile # NoFile
  /\ pidFile' = tmpFile /\ tmpFile' = NoFile
  /\ Goto(c, "running")
  /\ UNCHANGED <<daemon, rushed>>

WriteFails_ChildSurvives(c) ==
  /\ \/ cmd[c].pc = "writing"
     \/ cmd[c].pc = "renaming"
  /\ tmpFile' = NoFile
  /\ Goto(c, "failed")
  /\ UNCHANGED <<pidFile, daemon, rushed>>

(* writePIDFile fails (the other start's rename took the temporary file,   *)
(* or the disk is full): the child is killed.                              *)
WriteFails(c) ==
  /\ \/ cmd[c].pc = "writing"
     \/ cmd[c].pc = "renaming"
  /\ tmpFile' = IF cmd[c].pc = "renaming" THEN NoFile ELSE tmpFile
  /\ daemon' = [daemon EXCEPT ![cmd[c].pid] = "dead"]
  /\ Goto(c, "failed")
  /\ UNCHANGED <<pidFile, rushed>>

Gone(c) ==
  /\ cmd[c].pc = "waiting" /\ ~Lives(cmd[c].pid)
  /\ Goto(c, "clearing")
  /\ UNCHANGED <<pidFile, tmpFile, daemon, rushed>>

Kill_GivesUp(c) ==
  /\ cmd[c].pc = "waiting" /\ Lives(cmd[c].pid)
  /\ Goto(c, "clearing")
  /\ UNCHANGED <<pidFile, tmpFile, daemon, rushed>>

(* Five seconds have passed, for instance in the middle of a sync. *)
Kill(c) ==
  /\ cmd[c].pc = "waiting" /\ Lives(cmd[c].pid)
  /\ daemon' = [daemon EXCEPT ![cmd[c].pid] = "dead"]
  /\ Goto(c, "clearing")
  /\ UNCHANGED <<pidFile, tmpFile, rushed>>

(* The operator presses ^C. *)
Interrupt(c) ==
  /\ cmd[c].pc \in Busy
  /\ rushed' = (rushed \/ cmd[c].pc \in {"writing", "renaming"})
  /\ Goto(c, "interrupted")
  /\ UNCHANGED <<pidFile, tmpFile, daemon>>

-----------------------------------------------------------------------------
(* The daemons.                                                            *)

Become(p, from, to) == daemon[p] \in from /\ daemon' = [daemon EXCEPT ![p] = to]

Boot(p) == Become(p, {"booting"}, "syncing") /\ UNCHANGED <<pidFile, tmpFile, cmd, rushed>>

(* Without a store it ends before its clean-up is registered; and any      *)
(* daemon can crash.                                                       *)
Crash(p) == Become(p, Alive, "dead") /\ UNCHANGED <<pidFile, tmpFile, cmd, rushed>>

(* A sync failed, or a signal asked it to: removePIDFileIfMatches reads the *)
(* file, and only removes it if it holds the daemon's own pid.             *)
Leave(p) ==
  /\ Become(p, {"syncing"}, IF pidFile = p THEN "leaving" ELSE "dead")
  /\ UNCHANGED <<pidFile, tmpFile, cmd, rushed>>

RemoveOwnFile(p) ==
  /\ Become(p, {"leaving"}, "dead")
  /\ pidFile' = NoFile
  /\ UNCHANGED <<tmpFile, cmd, rushed>>

Run(c) ==
  \/ ReadPidFile(c) \/ FoundRunning(c) \/ FoundDead(c) \/ Clear(c)
  \/ Spawn(c) \/ SpawnFails(c) \/ WriteTmp(c) \/ Rename(c) \/ WriteFails(c)
  \/ Gone(c) \/ Kill(c)

Next ==
  \/ \E c \in Command : Run(c) \/ Interrupt(c)
  \/ \E p \in Pid : Boot(p) \/ Crash(p) \/ Leave(p) \/ RemoveOwnFile(p)

Spec == Init /\ [][Next]_vars

(* A command that has begun is a running process. *)
Fairness == \A c \in Command : WF_vars(cmd[c].pc # "new" /\ Run(c))

FairSpec == Spec /\ Fairness

-----------------------------------------------------------------------------
Working(p) == daemon[p] \in {"booting", "syncing"}

(* Operators who run one command at a time, and do not interrupt a start   *)
(* that has its child, never have two daemons syncing side by side, even   *)
(* in the middle of a command and while daemons fail and crash.            *)
OneAtMost == ~rushed => \A p, q \in Pid : Working(p) /\ Working(q) => p = q

(* Between their commands the pid file names the daemon that is syncing,   *)
(* so that status sees it and stop can end it: neither a stale file nor    *)
(* the clean-up of another process ever hides one.                         *)
Tracked == ~rushed /\ Quiet => \A p \in Pid : Working(p) => pidFile = p

(* When status says "not running" or stop says "stopped", nothing syncs.   *)
StoppedIsTrue ==
  [][\A c \in Command : ~rushed /\ cmd[c].pc # "stopped" /\ cmd'[c].pc = "stopped" /\ ~rushed'
        => \A p \in Pid : ~Working(p)']_vars

(* However commands interleave, a daemon that stop found running ends,     *)
(* also one that is stuck in a sync, unless stop is interrupted.           *)
StopStops ==
  \A c \in Command, p \in Pid :
     cmd[c].pc = "waiting" /\ cmd[c].pid = p
        ~> daemon[p] = "dead" \/ cmd[c].pc = "interrupted"

=============================================================================

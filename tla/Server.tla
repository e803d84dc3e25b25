-------------------------------- MODULE Server --------------------------------
(***************************************************************************)
(* The commands (main.c), the master processes they fork and the pid file  *)
(* (hk_server.c), with the workers of Worker.  A signal handler of a       *)
(* master may run between any two of its steps, and inside another one.    *)
(* A server started with "debug" has one worker and no process for it: its *)
(* master calls hk_worker_run.                                             *)
(***************************************************************************)
EXTENDS Worker, FiniteSets

CONSTANTS
    Starts, Stops, Restarts,    \* the commands issued, each once
    Reloads,                    \* SIGUSR1 sent to the master by hand, each once
    ForkMayFail                 \* whether the fork of a worker may

Commands == Starts \cup Stops \cup Restarts \cup Reloads
NoPid == 0
ASSUME MastersAssumption == Masters = Starts \cup Restarts /\ NoPid \notin Masters
ASSUME StopsAssumption == Stops \cap (Starts \cup Restarts \cup Reloads) = {}

VARIABLES
    cli,        \* each command: where it is, and the pid it signals
    pidfile,    \* the pid file's content, 0 when empty
    master,     \* each master: where it is, the worker it forks, what the fork
                \* returned, server->restart, and whether it was started with "debug"
    handlers,   \* the handlers it is in, innermost last: signal, worker, waiting
    pending,    \* its pending signals
    wpid,       \* worker->pid: an index into kids, 0, or -1
    wstopping,  \* worker->state = HK_WORKER_STOPPING in the master's memory
    hasty       \* history: see Hasty

cliVars    == <<cli, pidfile>>
masterVars == <<master, handlers, pending, wpid, wstopping>>
vars       == <<kids, cliVars, masterVars, hasty>>

Failed == -1        \* what a fork returns that fails; for kill and waitpid: any process
MasterAt == {"none", "truncate", "write", "create", "fork", "assign", "forked", "pause", "test",
             "run", "clear", "end", "exited"}

Command   == [at : {"idle", "read", "kill", "poll", "go", "done", "refused"},
              pid : Masters \cup {NoPid}]
Master    == [at : MasterAt, i : 1 .. Workers, child : Nat \cup {Failed},
              restart : BOOLEAN, debug : BOOLEAN]
Handler   == [sig : {"INT", "USR"}, i : 1 .. Workers + 1, wait : BOOLEAN]

TypeOK ==
    /\ kids \in Seq(Kid)
    /\ cli \in [Commands -> Command]
    /\ pidfile \in Masters \cup {NoPid}
    /\ master \in [Masters -> Master]
    /\ handlers \in [Masters -> Seq(Handler)]
    /\ pending \in [Masters -> SUBSET {"INT", "USR"}]
    /\ wpid \in [Masters -> [1 .. Workers -> Nat \cup {Failed}]]
    /\ wstopping \in [Masters -> [1 .. Workers -> BOOLEAN]]
    /\ hasty \in BOOLEAN

Init ==
    /\ kids = <<>>
    /\ cli = [c \in Commands |-> [at |-> "idle", pid |-> NoPid]] /\ pidfile = NoPid
    /\ master = [m \in Masters |-> [at |-> "none", i |-> 1, child |-> NoPid,
                                  restart |-> FALSE, debug |-> FALSE]]
    /\ handlers = [m \in Masters |-> <<>>] /\ pending = [m \in Masters |-> {}]
    /\ wpid = [m \in Masters |-> [i \in 1 .. Workers |-> NoPid]]
    /\ wstopping = [m \in Masters |-> [i \in 1 .. Workers |-> FALSE]]
    /\ hasty = FALSE

\* The process of a "debug" server ends with its worker's, when that cannot bind.
Exists(m) ==
    /\ master[m].at \notin {"none", "exited"}
    /\ \A k \in DOMAIN kids :
          kids[k].master = m /\ ~kids[k].is_forked => kids[k].at # "exited"

\* hk_server_start_single_proc makes a worker of the defaults only.
Last(m) == IF master[m].debug THEN 1 ELSE Workers

\* hk_read_pid.
ReadPid == IF pidfile # NoPid /\ Exists(pidfile) THEN pidfile ELSE NoPid

\* kill(): what is pending after sig was sent to p.
Sent(p, sig) == IF p # NoPid /\ Exists(p) THEN [pending EXCEPT ![p] = @ \cup {sig}] ELSE pending
-----------------------------------------------------------------------------
(***************************************************************************)
(* main.c: start, debug, stop, restart.                                    *)
(***************************************************************************)
Advances(c, from, to) == cli[c].at = from /\ cli' = [cli EXCEPT ![c].at = to]

\* hk_server_is_running.
Issue(c) ==
    /\ Advances(c, "idle", IF c \in Starts THEN IF ReadPid = NoPid THEN "go" ELSE "refused"
                                          ELSE IF ReadPid = NoPid THEN "refused" ELSE "read")
    /\ UNCHANGED <<pidfile, masterVars>>

\* hk_server_stop, then hk_server_start for restart.
Stopped(c) == IF c \in Restarts THEN "go" ELSE "done"

StopRead(c) ==
    /\ cli[c].at = "read"
    /\ cli' = [cli EXCEPT ![c].pid = ReadPid,
                          ![c].at = IF ReadPid = NoPid THEN Stopped(c) ELSE "kill"]
    /\ UNCHANGED <<pidfile, masterVars>>

StopKill(c) ==
    /\ Advances(c, "kill", IF c \in Reloads THEN "done" ELSE "poll")
    /\ pending' = Sent(cli[c].pid, IF c \in Reloads THEN "USR" ELSE "INT")
    /\ UNCHANGED <<pidfile, master, handlers, wpid, wstopping>>

\* Mutant: stop does not wait for the pid file.
StopPollNot(c) ==
    /\ Advances(c, "poll", Stopped(c))
    /\ UNCHANGED <<pidfile, masterVars>>

StopPoll(c) ==
    /\ ReadPid = NoPid
    /\ Advances(c, "poll", Stopped(c))
    /\ UNCHANGED <<pidfile, masterVars>>

\* hk_server_start forks the master; with "debug" the command is the master.
StartFork(c) ==
    /\ Advances(c, "go", "done")
    /\ \E debug \in IF c \in Starts THEN BOOLEAN ELSE {FALSE} :
          master' = [master EXCEPT ![c].at = "truncate", ![c].debug = debug]
    /\ UNCHANGED <<pidfile, handlers, pending, wpid, wstopping>>

CliStep(c) == StopRead(c) \/ StopKill(c) \/ StopPoll(c) \/ StartFork(c)
-----------------------------------------------------------------------------
(***************************************************************************)
(* hk_server_start in the daemon, or hk_server_start_single_proc, while no *)
(* handler runs.                                                           *)
(***************************************************************************)
Goes(m, from, to) ==
    /\ handlers[m] = <<>>
    /\ master[m].at = from /\ master' = [master EXCEPT ![m].at = to]

\* hk_write_pid.
WritePidOpen(m)  == Goes(m, "truncate", "write") /\ pidfile' = NoPid
WritePidWrite(m) == Goes(m, "write", "create") /\ pidfile' = m

CreateWorkers(m) ==
    /\ Goes(m, "create", IF master[m].debug THEN "run" ELSE "fork")
    /\ kids' = IF master[m].debug THEN Append(kids, OwnWorker(m)) ELSE kids
    /\ UNCHANGED <<handlers, pending, wpid, wstopping>>

\* "debug": hk_worker_run returns.
RunReturns(m) ==
    /\ Goes(m, "run", "clear")
    /\ \E k \in DOMAIN kids : kids[k].master = m /\ kids[k].at = "returned"
    /\ UNCHANGED pidfile

\* hk_worker_fork_and_run; a worker marked as stopping is not forked, pid 0.
Fork(m) ==
    LET i == master[m].i
    IN  /\ handlers[m] = <<>> /\ master[m].at = "fork"
        /\ \E child \in IF wstopping[m][i] THEN {NoPid}
                         ELSE {Len(kids) + 1} \cup (IF ForkMayFail THEN {Failed} ELSE {}) :
              /\ kids' = IF child \in {NoPid, Failed} THEN kids ELSE Append(kids, NewKid(m, i))
              /\ master' = [master EXCEPT ![m].at = "assign", ![m].child = child]
        /\ UNCHANGED <<handlers, pending, wpid, wstopping>>

\* worker->pid = what the fork returned.
AssignPid(m) ==
    LET i == master[m].i
    IN  /\ handlers[m] = <<>> /\ master[m].at = "assign"
        /\ wpid' = [wpid EXCEPT ![m][i] = master[m].child]
        /\ master' = IF i = Workers THEN [master EXCEPT ![m].at = "forked"]
                     ELSE [master EXCEPT ![m].at = "fork", ![m].i = i + 1]
        /\ UNCHANGED <<kids, handlers, pending, wstopping>>

\* A signal handled before this is none that pause() returns for.
Pause(m) == Goes(m, "forked", "pause") /\ UNCHANGED pidfile

\* Mutant: the loop over the workers does not begin anew.
TestRestartMidway(m) ==
    /\ handlers[m] = <<>> /\ master[m].at = "test"
    /\ master' = [master EXCEPT ![m].at = IF master[m].restart THEN "fork" ELSE "clear"]
    /\ UNCHANGED <<kids, handlers, pending, wpid, wstopping>>

\* while ( server->restart ).
TestRestart(m) ==
    /\ handlers[m] = <<>> /\ master[m].at = "test"
    /\ master' = [master EXCEPT ![m].at = IF master[m].restart THEN "fork" ELSE "clear",
                                ![m].i = 1]
    /\ UNCHANGED <<kids, handlers, pending, wpid, wstopping>>

\* hk_clear_pid.
ClearPid(m)   == Goes(m, "clear", "end") /\ pidfile' = NoPid
MasterExit(m) == Goes(m, "end", "exited") /\ UNCHANGED pidfile

PidStep(m) ==
    /\ \/ WritePidOpen(m) \/ WritePidWrite(m) \/ RunReturns(m) \/ Pause(m)
       \/ ClearPid(m) \/ MasterExit(m)
    /\ UNCHANGED <<kids, cli, handlers, pending, wpid, wstopping>>
-----------------------------------------------------------------------------
(***************************************************************************)
(* hk_server_sig: hk_server_stop_workers, then server->restart.  A signal  *)
(* is not delivered again while it is handled; another one is.             *)
(***************************************************************************)
Top(m) == handlers[m][Len(handlers[m])]
Under(m) == SubSeq(handlers[m], 1, Len(handlers[m]) - 1)

Deliver(m, sig) ==
    /\ Exists(m) /\ sig \in pending[m]
    /\ \A n \in DOMAIN handlers[m] : handlers[m][n].sig # sig
    /\ pending' = [pending EXCEPT ![m] = @ \ {sig}]
    /\ handlers' = [handlers EXCEPT ![m] = Append(@,
            [sig |-> sig, wait |-> FALSE,
             i |-> IF master[m].at \in {"truncate", "write", "create"}
                   THEN Last(m) + 1 ELSE 1])]
    /\ UNCHANGED <<kids, master, wpid, wstopping>>

NextWorker(hs) == [hs EXCEPT ![Len(hs)].i = @ + 1, ![Len(hs)].wait = FALSE]

\* hk_worker_stop of the worker that has no process: it is marked, and the one of
\* a "debug" server, which the handler has interrupted, is told.
MarkWorker(m, i) ==
    LET own == {k \in DOMAIN kids : kids[k].master = m /\ ~kids[k].is_forked}
    IN  /\ wstopping' = [wstopping EXCEPT ![m][i] = TRUE]
        /\ handlers' = [handlers EXCEPT ![m] = NextWorker(@)]
        /\ IF own = {} THEN kids' = kids ELSE \E k \in own : kids' \in Told(k)
        /\ UNCHANGED pending

\* hk_worker_stop: kill; with a pid of -1 every other process of the user.
KillWorker(m, pid) ==
    /\ kids' = Interrupted(IF pid = Failed THEN DOMAIN kids ELSE {pid})
    /\ pending' = IF pid = Failed
                  THEN [n \in Masters |-> pending[n] \cup IF n # m /\ Exists(n) THEN {"INT"} ELSE {}]
                  ELSE pending
    /\ handlers' = [handlers EXCEPT ![m] = [@ EXCEPT ![Len(@)].wait = TRUE]]
    /\ UNCHANGED wstopping

StopWorker(m) ==
    /\ handlers[m] # <<>> /\ ~Top(m).wait /\ Top(m).i <= Last(m)
    /\ LET i   == Top(m).i
           pid == wpid[m][i]
       IN  IF pid = NoPid THEN MarkWorker(m, i) ELSE KillWorker(m, pid)
    /\ UNCHANGED <<master, wpid>>

\* Mutant: no waitpid.
WaitWorkerNot(m) ==
    /\ handlers[m] # <<>> /\ Top(m).wait
    /\ handlers' = [handlers EXCEPT ![m] = NextWorker(@)]
    /\ UNCHANGED <<kids, master, pending, wpid, wstopping>>

\* waitpid fails at once when there is nobody to wait for.
WaitWorker(m) ==
    LET pid      == wpid[m][Top(m).i]
        children == {k \in DOMAIN kids : kids[k].master = m /\ kids[k].is_forked /\ ~kids[k].reaped}
        awaited  == IF pid = Failed THEN children ELSE children \cap {pid}
    IN  /\ handlers[m] # <<>> /\ Top(m).wait
        /\ \/ awaited = {} /\ kids' = kids
           \/ \E k \in awaited : kids[k].at = "exited" /\ kids' = [kids EXCEPT ![k].reaped = TRUE]
        /\ handlers' = [handlers EXCEPT ![m] = NextWorker(@)]
        /\ UNCHANGED <<master, pending, wpid, wstopping>>

\* The handlers left when the innermost returns: the waitpid it interrupted fails.
Resumed(m) ==
    IF Under(m) # <<>> /\ Under(m)[Len(Under(m))].wait THEN NextWorker(Under(m)) ELSE Under(m)

\* server->restart, set by hk_server_stop_real or hk_server_restart_real.
RestartKept(m)  == master[m].restart \/ Top(m).sig = "USR"   \* mutant: not reset by SIGINT
RestartNever(m) == FALSE                                     \* mutant: not set by SIGUSR1
RestartAfter(m) == Top(m).sig = "USR"

HandlerReturn(m) ==
    /\ handlers[m] # <<>> /\ Top(m).i = Last(m) + 1
    /\ handlers' = [handlers EXCEPT ![m] = Resumed(m)]
    /\ master' = [master EXCEPT ![m].restart = RestartAfter(m),
                  ![m].at = IF @ = "pause" /\ Under(m) = <<>> THEN "test" ELSE @]
    /\ UNCHANGED <<kids, pending, wpid, wstopping>>

MasterStep(m) ==
    \/ PidStep(m)
    \/ /\ \/ CreateWorkers(m) \/ Fork(m) \/ AssignPid(m) \/ TestRestart(m)
          \/ \E sig \in {"INT", "USR"} : Deliver(m, sig)
          \/ StopWorker(m) \/ WaitWorker(m) \/ HandlerReturn(m)
       /\ UNCHANGED cliVars
-----------------------------------------------------------------------------
(***************************************************************************)
(* What the code does not provide for: two commands on the way to a pid    *)
(* file at once; a signal to a master elsewhere than in pause (for SIGINT, *)
(* or after it; with "debug", to one whose worker does not yet accept); a  *)
(* SIGINT to a worker that does not yet accept; the kill(-1) that follows  *)
(* a failed fork, while there is another master for it to reach.           *)
(***************************************************************************)
Starting(c)  == cli[c].at = "go" \/ (c \in Masters /\ master[c].at \in {"truncate", "write"})
Ready(sig)   == IF sig = "INT" THEN {"pause", "run", "test", "clear", "end"} ELSE {"pause", "run"}
KillsAll(m)  == handlers[m] # <<>> /\ Top(m).i <= Last(m) /\ wpid[m][Top(m).i] = Failed
Hasty ==
    \/ \E c, d \in Commands : c # d /\ Starting(c) /\ Starting(d)
    \/ \E m \in Masters : Len(handlers[m]) > 1
    \/ \E m \in Masters : handlers[m] # <<>> /\ master[m].at \notin Ready(handlers[m][1].sig)
    \/ \E k \in DOMAIN kids :
          /\ kids[k].sigint \/ (~kids[k].is_forked /\ handlers[kids[k].master] # <<>>)
          /\ ~Settled(k)
    \/ \E m, n \in Masters : m # n /\ Exists(n) /\ KillsAll(m)

Remember == hasty' = (hasty \/ Hasty')

\* As many workers as can be forked.
MaxKids == Workers * (Cardinality(Masters) + Cardinality(Reloads))

\* A handler interrupts the worker of a "debug" server.
Runs(k) == kids[k].is_forked \/ handlers[kids[k].master] = <<>>

KidNext(k) ==
    k \in DOMAIN kids /\ Runs(k) /\ KidStep(k) /\ UNCHANGED <<cliVars, masterVars>> /\ Remember
KidSigint(k) == k \in DOMAIN kids /\ Sigint(k) /\ UNCHANGED <<cliVars, masterVars>> /\ Remember
MasterNext(m) == MasterStep(m) /\ Remember
CliNext(c) == CliStep(c) /\ UNCHANGED kids /\ Remember
Environment ==
    /\ \/ \E c \in Commands : Issue(c) /\ UNCHANGED kids
       \/ \E k \in DOMAIN kids :
             Runs(k) /\ (Accept(k) \/ Close(k)) /\ UNCHANGED <<cliVars, masterVars>>
    /\ Remember

Next ==
    \/ Environment
    \/ \E c \in Commands : CliNext(c)
    \/ \E m \in Masters : MasterNext(m)
    \/ \E k \in 1 .. MaxKids : KidNext(k) \/ KidSigint(k)

(***************************************************************************)
(* The processes are scheduled and their signals delivered; commands are   *)
(* issued, and clients connect, at will.  A worker that is closing need    *)
(* not come to the end of it: its reader thread may be in a write to a     *)
(* client that does not read (see ClientTable).                            *)
(***************************************************************************)
Spec ==
    /\ Init /\ [][Next]_vars
    /\ \A c \in Commands : WF_vars(CliNext(c))
    /\ \A m \in Masters : WF_vars(MasterNext(m))
    /\ \A k \in 1 .. MaxKids : WF_vars(KidNext(k)) /\ WF_vars(KidSigint(k))
=============================================================================

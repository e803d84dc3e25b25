-------------------------------- MODULE Worker --------------------------------
(***************************************************************************)
(* A worker (hk_worker.c), from the fork to its exit, with the SIGINT that *)
(* stops it: the signal may be handled between any two steps, and what it  *)
(* does depends on how far the process has come.  The worker of a server   *)
(* started with "debug" runs in the process of the command.  Connections   *)
(* and the reader threads are left to ClientTable.                         *)
(***************************************************************************)
EXTENDS Integers, Sequences

CONSTANTS
    Masters,        \* the processes that may fork workers
    Workers         \* how many workers a master has, one for each address

ASSUME WorkersAssumption == Workers \in Nat \ {0}

VARIABLE kids       \* workers in the order of their forks

(***************************************************************************)
(* Where a worker process is: forked, with the handlers of its master;     *)
(* with its own handlers; with worker_inst set; past the check of          *)
(* worker->state; about to test worker->state in the accept loop; in poll; *)
(* closing; exited; or "returned" from hk_worker_run.  With "debug" that   *)
(* is its end; a forked worker does so when it refused to run, goes back   *)
(* into the start loop of the master it is a copy of, and is not followed  *)
(* further.                                                                *)
(***************************************************************************)
Kid == [master : Masters, i : 1 .. Workers,
        at : {"born", "ready", "known", "init", "loop", "poll", "closing", "exited", "returned"},
        sigint : BOOLEAN,       \* SIGINT is pending
        stopping : BOOLEAN,     \* worker->state = HK_WORKER_STOPPING
        down : BOOLEAN,         \* the listening socket has been shut down
        is_forked : BOOLEAN,
        reaped : BOOLEAN]       \* its master has waited for it

NewKid(m, i) == [master |-> m, i |-> i, at |-> "born", sigint |-> FALSE,
                 stopping |-> FALSE, down |-> FALSE, is_forked |-> TRUE, reaped |-> FALSE]

\* The worker of a "debug" server, which calls hk_worker_run itself.
OwnWorker(m) == [NewKid(m, 1) EXCEPT !.at = "known", !.is_forked = FALSE]

\* The process that runs it has ended, or has left hk_worker_run as it should.
Over(k) == kids[k].at = "exited" \/ (kids[k].at = "returned" /\ ~kids[k].is_forked)

\* Holds the address of its worker.
Listening(k) == kids[k].at \in {"loop", "poll"}

\* Fit to be stopped by SIGINT.
Settled(k) == kids[k].at \in {"loop", "poll", "closing"} \/ Over(k)

Moves(k, from, to) == kids[k].at = from /\ kids' = [kids EXCEPT ![k].at = to]

\* kill(pid, SIGINT) for the workers of ks; nothing happens to one that has exited.
Interrupted(ks) ==
    [k \in DOMAIN kids |-> IF k \in ks /\ kids[k].is_forked
                           THEN [kids[k] EXCEPT !.sigint = @ \/ kids[k].at \notin {"exited", "returned"}]
                           ELSE kids[k]]

\* hk_worker_stop in the process that runs worker k: the listening socket is shut
\* down if there is one.
Told(k) ==
    {[kids EXCEPT ![k].stopping = TRUE, ![k].sigint = FALSE, ![k].down = @ \/ down] :
        down \in IF kids[k].at = "init" THEN BOOLEAN ELSE {Listening(k)}}
-----------------------------------------------------------------------------
SignalsInit(k) == Moves(k, "born", "ready")

InstanceSet(k) == Moves(k, "ready", "known")

StateCheck(k) == Moves(k, "known", IF kids[k].stopping THEN "returned" ELSE "init")

\* socket, bind, listen; worker->state = HK_WORKER_RUNNING, whatever it was.
Listen(k) ==
    /\ kids[k].at = "init"
    /\ kids' = IF \E l \in DOMAIN kids : Listening(l) /\ kids[l].i = kids[k].i
               THEN [kids EXCEPT ![k].at = "exited"]
               ELSE [kids EXCEPT ![k].at = "loop", ![k].stopping = FALSE]

LoopTest(k) == Moves(k, "loop", IF kids[k].stopping THEN "closing" ELSE "poll")

\* poll returns when the socket is shut down; then accept fails.
PollReturns(k) == kids[k].down /\ Moves(k, "poll", "loop")

\* It may also return because of a connection, or of a signal that came while it
\* was waiting and not just before.
Accept(k) == Moves(k, "poll", "loop")

\* _hk_worker_stop, which stops the readers, and exit(0) where it was forked.
Close(k) == Moves(k, "closing", IF kids[k].is_forked THEN "exited" ELSE "returned")

(***************************************************************************)
(* hk_worker_sig: worker->state = HK_WORKER_STOPPING.  Without worker_inst *)
(* the handler dereferences NULL.  Before hk_worker_signals_init it is the *)
(* handler of the master, which stops the workers in the child's copy of   *)
(* the master's list: those forked before are signalled, and the child     *)
(* marks its own as stopping, unless that still has the pid of the process *)
(* it had before a restart.  (A pid of -1 in that copy is left out.)       *)
(***************************************************************************)
Elders(k) == {l \in 1 .. k - 1 : kids[l].master = kids[k].master}
Predecessor(k) == \E l \in Elders(k) : kids[l].i = kids[k].i

SigintAsMaster(k) ==
    \E own \in IF Predecessor(k) THEN BOOLEAN ELSE {TRUE} :
        kids' = [Interrupted(Elders(k)) EXCEPT ![k].stopping = @ \/ own, ![k].sigint = FALSE]

Sigint(k) ==
    /\ kids[k].sigint
    /\ CASE kids[k].at = "born"  -> SigintAsMaster(k)
         [] kids[k].at = "ready" -> kids' = [kids EXCEPT ![k].at = "exited", ![k].sigint = FALSE]
         [] OTHER                -> kids' \in Told(k)

\* What the process does by itself.
KidStep(k) ==
    \/ SignalsInit(k) \/ InstanceSet(k) \/ StateCheck(k) \/ Listen(k) \/ LoopTest(k)
    \/ PollReturns(k)
=============================================================================

----------------------------- MODULE ServerSafety -----------------------------
(***************************************************************************)
(* The properties of Server.                                               *)
(***************************************************************************)
EXTENDS Server

\* Has begun and has not cleared the pid file.
Active(m) == Exists(m) /\ master[m].at # "end"

(***************************************************************************)
(* The check of the pid file keeps a second master from starting, also     *)
(* while one is stopped and another started.                               *)
(***************************************************************************)
OneMaster == ~hasty => \A m, n \in Masters : Active(m) /\ Active(n) => m = n

(***************************************************************************)
(* When stop prints [OK] the master it signalled has cleared its pid file  *)
(* and every worker of it has exited, also when a fork has failed, and the *)
(* master signals and awaits -1.                                           *)
(***************************************************************************)
StopMeansStopped ==
    ~hasty => \A c \in Stops :
        (cli[c].at = "done" /\ cli[c].pid # NoPid) =>
            /\ ~Active(cli[c].pid)
            /\ \A k \in DOMAIN kids : kids[k].master = cli[c].pid => Over(k)

(***************************************************************************)
(* A worker about to bind finds its address free: whoever had it, of this  *)
(* master or of the one before, has closed its socket.                     *)
(***************************************************************************)
AddressFree ==
    ~hasty => \A k, l \in DOMAIN kids :
        kids[k].at = "init" /\ Listening(l) => kids[k].i # kids[l].i

(***************************************************************************)
(* A master in pause has one worker alive for each address, the one whose  *)
(* pid it holds, unless the fork has failed.                               *)
(***************************************************************************)
PausedHasWorkers ==
    ~hasty => \A m \in Masters :
        (master[m].at = "pause" /\ handlers[m] = <<>>) =>
            \A i \in 1 .. Workers :
                {k \in DOMAIN kids : kids[k].master = m /\ kids[k].i = i
                                     /\ kids[k].at # "exited"} = {wpid[m][i]} \ {Failed}

\* A worker is for ever in _hk_worker_stop.
ClosesForEver == <>[](\E k \in DOMAIN kids : kids[k].at = "closing")

(***************************************************************************)
(* hk_server_stop returns, unless by then another master is running, whose *)
(* pid keeps it polling, or a worker's readers keep it from ending.        *)
(***************************************************************************)
StopReturns ==
    \/ \A c \in Stops \cup Restarts :
          cli[c].at = "poll" ~> \/ cli[c].at # "poll" \/ hasty
                                \/ \E m \in Masters \ {cli[c].pid} : Active(m)
    \/ ClosesForEver

(***************************************************************************)
(* SIGUSR1 is followed by a full set of workers accepting connections, as  *)
(* far as they could be forked, unless a command to stop this master is on *)
(* its way or a worker's readers keep it from ending.  (A "debug" server   *)
(* is ended by the signal: hk_server.c:165.)                               *)
(***************************************************************************)
ReloadServes ==
    \/ \A m \in Masters :
          "USR" \in pending[m] ~>
              \/ hasty \/ master[m].debug \/ \E c \in Stops \cup Restarts : cli[c].pid = m
              \/ /\ master[m].at = "pause" /\ master[m].restart
                 /\ \A i \in 1 .. Workers :
                        \/ wpid[m][i] = Failed
                        \/ wpid[m][i] # NoPid /\ Listening(wpid[m][i])
    \/ ClosesForEver
=============================================================================

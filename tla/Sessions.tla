------------------------------ MODULE Sessions ------------------------------
(***************************************************************************)
(* api4.py: writes go to the primary, reads to a standby that replays the   *)
(* log when it gets to it, for one entity and one session. The n-th write   *)
(* that commits has LSN n and is the value n. Requests of a session may     *)
(* overlap: every handler is a thread of its own.                           *)
(***************************************************************************)
EXTENDS Naturals, FiniteSets

CONSTANTS
    Visit,       \* the requests of the session
    Fix          \* FIX: the settings that the run looks at

ASSUME SessionsAssumption == IsFiniteSet(Visit) /\ Fix \subseteq {"none", "sticky", "lsn"}

VARIABLES
    fix,
    wal,         \* LSN of the primary
    replayed,    \* pg_last_wal_replay_lsn() of the standby
    session,     \* _sessions[x_session]; lsn 0 when there is no entry
    visit,       \* visit[v]: where the handler of v is
    lsn,         \* lsn[v]: the LSN in the hands of v
    owed,        \* owed[v]: the last write that was answered when v came in
    seen,        \* seen[v]: the value that v read
    wentBack     \* an older LSN has replaced a newer one in _sessions

sessionVars == <<fix, wal, replayed, session, visit, lsn, owed, seen, wentBack>>

SessionsInit ==
    /\ fix \in Fix
    /\ wal = 0 /\ replayed = 0
    /\ session = [lsn |-> 0, recent |-> FALSE]
    /\ visit = [v \in Visit |-> "new"]
    /\ lsn = [v \in Visit |-> 0]
    /\ owed = [v \in Visit |-> 0] /\ seen = [v \in Visit |-> 0]
    /\ wentBack = FALSE

To(v, where) == visit' = [visit EXCEPT ![v] = where]

\* The INSERT, autocommitted and flushed. What a writer has seen is its own value.
write(v) ==
    /\ visit[v] = "new"
    /\ wal' = wal + 1
    /\ seen' = [seen EXCEPT ![v] = wal + 1]
    /\ To(v, "committed")
    /\ UNCHANGED <<fix, replayed, session, lsn, owed, wentBack>>

\* pg_current_wal_flush_lsn(): by now perhaps that of a later write.
flushLsn(v) ==
    /\ visit[v] = "committed"
    /\ lsn' = [lsn EXCEPT ![v] = wal]
    /\ To(v, "flushed")
    /\ UNCHANGED <<fix, wal, replayed, session, owed, seen, wentBack>>

\* The assignment to _sessions, and the answer.
remember(v) ==
    /\ visit[v] = "flushed"
    /\ session' = [lsn |-> lsn[v], recent |-> TRUE]
    /\ wentBack' = (wentBack \/ lsn[v] < session.lsn)
    /\ To(v, "written")
    /\ UNCHANGED <<fix, wal, replayed, lsn, owed, seen>>

\* STICKY_MS is over.
stickyOver ==
    /\ session.recent /\ session' = [session EXCEPT !.recent = FALSE]
    /\ UNCHANGED <<fix, wal, replayed, visit, lsn, owed, seen, wentBack>>

\* The standby applies one more record.
replayWal ==
    /\ replayed < wal /\ replayed' = replayed + 1
    /\ UNCHANGED <<fix, wal, session, visit, lsn, owed, seen, wentBack>>

LastAnswered ==
    LET writes == {seen[v] : v \in {u \in Visit : visit[u] = "written"}}
    IN  IF writes = {} THEN 0 ELSE CHOOSE n \in writes : \A m \in writes : m <= n

\* The routing decision of read.
route(v) ==
    /\ visit[v] = "new"
    /\ owed' = [owed EXCEPT ![v] = LastAnswered]
    /\ lsn' = [lsn EXCEPT ![v] = session.lsn]
    /\ To(v, IF fix = "sticky" /\ session.lsn # 0 /\ session.recent THEN "primary"
             ELSE IF fix = "lsn" /\ session.lsn # 0 THEN "polling" ELSE "standby")
    /\ UNCHANGED <<fix, wal, replayed, session, seen, wentBack>>

\* Mutant: the standby is one record short of it.
Reached_Short(v) == replayed + 1 >= lsn[v]

Reached(v) == replayed >= lsn[v]

pollReached(v) ==
    /\ visit[v] = "polling" /\ Reached(v)
    /\ To(v, "standby")
    /\ UNCHANGED <<fix, wal, replayed, session, lsn, owed, seen, wentBack>>

\* LSN_TIMEOUT_MS is over.
fallBack(v) ==
    /\ visit[v] = "polling" /\ ~Reached(v)
    /\ To(v, "primary")
    /\ UNCHANGED <<fix, wal, replayed, session, lsn, owed, seen, wentBack>>

\* The SELECT, on another connection and some time later. The row that it adds
\* to rw_probe is for the report.
read(v) ==
    /\ visit[v] \in {"standby", "primary"}
    /\ seen' = [seen EXCEPT ![v] = IF visit[v] = "primary" THEN wal ELSE replayed]
    /\ To(v, IF visit[v] = "primary" THEN "read primary" ELSE "read standby")
    /\ UNCHANGED <<fix, wal, replayed, session, lsn, owed, wentBack>>

SessionsNext ==
    \/ \E v \in Visit : write(v)
    \/ \E v \in Visit : flushLsn(v)
    \/ \E v \in Visit : remember(v)
    \/ stickyOver
    \/ replayWal
    \/ \E v \in Visit : route(v)
    \/ \E v \in Visit : pollReached(v)
    \/ \E v \in Visit : fallBack(v)
    \/ \E v \in Visit : read(v)

SessionsSpec == SessionsInit /\ [][SessionsNext]_sessionVars

-----------------------------------------------------------------------------
(* Properties. *)

\* Read-your-writes: with FIX=lsn a read returns the last write of the session
\* that was answered before the read came in, or a later one, also when the
\* standby is behind or the poll runs into its deadline; under any setting a
\* read of the primary does. The token has to be the newest: when two writes
\* overlap, the slower handler may put its older LSN over the newer one.
ReadsOwnWrites ==
    \A v \in Visit :
        /\ visit[v] = "read primary" => seen[v] >= owed[v]
        /\ visit[v] = "read standby" /\ fix = "lsn" /\ ~wentBack => seen[v] >= owed[v]
=============================================================================

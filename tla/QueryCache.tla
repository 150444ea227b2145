---------------------------- MODULE QueryCache ----------------------------
(***************************************************************************)
(* One query of the dashboard's cache, as TanStack Query v5 keeps it under *)
(* the options of src/web/src/lib/queryClient.ts: what mounting a page,    *)
(* the 30 seconds of staleTime, a poll, an invalidation, an answer and an  *)
(* error do to it.  The library is external: these operators say what the  *)
(* hooks of src/web/src/hooks rely on.                                     *)
(*                                                                         *)
(* A query is a record:                                                    *)
(*   data       the last answer, or NoData                                 *)
(*   stale      a mount refetches it (too old, or invalidated)             *)
(*   wire       Idle, Sent (the server has not read anything yet), or the  *)
(*              answer on its way back                                     *)
(*   retried    the one retry of this fetch has been used                  *)
(*   overtaken  an invalidation found this fetch under way and did not     *)
(*              start another (a ghost: the library does not keep it)      *)
(***************************************************************************)
CONSTANTS NoData, Idle, Sent

NewQuery == [data |-> NoData, stale |-> FALSE, wire |-> Idle,
             retried |-> FALSE, overtaken |-> FALSE]

Fetching(q) == q.wire # Idle

\* isLoading: nothing to show yet and a fetch under way.
Loading(q) == q.data = NoData /\ Fetching(q)

Begin(q) == [q EXCEPT !.wire = Sent, !.retried = FALSE, !.overtaken = FALSE]

\* A second fetch joins the one under way.
Fetch(q) == IF Fetching(q) THEN q ELSE Begin(q)

Mounted(q) == IF q.data = NoData \/ q.stale THEN Fetch(q) ELSE q

\* There is nothing to be stale before the first answer.
Aged(q) == [q EXCEPT !.stale = q.data # NoData, !.overtaken = @ /\ Fetching(q)]

(* invalidateQueries marks the query and refetches it if a mounted page    *)
(* uses it.  A refetch cancels the fetch under way, but not a first one:   *)
(* that is joined, although what it will bring may have been read before   *)
(* the change that caused the invalidation.  The fetch of a page that was  *)
(* left goes on, and its success clears the mark.                          *)
Invalidated(q, active) ==
    IF active /\ (q.data # NoData \/ ~Fetching(q)) THEN Begin(Aged(q))
    ELSE [Aged(q) EXCEPT !.overtaken = Fetching(q)]

Answered(q, answer) == [q EXCEPT !.wire = answer]

Succeeded(q) == [q EXCEPT !.data = q.wire, !.stale = FALSE, !.wire = Idle, !.retried = FALSE]

(* retry: 1, but the retries of a query that no page uses are cancelled.   *)
(* An error leaves the data, marked stale; that there was one is shown by  *)
(* no page.                                                                *)
Errored(q, active) ==
    IF active /\ ~q.retried THEN [q EXCEPT !.wire = Sent, !.retried = TRUE]
    ELSE [Aged(q) EXCEPT !.wire = Idle, !.retried = FALSE, !.overtaken = FALSE]

HasAnswer(q) == q.wire \notin {Idle, Sent}
=============================================================================

------------------------- MODULE ConnectionThreads --------------------------
(***************************************************************************)
(* The part utils/siri_server.py and utils/msg_server.py have in common:   *)
(* the accepting thread, the table `threads', one thread for each          *)
(* connection, and the list `to_join' the threads leave their ids in.      *)
(* What a connection's thread does with its connection is the business of  *)
(* Siri and Msg.                                                           *)
(***************************************************************************)
EXTENDS Integers, Sequences

CONSTANTS
    LISTEN,         \* connections the kernel keeps for accept
    MaxConnections  \* bound: the connections clients open

ASSUME ConnectionAssumption ==
    /\ LISTEN \in Nat \ {0}
    /\ MaxConnections \in Nat

Ids == 0..(MaxConnections - 1)

VARIABLES
    main,       \* the accepting thread: "accept", "start", "test", "join", "dead"
    conn_id,
    threads,    \* the keys of the dictionary
    to_join,
    joining,    \* thread_to_join_id
    connected,  \* connections clients have opened
    thread      \* for each id, how far its thread is

vars == <<main, conn_id, threads, to_join, joining, connected, thread>>

(* A thread that has left the try block is "finally", once its id is in    *)
(* to_join "listed", and "ended" when join returns at once.                *)
TypeOK ==
    /\ main \in {"accept", "start", "test", "join", "dead"}
    /\ conn_id \in 0..MaxConnections
    /\ threads \subseteq Ids
    /\ to_join \in Seq(Ids)
    /\ joining \in Nat
    /\ connected \in 0..MaxConnections
    /\ thread \in [Ids -> {"none", "created", "running", "finally", "listed", "ended"}]

Init ==
    /\ main = "accept"
    /\ conn_id = 0
    /\ threads = {}
    /\ to_join = <<>>
    /\ joining = 0
    /\ connected = 0
    /\ thread = [id \in Ids |-> "none"]

-----------------------------------------------------------------------------
(* The accepting thread                                                    *)

(* accept, and the entry in the table.                                     *)
Accept ==
    /\ main = "accept"
    /\ conn_id < connected
    /\ threads' = threads \cup {conn_id}
    /\ thread' = [thread EXCEPT ![conn_id] = "created"]
    /\ conn_id' = conn_id + 1
    /\ main' = "start"
    /\ UNCHANGED <<to_join, joining, connected>>

StartThread ==
    /\ main = "start"
    /\ thread' = [thread EXCEPT ![conn_id - 1] = "running"]
    /\ main' = "test"
    /\ UNCHANGED <<conn_id, threads, to_join, joining, connected>>

(* Mutant: the id is read and not removed.                                 *)
PeekFinished ==
    /\ main = "test"
    /\ to_join # <<>>
    /\ joining' = to_join[Len(to_join)]
    /\ main' = "join"
    /\ UNCHANGED <<conn_id, threads, to_join, connected, thread>>

(* join_finished_threads: to_join.pop() takes the last id ...              *)
PopFinished ==
    /\ main = "test"
    /\ to_join # <<>>
    /\ joining' = to_join[Len(to_join)]
    /\ to_join' = SubSeq(to_join, 1, Len(to_join) - 1)
    /\ main' = "join"
    /\ UNCHANGED <<conn_id, threads, connected, thread>>

(* ... until there is none.                                                *)
NoneFinished ==
    /\ main = "test"
    /\ to_join = <<>>
    /\ main' = "accept"
    /\ UNCHANGED <<conn_id, threads, to_join, joining, connected, thread>>

(* Mutant: one id is taken for each connection accepted.                   *)
JoinThreadOne ==
    /\ main = "join"
    /\ joining \in threads => thread[joining] = "ended"
    /\ threads' = threads \ {joining}
    /\ main' = IF joining \in threads THEN "accept" ELSE "dead"
    /\ UNCHANGED <<conn_id, to_join, joining, connected, thread>>

(* threads[thread_to_join_id].join() waits for the end of the thread, then *)
(* its entry is deleted.  An id that is not in the table is a KeyError.    *)
JoinThread ==
    /\ main = "join"
    /\ joining \in threads => thread[joining] = "ended"
    /\ threads' = threads \ {joining}
    /\ main' = IF joining \in threads THEN "test" ELSE "dead"
    /\ UNCHANGED <<conn_id, to_join, joining, connected, thread>>

-----------------------------------------------------------------------------
(* A client, and the thread of a connection                                *)

ClientConnects ==
    /\ connected < MaxConnections
    /\ connected - conn_id < LISTEN
    /\ connected' = connected + 1
    /\ UNCHANGED <<main, conn_id, threads, to_join, joining, thread>>

(* Mutant: the id is listed when the connection begins.                    *)
LeaveTryListed(id) ==
    /\ thread[id] = "running"
    /\ \/ id \notin {to_join[i] : i \in 1..Len(to_join)} /\ to_join' = Append(to_join, id)
          /\ UNCHANGED thread
       \/ thread' = [thread EXCEPT ![id] = "ended"] /\ UNCHANGED to_join
    /\ UNCHANGED <<main, conn_id, threads, joining, connected>>

(* The try block ends: the client has closed, or something raised.         *)
LeaveTry(id) ==
    /\ thread[id] = "running"
    /\ thread' = [thread EXCEPT ![id] = "finally"]
    /\ UNCHANGED <<main, conn_id, threads, to_join, joining, connected>>

(* Mutant: the global conn_id is appended.                                 *)
ListThreadGlobal(id) ==
    /\ thread[id] = "finally"
    /\ to_join' = Append(to_join, conn_id)
    /\ thread' = [thread EXCEPT ![id] = "listed"]
    /\ UNCHANGED <<main, conn_id, threads, joining, connected>>

(* The finally clause closes the connection and appends the id.            *)
ListThread(id) ==
    /\ thread[id] = "finally"
    /\ to_join' = Append(to_join, id)
    /\ thread' = [thread EXCEPT ![id] = "listed"]
    /\ UNCHANGED <<main, conn_id, threads, joining, connected>>

EndThread(id) ==
    /\ thread[id] = "listed"
    /\ thread' = [thread EXCEPT ![id] = "ended"]
    /\ UNCHANGED <<main, conn_id, threads, to_join, joining, connected>>

MainStep ==
    Accept \/ StartThread \/ PopFinished \/ NoneFinished \/ JoinThread

(* What a thread does without waiting for anybody.                         *)
LastSteps(id) == ListThread(id) \/ EndThread(id)

Next ==
    \/ MainStep
    \/ ClientConnects
    \/ \E id \in Ids : LeaveTry(id) \/ LastSteps(id)

Spec == Init /\ [][Next]_vars

(* The threads run; a client may keep its connection for ever.             *)
FairSpec ==
    /\ Spec
    /\ WF_vars(MainStep)
    /\ \A id \in Ids : WF_vars(LastSteps(id))

-----------------------------------------------------------------------------
(* Properties                                                              *)

(* The table has an entry for every thread that is not over, so that no    *)
(* connection is forgotten, ...                                            *)
NoneForgotten ==
    \A id \in Ids : thread[id] \notin {"none", "ended"} => id \in threads

(* ... and every id in to_join is there once and still in the table, the   *)
(* one being joined included: the KeyError of join_finished_threads cannot *)
(* happen, whenever the threads append.                                    *)
JoinedOnce ==
    /\ \A i \in 1..Len(to_join) :
        /\ to_join[i] \in threads
        /\ \A j \in 1..Len(to_join) : to_join[i] = to_join[j] => i = j
    /\ main = "join" =>
        /\ joining \in threads
        /\ \A i \in 1..Len(to_join) : to_join[i] # joining
    /\ main # "dead"

(* join waits for no client: the thread it waits for is done with its      *)
(* connection.                                                             *)
JoinIsShort ==
    main = "join" => thread[joining] \in {"listed", "ended"}

(* The accepting thread comes back to accept although threads append while *)
(* it empties the list, and although other clients never close.            *)
AlwaysAcceptsAgain == main # "accept" ~> main = "accept"

(* A thread in the list when a connection is accepted is joined and        *)
(* deleted, although the list is emptied from its end.                     *)
FinishedAreJoined ==
    \A id \in Ids :
        (main = "start" /\ \E i \in 1..Len(to_join) : to_join[i] = id) ~> id \notin threads

(* The inductive invariant: the states of the threads, and where their ids *)
(* are.                                                                    *)
ThreadsInv ==
    /\ TypeOK
    /\ conn_id <= connected
    /\ \A id \in Ids : id >= conn_id => thread[id] = "none"
    /\ main = "start" => conn_id > 0 /\ thread[conn_id - 1] = "created"
    /\ NoneForgotten
    /\ JoinedOnce
    /\ JoinIsShort
    /\ \A i \in 1..Len(to_join) : thread[to_join[i]] \in {"listed", "ended"}
=============================================================================

----------------------- MODULE ConnectionThreadsProofs ------------------------
(***************************************************************************)
(* No connection is forgotten, joined twice or waited for while its client *)
(* is there, for every number of connections and every backlog.            *)
(***************************************************************************)
EXTENDS ConnectionThreads, TLAPS

(* No connection has been accepted and to_join is empty.                   *)
LEMMA InitInv == Init => ThreadsInv
BY ConnectionAssumption
DEF ConnectionAssumption, Init, ThreadsInv, TypeOK, Ids, NoneForgotten, JoinedOnce, JoinIsShort

(* The ids in to_join are ids of threads.                                  *)
LEMMA ListedAreIds ==
    ASSUME TypeOK
    PROVE  /\ Len(to_join) \in Nat
           /\ \A i \in 1..Len(to_join) : to_join[i] \in Ids
BY DEF TypeOK

(* The id a new connection gets is no thread's, so not in to_join either.  *)
LEMMA AcceptKeeps ==
    ASSUME ThreadsInv, Accept
    PROVE  ThreadsInv'
<1>1. conn_id \in Ids /\ thread[conn_id] = "none"
  BY ConnectionAssumption DEF ConnectionAssumption, ThreadsInv, TypeOK, Accept, Ids
<1>2. TypeOK'
  BY <1>1, ConnectionAssumption DEF ConnectionAssumption, ThreadsInv, TypeOK, Accept, Ids
<1>3. conn_id' <= connected' /\ conn_id' > 0 /\ conn_id' - 1 = conn_id
  BY DEF ThreadsInv, TypeOK, Accept
<1>4. \A id \in Ids : id >= conn_id' => thread'[id] = "none"
  BY <1>1 DEF ThreadsInv, TypeOK, Accept, Ids
<1>5. thread'[conn_id' - 1] = "created"
  BY <1>1, <1>3 DEF ThreadsInv, TypeOK, Accept
<1>6. NoneForgotten'
  BY <1>1 DEF ThreadsInv, TypeOK, Accept, NoneForgotten
<1>7. JoinedOnce'
  BY DEF ThreadsInv, Accept, JoinedOnce
<1>8. \A i \in 1..Len(to_join') : thread'[to_join'[i]] \in {"listed", "ended"}
  BY <1>1, ListedAreIds DEF ThreadsInv, TypeOK, Accept
<1> QED
  BY <1>2, <1>3, <1>4, <1>5, <1>6, <1>7, <1>8 DEF ThreadsInv, JoinIsShort, Accept

(* The thread that is started has never run.                               *)
LEMMA StartKeeps ==
    ASSUME ThreadsInv, StartThread
    PROVE  ThreadsInv'
<1>1. conn_id - 1 \in Ids /\ thread[conn_id - 1] = "created"
  BY ConnectionAssumption DEF ConnectionAssumption, ThreadsInv, TypeOK, StartThread, Ids
<1>2. TypeOK'
  BY <1>1 DEF ThreadsInv, TypeOK, StartThread
<1>3. \A id \in Ids : id >= conn_id' => thread'[id] = "none"
  BY <1>1, ConnectionAssumption DEF ConnectionAssumption, ThreadsInv, TypeOK, StartThread, Ids
<1>4. NoneForgotten'
  BY <1>1 DEF ThreadsInv, TypeOK, StartThread, NoneForgotten
<1>5. JoinedOnce'
  BY DEF ThreadsInv, StartThread, JoinedOnce
<1>6. \A i \in 1..Len(to_join') : thread'[to_join'[i]] \in {"listed", "ended"}
  BY <1>1, ListedAreIds DEF ThreadsInv, TypeOK, StartThread
<1> QED
  BY <1>2, <1>3, <1>4, <1>5, <1>6 DEF ThreadsInv, JoinIsShort, StartThread

(* What to_join.pop() leaves.                                              *)
LEMMA Prefix ==
    ASSUME NEW S, NEW s \in Seq(S), NEW k \in 0..Len(s)
    PROVE  /\ SubSeq(s, 1, k) \in Seq(S)
           /\ Len(SubSeq(s, 1, k)) = k
           /\ \A i \in 1..k : SubSeq(s, 1, k)[i] = s[i]
OBVIOUS

(* The id that is popped is in the table, and was in the list once.        *)
LEMMA PopKeeps ==
    ASSUME ThreadsInv, PopFinished
    PROVE  ThreadsInv'
<1> DEFINE n == Len(to_join)
<1>1. n \in Nat \ {0} /\ to_join \in Seq(Ids)
  BY DEF ThreadsInv, TypeOK, PopFinished
<1>2. /\ to_join' \in Seq(Ids)
      /\ Len(to_join') = n - 1
      /\ \A i \in 1..(n - 1) : to_join'[i] = to_join[i]
  <2> DEFINE k == n - 1
  <2>1. to_join' = SubSeq(to_join, 1, k) /\ k \in 0..Len(to_join)
    BY <1>1 DEF PopFinished
  <2> HIDE DEF k
  <2>2. /\ to_join' \in Seq(Ids)
        /\ Len(to_join') = k
        /\ \A i \in 1..k : to_join'[i] = to_join[i]
    BY <1>1, <2>1, Prefix
  <2> QED
    BY <2>2 DEF k
<1>3. joining' = to_join[n] /\ joining' \in Ids /\ n \in 1..n
  BY <1>1 DEF PopFinished
<1>4. TypeOK'
  BY <1>2, <1>3 DEF ThreadsInv, TypeOK, PopFinished, Ids
<1>5. JoinedOnce'
  <2>1. \A i \in 1..Len(to_join') : i \in 1..n /\ i # n
    BY <1>1, <1>2
  <2>2. joining' \in threads'
    BY <1>3 DEF ThreadsInv, JoinedOnce, PopFinished
  <2>3. \A i \in 1..Len(to_join') : to_join'[i] # joining'
    BY <1>2, <1>3, <2>1 DEF ThreadsInv, JoinedOnce, PopFinished
  <2>4. \A i \in 1..Len(to_join') :
            /\ to_join'[i] \in threads'
            /\ \A j \in 1..Len(to_join') : to_join'[i] = to_join'[j] => i = j
    BY <1>2, <2>1 DEF ThreadsInv, JoinedOnce, PopFinished
  <2>5. main' # "dead"
    BY DEF PopFinished
  <2> QED
    BY <2>2, <2>3, <2>4, <2>5 DEF JoinedOnce
<1>6. JoinIsShort'
  BY <1>3 DEF ThreadsInv, JoinIsShort, PopFinished
<1>7. \A i \in 1..Len(to_join') : thread'[to_join'[i]] \in {"listed", "ended"}
  BY <1>1, <1>2 DEF ThreadsInv, PopFinished
<1> QED
  BY <1>4, <1>5, <1>6, <1>7 DEF ThreadsInv, NoneForgotten, PopFinished

(* An empty list sends the accepting thread back to accept.                *)
LEMMA NoneKeeps ==
    ASSUME ThreadsInv, NoneFinished
    PROVE  ThreadsInv'
BY DEF ThreadsInv, TypeOK, NoneFinished, NoneForgotten, JoinedOnce, JoinIsShort

(* The thread that is joined has ended, and its id is nowhere in the list. *)
LEMMA JoinKeeps ==
    ASSUME ThreadsInv, JoinThread
    PROVE  ThreadsInv'
<1>1. joining \in threads /\ thread[joining] = "ended"
  BY DEF ThreadsInv, JoinedOnce, JoinThread
<1>2. TypeOK'
  BY <1>1 DEF ThreadsInv, TypeOK, JoinThread
<1>3. NoneForgotten'
  BY <1>1 DEF ThreadsInv, NoneForgotten, JoinThread
<1>4. JoinedOnce'
  BY <1>1 DEF ThreadsInv, JoinedOnce, JoinThread
<1> QED
  BY <1>1, <1>2, <1>3, <1>4 DEF ThreadsInv, JoinIsShort, JoinThread

(* A client that connects waits for accept.                                *)
LEMMA ConnectKeeps ==
    ASSUME ThreadsInv, ClientConnects
    PROVE  ThreadsInv'
BY ConnectionAssumption
DEF ConnectionAssumption, ThreadsInv, TypeOK, ClientConnects, NoneForgotten, JoinedOnce,
    JoinIsShort

(* A running thread is not listed, so it may leave its try block.          *)
LEMMA LeaveKeeps ==
    ASSUME ThreadsInv, NEW id \in Ids, LeaveTry(id)
    PROVE  ThreadsInv'
<1>1. TypeOK'
  BY DEF ThreadsInv, TypeOK, LeaveTry
<1>2. conn_id \in Int /\ \A k \in Ids : k \in Int
  BY DEF ThreadsInv, TypeOK, Ids
<1>3. \A k \in Ids : k >= conn_id => thread'[k] = "none"
  BY <1>2 DEF ThreadsInv, TypeOK, LeaveTry
<1>4. main = "start" => conn_id > 0 /\ thread'[conn_id - 1] = "created"
  BY DEF ThreadsInv, TypeOK, LeaveTry
<1>5. NoneForgotten'
  BY DEF ThreadsInv, TypeOK, LeaveTry, NoneForgotten
<1>6. JoinedOnce'
  BY DEF ThreadsInv, LeaveTry, JoinedOnce
<1>7. JoinIsShort'
  BY DEF ThreadsInv, TypeOK, LeaveTry, JoinIsShort
<1>8. \A i \in 1..Len(to_join') : thread'[to_join'[i]] \in {"listed", "ended"}
  BY DEF ThreadsInv, TypeOK, LeaveTry
<1> QED
  BY <1>1, <1>3, <1>4, <1>5, <1>6, <1>7, <1>8 DEF ThreadsInv, LeaveTry

(* A thread appends its id once, while the table still has it.             *)
LEMMA ListKeeps ==
    ASSUME ThreadsInv, NEW id \in Ids, ListThread(id)
    PROVE  ThreadsInv'
<1> DEFINE n == Len(to_join)
<1>1. thread[id] = "finally" /\ id \in threads
  BY DEF ThreadsInv, ListThread, NoneForgotten
<1>2. /\ n \in Nat
      /\ Len(to_join') = n + 1
      /\ to_join' \in Seq(Ids)
      /\ to_join'[n + 1] = id
      /\ \A i \in 1..n : to_join'[i] = to_join[i]
  BY DEF ThreadsInv, TypeOK, ListThread
<1>3. \A i \in 1..n : to_join[i] # id
  BY <1>1 DEF ThreadsInv
<1>4. /\ thread' = [thread EXCEPT ![id] = "listed"]
      /\ thread \in [Ids -> {"none", "created", "running", "finally", "listed", "ended"}]
  BY DEF ThreadsInv, TypeOK, ListThread
<1>5. TypeOK'
  BY <1>2, <1>4 DEF ThreadsInv, TypeOK, ListThread
<1>6. \A k \in Ids : k >= conn_id => thread'[k] = "none"
  BY <1>1, <1>4 DEF ThreadsInv
<1>7. main = "start" => conn_id > 0 /\ thread'[conn_id - 1] = "created"
  BY <1>1, <1>4 DEF ThreadsInv
<1>8. NoneForgotten'
  BY <1>1, <1>4 DEF ThreadsInv, NoneForgotten, ListThread
<1>9. main = "join" => joining # id
  BY <1>1 DEF ThreadsInv, JoinIsShort
<1>10. \A i \in 1..(n + 1) : i \in 1..n \/ i = n + 1
  BY <1>2
<1>11. JoinedOnce'
  BY <1>1, <1>2, <1>3, <1>9, <1>10 DEF ThreadsInv, JoinedOnce, ListThread
<1>12. JoinIsShort'
  BY <1>4 DEF ThreadsInv, JoinIsShort, ListThread
<1>13. \A i \in 1..Len(to_join') : thread'[to_join'[i]] \in {"listed", "ended"}
  <2>1. thread'[id] = "listed" /\ \A k \in Ids : k # id => thread'[k] = thread[k]
    BY <1>4
  <2>2. \A i \in 1..n : to_join[i] \in Ids
    BY ListedAreIds DEF ThreadsInv
  <2> QED
    BY <1>2, <1>3, <1>10, <2>1, <2>2 DEF ThreadsInv
<1> QED
  BY <1>5, <1>6, <1>7, <1>8, <1>11, <1>12, <1>13 DEF ThreadsInv, ListThread

(* A thread ends with its id listed.                                       *)
LEMMA EndKeeps ==
    ASSUME ThreadsInv, NEW id \in Ids, EndThread(id)
    PROVE  ThreadsInv'
<1>1. /\ thread' = [thread EXCEPT ![id] = "ended"]
      /\ thread \in [Ids -> {"none", "created", "running", "finally", "listed", "ended"}]
      /\ thread[id] = "listed"
  BY DEF ThreadsInv, TypeOK, EndThread
<1>2. TypeOK'
  BY <1>1 DEF ThreadsInv, TypeOK, EndThread
<1>3. \A k \in Ids : k >= conn_id => thread'[k] = "none"
  BY <1>1 DEF ThreadsInv
<1>4. main = "start" => conn_id > 0 /\ thread'[conn_id - 1] = "created"
  BY <1>1 DEF ThreadsInv
<1>5. NoneForgotten'
  BY <1>1 DEF ThreadsInv, NoneForgotten, EndThread
<1>6. JoinedOnce'
  BY DEF ThreadsInv, JoinedOnce, EndThread
<1>7. JoinIsShort'
  BY <1>1 DEF ThreadsInv, JoinIsShort, EndThread
<1>8. \A i \in 1..Len(to_join) : thread'[to_join[i]] \in {"listed", "ended"}
  BY <1>1, ListedAreIds DEF ThreadsInv
<1> QED
  BY <1>2, <1>3, <1>4, <1>5, <1>6, <1>7, <1>8 DEF ThreadsInv, EndThread

(* Every step keeps the invariant.                                         *)
LEMMA NextInv == ThreadsInv /\ [Next]_vars => ThreadsInv'
<1> SUFFICES ASSUME ThreadsInv, [Next]_vars PROVE ThreadsInv'
  OBVIOUS
<1>1. CASE UNCHANGED vars
  BY <1>1 DEF ThreadsInv, TypeOK, NoneForgotten, JoinedOnce, JoinIsShort, vars
<1> QED
  BY <1>1, AcceptKeeps, StartKeeps, PopKeeps, NoneKeeps, JoinKeeps, ConnectKeeps, LeaveKeeps,
     ListKeeps, EndKeeps
  DEF Next, MainStep, LastSteps

(* Whenever the threads of connections append to to_join while the         *)
(* accepting thread empties it, the table has every thread that is not     *)
(* over, the list names each finished thread once (join_finished_threads   *)
(* raises no KeyError), and only threads done with their connection are    *)
(* joined.                                                                 *)
THEOREM ThreadsInvariant == Spec => []ThreadsInv
<1>1. ThreadsInv /\ [Next]_vars => ThreadsInv'
  BY NextInv
<1> QED
  BY <1>1, InitInv, PTL DEF Spec

(* join_finished_threads finds every id it pops in the table, and pops     *)
(* none twice: its KeyError never ends the accepting thread.               *)
THEOREM NoKeyError == Spec => []JoinedOnce
<1>1. ThreadsInv => JoinedOnce
  BY DEF ThreadsInv
<1> QED
  BY <1>1, ThreadsInvariant, PTL

(* The join in join_finished_threads never waits for a client: the thread  *)
(* it waits for has appended its id and only has to return.                *)
THEOREM JoinsAreShort == Spec => []JoinIsShort
<1>1. ThreadsInv => JoinIsShort
  BY DEF ThreadsInv
<1> QED
  BY <1>1, ThreadsInvariant, PTL
=============================================================================

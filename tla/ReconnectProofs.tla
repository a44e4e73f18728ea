--------------------------- MODULE ReconnectProofs ---------------------------
(***************************************************************************)
(* Proofs about Reconnect, for any number of application threads and tasks *)
(* and any hints.                                                          *)
(***************************************************************************)
EXTENDS Reconnect, TLAPS

\* What shared_ptr gives: a thread inside the session is among its owners, and
\* the destructor runs only when there is none and none can come back.
Owned ==
    /\ \A t \in Threads : pc[t] \in Holding => t \in refs
    /\ \A t \in Threads : pc[t] \in Destroying => ~m_impl /\ refs = {}

\* An owner is inside the session; while the process lives, a session that is
\* not connected any more has an owner left or is being destroyed.  When it was
\* disconnected before it was deleted, that is the io thread, which comes back
\* to no handler.
Gone ==
    /\ \A t \in refs : pc[t] \in Holding \cup {"get_impl"}
    /\ Io \in refs => pc[Io] # "get_impl"
    /\ pc[Io] # "set_exit"
    /\ life = "live" /\ ~m_impl => refs # {} \/ \E t \in Threads : pc[t] \in Destroying
    /\ handle # "valid" =>
         ~m_impl /\ \A t \in Apps : pc[t] # "get_impl" /\ pc[t] # "set_exit"
    /\ handle = "deleted" /\ life = "live" =>
         /\ \A t \in Apps : pc[t] = "idle"
         /\ pc[Io] \in Holding \cup Destroying

\* The inductive invariant
IInv == TypeOK /\ SingleReconnect /\ Owned /\ Gone /\ NoUseAfterFree

\* The invariant holds when GA_connect has returned
LEMMA InitIInv == Init => IInv
  BY ThreadsAssumption DEF Init, IInv, TypeOK, SingleReconnect, Claiming, Running, Owned, Gone, NoUseAfterFree,
     Holding, Destroying, Threads

\* Types
LEMMA TypeStep ==
    ASSUME IInv, Next
    PROVE TypeOK'
PROOF
<1> USE ThreadsAssumption, HintsAssumption DEF IInv, TypeOK, control, link, facade, Holding, Destroying, Threads
<1>1. CASE NetChanges
  BY <1>1 DEF NetChanges
<1>2. CASE TransportDrops
  BY <1>2 DEF TransportDrops
<1>3. CASE PingTimerFires
  BY <1>3 DEF PingTimerFires, Goto
<1>4. CASE Rearm
  BY <1>4 DEF Rearm, Goto
<1>5. CASE PongTimeout
  BY <1>5 DEF PongTimeout, Goto
<1>6. ASSUME NEW t \in Threads, CallFails(t) PROVE TypeOK'
  BY <1>6 DEF CallFails, Goto
<1>7. ASSUME NEW t \in Threads, SessionDisconnect(t) PROVE TypeOK'
  BY <1>7 DEF SessionDisconnect, Goto
<1>8. ASSUME NEW t \in Threads, HintSetExit(t) PROVE TypeOK'
  BY <1>8 DEF HintSetExit, Goto
<1>9. ASSUME NEW t \in Threads, GetImpl(t) PROVE TypeOK'
  BY <1>9 DEF GetImpl, Goto
<1>10. ASSUME NEW t \in Threads, IsEnabled(t) PROVE TypeOK'
  BY <1>10 DEF IsEnabled, Goto
<1>11. ASSUME NEW t \in Threads, IsConnected(t) PROVE TypeOK'
  BY <1>11 DEF IsConnected, Goto
<1>12. ASSUME NEW t \in Threads, LoadFlag(t) PROVE TypeOK'
  BY <1>12 DEF LoadFlag, Goto
<1>13. ASSUME NEW t \in Threads, ExchangeFlag(t) PROVE TypeOK'
  BY <1>13 DEF ExchangeFlag, Goto
<1>14. ASSUME NEW t \in Threads, CancelTimer(t) PROVE TypeOK'
  BY <1>14 DEF CancelTimer, Goto
<1>15. ASSUME NEW t \in Threads, ResetExit(t) PROVE TypeOK'
  BY <1>15 DEF ResetExit, Goto
<1>16. ASSUME NEW t \in Threads, Release(t) PROVE TypeOK'
  BY <1>16 DEF Release, Goto
<1>17. ASSUME NEW t \in Threads, StopReconnect(t) PROVE TypeOK'
  BY <1>17 DEF StopReconnect, Goto
<1>18. ASSUME NEW t \in Threads, JoinPool(t) PROVE TypeOK'
  BY <1>18 DEF JoinPool, Goto
<1>19. ASSUME NEW t \in Threads, FinalDisconnect(t) PROVE TypeOK'
  BY <1>19 DEF FinalDisconnect, Goto, Disconnects
<1>20. ASSUME NEW t \in Threads, JoinIo(t) PROVE TypeOK'
  BY <1>20 DEF JoinIo, Goto
<1>21. ASSUME NEW t \in Threads, NEW k \in Tasks, PostTask(t, k) PROVE TypeOK'
  BY <1>21 DEF PostTask, Goto, TaskGoto
<1>22. ASSUME NEW t \in Threads, NEW option \in Hints, Hint(t, option) PROVE TypeOK'
  BY <1>22 DEF Hint, Goto
<1>23. ASSUME NEW k \in Tasks, Retrying(k) PROVE TypeOK'
  BY <1>23 DEF Retrying, TaskGoto
<1>24. ASSUME NEW k \in Tasks, TaskDisconnect(k) PROVE TypeOK'
  BY <1>24 DEF TaskDisconnect, TaskGoto, Disconnects
<1>25. ASSUME NEW k \in Tasks, TaskConnects(k) PROVE TypeOK'
  BY <1>25 DEF TaskConnects, TaskGoto
<1>26. ASSUME NEW k \in Tasks, TaskConnectFails(k) PROVE TypeOK'
  BY <1>26 DEF TaskConnectFails, TaskGoto
<1>27. ASSUME NEW k \in Tasks, ClearFlag(k) PROVE TypeOK'
  BY <1>27 DEF ClearFlag, TaskGoto
<1>28. ASSUME NEW k \in Tasks, TaskStartPing(k) PROVE TypeOK'
  BY <1>28 DEF TaskStartPing, TaskGoto
<1>29. ASSUME NEW t \in Threads, GA_destroy_session(t) PROVE TypeOK'
  BY <1>29 DEF GA_destroy_session, Goto
<1>30. ASSUME NEW t \in Threads, LoadsDeleted(t) PROVE TypeOK'
  BY <1>30 DEF LoadsDeleted, Goto
<1> QED
  BY <1>1, <1>2, <1>3, <1>4, <1>5, <1>6, <1>7, <1>8, <1>9, <1>10, <1>11, <1>12, <1>13, <1>14,
     <1>15, <1>16, <1>17, <1>18, <1>19, <1>20, <1>21, <1>22, <1>23, <1>24, <1>25, <1>26, <1>27, <1>28,
     <1>29, <1>30
  DEF Next, ThreadStep, Trying, TearingDown, TaskStep

\* Only ExchangeFlag claims, and only over a clear flag; PostTask hands the claim on
LEMMA SingleStep ==
    ASSUME IInv, Next
    PROVE SingleReconnect'
PROOF
<1> USE ThreadsAssumption DEF IInv, TypeOK, SingleReconnect, Claiming, Running, control, link, facade, Holding, Destroying, Threads
<1>1. CASE NetChanges
  BY <1>1 DEF NetChanges
<1>2. CASE TransportDrops
  BY <1>2 DEF TransportDrops
<1>3. CASE PingTimerFires
  BY <1>3 DEF PingTimerFires, Goto
<1>4. CASE Rearm
  BY <1>4 DEF Rearm, Goto
<1>5. CASE PongTimeout
  BY <1>5 DEF PongTimeout, Goto
<1>6. ASSUME NEW t \in Threads, CallFails(t) PROVE SingleReconnect'
  BY <1>6 DEF CallFails, Goto
<1>7. ASSUME NEW t \in Threads, SessionDisconnect(t) PROVE SingleReconnect'
  BY <1>7 DEF SessionDisconnect, Goto
<1>8. ASSUME NEW t \in Threads, HintSetExit(t) PROVE SingleReconnect'
  BY <1>8 DEF HintSetExit, Goto
<1>9. ASSUME NEW t \in Threads, GetImpl(t) PROVE SingleReconnect'
  BY <1>9 DEF GetImpl, Goto
<1>10. ASSUME NEW t \in Threads, IsEnabled(t) PROVE SingleReconnect'
  BY <1>10 DEF IsEnabled, Goto
<1>11. ASSUME NEW t \in Threads, IsConnected(t) PROVE SingleReconnect'
  BY <1>11 DEF IsConnected, Goto
<1>12. ASSUME NEW t \in Threads, LoadFlag(t) PROVE SingleReconnect'
  BY <1>12 DEF LoadFlag, Goto
<1>13. ASSUME NEW t \in Threads, ExchangeFlag(t) PROVE SingleReconnect'
  BY <1>13 DEF ExchangeFlag, Goto
<1>14. ASSUME NEW t \in Threads, CancelTimer(t) PROVE SingleReconnect'
  BY <1>14 DEF CancelTimer, Goto
<1>15. ASSUME NEW t \in Threads, ResetExit(t) PROVE SingleReconnect'
  BY <1>15 DEF ResetExit, Goto
<1>16. ASSUME NEW t \in Threads, Release(t) PROVE SingleReconnect'
  BY <1>16 DEF Release, Goto
<1>17. ASSUME NEW t \in Threads, StopReconnect(t) PROVE SingleReconnect'
  BY <1>17 DEF StopReconnect, Goto
<1>18. ASSUME NEW t \in Threads, JoinPool(t) PROVE SingleReconnect'
  BY <1>18 DEF JoinPool, Goto
<1>19. ASSUME NEW t \in Threads, FinalDisconnect(t) PROVE SingleReconnect'
  BY <1>19 DEF FinalDisconnect, Goto, Disconnects
<1>20. ASSUME NEW t \in Threads, JoinIo(t) PROVE SingleReconnect'
  BY <1>20 DEF JoinIo, Goto
<1>21. ASSUME NEW t \in Threads, NEW k \in Tasks, PostTask(t, k) PROVE SingleReconnect'
  BY <1>21 DEF PostTask, Goto, TaskGoto
<1>22. ASSUME NEW t \in Threads, NEW option \in Hints, Hint(t, option) PROVE SingleReconnect'
  BY <1>22 DEF Hint, Goto
<1>23. ASSUME NEW k \in Tasks, Retrying(k) PROVE SingleReconnect'
  BY <1>23 DEF Retrying, TaskGoto
<1>24. ASSUME NEW k \in Tasks, TaskDisconnect(k) PROVE SingleReconnect'
  BY <1>24 DEF TaskDisconnect, TaskGoto, Disconnects
<1>25. ASSUME NEW k \in Tasks, TaskConnects(k) PROVE SingleReconnect'
  BY <1>25 DEF TaskConnects, TaskGoto
<1>26. ASSUME NEW k \in Tasks, TaskConnectFails(k) PROVE SingleReconnect'
  BY <1>26 DEF TaskConnectFails, TaskGoto
<1>27. ASSUME NEW k \in Tasks, ClearFlag(k) PROVE SingleReconnect'
  BY <1>27 DEF ClearFlag, TaskGoto
<1>28. ASSUME NEW k \in Tasks, TaskStartPing(k) PROVE SingleReconnect'
  BY <1>28 DEF TaskStartPing, TaskGoto
<1>29. ASSUME NEW t \in Threads, GA_destroy_session(t) PROVE SingleReconnect'
  BY <1>29 DEF GA_destroy_session, Goto
<1>30. ASSUME NEW t \in Threads, LoadsDeleted(t) PROVE SingleReconnect'
  BY <1>30 DEF LoadsDeleted, Goto
<1> QED
  BY <1>1, <1>2, <1>3, <1>4, <1>5, <1>6, <1>7, <1>8, <1>9, <1>10, <1>11, <1>12, <1>13, <1>14,
     <1>15, <1>16, <1>17, <1>18, <1>19, <1>20, <1>21, <1>22, <1>23, <1>24, <1>25, <1>26, <1>27, <1>28,
     <1>29, <1>30
  DEF Next, ThreadStep, Trying, TearingDown, TaskStep

\* The last Release starts the destructor
LEMMA OwnedStep ==
    ASSUME IInv, Next
    PROVE Owned'
PROOF
<1> USE ThreadsAssumption DEF IInv, TypeOK, Owned, control, link, facade, Holding, Destroying, Threads
<1>1. CASE NetChanges
  BY <1>1 DEF NetChanges
<1>2. CASE TransportDrops
  BY <1>2 DEF TransportDrops
<1>3. CASE PingTimerFires
  BY <1>3 DEF PingTimerFires, Goto
<1>4. CASE Rearm
  BY <1>4 DEF Rearm, Goto
<1>5. CASE PongTimeout
  BY <1>5 DEF PongTimeout, Goto
<1>6. ASSUME NEW t \in Threads, CallFails(t) PROVE Owned'
  BY <1>6 DEF CallFails, Goto
<1>7. ASSUME NEW t \in Threads, SessionDisconnect(t) PROVE Owned'
  BY <1>7 DEF SessionDisconnect, Goto
<1>8. ASSUME NEW t \in Threads, HintSetExit(t) PROVE Owned'
  BY <1>8 DEF HintSetExit, Goto
<1>9. ASSUME NEW t \in Threads, GetImpl(t) PROVE Owned'
  BY <1>9 DEF GetImpl, Goto
<1>10. ASSUME NEW t \in Threads, IsEnabled(t) PROVE Owned'
  BY <1>10 DEF IsEnabled, Goto
<1>11. ASSUME NEW t \in Threads, IsConnected(t) PROVE Owned'
  BY <1>11 DEF IsConnected, Goto
<1>12. ASSUME NEW t \in Threads, LoadFlag(t) PROVE Owned'
  BY <1>12 DEF LoadFlag, Goto
<1>13. ASSUME NEW t \in Threads, ExchangeFlag(t) PROVE Owned'
  BY <1>13 DEF ExchangeFlag, Goto
<1>14. ASSUME NEW t \in Threads, CancelTimer(t) PROVE Owned'
  BY <1>14 DEF CancelTimer, Goto
<1>15. ASSUME NEW t \in Threads, ResetExit(t) PROVE Owned'
  BY <1>15 DEF ResetExit, Goto
<1>16. ASSUME NEW t \in Threads, Release(t) PROVE Owned'
  BY <1>16 DEF Release, Goto
<1>17. ASSUME NEW t \in Threads, StopReconnect(t) PROVE Owned'
  BY <1>17 DEF StopReconnect, Goto
<1>18. ASSUME NEW t \in Threads, JoinPool(t) PROVE Owned'
  BY <1>18 DEF JoinPool, Goto
<1>19. ASSUME NEW t \in Threads, FinalDisconnect(t) PROVE Owned'
  BY <1>19 DEF FinalDisconnect, Goto, Disconnects
<1>20. ASSUME NEW t \in Threads, JoinIo(t) PROVE Owned'
  BY <1>20 DEF JoinIo, Goto
<1>21. ASSUME NEW t \in Threads, NEW k \in Tasks, PostTask(t, k) PROVE Owned'
  BY <1>21 DEF PostTask, Goto, TaskGoto
<1>22. ASSUME NEW t \in Threads, NEW option \in Hints, Hint(t, option) PROVE Owned'
  BY <1>22 DEF Hint, Goto
<1>23. ASSUME NEW k \in Tasks, Retrying(k) PROVE Owned'
  BY <1>23 DEF Retrying, TaskGoto
<1>24. ASSUME NEW k \in Tasks, TaskDisconnect(k) PROVE Owned'
  BY <1>24 DEF TaskDisconnect, TaskGoto, Disconnects
<1>25. ASSUME NEW k \in Tasks, TaskConnects(k) PROVE Owned'
  BY <1>25 DEF TaskConnects, TaskGoto
<1>26. ASSUME NEW k \in Tasks, TaskConnectFails(k) PROVE Owned'
  BY <1>26 DEF TaskConnectFails, TaskGoto
<1>27. ASSUME NEW k \in Tasks, ClearFlag(k) PROVE Owned'
  BY <1>27 DEF ClearFlag, TaskGoto
<1>28. ASSUME NEW k \in Tasks, TaskStartPing(k) PROVE Owned'
  BY <1>28 DEF TaskStartPing, TaskGoto
<1>29. ASSUME NEW t \in Threads, GA_destroy_session(t) PROVE Owned'
  BY <1>29 DEF GA_destroy_session, Goto
<1>30. ASSUME NEW t \in Threads, LoadsDeleted(t) PROVE Owned'
  BY <1>30 DEF LoadsDeleted, Goto
<1> QED
  BY <1>1, <1>2, <1>3, <1>4, <1>5, <1>6, <1>7, <1>8, <1>9, <1>10, <1>11, <1>12, <1>13, <1>14,
     <1>15, <1>16, <1>17, <1>18, <1>19, <1>20, <1>21, <1>22, <1>23, <1>24, <1>25, <1>26, <1>27, <1>28,
     <1>29, <1>30
  DEF Next, ThreadStep, Trying, TearingDown, TaskStep

\* While the session is live, what no pointer holds is being destroyed; and the
\* io thread does not leave a deleted session but through the destructor
LEMMA GoneStep ==
    ASSUME IInv, Next
    PROVE Gone'
PROOF
<1> USE ThreadsAssumption DEF IInv, TypeOK, Owned, Gone, control, link, facade, Holding, Destroying, Threads
<1>1. CASE NetChanges
  BY <1>1 DEF NetChanges
<1>2. CASE TransportDrops
  BY <1>2 DEF TransportDrops
<1>3. CASE PingTimerFires
  BY <1>3 DEF PingTimerFires, Goto
<1>4. CASE Rearm
  BY <1>4 DEF Rearm, Goto
<1>5. CASE PongTimeout
  BY <1>5 DEF PongTimeout, Goto
<1>6. ASSUME NEW t \in Threads, CallFails(t) PROVE Gone'
  BY <1>6 DEF CallFails, Goto
<1>7. ASSUME NEW t \in Threads, SessionDisconnect(t) PROVE Gone'
  BY <1>7 DEF SessionDisconnect, Goto
<1>8. ASSUME NEW t \in Threads, HintSetExit(t) PROVE Gone'
  BY <1>8 DEF HintSetExit, Goto
<1>9. ASSUME NEW t \in Threads, GetImpl(t) PROVE Gone'
  BY <1>9 DEF GetImpl, Goto
<1>10. ASSUME NEW t \in Threads, IsEnabled(t) PROVE Gone'
  BY <1>10 DEF IsEnabled, Goto
<1>11. ASSUME NEW t \in Threads, IsConnected(t) PROVE Gone'
  BY <1>11 DEF IsConnected, Goto
<1>12. ASSUME NEW t \in Threads, LoadFlag(t) PROVE Gone'
  BY <1>12 DEF LoadFlag, Goto
<1>13. ASSUME NEW t \in Threads, ExchangeFlag(t) PROVE Gone'
  BY <1>13 DEF ExchangeFlag, Goto
<1>14. ASSUME NEW t \in Threads, CancelTimer(t) PROVE Gone'
  BY <1>14 DEF CancelTimer, Goto
<1>15. ASSUME NEW t \in Threads, ResetExit(t) PROVE Gone'
  BY <1>15 DEF ResetExit, Goto
<1>16. ASSUME NEW t \in Threads, Release(t) PROVE Gone'
  BY <1>16 DEF Release, Goto
<1>17. ASSUME NEW t \in Threads, StopReconnect(t) PROVE Gone'
  BY <1>17 DEF StopReconnect, Goto
<1>18. ASSUME NEW t \in Threads, JoinPool(t) PROVE Gone'
  BY <1>18 DEF JoinPool, Goto
<1>19. ASSUME NEW t \in Threads, FinalDisconnect(t) PROVE Gone'
  BY <1>19 DEF FinalDisconnect, Goto, Disconnects
<1>20. ASSUME NEW t \in Threads, JoinIo(t) PROVE Gone'
  BY <1>20 DEF JoinIo, Goto
<1>21. ASSUME NEW t \in Threads, NEW k \in Tasks, PostTask(t, k) PROVE Gone'
  BY <1>21 DEF PostTask, Goto, TaskGoto
<1>22. ASSUME NEW t \in Threads, NEW option \in Hints, Hint(t, option) PROVE Gone'
  BY <1>22 DEF Hint, Goto
<1>23. ASSUME NEW k \in Tasks, Retrying(k) PROVE Gone'
  BY <1>23 DEF Retrying, TaskGoto
<1>24. ASSUME NEW k \in Tasks, TaskDisconnect(k) PROVE Gone'
  BY <1>24 DEF TaskDisconnect, TaskGoto, Disconnects
<1>25. ASSUME NEW k \in Tasks, TaskConnects(k) PROVE Gone'
  BY <1>25 DEF TaskConnects, TaskGoto
<1>26. ASSUME NEW k \in Tasks, TaskConnectFails(k) PROVE Gone'
  BY <1>26 DEF TaskConnectFails, TaskGoto
<1>27. ASSUME NEW k \in Tasks, ClearFlag(k) PROVE Gone'
  BY <1>27 DEF ClearFlag, TaskGoto
<1>28. ASSUME NEW k \in Tasks, TaskStartPing(k) PROVE Gone'
  BY <1>28 DEF TaskStartPing, TaskGoto
<1>29. ASSUME NEW t \in Threads, GA_destroy_session(t) PROVE Gone'
  BY <1>29 DEF GA_destroy_session, Goto
<1>30. ASSUME NEW t \in Threads, LoadsDeleted(t) PROVE Gone'
  BY <1>30 DEF LoadsDeleted, Goto
<1> QED
  BY <1>1, <1>2, <1>3, <1>4, <1>5, <1>6, <1>7, <1>8, <1>9, <1>10, <1>11, <1>12, <1>13, <1>14,
     <1>15, <1>16, <1>17, <1>18, <1>19, <1>20, <1>21, <1>22, <1>23, <1>24, <1>25, <1>26, <1>27, <1>28,
     <1>29, <1>30
  DEF Next, ThreadStep, Trying, TearingDown, TaskStep

\* Tasks are posted by owners, so none appears once the destructor runs
LEMMA FreeStep ==
    ASSUME IInv, Next
    PROVE NoUseAfterFree'
PROOF
<1>0. life = "live"
  BY DEF Next
<1> USE ThreadsAssumption DEF IInv, TypeOK, Owned, NoUseAfterFree, control, link, facade, Holding, Destroying, Threads
<1>1. CASE NetChanges
  BY <1>1, <1>0 DEF NetChanges
<1>2. CASE TransportDrops
  BY <1>2, <1>0 DEF TransportDrops
<1>3. CASE PingTimerFires
  BY <1>3, <1>0 DEF PingTimerFires, Goto
<1>4. CASE Rearm
  BY <1>4, <1>0 DEF Rearm, Goto
<1>5. CASE PongTimeout
  BY <1>5, <1>0 DEF PongTimeout, Goto
<1>6. ASSUME NEW t \in Threads, CallFails(t) PROVE NoUseAfterFree'
  BY <1>6, <1>0 DEF CallFails, Goto
<1>7. ASSUME NEW t \in Threads, SessionDisconnect(t) PROVE NoUseAfterFree'
  BY <1>7, <1>0 DEF SessionDisconnect, Goto
<1>8. ASSUME NEW t \in Threads, HintSetExit(t) PROVE NoUseAfterFree'
  BY <1>8, <1>0 DEF HintSetExit, Goto
<1>9. ASSUME NEW t \in Threads, GetImpl(t) PROVE NoUseAfterFree'
  BY <1>9, <1>0 DEF GetImpl, Goto
<1>10. ASSUME NEW t \in Threads, IsEnabled(t) PROVE NoUseAfterFree'
  BY <1>10, <1>0 DEF IsEnabled, Goto
<1>11. ASSUME NEW t \in Threads, IsConnected(t) PROVE NoUseAfterFree'
  BY <1>11, <1>0 DEF IsConnected, Goto
<1>12. ASSUME NEW t \in Threads, LoadFlag(t) PROVE NoUseAfterFree'
  BY <1>12, <1>0 DEF LoadFlag, Goto
<1>13. ASSUME NEW t \in Threads, ExchangeFlag(t) PROVE NoUseAfterFree'
  BY <1>13, <1>0 DEF ExchangeFlag, Goto
<1>14. ASSUME NEW t \in Threads, CancelTimer(t) PROVE NoUseAfterFree'
  BY <1>14, <1>0 DEF CancelTimer, Goto
<1>15. ASSUME NEW t \in Threads, ResetExit(t) PROVE NoUseAfterFree'
  BY <1>15, <1>0 DEF ResetExit, Goto
<1>16. ASSUME NEW t \in Threads, Release(t) PROVE NoUseAfterFree'
  BY <1>16, <1>0 DEF Release, Goto
<1>17. ASSUME NEW t \in Threads, StopReconnect(t) PROVE NoUseAfterFree'
  BY <1>17, <1>0 DEF StopReconnect, Goto
<1>18. ASSUME NEW t \in Threads, JoinPool(t) PROVE NoUseAfterFree'
  BY <1>18, <1>0 DEF JoinPool, Goto
<1>19. ASSUME NEW t \in Threads, FinalDisconnect(t) PROVE NoUseAfterFree'
  BY <1>19, <1>0 DEF FinalDisconnect, Goto, Disconnects
<1>20. ASSUME NEW t \in Threads, JoinIo(t) PROVE NoUseAfterFree'
  BY <1>20, <1>0 DEF JoinIo, Goto
<1>21. ASSUME NEW t \in Threads, NEW k \in Tasks, PostTask(t, k) PROVE NoUseAfterFree'
  BY <1>21, <1>0 DEF PostTask, Goto, TaskGoto
<1>22. ASSUME NEW t \in Threads, NEW option \in Hints, Hint(t, option) PROVE NoUseAfterFree'
  BY <1>22, <1>0 DEF Hint, Goto
<1>23. ASSUME NEW k \in Tasks, Retrying(k) PROVE NoUseAfterFree'
  BY <1>23, <1>0 DEF Retrying, TaskGoto
<1>24. ASSUME NEW k \in Tasks, TaskDisconnect(k) PROVE NoUseAfterFree'
  BY <1>24, <1>0 DEF TaskDisconnect, TaskGoto, Disconnects
<1>25. ASSUME NEW k \in Tasks, TaskConnects(k) PROVE NoUseAfterFree'
  BY <1>25, <1>0 DEF TaskConnects, TaskGoto
<1>26. ASSUME NEW k \in Tasks, TaskConnectFails(k) PROVE NoUseAfterFree'
  BY <1>26, <1>0 DEF TaskConnectFails, TaskGoto
<1>27. ASSUME NEW k \in Tasks, ClearFlag(k) PROVE NoUseAfterFree'
  BY <1>27, <1>0 DEF ClearFlag, TaskGoto
<1>28. ASSUME NEW k \in Tasks, TaskStartPing(k) PROVE NoUseAfterFree'
  BY <1>28, <1>0 DEF TaskStartPing, TaskGoto
<1>29. ASSUME NEW t \in Threads, GA_destroy_session(t) PROVE NoUseAfterFree'
  BY <1>29, <1>0 DEF GA_destroy_session, Goto
<1>30. ASSUME NEW t \in Threads, LoadsDeleted(t) PROVE NoUseAfterFree'
  BY <1>30, <1>0 DEF LoadsDeleted, Goto, Gone
<1> QED
  BY <1>1, <1>2, <1>3, <1>4, <1>5, <1>6, <1>7, <1>8, <1>9, <1>10, <1>11, <1>12, <1>13, <1>14,
     <1>15, <1>16, <1>17, <1>18, <1>19, <1>20, <1>21, <1>22, <1>23, <1>24, <1>25, <1>26, <1>27, <1>28,
     <1>29, <1>30
  DEF Next, ThreadStep, Trying, TearingDown, TaskStep

\* The inductive invariant holds in every reachable state
LEMMA Inductive == Spec => []IInv
PROOF
<1>1. IInv /\ [Next]_vars => IInv'
  <2>1. ASSUME IInv, Next PROVE IInv'
    BY <2>1, TypeStep, SingleStep, OwnedStep, GoneStep, FreeStep DEF IInv
  <2>2. ASSUME IInv, UNCHANGED vars PROVE IInv'
    BY <2>2 DEF IInv, TypeOK, SingleReconnect, Claiming, Running, Owned, Gone, NoUseAfterFree, vars, control, link, facade
  <2> QED
    BY <2>1, <2>2
<1> QED
  BY InitIInv, <1>1, PTL DEF Spec

\* The types of the state, and that a wamp session lives on a transport.
THEOREM TypeCorrect == Spec => []TypeOK
PROOF
<1>1. IInv => TypeOK
  BY DEF IInv
<1> QED
  BY Inductive, <1>1, PTL

\* One reconnection at a time: set_reconnect's compare_exchange admits one of
\* any number of threads in try_reconnect, until its task clears the flag.
THEOREM OneReconnection == Spec => []SingleReconnect
PROOF
<1>1. IInv => SingleReconnect
  BY DEF IInv
<1> QED
  BY Inductive, <1>1, PTL

\* ~ga_session runs once, with no other thread inside the session, and leaves
\* no task and no handler behind that refers to it; and a GA_session that is
\* deleted is used only if it was deleted while connected.
THEOREM SafeDestruction == Spec => []NoUseAfterFree
PROOF
<1>1. IInv => NoUseAfterFree
  BY DEF IInv
<1> QED
  BY Inductive, <1>1, PTL
=============================================================================

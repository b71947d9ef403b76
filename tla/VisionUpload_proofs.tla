------------------------ MODULE VisionUpload_proofs ------------------------
(***************************************************************************)
(* What VisionUpload keeps for every number of pictures and sessions, also *)
(* when verdicts arrive on a later connection.                             *)
(***************************************************************************)
EXTENDS VisionUpload, TLAPS

\* Between the picture and the verdict the thread has a picture: what it asks
\* for and commits are pictures.
HasPicture ==
  pc \in {"session", "clearUpload", "sendRequest", "waitUpload", "put", "clearDone",
          "sendCommit", "waitDone"} => frame \in Pictures

TInv == RangesOK /\ HasPicture

LEMMA TypeInit == Init => TypeOK /\ HasPicture
<1>1. 0 \in 0 .. MaxFrames /\ 0 \in 0 .. MaxSessions
  BY VisionAssumption
<1>2. Init => FlagsOK /\ StoppedOK
  BY DEF Init, FlagsOK, StoppedOK
<1>3. Init => RangesOK /\ HasPicture
  BY <1>1 DEF Init, RangesOK, HasPicture
<1>4. QED
  BY <1>2, <1>3 DEF TypeOK

\* The Boolean variables.
LEMMA FlagsStep == FlagsOK /\ [Next]_vars => FlagsOK'
<1> SUFFICES ASSUME FlagsOK, [Next]_vars PROVE FlagsOK'
  OBVIOUS
<1> USE DEF FlagsOK, face, thread, session, main, server, history
<1>1. CASE LoopHead  BY <1>1 DEF LoopHead
<1>2. CASE Check  BY <1>2 DEF Check
<1>3. CASE TakePhoto  BY <1>3 DEF TakePhoto
<1>4. CASE TakeSession  BY <1>4 DEF TakeSession
<1>5. CASE ClearUpload  BY <1>5 DEF ClearUpload
<1>6. CASE SendRequest  BY <1>6 DEF SendRequest
<1>7. CASE WaitUpload  BY <1>7 DEF WaitUpload
<1>8. CASE PutPicture  BY <1>8 DEF PutPicture
<1>9. CASE ClearDone  BY <1>9 DEF ClearDone
<1>10. CASE SendCommit  BY <1>10 DEF SendCommit
<1>11. CASE WaitDone  BY <1>11 DEF WaitDone
<1>12. CASE Pause  BY <1>12 DEF Pause
<1>13. CASE Bind  BY <1>13 DEF Bind
<1>14. CASE StartFaces  BY <1>14 DEF StartFaces
<1>15. CASE StartUplink  BY <1>15 DEF StartUplink
<1>16. CASE StopFaces  BY <1>16 DEF StopFaces, Woken
<1>17. CASE JoinFaces  BY <1>17 DEF JoinFaces
<1>18. CASE ResetSession  BY <1>18 DEF ResetSession
<1>19. CASE Authenticate  BY <1>19 DEF Authenticate
<1>20. CASE GiveSession  BY <1>20 DEF GiveSession
<1>21. CASE TakeSessionBack  BY <1>21 DEF TakeSessionBack
<1>22. CASE CloseSession  BY <1>22 DEF CloseSession
<1>23. CASE RetryPause  BY <1>23 DEF RetryPause
<1>24. CASE UploadAnswered  BY <1>24 DEF UploadAnswered
<1>25. CASE DoneAnswered  BY <1>25 DEF DoneAnswered
<1>26. CASE SetActive  BY <1>26 DEF SetActive, Woken
<1>27. CASE SpuriousWakeup  BY <1>27 DEF SpuriousWakeup
<1>28. CASE Disconnect  BY <1>28 DEF Disconnect
<1>29. CASE Done  BY <1>29 DEF Done, vars
<1>30. CASE UNCHANGED vars  BY <1>30 DEF vars
<1>31. CASE EventNotify  BY <1>31 DEF EventNotify
<1>32. QED
  BY <1>1, <1>2, <1>3, <1>4, <1>5, <1>6, <1>7, <1>8, <1>9, <1>10, <1>11,
     <1>12, <1>13, <1>14, <1>15, <1>16, <1>17, <1>18, <1>19, <1>20, <1>21,
     <1>22, <1>23, <1>24, <1>25, <1>26, <1>27, <1>28, <1>29, <1>30, <1>31
  DEF Next, CaptureThread, MainThread, Server


\* The program counters, counters and sets, with the picture in hand.
LEMMA RangesStep == TInv /\ [Next]_vars => TInv'
<1> SUFFICES ASSUME TInv, [Next]_vars PROVE TInv'
  OBVIOUS
<1> USE DEF TInv, RangesOK, HasPicture, face, thread, session, main, server, history
<1>n. /\ frame < MaxFrames => frame + 1 \in 0 .. MaxFrames /\ frame + 1 \in Pictures
      /\ sessions < MaxSessions => sessions + 1 \in 0 .. MaxSessions
      /\ 0 \in 0 .. MaxFrames
      /\ \A f \in Pictures : f \in 0 .. MaxFrames
  BY VisionAssumption DEF Pictures
<1>1. CASE LoopHead  BY <1>1, <1>n DEF LoopHead
<1>2. CASE Check  BY <1>2, <1>n DEF Check
<1>3. CASE TakePhoto  BY <1>3, <1>n DEF TakePhoto
<1>4. CASE TakeSession  BY <1>4, <1>n DEF TakeSession
<1>5. CASE ClearUpload  BY <1>5, <1>n DEF ClearUpload
<1>6. CASE SendRequest  BY <1>6, <1>n DEF SendRequest
<1>7. CASE WaitUpload  BY <1>7, <1>n DEF WaitUpload
<1>8. CASE PutPicture  BY <1>8, <1>n DEF PutPicture
<1>9. CASE ClearDone  BY <1>9, <1>n DEF ClearDone
<1>10. CASE SendCommit  BY <1>10, <1>n DEF SendCommit
<1>11. CASE WaitDone  BY <1>11, <1>n DEF WaitDone
<1>12. CASE Pause  BY <1>12, <1>n DEF Pause
<1>13. CASE Bind  BY <1>13, <1>n DEF Bind
<1>14. CASE StartFaces  BY <1>14, <1>n DEF StartFaces
<1>15. CASE StartUplink  BY <1>15, <1>n DEF StartUplink
<1>16. CASE StopFaces  BY <1>16, <1>n DEF StopFaces, Woken
<1>17. CASE JoinFaces  BY <1>17, <1>n DEF JoinFaces
<1>18. CASE ResetSession  BY <1>18, <1>n DEF ResetSession
<1>19. CASE Authenticate  BY <1>19, <1>n DEF Authenticate
<1>20. CASE GiveSession  BY <1>20, <1>n DEF GiveSession
<1>21. CASE TakeSessionBack  BY <1>21, <1>n DEF TakeSessionBack
<1>22. CASE CloseSession  BY <1>22, <1>n DEF CloseSession
<1>23. CASE RetryPause  BY <1>23, <1>n DEF RetryPause
<1>24. CASE UploadAnswered  BY <1>24, <1>n DEF UploadAnswered
<1>25. CASE DoneAnswered  BY <1>25, <1>n DEF DoneAnswered
<1>26. CASE SetActive  BY <1>26, <1>n DEF SetActive, Woken
<1>27. CASE SpuriousWakeup  BY <1>27, <1>n DEF SpuriousWakeup
<1>28. CASE Disconnect  BY <1>28, <1>n DEF Disconnect
<1>29. CASE Done  BY <1>29, <1>n DEF Done, vars
<1>30. CASE UNCHANGED vars  BY <1>30 DEF vars
<1>31. CASE EventNotify  BY <1>31 DEF EventNotify
<1>32. QED
  BY <1>1, <1>2, <1>3, <1>4, <1>5, <1>6, <1>7, <1>8, <1>9, <1>10, <1>11,
     <1>12, <1>13, <1>14, <1>15, <1>16, <1>17, <1>18, <1>19, <1>20, <1>21,
     <1>22, <1>23, <1>24, <1>25, <1>26, <1>27, <1>28, <1>29, <1>30, <1>31
  DEF Next, CaptureThread, MainThread, Server

\* The running flag of a thread that is gone.
LEMMA StoppedStep == StoppedOK /\ [Next]_vars => StoppedOK'
<1> SUFFICES ASSUME StoppedOK, [Next]_vars PROVE StoppedOK'
  OBVIOUS
<1> USE DEF StoppedOK, face, thread, session, main, server, history
<1>1. CASE LoopHead  BY <1>1 DEF LoopHead
<1>2. CASE Check  BY <1>2 DEF Check
<1>3. CASE TakePhoto  BY <1>3 DEF TakePhoto
<1>4. CASE TakeSession  BY <1>4 DEF TakeSession
<1>5. CASE ClearUpload  BY <1>5 DEF ClearUpload
<1>6. CASE SendRequest  BY <1>6 DEF SendRequest
<1>7. CASE WaitUpload  BY <1>7 DEF WaitUpload
<1>8. CASE PutPicture  BY <1>8 DEF PutPicture
<1>9. CASE ClearDone  BY <1>9 DEF ClearDone
<1>10. CASE SendCommit  BY <1>10 DEF SendCommit
<1>11. CASE WaitDone  BY <1>11 DEF WaitDone
<1>12. CASE Pause  BY <1>12 DEF Pause
<1>13. CASE Bind  BY <1>13 DEF Bind
<1>14. CASE StartFaces  BY <1>14 DEF StartFaces
<1>15. CASE StartUplink  BY <1>15 DEF StartUplink
<1>16. CASE StopFaces  BY <1>16 DEF StopFaces, Woken
<1>17. CASE JoinFaces  BY <1>17 DEF JoinFaces
<1>18. CASE ResetSession  BY <1>18 DEF ResetSession
<1>19. CASE Authenticate  BY <1>19 DEF Authenticate
<1>20. CASE GiveSession  BY <1>20 DEF GiveSession
<1>21. CASE TakeSessionBack  BY <1>21 DEF TakeSessionBack
<1>22. CASE CloseSession  BY <1>22 DEF CloseSession
<1>23. CASE RetryPause  BY <1>23 DEF RetryPause
<1>24. CASE UploadAnswered  BY <1>24 DEF UploadAnswered
<1>25. CASE DoneAnswered  BY <1>25 DEF DoneAnswered
<1>26. CASE SetActive  BY <1>26 DEF SetActive, Woken
<1>27. CASE SpuriousWakeup  BY <1>27 DEF SpuriousWakeup
<1>28. CASE Disconnect  BY <1>28 DEF Disconnect
<1>29. CASE Done  BY <1>29 DEF Done, vars
<1>30. CASE UNCHANGED vars  BY <1>30 DEF vars
<1>31. CASE EventNotify  BY <1>31 DEF EventNotify
<1>32. QED
  BY <1>1, <1>2, <1>3, <1>4, <1>5, <1>6, <1>7, <1>8, <1>9, <1>10, <1>11,
     <1>12, <1>13, <1>14, <1>15, <1>16, <1>17, <1>18, <1>19, <1>20, <1>21,
     <1>22, <1>23, <1>24, <1>25, <1>26, <1>27, <1>28, <1>29, <1>30, <1>31
  DEF Next, CaptureThread, MainThread, Server


\* The wakeups: every step that ends the wait wakes the waiter.
LEMMA WakeupStep == NoLostWakeup /\ [Next]_vars => NoLostWakeup'
<1> SUFFICES ASSUME NoLostWakeup, [Next]_vars PROVE NoLostWakeup'
  OBVIOUS
<1> USE DEF NoLostWakeup, face, thread, session, main, server, history
<1>1. CASE LoopHead  BY <1>1 DEF LoopHead
<1>2. CASE Check  BY <1>2 DEF Check
<1>3. CASE TakePhoto  BY <1>3 DEF TakePhoto
<1>4. CASE TakeSession  BY <1>4 DEF TakeSession
<1>5. CASE ClearUpload  BY <1>5 DEF ClearUpload
<1>6. CASE SendRequest  BY <1>6 DEF SendRequest
<1>7. CASE WaitUpload  BY <1>7 DEF WaitUpload
<1>8. CASE PutPicture  BY <1>8 DEF PutPicture
<1>9. CASE ClearDone  BY <1>9 DEF ClearDone
<1>10. CASE SendCommit  BY <1>10 DEF SendCommit
<1>11. CASE WaitDone  BY <1>11 DEF WaitDone
<1>12. CASE Pause  BY <1>12 DEF Pause
<1>13. CASE Bind  BY <1>13 DEF Bind
<1>14. CASE StartFaces  BY <1>14 DEF StartFaces
<1>15. CASE StartUplink  BY <1>15 DEF StartUplink
<1>16. CASE StopFaces  BY <1>16 DEF StopFaces, Woken
<1>17. CASE JoinFaces  BY <1>17 DEF JoinFaces
<1>18. CASE ResetSession  BY <1>18 DEF ResetSession
<1>19. CASE Authenticate  BY <1>19 DEF Authenticate
<1>20. CASE GiveSession  BY <1>20 DEF GiveSession
<1>21. CASE TakeSessionBack  BY <1>21 DEF TakeSessionBack
<1>22. CASE CloseSession  BY <1>22 DEF CloseSession
<1>23. CASE RetryPause  BY <1>23 DEF RetryPause
<1>24. CASE UploadAnswered  BY <1>24 DEF UploadAnswered
<1>25. CASE DoneAnswered  BY <1>25 DEF DoneAnswered
<1>26. CASE SetActive  BY <1>26 DEF SetActive, Woken
<1>27. CASE SpuriousWakeup  BY <1>27 DEF SpuriousWakeup
<1>28. CASE Disconnect  BY <1>28 DEF Disconnect
<1>29. CASE Done  BY <1>29 DEF Done, vars
<1>30. CASE UNCHANGED vars  BY <1>30 DEF vars
<1>31. CASE EventNotify  BY <1>31 DEF EventNotify
<1>32. QED
  BY <1>1, <1>2, <1>3, <1>4, <1>5, <1>6, <1>7, <1>8, <1>9, <1>10, <1>11,
     <1>12, <1>13, <1>14, <1>15, <1>16, <1>17, <1>18, <1>19, <1>20, <1>21,
     <1>22, <1>23, <1>24, <1>25, <1>26, <1>27, <1>28, <1>29, <1>30, <1>31
  DEF Next, CaptureThread, MainThread, Server

\* What a filled verdict slot holds is a verdict of the server: this is what makes
\* VerdictIsGiven inductive.
SlotIsGiven == doneReady => doneFrame \in verdicts

VInv == SlotIsGiven /\ VerdictIsGiven

LEMMA VerdictStep == VInv /\ [Next]_vars => VInv'
<1> SUFFICES ASSUME VInv, [Next]_vars PROVE VInv'
  OBVIOUS
<1> USE DEF VInv, SlotIsGiven, VerdictIsGiven, face, thread, session, main, server, history
<1>1. CASE LoopHead  BY <1>1 DEF LoopHead
<1>2. CASE Check  BY <1>2 DEF Check
<1>3. CASE TakePhoto  BY <1>3 DEF TakePhoto
<1>4. CASE TakeSession  BY <1>4 DEF TakeSession
<1>5. CASE ClearUpload  BY <1>5 DEF ClearUpload
<1>6. CASE SendRequest  BY <1>6 DEF SendRequest
<1>7. CASE WaitUpload  BY <1>7 DEF WaitUpload
<1>8. CASE PutPicture  BY <1>8 DEF PutPicture
<1>9. CASE ClearDone  BY <1>9 DEF ClearDone
<1>10. CASE SendCommit  BY <1>10 DEF SendCommit
<1>11. CASE WaitDone  BY <1>11 DEF WaitDone
<1>12. CASE Pause  BY <1>12 DEF Pause
<1>13. CASE Bind  BY <1>13 DEF Bind
<1>14. CASE StartFaces  BY <1>14 DEF StartFaces
<1>15. CASE StartUplink  BY <1>15 DEF StartUplink
<1>16. CASE StopFaces  BY <1>16 DEF StopFaces, Woken
<1>17. CASE JoinFaces  BY <1>17 DEF JoinFaces
<1>18. CASE ResetSession  BY <1>18 DEF ResetSession
<1>19. CASE Authenticate  BY <1>19 DEF Authenticate
<1>20. CASE GiveSession  BY <1>20 DEF GiveSession
<1>21. CASE TakeSessionBack  BY <1>21 DEF TakeSessionBack
<1>22. CASE CloseSession  BY <1>22 DEF CloseSession
<1>23. CASE RetryPause  BY <1>23 DEF RetryPause
<1>24. CASE UploadAnswered  BY <1>24 DEF UploadAnswered
<1>25. CASE DoneAnswered  BY <1>25 DEF DoneAnswered
<1>26. CASE SetActive  BY <1>26 DEF SetActive, Woken
<1>27. CASE SpuriousWakeup  BY <1>27 DEF SpuriousWakeup
<1>28. CASE Disconnect  BY <1>28 DEF Disconnect
<1>29. CASE Done  BY <1>29 DEF Done, vars
<1>30. CASE UNCHANGED vars  BY <1>30 DEF vars
<1>31. CASE EventNotify  BY <1>31 DEF EventNotify
<1>32. QED
  BY <1>1, <1>2, <1>3, <1>4, <1>5, <1>6, <1>7, <1>8, <1>9, <1>10, <1>11,
     <1>12, <1>13, <1>14, <1>15, <1>16, <1>17, <1>18, <1>19, <1>20, <1>21,
     <1>22, <1>23, <1>24, <1>25, <1>26, <1>27, <1>28, <1>29, <1>30, <1>31
  DEF Next, CaptureThread, MainThread, Server

-----------------------------------------------------------------------------
\* Type correctness (the variables of the capture thread, the session and the
\* main loop stay in their ranges).
THEOREM TypeCorrect == Spec => []TypeOK
<1>1. FlagsOK /\ TInv /\ StoppedOK => TypeOK  BY DEF TInv, TypeOK
<1>2. Init => FlagsOK /\ TInv /\ StoppedOK  BY TypeInit DEF TInv, TypeOK
<1>3. QED  BY <1>1, <1>2, FlagsStep, RangesStep, StoppedStep, PTL DEF Spec

\* Every change that ends the capture thread's wait wakes it.
THEOREM WakesTheCamera == Spec => []NoLostWakeup
<1>1. Init => NoLostWakeup  BY DEF Init, NoLostWakeup
<1>2. QED  BY <1>1, WakeupStep, PTL DEF Spec

\* A picture is taken as done only after the server's verdict about it, for any
\* number of pictures, sessions and late verdicts.
THEOREM AcceptsOnlyVerdicts == Spec => []VerdictIsGiven
<1>1. Init => VInv  BY DEF Init, VInv, SlotIsGiven, VerdictIsGiven
<1>2. VInv => VerdictIsGiven  BY DEF VInv
<1>3. QED  BY <1>1, <1>2, VerdictStep, PTL DEF Spec
=============================================================================

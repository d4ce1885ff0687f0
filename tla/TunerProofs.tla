---------------------------- MODULE TunerProofs ----------------------------
(***************************************************************************)
(* Proofs about module Tuner, for every value of its constants.            *)
(*                                                                         *)
(* The invariant IInv is proved in layers, one lemma per conjunct and one  *)
(* step per action: types, control points, the claim, the expiry contexts, *)
(* the descriptors in each thread's hands, their single ownership, then    *)
(* what follows from ownership for the refresher, the park and the tuning. *)
(* A layer may use the earlier ones of the same state, never of the next.  *)
(***************************************************************************)
EXTENDS Tuner, TLAPS

\* Every operation a thread can start gives it a well-formed job.
LEMMA JobType ==
  ASSUME NEW k \in Kinds, NEW c \in Chans \cup {None}, NEW f \in Freqs \cup
       {None}
  PROVE  Job(k, c, f) \in Jobs
BY DEF Job, Jobs

\* An idle thread has a well-formed job.
LEMMA NoJobType == NoJob \in Jobs
BY JobType DEF NoJob, Kinds

\* A pull that has parked its frontend keeps a well-formed job: the expiry
\* ctx.
LEMMA ParkJobType == ASSUME NEW i \in Timers PROVE ParkJob(i) \in Jobs
BY DEF ParkJob, Jobs, Kinds

\* Claiming (tuner_try_claim) keeps the job well-formed.
LEMMA ClaimJobType == ASSUME NEW j \in Jobs PROVE ClaimJob(j) \in Jobs
BY DEF ClaimJob, Jobs

\* Every step keeps the threads' program points, jobs and return points in
\* their types.
LEMMA TypeControlStep == TypeOK /\ [Next]_vars => TypeControl'
<1> SUFFICES ASSUME TypeOK, [Next]_vars PROVE TypeControl'
  OBVIOUS
<1> USE TunerAssumption, JobType, NoJobType, ParkJobType, ClaimJobType
    DEF TypeOK, TypeControl, TypeFields, Pcs, ClaimedPcs, SharedPcs, Kinds, At,
        vars, tunerVars, selVars, scanVars, parkVars, statsVars, devVars,
        ctlVars, ownVars, devStep
<1>1. ASSUME NEW p \in Proc, Recheck(p) PROVE TypeControl'
  BY <1>1 DEF Recheck, Claim, WaitForClaim, Detach
<1>2. ASSUME NEW p \in Proc, WaitTimeout(p) PROVE TypeControl'
  BY <1>2 DEF WaitTimeout, Claim, Detach, Finish
<1>3. ASSUME NEW p \in Proc, OpenSession(p) PROVE TypeControl'
  BY <1>3 DEF OpenSession
<1>4. ASSUME NEW p \in Proc, StopStats(p) PROVE TypeControl'
  BY <1>4 DEF StopStats, Goto
<1>5. ASSUME NEW p \in Proc, JoinStats(p) PROVE TypeControl'
  BY <1>5 DEF JoinStats, Goto
<1>6. ASSUME NEW p \in Proc, ForgetStats(p) PROVE TypeControl'
  BY <1>6 DEF ForgetStats, Goto
<1>7. ASSUME NEW p \in Proc, DisposeHeld(p) PROVE TypeControl'
  BY <1>7 DEF DisposeHeld, Goto, FrontendClose, WantsFd
<1>8. ASSUME NEW p \in Proc, DisposeParked(p) PROVE TypeControl'
  BY <1>8 DEF DisposeParked, Goto, FrontendClose, WantsFd
<1>9. ASSUME NEW p \in Proc, AdoptFd(p) PROVE TypeControl'
  BY <1>9 DEF AdoptFd, Goto
<1>10. ASSUME NEW p \in Proc, OpenForStream(p) PROVE TypeControl'
  BY <1>10 DEF OpenForStream, Goto, FrontendOpen, FrontendRefused
<1>11. ASSUME NEW p \in Proc, TuneStream(p) PROVE TypeControl'
  BY <1>11 DEF TuneStream, Goto, CloseOwn, FrontendClose
<1>12. ASSUME NEW p \in Proc, LockStream(p) PROVE TypeControl'
  BY <1>12 DEF LockStream, Goto, CloseOwn, FrontendClose
<1>13. ASSUME NEW p \in Proc, ReopenStream(p) PROVE TypeControl'
  BY <1>13 DEF ReopenStream, Goto, FrontendOpen, FrontendRefused
<1>14. ASSUME NEW p \in Proc, RelockStream(p) PROVE TypeControl'
  BY <1>14 DEF RelockStream, Goto, CloseOwn, FrontendClose
<1>15. ASSUME NEW p \in Proc, Bind(p) PROVE TypeControl'
  BY <1>15 DEF Bind, Goto
<1>16. ASSUME NEW p \in Proc, SetStream(p) PROVE TypeControl'
  BY <1>16 DEF SetStream, Goto
<1>17. ASSUME NEW p \in Proc, Unbind(p) PROVE TypeControl'
  BY <1>17 DEF Unbind, Goto
<1>18. ASSUME NEW p \in Proc, Park(p) PROVE TypeControl'
  BY <1>18 DEF Park, Goto
<1>19. ASSUME NEW p \in Proc, Unpark(p) PROVE TypeControl'
  BY <1>19 DEF Unpark, Goto
<1>20. ASSUME NEW p \in Proc, ParkFd(p) PROVE TypeControl'
  BY <1>20 DEF ParkFd, FreeTo, Waiting
<1>21. ASSUME NEW p \in Proc, ParkFails(p) PROVE TypeControl'
  BY <1>21 DEF ParkFails, FreeTo, Waiting
<1>22. ASSUME NEW p \in Proc, ClosePark(p) PROVE TypeControl'
  BY <1>22 DEF ClosePark, CloseOwn, FrontendClose, Finish
<1>23. ASSUME NEW p \in Proc, StartTimer(p) PROVE TypeControl'
  BY <1>23 DEF StartTimer, Goto, Finish
<1>24. ASSUME NEW p \in Proc, Release(p) PROVE TypeControl'
  BY <1>24 DEF Release, Goto
<1>25. ASSUME NEW p \in Proc, CloseStream(p) PROVE TypeControl'
  BY <1>25 DEF CloseStream, Goto, CloseOwn, FrontendClose
<1>26. ASSUME NEW p \in Proc, Free(p) PROVE TypeControl'
  BY <1>26 DEF Free, FreeTo, Waiting
<1>27. ASSUME NEW p \in Proc, EnterHold(p) PROVE TypeControl'
  BY <1>27
      DEF EnterHold, Detach, HoldDone, Finish, Goto, CloseOwn, FrontendClose
<1>28. ASSUME NEW p \in Proc, OpenHold(p) PROVE TypeControl'
  BY <1>28 DEF OpenHold, FrontendOpen, FrontendRefused, HoldDone, Finish, Goto
<1>29. ASSUME NEW p \in Proc, TuneHold(p) PROVE TypeControl'
  BY <1>29 DEF TuneHold, Goto, CloseOwn, FrontendClose, HoldDone, Finish
<1>30. ASSUME NEW p \in Proc, InstallHold(p) PROVE TypeControl'
  BY <1>30 DEF InstallHold, CloseOwn, FrontendClose, HoldDone, Finish, Goto
<1>31. ASSUME NEW p \in Proc, Clear(p) PROVE TypeControl'
  BY <1>31 DEF Clear, Finish
<1>32. ASSUME NEW p \in Proc, OpenForScan(p) PROVE TypeControl'
  BY <1>32 DEF OpenForScan, Goto, FrontendOpen, FrontendRefused
<1>33. ASSUME NEW p \in Proc, BootDone(p) PROVE TypeControl'
  BY <1>33 DEF BootDone, Goto, CloseOwn, FrontendClose
<1>34. ASSUME NEW p \in Proc, ScanDrop(p) PROVE TypeControl'
  BY <1>34 DEF ScanDrop, Goto, CloseOwn, FrontendClose
<1>35. ASSUME NEW p \in Proc, ScanEnd(p) PROVE TypeControl'
  BY <1>35 DEF ScanEnd, Goto
<1>36. ASSUME NEW p \in Proc, BeginBoot(p) PROVE TypeControl'
  BY <1>36 DEF BeginBoot, Claim, WaitForClaim, Detach
<1>37. ASSUME NEW p \in Proc, BeginClear(p) PROVE TypeControl'
  BY <1>37 DEF BeginClear
<1>38. ASSUME NEW p \in Proc, EndStream(p) PROVE TypeControl'
  BY <1>38 DEF EndStream, Goto
<1>39. ASSUME NEW p \in Proc, ScanTune(p) PROVE TypeControl'
  BY <1>39 DEF ScanTune
<1>40. ASSUME NEW p \in Proc, ScanDone(p) PROVE TypeControl'
  BY <1>40 DEF ScanDone, Goto
<1>41. ASSUME NEW p \in Proc, NEW c \in Chans, NEW k \in {"pull", "push"},
     BeginStream(p, k, c)
     PROVE TypeControl'
  BY <1>41 DEF BeginStream, Claim, WaitForClaim, Detach
<1>42. ASSUME NEW p \in Proc, NEW c \in Chans, Select(p, c) PROVE TypeControl'
  BY <1>42 DEF Select
<1>43. ASSUME NEW p \in Proc, NEW f \in Freqs, ScanClaim(p, f)
     PROVE TypeControl'
  BY <1>43 DEF ScanClaim
<1>44. ASSUME NEW f \in Freqs, QueueChannel(f) PROVE TypeControl'
  BY <1>44 DEF QueueChannel
<1>45. ASSUME NEW i \in Timers, TimerExpire(i) PROVE TypeControl'
  BY <1>45 DEF TimerExpire
<1>46. ASSUME NEW i \in Timers, TimerClose(i) PROVE TypeControl'
  BY <1>46 DEF TimerClose, FrontendClose
<1>47. ASSUME Stats PROVE TypeControl'
  BY <1>47 DEF Stats, StatsStart, StatsRead, StatsWake, StatsMustStop
<1>48. CASE UNCHANGED vars
  BY <1>48 DEF vars, tunerVars
<1> HIDE
     DEF TypeOK, TypeControl, TypeFields, Pcs, ClaimedPcs, SharedPcs, Kinds, At
<1> QED
  BY <1>1, <1>2, <1>3, <1>4, <1>5, <1>6, <1>7, <1>8, <1>9, <1>10, <1>11,
       <1>12, <1>13, <1>14, <1>15, <1>16, <1>17, <1>18, <1>19, <1>20, <1>21,
       <1>22, <1>23, <1>24, <1>25, <1>26, <1>27, <1>28, <1>29, <1>30, <1>31,
       <1>32, <1>33, <1>34, <1>35, <1>36, <1>37, <1>38, <1>39, <1>40, <1>41,
       <1>42, <1>43, <1>44, <1>45, <1>46, <1>47, <1>48
      DEF Next, Step, Env, TimerStep

\* Every step keeps every descriptor variable a descriptor or None.
LEMMA TypeFdsStep == TypeOK /\ [Next]_vars => TypeFds'
<1> SUFFICES ASSUME TypeOK, [Next]_vars PROVE TypeFds'
  OBVIOUS
<1> USE TunerAssumption
    DEF TypeOK, TypeFds, At, vars, tunerVars, selVars, scanVars, parkVars,
        statsVars, devVars, ctlVars, ownVars, devStep
<1>1. ASSUME NEW p \in Proc, Recheck(p) PROVE TypeFds'
  BY <1>1 DEF Recheck, Claim, WaitForClaim, Detach
<1>2. ASSUME NEW p \in Proc, WaitTimeout(p) PROVE TypeFds'
  BY <1>2 DEF WaitTimeout, Claim, Detach, Finish
<1>3. ASSUME NEW p \in Proc, OpenSession(p) PROVE TypeFds'
  BY <1>3 DEF OpenSession
<1>4. ASSUME NEW p \in Proc, StopStats(p) PROVE TypeFds'
  BY <1>4 DEF StopStats, Goto
<1>5. ASSUME NEW p \in Proc, JoinStats(p) PROVE TypeFds'
  BY <1>5 DEF JoinStats, Goto
<1>6. ASSUME NEW p \in Proc, ForgetStats(p) PROVE TypeFds'
  BY <1>6 DEF ForgetStats, Goto
<1>7. ASSUME NEW p \in Proc, DisposeHeld(p) PROVE TypeFds'
  BY <1>7 DEF DisposeHeld, Goto, FrontendClose, WantsFd
<1>8. ASSUME NEW p \in Proc, DisposeParked(p) PROVE TypeFds'
  BY <1>8 DEF DisposeParked, Goto, FrontendClose, WantsFd
<1>9. ASSUME NEW p \in Proc, AdoptFd(p) PROVE TypeFds'
  BY <1>9 DEF AdoptFd, Goto
<1>10. ASSUME NEW p \in Proc, OpenForStream(p) PROVE TypeFds'
  BY <1>10 DEF OpenForStream, Goto, FrontendOpen, FrontendRefused
<1>11. ASSUME NEW p \in Proc, TuneStream(p) PROVE TypeFds'
  BY <1>11 DEF TuneStream, Goto, CloseOwn, FrontendClose
<1>12. ASSUME NEW p \in Proc, LockStream(p) PROVE TypeFds'
  BY <1>12 DEF LockStream, Goto, CloseOwn, FrontendClose
<1>13. ASSUME NEW p \in Proc, ReopenStream(p) PROVE TypeFds'
  BY <1>13 DEF ReopenStream, Goto, FrontendOpen, FrontendRefused
<1>14. ASSUME NEW p \in Proc, RelockStream(p) PROVE TypeFds'
  BY <1>14 DEF RelockStream, Goto, CloseOwn, FrontendClose
<1>15. ASSUME NEW p \in Proc, Bind(p) PROVE TypeFds'
  BY <1>15 DEF Bind, Goto
<1>16. ASSUME NEW p \in Proc, SetStream(p) PROVE TypeFds'
  BY <1>16 DEF SetStream, Goto
<1>17. ASSUME NEW p \in Proc, Unbind(p) PROVE TypeFds'
  BY <1>17 DEF Unbind, Goto
<1>18. ASSUME NEW p \in Proc, Park(p) PROVE TypeFds'
  BY <1>18 DEF Park, Goto
<1>19. ASSUME NEW p \in Proc, Unpark(p) PROVE TypeFds'
  BY <1>19 DEF Unpark, Goto
<1>20. ASSUME NEW p \in Proc, ParkFd(p) PROVE TypeFds'
  BY <1>20 DEF ParkFd, FreeTo, Waiting
<1>21. ASSUME NEW p \in Proc, ParkFails(p) PROVE TypeFds'
  BY <1>21 DEF ParkFails, FreeTo, Waiting
<1>22. ASSUME NEW p \in Proc, ClosePark(p) PROVE TypeFds'
  BY <1>22 DEF ClosePark, CloseOwn, FrontendClose, Finish
<1>23. ASSUME NEW p \in Proc, StartTimer(p) PROVE TypeFds'
  BY <1>23 DEF StartTimer, Goto, Finish
<1>24. ASSUME NEW p \in Proc, Release(p) PROVE TypeFds'
  BY <1>24 DEF Release, Goto
<1>25. ASSUME NEW p \in Proc, CloseStream(p) PROVE TypeFds'
  BY <1>25 DEF CloseStream, Goto, CloseOwn, FrontendClose
<1>26. ASSUME NEW p \in Proc, Free(p) PROVE TypeFds'
  BY <1>26 DEF Free, FreeTo, Waiting
<1>27. ASSUME NEW p \in Proc, EnterHold(p) PROVE TypeFds'
  BY <1>27
      DEF EnterHold, Detach, HoldDone, Finish, Goto, CloseOwn, FrontendClose
<1>28. ASSUME NEW p \in Proc, OpenHold(p) PROVE TypeFds'
  BY <1>28 DEF OpenHold, FrontendOpen, FrontendRefused, HoldDone, Finish, Goto
<1>29. ASSUME NEW p \in Proc, TuneHold(p) PROVE TypeFds'
  BY <1>29 DEF TuneHold, Goto, CloseOwn, FrontendClose, HoldDone, Finish
<1>30. ASSUME NEW p \in Proc, InstallHold(p) PROVE TypeFds'
  BY <1>30 DEF InstallHold, CloseOwn, FrontendClose, HoldDone, Finish, Goto
<1>31. ASSUME NEW p \in Proc, Clear(p) PROVE TypeFds'
  BY <1>31 DEF Clear, Finish
<1>32. ASSUME NEW p \in Proc, OpenForScan(p) PROVE TypeFds'
  BY <1>32 DEF OpenForScan, Goto, FrontendOpen, FrontendRefused
<1>33. ASSUME NEW p \in Proc, BootDone(p) PROVE TypeFds'
  BY <1>33 DEF BootDone, Goto, CloseOwn, FrontendClose
<1>34. ASSUME NEW p \in Proc, ScanDrop(p) PROVE TypeFds'
  BY <1>34 DEF ScanDrop, Goto, CloseOwn, FrontendClose
<1>35. ASSUME NEW p \in Proc, ScanEnd(p) PROVE TypeFds'
  BY <1>35 DEF ScanEnd, Goto
<1>36. ASSUME NEW p \in Proc, BeginBoot(p) PROVE TypeFds'
  BY <1>36 DEF BeginBoot, Claim, WaitForClaim, Detach
<1>37. ASSUME NEW p \in Proc, BeginClear(p) PROVE TypeFds'
  BY <1>37 DEF BeginClear
<1>38. ASSUME NEW p \in Proc, EndStream(p) PROVE TypeFds'
  BY <1>38 DEF EndStream, Goto
<1>39. ASSUME NEW p \in Proc, ScanTune(p) PROVE TypeFds'
  BY <1>39 DEF ScanTune
<1>40. ASSUME NEW p \in Proc, ScanDone(p) PROVE TypeFds'
  BY <1>40 DEF ScanDone, Goto
<1>41. ASSUME NEW p \in Proc, NEW c \in Chans, NEW k \in {"pull", "push"},
     BeginStream(p, k, c)
     PROVE TypeFds'
  BY <1>41 DEF BeginStream, Claim, WaitForClaim, Detach
<1>42. ASSUME NEW p \in Proc, NEW c \in Chans, Select(p, c) PROVE TypeFds'
  BY <1>42 DEF Select
<1>43. ASSUME NEW p \in Proc, NEW f \in Freqs, ScanClaim(p, f) PROVE TypeFds'
  BY <1>43 DEF ScanClaim
<1>44. ASSUME NEW f \in Freqs, QueueChannel(f) PROVE TypeFds'
  BY <1>44 DEF QueueChannel
<1>45. ASSUME NEW i \in Timers, TimerExpire(i) PROVE TypeFds'
  BY <1>45 DEF TimerExpire
<1>46. ASSUME NEW i \in Timers, TimerClose(i) PROVE TypeFds'
  BY <1>46 DEF TimerClose, FrontendClose
<1>47. ASSUME Stats PROVE TypeFds'
  BY <1>47 DEF Stats, StatsStart, StatsRead, StatsWake, StatsMustStop
<1>48. CASE UNCHANGED vars
  BY <1>48 DEF vars, tunerVars
<1> HIDE DEF TypeOK, TypeFds, At
<1> QED
  BY <1>1, <1>2, <1>3, <1>4, <1>5, <1>6, <1>7, <1>8, <1>9, <1>10, <1>11,
       <1>12, <1>13, <1>14, <1>15, <1>16, <1>17, <1>18, <1>19, <1>20, <1>21,
       <1>22, <1>23, <1>24, <1>25, <1>26, <1>27, <1>28, <1>29, <1>30, <1>31,
       <1>32, <1>33, <1>34, <1>35, <1>36, <1>37, <1>38, <1>39, <1>40, <1>41,
       <1>42, <1>43, <1>44, <1>45, <1>46, <1>47, <1>48
      DEF Next, Step, Env, TimerStep

\* Every step keeps the fields of struct hdhr_tuner, the refresher and the
\* timers in their types.
LEMMA TypeFieldsStep == TypeOK /\ [Next]_vars => TypeFields'
<1> SUFFICES ASSUME TypeOK, [Next]_vars PROVE TypeFields'
  OBVIOUS
<1> DEFINE Flags == /\ busy \in BOOLEAN /\ scan_worker_active \in BOOLEAN
                    /\ booted \in BOOLEAN /\ stats_started \in BOOLEAN
                    /\ stats_stop \in BOOLEAN
           Rest == /\ tuned \in Freqs \cup {None} /\ vch \in Chans \cup {None}
                   /\ rf \in Freqs \cup {None}
                   /\ session \in Proc \cup {None}
                   /\ park_current \in Timers \cup {None}
                   /\ stats_pc \in {"none", "start", "read", "sleep", "exited"}
                   /\ timer \in [Timers -> {"off", "ctx", "sleep", "close"}]
<1> USE TunerAssumption
    DEF TypeOK, TypeControl, TypeFields, Jobs, At, vars, tunerVars, selVars,
        scanVars, parkVars, statsVars, devVars, ctlVars, ownVars, devStep
<1>1. ASSUME NEW p \in Proc, Recheck(p) PROVE TypeFields'
  <2>1. Flags'
    BY <1>1, Zenon DEF Recheck, Claim, WaitForClaim, Detach
  <2>2. Rest'
    BY <1>1 DEF Recheck, Claim, WaitForClaim, Detach
  <2> QED
    BY <2>1, <2>2
<1>2. ASSUME NEW p \in Proc, WaitTimeout(p) PROVE TypeFields'
  <2>1. Flags'
    BY <1>2, Zenon DEF WaitTimeout, Claim, Detach, Finish
  <2>2. Rest'
    BY <1>2 DEF WaitTimeout, Claim, Detach, Finish
  <2> QED
    BY <2>1, <2>2
<1>3. ASSUME NEW p \in Proc, OpenSession(p) PROVE TypeFields'
  BY <1>3 DEF OpenSession
<1>4. ASSUME NEW p \in Proc, StopStats(p) PROVE TypeFields'
  BY <1>4 DEF StopStats, Goto
<1>5. ASSUME NEW p \in Proc, JoinStats(p) PROVE TypeFields'
  BY <1>5 DEF JoinStats, Goto
<1>6. ASSUME NEW p \in Proc, ForgetStats(p) PROVE TypeFields'
  <2>1. Flags'
    BY <1>6, Zenon DEF ForgetStats, Goto
  <2>2. Rest'
    BY <1>6 DEF ForgetStats, Goto
  <2> QED
    BY <2>1, <2>2
<1>7. ASSUME NEW p \in Proc, DisposeHeld(p) PROVE TypeFields'
  BY <1>7 DEF DisposeHeld, Goto, FrontendClose, WantsFd
<1>8. ASSUME NEW p \in Proc, DisposeParked(p) PROVE TypeFields'
  BY <1>8 DEF DisposeParked, Goto, FrontendClose, WantsFd
<1>9. ASSUME NEW p \in Proc, AdoptFd(p) PROVE TypeFields'
  BY <1>9 DEF AdoptFd, Goto
<1>10. ASSUME NEW p \in Proc, OpenForStream(p) PROVE TypeFields'
  BY <1>10 DEF OpenForStream, Goto, FrontendOpen, FrontendRefused
<1>11. ASSUME NEW p \in Proc, TuneStream(p) PROVE TypeFields'
  BY <1>11 DEF TuneStream, Goto, CloseOwn, FrontendClose
<1>12. ASSUME NEW p \in Proc, LockStream(p) PROVE TypeFields'
  BY <1>12 DEF LockStream, Goto, CloseOwn, FrontendClose
<1>13. ASSUME NEW p \in Proc, ReopenStream(p) PROVE TypeFields'
  BY <1>13 DEF ReopenStream, Goto, FrontendOpen, FrontendRefused
<1>14. ASSUME NEW p \in Proc, RelockStream(p) PROVE TypeFields'
  BY <1>14 DEF RelockStream, Goto, CloseOwn, FrontendClose
<1>15. ASSUME NEW p \in Proc, Bind(p) PROVE TypeFields'
  BY <1>15 DEF Bind, Goto
<1>16. ASSUME NEW p \in Proc, SetStream(p) PROVE TypeFields'
  BY <1>16 DEF SetStream, Goto
<1>17. ASSUME NEW p \in Proc, Unbind(p) PROVE TypeFields'
  BY <1>17 DEF Unbind, Goto
<1>18. ASSUME NEW p \in Proc, Park(p) PROVE TypeFields'
  BY <1>18 DEF Park, Goto
<1>19. ASSUME NEW p \in Proc, Unpark(p) PROVE TypeFields'
  BY <1>19 DEF Unpark, Goto
<1>20. ASSUME NEW p \in Proc, ParkFd(p) PROVE TypeFields'
  <2>1. Flags'
    BY <1>20, Zenon DEF ParkFd, FreeTo, Waiting
  <2>2. Rest'
    BY <1>20 DEF ParkFd, FreeTo, Waiting
  <2> QED
    BY <2>1, <2>2
<1>21. ASSUME NEW p \in Proc, ParkFails(p) PROVE TypeFields'
  <2>1. Flags'
    BY <1>21, Zenon DEF ParkFails, FreeTo, Waiting
  <2>2. Rest'
    BY <1>21 DEF ParkFails, FreeTo, Waiting
  <2> QED
    BY <2>1, <2>2
<1>22. ASSUME NEW p \in Proc, ClosePark(p) PROVE TypeFields'
  BY <1>22 DEF ClosePark, CloseOwn, FrontendClose, Finish
<1>23. ASSUME NEW p \in Proc, StartTimer(p) PROVE TypeFields'
  BY <1>23 DEF StartTimer, Goto, Finish
<1>24. ASSUME NEW p \in Proc, Release(p) PROVE TypeFields'
  BY <1>24 DEF Release, Goto
<1>25. ASSUME NEW p \in Proc, CloseStream(p) PROVE TypeFields'
  BY <1>25 DEF CloseStream, Goto, CloseOwn, FrontendClose
<1>26. ASSUME NEW p \in Proc, Free(p) PROVE TypeFields'
  <2>1. Flags'
    BY <1>26, Zenon DEF Free, FreeTo, Waiting
  <2>2. Rest'
    BY <1>26 DEF Free, FreeTo, Waiting
  <2> QED
    BY <2>1, <2>2
<1>27. ASSUME NEW p \in Proc, EnterHold(p) PROVE TypeFields'
  BY <1>27
      DEF EnterHold, Detach, HoldDone, Finish, Goto, CloseOwn, FrontendClose
<1>28. ASSUME NEW p \in Proc, OpenHold(p) PROVE TypeFields'
  BY <1>28 DEF OpenHold, FrontendOpen, FrontendRefused, HoldDone, Finish, Goto
<1>29. ASSUME NEW p \in Proc, TuneHold(p) PROVE TypeFields'
  BY <1>29 DEF TuneHold, Goto, CloseOwn, FrontendClose, HoldDone, Finish
<1>30. ASSUME NEW p \in Proc, InstallHold(p) PROVE TypeFields'
  <2>1. Flags'
    BY <1>30, Zenon DEF InstallHold, CloseOwn, FrontendClose, HoldDone, Finish, Goto
  <2>2. Rest'
    BY <1>30 DEF InstallHold, CloseOwn, FrontendClose, HoldDone, Finish, Goto
  <2> QED
    BY <2>1, <2>2
<1>31. ASSUME NEW p \in Proc, Clear(p) PROVE TypeFields'
  BY <1>31 DEF Clear, Finish
<1>32. ASSUME NEW p \in Proc, OpenForScan(p) PROVE TypeFields'
  BY <1>32 DEF OpenForScan, Goto, FrontendOpen, FrontendRefused
<1>33. ASSUME NEW p \in Proc, BootDone(p) PROVE TypeFields'
  BY <1>33 DEF BootDone, Goto, CloseOwn, FrontendClose
<1>34. ASSUME NEW p \in Proc, ScanDrop(p) PROVE TypeFields'
  BY <1>34 DEF ScanDrop, Goto, CloseOwn, FrontendClose
<1>35. ASSUME NEW p \in Proc, ScanEnd(p) PROVE TypeFields'
  <2>1. Flags'
    BY <1>35, Zenon DEF ScanEnd, Goto
  <2>2. Rest'
    BY <1>35 DEF ScanEnd, Goto
  <2> QED
    BY <2>1, <2>2
<1>36. ASSUME NEW p \in Proc, BeginBoot(p) PROVE TypeFields'
  BY <1>36 DEF BeginBoot, Claim, WaitForClaim, Detach
<1>37. ASSUME NEW p \in Proc, BeginClear(p) PROVE TypeFields'
  BY <1>37 DEF BeginClear
<1>38. ASSUME NEW p \in Proc, EndStream(p) PROVE TypeFields'
  BY <1>38 DEF EndStream, Goto
<1>39. ASSUME NEW p \in Proc, ScanTune(p) PROVE TypeFields'
  BY <1>39 DEF ScanTune
<1>40. ASSUME NEW p \in Proc, ScanDone(p) PROVE TypeFields'
  BY <1>40 DEF ScanDone, Goto
<1>41. ASSUME NEW p \in Proc, NEW c \in Chans, NEW k \in {"pull", "push"},
     BeginStream(p, k, c)
     PROVE TypeFields'
  <2>1. UNCHANGED booted
    BY <1>41 DEF BeginStream
  <2>2. CASE Claim(p, Job(k, c, FreqOf[c]))
    BY <2>1, <2>2 DEF Claim, Detach
  <2>3. CASE WaitForClaim(p, Job(k, c, FreqOf[c]))
    BY <2>1, <2>3 DEF WaitForClaim
  <2> QED
    BY <1>41, <2>2, <2>3 DEF BeginStream
<1>42. ASSUME NEW p \in Proc, NEW c \in Chans, Select(p, c) PROVE TypeFields'
  BY <1>42 DEF Select
<1>43. ASSUME NEW p \in Proc, NEW f \in Freqs, ScanClaim(p, f)
     PROVE TypeFields'
  BY <1>43 DEF ScanClaim
<1>44. ASSUME NEW f \in Freqs, QueueChannel(f) PROVE TypeFields'
  BY <1>44 DEF QueueChannel
<1>45. ASSUME NEW i \in Timers, TimerExpire(i) PROVE TypeFields'
  BY <1>45 DEF TimerExpire
<1>46. ASSUME NEW i \in Timers, TimerClose(i) PROVE TypeFields'
  BY <1>46 DEF TimerClose, FrontendClose
<1>47. ASSUME Stats PROVE TypeFields'
  BY <1>47 DEF Stats, StatsStart, StatsRead, StatsWake, StatsMustStop
<1>48. CASE UNCHANGED vars
  BY <1>48 DEF vars, tunerVars
<1> HIDE DEF TypeOK, TypeControl, TypeFields, Jobs, At
<1> QED
  BY <1>1, <1>2, <1>3, <1>4, <1>5, <1>6, <1>7, <1>8, <1>9, <1>10, <1>11,
       <1>12, <1>13, <1>14, <1>15, <1>16, <1>17, <1>18, <1>19, <1>20, <1>21,
       <1>22, <1>23, <1>24, <1>25, <1>26, <1>27, <1>28, <1>29, <1>30, <1>31,
       <1>32, <1>33, <1>34, <1>35, <1>36, <1>37, <1>38, <1>39, <1>40, <1>41,
       <1>42, <1>43, <1>44, <1>45, <1>46, <1>47, <1>48
      DEF Next, Step, Env, TimerStep

\* Every step preserves the type invariant.
LEMMA TypeStep == TypeOK /\ [Next]_vars => TypeOK'
BY TypeControlStep, TypeFdsStep, TypeFieldsStep DEF TypeOK

\* Every step leaves each thread at a program point its operation can reach.
LEMMA ControlStep == TypeOK /\ ControlInv /\ [Next]_vars => ControlInv'
<1> SUFFICES ASSUME TypeOK, ControlInv, [Next]_vars PROVE ControlInv'
  OBVIOUS
<1> USE TunerAssumption
    DEF Jobs, Job, NoJob, ParkJob, ClaimJob, TypeOK, TypeControl, ControlInv,
        Streams, ClaimKinds, StreamPcs, Disposing, Pcs, ClaimedPcs, SharedPcs,
        At, vars, tunerVars, selVars, scanVars, parkVars, statsVars, devVars,
        ctlVars, ownVars, devStep
<1>1. ASSUME NEW p \in Proc, Recheck(p) PROVE ControlInv'
  BY <1>1 DEF Recheck, Claim, WaitForClaim, Detach
<1>2. ASSUME NEW p \in Proc, WaitTimeout(p) PROVE ControlInv'
  BY <1>2 DEF WaitTimeout, Claim, Detach, Finish
<1>3. ASSUME NEW p \in Proc, OpenSession(p) PROVE ControlInv'
  BY <1>3 DEF OpenSession
<1>4. ASSUME NEW p \in Proc, StopStats(p) PROVE ControlInv'
  BY <1>4 DEF StopStats, Goto
<1>5. ASSUME NEW p \in Proc, JoinStats(p) PROVE ControlInv'
  BY <1>5 DEF JoinStats, Goto
<1>6. ASSUME NEW p \in Proc, ForgetStats(p) PROVE ControlInv'
  BY <1>6 DEF ForgetStats, Goto
<1>7. ASSUME NEW p \in Proc, DisposeHeld(p) PROVE ControlInv'
  BY <1>7 DEF DisposeHeld, Goto, FrontendClose, WantsFd
<1>8. ASSUME NEW p \in Proc, DisposeParked(p) PROVE ControlInv'
  BY <1>8 DEF DisposeParked, Goto, FrontendClose, WantsFd
<1>9. ASSUME NEW p \in Proc, AdoptFd(p) PROVE ControlInv'
  BY <1>9 DEF AdoptFd, Goto
<1>10. ASSUME NEW p \in Proc, OpenForStream(p) PROVE ControlInv'
  BY <1>10 DEF OpenForStream, Goto, FrontendOpen, FrontendRefused
<1>11. ASSUME NEW p \in Proc, TuneStream(p) PROVE ControlInv'
  BY <1>11 DEF TuneStream, Goto, CloseOwn, FrontendClose
<1>12. ASSUME NEW p \in Proc, LockStream(p) PROVE ControlInv'
  BY <1>12 DEF LockStream, Goto, CloseOwn, FrontendClose
<1>13. ASSUME NEW p \in Proc, ReopenStream(p) PROVE ControlInv'
  BY <1>13 DEF ReopenStream, Goto, FrontendOpen, FrontendRefused
<1>14. ASSUME NEW p \in Proc, RelockStream(p) PROVE ControlInv'
  BY <1>14 DEF RelockStream, Goto, CloseOwn, FrontendClose
<1>15. ASSUME NEW p \in Proc, Bind(p) PROVE ControlInv'
  BY <1>15 DEF Bind, Goto
<1>16. ASSUME NEW p \in Proc, SetStream(p) PROVE ControlInv'
  BY <1>16 DEF SetStream, Goto
<1>17. ASSUME NEW p \in Proc, Unbind(p) PROVE ControlInv'
  BY <1>17 DEF Unbind, Goto
<1>18. ASSUME NEW p \in Proc, Park(p) PROVE ControlInv'
  BY <1>18 DEF Park, Goto
<1>19. ASSUME NEW p \in Proc, Unpark(p) PROVE ControlInv'
  BY <1>19 DEF Unpark, Goto
<1>20. ASSUME NEW p \in Proc, ParkFd(p) PROVE ControlInv'
  BY <1>20 DEF ParkFd, FreeTo, Waiting
<1>21. ASSUME NEW p \in Proc, ParkFails(p) PROVE ControlInv'
  BY <1>21 DEF ParkFails, FreeTo, Waiting
<1>22. ASSUME NEW p \in Proc, ClosePark(p) PROVE ControlInv'
  BY <1>22 DEF ClosePark, CloseOwn, FrontendClose, Finish
<1>23. ASSUME NEW p \in Proc, StartTimer(p) PROVE ControlInv'
  BY <1>23 DEF StartTimer, Goto, Finish
<1>24. ASSUME NEW p \in Proc, Release(p) PROVE ControlInv'
  BY <1>24 DEF Release, Goto
<1>25. ASSUME NEW p \in Proc, CloseStream(p) PROVE ControlInv'
  BY <1>25 DEF CloseStream, Goto, CloseOwn, FrontendClose
<1>26. ASSUME NEW p \in Proc, Free(p) PROVE ControlInv'
  BY <1>26 DEF Free, FreeTo, Waiting
<1>27. ASSUME NEW p \in Proc, EnterHold(p) PROVE ControlInv'
  <2>1. CASE active_stream # None
    BY <1>27, <2>1 DEF EnterHold, HoldDone, Finish, Goto
  <2>2. CASE active_stream = None
    BY <1>27, <2>2 DEF EnterHold, Detach
  <2> QED
    BY <2>1, <2>2
<1>28. ASSUME NEW p \in Proc, OpenHold(p) PROVE ControlInv'
  BY <1>28 DEF OpenHold, FrontendOpen, FrontendRefused, HoldDone, Finish, Goto
<1>29. ASSUME NEW p \in Proc, TuneHold(p) PROVE ControlInv'
  BY <1>29 DEF TuneHold, Goto, CloseOwn, FrontendClose, HoldDone, Finish
<1>30. ASSUME NEW p \in Proc, InstallHold(p) PROVE ControlInv'
  BY <1>30 DEF InstallHold, CloseOwn, FrontendClose, HoldDone, Finish, Goto
<1>31. ASSUME NEW p \in Proc, Clear(p) PROVE ControlInv'
  BY <1>31 DEF Clear, Finish
<1>32. ASSUME NEW p \in Proc, OpenForScan(p) PROVE ControlInv'
  BY <1>32 DEF OpenForScan, Goto, FrontendOpen, FrontendRefused
<1>33. ASSUME NEW p \in Proc, BootDone(p) PROVE ControlInv'
  BY <1>33 DEF BootDone, Goto, CloseOwn, FrontendClose
<1>34. ASSUME NEW p \in Proc, ScanDrop(p) PROVE ControlInv'
  BY <1>34 DEF ScanDrop, Goto, CloseOwn, FrontendClose
<1>35. ASSUME NEW p \in Proc, ScanEnd(p) PROVE ControlInv'
  BY <1>35 DEF ScanEnd, Goto
<1>36. ASSUME NEW p \in Proc, BeginBoot(p) PROVE ControlInv'
  <2> DEFINE j == Job("boot", None, None)
  <2>1. CASE Claim(p, j)
    BY <1>36, <2>1 DEF BeginBoot, Claim, Detach
  <2>2. CASE WaitForClaim(p, j)
    BY <1>36, <2>2 DEF BeginBoot, WaitForClaim
  <2> QED
    BY <1>36, <2>1, <2>2 DEF BeginBoot
<1>37. ASSUME NEW p \in Proc, BeginClear(p) PROVE ControlInv'
  BY <1>37 DEF BeginClear
<1>38. ASSUME NEW p \in Proc, EndStream(p) PROVE ControlInv'
  BY <1>38 DEF EndStream, Goto
<1>39. ASSUME NEW p \in Proc, ScanTune(p) PROVE ControlInv'
  BY <1>39 DEF ScanTune
<1>40. ASSUME NEW p \in Proc, ScanDone(p) PROVE ControlInv'
  BY <1>40 DEF ScanDone, Goto
<1>41. ASSUME NEW p \in Proc, NEW c \in Chans, NEW k \in {"pull", "push"},
     BeginStream(p, k, c)
     PROVE ControlInv'
  BY <1>41 DEF BeginStream, Claim, WaitForClaim, Detach
<1>42. ASSUME NEW p \in Proc, NEW c \in Chans, Select(p, c) PROVE ControlInv'
  BY <1>42 DEF Select
<1>43. ASSUME NEW p \in Proc, NEW f \in Freqs, ScanClaim(p, f)
     PROVE ControlInv'
  BY <1>43 DEF ScanClaim
<1>44. ASSUME NEW f \in Freqs, QueueChannel(f) PROVE ControlInv'
  BY <1>44 DEF QueueChannel
<1>45. ASSUME NEW i \in Timers, TimerExpire(i) PROVE ControlInv'
  BY <1>45 DEF TimerExpire
<1>46. ASSUME NEW i \in Timers, TimerClose(i) PROVE ControlInv'
  BY <1>46 DEF TimerClose, FrontendClose
<1>47. ASSUME Stats PROVE ControlInv'
  BY <1>47 DEF Stats, StatsStart, StatsRead, StatsWake, StatsMustStop
<1>48. CASE UNCHANGED vars
  BY <1>48 DEF vars, tunerVars
<1> HIDE
     DEF Jobs, Job, NoJob, ParkJob, ClaimJob, TypeOK, TypeControl, ControlInv,
         Streams, ClaimKinds, StreamPcs, Disposing, Pcs, ClaimedPcs, SharedPcs,
         At
<1> QED
  BY <1>1, <1>2, <1>3, <1>4, <1>5, <1>6, <1>7, <1>8, <1>9, <1>10, <1>11,
       <1>12, <1>13, <1>14, <1>15, <1>16, <1>17, <1>18, <1>19, <1>20, <1>21,
       <1>22, <1>23, <1>24, <1>25, <1>26, <1>27, <1>28, <1>29, <1>30, <1>31,
       <1>32, <1>33, <1>34, <1>35, <1>36, <1>37, <1>38, <1>39, <1>40, <1>41,
       <1>42, <1>43, <1>44, <1>45, <1>46, <1>47, <1>48
      DEF Next, Step, Env, TimerStep

\* Every step preserves the exclusivity of busy: it is set exactly while one
\* thread is at a program point that owns the claim.
LEMMA ClaimStep ==
  TypeOK /\ ControlInv /\ ClaimExclusive /\ [Next]_vars
    => ClaimExclusive'
<1> SUFFICES ASSUME TypeOK, ControlInv, ClaimExclusive, [Next]_vars
     PROVE ClaimExclusive'
  OBVIOUS
<1> USE TunerAssumption
    DEF Job, NoJob, ParkJob, ClaimJob, ClaimExclusive, HasClaim, TypeOK,
        TypeControl, ControlInv, Streams, ClaimKinds, StreamPcs, Disposing, Pcs,
        ClaimedPcs, SharedPcs, At, vars, tunerVars, selVars, scanVars, parkVars,
        statsVars, devVars, ctlVars, ownVars, devStep
<1>1. ASSUME NEW p \in Proc, Recheck(p) PROVE ClaimExclusive'
  BY <1>1 DEF Recheck, Claim, WaitForClaim, Detach
<1>2. ASSUME NEW p \in Proc, WaitTimeout(p) PROVE ClaimExclusive'
  BY <1>2 DEF WaitTimeout, Claim, Detach, Finish
<1>3. ASSUME NEW p \in Proc, OpenSession(p) PROVE ClaimExclusive'
  BY <1>3 DEF OpenSession
<1>4. ASSUME NEW p \in Proc, StopStats(p) PROVE ClaimExclusive'
  BY <1>4 DEF StopStats, Goto
<1>5. ASSUME NEW p \in Proc, JoinStats(p) PROVE ClaimExclusive'
  BY <1>5 DEF JoinStats, Goto
<1>6. ASSUME NEW p \in Proc, ForgetStats(p) PROVE ClaimExclusive'
  BY <1>6 DEF ForgetStats, Goto
<1>7. ASSUME NEW p \in Proc, DisposeHeld(p) PROVE ClaimExclusive'
  BY <1>7 DEF DisposeHeld, Goto, FrontendClose, WantsFd
<1>8. ASSUME NEW p \in Proc, DisposeParked(p) PROVE ClaimExclusive'
  BY <1>8 DEF DisposeParked, Goto, FrontendClose, WantsFd
<1>9. ASSUME NEW p \in Proc, AdoptFd(p) PROVE ClaimExclusive'
  BY <1>9 DEF AdoptFd, Goto
<1>10. ASSUME NEW p \in Proc, OpenForStream(p) PROVE ClaimExclusive'
  BY <1>10 DEF OpenForStream, Goto, FrontendOpen, FrontendRefused
<1>11. ASSUME NEW p \in Proc, TuneStream(p) PROVE ClaimExclusive'
  BY <1>11 DEF TuneStream, Goto, CloseOwn, FrontendClose
<1>12. ASSUME NEW p \in Proc, LockStream(p) PROVE ClaimExclusive'
  BY <1>12 DEF LockStream, Goto, CloseOwn, FrontendClose
<1>13. ASSUME NEW p \in Proc, ReopenStream(p) PROVE ClaimExclusive'
  BY <1>13 DEF ReopenStream, Goto, FrontendOpen, FrontendRefused
<1>14. ASSUME NEW p \in Proc, RelockStream(p) PROVE ClaimExclusive'
  BY <1>14 DEF RelockStream, Goto, CloseOwn, FrontendClose
<1>15. ASSUME NEW p \in Proc, Bind(p) PROVE ClaimExclusive'
  BY <1>15 DEF Bind, Goto
<1>16. ASSUME NEW p \in Proc, SetStream(p) PROVE ClaimExclusive'
  BY <1>16 DEF SetStream, Goto
<1>17. ASSUME NEW p \in Proc, Unbind(p) PROVE ClaimExclusive'
  BY <1>17 DEF Unbind, Goto
<1>18. ASSUME NEW p \in Proc, Park(p) PROVE ClaimExclusive'
  BY <1>18 DEF Park, Goto
<1>19. ASSUME NEW p \in Proc, Unpark(p) PROVE ClaimExclusive'
  BY <1>19 DEF Unpark, Goto
<1>20. ASSUME NEW p \in Proc, ParkFd(p) PROVE ClaimExclusive'
  BY <1>20 DEF ParkFd, FreeTo, Waiting
<1>21. ASSUME NEW p \in Proc, ParkFails(p) PROVE ClaimExclusive'
  BY <1>21 DEF ParkFails, FreeTo, Waiting
<1>22. ASSUME NEW p \in Proc, ClosePark(p) PROVE ClaimExclusive'
  BY <1>22 DEF ClosePark, CloseOwn, FrontendClose, Finish
<1>23. ASSUME NEW p \in Proc, StartTimer(p) PROVE ClaimExclusive'
  BY <1>23 DEF StartTimer, Goto, Finish
<1>24. ASSUME NEW p \in Proc, Release(p) PROVE ClaimExclusive'
  BY <1>24 DEF Release, Goto
<1>25. ASSUME NEW p \in Proc, CloseStream(p) PROVE ClaimExclusive'
  BY <1>25 DEF CloseStream, Goto, CloseOwn, FrontendClose
<1>26. ASSUME NEW p \in Proc, Free(p) PROVE ClaimExclusive'
  BY <1>26 DEF Free, FreeTo, Waiting
<1>27. ASSUME NEW p \in Proc, EnterHold(p) PROVE ClaimExclusive'
  BY <1>27
      DEF EnterHold, Detach, HoldDone, Finish, Goto, CloseOwn, FrontendClose
<1>28. ASSUME NEW p \in Proc, OpenHold(p) PROVE ClaimExclusive'
  BY <1>28 DEF OpenHold, FrontendOpen, FrontendRefused, HoldDone, Finish, Goto
<1>29. ASSUME NEW p \in Proc, TuneHold(p) PROVE ClaimExclusive'
  BY <1>29 DEF TuneHold, Goto, CloseOwn, FrontendClose, HoldDone, Finish
<1>30. ASSUME NEW p \in Proc, InstallHold(p) PROVE ClaimExclusive'
  BY <1>30 DEF InstallHold, CloseOwn, FrontendClose, HoldDone, Finish, Goto
<1>31. ASSUME NEW p \in Proc, Clear(p) PROVE ClaimExclusive'
  BY <1>31 DEF Clear, Finish
<1>32. ASSUME NEW p \in Proc, OpenForScan(p) PROVE ClaimExclusive'
  BY <1>32 DEF OpenForScan, Goto, FrontendOpen, FrontendRefused
<1>33. ASSUME NEW p \in Proc, BootDone(p) PROVE ClaimExclusive'
  BY <1>33 DEF BootDone, Goto, CloseOwn, FrontendClose
<1>34. ASSUME NEW p \in Proc, ScanDrop(p) PROVE ClaimExclusive'
  BY <1>34 DEF ScanDrop, Goto, CloseOwn, FrontendClose
<1>35. ASSUME NEW p \in Proc, ScanEnd(p) PROVE ClaimExclusive'
  BY <1>35 DEF ScanEnd, Goto
<1>36. ASSUME NEW p \in Proc, BeginBoot(p) PROVE ClaimExclusive'
  BY <1>36 DEF BeginBoot, Claim, WaitForClaim, Detach
<1>37. ASSUME NEW p \in Proc, BeginClear(p) PROVE ClaimExclusive'
  BY <1>37 DEF BeginClear
<1>38. ASSUME NEW p \in Proc, EndStream(p) PROVE ClaimExclusive'
  BY <1>38 DEF EndStream, Goto
<1>39. ASSUME NEW p \in Proc, ScanTune(p) PROVE ClaimExclusive'
  BY <1>39 DEF ScanTune
<1>40. ASSUME NEW p \in Proc, ScanDone(p) PROVE ClaimExclusive'
  BY <1>40 DEF ScanDone, Goto
<1>41. ASSUME NEW p \in Proc, NEW c \in Chans, NEW k \in {"pull", "push"},
     BeginStream(p, k, c)
     PROVE ClaimExclusive'
  BY <1>41 DEF BeginStream, Claim, WaitForClaim, Detach
<1>42. ASSUME NEW p \in Proc, NEW c \in Chans, Select(p, c)
     PROVE ClaimExclusive'
  BY <1>42 DEF Select
<1>43. ASSUME NEW p \in Proc, NEW f \in Freqs, ScanClaim(p, f)
     PROVE ClaimExclusive'
  BY <1>43 DEF ScanClaim
<1>44. ASSUME NEW f \in Freqs, QueueChannel(f) PROVE ClaimExclusive'
  BY <1>44 DEF QueueChannel
<1>45. ASSUME NEW i \in Timers, TimerExpire(i) PROVE ClaimExclusive'
  BY <1>45 DEF TimerExpire
<1>46. ASSUME NEW i \in Timers, TimerClose(i) PROVE ClaimExclusive'
  BY <1>46 DEF TimerClose, FrontendClose
<1>47. ASSUME Stats PROVE ClaimExclusive'
  BY <1>47 DEF Stats, StatsStart, StatsRead, StatsWake, StatsMustStop
<1>48. CASE UNCHANGED vars
  BY <1>48 DEF vars, tunerVars
<1> HIDE
     DEF Job, NoJob, ParkJob, ClaimJob, ClaimExclusive, HasClaim, TypeOK,
         TypeControl, ControlInv, Streams, ClaimKinds, StreamPcs, Disposing,
         Pcs, ClaimedPcs, SharedPcs, At
<1> QED
  BY <1>1, <1>2, <1>3, <1>4, <1>5, <1>6, <1>7, <1>8, <1>9, <1>10, <1>11,
       <1>12, <1>13, <1>14, <1>15, <1>16, <1>17, <1>18, <1>19, <1>20, <1>21,
       <1>22, <1>23, <1>24, <1>25, <1>26, <1>27, <1>28, <1>29, <1>30, <1>31,
       <1>32, <1>33, <1>34, <1>35, <1>36, <1>37, <1>38, <1>39, <1>40, <1>41,
       <1>42, <1>43, <1>44, <1>45, <1>46, <1>47, <1>48
      DEF Next, Step, Env, TimerStep

\* Every step leaves an allocated expiry ctx with one thread until its timer
\* starts.
LEMMA TimerStepInv == TypeOK /\ TimerInv /\ [Next]_vars => TimerInv'
<1> SUFFICES ASSUME TypeOK, TimerInv, [Next]_vars PROVE TimerInv'
  OBVIOUS
<1> USE TunerAssumption
    DEF TypeOK, TypeControl, TypeFields, TimerInv, Job, NoJob, ParkJob,
        ClaimJob, At, vars, tunerVars, selVars, scanVars, parkVars, statsVars,
        devVars, ctlVars, ownVars, devStep
<1>1. ASSUME NEW p \in Proc, Recheck(p) PROVE TimerInv'
  BY <1>1 DEF Recheck, Claim, WaitForClaim, Detach
<1>2. ASSUME NEW p \in Proc, WaitTimeout(p) PROVE TimerInv'
  BY <1>2 DEF WaitTimeout, Claim, Detach, Finish
<1>3. ASSUME NEW p \in Proc, OpenSession(p) PROVE TimerInv'
  BY <1>3 DEF OpenSession
<1>4. ASSUME NEW p \in Proc, StopStats(p) PROVE TimerInv'
  BY <1>4 DEF StopStats, Goto
<1>5. ASSUME NEW p \in Proc, JoinStats(p) PROVE TimerInv'
  BY <1>5 DEF JoinStats, Goto
<1>6. ASSUME NEW p \in Proc, ForgetStats(p) PROVE TimerInv'
  BY <1>6 DEF ForgetStats, Goto
<1>7. ASSUME NEW p \in Proc, DisposeHeld(p) PROVE TimerInv'
  BY <1>7 DEF DisposeHeld, Goto, FrontendClose, WantsFd
<1>8. ASSUME NEW p \in Proc, DisposeParked(p) PROVE TimerInv'
  BY <1>8 DEF DisposeParked, Goto, FrontendClose, WantsFd
<1>9. ASSUME NEW p \in Proc, AdoptFd(p) PROVE TimerInv'
  BY <1>9 DEF AdoptFd, Goto
<1>10. ASSUME NEW p \in Proc, OpenForStream(p) PROVE TimerInv'
  BY <1>10 DEF OpenForStream, Goto, FrontendOpen, FrontendRefused
<1>11. ASSUME NEW p \in Proc, TuneStream(p) PROVE TimerInv'
  BY <1>11 DEF TuneStream, Goto, CloseOwn, FrontendClose
<1>12. ASSUME NEW p \in Proc, LockStream(p) PROVE TimerInv'
  BY <1>12 DEF LockStream, Goto, CloseOwn, FrontendClose
<1>13. ASSUME NEW p \in Proc, ReopenStream(p) PROVE TimerInv'
  BY <1>13 DEF ReopenStream, Goto, FrontendOpen, FrontendRefused
<1>14. ASSUME NEW p \in Proc, RelockStream(p) PROVE TimerInv'
  BY <1>14 DEF RelockStream, Goto, CloseOwn, FrontendClose
<1>15. ASSUME NEW p \in Proc, Bind(p) PROVE TimerInv'
  BY <1>15 DEF Bind, Goto
<1>16. ASSUME NEW p \in Proc, SetStream(p) PROVE TimerInv'
  BY <1>16 DEF SetStream, Goto
<1>17. ASSUME NEW p \in Proc, Unbind(p) PROVE TimerInv'
  BY <1>17 DEF Unbind, Goto
<1>18. ASSUME NEW p \in Proc, Park(p) PROVE TimerInv'
  BY <1>18 DEF Park, Goto
<1>19. ASSUME NEW p \in Proc, Unpark(p) PROVE TimerInv'
  BY <1>19 DEF Unpark, Goto
<1>20. ASSUME NEW p \in Proc, ParkFd(p) PROVE TimerInv'
  BY <1>20 DEF ParkFd, FreeTo, Waiting
<1>21. ASSUME NEW p \in Proc, ParkFails(p) PROVE TimerInv'
  BY <1>21 DEF ParkFails, FreeTo, Waiting
<1>22. ASSUME NEW p \in Proc, ClosePark(p) PROVE TimerInv'
  BY <1>22 DEF ClosePark, CloseOwn, FrontendClose, Finish
<1>23. ASSUME NEW p \in Proc, StartTimer(p) PROVE TimerInv'
  BY <1>23 DEF StartTimer, Goto, Finish
<1>24. ASSUME NEW p \in Proc, Release(p) PROVE TimerInv'
  BY <1>24 DEF Release, Goto
<1>25. ASSUME NEW p \in Proc, CloseStream(p) PROVE TimerInv'
  BY <1>25 DEF CloseStream, Goto, CloseOwn, FrontendClose
<1>26. ASSUME NEW p \in Proc, Free(p) PROVE TimerInv'
  BY <1>26 DEF Free, FreeTo, Waiting
<1>27. ASSUME NEW p \in Proc, EnterHold(p) PROVE TimerInv'
  BY <1>27
      DEF EnterHold, Detach, HoldDone, Finish, Goto, CloseOwn, FrontendClose
<1>28. ASSUME NEW p \in Proc, OpenHold(p) PROVE TimerInv'
  BY <1>28 DEF OpenHold, FrontendOpen, FrontendRefused, HoldDone, Finish, Goto
<1>29. ASSUME NEW p \in Proc, TuneHold(p) PROVE TimerInv'
  BY <1>29 DEF TuneHold, Goto, CloseOwn, FrontendClose, HoldDone, Finish
<1>30. ASSUME NEW p \in Proc, InstallHold(p) PROVE TimerInv'
  BY <1>30 DEF InstallHold, CloseOwn, FrontendClose, HoldDone, Finish, Goto
<1>31. ASSUME NEW p \in Proc, Clear(p) PROVE TimerInv'
  BY <1>31 DEF Clear, Finish
<1>32. ASSUME NEW p \in Proc, OpenForScan(p) PROVE TimerInv'
  BY <1>32 DEF OpenForScan, Goto, FrontendOpen, FrontendRefused
<1>33. ASSUME NEW p \in Proc, BootDone(p) PROVE TimerInv'
  BY <1>33 DEF BootDone, Goto, CloseOwn, FrontendClose
<1>34. ASSUME NEW p \in Proc, ScanDrop(p) PROVE TimerInv'
  BY <1>34 DEF ScanDrop, Goto, CloseOwn, FrontendClose
<1>35. ASSUME NEW p \in Proc, ScanEnd(p) PROVE TimerInv'
  BY <1>35 DEF ScanEnd, Goto
<1>36. ASSUME NEW p \in Proc, BeginBoot(p) PROVE TimerInv'
  BY <1>36 DEF BeginBoot, Claim, WaitForClaim, Detach
<1>37. ASSUME NEW p \in Proc, BeginClear(p) PROVE TimerInv'
  BY <1>37 DEF BeginClear
<1>38. ASSUME NEW p \in Proc, EndStream(p) PROVE TimerInv'
  BY <1>38 DEF EndStream, Goto
<1>39. ASSUME NEW p \in Proc, ScanTune(p) PROVE TimerInv'
  BY <1>39 DEF ScanTune
<1>40. ASSUME NEW p \in Proc, ScanDone(p) PROVE TimerInv'
  BY <1>40 DEF ScanDone, Goto
<1>41. ASSUME NEW p \in Proc, NEW c \in Chans, NEW k \in {"pull", "push"},
     BeginStream(p, k, c)
     PROVE TimerInv'
  BY <1>41 DEF BeginStream, Claim, WaitForClaim, Detach
<1>42. ASSUME NEW p \in Proc, NEW c \in Chans, Select(p, c) PROVE TimerInv'
  BY <1>42 DEF Select
<1>43. ASSUME NEW p \in Proc, NEW f \in Freqs, ScanClaim(p, f) PROVE TimerInv'
  BY <1>43 DEF ScanClaim
<1>44. ASSUME NEW f \in Freqs, QueueChannel(f) PROVE TimerInv'
  BY <1>44 DEF QueueChannel
<1>45. ASSUME NEW i \in Timers, TimerExpire(i) PROVE TimerInv'
  BY <1>45 DEF TimerExpire
<1>46. ASSUME NEW i \in Timers, TimerClose(i) PROVE TimerInv'
  BY <1>46 DEF TimerClose, FrontendClose
<1>47. ASSUME Stats PROVE TimerInv'
  BY <1>47 DEF Stats, StatsStart, StatsRead, StatsWake, StatsMustStop
<1>48. CASE UNCHANGED vars
  BY <1>48 DEF vars, tunerVars
<1> HIDE
     DEF TypeOK, TypeControl, TypeFields, TimerInv, Job, NoJob, ParkJob,
         ClaimJob, At
<1> QED
  BY <1>1, <1>2, <1>3, <1>4, <1>5, <1>6, <1>7, <1>8, <1>9, <1>10, <1>11,
       <1>12, <1>13, <1>14, <1>15, <1>16, <1>17, <1>18, <1>19, <1>20, <1>21,
       <1>22, <1>23, <1>24, <1>25, <1>26, <1>27, <1>28, <1>29, <1>30, <1>31,
       <1>32, <1>33, <1>34, <1>35, <1>36, <1>37, <1>38, <1>39, <1>40, <1>41,
       <1>42, <1>43, <1>44, <1>45, <1>46, <1>47, <1>48
      DEF Next, Step, Env, TimerStep

\* Every step leaves in each thread's hands exactly the descriptors its
\* program point says; a served stream stays installed until its thread takes
\* it back.
LEMMA HandsStep ==
  TypeOK /\ ControlInv /\ ClaimExclusive /\ TimerInv /\ HandsInv /\ SoleOwner
    /\ [Next]_vars
    => HandsInv'
<1> SUFFICES ASSUME TypeOK, ControlInv, ClaimExclusive, TimerInv, HandsInv,
     SoleOwner, [Next]_vars
     PROVE HandsInv'
  OBVIOUS
<1> USE TunerAssumption
    DEF TypeOK, TypeControl, TypeFds, TypeFields, TimerInv, ControlInv,
        ClaimExclusive, HasClaim, ClaimedPcs, SharedPcs, ClaimKinds, HandsInv,
        WithFd, Disposing, SoleOwner, EmptyHanded, NoThreadFd, NoTimerFd,
        Streams, StreamPcs, At, Job, NoJob, ParkJob, ClaimJob, vars, tunerVars,
        selVars, scanVars, parkVars, statsVars, devVars, ctlVars, ownVars,
        devStep
<1>1. ASSUME NEW p \in Proc, Recheck(p) PROVE HandsInv'
  BY <1>1 DEF Recheck, Claim, WaitForClaim, Detach
<1>2. ASSUME NEW p \in Proc, WaitTimeout(p) PROVE HandsInv'
  BY <1>2 DEF WaitTimeout, Claim, Detach, Finish
<1>3. ASSUME NEW p \in Proc, OpenSession(p) PROVE HandsInv'
  BY <1>3 DEF OpenSession
<1>4. ASSUME NEW p \in Proc, StopStats(p) PROVE HandsInv'
  BY <1>4 DEF StopStats, Goto
<1>5. ASSUME NEW p \in Proc, JoinStats(p) PROVE HandsInv'
  BY <1>5 DEF JoinStats, Goto
<1>6. ASSUME NEW p \in Proc, ForgetStats(p) PROVE HandsInv'
  BY <1>6 DEF ForgetStats, Goto
<1>7. ASSUME NEW p \in Proc, DisposeHeld(p) PROVE HandsInv'
  BY <1>7 DEF DisposeHeld, Goto, FrontendClose, WantsFd
<1>8. ASSUME NEW p \in Proc, DisposeParked(p) PROVE HandsInv'
  BY <1>8 DEF DisposeParked, Goto, FrontendClose, WantsFd
<1>9. ASSUME NEW p \in Proc, AdoptFd(p) PROVE HandsInv'
  BY <1>9 DEF AdoptFd, Goto
<1>10. ASSUME NEW p \in Proc, OpenForStream(p) PROVE HandsInv'
  BY <1>10 DEF OpenForStream, Goto, FrontendOpen, FrontendRefused
<1>11. ASSUME NEW p \in Proc, TuneStream(p) PROVE HandsInv'
  BY <1>11 DEF TuneStream, Goto, CloseOwn, FrontendClose
<1>12. ASSUME NEW p \in Proc, LockStream(p) PROVE HandsInv'
  BY <1>12 DEF LockStream, Goto, CloseOwn, FrontendClose
<1>13. ASSUME NEW p \in Proc, ReopenStream(p) PROVE HandsInv'
  BY <1>13 DEF ReopenStream, Goto, FrontendOpen, FrontendRefused
<1>14. ASSUME NEW p \in Proc, RelockStream(p) PROVE HandsInv'
  BY <1>14 DEF RelockStream, Goto, CloseOwn, FrontendClose
<1>15. ASSUME NEW p \in Proc, Bind(p) PROVE HandsInv'
  BY <1>15 DEF Bind, Goto
<1>16. ASSUME NEW p \in Proc, SetStream(p) PROVE HandsInv'
  BY <1>16 DEF SetStream, Goto
<1>17. ASSUME NEW p \in Proc, Unbind(p) PROVE HandsInv'
  BY <1>17 DEF Unbind, Goto
<1>18. ASSUME NEW p \in Proc, Park(p) PROVE HandsInv'
  BY <1>18 DEF Park, Goto
<1>19. ASSUME NEW p \in Proc, Unpark(p) PROVE HandsInv'
  BY <1>19 DEF Unpark, Goto
<1>20. ASSUME NEW p \in Proc, ParkFd(p) PROVE HandsInv'
  BY <1>20 DEF ParkFd, FreeTo, Waiting
<1>21. ASSUME NEW p \in Proc, ParkFails(p) PROVE HandsInv'
  BY <1>21 DEF ParkFails, FreeTo, Waiting
<1>22. ASSUME NEW p \in Proc, ClosePark(p) PROVE HandsInv'
  BY <1>22 DEF ClosePark, CloseOwn, FrontendClose, Finish
<1>23. ASSUME NEW p \in Proc, StartTimer(p) PROVE HandsInv'
  BY <1>23 DEF StartTimer, Goto, Finish
<1>24. ASSUME NEW p \in Proc, Release(p) PROVE HandsInv'
  BY <1>24 DEF Release, Goto
<1>25. ASSUME NEW p \in Proc, CloseStream(p) PROVE HandsInv'
  BY <1>25 DEF CloseStream, Goto, CloseOwn, FrontendClose
<1>26. ASSUME NEW p \in Proc, Free(p) PROVE HandsInv'
  BY <1>26 DEF Free, FreeTo, Waiting
<1>27. ASSUME NEW p \in Proc, EnterHold(p) PROVE HandsInv'
  BY <1>27
      DEF EnterHold, Detach, HoldDone, Finish, Goto, CloseOwn, FrontendClose
<1>28. ASSUME NEW p \in Proc, OpenHold(p) PROVE HandsInv'
  BY <1>28 DEF OpenHold, FrontendOpen, FrontendRefused, HoldDone, Finish, Goto
<1>29. ASSUME NEW p \in Proc, TuneHold(p) PROVE HandsInv'
  BY <1>29 DEF TuneHold, Goto, CloseOwn, FrontendClose, HoldDone, Finish
<1>30. ASSUME NEW p \in Proc, InstallHold(p) PROVE HandsInv'
  <2>1. CASE active_stream # None \/ held_fd # None
    BY <1>30, <2>1 DEF InstallHold, CloseOwn, HoldDone, Finish, Goto
  <2>2. CASE ~(active_stream # None \/ held_fd # None)
    BY <1>30, <2>2 DEF InstallHold, HoldDone, Finish, Goto
  <2> QED
    BY <2>1, <2>2
<1>31. ASSUME NEW p \in Proc, Clear(p) PROVE HandsInv'
  BY <1>31 DEF Clear, Finish
<1>32. ASSUME NEW p \in Proc, OpenForScan(p) PROVE HandsInv'
  <2>1. CASE FrontendOpen(p, None) /\ Goto(p, "scan")
    BY <1>32, <2>1 DEF OpenForScan, Goto, FrontendOpen
  <2>2. CASE UNCHANGED <<devVars, fd>> /\ Goto(p, IF job[p].kind = "scan" THEN
       "scanend" ELSE "release")
    BY <1>32, <2>2 DEF OpenForScan, Goto
  <2> QED
    BY <1>32, <2>1, <2>2 DEF OpenForScan
<1>33. ASSUME NEW p \in Proc, BootDone(p) PROVE HandsInv'
  BY <1>33 DEF BootDone, Goto, CloseOwn, FrontendClose
<1>34. ASSUME NEW p \in Proc, ScanDrop(p) PROVE HandsInv'
  BY <1>34 DEF ScanDrop, Goto, CloseOwn, FrontendClose
<1>35. ASSUME NEW p \in Proc, ScanEnd(p) PROVE HandsInv'
  BY <1>35 DEF ScanEnd, Goto
<1>36. ASSUME NEW p \in Proc, BeginBoot(p) PROVE HandsInv'
  BY <1>36 DEF BeginBoot, Claim, WaitForClaim, Detach
<1>37. ASSUME NEW p \in Proc, BeginClear(p) PROVE HandsInv'
  BY <1>37 DEF BeginClear
<1>38. ASSUME NEW p \in Proc, EndStream(p) PROVE HandsInv'
  BY <1>38 DEF EndStream, Goto
<1>39. ASSUME NEW p \in Proc, ScanTune(p) PROVE HandsInv'
  BY <1>39 DEF ScanTune
<1>40. ASSUME NEW p \in Proc, ScanDone(p) PROVE HandsInv'
  BY <1>40 DEF ScanDone, Goto
<1>41. ASSUME NEW p \in Proc, NEW c \in Chans, NEW k \in {"pull", "push"},
     BeginStream(p, k, c)
     PROVE HandsInv'
  BY <1>41 DEF BeginStream, Claim, WaitForClaim, Detach
<1>42. ASSUME NEW p \in Proc, NEW c \in Chans, Select(p, c) PROVE HandsInv'
  BY <1>42 DEF Select
<1>43. ASSUME NEW p \in Proc, NEW f \in Freqs, ScanClaim(p, f) PROVE HandsInv'
  BY <1>43 DEF ScanClaim
<1>44. ASSUME NEW f \in Freqs, QueueChannel(f) PROVE HandsInv'
  BY <1>44 DEF QueueChannel
<1>45. ASSUME NEW i \in Timers, TimerExpire(i) PROVE HandsInv'
  BY <1>45 DEF TimerExpire
<1>46. ASSUME NEW i \in Timers, TimerClose(i) PROVE HandsInv'
  BY <1>46 DEF TimerClose, FrontendClose
<1>47. ASSUME Stats PROVE HandsInv'
  BY <1>47 DEF Stats, StatsStart, StatsRead, StatsWake, StatsMustStop
<1>48. CASE UNCHANGED vars
  BY <1>48 DEF vars, tunerVars
<1> HIDE
     DEF TypeOK, TypeControl, TypeFds, TypeFields, TimerInv, ControlInv,
         ClaimExclusive, HasClaim, ClaimedPcs, SharedPcs, ClaimKinds, HandsInv,
         WithFd, Disposing, SoleOwner, EmptyHanded, NoThreadFd, NoTimerFd,
         Streams, StreamPcs, At, Job, NoJob, ParkJob, ClaimJob
<1> QED
  BY <1>1, <1>2, <1>3, <1>4, <1>5, <1>6, <1>7, <1>8, <1>9, <1>10, <1>11,
       <1>12, <1>13, <1>14, <1>15, <1>16, <1>17, <1>18, <1>19, <1>20, <1>21,
       <1>22, <1>23, <1>24, <1>25, <1>26, <1>27, <1>28, <1>29, <1>30, <1>31,
       <1>32, <1>33, <1>34, <1>35, <1>36, <1>37, <1>38, <1>39, <1>40, <1>41,
       <1>42, <1>43, <1>44, <1>45, <1>46, <1>47, <1>48
      DEF Next, Step, Env, TimerStep

\* Every step preserves the single ownership of the frontend descriptor.  A
\* thread that opens the frontend finds open_fds empty, so by NoStaleFd
\* nobody else has a descriptor.
LEMMA SoleOwnerStep ==
  TypeOK /\ ControlInv /\ ClaimExclusive /\ TimerInv /\ HandsInv /\ SoleOwner
    /\ NoStaleFd /\ [Next]_vars
    => SoleOwner'
<1> SUFFICES ASSUME TypeOK, ControlInv, ClaimExclusive, TimerInv, HandsInv,
     SoleOwner, NoStaleFd, [Next]_vars
     PROVE SoleOwner'
  OBVIOUS
<1> USE TunerAssumption
    DEF TypeOK, TypeControl, TypeFds, TypeFields, TimerInv, HandsInv, WithFd,
        Disposing, SoleOwner, EmptyHanded, NoThreadFd, NoTimerFd, Streams, At,
        Job, NoJob, ParkJob, ClaimJob, NoStaleFd, vars, tunerVars, selVars,
        scanVars, parkVars, statsVars, devVars, ctlVars, ownVars, devStep
<1>1. ASSUME NEW p \in Proc, Recheck(p) PROVE SoleOwner'
  BY <1>1 DEF Recheck, Claim, WaitForClaim, Detach
<1>2. ASSUME NEW p \in Proc, WaitTimeout(p) PROVE SoleOwner'
  BY <1>2 DEF WaitTimeout, Claim, Detach, Finish
<1>3. ASSUME NEW p \in Proc, OpenSession(p) PROVE SoleOwner'
  BY <1>3 DEF OpenSession
<1>4. ASSUME NEW p \in Proc, StopStats(p) PROVE SoleOwner'
  BY <1>4 DEF StopStats, Goto
<1>5. ASSUME NEW p \in Proc, JoinStats(p) PROVE SoleOwner'
  BY <1>5 DEF JoinStats, Goto
<1>6. ASSUME NEW p \in Proc, ForgetStats(p) PROVE SoleOwner'
  BY <1>6 DEF ForgetStats, Goto
<1>7. ASSUME NEW p \in Proc, DisposeHeld(p) PROVE SoleOwner'
  BY <1>7 DEF DisposeHeld, Goto, FrontendClose, WantsFd
<1>8. ASSUME NEW p \in Proc, DisposeParked(p) PROVE SoleOwner'
  BY <1>8 DEF DisposeParked, Goto, FrontendClose, WantsFd
<1>9. ASSUME NEW p \in Proc, AdoptFd(p) PROVE SoleOwner'
  BY <1>9 DEF AdoptFd, Goto
<1>10. ASSUME NEW p \in Proc, OpenForStream(p) PROVE SoleOwner'
  BY <1>10 DEF OpenForStream, Goto, FrontendOpen, FrontendRefused
<1>11. ASSUME NEW p \in Proc, TuneStream(p) PROVE SoleOwner'
  BY <1>11 DEF TuneStream, Goto, CloseOwn, FrontendClose
<1>12. ASSUME NEW p \in Proc, LockStream(p) PROVE SoleOwner'
  BY <1>12 DEF LockStream, Goto, CloseOwn, FrontendClose
<1>13. ASSUME NEW p \in Proc, ReopenStream(p) PROVE SoleOwner'
  BY <1>13 DEF ReopenStream, Goto, FrontendOpen, FrontendRefused
<1>14. ASSUME NEW p \in Proc, RelockStream(p) PROVE SoleOwner'
  BY <1>14 DEF RelockStream, Goto, CloseOwn, FrontendClose
<1>15. ASSUME NEW p \in Proc, Bind(p) PROVE SoleOwner'
  BY <1>15 DEF Bind, Goto
<1>16. ASSUME NEW p \in Proc, SetStream(p) PROVE SoleOwner'
  BY <1>16 DEF SetStream, Goto
<1>17. ASSUME NEW p \in Proc, Unbind(p) PROVE SoleOwner'
  BY <1>17 DEF Unbind, Goto
<1>18. ASSUME NEW p \in Proc, Park(p) PROVE SoleOwner'
  BY <1>18 DEF Park, Goto
<1>19. ASSUME NEW p \in Proc, Unpark(p) PROVE SoleOwner'
  BY <1>19 DEF Unpark, Goto
<1>20. ASSUME NEW p \in Proc, ParkFd(p) PROVE SoleOwner'
  BY <1>20 DEF ParkFd, FreeTo, Waiting
<1>21. ASSUME NEW p \in Proc, ParkFails(p) PROVE SoleOwner'
  BY <1>21 DEF ParkFails, FreeTo, Waiting
<1>22. ASSUME NEW p \in Proc, ClosePark(p) PROVE SoleOwner'
  BY <1>22 DEF ClosePark, CloseOwn, FrontendClose, Finish
<1>23. ASSUME NEW p \in Proc, StartTimer(p) PROVE SoleOwner'
  BY <1>23 DEF StartTimer, Goto, Finish
<1>24. ASSUME NEW p \in Proc, Release(p) PROVE SoleOwner'
  BY <1>24 DEF Release, Goto
<1>25. ASSUME NEW p \in Proc, CloseStream(p) PROVE SoleOwner'
  BY <1>25 DEF CloseStream, Goto, CloseOwn, FrontendClose
<1>26. ASSUME NEW p \in Proc, Free(p) PROVE SoleOwner'
  BY <1>26 DEF Free, FreeTo, Waiting
<1>27. ASSUME NEW p \in Proc, EnterHold(p) PROVE SoleOwner'
  BY <1>27
      DEF EnterHold, Detach, HoldDone, Finish, Goto, CloseOwn, FrontendClose
<1>28. ASSUME NEW p \in Proc, OpenHold(p) PROVE SoleOwner'
  BY <1>28 DEF OpenHold, FrontendOpen, FrontendRefused, HoldDone, Finish, Goto
<1>29. ASSUME NEW p \in Proc, TuneHold(p) PROVE SoleOwner'
  BY <1>29 DEF TuneHold, Goto, CloseOwn, FrontendClose, HoldDone, Finish
<1>30. ASSUME NEW p \in Proc, InstallHold(p) PROVE SoleOwner'
  <2>1. CASE active_stream # None \/ held_fd # None
    BY <1>30, <2>1 DEF InstallHold, CloseOwn, HoldDone, Finish, Goto
  <2>2. CASE ~(active_stream # None \/ held_fd # None)
    BY <1>30, <2>2 DEF InstallHold, HoldDone, Finish, Goto
  <2> QED
    BY <2>1, <2>2
<1>31. ASSUME NEW p \in Proc, Clear(p) PROVE SoleOwner'
  BY <1>31 DEF Clear, Finish
<1>32. ASSUME NEW p \in Proc, OpenForScan(p) PROVE SoleOwner'
  BY <1>32 DEF OpenForScan, Goto, FrontendOpen, FrontendRefused
<1>33. ASSUME NEW p \in Proc, BootDone(p) PROVE SoleOwner'
  BY <1>33 DEF BootDone, Goto, CloseOwn, FrontendClose
<1>34. ASSUME NEW p \in Proc, ScanDrop(p) PROVE SoleOwner'
  BY <1>34 DEF ScanDrop, Goto, CloseOwn, FrontendClose
<1>35. ASSUME NEW p \in Proc, ScanEnd(p) PROVE SoleOwner'
  BY <1>35 DEF ScanEnd, Goto
<1>36. ASSUME NEW p \in Proc, BeginBoot(p) PROVE SoleOwner'
  BY <1>36 DEF BeginBoot, Claim, WaitForClaim, Detach
<1>37. ASSUME NEW p \in Proc, BeginClear(p) PROVE SoleOwner'
  BY <1>37 DEF BeginClear
<1>38. ASSUME NEW p \in Proc, EndStream(p) PROVE SoleOwner'
  BY <1>38 DEF EndStream, Goto
<1>39. ASSUME NEW p \in Proc, ScanTune(p) PROVE SoleOwner'
  BY <1>39 DEF ScanTune
<1>40. ASSUME NEW p \in Proc, ScanDone(p) PROVE SoleOwner'
  BY <1>40 DEF ScanDone, Goto
<1>41. ASSUME NEW p \in Proc, NEW c \in Chans, NEW k \in {"pull", "push"},
     BeginStream(p, k, c)
     PROVE SoleOwner'
  BY <1>41 DEF BeginStream, Claim, WaitForClaim, Detach
<1>42. ASSUME NEW p \in Proc, NEW c \in Chans, Select(p, c) PROVE SoleOwner'
  BY <1>42 DEF Select
<1>43. ASSUME NEW p \in Proc, NEW f \in Freqs, ScanClaim(p, f) PROVE SoleOwner'
  BY <1>43 DEF ScanClaim
<1>44. ASSUME NEW f \in Freqs, QueueChannel(f) PROVE SoleOwner'
  BY <1>44 DEF QueueChannel
<1>45. ASSUME NEW i \in Timers, TimerExpire(i) PROVE SoleOwner'
  BY <1>45 DEF TimerExpire
<1>46. ASSUME NEW i \in Timers, TimerClose(i) PROVE SoleOwner'
  BY <1>46 DEF TimerClose, FrontendClose
<1>47. ASSUME Stats PROVE SoleOwner'
  BY <1>47 DEF Stats, StatsStart, StatsRead, StatsWake, StatsMustStop
<1>48. CASE UNCHANGED vars
  BY <1>48 DEF vars, tunerVars
<1> HIDE
     DEF TypeOK, TypeControl, TypeFds, TypeFields, TimerInv, HandsInv, WithFd,
         Disposing, SoleOwner, EmptyHanded, NoThreadFd, NoTimerFd, Streams, At,
         Job, NoJob, ParkJob, ClaimJob, NoStaleFd
<1> QED
  BY <1>1, <1>2, <1>3, <1>4, <1>5, <1>6, <1>7, <1>8, <1>9, <1>10, <1>11,
       <1>12, <1>13, <1>14, <1>15, <1>16, <1>17, <1>18, <1>19, <1>20, <1>21,
       <1>22, <1>23, <1>24, <1>25, <1>26, <1>27, <1>28, <1>29, <1>30, <1>31,
       <1>32, <1>33, <1>34, <1>35, <1>36, <1>37, <1>38, <1>39, <1>40, <1>41,
       <1>42, <1>43, <1>44, <1>45, <1>46, <1>47, <1>48
      DEF Next, Step, Env, TimerStep

\* Every step keeps every recorded descriptor open: only its sole owner
\* closes it, and forgets it in the same step.
LEMMA NoStaleFdStep ==
  TypeOK /\ ControlInv /\ ClaimExclusive /\ TimerInv /\ HandsInv /\ SoleOwner
    /\ NoStaleFd /\ [Next]_vars
    => NoStaleFd'
<1> SUFFICES ASSUME TypeOK, ControlInv, ClaimExclusive, TimerInv, HandsInv,
     SoleOwner, NoStaleFd, [Next]_vars
     PROVE NoStaleFd'
  OBVIOUS
<1> USE TunerAssumption
    DEF TypeOK, TypeControl, TypeFds, TypeFields, TimerInv, HandsInv, WithFd,
        Disposing, SoleOwner, EmptyHanded, NoThreadFd, NoTimerFd, Streams, At,
        Job, NoJob, ParkJob, ClaimJob, NoStaleFd, vars, tunerVars, selVars,
        scanVars, parkVars, statsVars, devVars, ctlVars, ownVars, devStep
<1>1. ASSUME NEW p \in Proc, Recheck(p) PROVE NoStaleFd'
  BY <1>1 DEF Recheck, Claim, WaitForClaim, Detach
<1>2. ASSUME NEW p \in Proc, WaitTimeout(p) PROVE NoStaleFd'
  BY <1>2 DEF WaitTimeout, Claim, Detach, Finish
<1>3. ASSUME NEW p \in Proc, OpenSession(p) PROVE NoStaleFd'
  BY <1>3 DEF OpenSession
<1>4. ASSUME NEW p \in Proc, StopStats(p) PROVE NoStaleFd'
  BY <1>4 DEF StopStats, Goto
<1>5. ASSUME NEW p \in Proc, JoinStats(p) PROVE NoStaleFd'
  BY <1>5 DEF JoinStats, Goto
<1>6. ASSUME NEW p \in Proc, ForgetStats(p) PROVE NoStaleFd'
  BY <1>6 DEF ForgetStats, Goto
<1>7. ASSUME NEW p \in Proc, DisposeHeld(p) PROVE NoStaleFd'
  BY <1>7 DEF DisposeHeld, Goto, FrontendClose, WantsFd
<1>8. ASSUME NEW p \in Proc, DisposeParked(p) PROVE NoStaleFd'
  BY <1>8 DEF DisposeParked, Goto, FrontendClose, WantsFd
<1>9. ASSUME NEW p \in Proc, AdoptFd(p) PROVE NoStaleFd'
  BY <1>9 DEF AdoptFd, Goto
<1>10. ASSUME NEW p \in Proc, OpenForStream(p) PROVE NoStaleFd'
  BY <1>10 DEF OpenForStream, Goto, FrontendOpen, FrontendRefused
<1>11. ASSUME NEW p \in Proc, TuneStream(p) PROVE NoStaleFd'
  BY <1>11 DEF TuneStream, Goto, CloseOwn, FrontendClose
<1>12. ASSUME NEW p \in Proc, LockStream(p) PROVE NoStaleFd'
  BY <1>12 DEF LockStream, Goto, CloseOwn, FrontendClose
<1>13. ASSUME NEW p \in Proc, ReopenStream(p) PROVE NoStaleFd'
  BY <1>13 DEF ReopenStream, Goto, FrontendOpen, FrontendRefused
<1>14. ASSUME NEW p \in Proc, RelockStream(p) PROVE NoStaleFd'
  BY <1>14 DEF RelockStream, Goto, CloseOwn, FrontendClose
<1>15. ASSUME NEW p \in Proc, Bind(p) PROVE NoStaleFd'
  BY <1>15 DEF Bind, Goto
<1>16. ASSUME NEW p \in Proc, SetStream(p) PROVE NoStaleFd'
  BY <1>16 DEF SetStream, Goto
<1>17. ASSUME NEW p \in Proc, Unbind(p) PROVE NoStaleFd'
  BY <1>17 DEF Unbind, Goto
<1>18. ASSUME NEW p \in Proc, Park(p) PROVE NoStaleFd'
  BY <1>18 DEF Park, Goto
<1>19. ASSUME NEW p \in Proc, Unpark(p) PROVE NoStaleFd'
  BY <1>19 DEF Unpark, Goto
<1>20. ASSUME NEW p \in Proc, ParkFd(p) PROVE NoStaleFd'
  BY <1>20 DEF ParkFd, FreeTo, Waiting
<1>21. ASSUME NEW p \in Proc, ParkFails(p) PROVE NoStaleFd'
  BY <1>21 DEF ParkFails, FreeTo, Waiting
<1>22. ASSUME NEW p \in Proc, ClosePark(p) PROVE NoStaleFd'
  BY <1>22 DEF ClosePark, CloseOwn, FrontendClose, Finish
<1>23. ASSUME NEW p \in Proc, StartTimer(p) PROVE NoStaleFd'
  BY <1>23 DEF StartTimer, Goto, Finish
<1>24. ASSUME NEW p \in Proc, Release(p) PROVE NoStaleFd'
  BY <1>24 DEF Release, Goto
<1>25. ASSUME NEW p \in Proc, CloseStream(p) PROVE NoStaleFd'
  BY <1>25 DEF CloseStream, Goto, CloseOwn, FrontendClose
<1>26. ASSUME NEW p \in Proc, Free(p) PROVE NoStaleFd'
  BY <1>26 DEF Free, FreeTo, Waiting
<1>27. ASSUME NEW p \in Proc, EnterHold(p) PROVE NoStaleFd'
  BY <1>27
      DEF EnterHold, Detach, HoldDone, Finish, Goto, CloseOwn, FrontendClose
<1>28. ASSUME NEW p \in Proc, OpenHold(p) PROVE NoStaleFd'
  BY <1>28 DEF OpenHold, FrontendOpen, FrontendRefused, HoldDone, Finish, Goto
<1>29. ASSUME NEW p \in Proc, TuneHold(p) PROVE NoStaleFd'
  BY <1>29 DEF TuneHold, Goto, CloseOwn, FrontendClose, HoldDone, Finish
<1>30. ASSUME NEW p \in Proc, InstallHold(p) PROVE NoStaleFd'
  <2>1. CASE active_stream # None \/ held_fd # None
    BY <1>30, <2>1 DEF InstallHold, CloseOwn, HoldDone, Finish, Goto
  <2>2. CASE ~(active_stream # None \/ held_fd # None)
    BY <1>30, <2>2 DEF InstallHold, HoldDone, Finish, Goto
  <2> QED
    BY <2>1, <2>2
<1>31. ASSUME NEW p \in Proc, Clear(p) PROVE NoStaleFd'
  BY <1>31 DEF Clear, Finish
<1>32. ASSUME NEW p \in Proc, OpenForScan(p) PROVE NoStaleFd'
  BY <1>32 DEF OpenForScan, Goto, FrontendOpen, FrontendRefused
<1>33. ASSUME NEW p \in Proc, BootDone(p) PROVE NoStaleFd'
  BY <1>33 DEF BootDone, Goto, CloseOwn, FrontendClose
<1>34. ASSUME NEW p \in Proc, ScanDrop(p) PROVE NoStaleFd'
  BY <1>34 DEF ScanDrop, Goto, CloseOwn, FrontendClose
<1>35. ASSUME NEW p \in Proc, ScanEnd(p) PROVE NoStaleFd'
  BY <1>35 DEF ScanEnd, Goto
<1>36. ASSUME NEW p \in Proc, BeginBoot(p) PROVE NoStaleFd'
  BY <1>36 DEF BeginBoot, Claim, WaitForClaim, Detach
<1>37. ASSUME NEW p \in Proc, BeginClear(p) PROVE NoStaleFd'
  BY <1>37 DEF BeginClear
<1>38. ASSUME NEW p \in Proc, EndStream(p) PROVE NoStaleFd'
  BY <1>38 DEF EndStream, Goto
<1>39. ASSUME NEW p \in Proc, ScanTune(p) PROVE NoStaleFd'
  BY <1>39 DEF ScanTune
<1>40. ASSUME NEW p \in Proc, ScanDone(p) PROVE NoStaleFd'
  BY <1>40 DEF ScanDone, Goto
<1>41. ASSUME NEW p \in Proc, NEW c \in Chans, NEW k \in {"pull", "push"},
     BeginStream(p, k, c)
     PROVE NoStaleFd'
  BY <1>41 DEF BeginStream, Claim, WaitForClaim, Detach
<1>42. ASSUME NEW p \in Proc, NEW c \in Chans, Select(p, c) PROVE NoStaleFd'
  BY <1>42 DEF Select
<1>43. ASSUME NEW p \in Proc, NEW f \in Freqs, ScanClaim(p, f) PROVE NoStaleFd'
  BY <1>43 DEF ScanClaim
<1>44. ASSUME NEW f \in Freqs, QueueChannel(f) PROVE NoStaleFd'
  BY <1>44 DEF QueueChannel
<1>45. ASSUME NEW i \in Timers, TimerExpire(i) PROVE NoStaleFd'
  BY <1>45 DEF TimerExpire
<1>46. ASSUME NEW i \in Timers, TimerClose(i) PROVE NoStaleFd'
  BY <1>46 DEF TimerClose, FrontendClose
<1>47. ASSUME Stats PROVE NoStaleFd'
  BY <1>47 DEF Stats, StatsStart, StatsRead, StatsWake, StatsMustStop
<1>48. CASE UNCHANGED vars
  BY <1>48 DEF vars, tunerVars
<1> HIDE
     DEF TypeOK, TypeControl, TypeFds, TypeFields, TimerInv, HandsInv, WithFd,
         Disposing, SoleOwner, EmptyHanded, NoThreadFd, NoTimerFd, Streams, At,
         Job, NoJob, ParkJob, ClaimJob, NoStaleFd
<1> QED
  BY <1>1, <1>2, <1>3, <1>4, <1>5, <1>6, <1>7, <1>8, <1>9, <1>10, <1>11,
       <1>12, <1>13, <1>14, <1>15, <1>16, <1>17, <1>18, <1>19, <1>20, <1>21,
       <1>22, <1>23, <1>24, <1>25, <1>26, <1>27, <1>28, <1>29, <1>30, <1>31,
       <1>32, <1>33, <1>34, <1>35, <1>36, <1>37, <1>38, <1>39, <1>40, <1>41,
       <1>42, <1>43, <1>44, <1>45, <1>46, <1>47, <1>48
      DEF Next, Step, Env, TimerStep

\* Every step keeps every open descriptor recorded somewhere, on the failure
\* branches too.
LEMMA NoFdLeakStep ==
  TypeOK /\ ControlInv /\ ClaimExclusive /\ TimerInv /\ HandsInv /\ SoleOwner
    /\ NoFdLeak /\ [Next]_vars
    => NoFdLeak'
<1> SUFFICES ASSUME TypeOK, ControlInv, ClaimExclusive, TimerInv, HandsInv,
     SoleOwner, NoFdLeak, [Next]_vars
     PROVE NoFdLeak'
  OBVIOUS
<1> USE TunerAssumption
    DEF TypeOK, TypeControl, TypeFds, TypeFields, TimerInv, HandsInv, WithFd,
        Disposing, SoleOwner, EmptyHanded, NoThreadFd, NoTimerFd, Streams, At,
        Job, NoJob, ParkJob, ClaimJob, NoFdLeak, vars, tunerVars, selVars,
        scanVars, parkVars, statsVars, devVars, ctlVars, ownVars, devStep
<1>1. ASSUME NEW p \in Proc, Recheck(p) PROVE NoFdLeak'
  BY <1>1 DEF Recheck, Claim, WaitForClaim, Detach
<1>2. ASSUME NEW p \in Proc, WaitTimeout(p) PROVE NoFdLeak'
  BY <1>2 DEF WaitTimeout, Claim, Detach, Finish
<1>3. ASSUME NEW p \in Proc, OpenSession(p) PROVE NoFdLeak'
  BY <1>3 DEF OpenSession
<1>4. ASSUME NEW p \in Proc, StopStats(p) PROVE NoFdLeak'
  BY <1>4 DEF StopStats, Goto
<1>5. ASSUME NEW p \in Proc, JoinStats(p) PROVE NoFdLeak'
  BY <1>5 DEF JoinStats, Goto
<1>6. ASSUME NEW p \in Proc, ForgetStats(p) PROVE NoFdLeak'
  BY <1>6 DEF ForgetStats, Goto
<1>7. ASSUME NEW p \in Proc, DisposeHeld(p) PROVE NoFdLeak'
  BY <1>7 DEF DisposeHeld, Goto, FrontendClose, WantsFd
<1>8. ASSUME NEW p \in Proc, DisposeParked(p) PROVE NoFdLeak'
  BY <1>8 DEF DisposeParked, Goto, FrontendClose, WantsFd
<1>9. ASSUME NEW p \in Proc, AdoptFd(p) PROVE NoFdLeak'
  BY <1>9 DEF AdoptFd, Goto
<1>10. ASSUME NEW p \in Proc, OpenForStream(p) PROVE NoFdLeak'
  BY <1>10 DEF OpenForStream, Goto, FrontendOpen, FrontendRefused
<1>11. ASSUME NEW p \in Proc, TuneStream(p) PROVE NoFdLeak'
  BY <1>11 DEF TuneStream, Goto, CloseOwn, FrontendClose
<1>12. ASSUME NEW p \in Proc, LockStream(p) PROVE NoFdLeak'
  BY <1>12 DEF LockStream, Goto, CloseOwn, FrontendClose
<1>13. ASSUME NEW p \in Proc, ReopenStream(p) PROVE NoFdLeak'
  BY <1>13 DEF ReopenStream, Goto, FrontendOpen, FrontendRefused
<1>14. ASSUME NEW p \in Proc, RelockStream(p) PROVE NoFdLeak'
  BY <1>14 DEF RelockStream, Goto, CloseOwn, FrontendClose
<1>15. ASSUME NEW p \in Proc, Bind(p) PROVE NoFdLeak'
  BY <1>15 DEF Bind, Goto
<1>16. ASSUME NEW p \in Proc, SetStream(p) PROVE NoFdLeak'
  BY <1>16 DEF SetStream, Goto
<1>17. ASSUME NEW p \in Proc, Unbind(p) PROVE NoFdLeak'
  BY <1>17 DEF Unbind, Goto
<1>18. ASSUME NEW p \in Proc, Park(p) PROVE NoFdLeak'
  BY <1>18 DEF Park, Goto
<1>19. ASSUME NEW p \in Proc, Unpark(p) PROVE NoFdLeak'
  BY <1>19 DEF Unpark, Goto
<1>20. ASSUME NEW p \in Proc, ParkFd(p) PROVE NoFdLeak'
  BY <1>20 DEF ParkFd, FreeTo, Waiting
<1>21. ASSUME NEW p \in Proc, ParkFails(p) PROVE NoFdLeak'
  BY <1>21 DEF ParkFails, FreeTo, Waiting
<1>22. ASSUME NEW p \in Proc, ClosePark(p) PROVE NoFdLeak'
  BY <1>22 DEF ClosePark, CloseOwn, FrontendClose, Finish
<1>23. ASSUME NEW p \in Proc, StartTimer(p) PROVE NoFdLeak'
  BY <1>23 DEF StartTimer, Goto, Finish
<1>24. ASSUME NEW p \in Proc, Release(p) PROVE NoFdLeak'
  BY <1>24 DEF Release, Goto
<1>25. ASSUME NEW p \in Proc, CloseStream(p) PROVE NoFdLeak'
  BY <1>25 DEF CloseStream, Goto, CloseOwn, FrontendClose
<1>26. ASSUME NEW p \in Proc, Free(p) PROVE NoFdLeak'
  BY <1>26 DEF Free, FreeTo, Waiting
<1>27. ASSUME NEW p \in Proc, EnterHold(p) PROVE NoFdLeak'
  BY <1>27
      DEF EnterHold, Detach, HoldDone, Finish, Goto, CloseOwn, FrontendClose
<1>28. ASSUME NEW p \in Proc, OpenHold(p) PROVE NoFdLeak'
  BY <1>28 DEF OpenHold, FrontendOpen, FrontendRefused, HoldDone, Finish, Goto
<1>29. ASSUME NEW p \in Proc, TuneHold(p) PROVE NoFdLeak'
  BY <1>29 DEF TuneHold, Goto, CloseOwn, FrontendClose, HoldDone, Finish
<1>30. ASSUME NEW p \in Proc, InstallHold(p) PROVE NoFdLeak'
  <2>1. CASE active_stream # None \/ held_fd # None
    BY <1>30, <2>1 DEF InstallHold, CloseOwn, HoldDone, Finish, Goto
  <2>2. CASE ~(active_stream # None \/ held_fd # None)
    BY <1>30, <2>2 DEF InstallHold, HoldDone, Finish, Goto
  <2> QED
    BY <2>1, <2>2
<1>31. ASSUME NEW p \in Proc, Clear(p) PROVE NoFdLeak'
  BY <1>31 DEF Clear, Finish
<1>32. ASSUME NEW p \in Proc, OpenForScan(p) PROVE NoFdLeak'
  BY <1>32 DEF OpenForScan, Goto, FrontendOpen, FrontendRefused
<1>33. ASSUME NEW p \in Proc, BootDone(p) PROVE NoFdLeak'
  BY <1>33 DEF BootDone, Goto, CloseOwn, FrontendClose
<1>34. ASSUME NEW p \in Proc, ScanDrop(p) PROVE NoFdLeak'
  BY <1>34 DEF ScanDrop, Goto, CloseOwn, FrontendClose
<1>35. ASSUME NEW p \in Proc, ScanEnd(p) PROVE NoFdLeak'
  BY <1>35 DEF ScanEnd, Goto
<1>36. ASSUME NEW p \in Proc, BeginBoot(p) PROVE NoFdLeak'
  BY <1>36 DEF BeginBoot, Claim, WaitForClaim, Detach
<1>37. ASSUME NEW p \in Proc, BeginClear(p) PROVE NoFdLeak'
  BY <1>37 DEF BeginClear
<1>38. ASSUME NEW p \in Proc, EndStream(p) PROVE NoFdLeak'
  BY <1>38 DEF EndStream, Goto
<1>39. ASSUME NEW p \in Proc, ScanTune(p) PROVE NoFdLeak'
  BY <1>39 DEF ScanTune
<1>40. ASSUME NEW p \in Proc, ScanDone(p) PROVE NoFdLeak'
  BY <1>40 DEF ScanDone, Goto
<1>41. ASSUME NEW p \in Proc, NEW c \in Chans, NEW k \in {"pull", "push"},
     BeginStream(p, k, c)
     PROVE NoFdLeak'
  BY <1>41 DEF BeginStream, Claim, WaitForClaim, Detach
<1>42. ASSUME NEW p \in Proc, NEW c \in Chans, Select(p, c) PROVE NoFdLeak'
  BY <1>42 DEF Select
<1>43. ASSUME NEW p \in Proc, NEW f \in Freqs, ScanClaim(p, f) PROVE NoFdLeak'
  BY <1>43 DEF ScanClaim
<1>44. ASSUME NEW f \in Freqs, QueueChannel(f) PROVE NoFdLeak'
  BY <1>44 DEF QueueChannel
<1>45. ASSUME NEW i \in Timers, TimerExpire(i) PROVE NoFdLeak'
  BY <1>45 DEF TimerExpire
<1>46. ASSUME NEW i \in Timers, TimerClose(i) PROVE NoFdLeak'
  BY <1>46 DEF TimerClose, FrontendClose
<1>47. ASSUME Stats PROVE NoFdLeak'
  BY <1>47 DEF Stats, StatsStart, StatsRead, StatsWake, StatsMustStop
<1>48. CASE UNCHANGED vars
  BY <1>48 DEF vars, tunerVars
<1> HIDE
     DEF TypeOK, TypeControl, TypeFds, TypeFields, TimerInv, HandsInv, WithFd,
         Disposing, SoleOwner, EmptyHanded, NoThreadFd, NoTimerFd, Streams, At,
         Job, NoJob, ParkJob, ClaimJob, NoFdLeak
<1> QED
  BY <1>1, <1>2, <1>3, <1>4, <1>5, <1>6, <1>7, <1>8, <1>9, <1>10, <1>11,
       <1>12, <1>13, <1>14, <1>15, <1>16, <1>17, <1>18, <1>19, <1>20, <1>21,
       <1>22, <1>23, <1>24, <1>25, <1>26, <1>27, <1>28, <1>29, <1>30, <1>31,
       <1>32, <1>33, <1>34, <1>35, <1>36, <1>37, <1>38, <1>39, <1>40, <1>41,
       <1>42, <1>43, <1>44, <1>45, <1>46, <1>47, <1>48
      DEF Next, Step, Env, TimerStep

\* Every step keeps the refresher tied to a held, or detached and not yet
\* joined, descriptor.  InstallHold is the interesting case: its thread owns
\* the only descriptor, so there is no refreshed one left and the refresher
\* is gone.
LEMMA RefresherStep ==
  TypeOK /\ ControlInv /\ ClaimExclusive /\ TimerInv /\ HandsInv /\ SoleOwner
    /\ RefresherInv /\ [Next]_vars
    => RefresherInv'
<1> SUFFICES ASSUME TypeOK, ControlInv, ClaimExclusive, TimerInv, HandsInv,
     SoleOwner, RefresherInv, [Next]_vars
     PROVE RefresherInv'
  OBVIOUS
<1> USE TunerAssumption
    DEF TypeOK, TypeFds, TypeFields, TypeControl, ControlInv, HandsInv, WithFd,
        Disposing, SoleOwner, EmptyHanded, NoThreadFd, NoTimerFd, RefresherInv,
        RefreshedFd, ClaimedPcs, SharedPcs, ClaimKinds, Streams, StreamPcs, At,
        Job, NoJob, ParkJob, ClaimJob, vars, tunerVars, selVars, scanVars,
        parkVars, statsVars, devVars, ctlVars, ownVars, devStep
<1>1. ASSUME NEW p \in Proc, Recheck(p) PROVE RefresherInv'
  BY <1>1 DEF Recheck, Claim, WaitForClaim, Detach
<1>2. ASSUME NEW p \in Proc, WaitTimeout(p) PROVE RefresherInv'
  BY <1>2 DEF WaitTimeout, Claim, Detach, Finish
<1>3. ASSUME NEW p \in Proc, OpenSession(p) PROVE RefresherInv'
  BY <1>3 DEF OpenSession
<1>4. ASSUME NEW p \in Proc, StopStats(p) PROVE RefresherInv'
  BY <1>4 DEF StopStats, Goto
<1>5. ASSUME NEW p \in Proc, JoinStats(p) PROVE RefresherInv'
  BY <1>5 DEF JoinStats, Goto
<1>6. ASSUME NEW p \in Proc, ForgetStats(p) PROVE RefresherInv'
  BY <1>6 DEF ForgetStats, Goto
<1>7. ASSUME NEW p \in Proc, DisposeHeld(p) PROVE RefresherInv'
  BY <1>7 DEF DisposeHeld, Goto, FrontendClose, WantsFd
<1>8. ASSUME NEW p \in Proc, DisposeParked(p) PROVE RefresherInv'
  BY <1>8 DEF DisposeParked, Goto, FrontendClose, WantsFd
<1>9. ASSUME NEW p \in Proc, AdoptFd(p) PROVE RefresherInv'
  BY <1>9 DEF AdoptFd, Goto
<1>10. ASSUME NEW p \in Proc, OpenForStream(p) PROVE RefresherInv'
  BY <1>10 DEF OpenForStream, Goto, FrontendOpen, FrontendRefused
<1>11. ASSUME NEW p \in Proc, TuneStream(p) PROVE RefresherInv'
  BY <1>11 DEF TuneStream, Goto, CloseOwn, FrontendClose
<1>12. ASSUME NEW p \in Proc, LockStream(p) PROVE RefresherInv'
  BY <1>12 DEF LockStream, Goto, CloseOwn, FrontendClose
<1>13. ASSUME NEW p \in Proc, ReopenStream(p) PROVE RefresherInv'
  BY <1>13 DEF ReopenStream, Goto, FrontendOpen, FrontendRefused
<1>14. ASSUME NEW p \in Proc, RelockStream(p) PROVE RefresherInv'
  BY <1>14 DEF RelockStream, Goto, CloseOwn, FrontendClose
<1>15. ASSUME NEW p \in Proc, Bind(p) PROVE RefresherInv'
  BY <1>15 DEF Bind, Goto
<1>16. ASSUME NEW p \in Proc, SetStream(p) PROVE RefresherInv'
  BY <1>16 DEF SetStream, Goto
<1>17. ASSUME NEW p \in Proc, Unbind(p) PROVE RefresherInv'
  BY <1>17 DEF Unbind, Goto
<1>18. ASSUME NEW p \in Proc, Park(p) PROVE RefresherInv'
  BY <1>18 DEF Park, Goto
<1>19. ASSUME NEW p \in Proc, Unpark(p) PROVE RefresherInv'
  BY <1>19 DEF Unpark, Goto
<1>20. ASSUME NEW p \in Proc, ParkFd(p) PROVE RefresherInv'
  BY <1>20 DEF ParkFd, FreeTo, Waiting
<1>21. ASSUME NEW p \in Proc, ParkFails(p) PROVE RefresherInv'
  BY <1>21 DEF ParkFails, FreeTo, Waiting
<1>22. ASSUME NEW p \in Proc, ClosePark(p) PROVE RefresherInv'
  BY <1>22 DEF ClosePark, CloseOwn, FrontendClose, Finish
<1>23. ASSUME NEW p \in Proc, StartTimer(p) PROVE RefresherInv'
  BY <1>23 DEF StartTimer, Goto, Finish
<1>24. ASSUME NEW p \in Proc, Release(p) PROVE RefresherInv'
  BY <1>24 DEF Release, Goto
<1>25. ASSUME NEW p \in Proc, CloseStream(p) PROVE RefresherInv'
  BY <1>25 DEF CloseStream, Goto, CloseOwn, FrontendClose
<1>26. ASSUME NEW p \in Proc, Free(p) PROVE RefresherInv'
  BY <1>26 DEF Free, FreeTo, Waiting
<1>27. ASSUME NEW p \in Proc, EnterHold(p) PROVE RefresherInv'
  BY <1>27
      DEF EnterHold, Detach, HoldDone, Finish, Goto, CloseOwn, FrontendClose
<1>28. ASSUME NEW p \in Proc, OpenHold(p) PROVE RefresherInv'
  BY <1>28 DEF OpenHold, FrontendOpen, FrontendRefused, HoldDone, Finish, Goto
<1>29. ASSUME NEW p \in Proc, TuneHold(p) PROVE RefresherInv'
  BY <1>29 DEF TuneHold, Goto, CloseOwn, FrontendClose, HoldDone, Finish
<1>30. ASSUME NEW p \in Proc, InstallHold(p) PROVE RefresherInv'
  <2>1. CASE active_stream # None \/ held_fd # None
    BY <1>30, <2>1 DEF InstallHold, CloseOwn, HoldDone, Finish, Goto
  <2>2. CASE ~(active_stream # None \/ held_fd # None)
    <3>1. fd[p] # None /\ \A q \in Proc : hfd[q] = None /\ pc[q] # "joined"
      BY <1>30 DEF InstallHold
    <3>2. stats_pc = "none" /\ ~stats_started
      BY <2>2, <3>1
    <3>3. stats_pc' # "none" => stats_started' /\ stats_pc' = "start"
      BY <1>30, <2>2, <3>2 DEF InstallHold
    <3>4. held_fd' = fd[p] /\ fd[p] \in Fds
      BY <1>30, <2>2, <3>1 DEF InstallHold
    <3>5. stats_pc' = "none" => ~stats_started'
      BY <1>30, <2>2, <3>2 DEF InstallHold
    <3> QED
      BY <3>3, <3>4, <3>5
  <2> QED
    BY <2>1, <2>2
<1>31. ASSUME NEW p \in Proc, Clear(p) PROVE RefresherInv'
  BY <1>31 DEF Clear, Finish
<1>32. ASSUME NEW p \in Proc, OpenForScan(p) PROVE RefresherInv'
  BY <1>32 DEF OpenForScan, Goto, FrontendOpen, FrontendRefused
<1>33. ASSUME NEW p \in Proc, BootDone(p) PROVE RefresherInv'
  BY <1>33 DEF BootDone, Goto, CloseOwn, FrontendClose
<1>34. ASSUME NEW p \in Proc, ScanDrop(p) PROVE RefresherInv'
  BY <1>34 DEF ScanDrop, Goto, CloseOwn, FrontendClose
<1>35. ASSUME NEW p \in Proc, ScanEnd(p) PROVE RefresherInv'
  BY <1>35 DEF ScanEnd, Goto
<1>36. ASSUME NEW p \in Proc, BeginBoot(p) PROVE RefresherInv'
  BY <1>36 DEF BeginBoot, Claim, WaitForClaim, Detach
<1>37. ASSUME NEW p \in Proc, BeginClear(p) PROVE RefresherInv'
  BY <1>37 DEF BeginClear
<1>38. ASSUME NEW p \in Proc, EndStream(p) PROVE RefresherInv'
  BY <1>38 DEF EndStream, Goto
<1>39. ASSUME NEW p \in Proc, ScanTune(p) PROVE RefresherInv'
  BY <1>39 DEF ScanTune
<1>40. ASSUME NEW p \in Proc, ScanDone(p) PROVE RefresherInv'
  BY <1>40 DEF ScanDone, Goto
<1>41. ASSUME NEW p \in Proc, NEW c \in Chans, NEW k \in {"pull", "push"},
     BeginStream(p, k, c)
     PROVE RefresherInv'
  BY <1>41 DEF BeginStream, Claim, WaitForClaim, Detach
<1>42. ASSUME NEW p \in Proc, NEW c \in Chans, Select(p, c) PROVE RefresherInv'
  BY <1>42 DEF Select
<1>43. ASSUME NEW p \in Proc, NEW f \in Freqs, ScanClaim(p, f)
     PROVE RefresherInv'
  BY <1>43 DEF ScanClaim
<1>44. ASSUME NEW f \in Freqs, QueueChannel(f) PROVE RefresherInv'
  BY <1>44 DEF QueueChannel
<1>45. ASSUME NEW i \in Timers, TimerExpire(i) PROVE RefresherInv'
  BY <1>45 DEF TimerExpire
<1>46. ASSUME NEW i \in Timers, TimerClose(i) PROVE RefresherInv'
  BY <1>46 DEF TimerClose, FrontendClose
<1>47. ASSUME Stats PROVE RefresherInv'
  BY <1>47 DEF Stats, StatsStart, StatsRead, StatsWake, StatsMustStop
<1>48. CASE UNCHANGED vars
  BY <1>48 DEF vars, tunerVars
<1> HIDE
     DEF TypeOK, TypeFds, TypeFields, TypeControl, ControlInv, HandsInv, WithFd,
         Disposing, SoleOwner, EmptyHanded, NoThreadFd, NoTimerFd, RefresherInv,
         RefreshedFd, ClaimedPcs, SharedPcs, ClaimKinds, Streams, StreamPcs, At,
         Job, NoJob, ParkJob, ClaimJob
<1> QED
  BY <1>1, <1>2, <1>3, <1>4, <1>5, <1>6, <1>7, <1>8, <1>9, <1>10, <1>11,
       <1>12, <1>13, <1>14, <1>15, <1>16, <1>17, <1>18, <1>19, <1>20, <1>21,
       <1>22, <1>23, <1>24, <1>25, <1>26, <1>27, <1>28, <1>29, <1>30, <1>31,
       <1>32, <1>33, <1>34, <1>35, <1>36, <1>37, <1>38, <1>39, <1>40, <1>41,
       <1>42, <1>43, <1>44, <1>45, <1>46, <1>47, <1>48
      DEF Next, Step, Env, TimerStep

\* Every step leaves a parked frontend on a free tuner with its own expiry
\* timer pending.
LEMMA ParkStep ==
  TypeOK /\ ControlInv /\ ClaimExclusive /\ TimerInv /\ HandsInv /\ SoleOwner
    /\ ParkedIsTimed /\ [Next]_vars
    => ParkedIsTimed'
<1> SUFFICES ASSUME TypeOK, ControlInv, ClaimExclusive, TimerInv, HandsInv,
     SoleOwner, ParkedIsTimed, [Next]_vars
     PROVE ParkedIsTimed'
  OBVIOUS
<1> USE TunerAssumption
    DEF TypeOK, TypeControl, TypeFds, TypeFields, TimerInv, ControlInv,
        ClaimExclusive, HasClaim, ClaimedPcs, SharedPcs, ClaimKinds, HandsInv,
        WithFd, Disposing, SoleOwner, EmptyHanded, NoThreadFd, NoTimerFd,
        Streams, StreamPcs, At, Job, NoJob, ParkJob, ClaimJob, ParkedIsTimed,
        vars, tunerVars, selVars, scanVars, parkVars, statsVars, devVars,
        ctlVars, ownVars, devStep
<1>1. ASSUME NEW p \in Proc, Recheck(p) PROVE ParkedIsTimed'
  BY <1>1 DEF Recheck, Claim, WaitForClaim, Detach
<1>2. ASSUME NEW p \in Proc, WaitTimeout(p) PROVE ParkedIsTimed'
  BY <1>2 DEF WaitTimeout, Claim, Detach, Finish
<1>3. ASSUME NEW p \in Proc, OpenSession(p) PROVE ParkedIsTimed'
  BY <1>3 DEF OpenSession
<1>4. ASSUME NEW p \in Proc, StopStats(p) PROVE ParkedIsTimed'
  BY <1>4 DEF StopStats, Goto
<1>5. ASSUME NEW p \in Proc, JoinStats(p) PROVE ParkedIsTimed'
  BY <1>5 DEF JoinStats, Goto
<1>6. ASSUME NEW p \in Proc, ForgetStats(p) PROVE ParkedIsTimed'
  BY <1>6 DEF ForgetStats, Goto
<1>7. ASSUME NEW p \in Proc, DisposeHeld(p) PROVE ParkedIsTimed'
  BY <1>7 DEF DisposeHeld, Goto, FrontendClose, WantsFd
<1>8. ASSUME NEW p \in Proc, DisposeParked(p) PROVE ParkedIsTimed'
  BY <1>8 DEF DisposeParked, Goto, FrontendClose, WantsFd
<1>9. ASSUME NEW p \in Proc, AdoptFd(p) PROVE ParkedIsTimed'
  BY <1>9 DEF AdoptFd, Goto
<1>10. ASSUME NEW p \in Proc, OpenForStream(p) PROVE ParkedIsTimed'
  BY <1>10 DEF OpenForStream, Goto, FrontendOpen, FrontendRefused
<1>11. ASSUME NEW p \in Proc, TuneStream(p) PROVE ParkedIsTimed'
  BY <1>11 DEF TuneStream, Goto, CloseOwn, FrontendClose
<1>12. ASSUME NEW p \in Proc, LockStream(p) PROVE ParkedIsTimed'
  BY <1>12 DEF LockStream, Goto, CloseOwn, FrontendClose
<1>13. ASSUME NEW p \in Proc, ReopenStream(p) PROVE ParkedIsTimed'
  BY <1>13 DEF ReopenStream, Goto, FrontendOpen, FrontendRefused
<1>14. ASSUME NEW p \in Proc, RelockStream(p) PROVE ParkedIsTimed'
  BY <1>14 DEF RelockStream, Goto, CloseOwn, FrontendClose
<1>15. ASSUME NEW p \in Proc, Bind(p) PROVE ParkedIsTimed'
  BY <1>15 DEF Bind, Goto
<1>16. ASSUME NEW p \in Proc, SetStream(p) PROVE ParkedIsTimed'
  BY <1>16 DEF SetStream, Goto
<1>17. ASSUME NEW p \in Proc, Unbind(p) PROVE ParkedIsTimed'
  BY <1>17 DEF Unbind, Goto
<1>18. ASSUME NEW p \in Proc, Park(p) PROVE ParkedIsTimed'
  BY <1>18 DEF Park, Goto
<1>19. ASSUME NEW p \in Proc, Unpark(p) PROVE ParkedIsTimed'
  BY <1>19 DEF Unpark, Goto
<1>20. ASSUME NEW p \in Proc, ParkFd(p) PROVE ParkedIsTimed'
  BY <1>20 DEF ParkFd, FreeTo, Waiting
<1>21. ASSUME NEW p \in Proc, ParkFails(p) PROVE ParkedIsTimed'
  BY <1>21 DEF ParkFails, FreeTo, Waiting
<1>22. ASSUME NEW p \in Proc, ClosePark(p) PROVE ParkedIsTimed'
  BY <1>22 DEF ClosePark, CloseOwn, FrontendClose, Finish
<1>23. ASSUME NEW p \in Proc, StartTimer(p) PROVE ParkedIsTimed'
  BY <1>23 DEF StartTimer, Goto, Finish
<1>24. ASSUME NEW p \in Proc, Release(p) PROVE ParkedIsTimed'
  BY <1>24 DEF Release, Goto
<1>25. ASSUME NEW p \in Proc, CloseStream(p) PROVE ParkedIsTimed'
  BY <1>25 DEF CloseStream, Goto, CloseOwn, FrontendClose
<1>26. ASSUME NEW p \in Proc, Free(p) PROVE ParkedIsTimed'
  BY <1>26 DEF Free, FreeTo, Waiting
<1>27. ASSUME NEW p \in Proc, EnterHold(p) PROVE ParkedIsTimed'
  BY <1>27
      DEF EnterHold, Detach, HoldDone, Finish, Goto, CloseOwn, FrontendClose
<1>28. ASSUME NEW p \in Proc, OpenHold(p) PROVE ParkedIsTimed'
  BY <1>28 DEF OpenHold, FrontendOpen, FrontendRefused, HoldDone, Finish, Goto
<1>29. ASSUME NEW p \in Proc, TuneHold(p) PROVE ParkedIsTimed'
  BY <1>29 DEF TuneHold, Goto, CloseOwn, FrontendClose, HoldDone, Finish
<1>30. ASSUME NEW p \in Proc, InstallHold(p) PROVE ParkedIsTimed'
  <2>1. CASE active_stream # None \/ held_fd # None
    BY <1>30, <2>1 DEF InstallHold, CloseOwn, HoldDone, Finish, Goto
  <2>2. CASE ~(active_stream # None \/ held_fd # None)
    BY <1>30, <2>2 DEF InstallHold, HoldDone, Finish, Goto
  <2> QED
    BY <2>1, <2>2
<1>31. ASSUME NEW p \in Proc, Clear(p) PROVE ParkedIsTimed'
  BY <1>31 DEF Clear, Finish
<1>32. ASSUME NEW p \in Proc, OpenForScan(p) PROVE ParkedIsTimed'
  <2>1. CASE FrontendOpen(p, None) /\ Goto(p, "scan")
    BY <1>32, <2>1 DEF OpenForScan, Goto, FrontendOpen
  <2>2. CASE UNCHANGED <<devVars, fd>> /\ Goto(p, IF job[p].kind = "scan" THEN
       "scanend" ELSE "release")
    BY <1>32, <2>2 DEF OpenForScan, Goto
  <2> QED
    BY <1>32, <2>1, <2>2 DEF OpenForScan
<1>33. ASSUME NEW p \in Proc, BootDone(p) PROVE ParkedIsTimed'
  BY <1>33 DEF BootDone, Goto, CloseOwn, FrontendClose
<1>34. ASSUME NEW p \in Proc, ScanDrop(p) PROVE ParkedIsTimed'
  BY <1>34 DEF ScanDrop, Goto, CloseOwn, FrontendClose
<1>35. ASSUME NEW p \in Proc, ScanEnd(p) PROVE ParkedIsTimed'
  BY <1>35 DEF ScanEnd, Goto
<1>36. ASSUME NEW p \in Proc, BeginBoot(p) PROVE ParkedIsTimed'
  BY <1>36 DEF BeginBoot, Claim, WaitForClaim, Detach
<1>37. ASSUME NEW p \in Proc, BeginClear(p) PROVE ParkedIsTimed'
  BY <1>37 DEF BeginClear
<1>38. ASSUME NEW p \in Proc, EndStream(p) PROVE ParkedIsTimed'
  BY <1>38 DEF EndStream, Goto
<1>39. ASSUME NEW p \in Proc, ScanTune(p) PROVE ParkedIsTimed'
  BY <1>39 DEF ScanTune
<1>40. ASSUME NEW p \in Proc, ScanDone(p) PROVE ParkedIsTimed'
  BY <1>40 DEF ScanDone, Goto
<1>41. ASSUME NEW p \in Proc, NEW c \in Chans, NEW k \in {"pull", "push"},
     BeginStream(p, k, c)
     PROVE ParkedIsTimed'
  BY <1>41 DEF BeginStream, Claim, WaitForClaim, Detach
<1>42. ASSUME NEW p \in Proc, NEW c \in Chans, Select(p, c)
     PROVE ParkedIsTimed'
  BY <1>42 DEF Select
<1>43. ASSUME NEW p \in Proc, NEW f \in Freqs, ScanClaim(p, f)
     PROVE ParkedIsTimed'
  BY <1>43 DEF ScanClaim
<1>44. ASSUME NEW f \in Freqs, QueueChannel(f) PROVE ParkedIsTimed'
  BY <1>44 DEF QueueChannel
<1>45. ASSUME NEW i \in Timers, TimerExpire(i) PROVE ParkedIsTimed'
  BY <1>45 DEF TimerExpire
<1>46. ASSUME NEW i \in Timers, TimerClose(i) PROVE ParkedIsTimed'
  BY <1>46 DEF TimerClose, FrontendClose
<1>47. ASSUME Stats PROVE ParkedIsTimed'
  BY <1>47 DEF Stats, StatsStart, StatsRead, StatsWake, StatsMustStop
<1>48. CASE UNCHANGED vars
  BY <1>48 DEF vars, tunerVars
<1> HIDE
     DEF TypeOK, TypeControl, TypeFds, TypeFields, TimerInv, ControlInv,
         ClaimExclusive, HasClaim, ClaimedPcs, SharedPcs, ClaimKinds, HandsInv,
         WithFd, Disposing, SoleOwner, EmptyHanded, NoThreadFd, NoTimerFd,
         Streams, StreamPcs, At, Job, NoJob, ParkJob, ClaimJob, ParkedIsTimed
<1> QED
  BY <1>1, <1>2, <1>3, <1>4, <1>5, <1>6, <1>7, <1>8, <1>9, <1>10, <1>11,
       <1>12, <1>13, <1>14, <1>15, <1>16, <1>17, <1>18, <1>19, <1>20, <1>21,
       <1>22, <1>23, <1>24, <1>25, <1>26, <1>27, <1>28, <1>29, <1>30, <1>31,
       <1>32, <1>33, <1>34, <1>35, <1>36, <1>37, <1>38, <1>39, <1>40, <1>41,
       <1>42, <1>43, <1>44, <1>45, <1>46, <1>47, <1>48
      DEF Next, Step, Env, TimerStep

\* Every step leaves no thread asleep on a free tuner without another one
\* woken: busy is cleared only in sections that signal free_cond.
LEMMA WakeupStep == TypeOK /\ NoLostWakeup /\ [Next]_vars => NoLostWakeup'
<1> SUFFICES ASSUME TypeOK, NoLostWakeup, [Next]_vars PROVE NoLostWakeup'
  OBVIOUS
<1> USE TunerAssumption
    DEF TypeOK, TypeControl, TypeFields, NoLostWakeup, Waiting, At, vars,
        tunerVars, selVars, scanVars, parkVars, statsVars, devVars, ctlVars,
        ownVars, devStep
<1>1. ASSUME NEW p \in Proc, Recheck(p) PROVE NoLostWakeup'
  BY <1>1 DEF Recheck, Claim, WaitForClaim, Detach
<1>2. ASSUME NEW p \in Proc, WaitTimeout(p) PROVE NoLostWakeup'
  BY <1>2 DEF WaitTimeout, Claim, Detach, Finish
<1>3. ASSUME NEW p \in Proc, OpenSession(p) PROVE NoLostWakeup'
  BY <1>3 DEF OpenSession
<1>4. ASSUME NEW p \in Proc, StopStats(p) PROVE NoLostWakeup'
  BY <1>4 DEF StopStats, Goto
<1>5. ASSUME NEW p \in Proc, JoinStats(p) PROVE NoLostWakeup'
  BY <1>5 DEF JoinStats, Goto
<1>6. ASSUME NEW p \in Proc, ForgetStats(p) PROVE NoLostWakeup'
  BY <1>6 DEF ForgetStats, Goto
<1>7. ASSUME NEW p \in Proc, DisposeHeld(p) PROVE NoLostWakeup'
  BY <1>7 DEF DisposeHeld, Goto, FrontendClose, WantsFd
<1>8. ASSUME NEW p \in Proc, DisposeParked(p) PROVE NoLostWakeup'
  BY <1>8 DEF DisposeParked, Goto, FrontendClose, WantsFd
<1>9. ASSUME NEW p \in Proc, AdoptFd(p) PROVE NoLostWakeup'
  BY <1>9 DEF AdoptFd, Goto
<1>10. ASSUME NEW p \in Proc, OpenForStream(p) PROVE NoLostWakeup'
  BY <1>10 DEF OpenForStream, Goto, FrontendOpen, FrontendRefused
<1>11. ASSUME NEW p \in Proc, TuneStream(p) PROVE NoLostWakeup'
  BY <1>11 DEF TuneStream, Goto, CloseOwn, FrontendClose
<1>12. ASSUME NEW p \in Proc, LockStream(p) PROVE NoLostWakeup'
  BY <1>12 DEF LockStream, Goto, CloseOwn, FrontendClose
<1>13. ASSUME NEW p \in Proc, ReopenStream(p) PROVE NoLostWakeup'
  BY <1>13 DEF ReopenStream, Goto, FrontendOpen, FrontendRefused
<1>14. ASSUME NEW p \in Proc, RelockStream(p) PROVE NoLostWakeup'
  BY <1>14 DEF RelockStream, Goto, CloseOwn, FrontendClose
<1>15. ASSUME NEW p \in Proc, Bind(p) PROVE NoLostWakeup'
  BY <1>15 DEF Bind, Goto
<1>16. ASSUME NEW p \in Proc, SetStream(p) PROVE NoLostWakeup'
  BY <1>16 DEF SetStream, Goto
<1>17. ASSUME NEW p \in Proc, Unbind(p) PROVE NoLostWakeup'
  BY <1>17 DEF Unbind, Goto
<1>18. ASSUME NEW p \in Proc, Park(p) PROVE NoLostWakeup'
  BY <1>18 DEF Park, Goto
<1>19. ASSUME NEW p \in Proc, Unpark(p) PROVE NoLostWakeup'
  BY <1>19 DEF Unpark, Goto
<1>20. ASSUME NEW p \in Proc, ParkFd(p) PROVE NoLostWakeup'
  BY <1>20 DEF ParkFd, FreeTo, Waiting
<1>21. ASSUME NEW p \in Proc, ParkFails(p) PROVE NoLostWakeup'
  BY <1>21 DEF ParkFails, FreeTo, Waiting
<1>22. ASSUME NEW p \in Proc, ClosePark(p) PROVE NoLostWakeup'
  BY <1>22 DEF ClosePark, CloseOwn, FrontendClose, Finish
<1>23. ASSUME NEW p \in Proc, StartTimer(p) PROVE NoLostWakeup'
  BY <1>23 DEF StartTimer, Goto, Finish
<1>24. ASSUME NEW p \in Proc, Release(p) PROVE NoLostWakeup'
  BY <1>24 DEF Release, Goto
<1>25. ASSUME NEW p \in Proc, CloseStream(p) PROVE NoLostWakeup'
  BY <1>25 DEF CloseStream, Goto, CloseOwn, FrontendClose
<1>26. ASSUME NEW p \in Proc, Free(p) PROVE NoLostWakeup'
  BY <1>26 DEF Free, FreeTo, Waiting
<1>27. ASSUME NEW p \in Proc, EnterHold(p) PROVE NoLostWakeup'
  BY <1>27
      DEF EnterHold, Detach, HoldDone, Finish, Goto, CloseOwn, FrontendClose
<1>28. ASSUME NEW p \in Proc, OpenHold(p) PROVE NoLostWakeup'
  BY <1>28 DEF OpenHold, FrontendOpen, FrontendRefused, HoldDone, Finish, Goto
<1>29. ASSUME NEW p \in Proc, TuneHold(p) PROVE NoLostWakeup'
  BY <1>29 DEF TuneHold, Goto, CloseOwn, FrontendClose, HoldDone, Finish
<1>30. ASSUME NEW p \in Proc, InstallHold(p) PROVE NoLostWakeup'
  BY <1>30 DEF InstallHold, CloseOwn, FrontendClose, HoldDone, Finish, Goto
<1>31. ASSUME NEW p \in Proc, Clear(p) PROVE NoLostWakeup'
  BY <1>31 DEF Clear, Finish
<1>32. ASSUME NEW p \in Proc, OpenForScan(p) PROVE NoLostWakeup'
  BY <1>32 DEF OpenForScan, Goto, FrontendOpen, FrontendRefused
<1>33. ASSUME NEW p \in Proc, BootDone(p) PROVE NoLostWakeup'
  BY <1>33 DEF BootDone, Goto, CloseOwn, FrontendClose
<1>34. ASSUME NEW p \in Proc, ScanDrop(p) PROVE NoLostWakeup'
  BY <1>34 DEF ScanDrop, Goto, CloseOwn, FrontendClose
<1>35. ASSUME NEW p \in Proc, ScanEnd(p) PROVE NoLostWakeup'
  BY <1>35 DEF ScanEnd, Goto
<1>36. ASSUME NEW p \in Proc, BeginBoot(p) PROVE NoLostWakeup'
  BY <1>36 DEF BeginBoot, Claim, WaitForClaim, Detach
<1>37. ASSUME NEW p \in Proc, BeginClear(p) PROVE NoLostWakeup'
  BY <1>37 DEF BeginClear
<1>38. ASSUME NEW p \in Proc, EndStream(p) PROVE NoLostWakeup'
  BY <1>38 DEF EndStream, Goto
<1>39. ASSUME NEW p \in Proc, ScanTune(p) PROVE NoLostWakeup'
  BY <1>39 DEF ScanTune
<1>40. ASSUME NEW p \in Proc, ScanDone(p) PROVE NoLostWakeup'
  BY <1>40 DEF ScanDone, Goto
<1>41. ASSUME NEW p \in Proc, NEW c \in Chans, NEW k \in {"pull", "push"},
     BeginStream(p, k, c)
     PROVE NoLostWakeup'
  BY <1>41 DEF BeginStream, Claim, WaitForClaim, Detach
<1>42. ASSUME NEW p \in Proc, NEW c \in Chans, Select(p, c) PROVE NoLostWakeup'
  BY <1>42 DEF Select
<1>43. ASSUME NEW p \in Proc, NEW f \in Freqs, ScanClaim(p, f)
     PROVE NoLostWakeup'
  BY <1>43 DEF ScanClaim
<1>44. ASSUME NEW f \in Freqs, QueueChannel(f) PROVE NoLostWakeup'
  BY <1>44 DEF QueueChannel
<1>45. ASSUME NEW i \in Timers, TimerExpire(i) PROVE NoLostWakeup'
  BY <1>45 DEF TimerExpire
<1>46. ASSUME NEW i \in Timers, TimerClose(i) PROVE NoLostWakeup'
  BY <1>46 DEF TimerClose, FrontendClose
<1>47. ASSUME Stats PROVE NoLostWakeup'
  BY <1>47 DEF Stats, StatsStart, StatsRead, StatsWake, StatsMustStop
<1>48. CASE UNCHANGED vars
  BY <1>48 DEF vars, tunerVars
<1> HIDE DEF TypeOK, TypeControl, TypeFields, NoLostWakeup, Waiting, At
<1> QED
  BY <1>1, <1>2, <1>3, <1>4, <1>5, <1>6, <1>7, <1>8, <1>9, <1>10, <1>11,
       <1>12, <1>13, <1>14, <1>15, <1>16, <1>17, <1>18, <1>19, <1>20, <1>21,
       <1>22, <1>23, <1>24, <1>25, <1>26, <1>27, <1>28, <1>29, <1>30, <1>31,
       <1>32, <1>33, <1>34, <1>35, <1>36, <1>37, <1>38, <1>39, <1>40, <1>41,
       <1>42, <1>43, <1>44, <1>45, <1>46, <1>47, <1>48
      DEF Next, Step, Env, TimerStep

\* Every step leaves a locked stream's frontend on its mux: only the owner of
\* the descriptor retunes it.
LEMMA MuxStep ==
  TypeOK /\ ControlInv /\ ClaimExclusive /\ TimerInv /\ HandsInv /\ SoleOwner
    /\ NoStaleFd /\ MuxInv /\ [Next]_vars
    => MuxInv'
<1> SUFFICES ASSUME TypeOK, ControlInv, ClaimExclusive, TimerInv, HandsInv,
     SoleOwner, NoStaleFd, MuxInv, [Next]_vars
     PROVE MuxInv'
  OBVIOUS
<1> USE TunerAssumption
    DEF TypeOK, TypeControl, TypeFds, TypeFields, TimerInv, ControlInv,
        ClaimExclusive, HasClaim, ClaimedPcs, SharedPcs, ClaimKinds, HandsInv,
        WithFd, Disposing, SoleOwner, EmptyHanded, NoThreadFd, NoTimerFd,
        Streams, StreamPcs, At, Job, NoJob, ParkJob, ClaimJob, MuxInv, vars,
        tunerVars, selVars, scanVars, parkVars, statsVars, devVars, ctlVars,
        ownVars, devStep
<1>1. ASSUME NEW p \in Proc, Recheck(p) PROVE MuxInv'
  BY <1>1 DEF Recheck, Claim, WaitForClaim, Detach
<1>2. ASSUME NEW p \in Proc, WaitTimeout(p) PROVE MuxInv'
  BY <1>2 DEF WaitTimeout, Claim, Detach, Finish
<1>3. ASSUME NEW p \in Proc, OpenSession(p) PROVE MuxInv'
  BY <1>3 DEF OpenSession
<1>4. ASSUME NEW p \in Proc, StopStats(p) PROVE MuxInv'
  BY <1>4 DEF StopStats, Goto
<1>5. ASSUME NEW p \in Proc, JoinStats(p) PROVE MuxInv'
  BY <1>5 DEF JoinStats, Goto
<1>6. ASSUME NEW p \in Proc, ForgetStats(p) PROVE MuxInv'
  BY <1>6 DEF ForgetStats, Goto
<1>7. ASSUME NEW p \in Proc, DisposeHeld(p) PROVE MuxInv'
  BY <1>7 DEF DisposeHeld, Goto, FrontendClose, WantsFd
<1>8. ASSUME NEW p \in Proc, DisposeParked(p) PROVE MuxInv'
  BY <1>8 DEF DisposeParked, Goto, FrontendClose, WantsFd
<1>9. ASSUME NEW p \in Proc, AdoptFd(p) PROVE MuxInv'
  BY <1>9 DEF AdoptFd, Goto
<1>10. ASSUME NEW p \in Proc, OpenForStream(p) PROVE MuxInv'
  BY <1>10 DEF OpenForStream, Goto, FrontendOpen, FrontendRefused
<1>11. ASSUME NEW p \in Proc, TuneStream(p) PROVE MuxInv'
  BY <1>11 DEF TuneStream, Goto, CloseOwn, FrontendClose
<1>12. ASSUME NEW p \in Proc, LockStream(p) PROVE MuxInv'
  BY <1>12 DEF LockStream, Goto, CloseOwn, FrontendClose
<1>13. ASSUME NEW p \in Proc, ReopenStream(p) PROVE MuxInv'
  BY <1>13 DEF ReopenStream, Goto, FrontendOpen, FrontendRefused
<1>14. ASSUME NEW p \in Proc, RelockStream(p) PROVE MuxInv'
  BY <1>14 DEF RelockStream, Goto, CloseOwn, FrontendClose
<1>15. ASSUME NEW p \in Proc, Bind(p) PROVE MuxInv'
  BY <1>15 DEF Bind, Goto
<1>16. ASSUME NEW p \in Proc, SetStream(p) PROVE MuxInv'
  BY <1>16 DEF SetStream, Goto
<1>17. ASSUME NEW p \in Proc, Unbind(p) PROVE MuxInv'
  BY <1>17 DEF Unbind, Goto
<1>18. ASSUME NEW p \in Proc, Park(p) PROVE MuxInv'
  BY <1>18 DEF Park, Goto
<1>19. ASSUME NEW p \in Proc, Unpark(p) PROVE MuxInv'
  BY <1>19 DEF Unpark, Goto
<1>20. ASSUME NEW p \in Proc, ParkFd(p) PROVE MuxInv'
  BY <1>20 DEF ParkFd, FreeTo, Waiting
<1>21. ASSUME NEW p \in Proc, ParkFails(p) PROVE MuxInv'
  BY <1>21 DEF ParkFails, FreeTo, Waiting
<1>22. ASSUME NEW p \in Proc, ClosePark(p) PROVE MuxInv'
  BY <1>22 DEF ClosePark, CloseOwn, FrontendClose, Finish
<1>23. ASSUME NEW p \in Proc, StartTimer(p) PROVE MuxInv'
  BY <1>23 DEF StartTimer, Goto, Finish
<1>24. ASSUME NEW p \in Proc, Release(p) PROVE MuxInv'
  BY <1>24 DEF Release, Goto
<1>25. ASSUME NEW p \in Proc, CloseStream(p) PROVE MuxInv'
  BY <1>25 DEF CloseStream, Goto, CloseOwn, FrontendClose
<1>26. ASSUME NEW p \in Proc, Free(p) PROVE MuxInv'
  BY <1>26 DEF Free, FreeTo, Waiting
<1>27. ASSUME NEW p \in Proc, EnterHold(p) PROVE MuxInv'
  BY <1>27
      DEF EnterHold, Detach, HoldDone, Finish, Goto, CloseOwn, FrontendClose
<1>28. ASSUME NEW p \in Proc, OpenHold(p) PROVE MuxInv'
  BY <1>28 DEF OpenHold, FrontendOpen, FrontendRefused, HoldDone, Finish, Goto,
           NoStaleFd
<1>29. ASSUME NEW p \in Proc, TuneHold(p) PROVE MuxInv'
  BY <1>29 DEF TuneHold, Goto, CloseOwn, FrontendClose, HoldDone, Finish
<1>30. ASSUME NEW p \in Proc, InstallHold(p) PROVE MuxInv'
  <2>1. CASE active_stream # None \/ held_fd # None
    BY <1>30, <2>1 DEF InstallHold, CloseOwn, HoldDone, Finish, Goto
  <2>2. CASE ~(active_stream # None \/ held_fd # None)
    BY <1>30, <2>2 DEF InstallHold, HoldDone, Finish, Goto
  <2> QED
    BY <2>1, <2>2
<1>31. ASSUME NEW p \in Proc, Clear(p) PROVE MuxInv'
  BY <1>31 DEF Clear, Finish
<1>32. ASSUME NEW p \in Proc, OpenForScan(p) PROVE MuxInv'
  <2>1. CASE FrontendOpen(p, None) /\ Goto(p, "scan")
    BY <1>32, <2>1 DEF OpenForScan, Goto, FrontendOpen
  <2>2. CASE UNCHANGED <<devVars, fd>> /\ Goto(p, IF job[p].kind = "scan" THEN
       "scanend" ELSE "release")
    BY <1>32, <2>2 DEF OpenForScan, Goto
  <2> QED
    BY <1>32, <2>1, <2>2 DEF OpenForScan
<1>33. ASSUME NEW p \in Proc, BootDone(p) PROVE MuxInv'
  BY <1>33 DEF BootDone, Goto, CloseOwn, FrontendClose
<1>34. ASSUME NEW p \in Proc, ScanDrop(p) PROVE MuxInv'
  BY <1>34 DEF ScanDrop, Goto, CloseOwn, FrontendClose
<1>35. ASSUME NEW p \in Proc, ScanEnd(p) PROVE MuxInv'
  BY <1>35 DEF ScanEnd, Goto
<1>36. ASSUME NEW p \in Proc, BeginBoot(p) PROVE MuxInv'
  BY <1>36 DEF BeginBoot, Claim, WaitForClaim, Detach
<1>37. ASSUME NEW p \in Proc, BeginClear(p) PROVE MuxInv'
  BY <1>37 DEF BeginClear
<1>38. ASSUME NEW p \in Proc, EndStream(p) PROVE MuxInv'
  BY <1>38 DEF EndStream, Goto
<1>39. ASSUME NEW p \in Proc, ScanTune(p) PROVE MuxInv'
  BY <1>39 DEF ScanTune
<1>40. ASSUME NEW p \in Proc, ScanDone(p) PROVE MuxInv'
  BY <1>40 DEF ScanDone, Goto
<1>41. ASSUME NEW p \in Proc, NEW c \in Chans, NEW k \in {"pull", "push"},
     BeginStream(p, k, c)
     PROVE MuxInv'
  BY <1>41 DEF BeginStream, Claim, WaitForClaim, Detach
<1>42. ASSUME NEW p \in Proc, NEW c \in Chans, Select(p, c) PROVE MuxInv'
  BY <1>42 DEF Select
<1>43. ASSUME NEW p \in Proc, NEW f \in Freqs, ScanClaim(p, f) PROVE MuxInv'
  BY <1>43 DEF ScanClaim
<1>44. ASSUME NEW f \in Freqs, QueueChannel(f) PROVE MuxInv'
  BY <1>44 DEF QueueChannel
<1>45. ASSUME NEW i \in Timers, TimerExpire(i) PROVE MuxInv'
  BY <1>45 DEF TimerExpire
<1>46. ASSUME NEW i \in Timers, TimerClose(i) PROVE MuxInv'
  BY <1>46 DEF TimerClose, FrontendClose
<1>47. ASSUME Stats PROVE MuxInv'
  BY <1>47 DEF Stats, StatsStart, StatsRead, StatsWake, StatsMustStop
<1>48. CASE UNCHANGED vars
  BY <1>48 DEF vars, tunerVars
<1> HIDE
     DEF TypeOK, TypeControl, TypeFds, TypeFields, TimerInv, ControlInv,
         ClaimExclusive, HasClaim, ClaimedPcs, SharedPcs, ClaimKinds, HandsInv,
         WithFd, Disposing, SoleOwner, EmptyHanded, NoThreadFd, NoTimerFd,
         Streams, StreamPcs, At, Job, NoJob, ParkJob, ClaimJob, MuxInv
<1> QED
  BY <1>1, <1>2, <1>3, <1>4, <1>5, <1>6, <1>7, <1>8, <1>9, <1>10, <1>11,
       <1>12, <1>13, <1>14, <1>15, <1>16, <1>17, <1>18, <1>19, <1>20, <1>21,
       <1>22, <1>23, <1>24, <1>25, <1>26, <1>27, <1>28, <1>29, <1>30, <1>31,
       <1>32, <1>33, <1>34, <1>35, <1>36, <1>37, <1>38, <1>39, <1>40, <1>41,
       <1>42, <1>43, <1>44, <1>45, <1>46, <1>47, <1>48
      DEF Next, Step, Env, TimerStep

\* The initial state satisfies the inductive invariant.
LEMMA InitInv == Init => IInv
<1> SUFFICES ASSUME Init PROVE IInv
  OBVIOUS
<1> USE TunerAssumption DEF Init
<1>1. TypeOK
  BY NoJobType DEF TypeOK, TypeControl, TypeFds, TypeFields, Pcs
<1>2. ControlInv /\ ClaimExclusive /\ TimerInv
  BY
      DEF ControlInv, ClaimExclusive, HasClaim, TimerInv, ClaimedPcs, SharedPcs,
          Disposing, StreamPcs, Streams, NoJob, Job
<1>3. HandsInv /\ SoleOwner /\ NoStaleFd /\ NoFdLeak
  BY
      DEF HandsInv, Disposing, WithFd, SoleOwner, EmptyHanded, NoThreadFd,
          NoTimerFd, NoStaleFd, NoFdLeak
<1>4. RefresherInv /\ ParkedIsTimed /\ NoLostWakeup /\ MuxInv
  BY DEF RefresherInv, ParkedIsTimed, NoLostWakeup, Waiting, MuxInv
<1> QED
  BY <1>1, <1>2, <1>3, <1>4 DEF IInv

\* Every step preserves the inductive invariant.
LEMMA InvStep == IInv /\ [Next]_vars => IInv'
<1> SUFFICES ASSUME IInv, [Next]_vars PROVE IInv'
  OBVIOUS
<1>1. TypeOK /\ ControlInv /\ ClaimExclusive /\ TimerInv /\ HandsInv /\
     SoleOwner /\ NoStaleFd /\ NoFdLeak /\ RefresherInv /\ ParkedIsTimed /\
     NoLostWakeup /\ MuxInv
  BY DEF IInv
<1>2. TypeOK' /\ ControlInv' /\ ClaimExclusive' /\ TimerInv'
  BY <1>1, TypeStep, ControlStep, ClaimStep, TimerStepInv
<1>3. HandsInv' /\ SoleOwner' /\ NoStaleFd' /\ NoFdLeak'
  BY <1>1, HandsStep, SoleOwnerStep, NoStaleFdStep, NoFdLeakStep
<1>4. RefresherInv' /\ ParkedIsTimed' /\ NoLostWakeup' /\ MuxInv'
  BY <1>1, RefresherStep, ParkStep, WakeupStep, MuxStep
<1> QED
  BY <1>2, <1>3, <1>4 DEF IInv

\* The inductive invariant holds in every reachable state, for any number of
\* threads, timers, channels and descriptors and any set of failing calls.
THEOREM Inductive == Spec => []IInv
BY InitInv, InvStep, PTL DEF Spec

\* Type correctness of the tuner, its threads and the device.
THEOREM TypeCorrect == Spec => []TypeOK
<1>1. IInv => TypeOK
  BY DEF IInv
<1> QED
  BY <1>1, Inductive, PTL

\* The frontend descriptor never has two owners, through every hand-over
\* between hold, park, stream, thread and timer in tuner.c.
THEOREM OwnedOnce == Spec => []SoleOwner
<1>1. IInv => SoleOwner
  BY DEF IInv
<1> QED
  BY <1>1, Inductive, PTL

\* No descriptor is closed twice or kept after it was closed.
THEOREM NeverStale == Spec => []NoStaleFd
<1>1. IInv => NoStaleFd
  BY DEF IInv
<1> QED
  BY <1>1, Inductive, PTL

\* No descriptor is leaked, whichever of open, tune, lock, demux set-up,
\* malloc and pthread_create fails.
THEOREM NeverLeaked == Spec => []NoFdLeak
<1>1. IInv => NoFdLeak
  BY DEF IInv
<1> QED
  BY <1>1, Inductive, PTL

\* busy is the claim of exactly one thread until it releases.
THEOREM ClaimedOnce == Spec => []ClaimExclusive
<1>1. IInv => ClaimExclusive
  BY DEF IInv
<1> QED
  BY <1>1, Inductive, PTL

\* A parked frontend always has its own expiry pending on a free tuner.
THEOREM ParkTimed == Spec => []ParkedIsTimed
<1>1. IInv => ParkedIsTimed
  BY DEF IInv
<1> QED
  BY <1>1, Inductive, PTL

\* tuner_try_claim_wait never misses the release it waits for.
THEOREM NoWaiterForgotten == Spec => []NoLostWakeup
<1>1. IInv => NoLostWakeup
  BY DEF IInv
<1> QED
  BY <1>1, Inductive, PTL

\* stop_held_stats_thread's guarantee: the refresher never reads a descriptor
\* that was closed or handed over.
THEOREM RefresherStable == Spec => []RefresherFdStable
<1>1. IInv => RefresherFdStable
  <2> SUFFICES ASSUME IInv, stats_pc = "read" PROVE RefresherFdStable
    BY DEF RefresherFdStable
  <2>1. stats_fd \in Fds /\ RefreshedFd(stats_fd)
    BY DEF IInv, RefresherInv
  <2>2. stats_fd \in open_fds
    BY <2>1, TunerAssumption DEF IInv, NoStaleFd, RefreshedFd
  <2> QED
    BY <2>1, <2>2 DEF RefresherFdStable, RefreshedFd
<1> QED
  BY <1>1, Inductive, PTL

\* A bound stream is on its channel's mux, whichever descriptor it adopted.
THEOREM OnItsMux == Spec => []StreamOnItsMux
<1>1. IInv => StreamOnItsMux
  BY DEF IInv, MuxInv, ControlInv, StreamPcs, StreamOnItsMux
<1> QED
  BY <1>1, Inductive, PTL

\* Some thread is about to install its fd as the hold, and there is none yet.
Installing == \E q \in Proc : At(q, "install") /\ held_fd = None /\ fd[q] # None

\* The only step that publishes a new hold is install_hold_fd, and it does so
\* with no refresher running or unjoined.
LEMMA InstallStep ==
  IInv /\ [Next]_vars /\ held_fd' # held_fd /\ held_fd' # None
    => ~stats_started /\ stats_pc = "none"
<1> SUFFICES ASSUME IInv, [Next]_vars, held_fd' # held_fd, held_fd' # None
             PROVE  ~stats_started /\ stats_pc = "none"
  OBVIOUS
<1>1. Installing
  <2> USE
      DEF vars, tunerVars, selVars, scanVars, parkVars, statsVars, devVars,
          ctlVars, ownVars, devStep, At
  <2>1. ASSUME NEW p \in Proc, Recheck(p) PROVE Installing
    BY <2>1 DEF Recheck, Claim, WaitForClaim, Detach
  <2>2. ASSUME NEW p \in Proc, WaitTimeout(p) PROVE Installing
    BY <2>2 DEF WaitTimeout, Claim, Detach, Finish
  <2>3. ASSUME NEW p \in Proc, OpenSession(p) PROVE Installing
    BY <2>3 DEF OpenSession
  <2>4. ASSUME NEW p \in Proc, StopStats(p) PROVE Installing
    BY <2>4 DEF StopStats, Goto
  <2>5. ASSUME NEW p \in Proc, JoinStats(p) PROVE Installing
    BY <2>5 DEF JoinStats, Goto
  <2>6. ASSUME NEW p \in Proc, ForgetStats(p) PROVE Installing
    BY <2>6 DEF ForgetStats, Goto
  <2>7. ASSUME NEW p \in Proc, DisposeHeld(p) PROVE Installing
    BY <2>7 DEF DisposeHeld, Goto, FrontendClose, WantsFd
  <2>8. ASSUME NEW p \in Proc, DisposeParked(p) PROVE Installing
    BY <2>8 DEF DisposeParked, Goto, FrontendClose, WantsFd
  <2>9. ASSUME NEW p \in Proc, AdoptFd(p) PROVE Installing
    BY <2>9 DEF AdoptFd, Goto
  <2>10. ASSUME NEW p \in Proc, OpenForStream(p) PROVE Installing
    BY <2>10 DEF OpenForStream, Goto, FrontendOpen, FrontendRefused
  <2>11. ASSUME NEW p \in Proc, TuneStream(p) PROVE Installing
    BY <2>11 DEF TuneStream, Goto, CloseOwn, FrontendClose
  <2>12. ASSUME NEW p \in Proc, LockStream(p) PROVE Installing
    BY <2>12 DEF LockStream, Goto, CloseOwn, FrontendClose
  <2>13. ASSUME NEW p \in Proc, ReopenStream(p) PROVE Installing
    BY <2>13 DEF ReopenStream, Goto, FrontendOpen, FrontendRefused
  <2>14. ASSUME NEW p \in Proc, RelockStream(p) PROVE Installing
    BY <2>14 DEF RelockStream, Goto, CloseOwn, FrontendClose
  <2>15. ASSUME NEW p \in Proc, Bind(p) PROVE Installing
    BY <2>15 DEF Bind, Goto
  <2>16. ASSUME NEW p \in Proc, SetStream(p) PROVE Installing
    BY <2>16 DEF SetStream, Goto
  <2>17. ASSUME NEW p \in Proc, Unbind(p) PROVE Installing
    BY <2>17 DEF Unbind, Goto
  <2>18. ASSUME NEW p \in Proc, Park(p) PROVE Installing
    BY <2>18 DEF Park, Goto
  <2>19. ASSUME NEW p \in Proc, Unpark(p) PROVE Installing
    BY <2>19 DEF Unpark, Goto
  <2>20. ASSUME NEW p \in Proc, ParkFd(p) PROVE Installing
    BY <2>20 DEF ParkFd, FreeTo, Waiting
  <2>21. ASSUME NEW p \in Proc, ParkFails(p) PROVE Installing
    BY <2>21 DEF ParkFails, FreeTo, Waiting
  <2>22. ASSUME NEW p \in Proc, ClosePark(p) PROVE Installing
    BY <2>22 DEF ClosePark, CloseOwn, FrontendClose, Finish
  <2>23. ASSUME NEW p \in Proc, StartTimer(p) PROVE Installing
    BY <2>23 DEF StartTimer, Goto, Finish
  <2>24. ASSUME NEW p \in Proc, Release(p) PROVE Installing
    BY <2>24 DEF Release, Goto
  <2>25. ASSUME NEW p \in Proc, CloseStream(p) PROVE Installing
    BY <2>25 DEF CloseStream, Goto, CloseOwn, FrontendClose
  <2>26. ASSUME NEW p \in Proc, Free(p) PROVE Installing
    BY <2>26 DEF Free, FreeTo, Waiting
  <2>27. ASSUME NEW p \in Proc, EnterHold(p) PROVE Installing
    BY <2>27
        DEF EnterHold, Detach, HoldDone, Finish, Goto, CloseOwn, FrontendClose
  <2>28. ASSUME NEW p \in Proc, OpenHold(p) PROVE Installing
    BY <2>28
        DEF OpenHold, FrontendOpen, FrontendRefused, HoldDone, Finish, Goto
  <2>29. ASSUME NEW p \in Proc, TuneHold(p) PROVE Installing
    BY <2>29 DEF TuneHold, Goto, CloseOwn, FrontendClose, HoldDone, Finish
  <2>30. ASSUME NEW p \in Proc, InstallHold(p) PROVE Installing
    BY <2>30 DEF Installing, InstallHold, IInv, HandsInv, WithFd
  <2>31. ASSUME NEW p \in Proc, Clear(p) PROVE Installing
    BY <2>31 DEF Clear, Finish
  <2>32. ASSUME NEW p \in Proc, OpenForScan(p) PROVE Installing
    BY <2>32 DEF OpenForScan, Goto, FrontendOpen, FrontendRefused
  <2>33. ASSUME NEW p \in Proc, BootDone(p) PROVE Installing
    BY <2>33 DEF BootDone, Goto, CloseOwn, FrontendClose
  <2>34. ASSUME NEW p \in Proc, ScanDrop(p) PROVE Installing
    BY <2>34 DEF ScanDrop, Goto, CloseOwn, FrontendClose
  <2>35. ASSUME NEW p \in Proc, ScanEnd(p) PROVE Installing
    BY <2>35 DEF ScanEnd, Goto
  <2>36. ASSUME NEW p \in Proc, BeginBoot(p) PROVE Installing
    BY <2>36 DEF BeginBoot, Claim, WaitForClaim, Detach
  <2>37. ASSUME NEW p \in Proc, BeginClear(p) PROVE Installing
    BY <2>37 DEF BeginClear
  <2>38. ASSUME NEW p \in Proc, EndStream(p) PROVE Installing
    BY <2>38 DEF EndStream, Goto
  <2>39. ASSUME NEW p \in Proc, ScanTune(p) PROVE Installing
    BY <2>39 DEF ScanTune
  <2>40. ASSUME NEW p \in Proc, ScanDone(p) PROVE Installing
    BY <2>40 DEF ScanDone, Goto
  <2>41. ASSUME NEW p \in Proc, NEW c \in Chans, NEW k \in {"pull", "push"},
       BeginStream(p, k, c)
       PROVE Installing
    BY <2>41 DEF BeginStream, Claim, WaitForClaim, Detach
  <2>42. ASSUME NEW p \in Proc, NEW c \in Chans, Select(p, c) PROVE Installing
    BY <2>42 DEF Select
  <2>43. ASSUME NEW p \in Proc, NEW f \in Freqs, ScanClaim(p, f)
       PROVE Installing
    BY <2>43 DEF ScanClaim
  <2>44. ASSUME NEW f \in Freqs, QueueChannel(f) PROVE Installing
    BY <2>44 DEF QueueChannel
  <2>45. ASSUME NEW i \in Timers, TimerExpire(i) PROVE Installing
    BY <2>45 DEF TimerExpire
  <2>46. ASSUME NEW i \in Timers, TimerClose(i) PROVE Installing
    BY <2>46 DEF TimerClose, FrontendClose
  <2>47. ASSUME Stats PROVE Installing
    BY <2>47 DEF Stats, StatsStart, StatsRead, StatsWake, StatsMustStop
  <2>48. CASE UNCHANGED vars
    BY <2>48 DEF vars, tunerVars
  <2> HIDE DEF vars, At
  <2> QED
    BY <2>1, <2>2, <2>3, <2>4, <2>5, <2>6, <2>7, <2>8, <2>9, <2>10, <2>11,
         <2>12, <2>13, <2>14, <2>15, <2>16, <2>17, <2>18, <2>19, <2>20, <2>21,
         <2>22, <2>23, <2>24, <2>25, <2>26, <2>27, <2>28, <2>29, <2>30, <2>31,
         <2>32, <2>33, <2>34, <2>35, <2>36, <2>37, <2>38, <2>39, <2>40, <2>41,
         <2>42, <2>43, <2>44, <2>45, <2>46, <2>47, <2>48
        DEF Next, Step, Env, TimerStep
<1>2. PICK p \in Proc : At(p, "install") /\ held_fd = None /\ fd[p] # None
  BY <1>1 DEF Installing
<1>3. \A q \in Proc : hfd[q] = None
  BY <1>2 DEF IInv, SoleOwner, EmptyHanded
<1>4. ~\E f \in Fds : RefreshedFd(f)
  BY <1>2, <1>3, TunerAssumption DEF RefreshedFd
<1>5. \A q \in Proc : pc[q] # "joined"
  BY <1>3 DEF IInv, HandsInv
<1> QED
  BY <1>4, <1>5 DEF IInv, RefresherInv, TypeOK, TypeFields

\* install_hold_fd never overwrites the handle of a refresher that runs or
\* was not joined.
THEOREM NeverLost == Spec => RefresherNeverLost
<1>1. IInv /\ [Next]_vars =>
        [held_fd' # held_fd /\ held_fd' # None => ~stats_started /\ stats_pc =
             "none"]_vars
  BY InstallStep
<1> QED
  BY <1>1, Inductive, PTL DEF Spec, RefresherNeverLost

\* The frontend is in order through every hand-over between hold, park, stream,
\* thread and timer, and whichever call fails (tuner.c).
THEOREM FrontendInOrder == Spec => []FrontendOwned
<1>1. IInv => FrontendOwned
  BY DEF IInv, FrontendOwned
<1> QED
  BY <1>1, Inductive, PTL

\* The promise of stop_held_stats_thread and install_hold_fd as a whole.
THEOREM RefresherIsSafe == Spec => RefresherSafe
  BY RefresherStable, NeverLost, PTL DEF RefresherSafe
=============================================================================
